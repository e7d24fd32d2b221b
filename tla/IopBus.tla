------------------------------- MODULE IopBus -------------------------------
(***************************************************************************)
(* What the devices of the IOP share (bus.rs): the interrupt lines latched *)
(* in I_STAT, and the flag and enable bits of DICR and DICR2, one pair per *)
(* DMA channel.                                                            *)
(***************************************************************************)
EXTENDS Naturals, FiniteSets

CONSTANTS
    Line,         \* interrupt lines of I_STAT: "cdvd", "dma", "spu2", "sio2"
    IopChannel    \* DMA channels of the IOP

\* Completions of the channels share one line.
ASSUME BusAssumption == "dma" \in Line

VARIABLES
    i_stat,       \* lines latched and not acknowledged
    dicr_enabled, \* channels whose completion may interrupt
    dicr_flags    \* channels whose completion is flagged

iop_bus == <<i_stat, dicr_enabled, dicr_flags>>

IopBusOK == /\ i_stat \subseteq Line
            /\ dicr_enabled \subseteq IopChannel /\ dicr_flags \subseteq IopChannel

IopBusInit == i_stat = {} /\ dicr_enabled = {} /\ dicr_flags = {}

\* The channels cs complete, and the lines ls are raised, in one step.
DmaLine(cs) == IF cs \cap dicr_enabled # {} THEN {"dma"} ELSE {}
Complete(cs, ls) ==
    /\ dicr_flags' = dicr_flags \cup cs
    /\ i_stat' = i_stat \cup ls \cup DmaLine(cs)
    /\ UNCHANGED dicr_enabled

\* I_STAT keeps the bits written as 1; the flags of DICR are cleared by them.
AckLines(ls) == /\ i_stat' = i_stat \ ls
                /\ UNCHANGED <<dicr_enabled, dicr_flags>>
DicrWrite(enabled, cleared) ==
    /\ dicr_enabled' = enabled
    /\ dicr_flags' = dicr_flags \ cleared
    /\ UNCHANGED i_stat

\* All that the kernel and the devices together may do to the bus.
BusNext ==
    \/ \E cs \in SUBSET IopChannel, ls \in SUBSET Line : Complete(cs, ls)
    \/ \E ls \in SUBSET Line : AckLines(ls)
    \/ \E enabled \in SUBSET IopChannel, cleared \in SUBSET IopChannel :
          DicrWrite(enabled, cleared)
=============================================================================
