--------------------------- MODULE Devices_proofs ---------------------------
(***************************************************************************)
(* Proofs about the devices of the IOP, each with any other device on the  *)
(* bus, and about the GIF and the VIF.                                     *)
(*                                                                         *)
(* The disc drive, for any discs, chunk counts and areas of the NVRAM: a   *)
(* command interrupts exactly once, with channel 3 armed not before its    *)
(* last sector, nothing of a disc outlives it in the drive, and a          *)
(* configuration session writes its own area only.                         *)
(*                                                                         *)
(* The sound processor, for any length of a half and of a sample, any      *)
(* songs and interrupt addresses: what an AutoDMA stream plays and when    *)
(* its transfer completes, when an interrupt is latched, and what stays of *)
(* a loop point.  A stream rests on InRing: the two halves hold the blocks *)
(* behind the one played last, the others wait in order, and what is left  *)
(* of the transfer is at least what the last of them needs to land         *)
(* (LandsInTime).                                                          *)
(*                                                                         *)
(* The serial port, for any packets, block length and card: where replies  *)
(* are, what polls carry, what the card holds and which reply channel 12   *)
(* moves.  The loop over the sub-transfers is a function of the turn, and  *)
(* what it builds (Sending) is proved by induction on the turn.            *)
(*                                                                         *)
(* The GIF, for any packets: the unpacker k quadwords into a packet        *)
(* (StreamAt) is some items into one of its primitives (Inside) and has    *)
(* written what these items mean, whoever sends the quadwords and in how   *)
(* many transfers.                                                         *)
(*                                                                         *)
(* The VIF, for any lists: the parser stands before a code of its list     *)
(* (OnCode) or some data words into one (Midway), and has done what the    *)
(* codes so far mean.  For lists that lay out their double buffers before  *)
(* they use them, the effects at each code obey double buffering (Steady). *)
(***************************************************************************)
EXTENDS Cdvd, Gif, Sio2, Spu2, Vif, SequenceTheorems, WellFoundedInduction, TLAPS

drive_bus   == <<cdvd, iop_bus>>
AroundDrive == BusNext /\ UNCHANGED cdvd
DriveStep   == CdvdNext \/ ConfigNext \/ AroundDrive

(***************************************************************************)
(* The bus: whatever completes or acknowledges, lines and channels keep    *)
(* their types.                                                            *)
(***************************************************************************)
LEMMA CompleteTypes ==
    ASSUME IopBusOK, NEW cs \in SUBSET IopChannel, NEW ls \in SUBSET Line, Complete(cs, ls)
    PROVE  IopBusOK'
  <1>1. DmaLine(cs) \subseteq Line
    BY BusAssumption DEF DmaLine
  <1> QED
    BY <1>1 DEF IopBusOK, Complete

LEMMA BusTypes == IopBusOK /\ BusNext => IopBusOK'
  <1> SUFFICES ASSUME IopBusOK, BusNext PROVE IopBusOK'
    OBVIOUS
  <1>1. CASE \E cs \in SUBSET IopChannel, ls \in SUBSET Line : Complete(cs, ls)
    BY <1>1, CompleteTypes
  <1>2. CASE \E ls \in SUBSET Line : AckLines(ls)
    BY <1>2 DEF AckLines, IopBusOK
  <1>3. CASE \E enabled \in SUBSET IopChannel, cleared \in SUBSET IopChannel :
                DicrWrite(enabled, cleared)
    BY <1>3 DEF DicrWrite, IopBusOK
  <1> QED
    BY <1>1, <1>2, <1>3 DEF BusNext

\* A transfer of n chunks: what it leaves, whether it ends the command held
\* for it, and that it touches the bus as any completion does.
LEMMA MinusFacts ==
    ASSUME NEW a \in Nat, NEW b \in Nat
    PROVE  Minus(a, b) \in Nat /\ Minus(a, b) =< a
  BY DEF Minus

LEMMA DrainFacts ==
    ASSUME NEW n \in 1 .. MaxChunks, NEW held \in BOOLEAN, CdDrain(n, held),
           staged \in Nat, IopBusOK
    PROVE  /\ staged' \in Nat /\ staged' =< staged
           /\ done_after_drain' = (held /\ staged' > 0)
           /\ owed' = IF held /\ staged' = 0 THEN owed - 1 ELSE owed
           /\ IopBusOK'
  <1>1. staged' = Minus(staged, n) /\ staged' \in Nat /\ staged' =< staged
    BY MinusFacts, CdvdAssumption DEF CdDrain
  <1>2. IopBusOK'
    BY CompleteTypes, CdvdAssumption DEF CdDrain
  <1>3. /\ done_after_drain' = (held /\ ~(held /\ Minus(staged, n) = 0))
        /\ owed' = IF held /\ Minus(staged, n) = 0 THEN owed - 1 ELSE owed
    BY DEF CdDrain, CdHeld, DrainDone
  <1> QED
    BY <1>1, <1>2, <1>3

(***************************************************************************)
(* The invariant of the drive.                                             *)
(***************************************************************************)
CdvdInv == DriveHolds /\ IopBusOK /\ CompletionOnce /\ NothingOfAnotherDisc /\ ConfigConfined

LEMMA CdvdStarts == IopBusInit /\ CdvdInit => CdvdInv
  <1> SUFFICES ASSUME IopBusInit, CdvdInit PROVE CdvdInv
    OBVIOUS
  <1>1. DriveTypes
    BY DEF CdvdInit, DriveTypes, NoSession
  <1>2. HeldLeft /\ TrayEmpty /\ CompletionOnce /\ NothingOfAnotherDisc
    BY DEF CdvdInit, HeldLeft, TrayEmpty, CompletionOnce, NothingOfAnotherDisc
  <1>3. ConfigConfined
    BY DEF CdvdInit, ConfigConfined
  <1>4. IopBusOK
    BY DEF IopBusInit, IopBusOK
  <1> QED
    BY <1>1, <1>2, <1>3, <1>4 DEF CdvdInv, DriveHolds

\* The tray and the motor.
LEMMA TrayKeeps ==
    CdvdInv /\ (OpenTray \/ CloseTray \/ Settle \/ Resettle) => CdvdInv'
  <1> SUFFICES ASSUME CdvdInv, OpenTray \/ CloseTray \/ Settle \/ Resettle PROVE CdvdInv'
    OBVIOUS
  <1>0. DriveTypes /\ HeldLeft /\ TrayEmpty /\ CompletionOnce /\ NothingOfAnotherDisc
    BY DEF CdvdInv, DriveHolds
  <1>1. UNCHANGED <<iop_bus, cfg, nvram>>
    BY DEF OpenTray, CloseTray, Settle, Resettle, config
  <1>2. IopBusOK' /\ ConfigConfined'
    BY <1>1 DEF iop_bus, IopBusOK, ConfigConfined, CdvdInv
  <1>3. CASE OpenTray
    <2>1. /\ tray_open' = TRUE /\ disc' = NoDisc /\ key' = NoDisc /\ staged' = 0
          /\ done_after_drain' = FALSE /\ excused' \in {excused, TRUE}
          /\ owed' = IF done_after_drain THEN 0 ELSE owed
          /\ shelf' = disc /\ UNCHANGED <<n_busy, dma_deferred>>
      BY <1>0, <1>3 DEF OpenTray, DriveTypes
    <2>2. DriveTypes'
      BY <1>0, <1>1, <2>1 DEF DriveTypes
    <2>3. HeldLeft' /\ TrayEmpty' /\ NothingOfAnotherDisc'
      BY <2>1 DEF HeldLeft, TrayEmpty, NothingOfAnotherDisc
    <2>4. CompletionOnce'
      BY <1>0, <2>1 DEF HeldLeft, CompletionOnce
    <2> QED
      BY <1>2, <2>2, <2>3, <2>4 DEF CdvdInv, DriveHolds
  <1>4. CASE CloseTray
    <2>1. /\ tray_open /\ tray_open' = FALSE /\ disc' \in {shelf} \cup Disc /\ shelf' = NoDisc
          /\ UNCHANGED <<n_busy, staged, staged_from, dma_deferred, done_after_drain, key,
                         owed, excused>>
      BY <1>4 DEF CloseTray, command
    <2>2. DriveTypes'
      BY <1>0, <1>1, <2>1 DEF DriveTypes
    <2>3. HeldLeft' /\ TrayEmpty' /\ NothingOfAnotherDisc' /\ CompletionOnce'
      BY <1>0, <2>1 DEF HeldLeft, TrayEmpty, NothingOfAnotherDisc, CompletionOnce
    <2> QED
      BY <1>2, <2>2, <2>3 DEF CdvdInv, DriveHolds
  <1>5. CASE Settle \/ Resettle
    <2>1. UNCHANGED <<disc, tray_open, shelf, n_busy, staged, staged_from, dma_deferred,
                      done_after_drain, key, owed, excused>>
      BY <1>5 DEF Settle, Resettle, command
    <2>2. DriveTypes'
      BY <1>0, <1>1, <2>1 DEF DriveTypes
    <2>3. HeldLeft' /\ TrayEmpty' /\ NothingOfAnotherDisc' /\ CompletionOnce'
      BY <1>0, <2>1 DEF HeldLeft, TrayEmpty, NothingOfAnotherDisc, CompletionOnce
    <2> QED
      BY <1>2, <2>2, <2>3 DEF CdvdInv, DriveHolds
  <1> QED
    BY <1>3, <1>4, <1>5

\* The commands: none is taken while one is running or held.
LEMMA CommandKeeps ==
    CdvdInv /\ (NRead \/ NReadKey \/ NQuick) => CdvdInv'
  <1> SUFFICES ASSUME CdvdInv, NRead \/ NReadKey \/ NQuick PROVE CdvdInv'
    OBVIOUS
  <1>0. DriveTypes /\ HeldLeft /\ TrayEmpty /\ CompletionOnce /\ NothingOfAnotherDisc
    BY DEF CdvdInv, DriveHolds
  <1>1. /\ UNCHANGED <<iop_bus, cfg, nvram, disc, tray_open, shelf, dma_deferred, excused>>
        /\ n_busy' = TRUE /\ owed' = 1
    BY DEF NRead, NReadKey, NQuick, config, drive
  <1>2. IopBusOK' /\ ConfigConfined'
    BY <1>1 DEF iop_bus, IopBusOK, ConfigConfined, CdvdInv
  <1>3. ~n_busy /\ ~done_after_drain
    BY <1>0 DEF NRead, NReadKey, NQuick, Free, CompletionOnce
  <1>4. /\ done_after_drain' = FALSE
        /\ \/ key' = key /\ staged' = 0
           \/ key' = key /\ ~tray_open /\ staged' \in Nat /\ staged_from' = disc
           \/ key' = disc /\ UNCHANGED <<staged, staged_from>>
           \/ UNCHANGED <<key, staged, staged_from>>
    <2>1. CASE NRead
      <3>1. 1 .. MaxChunks \subseteq Nat
        BY CdvdAssumption
      <3> QED
        BY <2>1, <3>1 DEF NRead, Loaded
    <2>2. CASE NReadKey \/ NQuick
      BY <1>0, <1>3, <2>2 DEF NReadKey, NQuick, DriveTypes
    <2> QED
      BY <2>1, <2>2
  <1>5. DriveTypes'
    <2>1. staged' \in Nat
      BY <1>0, <1>4 DEF DriveTypes
    <2> QED
      BY <1>0, <1>1, <1>4, <2>1 DEF DriveTypes
  <1>6. HeldLeft' /\ CompletionOnce'
    BY <1>1, <1>4 DEF HeldLeft, CompletionOnce
  <1>7. TrayEmpty' /\ NothingOfAnotherDisc'
    BY <1>0, <1>1, <1>4 DEF TrayEmpty, NothingOfAnotherDisc
  <1> QED
    BY <1>2, <1>5, <1>6, <1>7 DEF CdvdInv, DriveHolds

\* What a transfer leaves keeps the invariant, when it ends the command held
\* for its last chunk or holds it further.
LEMMA DrainKeeps ==
    ASSUME CdvdInv, NEW n \in 1 .. MaxChunks, NEW held \in BOOLEAN, CdDrain(n, held),
           n_busy' = FALSE, dma_deferred' \in BOOLEAN, held <=> (n_busy \/ done_after_drain),
           UNCHANGED <<disc, tray_open, shelf, staged_from, key, cfg, nvram, excused>>
    PROVE  CdvdInv'
  <1>0. DriveTypes /\ HeldLeft /\ TrayEmpty /\ CompletionOnce /\ NothingOfAnotherDisc
    BY DEF CdvdInv, DriveHolds
  <1>1. /\ staged \in Nat /\ staged' \in Nat /\ staged' =< staged
        /\ done_after_drain' = (held /\ staged' > 0)
        /\ owed' = IF held /\ staged' = 0 THEN owed - 1 ELSE owed
        /\ IopBusOK'
    BY <1>0, DrainFacts DEF CdvdInv, DriveTypes
  <1>2. DriveTypes'
    BY <1>0, <1>1 DEF DriveTypes
  <1>3. HeldLeft' /\ TrayEmpty' /\ NothingOfAnotherDisc'
    <2>1. done_after_drain' => staged' > 0
      BY <1>1
    <2>2. staged' > 0 => staged > 0
      BY <1>1
    <2>3. HeldLeft'
      BY <2>1 DEF HeldLeft
    <2>4. TrayEmpty'
      BY <1>0, <1>1 DEF TrayEmpty
    <2>5. NothingOfAnotherDisc'
      BY <1>0, <2>2 DEF NothingOfAnotherDisc
    <2> QED
      BY <2>3, <2>4, <2>5
  <1>4. CompletionOnce'
    <2>1. owed = IF held THEN 1 ELSE 0
      BY <1>0 DEF CompletionOnce
    <2>2. done_after_drain' <=> held /\ staged' > 0
      BY <1>1
    <2> QED
      BY <1>1, <2>1, <2>2 DEF CompletionOnce
  <1>5. ConfigConfined'
    BY DEF CdvdInv, ConfigConfined
  <1> QED
    BY <1>1, <1>2, <1>3, <1>4, <1>5 DEF CdvdInv, DriveHolds

\* The channel, the end of a command, and a load.
LEMMA StartKeeps == CdvdInv /\ StartCdvdDma => CdvdInv'
  <1> SUFFICES ASSUME CdvdInv, StartCdvdDma PROVE CdvdInv'
    OBVIOUS
  <1>0. DriveTypes /\ HeldLeft /\ TrayEmpty /\ CompletionOnce /\ NothingOfAnotherDisc
    BY DEF CdvdInv, DriveHolds
  <1>1. CASE dma_deferred' = TRUE /\ UNCHANGED <<drive, n_busy, staged, staged_from,
                done_after_drain, key, config, owed, excused, iop_bus>>
    <2>1. IopBusOK' /\ ConfigConfined'
      BY <1>1 DEF iop_bus, config, IopBusOK, ConfigConfined, CdvdInv
    <2>2. DriveTypes'
      BY <1>0, <1>1 DEF DriveTypes, drive, config
    <2>3. HeldLeft' /\ TrayEmpty' /\ CompletionOnce' /\ NothingOfAnotherDisc'
      BY <1>0, <1>1 DEF HeldLeft, TrayEmpty, CompletionOnce, NothingOfAnotherDisc, drive
    <2> QED
      BY <2>1, <2>2, <2>3 DEF CdvdInv, DriveHolds
  <1>2. CASE /\ ~n_busy /\ Remaining
             /\ \E n \in 1 .. MaxChunks : CdDrain(n, done_after_drain)
             /\ UNCHANGED <<drive, n_busy, staged_from, dma_deferred, key, config, excused>>
    <2>1. done_after_drain \in BOOLEAN /\ dma_deferred' \in BOOLEAN
      BY <1>0, <1>2 DEF DriveTypes
    <2>2. UNCHANGED <<disc, tray_open, shelf, staged_from, key, cfg, nvram, excused>>
          /\ n_busy' = FALSE
      BY <1>0, <1>2 DEF drive, config, DriveTypes
    <2> QED
      BY <1>2, <2>1, <2>2, DrainKeeps
  <1> QED
    BY <1>1, <1>2 DEF StartCdvdDma

LEMMA FinishKeeps == CdvdInv /\ FinishN => CdvdInv'
  <1> SUFFICES ASSUME CdvdInv, FinishN PROVE CdvdInv'
    OBVIOUS
  <1>0. DriveTypes /\ HeldLeft /\ TrayEmpty /\ CompletionOnce /\ NothingOfAnotherDisc
    BY DEF CdvdInv, DriveHolds
  <1>1. n_busy /\ n_busy' = FALSE
        /\ UNCHANGED <<disc, tray_open, shelf, staged_from, key, cfg, nvram, excused>>
    BY DEF FinishN, drive, config
  <1>2. CASE dma_deferred /\ Remaining
    <2>1. PICK n \in 1 .. MaxChunks : CdDrain(n, TRUE) /\ dma_deferred' = FALSE
      BY <1>2 DEF FinishN
    <2> QED
      BY <1>1, <2>1, DrainKeeps
  <1>3. CASE ~(dma_deferred /\ Remaining)
    <2>1. /\ Complete({}, {"cdvd"}) /\ owed' = owed - 1
          /\ UNCHANGED <<staged, dma_deferred, done_after_drain>>
      BY <1>3 DEF FinishN
    <2>2. IopBusOK'
      BY <2>1, CompleteTypes, CdvdAssumption DEF CdvdInv
    <2>3. DriveTypes'
      BY <1>0, <1>1, <2>1 DEF DriveTypes
    <2>4. HeldLeft' /\ TrayEmpty' /\ CompletionOnce' /\ NothingOfAnotherDisc'
      BY <1>0, <1>1, <2>1 DEF HeldLeft, TrayEmpty, CompletionOnce, NothingOfAnotherDisc
    <2>5. ConfigConfined'
      BY <1>1 DEF CdvdInv, ConfigConfined
    <2> QED
      BY <2>2, <2>3, <2>4, <2>5 DEF CdvdInv, DriveHolds
  <1> QED
    BY <1>2, <1>3

\* A loaded state holds a command exactly when it has sectors left for it.
LEMMA LoadKeeps == CdvdInv /\ CdvdAfterLoad => CdvdInv'
  <1> SUFFICES ASSUME CdvdInv, CdvdAfterLoad PROVE CdvdInv'
    OBVIOUS
  <1>0. DriveTypes /\ HeldLeft /\ TrayEmpty /\ CompletionOnce /\ NothingOfAnotherDisc
    BY DEF CdvdInv, DriveHolds
  <1>1. /\ UNCHANGED <<disc, tray_open, shelf, n_busy, staged, staged_from, dma_deferred, key,
                       cfg, nvram, iop_bus>>
        /\ done_after_drain' = (~n_busy /\ staged > 0) /\ excused' = TRUE
        /\ owed' = IF done_after_drain' THEN 1 ELSE owed
        /\ done_after_drain' # done_after_drain
    BY DEF CdvdAfterLoad, drive, config, Remaining
  <1>2. ~done_after_drain /\ ~n_busy /\ staged > 0
    BY <1>0, <1>1 DEF HeldLeft, DriveTypes
  <1>3. IopBusOK' /\ ConfigConfined'
    BY <1>1 DEF iop_bus, IopBusOK, ConfigConfined, CdvdInv
  <1>4. DriveTypes'
    BY <1>0, <1>1 DEF DriveTypes
  <1>5. HeldLeft' /\ TrayEmpty' /\ CompletionOnce' /\ NothingOfAnotherDisc'
    BY <1>0, <1>1, <1>2 DEF HeldLeft, TrayEmpty, CompletionOnce, NothingOfAnotherDisc
  <1> QED
    BY <1>3, <1>4, <1>5 DEF CdvdInv, DriveHolds

\* The configuration: the block written lies in the area of the session.
LEMMA ConfigKeeps == CdvdInv /\ ConfigNext => CdvdInv'
  <1> SUFFICES ASSUME CdvdInv, ConfigNext PROVE CdvdInv'
    OBVIOUS
  <1>0. UNCHANGED <<drive, command, owed, excused, iop_bus>>
    BY DEF ConfigNext, OpenConfig, ReadConfig, WriteConfig, CloseConfig
  <1>1. /\ IopBusOK' /\ CompletionOnce' /\ NothingOfAnotherDisc'
    BY <1>0 DEF CdvdInv, drive, command, iop_bus, IopBusOK, CompletionOnce, NothingOfAnotherDisc
  <1>2. cfg.index \in Nat /\ cfg'.index \in Nat
    <2>1. cfg.index \in Nat
      BY DEF CdvdInv, DriveHolds, DriveTypes
    <2>2. CASE OpenConfig \/ CloseConfig
      BY <2>1, <2>2 DEF OpenConfig, CloseConfig, NoSession
    <2>3. CASE cfg' = [cfg EXCEPT !.index = @ + 1]
      BY <2>1, <2>3
    <2> QED
      BY <2>1, <2>2, <2>3 DEF ConfigNext, ReadConfig, WriteConfig
  <1>3. DOMAIN nvram' = CfgBlock /\ ConfigConfined'
    <2>1. CASE WriteConfig
      <3>1. nvram' = [b \in CfgBlock |->
                        IF cfg.write /\ b \in CfgTarget THEN cfg.area ELSE nvram[b]]
        BY <2>1 DEF WriteConfig
      <3>2. ASSUME NEW b \in CfgBlock, b \in CfgTarget
            PROVE  b \in CfgArea[cfg.area].base ..
                          (CfgArea[cfg.area].base + CfgArea[cfg.area].cap - 1)
        <4>1. /\ cfg.area \in DOMAIN CfgArea /\ cfg.index < CfgArea[cfg.area].cap
              /\ b = CfgArea[cfg.area].base + cfg.index
          BY <3>2 DEF CfgTarget
        <4>2. cfg.index \in Nat
          BY <1>2
        <4> QED
          BY <4>1, <4>2, CdvdAssumption
      <3> SUFFICES ASSUME NEW b \in CfgBlock, nvram'[b] # Unwritten
                   PROVE  b \in CfgArea[nvram'[b]].base ..
                                 (CfgArea[nvram'[b]].base + CfgArea[nvram'[b]].cap - 1)
        BY <3>1 DEF ConfigConfined
      <3>3. CASE cfg.write /\ b \in CfgTarget
        <4>1. nvram'[b] = cfg.area
          BY <3>1, <3>3
        <4> QED
          BY <3>2, <3>3, <4>1
      <3>4. CASE ~(cfg.write /\ b \in CfgTarget)
        <4>1. nvram'[b] = nvram[b]
          BY <3>1, <3>4
        <4> QED
          BY <4>1 DEF CdvdInv, ConfigConfined
      <3> QED
        BY <3>3, <3>4
    <2>2. CASE nvram' = nvram
      BY <2>2 DEF CdvdInv, DriveHolds, DriveTypes, ConfigConfined
    <2> QED
      BY <2>1, <2>2 DEF ConfigNext, OpenConfig, ReadConfig, CloseConfig
  <1>4. DriveHolds'
    <2>1. DriveTypes'
      BY <1>0, <1>2, <1>3 DEF CdvdInv, DriveHolds, DriveTypes, drive, command
    <2>2. HeldLeft' /\ TrayEmpty'
      BY <1>0 DEF CdvdInv, DriveHolds, HeldLeft, TrayEmpty, drive, command
    <2> QED
      BY <2>1, <2>2 DEF DriveHolds
  <1> QED
    BY <1>1, <1>3, <1>4 DEF CdvdInv

LEMMA CdvdKeeps == CdvdInv /\ [DriveStep]_drive_bus => CdvdInv'
  <1> SUFFICES ASSUME CdvdInv, [DriveStep]_drive_bus PROVE CdvdInv'
    OBVIOUS
  <1>a. UNCHANGED cdvd /\ IopBusOK' => CdvdInv'
    BY DEF cdvd, drive, command, config, CdvdInv, DriveHolds, DriveTypes, HeldLeft,
           TrayEmpty, CompletionOnce, NothingOfAnotherDisc, ConfigConfined
  <1>1. CASE CdvdNext
    BY <1>1, TrayKeeps, CommandKeeps, StartKeeps, FinishKeeps, LoadKeeps DEF CdvdNext
  <1>2. CASE ConfigNext
    BY <1>2, ConfigKeeps
  <1>3. CASE AroundDrive
    BY <1>a, <1>3, BusTypes DEF AroundDrive, CdvdInv
  <1>4. CASE UNCHANGED drive_bus
    BY <1>a, <1>4 DEF drive_bus, iop_bus, CdvdInv, IopBusOK
  <1> QED
    BY <1>1, <1>2, <1>3, <1>4 DEF DriveStep

\* A command that the host did not cut short interrupts, with channel 3 armed
\* for it, when its last sector is out.
LEMMA LastSectorFirst ==
    ASSUME CdvdInv, DriveStep, owed' < owed, ~excused', dma_deferred
    PROVE  staged' = 0
  <1>0. /\ DriveTypes /\ CompletionOnce /\ staged \in Nat /\ IopBusOK
        /\ done_after_drain \in BOOLEAN /\ owed \in {0, 1}
    BY DEF CdvdInv, DriveHolds, DriveTypes, CompletionOnce
  <1>1. CASE OpenTray
    BY <1>0, <1>1 DEF OpenTray
  <1>2. CASE CloseTray \/ Settle \/ Resettle \/ ConfigNext \/ AroundDrive
    <2>1. owed' = owed
      BY <1>2 DEF CloseTray, Settle, Resettle, ConfigNext, OpenConfig, ReadConfig, WriteConfig,
                  CloseConfig, AroundDrive, cdvd
    <2> QED
      BY <1>0, <2>1
  <1>3. CASE NRead \/ NReadKey \/ NQuick \/ CdvdAfterLoad
    <2>1. owed' \in {1, owed}
      BY <1>3 DEF NRead, NReadKey, NQuick, CdvdAfterLoad
    <2> QED
      BY <1>0, <2>1
  <1>4. CASE StartCdvdDma
    <2>1. CASE owed' = owed
      BY <1>0, <2>1
    <2>2. CASE \E n \in 1 .. MaxChunks : CdDrain(n, done_after_drain)
      <3>1. PICK n \in 1 .. MaxChunks : CdDrain(n, done_after_drain)
        BY <2>2
      <3>2. owed' = IF done_after_drain /\ staged' = 0 THEN owed - 1 ELSE owed
        BY <1>0, <3>1, DrainFacts
      <3> QED
        BY <1>0, <3>2
    <2> QED
      BY <1>4, <2>1, <2>2 DEF StartCdvdDma
  <1>5. CASE FinishN
    <2>1. CASE Remaining
      <3>1. PICK n \in 1 .. MaxChunks : CdDrain(n, TRUE)
        BY <1>5, <2>1 DEF FinishN
      <3>2. owed' = IF staged' = 0 THEN owed - 1 ELSE owed
        BY <1>0, <3>1, DrainFacts
      <3> QED
        BY <1>0, <3>2
    <2>2. CASE ~Remaining
      BY <1>0, <1>5, <2>2 DEF FinishN, Remaining
    <2> QED
      BY <2>1, <2>2
  <1> QED
    BY <1>1, <1>2, <1>3, <1>4, <1>5 DEF DriveStep, CdvdNext

THEOREM CdvdInvariant == CdvdSpec => []CdvdInv
  <1>1. CdvdInv /\ [CdvdNext \/ ConfigNext \/ (BusNext /\ UNCHANGED cdvd)]_<<cdvd, iop_bus>>
          => CdvdInv'
    BY CdvdKeeps DEF DriveStep, AroundDrive, drive_bus
  <1> QED
    BY <1>1, CdvdStarts, PTL DEF CdvdSpec

\* The promise of the drive to its driver (bus.rs, Cdvd), whatever the tray,
\* the channel, a load and the other devices do and in whatever order.
THEOREM CdvdDriveKept == CdvdSpec => DriveKept
  <1>1. CdvdInv => IopBusOK /\ CompletionOnce /\ NothingOfAnotherDisc /\ ConfigConfined
    BY DEF CdvdInv
  <1>2. CdvdInv /\ [CdvdNext \/ ConfigNext \/ (BusNext /\ UNCHANGED cdvd)]_<<cdvd, iop_bus>>
          => [owed' < owed /\ ~excused' /\ dma_deferred => staged' = 0]_<<cdvd, iop_bus>>
    BY LastSectorFirst DEF DriveStep, AroundDrive
  <1> QED
    BY <1>1, <1>2, CdvdInvariant, PTL DEF CdvdSpec, DriveKept, DoneAfterLastSector

(***************************************************************************)
(* Arithmetic of the blocks of sound RAM.                                  *)
(***************************************************************************)
LEMMA ProductTypes == \A a, b \in Nat : a * b \in Nat
  OBVIOUS

LEMMA ProductMono == \A a, b, e \in Nat : a =< b => a * e =< b * e
  BY SMTT(30)

LEMMA DivOf ==
    ASSUME NEW e \in Nat \ {0}, NEW q \in Nat, NEW r \in 0 .. (e - 1)
    PROVE  (q * e + r) \div e = q /\ (q * e + r) % e = r
  BY SMTT(30)

LEMMA ModOf ==
    ASSUME NEW m \in Nat \ {0}, NEW a \in Nat
    PROVE  /\ a < m => a % m = a
           /\ a % m \in 0 .. (m - 1)
           /\ m % m = 0
           /\ a < m => ((a - m) % m = a)
  BY SMTT(30)

LEMMA BlockFacts ==
    ASSUME NEW b \in 0 .. (RingBlocks - 1)
    PROVE  /\ b * BLOCK \in Nat /\ (b * BLOCK) \div BLOCK = b
           /\ b * BLOCK + BLOCK =< Halfwords
           /\ (b * BLOCK + BLOCK) % Halfwords \in BlockStart
           /\ \A i \in 0 .. (BLOCK - 1) :
                 ((((b * BLOCK + BLOCK) % Halfwords) - BLOCK + i) % Halfwords) \div BLOCK = b
  <1> DEFINE x == b * BLOCK
  <1>1. BLOCK \in Nat \ {0} /\ RingBlocks \in Nat \ {0} /\ Halfwords = RingBlocks * BLOCK
    BY SpuAssumption
  <1>2. x \in Nat /\ Halfwords \in Nat /\ (b + 1) * BLOCK = x + BLOCK /\ b \in Nat /\ b + 1 =< RingBlocks
    BY <1>1, ProductTypes
  <1>3. x + BLOCK =< Halfwords
    BY <1>1, <1>2, ProductMono
  <1>4. x \div BLOCK = b
    <2>1. (b * BLOCK + 0) \div BLOCK = b /\ 0 \in 0 .. (BLOCK - 1)
      BY <1>1, <1>2, DivOf
    <2> QED
      BY <2>1, <1>2
  <1>5. \A i \in 0 .. (BLOCK - 1) : (x + i) \div BLOCK = b
    BY <1>1, <1>2, DivOf
  <1>6. \A k \in 0 .. (RingBlocks - 1) : k * BLOCK \in BlockStart
    BY DEF BlockStart
  <1>7. 0 * BLOCK = 0 /\ 0 \in 0 .. (RingBlocks - 1)
    BY <1>1
  <1>8. Halfwords \in Nat \ {0}
    BY <1>1, <1>2, <1>3
  <1>11. x + BLOCK \in Nat
    BY <1>1, <1>2
  <1>9. (x + BLOCK) % Halfwords \in BlockStart
    <2>1. CASE x + BLOCK = Halfwords
      BY <2>1, <1>6, <1>7, <1>8, ModOf
    <2>2. CASE x + BLOCK < Halfwords
      <3>1. (x + BLOCK) % Halfwords = x + BLOCK
        BY <2>2, <1>8, <1>11, ModOf, Zenon
      <3>2. b + 1 # RingBlocks
        BY <2>2, <1>1, <1>2
      <3>3. b + 1 \in 0 .. (RingBlocks - 1)
        BY <3>2, <1>1, <1>2
      <3>4. (b + 1) * BLOCK \in BlockStart
        BY <3>3, <1>6, Zenon
      <3> QED
        BY <3>1, <3>4, <1>2, Zenon
    <2> QED
      BY <2>1, <2>2, <1>1, <1>2, <1>3
  <1>10. ASSUME NEW i \in 0 .. (BLOCK - 1)
         PROVE  ((((x + BLOCK) % Halfwords) - BLOCK + i) % Halfwords) \div BLOCK = b
    <2>0. x + i \in Nat /\ x + i < Halfwords
      BY <1>1, <1>2, <1>3
    <2>1. CASE x + BLOCK = Halfwords
      <3>1. (x + BLOCK) % Halfwords = 0
        BY <2>1, <1>8, ModOf
      <3>2. 0 - BLOCK + i = (x + i) - Halfwords
        BY <2>1, <1>1, <1>2
      <3>3. ((x + i) - Halfwords) % Halfwords = x + i
        BY <2>0, <1>8, ModOf
      <3> QED
        BY <3>1, <3>2, <3>3, <1>5
    <2>2. CASE x + BLOCK < Halfwords
      <3>1. (x + BLOCK) % Halfwords = x + BLOCK
        BY <2>2, <1>8, <1>11, ModOf, Zenon
      <3>2. (x + BLOCK) - BLOCK + i = x + i
        BY <1>1, <1>2
      <3>3. (x + i) % Halfwords = x + i
        BY <2>0, <1>8, ModOf
      <3> QED
        BY <3>1, <3>2, <3>3, <1>5
    <2> QED
      BY <2>1, <2>2, <1>1, <1>2, <1>3
  <1> QED
    BY <1>2, <1>3, <1>4, <1>9, <1>10

(***************************************************************************)
(* The interrupt and the voice.                                            *)
(***************************************************************************)
SoundInv == SoundTypes /\ LatchedWhileEnabled

LEMMA SoundStarts == SoundInit => SoundInv
  <1> SUFFICES ASSUME SoundInit PROVE SoundInv
    OBVIOUS
  <1>1. 0 \in BlockStart
    <2>1. 0 * BLOCK = 0 /\ 0 \in 0 .. (RingBlocks - 1)
      BY SpuAssumption
    <2> QED
      BY <2>1 DEF BlockStart
  <1>2. SoundTypes
    BY <1>1 DEF SoundInit, SoundTypes, Off
  <1> QED
    BY <1>2 DEF SoundInit, SoundInv, LatchedWhileEnabled

\* What begins a block: it starts on a block and is left on the next one.
LEMMA DecodeFacts ==
    ASSUME SoundTypes, NEW v, NEW b \in 0 .. (RingBlocks - 1), v.nax = b * BLOCK,
           v \in [phase : {"off", "on"}, nax : BlockStart, lsax : BlockStart, pinned : BOOLEAN,
                  flags : SUBSET {"start", "end", "repeat"}, endx : BOOLEAN]
    PROVE  /\ Decode(v) \in [phase : {"off", "on"}, nax : BlockStart, lsax : BlockStart,
                             pinned : BOOLEAN, flags : SUBSET {"start", "end", "repeat"},
                             endx : BOOLEAN]
           /\ Decode(v).phase = v.phase /\ Decode(v).pinned = v.pinned
           /\ v.pinned => Decode(v).lsax = v.lsax
           /\ \A h \in Fetched(Decode(v)) : h \div BLOCK = b
  <1>1. /\ (b * BLOCK) \div BLOCK = b
        /\ (b * BLOCK + BLOCK) % Halfwords \in BlockStart
        /\ \A i \in 0 .. (BLOCK - 1) :
              ((((b * BLOCK + BLOCK) % Halfwords) - BLOCK + i) % Halfwords) \div BLOCK = b
    BY BlockFacts
  <1>2. song[b] \subseteq {"start", "end", "repeat"}
    BY SpuAssumption DEF SoundTypes
  <1>3. /\ Decode(v).nax = (b * BLOCK + BLOCK) % Halfwords
        /\ Decode(v).flags = song[b] /\ Decode(v).phase = v.phase
        /\ Decode(v).pinned = v.pinned /\ Decode(v).lsax \in {v.nax, v.lsax}
        /\ v.pinned => Decode(v).lsax = v.lsax
        /\ Decode(v) = [v EXCEPT !.flags = song[b], !.lsax = Decode(v).lsax,
                                 !.nax = (b * BLOCK + BLOCK) % Halfwords]
    BY <1>1 DEF Decode
  <1>4. Decode(v).lsax \in BlockStart
    BY <1>3
  <1>5. Decode(v) \in [phase : {"off", "on"}, nax : BlockStart, lsax : BlockStart,
                       pinned : BOOLEAN, flags : SUBSET {"start", "end", "repeat"},
                       endx : BOOLEAN]
    BY <1>1, <1>2, <1>3, <1>4
  <1>6. \A h \in Fetched(Decode(v)) : h \div BLOCK = b
    <2> DEFINE n == Decode(v).nax
    <2>1. n = (b * BLOCK + BLOCK) % Halfwords
      BY <1>3
    <2> HIDE DEF n
    <2>2. \A i \in 0 .. (BLOCK - 1) : ((n - BLOCK + i) % Halfwords) \div BLOCK = b
      BY <1>1, <2>1, Zenon
    <2>3. Fetched(Decode(v)) = {(n - BLOCK + i) % Halfwords : i \in 0 .. BLOCK - 1}
      BY Zenon DEF Fetched, n
    <2> QED
      BY <2>2, <2>3, Zenon
  <1> QED
    BY <1>3, <1>5, <1>6

LEMMA StepFacts ==
    ASSUME SoundTypes, voice.phase = "on"
    PROVE  /\ NextBlock(voice) \in [phase : {"off", "on"}, nax : BlockStart, lsax : BlockStart,
                                    pinned : BOOLEAN, flags : SUBSET {"start", "end", "repeat"},
                                    endx : BOOLEAN]
           /\ NextBlock(voice).pinned = voice.pinned
           /\ voice.pinned => NextBlock(voice).lsax = voice.lsax
           /\ NextBlock(voice).phase = "on" =>
                 \A h \in Fetched(NextBlock(voice)) :
                    h \div BLOCK = (IF {"end", "repeat"} \subseteq voice.flags THEN voice.lsax
                                    ELSE voice.nax) \div BLOCK
  <1> DEFINE Voice == [phase : {"off", "on"}, nax : BlockStart, lsax : BlockStart,
                       pinned : BOOLEAN, flags : SUBSET {"start", "end", "repeat"},
                       endx : BOOLEAN]
             looped == [voice EXCEPT !.endx = TRUE, !.nax = voice.lsax]
  <1>0. voice \in Voice
    BY DEF SoundTypes
  <1>1. CASE "end" \notin voice.flags
    <2>1. PICK b \in 0 .. (RingBlocks - 1) : voice.nax = b * BLOCK
      BY <1>0 DEF BlockStart
    <2>2. NextBlock(voice) = Decode(voice)
      BY <1>1 DEF NextBlock
    <2>3. /\ Decode(voice) \in Voice /\ Decode(voice).pinned = voice.pinned
          /\ voice.pinned => Decode(voice).lsax = voice.lsax
          /\ \A h \in Fetched(Decode(voice)) : h \div BLOCK = b
      BY <2>1, <1>0, DecodeFacts
    <2>4. voice.nax \div BLOCK = b
      BY <2>1, BlockFacts
    <2> QED
      BY <1>1, <2>2, <2>3, <2>4
  <1>2. CASE "end" \in voice.flags /\ "repeat" \in voice.flags
    <2>1. PICK b \in 0 .. (RingBlocks - 1) : voice.lsax = b * BLOCK
      BY <1>0 DEF BlockStart
    <2>2. NextBlock(voice) = Decode(looped)
      BY <1>2 DEF NextBlock
    <2>3. looped \in Voice /\ looped.nax = b * BLOCK /\ looped.pinned = voice.pinned
          /\ looped.lsax = voice.lsax
      BY <1>0, <2>1
    <2> HIDE DEF looped
    <2>4. /\ Decode(looped) \in Voice /\ Decode(looped).pinned = looped.pinned
          /\ looped.pinned => Decode(looped).lsax = looped.lsax
          /\ \A h \in Fetched(Decode(looped)) : h \div BLOCK = b
      BY <2>3, DecodeFacts
    <2>5. voice.lsax \div BLOCK = b
      BY <2>1, BlockFacts
    <2> QED
      BY <1>2, <2>2, <2>3, <2>4, <2>5
  <1>3. CASE "end" \in voice.flags /\ "repeat" \notin voice.flags
    <2>1. NextBlock(voice) = [voice EXCEPT !.endx = TRUE, !.nax = voice.lsax, !.phase = "off"]
      BY <1>3 DEF NextBlock
    <2> QED
      BY <2>1, <1>0
  <1> QED
    BY <1>1, <1>2, <1>3

LEMMA SoundKeeps == SoundInv /\ (SoundNext \/ UNCHANGED sound) => SoundInv'
  <1> SUFFICES ASSUME SoundInv, SoundNext \/ UNCHANGED sound PROVE SoundInv'
    OBVIOUS
  <1>0. SoundTypes /\ LatchedWhileEnabled
    BY DEF SoundInv
  <1>1. CASE AttrWrite
    <2>1. PICK c \in Core, on \in BOOLEAN : SetIrqEnable(c, on)
      BY <1>1 DEF AttrWrite
    <2>2. SoundTypes'
      BY <1>0, <1>1, <2>1 DEF AttrWrite, SetIrqEnable, SoundTypes
    <2>3. LatchedWhileEnabled'
      <3> SUFFICES ASSUME NEW d \in Core, irq_flag'[d] PROVE irq_enabled'[d]
        BY DEF LatchedWhileEnabled
      <3>1. CASE d = c
        BY <3>1, <1>0, <2>1 DEF SetIrqEnable, LatchedWhileEnabled, SoundTypes
      <3>2. CASE d # c
        BY <3>2, <1>0, <2>1 DEF SetIrqEnable, LatchedWhileEnabled, SoundTypes
      <3> QED
        BY <3>1, <3>2
    <2> QED
      BY <2>2, <2>3 DEF SoundInv
  <1>2. CASE IrqaWrite \/ SpuAck \/ UNCHANGED sound
    <2>1. UNCHANGED <<song, irq_enabled, irq_flag, voice>> /\ irqa' \in [Core -> IrqAddr]
      BY <1>0, <1>2 DEF IrqaWrite, SpuAck, sound, SoundTypes
    <2> QED
      BY <1>0, <2>1 DEF SoundInv, SoundTypes, LatchedWhileEnabled
  <1>3. ASSUME NEW hs, NEW cs \in SUBSET Hit(hs), SpuLatch(cs), UNCHANGED irq_enabled
        PROVE  irq_flag' \in [Core -> BOOLEAN] /\ LatchedWhileEnabled'
    BY <1>0, <1>3 DEF SpuLatch, Hit, SoundTypes, LatchedWhileEnabled
  <1>4. CASE Transfer
    <2>1. UNCHANGED <<song, irq_enabled, irqa, voice>>
      BY <1>4 DEF Transfer
    <2>2. irq_flag' \in [Core -> BOOLEAN] /\ LatchedWhileEnabled'
      BY <1>3, <1>4, <2>1 DEF Transfer
    <2> QED
      BY <1>0, <2>1, <2>2 DEF SoundInv, SoundTypes
  <1>5. CASE KeyOn \/ LsaxWrite
    <2>1. UNCHANGED <<song, irq_enabled, irqa, irq_flag>>
      BY <1>5 DEF KeyOn, LsaxWrite
    <2>2. DOMAIN song = 0 .. (RingBlocks - 1)
      BY <1>0, SpuAssumption DEF SoundTypes
    <2>3. \A b \in DOMAIN song : b * BLOCK \in BlockStart
      BY <2>2 DEF BlockStart
    <2>4. \/ \E x \in BlockStart : voice' = [Off EXCEPT !.phase = "on", !.nax = x, !.lsax = x]
          \/ \E x \in BlockStart : voice' = [voice EXCEPT !.lsax = x, !.pinned = TRUE]
      BY <1>5, <2>3, Zenon DEF KeyOn, LsaxWrite
    <2>5. SoundTypes'
      BY <1>0, <2>1, <2>4 DEF SoundTypes, Off
    <2> QED
      BY <1>0, <2>1, <2>5 DEF SoundInv, LatchedWhileEnabled
  <1>6. CASE VoiceStep
    <2>1. UNCHANGED <<song, irq_enabled, irqa>> /\ voice.phase = "on" /\ voice' = NextBlock(voice)
      BY <1>6 DEF VoiceStep
    <2>2. irq_flag' \in [Core -> BOOLEAN] /\ LatchedWhileEnabled'
      <3>1. CASE voice'.phase = "on"
        BY <1>3, <1>6, <2>1, <3>1 DEF VoiceStep
      <3>2. CASE voice'.phase # "on"
        BY <1>0, <1>6, <2>1, <3>2 DEF VoiceStep, SoundTypes, LatchedWhileEnabled
      <3> QED
        BY <3>1, <3>2
    <2>3. voice' \in [phase : {"off", "on"}, nax : BlockStart, lsax : BlockStart,
                      pinned : BOOLEAN, flags : SUBSET {"start", "end", "repeat"},
                      endx : BOOLEAN]
      BY <1>0, <2>1, StepFacts
    <2> QED
      BY <1>0, <2>1, <2>2, <2>3 DEF SoundInv, SoundTypes
  <1> QED
    BY <1>1, <1>2, <1>4, <1>5, <1>6 DEF SoundNext

\* A step of the voice raises the flag of its own core only, for an address
\* of the block it fetched; every other step leaves the voice or the flags.
LEMMA InterruptsInBlock ==
    SoundInv /\ (SoundNext \/ UNCHANGED sound) =>
       (irq_flag' # irq_flag /\ voice' # voice => irqa[Voiced] \div BLOCK = playing')
  <1> SUFFICES ASSUME SoundInv, SoundNext \/ UNCHANGED sound, irq_flag' # irq_flag, voice' # voice
               PROVE  irqa[Voiced] \div BLOCK = playing'
    OBVIOUS
  <1>0. SoundTypes
    BY DEF SoundInv
  <1>1. VoiceStep
    BY DEF SoundNext, AttrWrite, IrqaWrite, Transfer, KeyOn, LsaxWrite, SpuAck, sound
  <1>2. voice.phase = "on" /\ voice' = NextBlock(voice) /\ voice'.phase = "on"
    BY <1>1 DEF VoiceStep
  <1>3. /\ playing' = (IF {"end", "repeat"} \subseteq voice.flags THEN voice.lsax
                       ELSE voice.nax) \div BLOCK
        /\ SpuLatch(Hit(Fetched(voice')) \cap {Voiced})
    BY <1>1, <1>2 DEF VoiceStep
  <1>4. irqa[Voiced] \in Fetched(voice')
    <2> SUFFICES ASSUME irqa[Voiced] \notin Fetched(voice') PROVE FALSE
      OBVIOUS
    <2>1. Hit(Fetched(voice')) \cap {Voiced} = {}
      BY DEF Hit
    <2>2. irq_flag' = irq_flag
      BY <1>0, <1>3, <2>1 DEF SpuLatch, SoundTypes
    <2> QED
      BY <2>2
  <1>5. \A h \in Fetched(NextBlock(voice)) :
           h \div BLOCK = (IF {"end", "repeat"} \subseteq voice.flags THEN voice.lsax
                           ELSE voice.nax) \div BLOCK
    BY <1>0, <1>2, StepFacts
  <1> QED
    BY <1>2, <1>3, <1>4, <1>5, Zenon

LEMMA LoopPointStays ==
    SoundInv /\ (SoundNext \/ UNCHANGED sound) =>
       (voice.pinned /\ voice'.pinned /\ voice'.nax # voice.nax => voice'.lsax = voice.lsax)
  <1> SUFFICES ASSUME SoundInv, SoundNext \/ UNCHANGED sound, voice.pinned, voice'.pinned,
                      voice'.nax # voice.nax
               PROVE  voice'.lsax = voice.lsax
    OBVIOUS
  <1>0. SoundTypes
    BY DEF SoundInv
  <1>1. CASE KeyOn
    BY <1>1 DEF KeyOn, Off
  <1>2. CASE LsaxWrite
    BY <1>0, <1>2 DEF LsaxWrite, SoundTypes
  <1>3. CASE VoiceStep
    BY <1>0, <1>3, StepFacts DEF VoiceStep
  <1>4. CASE AttrWrite \/ IrqaWrite \/ Transfer \/ SpuAck \/ UNCHANGED sound
    BY <1>4 DEF AttrWrite, IrqaWrite, Transfer, SpuAck, sound
  <1> QED
    BY <1>1, <1>2, <1>3, <1>4 DEF SoundNext

(***************************************************************************)
(* The ring.                                                               *)
(***************************************************************************)
\* A position, its half and the one that follows it.
LEMMA HalfFacts ==
    ASSUME NEW p \in 0 .. 2 * HALF - 1
    PROVE  /\ p \div HALF \in 0 .. 1 /\ p % HALF \in 0 .. (HALF - 1)
           /\ (p + 1) % (2 * HALF) \in 0 .. 2 * HALF - 1
           /\ (p + 1) % HALF # 0 =>
                 /\ ((p + 1) % (2 * HALF)) \div HALF = p \div HALF
                 /\ ((p + 1) % (2 * HALF)) % HALF = (p % HALF) + 1
           /\ (p + 1) % HALF = 0 =>
                 /\ ((p + 1) % (2 * HALF)) \div HALF = 1 - (p \div HALF)
                 /\ ((p + 1) % (2 * HALF)) % HALF = 0
                 /\ p % HALF = HALF - 1
  <1>0. HALF \in Nat \ {0} /\ 2 * HALF \in Nat \ {0} /\ p \in Nat /\ p + 1 \in Nat
    BY SpuAssumption
  <1>1. /\ \A r \in 0 .. (HALF - 1) : (0 * HALF + r) \div HALF = 0 /\ (0 * HALF + r) % HALF = r
        /\ \A r \in 0 .. (HALF - 1) : (1 * HALF + r) \div HALF = 1 /\ (1 * HALF + r) % HALF = r
        /\ \A r \in 0 .. (HALF - 1) : (2 * HALF + r) % HALF = r
    BY <1>0, DivOf
  <1>2. /\ \A r \in 0 .. (HALF - 1) : r \div HALF = 0 /\ r % HALF = r
        /\ \A r \in 0 .. (HALF - 1) : (HALF + r) \div HALF = 1 /\ (HALF + r) % HALF = r
        /\ (2 * HALF) % HALF = 0
    <2>1. /\ \A r \in 0 .. (HALF - 1) : 0 * HALF + r = r /\ 1 * HALF + r = HALF + r
          /\ 2 * HALF + 0 = 2 * HALF /\ 0 \in 0 .. (HALF - 1)
      BY <1>0
    <2> QED
      BY <1>1, <2>1, Zenon
  <1>3. /\ p + 1 < 2 * HALF => (p + 1) % (2 * HALF) = p + 1
        /\ p + 1 = 2 * HALF => (p + 1) % (2 * HALF) = 0
        /\ (p + 1) % (2 * HALF) \in 0 .. (2 * HALF - 1)
    BY <1>0, ModOf, Zenon
  <1>4. 0 \in 0 .. (HALF - 1)
    BY <1>0
  <1>5. CASE p + 1 < HALF
    <2>1. p \in 0 .. (HALF - 1) /\ p + 1 \in 0 .. (HALF - 1) /\ p + 1 < 2 * HALF
      BY <1>0, <1>5
    <2>2. p \div HALF = 0 /\ p % HALF = p /\ (p + 1) \div HALF = 0 /\ (p + 1) % HALF = p + 1
      BY <1>2, <2>1, Zenon
    <2>3. (p + 1) % (2 * HALF) = p + 1
      BY <1>3, <2>1
    <2> QED
      BY <1>0, <1>3, <2>1, <2>2, <2>3
  <1>6. CASE p + 1 = HALF
    <2>1. p \in 0 .. (HALF - 1) /\ p + 1 = HALF + 0 /\ p + 1 < 2 * HALF
      BY <1>0, <1>6
    <2>2. p \div HALF = 0 /\ p % HALF = p /\ (HALF + 0) \div HALF = 1 /\ (HALF + 0) % HALF = 0
      BY <1>2, <1>4, <2>1, Zenon
    <2>3. (p + 1) % (2 * HALF) = p + 1 /\ (p + 1) \div HALF = 1 /\ (p + 1) % HALF = 0
      BY <1>3, <2>1, <2>2
    <2> QED
      BY <1>0, <1>3, <1>6, <2>1, <2>2, <2>3
  <1>7. CASE HALF < p + 1 /\ p + 1 < 2 * HALF
    <2> DEFINE r == p - HALF
    <2>1. r \in 0 .. (HALF - 1) /\ r + 1 \in 0 .. (HALF - 1) /\ p = HALF + r /\ p + 1 = HALF + (r + 1)
      BY <1>0, <1>7
    <2> HIDE DEF r
    <2>2. /\ (HALF + r) \div HALF = 1 /\ (HALF + r) % HALF = r
          /\ (HALF + (r + 1)) \div HALF = 1 /\ (HALF + (r + 1)) % HALF = r + 1
      BY <1>2, <2>1, Zenon
    <2>3. /\ p \div HALF = 1 /\ p % HALF = r /\ (p + 1) \div HALF = 1 /\ (p + 1) % HALF = r + 1
          /\ (p + 1) % (2 * HALF) = p + 1
      BY <1>3, <1>7, <2>1, <2>2, Zenon
    <2> QED
      BY <1>0, <1>3, <1>7, <2>1, <2>3
  <1>8. CASE p + 1 = 2 * HALF
    <2> DEFINE r == p - HALF
    <2>1. r \in 0 .. (HALF - 1) /\ p = HALF + r /\ r = HALF - 1
      BY <1>0, <1>8
    <2> HIDE DEF r
    <2>2. (HALF + r) \div HALF = 1 /\ (HALF + r) % HALF = r
      BY <1>2, <2>1, Zenon
    <2>3. /\ p \div HALF = 1 /\ p % HALF = r /\ (p + 1) % HALF = 0
          /\ (p + 1) % (2 * HALF) = 0 /\ 0 \div HALF = 0 /\ 0 % HALF = 0
      BY <1>2, <1>3, <1>4, <1>8, <2>1, <2>2, Zenon
    <2> QED
      BY <1>0, <1>3, <2>1, <2>3
  <1> QED
    BY <1>0, <1>5, <1>6, <1>7, <1>8

LEMMA ReadingFacts == \A a : AdmaTypes(a) => Reading(a) \in 0 .. 1
  BY HalfFacts DEF AdmaTypes, Reading

\* A block moves into the half to be written, if there is one and it is free.
LEMMA FillTypes ==
    ASSUME NEW a, AdmaTypes(a)
    PROVE  AdmaTypes(FillOne(a)) /\ FillOne(a).on = a.on /\ FillOne(a).pos = a.pos
  <1>1. CASE a.pending = <<>> \/ a.filled[a.write]
    BY <1>1 DEF FillOne
  <1>2. CASE ~(a.pending = <<>> \/ a.filled[a.write])
    <2>1. Head(a.pending) \in Nat /\ Tail(a.pending) \in Seq(Nat) /\ 1 - a.write \in 0 .. 1
      BY <1>2 DEF AdmaTypes
    <2> QED
      BY <1>2, <2>1 DEF FillOne, AdmaTypes
  <1> QED
    BY <1>1, <1>2

LEMMA FillRing ==
    ASSUME NEW a, AdmaTypes(a), NEW last \in Nat, NEW k \in 0 .. 2, InRing(a, last, k)
    PROVE  /\ k = 2 \/ a.pending = <<>> => FillOne(a) = a
           /\ k < 2 /\ a.pending # <<>> =>
                 /\ InRing(FillOne(a), last, k + 1)
                 /\ Len(FillOne(a).pending) = Len(a.pending) - 1
  <1> DEFINE r == Reading(a)
             b == FillOne(a)
  <1>0. r \in 0 .. 1
    BY ReadingFacts
  <1>1. ASSUME k = 2 \/ a.pending = <<>> PROVE b = a
    <2>1. k = 2 => a.filled[a.write]
      BY <1>0 DEF InRing
    <2> QED
      BY <1>1, <2>1 DEF FillOne
  <1>2. ASSUME k < 2, a.pending # <<>>
        PROVE  InRing(b, last, k + 1) /\ Len(b.pending) = Len(a.pending) - 1
    <2>1. ~a.filled[a.write] /\ a.write \in 0 .. 1
      BY <1>0, <1>2 DEF InRing, AdmaTypes
    <2>2. b = [a EXCEPT !.data[a.write] = Head(a.pending), !.filled[a.write] = TRUE,
                        !.write = 1 - a.write, !.pending = Tail(a.pending)]
      BY <1>2, <2>1 DEF FillOne
    <2>3. /\ b.pos = a.pos /\ b.write = 1 - a.write /\ b.pending = Tail(a.pending)
          /\ b.filled = [a.filled EXCEPT ![a.write] = TRUE]
          /\ b.data = [a.data EXCEPT ![a.write] = Head(a.pending)]
      BY <2>2 DEF AdmaTypes
    <2>4. /\ a.pending \in Seq(Nat) /\ Head(a.pending) = a.pending[1]
          /\ 1 \in 1 .. Len(a.pending)
          /\ Len(b.pending) = Len(a.pending) - 1
          /\ \A i \in 1 .. Len(b.pending) : b.pending[i] = a.pending[i + 1] /\ i + 1 \in 1 .. Len(a.pending)
      <3>1. a.pending \in Seq(Nat) /\ a.pending # <<>> /\ b.pending = Tail(a.pending)
        BY <1>2, <2>3 DEF AdmaTypes
      <3> DEFINE p == a.pending
                 q == b.pending
      <3>2. p \in Seq(Nat) /\ p # <<>> /\ q = Tail(p)
        BY <3>1
      <3> HIDE DEF p, q
      <3>3. /\ Head(p) = p[1] /\ 1 \in 1 .. Len(p) /\ Len(q) = Len(p) - 1
            /\ \A i \in 1 .. Len(q) : q[i] = p[i + 1] /\ i + 1 \in 1 .. Len(p)
        BY ONLY <3>2
      <3> QED
        BY <3>2, <3>3 DEF p, q
    <2>5. Reading(b) = r
      BY <2>3 DEF Reading
    <2>6. Head(a.pending) = last + k + 1
      BY <2>4 DEF InRing
    <2>7. \A i \in 1 .. Len(b.pending) : b.pending[i] = last + (k + 1) + i
      BY <2>4 DEF InRing
    <2>8. /\ a.filled \in [0 .. 1 -> BOOLEAN] /\ a.data \in [0 .. 1 -> Nat]
          /\ a.write = IF k = 1 THEN 1 - r ELSE r
          /\ (a.filled[r] <=> k > 0) /\ (a.filled[1 - r] <=> k = 2)
          /\ k > 0 => a.data[r] = last + 1
      BY DEF AdmaTypes, InRing
    <2> HIDE DEF b, r
    <2>9. CASE k = 0
      <3>1. b.filled[r] = TRUE /\ b.filled[1 - r] = FALSE /\ b.data[r] = last + 1 /\ b.write = 1 - r
        BY <1>0, <2>3, <2>6, <2>8, <2>9
      <3>2. InRing(b, last, 1)
        <4>1. \A i \in 1 .. Len(b.pending) : b.pending[i] = last + 1 + i
          BY <2>7, <2>9
        <4> QED
          BY <1>0, <2>5, <3>1, <4>1 DEF InRing
      <3>3. k + 1 = 1
        BY <2>9
      <3> QED
        BY <2>4, <3>2, <3>3
    <2>10. CASE k = 1
      <3>1. /\ b.filled[r] = TRUE /\ b.filled[1 - r] = TRUE /\ b.data[r] = last + 1
            /\ b.data[1 - r] = last + 2 /\ b.write = r
        BY <1>0, <2>3, <2>6, <2>8, <2>10
      <3>2. InRing(b, last, 2)
        <4>1. \A i \in 1 .. Len(b.pending) : b.pending[i] = last + 2 + i
          BY <2>7, <2>10
        <4> QED
          BY <1>0, <2>5, <3>1, <4>1 DEF InRing
      <3>3. k + 1 = 2
        BY <2>10
      <3> QED
        BY <2>4, <3>2, <3>3
    <2> QED
      BY <1>2, <2>4, <2>9, <2>10
  <1> QED
    BY <1>1, <1>2

\* The k blocks of the ring and the waiting ones are conserved, and what waits
\* then waits behind a full ring.
LEMMA FillTwice ==
    ASSUME NEW a, AdmaTypes(a), NEW last \in Nat, NEW k \in 0 .. 2, InRing(a, last, k)
    PROVE  /\ AdmaTypes(adma_fill(a)) /\ adma_fill(a).on = a.on /\ adma_fill(a).pos = a.pos
           /\ \E j \in 0 .. 2 : /\ InRing(adma_fill(a), last, j)
                                /\ adma_fill(a).pending # <<>> => j = 2
                                /\ j + Len(adma_fill(a).pending) = k + Len(a.pending)
  <1> DEFINE b == FillOne(a)
             c == FillOne(b)
  <1>0. /\ AdmaTypes(b) /\ b.on = a.on /\ b.pos = a.pos
    BY FillTypes
  <1>1. /\ k = 2 \/ a.pending = <<>> => b = a
        /\ k < 2 /\ a.pending # <<>> => InRing(b, last, k + 1) /\ Len(b.pending) = Len(a.pending) - 1
    BY FillRing
  <1>6. Len(a.pending) \in Nat /\ Len(b.pending) \in Nat
    BY <1>0 DEF AdmaTypes
  <1> HIDE DEF b
  <1>2. AdmaTypes(c) /\ c.on = b.on /\ c.pos = b.pos
    BY <1>0, FillTypes
  <1>3. \A j \in 0 .. 2 : InRing(b, last, j) =>
           /\ j = 2 \/ b.pending = <<>> => c = b
           /\ j < 2 /\ b.pending # <<>> => InRing(c, last, j + 1) /\ Len(c.pending) = Len(b.pending) - 1
    BY <1>0, FillRing
  <1> HIDE DEF c
  <1>4. CASE k = 2 \/ a.pending = <<>>
    <2>1. c = a
      BY <1>1, <1>3, <1>4
    <2> QED
      BY <1>0, <1>2, <2>1, <1>4 DEF adma_fill, b, c
  <1>5. CASE k < 2 /\ a.pending # <<>>
    <2>1. InRing(b, last, k + 1) /\ Len(b.pending) = Len(a.pending) - 1 /\ k + 1 \in 0 .. 2
      BY <1>1, <1>5
    <2>2. CASE k + 1 = 2 \/ b.pending = <<>>
      <3>1. c = b
        BY <1>3, <2>1, <2>2
      <3>2. (k + 1) + Len(b.pending) = k + Len(a.pending)
        <4>1. \A x, y \in Nat, z \in 0 .. 2 : x = y - 1 => (z + 1) + x = z + y
          OBVIOUS
        <4> QED
          BY <1>6, <2>1, <4>1, Zenon
      <3> QED
        BY <1>0, <1>2, <2>1, <2>2, <3>1, <3>2 DEF adma_fill, b, c
    <2>3. CASE k + 1 < 2 /\ b.pending # <<>>
      <3>1. InRing(c, last, 2) /\ Len(c.pending) = Len(b.pending) - 1 /\ k = 0
        BY <1>3, <2>1, <2>3
      <3>2. 2 + Len(c.pending) = k + Len(a.pending)
        BY <1>6, <2>1, <3>1
      <3> QED
        BY <1>0, <1>2, <3>1, <3>2 DEF adma_fill, b, c
    <2> QED
      BY <2>1, <2>2, <2>3
  <1> QED
    BY <1>4, <1>5

LEMMA FillTwiceTypes ==
    ASSUME NEW a, AdmaTypes(a)
    PROVE  AdmaTypes(adma_fill(a)) /\ adma_fill(a).on = a.on /\ adma_fill(a).pos = a.pos
  BY FillTypes DEF adma_fill

(***************************************************************************)
(* The transfer, in samples and in units.                                  *)
(***************************************************************************)
LEMMA LandingFacts ==
    ASSUME NEW a, AdmaTypes(a)
    PROVE  /\ Landing(a) \in Nat
           /\ a.pending # <<>> => /\ Landing(a) >= 1
                                  /\ Len(a.pending) >= 1
                                  /\ Len(a.pending) # 1 => Landing(a) > HALF
                                  /\ a.pos % HALF # HALF - 1 => Landing(a) >= 2
  <1> DEFINE n == Len(a.pending)
             m == (n - 1) * HALF
  <1>1. CASE a.pending = <<>>
    BY <1>1 DEF Landing
  <1>2. CASE a.pending # <<>>
    <2>1. n \in Nat /\ n >= 1 /\ HALF \in Nat \ {0} /\ a.pos % HALF \in 0 .. (HALF - 1)
      <3>1. a.pending \in Seq(Nat) /\ a.pos \in 0 .. 2 * HALF - 1
        BY DEF AdmaTypes
      <3>2. n \in Nat /\ n >= 1
        BY <1>2, <3>1
      <3> QED
        BY <3>1, <3>2, HalfFacts, SpuAssumption
    <2>2. m \in Nat /\ (n # 1 => m >= HALF)
      <3>1. \A x, h \in Nat : x * h \in Nat /\ (x >= 1 => x * h >= h)
        BY SMTT(30)
      <3>2. n - 1 \in Nat /\ (n # 1 => n - 1 >= 1)
        <4>1. \A x \in Nat : x >= 1 => (x - 1 \in Nat /\ (x # 1 => x - 1 >= 1))
          OBVIOUS
        <4> QED
          BY <2>1, <4>1, Zenon
      <3> QED
        BY <2>1, <3>1, <3>2, Zenon
    <2>3. Landing(a) = (HALF - (a.pos % HALF)) + m
      BY <1>2 DEF Landing
    <2> HIDE DEF m, n
    <2> QED
      BY <1>2, <2>1, <2>2, <2>3 DEF n
  <1> QED
    BY <1>1, <1>2

\* A sample's step of a stream that keeps up: the block played out leaves the
\* ring, and the landing is one sample nearer.
LEMMA MixTypes ==
    ASSUME NEW a, AdmaTypes(a)
    PROVE  AdmaTypes(Mixed(a)) /\ Mixed(a).on = a.on
  <1> DEFINE next == (a.pos + 1) % (2 * HALF)
             b == [a EXCEPT !.pos = next, !.filled[Reading(a)] = FALSE]
             c == [a EXCEPT !.pos = next]
  <1>1. next \in 0 .. 2 * HALF - 1
    BY HalfFacts DEF AdmaTypes
  <1>2. Mixed(a) = IF ~a.on THEN a ELSE IF next % HALF = 0 THEN adma_fill(b) ELSE c
    BY DEF Mixed
  <1> HIDE DEF next
  <1>3. AdmaTypes(b) /\ b.on = a.on /\ AdmaTypes(c) /\ c.on = a.on
    BY <1>1, ReadingFacts DEF AdmaTypes
  <1> HIDE DEF b, c
  <1> QED
    BY <1>2, <1>3, FillTwiceTypes

LEMMA MixInside ==
    ASSUME NEW a, AdmaTypes(a), a.on, ~Leaves(a), NEW last \in Nat, NEW k \in 0 .. 2,
           InRing(a, last, k)
    PROVE  /\ InRing(Mixed(a), last, k) /\ Mixed(a).pending = a.pending
           /\ a.pending # <<>> => Landing(Mixed(a)) = Landing(a) - 1 /\ Landing(a) >= 2
  <1> DEFINE next == (a.pos + 1) % (2 * HALF)
             c == [a EXCEPT !.pos = next]
  <1>1. a.pos \in 0 .. 2 * HALF - 1 /\ (a.pos + 1) % HALF # 0
    BY DEF AdmaTypes, Leaves
  <1>2. /\ next \in 0 .. 2 * HALF - 1 /\ next \div HALF = a.pos \div HALF
        /\ next % HALF = (a.pos % HALF) + 1 /\ a.pos % HALF \in 0 .. (HALF - 1)
        /\ next % HALF \in 0 .. (HALF - 1)
    BY <1>1, HalfFacts
  <1>3. next % HALF # 0 /\ a.pos % HALF # HALF - 1
    BY <1>2, SpuAssumption
  <1>4. Mixed(a) = c
    BY <1>3 DEF Mixed
  <1> HIDE DEF next
  <1>5. /\ c.pos = next /\ c.write = a.write /\ c.filled = a.filled /\ c.data = a.data
        /\ c.pending = a.pending
    BY DEF AdmaTypes
  <1> HIDE DEF c
  <1>6. Reading(c) = Reading(a)
    BY <1>2, <1>5 DEF Reading
  <1>7. InRing(c, last, k)
    BY <1>5, <1>6 DEF InRing
  <1>8. ASSUME a.pending # <<>> PROVE Landing(c) = Landing(a) - 1 /\ Landing(a) >= 2
    <2> DEFINE m == (Len(a.pending) - 1) * HALF
    <2>1. Landing(c) = (HALF - (next % HALF)) + m /\ Landing(a) = (HALF - (a.pos % HALF)) + m
      BY <1>5, <1>8 DEF Landing
    <2>2. m \in Int
      BY SpuAssumption DEF AdmaTypes
    <2>3. Landing(a) >= 2
      BY <1>3, <1>8, LandingFacts
    <2> HIDE DEF m
    <2> QED
      BY <1>2, <2>1, <2>2, <2>3, SpuAssumption
  <1> QED
    BY <1>4, <1>5, <1>7, <1>8

LEMMA MixBoundary ==
    ASSUME NEW a, AdmaTypes(a), a.on, Leaves(a), NEW last \in Nat, NEW k \in 1 .. 2,
           InRing(a, last, k), a.pending # <<>> => k = 2
    PROVE  /\ \E j \in 0 .. 2 : /\ InRing(Mixed(a), last + 1, j)
                                /\ Mixed(a).pending # <<>> => j = 2
                                /\ (j + 1) + Len(Mixed(a).pending) = k + Len(a.pending)
           /\ Mixed(a).pending # <<>> => Landing(Mixed(a)) = Landing(a) - 1 /\ Landing(a) >= 2
  <1> DEFINE next == (a.pos + 1) % (2 * HALF)
             r == Reading(a)
             b == [a EXCEPT !.pos = next, !.filled[r] = FALSE]
             c == adma_fill(b)
  <1>0. r \in 0 .. 1
    BY ReadingFacts
  <1>1. a.pos \in 0 .. 2 * HALF - 1 /\ (a.pos + 1) % HALF = 0
    BY DEF AdmaTypes, Leaves
  <1>2. /\ next \in 0 .. 2 * HALF - 1 /\ next \div HALF = 1 - r
        /\ next % HALF = 0 /\ a.pos % HALF = HALF - 1
    BY <1>1, HalfFacts DEF Reading
  <1>3. Mixed(a) = c
    BY <1>2 DEF Mixed
  <1> HIDE DEF next, r
  <1>4. /\ b.pos = next /\ b.write = a.write /\ b.data = a.data /\ b.pending = a.pending
        /\ b.filled = [a.filled EXCEPT ![r] = FALSE] /\ b.on = a.on /\ AdmaTypes(b)
    BY <1>0, <1>2 DEF AdmaTypes
  <1> HIDE DEF b
  <1>5. Reading(b) = 1 - r
    BY <1>2, <1>4 DEF Reading
  <1>6. /\ a.filled \in [0 .. 1 -> BOOLEAN] /\ a.data \in [0 .. 1 -> Nat]
        /\ a.write = IF k = 1 THEN 1 - r ELSE r
        /\ (a.filled[1 - r] <=> k = 2)
        /\ k = 2 => a.data[1 - r] = last + 2
        /\ \A i \in 1 .. Len(a.pending) : a.pending[i] = last + k + i
    BY DEF AdmaTypes, InRing, r
  <1>7. /\ ~b.filled[r] /\ (b.filled[1 - r] <=> k = 2)
        /\ b.write = IF k = 1 THEN 1 - r ELSE r
    BY <1>0, <1>4, <1>6
  <1>8. InRing(b, last + 1, k - 1)
    <2>1. 1 - (1 - r) = r
      BY <1>0
    <2>2. \A i \in 1 .. Len(b.pending) : b.pending[i] = (last + 1) + (k - 1) + i
      <3>1. \A i \in Nat : last + k + i = (last + 1) + (k - 1) + i
        OBVIOUS
      <3>2. a.pending \in Seq(Nat)
        BY DEF AdmaTypes
      <3>3. \A i \in 1 .. Len(a.pending) : i \in Nat
        BY <3>2
      <3> QED
        BY <1>4, <1>6, <3>1, <3>3, Zenon
    <2> QED
      BY <1>0, <1>4, <1>5, <1>6, <1>7, <2>1, <2>2 DEF InRing
  <1>9. last + 1 \in Nat /\ k - 1 \in 0 .. 2
    OBVIOUS
  <1>10. /\ AdmaTypes(c) /\ c.pos = b.pos
         /\ \E j \in 0 .. 2 : /\ InRing(c, last + 1, j)
                              /\ c.pending # <<>> => j = 2
                              /\ j + Len(c.pending) = (k - 1) + Len(b.pending)
    BY <1>4, <1>8, <1>9, FillTwice
  <1> HIDE DEF c
  <1>11. PICK j \in 0 .. 2 : /\ InRing(c, last + 1, j)
                             /\ c.pending # <<>> => j = 2
                             /\ j + Len(c.pending) = (k - 1) + Len(a.pending)
    BY <1>4, <1>10
  <1>12. Len(c.pending) \in Nat /\ Len(a.pending) \in Nat
    <2>1. \A s \in Seq(Nat) : Len(s) \in Nat
      OBVIOUS
    <2>2. c.pending \in Seq(Nat) /\ a.pending \in Seq(Nat)
      BY <1>10 DEF AdmaTypes
    <2> QED
      BY <2>1, <2>2
  <1>13. (j + 1) + Len(c.pending) = k + Len(a.pending)
    <2> DEFINE x == Len(c.pending)
               y == Len(a.pending)
    <2>1. j \in 0 .. 2 /\ k \in 1 .. 2 /\ x \in Nat /\ y \in Nat /\ j + x = (k - 1) + y
      BY <1>11, <1>12
    <2> HIDE DEF x, y
    <2>2. (j + 1) + x = k + y
      BY ONLY <2>1
    <2> QED
      BY <2>2 DEF x, y
  <1>14. ASSUME c.pending # <<>> PROVE Landing(c) = Landing(a) - 1 /\ Landing(a) >= 2
    <2> DEFINE n == Len(a.pending)
    <2>1. n \in Nat /\ Len(c.pending) = n - 1 /\ Len(c.pending) >= 1 /\ a.pending # <<>> /\ n # 1
      <3>1. Len(c.pending) >= 1
        BY <1>10, <1>14, LandingFacts
      <3>2. a.pending = <<>> => Len(a.pending) = 0
        OBVIOUS
      <3>3. 2 + Len(c.pending) = (k - 1) + Len(a.pending)
        BY <1>11, <1>14
      <3> DEFINE x == Len(c.pending)
      <3>4. n \in Nat /\ x \in Nat /\ k \in 1 .. 2 /\ x >= 1 /\ 2 + x = (k - 1) + n
        BY <1>12, <3>1, <3>3
      <3> HIDE DEF n, x
      <3>5. n # 0
        BY ONLY <3>4
      <3>6. k = 2
        <4>1. a.pending # <<>>
          BY <3>2, <3>5 DEF n
        <4> QED
          BY <4>1
      <3>7. x = n - 1 /\ n # 1
        BY ONLY <3>4, <3>6
      <3> QED
        BY <3>2, <3>4, <3>5, <3>7 DEF n, x
    <2>2. Landing(c) = (HALF - (next % HALF)) + ((n - 1) - 1) * HALF
      BY <1>4, <1>10, <1>14, <2>1 DEF Landing
    <2>3. Landing(a) = (HALF - (a.pos % HALF)) + (n - 1) * HALF
      BY <2>1 DEF Landing
    <2>4. \A x, h \in Int : (x - 1) * h = x * h - h /\ x * h \in Int
      BY SMTT(30)
    <2>5. HALF \in Nat \ {0} /\ n - 1 \in Int
      BY <2>1, SpuAssumption
    <2>6. ((n - 1) - 1) * HALF = (n - 1) * HALF - HALF /\ (n - 1) * HALF \in Int
      BY <2>4, <2>5
    <2>7. Landing(a) > HALF
      BY <2>1, LandingFacts
    <2> DEFINE m == (n - 1) * HALF
               q == ((n - 1) - 1) * HALF
    <2>8. /\ Landing(c) = (HALF - (next % HALF)) + q /\ q = m - HALF /\ m \in Int
          /\ Landing(a) = (HALF - (a.pos % HALF)) + m
      BY <2>2, <2>3, <2>6
    <2>9. next % HALF = 0 /\ a.pos % HALF = HALF - 1
      BY <1>2
    <2>10. Landing(c) = HALF + (m - HALF) /\ Landing(a) = (HALF - (HALF - 1)) + m
      <3>1. HALF - 0 = HALF
        BY <2>5
      <3> QED
        BY <2>8, <2>9, <3>1, Zenon
    <2> HIDE DEF m, q, n
    <2>11. \A x \in Int, h \in Nat \ {0} :
              /\ h + (x - h) = ((h - (h - 1)) + x) - 1
              /\ (h - (h - 1)) + x > h => (h - (h - 1)) + x >= 2
      OBVIOUS
    <2> QED
      BY <2>5, <2>7, <2>8, <2>10, <2>11, Zenon
  <1> QED
    BY <1>3, <1>11, <1>13, <1>14

(***************************************************************************)
(* The invariant of the stream.                                            *)
(***************************************************************************)
StreamTypes ==
    /\ AdmaTypes(adma) /\ due \in Nat \cup {-1} /\ unit \in 0 .. SAMPLE - 1
    /\ queued \in Nat /\ left \in Nat /\ dry \in BOOLEAN
    /\ due # 0 /\ (due # -1 => adma.on)

LEMMA StreamSplit == StreamHolds <=> StreamTypes /\ StreamKeepsUp /\ LandsInTime
  BY DEF StreamHolds, StreamTypes

LEMMA EmptyRing == AdmaTypes(Ring) /\ InRing(Ring, 0, 0)
  <1>1. 0 \in 0 .. 2 * HALF - 1 /\ 0 \div HALF = 0
    <2>1. (0 * HALF + 0) \div HALF = 0 /\ 0 * HALF + 0 = 0 /\ 0 \in 0 .. 2 * HALF - 1
      BY DivOf, SpuAssumption
    <2> QED
      BY <2>1, Zenon
  <1>2. Ring.pos = 0 /\ Reading(Ring) = 0
    BY <1>1 DEF Ring, Reading
  <1>3. AdmaTypes(Ring)
    BY <1>1 DEF Ring, AdmaTypes
  <1> QED
    BY <1>2, <1>3 DEF Ring, InRing

LEMMA StreamStarts == StreamInit => StreamHolds
  <1> SUFFICES ASSUME StreamInit PROVE StreamHolds
    OBVIOUS
  <1>1. AdmaTypes(adma) /\ ~adma.on
    BY EmptyRing DEF StreamInit, AdmaTypes, Ring
  <1>2. due = -1 /\ unit = 0 /\ queued = 0 /\ left = 0 /\ dry = FALSE
    BY DEF StreamInit
  <1>3. StreamTypes
    <2>1. -1 \in Nat \cup {-1} /\ -1 # 0 /\ 0 \in 0 .. SAMPLE - 1 /\ 0 \in Nat
      BY SpuAssumption
    <2> QED
      BY <1>1, <1>2, <2>1 DEF StreamTypes
  <1>4. StreamKeepsUp /\ LandsInTime
    BY <1>1, <1>2 DEF StreamKeepsUp, LandsInTime
  <1> QED
    BY <1>3, <1>4, StreamSplit

LEMMA AdmasKeeps == StreamHolds /\ AdmasWrite => StreamHolds'
  <1> SUFFICES ASSUME StreamHolds, AdmasWrite PROVE StreamHolds'
    OBVIOUS
  <1>0. StreamTypes
    BY StreamSplit
  <1>1. /\ due = -1 /\ due' = -1 /\ unit' = unit /\ queued' = 0 /\ left' = 0 /\ dry' = FALSE
        /\ \/ adma' = Ring
           \/ adma' = [adma EXCEPT !.on = FALSE]
    BY DEF AdmasWrite
  <1>2. LandsInTime'
    BY <1>1 DEF LandsInTime
  <1>3. CASE adma' = Ring
    <2>1. InRing(Ring, 0, 0) /\ Ring.pending = <<>> /\ Len(Ring.pending) = 0 /\ AdmaTypes(Ring)
      BY EmptyRing DEF Ring
    <2>2. StreamTypes'
      BY <1>0, <1>1, <1>3, <2>1 DEF StreamTypes
    <2>3. 0 \in 0 .. 2 /\ queued' = left' + 0 + 0
      BY <1>1
    <2>4. StreamKeepsUp'
      BY <1>1, <1>3, <2>1, <2>3 DEF StreamKeepsUp
    <2> QED
      BY <1>2, <2>2, <2>4, StreamSplit, PTL
  <1>4. CASE adma' = [adma EXCEPT !.on = FALSE]
    <2>1. AdmaTypes(adma') /\ ~adma'.on
      BY <1>0, <1>4 DEF StreamTypes, AdmaTypes
    <2>2. StreamTypes'
      BY <1>0, <1>1, <2>1 DEF StreamTypes
    <2>3. StreamKeepsUp'
      BY <2>1 DEF StreamKeepsUp
    <2> QED
      BY <1>2, <2>2, <2>3, StreamSplit, PTL
  <1> QED
    BY <1>1, <1>3, <1>4

LEMMA KickKeeps == StreamHolds /\ AdmaKick => StreamHolds'
  <1> SUFFICES ASSUME StreamHolds, AdmaKick PROVE StreamHolds'
    OBVIOUS
  <1>0. StreamTypes /\ StreamKeepsUp
    BY StreamSplit
  <1>1. PICK n \in 1 .. (MaxBlocks - queued) :
           /\ adma' = adma_fill([adma EXCEPT !.pending = @ \o [i \in 1 .. n |-> queued + i]])
           /\ queued' = queued + n
    BY DEF AdmaKick
  <1>2. /\ adma.on /\ due = -1 /\ due' = adma_due(adma') /\ UNCHANGED <<unit, left, dry>>
    BY DEF AdmaKick
  <1> DEFINE more == [i \in 1 .. n |-> queued + i]
             a == [adma EXCEPT !.pending = @ \o more]
  <1>3. n \in Nat /\ n >= 1 /\ queued \in Nat /\ more \in Seq(Nat) /\ Len(more) = n
        /\ \A i \in 1 .. n : more[i] = queued + i
    <2>1. queued \in Nat /\ n \in Nat /\ n >= 1
      BY <1>0, SpuAssumption DEF StreamTypes
    <2>2. more \in [1 .. n -> Nat]
      BY <2>1
    <2>3. more \in Seq(Nat) /\ Len(more) = n
      BY <2>1, <2>2
    <2> QED
      BY <2>1, <2>3
  <1> HIDE DEF more
  <1>4. /\ a.pending = adma.pending \o more /\ a.pos = adma.pos /\ a.on = adma.on
        /\ a.filled = adma.filled /\ a.write = adma.write /\ a.data = adma.data
        /\ AdmaTypes(a) /\ adma.pending \in Seq(Nat)
    <2>1. adma.pending \in Seq(Nat)
      BY <1>0 DEF StreamTypes, AdmaTypes
    <2>2. adma.pending \o more \in Seq(Nat)
      BY <1>3, <2>1, ConcatProperties
    <2> DEFINE q == adma.pending \o more
    <2>3. a = [adma EXCEPT !.pending = q]
      OBVIOUS
    <2> HIDE DEF a, q
    <2>4. /\ a.pending = q /\ a.pos = adma.pos /\ a.on = adma.on
          /\ a.filled = adma.filled /\ a.write = adma.write /\ a.data = adma.data
          /\ AdmaTypes(a)
      BY <1>0, <2>2, <2>3 DEF StreamTypes, AdmaTypes, q
    <2> QED
      BY <2>1, <2>4 DEF q
  <1>5. adma' = adma_fill(a)
    BY <1>1 DEF a, more
  <1> HIDE DEF a
  <1>6. /\ Len(a.pending) = Len(adma.pending) + n /\ Len(adma.pending) \in Nat
        /\ \A i \in 1 .. Len(adma.pending) : a.pending[i] = adma.pending[i]
        /\ \A i \in (Len(adma.pending) + 1) .. Len(a.pending) :
              a.pending[i] = more[i - Len(adma.pending)]
    <2> DEFINE p == adma.pending
    <2>1. p \in Seq(Nat) /\ more \in Seq(Nat) /\ a.pending = p \o more /\ Len(p) \in Nat
      BY <1>3, <1>4
    <2> HIDE DEF p
    <2>2. /\ Len(p \o more) = Len(p) + Len(more)
          /\ \A i \in 1 .. Len(p) + Len(more) :
                (p \o more)[i] = IF i =< Len(p) THEN p[i] ELSE more[i - Len(p)]
      BY <2>1, ConcatProperties
    <2>3. \A i \in 1 .. Len(p) : i \in 1 .. Len(p) + n /\ i =< Len(p)
      BY <1>3, <2>1
    <2>4. \A i \in (Len(p) + 1) .. (Len(p) + n) : i \in 1 .. Len(p) + n /\ ~(i =< Len(p))
      BY <1>3, <2>1
    <2>5. /\ Len(a.pending) = Len(p) + n
          /\ \A i \in 1 .. Len(p) : a.pending[i] = p[i]
          /\ \A i \in (Len(p) + 1) .. Len(a.pending) : a.pending[i] = more[i - Len(p)]
      BY <1>3, <2>1, <2>2, <2>3, <2>4, Zenon
    <2> QED
      BY <2>1, <2>5 DEF p
  <1>7. AdmaTypes(adma') /\ adma'.on
    BY <1>2, <1>4, <1>5, FillTwiceTypes
  <1>8. Landing(adma') \in Nat
    BY <1>7, LandingFacts
  <1>9. \/ due' = SAMPLE /\ adma'.pending = <<>>
        \/ due' = (Landing(adma') + 1) * SAMPLE
    BY <1>2 DEF adma_due, Landing
  <1>10. due' \in Nat /\ due' > 0 /\ due' >= Landing(adma') * SAMPLE
    <2>1. \A x \in Nat, e \in Nat \ {0} :
             (x + 1) * e \in Nat /\ (x + 1) * e > 0 /\ (x + 1) * e >= x * e /\ 0 * e = 0
      BY SMTT(30)
    <2>2. adma'.pending = <<>> => Landing(adma') = 0
      BY DEF Landing
    <2>3. SAMPLE \in Nat \ {0} /\ SAMPLE > 0 /\ SAMPLE >= 0
      BY SpuAssumption
    <2> QED
      BY <1>8, <1>9, <2>1, <2>2, <2>3
  <1>11. StreamTypes'
    BY <1>0, <1>1, <1>2, <1>3, <1>7, <1>10 DEF StreamTypes
  <1>12. LandsInTime'
    <2>1. unit' \in Nat /\ Landing(adma') * SAMPLE \in Nat
      BY <1>0, <1>2, <1>8, SpuAssumption DEF StreamTypes
    <2>2. unit' + due' >= Landing(adma') * SAMPLE
      <3>1. \A u, d, e \in Nat : d >= e => u + d >= e
        OBVIOUS
      <3> QED
        BY <2>1, <1>10, <3>1, Zenon
    <2> QED
      BY <2>2 DEF LandsInTime
  <1>13. StreamKeepsUp'
    <2> SUFFICES ASSUME ~dry
                 PROVE  \E k \in 0 .. 2 : /\ InRing(adma', left', k)
                                          /\ adma'.pending # <<>> => k = 2
                                          /\ queued' = left' + k + Len(adma'.pending)
      BY <1>2 DEF StreamKeepsUp
    <2>1. PICK k \in 0 .. 2 : /\ InRing(adma, left, k)
                              /\ adma.pending # <<>> => k = 2
                              /\ queued = left + k + Len(adma.pending)
      BY <1>0, <1>2 DEF StreamKeepsUp
    <2>2. left \in Nat /\ n \in Nat
      BY <1>0, <1>3 DEF StreamTypes
    <2>3. \A i \in 1 .. Len(a.pending) : a.pending[i] = left + k + i
      <3> SUFFICES ASSUME NEW i \in 1 .. Len(a.pending) PROVE a.pending[i] = left + k + i
        OBVIOUS
      <3>0. i \in Nat /\ i >= 1 /\ i =< Len(adma.pending) + n
        BY <1>3, <1>6
      <3>1. CASE i =< Len(adma.pending)
        <4>1. i \in 1 .. Len(adma.pending)
          BY <1>6, <3>0, <3>1
        <4> QED
          BY <1>6, <2>1, <4>1 DEF InRing
      <3>2. CASE i > Len(adma.pending)
        <4>1. /\ i \in (Len(adma.pending) + 1) .. Len(a.pending)
              /\ i - Len(adma.pending) \in 1 .. n
          BY <1>3, <1>6, <3>0, <3>2
        <4>2. a.pending[i] = queued + (i - Len(adma.pending))
          BY <1>3, <1>6, <4>1
        <4> DEFINE m == Len(adma.pending)
        <4>3. m \in Nat /\ queued = left + k + m /\ left \in Nat /\ i \in Nat /\ queued \in Nat
          BY <1>0, <1>6, <2>1, <2>2, <3>0 DEF StreamTypes
        <4> HIDE DEF m
        <4>4. k \in 0 .. 2
          OBVIOUS
        <4>5. queued + (i - m) = left + k + i
          BY <4>3, <4>4
        <4> QED
          BY <4>2, <4>5 DEF m
      <3> QED
        BY <1>6, <3>0, <3>1, <3>2
    <2>4. Reading(a) = Reading(adma)
      BY <1>4 DEF Reading
    <2>5. InRing(a, left, k)
      BY <1>4, <2>1, <2>3, <2>4 DEF InRing
    <2>6. PICK j \in 0 .. 2 : /\ InRing(adma', left, j)
                              /\ adma'.pending # <<>> => j = 2
                              /\ j + Len(adma'.pending) = k + Len(a.pending)
      BY <1>4, <1>5, <2>2, <2>5, FillTwice
    <2>7. queued' = left + j + Len(adma'.pending)
      <3> DEFINE p == Len(adma.pending)
                 q == Len(adma'.pending)
      <3>1. p \in Nat /\ q \in Nat
        BY <1>6, <1>7 DEF AdmaTypes
      <3>2. j + q = k + (p + n) /\ queued = left + k + p
        BY <1>6, <2>1, <2>6
      <3>3. queued' = (left + k + p) + n
        BY <1>1, <3>2
      <3> HIDE DEF p, q
      <3>4. queued' = left + j + q
        BY <2>2, <3>1, <3>2, <3>3
      <3> QED
        BY <3>4 DEF q
    <2> QED
      BY <1>2, <2>6, <2>7
  <1> QED
    BY <1>11, <1>12, <1>13, StreamSplit, PTL

\* What is left of a transfer and the samples to the landing of its last block,
\* one unit later.
LEMMA UnitsLeft ==
    ASSUME NEW u \in 0 .. SAMPLE - 1, NEW d \in Nat \ {0}, NEW l \in Nat, u + d >= l * SAMPLE
    PROVE  /\ u = SAMPLE - 1 /\ l >= 1 => d - 1 >= (l - 1) * SAMPLE
           /\ u # SAMPLE - 1 => (u + 1) + (d - 1) >= l * SAMPLE
           /\ d = 1 /\ u = SAMPLE - 1 => l < 2
           /\ d = 1 /\ u # SAMPLE - 1 => l = 0
  <1>1. SAMPLE \in Nat \ {0}
    BY SpuAssumption
  <1>2. l * SAMPLE \in Nat /\ (l - 1) * SAMPLE = l * SAMPLE - SAMPLE
    <2>1. \A x \in Nat, e \in Nat : x * e \in Nat /\ (x - 1) * e = x * e - e
      BY SMTT(30)
    <2> QED
      BY <1>1, <2>1
  <1>3. (l >= 1 => l * SAMPLE >= SAMPLE) /\ (l >= 2 => l * SAMPLE >= 2 * SAMPLE)
    <2>1. \A x \in Nat, e \in Nat : (x >= 1 => x * e >= e) /\ (x >= 2 => x * e >= 2 * e)
      BY SMTT(30)
    <2> QED
      BY <1>1, <2>1
  <1> DEFINE m == l * SAMPLE
             q == (l - 1) * SAMPLE
  <1>4. /\ m \in Nat /\ q = m - SAMPLE /\ u + d >= m
        /\ (l >= 1 => m >= SAMPLE) /\ (l >= 2 => m >= 2 * SAMPLE)
    BY <1>2, <1>3
  <1> HIDE DEF m, q
  <1>5. /\ u = SAMPLE - 1 /\ l >= 1 => d - 1 >= q
        /\ u # SAMPLE - 1 => (u + 1) + (d - 1) >= m
        /\ d = 1 /\ u = SAMPLE - 1 => l < 2
        /\ d = 1 /\ u # SAMPLE - 1 => l = 0
    BY <1>1, <1>4
  <1> QED
    BY <1>5 DEF m, q

\* A sample of a stream that keeps up: the block played out is the next one,
\* and what then waits is one sample nearer to the ring.
LEMMA SampleKeeps ==
    ASSUME StreamHolds, adma.on, adma' = Mixed(adma), queued' = queued, ~dry',
           IF Leaves(adma)
           THEN /\ left' = IF adma.filled[Reading(adma)] THEN adma.data[Reading(adma)] ELSE left
                /\ dry' = (dry \/ ~adma.filled[Reading(adma)])
           ELSE UNCHANGED <<left, dry>>
    PROVE  /\ StreamKeepsUp' /\ left' \in Nat
           /\ left' = IF Leaves(adma) THEN left + 1 ELSE left
           /\ adma'.pending # <<>> => Landing(adma') = Landing(adma) - 1 /\ Landing(adma) >= 2
  <1>0. StreamTypes /\ StreamKeepsUp /\ ~dry
    BY StreamSplit
  <1>1. AdmaTypes(adma) /\ left \in Nat /\ queued \in Nat
    BY <1>0 DEF StreamTypes
  <1>2. PICK k \in 0 .. 2 : /\ InRing(adma, left, k)
                            /\ adma.pending # <<>> => k = 2
                            /\ queued = left + k + Len(adma.pending)
    BY <1>0 DEF StreamKeepsUp
  <1>3. CASE ~Leaves(adma)
    <2>1. /\ InRing(Mixed(adma), left, k) /\ Mixed(adma).pending = adma.pending
          /\ adma.pending # <<>> => Landing(Mixed(adma)) = Landing(adma) - 1 /\ Landing(adma) >= 2
      BY <1>1, <1>2, <1>3, MixInside
    <2>2. left' = left
      BY <1>3
    <2>3. StreamKeepsUp'
      BY <1>2, <2>1, <2>2 DEF StreamKeepsUp
    <2> QED
      BY <1>1, <1>3, <2>1, <2>2, <2>3
  <1>4. CASE Leaves(adma)
    <2>1. adma.filled[Reading(adma)] /\ left' = adma.data[Reading(adma)]
      BY <1>4
    <2>2. k \in 1 .. 2 /\ left' = left + 1
      BY <1>2, <2>1 DEF InRing
    <2>3. /\ \E j \in 0 .. 2 : /\ InRing(Mixed(adma), left + 1, j)
                               /\ Mixed(adma).pending # <<>> => j = 2
                               /\ (j + 1) + Len(Mixed(adma).pending) = k + Len(adma.pending)
          /\ Mixed(adma).pending # <<>> =>
                Landing(Mixed(adma)) = Landing(adma) - 1 /\ Landing(adma) >= 2
      BY <1>1, <1>2, <1>4, <2>2, MixBoundary
    <2>4. PICK j \in 0 .. 2 : /\ InRing(adma', left', j)
                              /\ adma'.pending # <<>> => j = 2
                              /\ (j + 1) + Len(adma'.pending) = k + Len(adma.pending)
      BY <2>2, <2>3
    <2>5. queued' = left' + j + Len(adma'.pending)
      <3> DEFINE p == Len(adma.pending)
                 q == Len(adma'.pending)
      <3>1. AdmaTypes(adma')
        BY <1>1, MixTypes
      <3>2. p \in Nat /\ q \in Nat
        BY <1>1, <3>1 DEF AdmaTypes
      <3>3. (j + 1) + q = k + p /\ queued' = left + k + p
        BY <1>2, <2>4
      <3> HIDE DEF p, q
      <3>4. queued' = (left + 1) + j + q
        BY <1>1, <3>2, <3>3
      <3> QED
        BY <2>2, <3>4 DEF q
    <2>6. StreamKeepsUp'
      BY <2>4, <2>5 DEF StreamKeepsUp
    <2>7. left' \in Nat
      BY <1>1, <2>2
    <2> QED
      BY <1>4, <2>2, <2>3, <2>6, <2>7
  <1> QED
    BY <1>3, <1>4

LEMMA TickKeeps ==
    StreamHolds /\ SpuTick =>
       /\ StreamHolds'
       /\ ~dry' /\ left' # left => left' = left + 1
       /\ ~dry' /\ due = 1 => adma'.pending = <<>>
  <1> SUFFICES ASSUME StreamHolds, SpuTick
               PROVE  /\ StreamHolds'
                      /\ ~dry' /\ left' # left => left' = left + 1
                      /\ ~dry' /\ due = 1 => adma'.pending = <<>>
    OBVIOUS
  <1>0. StreamTypes /\ StreamKeepsUp /\ LandsInTime
    BY StreamSplit
  <1>1. /\ AdmaTypes(adma) /\ unit \in 0 .. SAMPLE - 1 /\ queued \in Nat /\ left \in Nat
        /\ dry \in BOOLEAN /\ due \in Nat \cup {-1} /\ due # 0 /\ (due # -1 => adma.on)
    BY <1>0 DEF StreamTypes
  <1>2. /\ unit' = (unit + 1) % SAMPLE /\ queued' = queued
        /\ adma' = IF unit' = 0 THEN Mixed(adma) ELSE adma
        /\ due' = IF due \in {1, -1} THEN -1 ELSE due - 1
        /\ IF unit' = 0 /\ Leaves(adma)
           THEN /\ left' = IF adma.filled[Reading(adma)] THEN adma.data[Reading(adma)] ELSE left
                /\ dry' = (dry \/ ~adma.filled[Reading(adma)])
           ELSE UNCHANGED <<left, dry>>
    BY DEF SpuTick
  <1>3. /\ unit' \in 0 .. SAMPLE - 1
        /\ unit' = 0 => unit = SAMPLE - 1
        /\ unit' # 0 => unit' = unit + 1 /\ unit # SAMPLE - 1
    <2>1. SAMPLE \in Nat \ {0} /\ unit + 1 \in Nat
      BY <1>1, SpuAssumption
    <2>2. /\ (unit + 1) % SAMPLE \in 0 .. (SAMPLE - 1) /\ SAMPLE % SAMPLE = 0
          /\ unit + 1 < SAMPLE => (unit + 1) % SAMPLE = unit + 1
      BY <2>1, ModOf, Zenon
    <2>3. unit + 1 < SAMPLE \/ unit + 1 = SAMPLE
      BY <1>1, <2>1
    <2>4. CASE unit + 1 < SAMPLE
      <3>1. unit' = unit + 1
        BY <1>2, <2>2, <2>4
      <3> QED
        BY <1>1, <2>1, <2>4, <3>1
    <2>5. CASE unit + 1 = SAMPLE
      <3>1. unit' = 0
        BY <1>2, <2>2, <2>5
      <3> QED
        BY <1>1, <2>1, <2>5, <3>1
    <2> QED
      BY <2>3, <2>4, <2>5
  <1>4. /\ due' \in Nat \cup {-1} /\ due' # 0
        /\ due' # -1 => due \in Nat \ {0} /\ due' = due - 1 /\ due # 1 /\ due # -1
    BY <1>1, <1>2
  <1>5. AdmaTypes(adma') /\ adma'.on = adma.on
    BY <1>1, <1>2, MixTypes
  <1>6. dry' \in BOOLEAN /\ (~dry' => ~dry)
    BY <1>1, <1>2
  <1>7. left' \in Nat
    <2>1. adma.data[Reading(adma)] \in Nat
      BY <1>1, ReadingFacts DEF AdmaTypes
    <2> QED
      BY <1>1, <1>2, <2>1
  <1>8. StreamTypes'
    BY <1>1, <1>2, <1>3, <1>4, <1>5, <1>6, <1>7 DEF StreamTypes
  <1>9. Landing(adma) \in Nat /\ (adma.pending # <<>> => Landing(adma) >= 1)
    BY <1>1, LandingFacts
  <1>10. ASSUME ~dry', due # -1
         PROVE  /\ unit = SAMPLE - 1 /\ Landing(adma) >= 1
                      => due - 1 >= (Landing(adma) - 1) * SAMPLE
                /\ unit # SAMPLE - 1 => (unit + 1) + (due - 1) >= Landing(adma) * SAMPLE
                /\ due = 1 /\ unit = SAMPLE - 1 => Landing(adma) < 2
                /\ due = 1 /\ unit # SAMPLE - 1 => Landing(adma) = 0
    <2>1. due \in Nat \ {0} /\ unit + due >= Landing(adma) * SAMPLE
      BY <1>0, <1>1, <1>6, <1>10 DEF LandsInTime
    <2> QED
      BY <1>1, <1>9, <2>1, UnitsLeft
  <1>11. CASE unit' # 0
    <2>1. UNCHANGED <<adma, left, dry, queued>>
      BY <1>2, <1>11
    <2>2. StreamKeepsUp'
      BY <1>0, <2>1 DEF StreamKeepsUp
    <2>3. LandsInTime'
      <3> SUFFICES ASSUME ~dry', due' # -1 PROVE unit' + due' >= Landing(adma') * SAMPLE
        BY DEF LandsInTime
      <3>1. (unit + 1) + (due - 1) >= Landing(adma) * SAMPLE
        BY <1>3, <1>4, <1>10, <1>11
      <3> QED
        BY <1>3, <1>4, <1>11, <2>1, <3>1
    <2>4. ~dry' /\ due = 1 => adma'.pending = <<>>
      <3> SUFFICES ASSUME ~dry', due = 1 PROVE adma.pending = <<>>
        BY <2>1
      <3>1. Landing(adma) = 0
        BY <1>3, <1>10, <1>11
      <3> QED
        BY <1>9, <3>1
    <2> QED
      <3>1. StreamHolds'
        BY <1>8, <2>2, <2>3, StreamSplit, PTL
      <3> QED
        BY <2>1, <2>4, <3>1
  <1>12. CASE unit' = 0 /\ ~adma.on
    <2>1. adma' = adma /\ due = -1 /\ due' = -1 /\ UNCHANGED <<left, dry>>
      BY <1>1, <1>2, <1>12 DEF Mixed, Leaves
    <2>2. StreamKeepsUp' /\ LandsInTime'
      BY <1>12, <2>1 DEF StreamKeepsUp, LandsInTime
    <2> QED
      <3>1. StreamHolds'
        BY <1>8, <2>2, StreamSplit, PTL
      <3> QED
        BY <1>1, <2>1, <3>1
  <1>13. CASE unit' = 0 /\ adma.on
    <2>1. ASSUME ~dry'
          PROVE  /\ StreamKeepsUp'
                 /\ left' = IF Leaves(adma) THEN left + 1 ELSE left
                 /\ adma'.pending # <<>> =>
                       Landing(adma') = Landing(adma) - 1 /\ Landing(adma) >= 2
      BY <1>2, <1>13, <2>1, SampleKeeps
    <2>2. StreamKeepsUp'
      BY <2>1 DEF StreamKeepsUp
    <2>3. LandsInTime'
      <3> SUFFICES ASSUME ~dry', due' # -1 PROVE unit' + due' >= Landing(adma') * SAMPLE
        BY DEF LandsInTime
      <3>1. CASE adma'.pending = <<>>
        <4>1. Landing(adma') = 0 /\ 0 * SAMPLE = 0 /\ due' \in Nat
          BY <1>4, <3>1, SpuAssumption DEF Landing
        <4> QED
          BY <1>13, <4>1
      <3>2. CASE adma'.pending # <<>>
        <4>1. Landing(adma') = Landing(adma) - 1 /\ Landing(adma) >= 2
          BY <2>1, <3>2
        <4>2. due - 1 >= (Landing(adma) - 1) * SAMPLE
          BY <1>3, <1>4, <1>9, <1>10, <1>13, <4>1
        <4>3. 0 + (due - 1) = due - 1
          BY <1>4
        <4> QED
          BY <1>4, <1>13, <4>1, <4>2, <4>3, Zenon
      <3> QED
        BY <3>1, <3>2
    <2>4. ~dry' /\ due = 1 => adma'.pending = <<>>
      <3> SUFFICES ASSUME ~dry', due = 1, adma'.pending # <<>> PROVE FALSE
        OBVIOUS
      <3>1. Landing(adma) < 2
        BY <1>3, <1>10, <1>13
      <3>2. Landing(adma) >= 2
        BY <2>1
      <3> QED
        BY <1>9, <3>1, <3>2
    <2> QED
      <3>1. StreamHolds'
        BY <1>8, <2>2, <2>3, StreamSplit, PTL
      <3> QED
        BY <2>1, <2>4, <3>1
  <1> QED
    BY <1>11, <1>12, <1>13

(***************************************************************************)
(* The sound unit keeps its promise, whatever else uses the bus.           *)
(***************************************************************************)
AroundSound == BusNext /\ UNCHANGED <<stream, sound>>

LEMMA StreamKeeps ==
    StreamHolds /\ (StreamNext \/ UNCHANGED stream) =>
       /\ StreamHolds'
       /\ ~dry' /\ left' # left /\ left' # 0 => left' = left + 1
       /\ due = 1 /\ due' = -1 /\ ~dry' => adma'.pending = <<>>
  <1> SUFFICES ASSUME StreamHolds, StreamNext \/ UNCHANGED stream
               PROVE  /\ StreamHolds'
                      /\ ~dry' /\ left' # left /\ left' # 0 => left' = left + 1
                      /\ due = 1 /\ due' = -1 /\ ~dry' => adma'.pending = <<>>
    OBVIOUS
  <1>1. CASE AdmasWrite
    <2>1. due = -1 /\ left' = 0
      BY <1>1 DEF AdmasWrite
    <2> QED
      BY <1>1, <2>1, AdmasKeeps
  <1>2. CASE AdmaKick
    <2>1. due = -1 /\ left' = left
      BY <1>2 DEF AdmaKick
    <2> QED
      BY <1>2, <2>1, KickKeeps
  <1>3. CASE SpuTick
    BY <1>3, TickKeeps
  <1>4. CASE UNCHANGED stream
    <2>1. StreamHolds'
      BY <1>4 DEF stream, StreamHolds, StreamKeepsUp, LandsInTime
    <2> QED
      BY <1>4, <2>1 DEF stream
  <1> QED
    BY <1>1, <1>2, <1>3, <1>4 DEF StreamNext

LEMMA StepKeeps ==
    StreamHolds /\ SoundInv /\ [StreamNext \/ SoundNext \/ AroundSound]_<<stream, sound, iop_bus>> =>
       /\ StreamHolds' /\ SoundInv'
       /\ ~dry' /\ left' # left /\ left' # 0 => left' = left + 1
       /\ due = 1 /\ due' = -1 /\ ~dry' => adma'.pending = <<>>
       /\ irq_flag' # irq_flag /\ voice' # voice => irqa[Voiced] \div BLOCK = playing'
       /\ voice.pinned /\ voice'.pinned /\ voice'.nax # voice.nax => voice'.lsax = voice.lsax
  <1> SUFFICES ASSUME StreamHolds, SoundInv,
                      [StreamNext \/ SoundNext \/ AroundSound]_<<stream, sound, iop_bus>>
               PROVE  /\ StreamHolds' /\ SoundInv'
                      /\ ~dry' /\ left' # left /\ left' # 0 => left' = left + 1
                      /\ due = 1 /\ due' = -1 /\ ~dry' => adma'.pending = <<>>
                      /\ irq_flag' # irq_flag /\ voice' # voice
                            => irqa[Voiced] \div BLOCK = playing'
                      /\ voice.pinned /\ voice'.pinned /\ voice'.nax # voice.nax
                            => voice'.lsax = voice.lsax
    OBVIOUS
  <1>1. StreamNext => UNCHANGED sound
    BY DEF StreamNext, AdmasWrite, AdmaKick, SpuTick
  <1>2. SoundNext => UNCHANGED stream
    BY DEF SoundNext, AttrWrite, IrqaWrite, Transfer, KeyOn, LsaxWrite, VoiceStep, SpuAck, stream
  <1>3. StreamNext \/ UNCHANGED stream
    BY <1>2 DEF AroundSound
  <1>4. SoundNext \/ UNCHANGED sound
    BY <1>1 DEF AroundSound
  <1> QED
    BY <1>3, <1>4, StreamKeeps, SoundKeeps, InterruptsInBlock, LoopPointStays

\* For any halves, samples, blocks and songs, and with any other device on
\* the bus: a stream that keeps up is played in order and completes in the
\* ring, an interrupt is latched only while enabled and by a voice only for
\* the block it plays, and a loop point of software stays.
THEOREM SpuSoundKept == SpuSpec => SoundKept
  <1> DEFINE vars == <<stream, sound, iop_bus>>
             Step == StreamNext \/ SoundNext \/ AroundSound
  <1>1. StreamInit /\ SoundInit => StreamHolds /\ SoundInv
    BY StreamStarts, SoundStarts
  <1>2. StreamHolds /\ SoundInv /\ [Step]_vars => StreamHolds' /\ SoundInv'
    BY StepKeeps
  <1>3. StreamHolds /\ SoundInv /\ [Step]_vars =>
           [~dry' /\ left' # left /\ left' # 0 => left' = left + 1]_<<stream, iop_bus>>
    BY StepKeeps
  <1>4. StreamHolds /\ SoundInv /\ [Step]_vars =>
           [due = 1 /\ due' = -1 /\ ~dry' => adma'.pending = <<>>]_<<stream, iop_bus>>
    BY StepKeeps
  <1>5. StreamHolds /\ SoundInv /\ [Step]_vars =>
           [irq_flag' # irq_flag /\ voice' # voice
               => irqa[Voiced] \div BLOCK = playing']_<<sound, iop_bus>>
    BY StepKeeps
  <1>6. StreamHolds /\ SoundInv /\ [Step]_vars =>
           [voice.pinned /\ voice'.pinned /\ voice'.nax # voice.nax
               => voice'.lsax = voice.lsax]_<<sound, iop_bus>>
    BY StepKeeps
  <1>7. SoundInv => LatchedWhileEnabled
    BY DEF SoundInv
  <1> QED
    BY <1>1, <1>2, <1>3, <1>4, <1>5, <1>6, <1>7, PTL
       DEF SpuSpec, SoundKept, BlocksInOrder, CompletesInRing, IrqOfPlayingBlock,
           PinnedLoopStays, AroundSound

(***************************************************************************)
(* Induction over the numbers.                                             *)
(***************************************************************************)
LEMMA Least ==
    ASSUME NEW S \in SUBSET Nat, S # {}
    PROVE  \E n \in S : \A m \in S : n <= m
  <1> DEFINE R == OpToRel(<, Nat)
  <1>1. \A m, n \in Nat : m < n => <<m, n>> \in R
    BY DEF OpToRel
  <1>2. IsWellFoundedOn(R, Nat)
    BY NatLessThanWellFounded
  <1> HIDE DEF R
  <1>3. PICK n \in S : \A m \in S : ~(<<m, n>> \in R)
    BY <1>2, WFMin
  <1>4. \A m \in S : ~(m < n)
    BY <1>1, <1>3
  <1> QED
    BY <1>4

LEMMA Induction ==
    ASSUME NEW S \in SUBSET Nat, 0 \in S, \A n \in S : n + 1 \in S
    PROVE  S = Nat
  <1>1. SUFFICES ASSUME S # Nat PROVE FALSE
    OBVIOUS
  <1>2. PICK n \in Nat \ S : \A m \in Nat \ S : n <= m
    BY <1>1, Least
  <1>3. n - 1 \in S
    BY <1>2
  <1> QED
    BY <1>2, <1>3

(***************************************************************************)
(* The memory card: where the cursor and an erase are, by page and chunk.  *)
(***************************************************************************)
LEMMA SplitOf ==
    ASSUME NEW e \in Nat \ {0}, NEW n \in Nat
    PROVE  n \div e \in Nat /\ n % e \in 0 .. (e - 1) /\ n = (n \div e) * e + (n % e)
  BY SMTT(30)

LEMMA ProductLaws ==
    \A a, b, c \in Nat : /\ (a + b) * c = a * c + b * c
                         /\ (a * b) * c = a * (b * c)
                         /\ a * b = b * a
  BY SMTT(30)

\* A place r of the q-th of m parts, each of e places, is one of the whole.
LEMMA InWhole ==
    ASSUME NEW e \in Nat \ {0}, NEW m \in Nat \ {0}, NEW q \in 0 .. (m - 1), NEW r \in 0 .. (e - 1)
    PROVE  q * e + r \in 0 .. (m * e - 1)
  <1>1. (q + 1) * e =< m * e /\ (q + 1) * e = q * e + 1 * e /\ q * e \in Nat /\ m * e \in Nat
    BY ProductMono, ProductLaws, ProductTypes
  <1> QED
    BY <1>1

\* The residue of a sum by the residue of its first term.
LEMMA ResidueOfSum ==
    ASSUME NEW e \in Nat \ {0}, NEW a \in Nat, NEW b \in Nat
    PROVE  ((a % e) + b) % e = (a + b) % e
  <1> DEFINE qa == a \div e
             ra == a % e
             q  == (ra + b) \div e
             r  == (ra + b) % e
  <1>1. qa \in Nat /\ ra \in 0 .. (e - 1) /\ a = qa * e + ra
    BY SplitOf
  <1>2. ra + b \in Nat
    BY <1>1
  <1>3. q \in Nat /\ r \in 0 .. (e - 1) /\ ra + b = q * e + r
    BY <1>2, SplitOf
  <1> HIDE DEF qa, ra, q, r
  <1>4. (qa + q) * e = qa * e + q * e /\ qa + q \in Nat
    BY <1>1, <1>3, ProductLaws
  <1>5. qa * e \in Nat /\ q * e \in Nat
    BY <1>1, <1>3, ProductTypes
  <1>6. a + b = (qa + q) * e + r
    BY <1>1, <1>3, <1>4, <1>5
  <1> DEFINE w == qa + q
  <1>r. w * e + r = a + b /\ w \in Nat
    BY <1>1, <1>3, <1>6
  <1> HIDE DEF w
  <1>7. (a + b) % e = r
    <2>1. (w * e + r) % e = r
      BY <1>3, <1>r, DivOf
    <2> QED
      BY <2>1, <1>r
  <1> QED
    BY <1>7 DEF r, ra

\* The cursor of the card is the user's place.
LEMMA CursorIs ==
    ASSUME NEW k, NEW g, k.sector \in Nat, k.progress \in Nat,
           g.page = k.sector % MEMCARD_PAGES, g.at = k.progress
    PROVE  /\ PageAt(g) \in Page /\ ChunkAt(g) \in Chunk
           /\ Cursor(k) = PageAt(g) * MEMCARD_PAGE + ChunkAt(g)
  <1> DEFINE P == MEMCARD_PAGE
             N == MEMCARD_PAGES
             s == k.sector
             n == k.progress
             d == n \div P
             c == n % P
             t == s + d
             p == t % N
             h == t \div N
  <1>1. P \in Nat \ {0} /\ N \in Nat \ {0} /\ s \in Nat /\ n \in Nat
    BY SioAssumption
  <1>2. d \in Nat /\ c \in 0 .. (P - 1) /\ n = d * P + c
    BY <1>1, SplitOf
  <1>3. PageAt(g) = ((s % N) + d) % N /\ ChunkAt(g) = c
    BY DEF PageAt, ChunkAt
  <1>4. Cursor(k) = (s * P + n) % (N * P)
    BY DEF Cursor
  <1> HIDE DEF P, N, s, n, d, c
  <1>5. t \in Nat
    BY <1>1, <1>2
  <1>6. h \in Nat /\ p \in 0 .. (N - 1) /\ t = h * N + p
    BY <1>1, <1>5, SplitOf
  <1>7. PageAt(g) = p
    BY <1>1, <1>2, <1>3, ResidueOfSum
  <1> HIDE DEF h, p
  <1>8. s * P + n = t * P + c
    <2>1. t * P = s * P + d * P
      BY <1>1, <1>2, ProductLaws
    <2>2. s * P \in Nat /\ d * P \in Nat /\ c \in Nat
      BY <1>1, <1>2, ProductTypes
    <2> HIDE DEF t
    <2> QED
      BY <1>2, <2>1, <2>2
  <1> HIDE DEF t
  <1>9. t * P = h * (N * P) + p * P
    <2>1. h * N \in Nat /\ p \in Nat
      BY <1>1, <1>6, ProductTypes
    <2>2. (h * N + p) * P = (h * N) * P + p * P
      BY <1>1, <2>1, ProductLaws
    <2>3. (h * N) * P = h * (N * P)
      BY <1>1, <1>6, ProductLaws
    <2> QED
      BY <1>6, <2>2, <2>3
  <1> DEFINE e == N * P
             r == p * P + c
  <1>10. r \in 0 .. (e - 1)
    BY <1>1, <1>2, <1>6, InWhole
  <1>11. e \in Nat /\ e # 0
    BY <1>1, <1>10, ProductTypes
  <1>12. s * P + n = h * e + r
    <2>1. h * e \in Nat /\ p * P \in Nat /\ c \in Nat
      BY <1>1, <1>2, <1>6, <1>11, ProductTypes
    <2>2. t * P = h * e + p * P
      BY <1>9
    <2> HIDE DEF e
    <2> QED
      BY <1>8, <2>1, <2>2
  <1> HIDE DEF e, r
  <1>13. (h * e + r) % e = r
    BY <1>6, <1>10, <1>11, DivOf
  <1>14. Cursor(k) = r
    BY <1>4, <1>12, <1>13 DEF e
  <1> QED
    BY <1>2, <1>3, <1>6, <1>7, <1>14 DEF r, P, N, Page, Chunk

\* An erase covers the chunks of the block of the page selected.
LEMMA EraseIs ==
    ASSUME NEW k, k.sector \in Nat, NEW p \in Page, NEW c \in Chunk
    PROVE  /\ p * MEMCARD_PAGE + c \in CardAt
           /\ p * MEMCARD_PAGE + c \in EraseFrom(k) .. EraseFrom(k) + MEMCARD_BLOCK * MEMCARD_PAGE - 1
              <=> p \div MEMCARD_BLOCK = (k.sector % MEMCARD_PAGES) \div MEMCARD_BLOCK
  <1> DEFINE P == MEMCARD_PAGE
             N == MEMCARD_PAGES
             B == MEMCARD_BLOCK
             M == N \div B
             s == k.sector
             a == s \div B
             r == s % B
             h == a \div M
             e == a % M
             D == B * P
  <1>1. P \in Nat \ {0} /\ N \in Nat \ {0} /\ B \in Nat \ {0} /\ s \in Nat /\ N % B = 0
    BY SioAssumption
  <1>2. M \in Nat /\ N = M * B + 0
    BY <1>1, SplitOf
  <1>3. a \in Nat /\ r \in 0 .. (B - 1) /\ s = a * B + r
    BY <1>1, SplitOf
  <1>0. EraseFrom(k) = (a * B * P) % (N * P)
    BY DEF EraseFrom
  <1>p. p \in 0 .. (N - 1) /\ c \in 0 .. (P - 1)
    BY DEF Page, Chunk
  <1>q. p * P + c \in 0 .. (N * P - 1)
    BY <1>1, <1>p, InWhole
  <1>r. /\ CardAt = 0 .. N * P - 1
        /\ MEMCARD_BLOCK * MEMCARD_PAGE = D
        /\ s % N = k.sector % MEMCARD_PAGES
    BY DEF CardAt
  <1> SUFFICES p * P + c \in EraseFrom(k) .. EraseFrom(k) + D - 1 <=> p \div B = (s % N) \div B
    BY <1>q, <1>r
  <1> HIDE DEF P, N, B, M, s, a, r
  <1>4. M \in Nat \ {0} /\ N = M * B
    <2>1. M * B \in Nat
      BY <1>1, <1>2, ProductTypes
    <2>2. M # 0
      BY <1>1, <1>2
    <2> QED
      BY <1>2, <2>1, <2>2
  <1>5. h \in Nat /\ e \in 0 .. (M - 1) /\ a = h * M + e
    BY <1>3, <1>4, SplitOf
  <1> HIDE DEF h, e
  <1>6. D \in Nat \ {0}
    <2>1. 0 \in 0 .. (B - 1) /\ 0 \in 0 .. (P - 1)
      BY <1>1
    <2>2. 0 * P + 0 \in 0 .. (B * P - 1) /\ B * P \in Nat
      BY <1>1, <2>1, InWhole, ProductTypes
    <2> QED
      BY <2>2
  <1>7. N * P = M * D
    BY <1>1, <1>4, ProductLaws
  <1>8. a * B * P = h * (M * D) + e * D
    <2>1. a * B * P = a * D
      BY <1>1, <1>3, ProductLaws
    <2>2. h * M \in Nat /\ e \in Nat
      BY <1>4, <1>5, ProductTypes
    <2> HIDE DEF D
    <2>3. (h * M + e) * D = (h * M) * D + e * D
      BY <1>6, <2>2, ProductLaws
    <2>4. (h * M) * D = h * (M * D)
      BY <1>4, <1>5, <1>6, ProductLaws
    <2> QED
      BY <1>5, <2>1, <2>3, <2>4
  <1>9. EraseFrom(k) = e * D
    <2> DEFINE w == M * D
               v == e * D
    <2> HIDE DEF D
    <2>1. 0 \in 0 .. (D - 1)
      BY <1>6
    <2>2. v + 0 \in 0 .. (w - 1) /\ v \in Nat /\ w \in Nat
      BY <1>4, <1>5, <1>6, <2>1, InWhole, ProductTypes
    <2>3. EraseFrom(k) = (h * w + v) % w
      BY <1>0, <1>7, <1>8
    <2> HIDE DEF w, v
    <2>4. w \in Nat \ {0} /\ v \in 0 .. (w - 1)
      BY <2>2
    <2>5. (h * w + v) % w = v
      BY <1>5, <2>4, DivOf
    <2> QED
      BY <2>3, <2>5 DEF v
  <1>10. (s % N) \div B = e
    <2> DEFINE u == e * B + r
    <2>1. u \in 0 .. (N - 1) /\ u \in Nat
      BY <1>1, <1>3, <1>4, <1>5, InWhole
    <2>2. s = h * N + u
      <3>1. h * M \in Nat /\ e \in Nat /\ e * B \in Nat /\ r \in Nat /\ h * N \in Nat
        BY <1>1, <1>3, <1>4, <1>5, ProductTypes
      <3>2. (h * M + e) * B = (h * M) * B + e * B
        BY <1>1, <3>1, ProductLaws
      <3>3. (h * M) * B = h * N
        BY <1>1, <1>4, <1>5, ProductLaws
      <3>4. a * B = h * N + e * B
        BY <1>5, <3>2, <3>3
      <3> QED
        BY <1>3, <3>1, <3>4
    <2> HIDE DEF u
    <2>3. s % N = u
      BY <1>1, <1>5, <2>1, <2>2, DivOf
    <2>4. e \in Nat
      BY <1>4, <1>5
    <2>5. (e * B + r) \div B = e
      BY <1>1, <1>3, <2>4, DivOf
    <2> QED
      BY <2>3, <2>5 DEF u
  <1> DEFINE f == p \div B
             o == p % B
             z == o * P + c
             x == p * P + c
  <1>n. p \in Nat
    BY <1>1, <1>p
  <1>11. f \in Nat /\ o \in 0 .. (B - 1) /\ p = f * B + o
    BY <1>1, <1>n, SplitOf
  <1> HIDE DEF f, o
  <1>12. z \in 0 .. (D - 1)
    BY <1>1, <1>p, <1>11, InWhole
  <1>13. x = f * D + z
    <2>1. f * B \in Nat /\ o \in Nat /\ o * P \in Nat /\ c \in Nat /\ f * D \in Nat
      BY <1>1, <1>p, <1>6, <1>11, ProductTypes
    <2>2. (f * B + o) * P = (f * B) * P + o * P
      BY <1>1, <2>1, ProductLaws
    <2>3. (f * B) * P = f * D
      BY <1>1, <1>11, ProductLaws
    <2>4. p * P = f * D + o * P
      BY <1>11, <2>2, <2>3
    <2> HIDE DEF D
    <2> QED
      BY <2>1, <2>4
  <1> HIDE DEF D, x, z
  <1>14. x \in e * D .. e * D + D - 1 <=> f = e
    <2> DEFINE fd == f * D
               ed == e * D
    <2>1. fd \in Nat /\ ed \in Nat /\ e \in Nat
      BY <1>4, <1>5, <1>6, <1>11, ProductTypes
    <2>2. f < e => fd + D <= ed
      <3>1. f < e => (f + 1) * D =< e * D
        BY <1>6, <1>11, <2>1, ProductMono
      <3>2. (f + 1) * D = f * D + 1 * D
        BY <1>6, <1>11, ProductLaws
      <3> QED
        BY <1>6, <3>1, <3>2, <2>1
    <2>3. e < f => ed + D <= fd
      <3>1. e < f => (e + 1) * D =< f * D
        BY <1>6, <1>11, <2>1, ProductMono
      <3>2. (e + 1) * D = e * D + 1 * D
        BY <1>6, <2>1, ProductLaws
      <3> QED
        BY <1>6, <3>1, <3>2, <2>1
    <2>4. f = e => fd = ed
      OBVIOUS
    <2>5. x = fd + z
      BY <1>13
    <2> HIDE DEF fd, ed
    <2>6. x \in ed .. ed + D - 1 <=> f = e
      BY <1>6, <1>11, <1>12, <2>1, <2>2, <2>3, <2>4, <2>5
    <2> QED
      BY <2>6 DEF ed
  <1> QED
    BY <1>9, <1>10, <1>14 DEF x, f
(***************************************************************************)
(* What a sub-transfer does to the pad and to the card.                    *)
(***************************************************************************)
Arg      == UNION { { p[i].arg : i \in 1 .. Len(p) } : p \in SioPacket }
CardByte == Arg \cup {Erased, "new", "ready"}
PadSet   == [config : BOOLEAN, mode : PadMode]
CardData  == [CardAt -> CardByte]
PagedData == [Page -> [Chunk -> CardByte]]
CardSet  == [data : CardData, term : CardByte, sector : Nat, progress : Nat]
PagedSet == [page : Page, at : Nat, data : PagedData]
PadSays  == [id : PadMode \cup {"config"}, payload : PadMode \cup {"constants", "none"}]
CardTold == [term : CardByte, data : CardByte]
Answer   == PadSays \cup CardTold \cup {"no tap", "floating"}

SubTransfer(c) == /\ c.len \in Nat /\ c.arg \in CardByte
                  /\ c.op = "4F" => c.arg \in PadMode
                  /\ c.op = "sector" => c.arg \in Nat
SameCard(k, g) == /\ k \in CardSet /\ g \in PagedSet
                  /\ g.page = k.sector % MEMCARD_PAGES /\ g.at = k.progress
                  /\ \A p \in Page, c \in Chunk : k.data[p * MEMCARD_PAGE + c] = g.data[p][c]
\* What the answer a to the pad command c must be.
Polled(c, a) == c.dev = "pad" /\ c.port = 0 /\ a.payload # "none" =>
                    a.id = (IF a.payload = "constants" THEN "config" ELSE a.payload)

LEMMA PadKeeps ==
    ASSUME NEW p \in PadSet, NEW c, SubTransfer(c)
    PROVE  PadAfter(p, c) \in PadSet /\ PadAnswer(p, c) \in Answer /\ Polled(c, PadAnswer(p, c))
  <1>1. PadAfter(p, c) \in PadSet
    <2>1. CASE p.config /\ c.op = "4F"
      <3>1. PadAfter(p, c) = [p EXCEPT !.mode = c.arg]
        BY <2>1 DEF PadAfter
      <3> QED
        BY <2>1, <3>1 DEF PadSet, SubTransfer
    <2>2. CASE p.config /\ c.op = "44"
      <3>1. PadAfter(p, c) = [p EXCEPT !.mode = IF c.arg = "analog" THEN c.arg ELSE "digital"]
        BY <2>2 DEF PadAfter
      <3> QED
        BY <3>1 DEF PadSet, PadMode
    <2>3. CASE c.op = "43"
      <3>1. PadAfter(p, c) = [p EXCEPT !.config = (c.arg = "enter")]
        BY <2>3 DEF PadAfter
      <3> QED
        BY <3>1 DEF PadSet
    <2>4. CASE ~(p.config /\ c.op = "4F") /\ ~(p.config /\ c.op = "44") /\ c.op # "43"
      <3>1. PadAfter(p, c) = p
        BY <2>4 DEF PadAfter
      <3> QED
        BY <3>1
    <2> QED
      BY <2>1, <2>2, <2>3, <2>4
  <1>0. p.config \in BOOLEAN
    BY DEF PadSet
  <1>2. PadId(p) = IF p.config THEN "config" ELSE p.mode
    BY DEF PadId
  <1>3. PadPayload(p, c) = IF p.config THEN "constants" ELSE IF c.op \in {"42", "43"} THEN p.mode ELSE "none"
    BY <1>0 DEF PadPayload
  <1>4. p.mode \in PadMode /\ p.mode # "constants" /\ p.mode # "none"
    BY DEF PadSet, PadMode
  <1>5. PadAnswer(p, c) = [id |-> PadId(p), payload |-> PadPayload(p, c)]
    BY DEF PadAnswer
  <1>6. PadAnswer(p, c) \in Answer
    <2>1. PadId(p) \in PadMode \cup {"config"}
      BY <1>0, <1>2, <1>4
    <2>2. PadPayload(p, c) \in PadMode \cup {"constants", "none"}
      BY <1>0, <1>3, <1>4
    <2>3. PadAnswer(p, c) \in PadSays
      BY <1>5, <2>1, <2>2 DEF PadSays
    <2> QED
      BY <2>3 DEF Answer
  <1>7. Polled(c, PadAnswer(p, c))
    BY <1>2, <1>3, <1>4, <1>5 DEF Polled
  <1> QED
    BY <1>1, <1>6, <1>7

\* Pages and chunks name the places of the card once.
LEMMA PlacesDiffer ==
    ASSUME NEW p \in Page, NEW c \in Chunk, NEW q \in Page, NEW d \in Chunk,
           p * MEMCARD_PAGE + c = q * MEMCARD_PAGE + d
    PROVE  p = q /\ c = d
  <1> DEFINE x == p * MEMCARD_PAGE + c
  <1>1. p \in Nat /\ q \in Nat /\ MEMCARD_PAGE \in Nat \ {0}
    BY SioAssumption DEF Page
  <1>2. c \in 0 .. (MEMCARD_PAGE - 1) /\ d \in 0 .. (MEMCARD_PAGE - 1)
    BY DEF Chunk
  <1>3. (p * MEMCARD_PAGE + c) \div MEMCARD_PAGE = p /\ (p * MEMCARD_PAGE + c) % MEMCARD_PAGE = c
    BY <1>1, <1>2, DivOf
  <1>4. (q * MEMCARD_PAGE + d) \div MEMCARD_PAGE = q /\ (q * MEMCARD_PAGE + d) % MEMCARD_PAGE = d
    BY <1>1, <1>2, DivOf
  <1> QED
    BY <1>3, <1>4

LEMMA CardKeeps ==
    ASSUME NEW k, NEW g, SameCard(k, g), NEW c, SubTransfer(c)
    PROVE  SameCard(CardAfter(k, c), PagedAfter(g, c))
  <1> DEFINE P == MEMCARD_PAGE
             x == PageAt(g) * P + ChunkAt(g)
  <1>1. /\ k \in CardSet /\ g \in PagedSet /\ g.page = k.sector % MEMCARD_PAGES /\ g.at = k.progress
        /\ \A p \in Page, d \in Chunk : k.data[p * P + d] = g.data[p][d]
    BY DEF SameCard
  <1>2. k.sector \in Nat /\ k.progress \in Nat /\ k.data \in CardData /\ k.term \in CardByte
    BY <1>1 DEF CardSet
  <1>k. k = [data |-> k.data, term |-> k.term, sector |-> k.sector, progress |-> k.progress]
    BY <1>1 DEF CardSet
  <1>d. k.data \in [CardAt -> CardByte]
    BY <1>2 DEF CardData
  <1>3. PageAt(g) \in Page /\ ChunkAt(g) \in Chunk /\ Cursor(k) = x
    BY <1>1, <1>2, CursorIs
  <1>4. \A p \in Page, d \in Chunk : p * P + d \in CardAt
    BY <1>2, EraseIs
  <1>5. x \in CardAt
    BY <1>3, <1>4
  <1>6. g.page \in Page /\ g.at \in Nat /\ g.data \in PagedData
    BY <1>1 DEF PagedSet
  <1>m. g = [page |-> g.page, at |-> g.at, data |-> g.data]
    BY <1>1 DEF PagedSet
  <1>g. g.data \in [Page -> [Chunk -> CardByte]]
    BY <1>6 DEF PagedData
  <1>7. Erased \in CardByte /\ "ready" \in CardByte
    BY DEF CardByte
  <1>c. c.len \in Nat /\ c.arg \in CardByte /\ (c.op = "sector" => c.arg \in Nat)
    BY DEF SubTransfer
  <1>s. CASE c.op = "sector"
    <2>1. /\ CardAfter(k, c) = [k EXCEPT !.sector = c.arg, !.progress = 0]
          /\ PagedAfter(g, c) = [g EXCEPT !.page = c.arg % MEMCARD_PAGES, !.at = 0]
      BY <1>s DEF CardAfter, PagedAfter
    <2>2. c.arg % MEMCARD_PAGES \in Page
      <3>1. MEMCARD_PAGES \in Nat \ {0} /\ c.arg \in Nat
        BY <1>s, <1>c, SioAssumption
      <3> QED
        BY <3>1, SplitOf DEF Page
    <2>3. CardAfter(k, c) = [data |-> k.data, term |-> k.term, sector |-> c.arg, progress |-> 0]
      BY <1>k, <2>1
    <2>4. PagedAfter(g, c) = [page |-> c.arg % MEMCARD_PAGES, at |-> 0, data |-> g.data]
      BY <1>m, <2>1
    <2>5. CardAfter(k, c) \in CardSet /\ PagedAfter(g, c) \in PagedSet
      BY <1>2, <1>6, <1>c, <1>s, <2>2, <2>3, <2>4 DEF CardSet, PagedSet
    <2> QED
      BY <1>1, <2>3, <2>4, <2>5 DEF SameCard
  <1>w. CASE c.op = "write"
    <2> DEFINE y == c.arg
               n == [k.data EXCEPT ![x] = y]
               m == [g.data EXCEPT ![PageAt(g)][ChunkAt(g)] = y]
    <2>1. /\ CardAfter(k, c) = [k EXCEPT !.data = n, !.progress = @ + 1]
          /\ PagedAfter(g, c) = [g EXCEPT !.data = m, !.at = @ + 1]
      BY <1>w, <1>3 DEF CardAfter, PagedAfter
    <2>2. n \in CardData /\ m \in PagedData
      BY <1>d, <1>3, <1>5, <1>g, <1>c DEF CardData, PagedData
    <2>3. ASSUME NEW p \in Page, NEW d \in Chunk PROVE n[p * P + d] = m[p][d]
      <3>1. CASE p = PageAt(g) /\ d = ChunkAt(g)
        <4>1. n[x] = y
          BY <1>d, <1>5
        <4>2. m[PageAt(g)][ChunkAt(g)] = y
          BY <1>3, <1>g
        <4> QED
          BY <3>1, <4>1, <4>2
      <3>2. CASE ~(p = PageAt(g) /\ d = ChunkAt(g))
        <4>1. p * P + d # x
          BY <1>3, <3>2, PlacesDiffer
        <4>2. p * P + d \in CardAt
          BY <1>4
        <4>3. n[p * P + d] = k.data[p * P + d]
          BY <1>d, <4>1, <4>2
        <4>4. m[p][d] = g.data[p][d]
          BY <1>3, <1>g, <3>2
        <4> QED
          BY <1>1, <4>3, <4>4
      <3> QED
        BY <3>1, <3>2
    <2> HIDE DEF n, m
    <2>4. CardAfter(k, c) = [data |-> n, term |-> k.term, sector |-> k.sector, progress |-> k.progress + 1]
      BY <1>k, <2>1
    <2>5. PagedAfter(g, c) = [page |-> g.page, at |-> g.at + 1, data |-> m]
      BY <1>m, <2>1
    <2>6. CardAfter(k, c) \in CardSet /\ PagedAfter(g, c) \in PagedSet
      BY <1>2, <1>6, <2>2, <2>4, <2>5 DEF CardSet, PagedSet
    <2> QED
      BY <1>1, <2>3, <2>4, <2>5, <2>6 DEF SameCard
  <1>r. CASE c.op = "read"
    <2>1. /\ CardAfter(k, c) = [k EXCEPT !.progress = @ + 1]
          /\ PagedAfter(g, c) = [g EXCEPT !.at = @ + 1]
      BY <1>r DEF CardAfter, PagedAfter
    <2>2. CardAfter(k, c) \in CardSet /\ CardAfter(k, c).data = k.data
          /\ CardAfter(k, c).sector = k.sector /\ CardAfter(k, c).progress = k.progress + 1
      BY <1>1, <2>1 DEF CardSet
    <2>3. PagedAfter(g, c) \in PagedSet /\ PagedAfter(g, c).data = g.data
          /\ PagedAfter(g, c).page = g.page /\ PagedAfter(g, c).at = g.at + 1
      BY <1>1, <2>1 DEF PagedSet
    <2> QED
      BY <1>1, <2>2, <2>3 DEF SameCard
  <1>e. CASE c.op = "erase"
    <2> DEFINE lo == EraseFrom(k)
               hi == EraseFrom(k) + MEMCARD_BLOCK * MEMCARD_PAGE - 1
               Here(p) == p \div MEMCARD_BLOCK = g.page \div MEMCARD_BLOCK
               n == [z \in CardAt |-> IF z \in lo .. hi THEN Erased ELSE k.data[z]]
               m == [p \in Page |-> IF Here(p) THEN [z \in Chunk |-> Erased] ELSE g.data[p]]
    <2>1. /\ CardAfter(k, c) = [k EXCEPT !.data = n]
          /\ PagedAfter(g, c) = [g EXCEPT !.data = m]
      BY <1>e DEF CardAfter, PagedAfter
    <2>a. \A p \in Page, d \in Chunk : p * P + d \in lo .. hi <=> Here(p)
      BY <1>1, <1>2, EraseIs
    <2> HIDE DEF lo, hi, Here
    <2>2. n \in CardData /\ m \in PagedData
      BY <1>d, <1>g, <1>7 DEF CardData, PagedData
    <2>3. ASSUME NEW p \in Page, NEW d \in Chunk PROVE n[p * P + d] = m[p][d]
      <3>1. p * P + d \in CardAt
        BY <1>4
      <3>2. n[p * P + d] = IF p * P + d \in lo .. hi THEN Erased ELSE k.data[p * P + d]
        BY <3>1
      <3>3. m[p][d] = IF Here(p) THEN Erased ELSE g.data[p][d]
        OBVIOUS
      <3> QED
        BY <1>1, <2>a, <3>2, <3>3
    <2> HIDE DEF n, m
    <2>4. CardAfter(k, c) \in CardSet /\ CardAfter(k, c).data = n
          /\ CardAfter(k, c).sector = k.sector /\ CardAfter(k, c).progress = k.progress
      BY <1>1, <2>1, <2>2 DEF CardSet
    <2>5. PagedAfter(g, c) \in PagedSet /\ PagedAfter(g, c).data = m
          /\ PagedAfter(g, c).page = g.page /\ PagedAfter(g, c).at = g.at
      BY <1>1, <2>1, <2>2 DEF PagedSet
    <2> QED
      BY <1>1, <2>3, <2>4, <2>5 DEF SameCard
  <1>o. CASE c.op \notin {"sector", "write", "read", "erase"}
    <2>1. PagedAfter(g, c) = g
      BY <1>o DEF PagedAfter
    <2>2. CardAfter(k, c) \in {k, [k EXCEPT !.term = "ready"], [k EXCEPT !.term = c.arg]}
      BY <1>o DEF CardAfter
    <2>3. CardAfter(k, c) \in CardSet /\ CardAfter(k, c).data = k.data
          /\ CardAfter(k, c).sector = k.sector /\ CardAfter(k, c).progress = k.progress
      BY <1>1, <1>7, <1>c, <2>2 DEF CardSet
    <2> QED
      BY <1>1, <2>1, <2>3 DEF SameCard
  <1> QED
    BY <1>s, <1>w, <1>r, <1>e, <1>o

LEMMA CardSays ==
    ASSUME NEW k, NEW g, SameCard(k, g), NEW c, SubTransfer(c)
    PROVE  CardAnswer(k, c) \in Answer
  <1>1. k \in CardSet /\ g \in PagedSet /\ g.page = k.sector % MEMCARD_PAGES /\ g.at = k.progress
    BY DEF SameCard
  <1>2. k.sector \in Nat /\ k.progress \in Nat /\ k.data \in CardData /\ k.term \in CardByte
    BY <1>1 DEF CardSet
  <1>3. PageAt(g) \in Page /\ ChunkAt(g) \in Chunk /\ Cursor(k) = PageAt(g) * MEMCARD_PAGE + ChunkAt(g)
    BY <1>1, <1>2, CursorIs
  <1>4. Cursor(k) \in CardAt
    BY <1>2, <1>3, EraseIs
  <1>5. k.data[Cursor(k)] \in CardByte /\ Erased \in CardByte
    BY <1>2, <1>4 DEF CardData, CardByte
  <1>6. CardAfter(k, c).term \in CardByte
    <2>1. CardAfter(k, c) \in CardSet
      BY CardKeeps DEF SameCard
    <2> QED
      BY <2>1 DEF CardSet
  <1>7. CardAnswer(k, c) \in CardTold
    BY <1>2, <1>5, <1>6 DEF CardAnswer, CardTold
  <1> QED
    BY <1>7 DEF Answer

(***************************************************************************)
(* Where a reply goes.                                                     *)
(***************************************************************************)
LEMMA FillIs ==
    ASSUME NEW n \in Nat, NEW v \in Nat
    PROVE  SioFill(n, v) \in Seq(Nat) /\ Len(SioFill(n, v)) = n /\ \A j \in 1 .. n : SioFill(n, v)[j] = v
  BY DEF SioFill

\* In a block of its own, cut or padded to it.
LEMMA BlockedPlace ==
    ASSUME NEW out \in Seq(Nat), NEW i \in Nat \ {0}, NEW len \in Nat, Len(out) = (i - 1) * BlockLen
    PROVE  /\ Place(TRUE, out, i, len) \in Seq(Nat) /\ Len(Place(TRUE, out, i, len)) = i * BlockLen
           /\ \A j \in 1 .. Len(out) : Place(TRUE, out, i, len)[j] = out[j]
           /\ \A j \in 1 .. BlockLen :
                 j =< len => Place(TRUE, out, i, len)[(i - 1) * BlockLen + j] = i
  <1> DEFINE f == SioFill(len, i)
             z == SioFill(BlockLen, 0)
             a == out \o f
             t == a \o z
             e == i * BlockLen
             b == (i - 1) * BlockLen
             r == SubSeq(t, 1, e)
  <1>1. BlockLen \in Nat /\ 0 \in Nat /\ i \in Nat
    BY SioAssumption
  <1>2. f \in Seq(Nat) /\ Len(f) = len /\ \A j \in 1 .. len : f[j] = i
    BY <1>1, FillIs
  <1>3. z \in Seq(Nat) /\ Len(z) = BlockLen
    BY <1>1, FillIs
  <1>4. e = b + BlockLen /\ b \in Nat /\ e \in Nat
    <2>1. i - 1 \in Nat /\ (i - 1) + 1 = i
      OBVIOUS
    <2>2. ((i - 1) + 1) * BlockLen = (i - 1) * BlockLen + 1 * BlockLen
      BY <1>1, <2>1, ProductLaws
    <2> QED
      BY <1>1, <2>1, <2>2, ProductTypes
  <1>5. Place(TRUE, out, i, len) = r
    BY DEF Place
  <1> HIDE DEF f, z, e, b
  <1>6. /\ a \in Seq(Nat) /\ Len(a) = b + len
        /\ \A j \in 1 .. b + len : a[j] = IF j =< b THEN out[j] ELSE f[j - b]
    <2>1. Len(out) = b /\ out \in Seq(Nat)
      BY DEF b
    <2> QED
      BY ONLY <1>2, <2>1, ConcatProperties, ZenonT(40) DEF a
  <1> HIDE DEF a
  <1>7. /\ t \in Seq(Nat) /\ Len(t) = b + len + BlockLen
        /\ \A j \in 1 .. b + len : t[j] = a[j]
    <2>1. /\ a \o z \in Seq(Nat) /\ Len(a \o z) = Len(a) + Len(z)
          /\ \A j \in 1 .. Len(a) + Len(z) : (a \o z)[j] = IF j =< Len(a) THEN a[j] ELSE z[j - Len(a)]
      BY <1>3, <1>6, ConcatProperties
    <2>2. Len(a) \in Nat /\ b + len + BlockLen = Len(a) + Len(z)
      BY <1>1, <1>3, <1>4, <1>6
    <2>3. \A j \in 1 .. b + len : j \in 1 .. Len(a) + Len(z) /\ j =< Len(a)
      BY <1>1, <1>3, <1>4, <1>6
    <2> QED
      BY <2>1, <2>2, <2>3
  <1> HIDE DEF t
  <1>8. \A j \in 1 .. e : t[j] \in Nat
    BY <1>1, <1>4, <1>7
  <1>9. r \in Seq(Nat) /\ Len(r) = e /\ \A j \in 1 .. e : r[j] = t[j]
    <2>1. /\ r \in Seq(Nat) /\ Len(r) = IF 1 =< e THEN e - 1 + 1 ELSE 0
          /\ \A j \in 1 .. e - 1 + 1 : r[j] = t[1 + j - 1]
      BY <1>4, <1>8, SubSeqProperties
    <2> QED
      BY <1>4, <2>1
  <1> HIDE DEF r
  <1>10. \A j \in 1 .. b : r[j] = out[j]
    <2> SUFFICES ASSUME NEW j \in 1 .. b PROVE r[j] = out[j]
      OBVIOUS
    <2>1. j \in 1 .. e /\ j \in 1 .. b + len /\ j =< b
      BY <1>1, <1>4
    <2> QED
      BY <1>6, <1>7, <1>9, <2>1
  <1>11. \A j \in 1 .. BlockLen : j =< len => r[b + j] = i
    <2> SUFFICES ASSUME NEW j \in 1 .. BlockLen, j =< len PROVE r[b + j] = i
      OBVIOUS
    <2>1. b + j \in 1 .. e /\ b + j \in 1 .. b + len /\ ~(b + j =< b) /\ (b + j) - b = j /\ j \in 1 .. len
      BY <1>1, <1>4
    <2>2. r[b + j] = a[b + j]
      BY <1>7, <1>9, <2>1
    <2>3. a[b + j] = f[j]
      BY <1>6, <2>1
    <2> QED
      BY <1>2, <2>1, <2>2, <2>3
  <1> QED
    BY <1>5, <1>9, <1>10, <1>11 DEF e, b

\* Behind the replies before it.
LEMMA PlainPlace ==
    ASSUME NEW out \in Seq(Nat), NEW i \in Nat, NEW len \in Nat
    PROVE  /\ Place(FALSE, out, i, len) \in Seq(Nat) /\ Len(Place(FALSE, out, i, len)) = Len(out) + len
           /\ \A j \in 1 .. Len(out) : Place(FALSE, out, i, len)[j] = out[j]
           /\ \A j \in 1 .. len : Place(FALSE, out, i, len)[Len(out) + j] = i
  <1> DEFINE f == SioFill(len, i)
  <1>1. f \in Seq(Nat) /\ Len(f) = len /\ \A j \in 1 .. len : f[j] = i
    BY FillIs
  <1>2. Place(FALSE, out, i, len) = out \o f
    BY DEF Place
  <1> HIDE DEF f
  <1>3. /\ out \o f \in Seq(Nat) /\ Len(out \o f) = Len(out) + len
        /\ \A j \in 1 .. Len(out) + len : (out \o f)[j] = IF j =< Len(out) THEN out[j] ELSE f[j - Len(out)]
    BY <1>1, ConcatProperties
  <1>4. Len(out) \in Nat
    OBVIOUS
  <1>5. \A j \in 1 .. len : (out \o f)[Len(out) + j] = i
    <2> SUFFICES ASSUME NEW j \in 1 .. len PROVE (out \o f)[Len(out) + j] = i
      OBVIOUS
    <2>1. Len(out) + j \in 1 .. Len(out) + len /\ ~(Len(out) + j =< Len(out)) /\ (Len(out) + j) - Len(out) = j
      BY <1>4
    <2>2. (out \o f)[Len(out) + j] = f[(Len(out) + j) - Len(out)]
      BY <1>3, <2>1
    <2> QED
      BY <1>1, <2>1, <2>2
  <1>6. \A j \in 1 .. Len(out) : (out \o f)[j] = out[j]
    BY <1>3, <1>4
  <1> QED
    BY <1>2, <1>3, <1>5, <1>6
(***************************************************************************)
(* The loop over the sub-transfers, turn by turn.                          *)
(***************************************************************************)
Offsets(p) ==
    LET n[k \in 0 .. Len(p)] == IF k = 0 THEN 0 ELSE n[k - 1] + p[k].len
    IN  n
Sent(b) ==
    LET s[k \in 0 .. Len(send3)] == IF k = 0 THEN SioStart(b) ELSE Sub(s[k - 1], k, send3[k])
    IN  s

LEMMA OffsetTurns ==
    ASSUME NEW p, Len(p) \in Nat
    PROVE  Offsets(p) = [k \in 0 .. Len(p) |-> IF k = 0 THEN 0 ELSE Offsets(p)[k - 1] + p[k].len]
  <1> DEFINE G(n, g) == g = [k \in 0 .. n |-> IF k = 0 THEN 0 ELSE g[k - 1] + p[k].len]
             S == { n \in Nat : \E g : G(n, g) }
  <1>1. 0 \in S
    <2>1. G(0, [k \in 0 .. 0 |-> 0])
      OBVIOUS
    <2> QED
      BY <2>1
  <1>2. ASSUME NEW n \in S PROVE n + 1 \in S
    <2>1. PICK g : G(n, g)
      OBVIOUS
    <2> DEFINE h == [k \in 0 .. n + 1 |-> IF k <= n THEN g[k] ELSE g[n] + p[n + 1].len]
    <2>2. \A k \in 0 .. n + 1 : h[k] = IF k = 0 THEN 0 ELSE h[k - 1] + p[k].len
      BY <2>1
    <2>3. G(n + 1, h)
      BY <2>2
    <2>4. n + 1 \in Nat /\ \E f : G(n + 1, f)
      <3> HIDE DEF h, G
      <3> QED
        BY <2>3
    <2> QED
      BY <2>4
  <1>3. S = Nat
    <2> HIDE DEF S
    <2> QED
      BY <1>1, <1>2, Induction, S \subseteq Nat DEF S
  <1>4. \E g : G(Len(p), g)
    BY <1>3
  <1> QED
    BY <1>4 DEF Offsets

LEMMA SentTurns ==
    ASSUME NEW b, Len(send3) \in Nat
    PROVE  Sent(b) = [k \in 0 .. Len(send3) |-> IF k = 0 THEN SioStart(b) ELSE Sub(Sent(b)[k - 1], k, send3[k])]
  <1> DEFINE G(n, g) == g = [k \in 0 .. n |-> IF k = 0 THEN SioStart(b) ELSE Sub(g[k - 1], k, send3[k])]
             S == { n \in Nat : \E g : G(n, g) }
  <1>1. 0 \in S
    <2>1. G(0, [k \in 0 .. 0 |-> SioStart(b)])
      OBVIOUS
    <2> QED
      BY <2>1
  <1>2. ASSUME NEW n \in S PROVE n + 1 \in S
    <2>1. PICK g : G(n, g)
      OBVIOUS
    <2> DEFINE h == [k \in 0 .. n + 1 |-> IF k <= n THEN g[k] ELSE Sub(g[n], n + 1, send3[n + 1])]
    <2>2. \A k \in 0 .. n + 1 : h[k] = IF k = 0 THEN SioStart(b) ELSE Sub(h[k - 1], k, send3[k])
      BY <2>1
    <2>3. G(n + 1, h)
      BY <2>2
    <2>4. n + 1 \in Nat /\ \E f : G(n + 1, f)
      <3> HIDE DEF h, G
      <3> QED
        BY <2>3
    <2> QED
      BY <2>4
  <1>3. S = Nat
    <2> HIDE DEF S
    <2> QED
      BY <1>1, <1>2, Induction, S \subseteq Nat DEF S
  <1>4. \E g : G(Len(send3), g)
    BY <1>3
  <1> QED
    BY <1>4 DEF Sent

\* Replies begin where the one before ends.
Queued(p) == Len(p) \in Nat /\ \A i \in 1 .. Len(p) : SubTransfer(p[i])
LEMMA RepliesFollow ==
    ASSUME NEW p, Queued(p)
    PROVE  /\ LenBefore(p, 1) = 0
           /\ \A i \in 1 .. Len(p) : /\ LenBefore(p, i) \in Nat
                                     /\ LenBefore(p, i + 1) = LenBefore(p, i) + p[i].len
  <1> DEFINE f == Offsets(p)
             S == { n \in Nat : n =< Len(p) => f[n] \in Nat }
  <1>1. f = [k \in 0 .. Len(p) |-> IF k = 0 THEN 0 ELSE f[k - 1] + p[k].len]
    BY OffsetTurns DEF Queued
  <1>2. \A i : LenBefore(p, i) = f[i - 1]
    BY DEF LenBefore, Offsets
  <1> HIDE DEF f
  <1>3. Len(p) \in Nat /\ \A i \in 1 .. Len(p) : p[i].len \in Nat
    BY DEF Queued, SubTransfer
  <1>4. f[0] = 0 /\ \A k \in 1 .. Len(p) : f[k] = f[k - 1] + p[k].len
    <2> DEFINE n == Len(p)
    <2>1. n \in Nat /\ f = [k \in 0 .. n |-> IF k = 0 THEN 0 ELSE f[k - 1] + p[k].len]
      BY <1>1, <1>3
    <2> HIDE DEF n
    <2>2. \A k \in 0 .. n : f[k] = IF k = 0 THEN 0 ELSE f[k - 1] + p[k].len
      BY ONLY <2>1
    <2>3. f[0] = 0 /\ \A k \in 1 .. n : f[k] = f[k - 1] + p[k].len
      <3>1. 0 \in 0 .. n /\ \A k \in 1 .. n : k \in 0 .. n /\ k # 0
        BY <2>1
      <3> QED
        BY ONLY <2>2, <3>1
    <2> QED
      BY <2>3 DEF n
  <1>5. 0 \in S
    BY <1>4
  <1>6. ASSUME NEW n \in S PROVE n + 1 \in S
    <2> SUFFICES ASSUME n + 1 =< Len(p) PROVE f[n + 1] \in Nat
      OBVIOUS
    <2>1. n + 1 \in 1 .. Len(p) /\ f[n] \in Nat /\ (n + 1) - 1 = n
      BY <1>3
    <2> QED
      BY <1>3, <1>4, <2>1
  <1>7. S = Nat
    <2> HIDE DEF S
    <2> QED
      BY <1>5, <1>6, Induction, S \subseteq Nat DEF S
  <1>8. ASSUME NEW i \in 1 .. Len(p)
        PROVE  LenBefore(p, i) \in Nat /\ LenBefore(p, i + 1) = LenBefore(p, i) + p[i].len
    <2>1. i - 1 \in Nat /\ i - 1 =< Len(p) /\ (i + 1) - 1 = i
      BY <1>3
    <2>2. f[i - 1] \in Nat
      BY <1>7, <2>1
    <2> QED
      BY <1>2, <1>4, <2>1, <2>2
  <1>9. LenBefore(p, 1) = 0
    BY <1>2, <1>4
  <1> QED
    BY <1>8, <1>9

\* After k sub-transfers: their replies are in place, their answers say what
\* they must, and the pad and the card are in order.
InOrder(p, b, out, ans, k) ==
    /\ out \in Seq(Nat) /\ ans \in Seq(Answer) /\ Len(ans) = k
    /\ \A i \in 1 .. k : /\ Polled(p[i], ans[i])
                         /\ \A j \in 1 .. ReplyLen(p, b, i) :
                               /\ ReplyAt(p, b, i) + j \in 1 .. Len(out)
                               /\ out[ReplyAt(p, b, i) + j] = i
Sending(b, s, k) ==
    /\ s = [blocked |-> b, out |-> s.out, answers |-> s.answers, pad |-> s.pad, card |-> s.card,
            paged |-> s.paged]
    /\ InOrder(send3, b, s.out, s.answers, k)
    /\ Len(s.out) = ReplyAt(send3, b, k + 1)
    /\ s.pad \in PadSet /\ SameCard(s.card, s.paged)

\* One more reply and one more answer.
LEMMA OneMore ==
    ASSUME NEW p, Queued(p), NEW b \in BOOLEAN, NEW out, NEW ans, NEW k \in Nat, k < Len(p),
           InOrder(p, b, out, ans, k), Len(out) = ReplyAt(p, b, k + 1),
           NEW a \in Answer, Polled(p[k + 1], a)
    PROVE  /\ InOrder(p, b, Place(b, out, k + 1, p[k + 1].len), Append(ans, a), k + 1)
           /\ Len(Place(b, out, k + 1, p[k + 1].len)) = ReplyAt(p, b, (k + 1) + 1)
  <1> DEFINE i == k + 1
             len == p[i].len
             o == Place(b, out, i, len)
             t == Append(ans, a)
  <1>1. /\ out \in Seq(Nat) /\ ans \in Seq(Answer) /\ Len(ans) = k
        /\ \A h \in 1 .. k : /\ Polled(p[h], ans[h])
                             /\ \A j \in 1 .. ReplyLen(p, b, h) :
                                   /\ ReplyAt(p, b, h) + j \in 1 .. Len(out)
                                   /\ out[ReplyAt(p, b, h) + j] = h
    BY DEF InOrder
  <1>2. i \in 1 .. Len(p) /\ i \in Nat \ {0} /\ i - 1 = k /\ (i + 1) - 1 = i /\ Len(p) \in Nat
    BY DEF Queued
  <1>3. len \in Nat
    BY <1>2 DEF Queued, SubTransfer
  <1>4. /\ o \in Seq(Nat) /\ Len(o) = ReplyAt(p, b, i + 1) /\ Len(o) >= Len(out)
        /\ \A j \in 1 .. Len(out) : o[j] = out[j]
        /\ \A j \in 1 .. ReplyLen(p, b, i) : Len(out) + j \in 1 .. Len(o) /\ o[Len(out) + j] = i
    <2>0. BlockLen \in Nat
      BY SioAssumption
    <2>i. /\ Len(out) = ReplyAt(p, b, i) /\ k + 1 = i /\ len = p[i].len
          /\ LenBefore(p, i + 1) = LenBefore(p, i) + len /\ LenBefore(p, i) \in Nat
      BY <1>2, RepliesFollow
    <2>o. out \in Seq(Nat) /\ i \in Nat \ {0} /\ i \in Nat /\ Len(out) \in Nat
      BY <1>1, <1>2
    <2> HIDE DEF i, len
    <2>1. CASE b
      <3> DEFINE lo == (i - 1) * BlockLen
                 hi == i * BlockLen
      <3>1. ReplyAt(p, b, i) = lo /\ ReplyAt(p, b, i + 1) = hi
        BY <1>2, <2>1 DEF ReplyAt
      <3>2. ReplyLen(p, b, i) = IF len > BlockLen THEN BlockLen ELSE len
        BY <2>1, <2>i DEF ReplyLen
      <3>3. hi = lo + BlockLen /\ lo \in Nat /\ hi \in Nat
        <4>1. k \in Nat /\ (k + 1) * BlockLen = k * BlockLen + 1 * BlockLen /\ k * BlockLen \in Nat
          BY <2>0, ProductLaws, ProductTypes
        <4> QED
          BY <1>2, <2>0, <2>i, <4>1
      <3>4. Len(out) = lo
        BY <2>i, <3>1
      <3>5. /\ Place(TRUE, out, i, len) \in Seq(Nat) /\ Len(Place(TRUE, out, i, len)) = hi
            /\ \A j \in 1 .. Len(out) : Place(TRUE, out, i, len)[j] = out[j]
            /\ \A j \in 1 .. BlockLen : j =< len => Place(TRUE, out, i, len)[lo + j] = i
        BY ONLY <2>o, <1>3, <3>4, BlockedPlace, ZenonT(40) DEF lo, hi
      <3>6. o = Place(TRUE, out, i, len)
        BY <2>1
      <3> HIDE DEF lo, hi, o
      <3>7. \A j \in 1 .. ReplyLen(p, b, i) :
               j \in 1 .. BlockLen /\ j =< len /\ lo + j \in 1 .. hi
        BY <1>3, <2>0, <3>2, <3>3
      <3>8. o \in Seq(Nat) /\ Len(o) = hi /\ \A j \in 1 .. Len(out) : o[j] = out[j]
        BY <3>5, <3>6
      <3>9. Len(o) = ReplyAt(p, b, i + 1) /\ Len(o) >= Len(out)
        BY <2>0, <3>1, <3>3, <3>4, <3>8
      <3>10. ASSUME NEW j \in 1 .. ReplyLen(p, b, i)
             PROVE  Len(out) + j \in 1 .. Len(o) /\ o[Len(out) + j] = i
        <4>1. j \in 1 .. BlockLen /\ j =< len /\ lo + j \in 1 .. hi
          BY <3>7
        <4>2. Place(TRUE, out, i, len)[lo + j] = i
          BY <3>5, <4>1
        <4> QED
          BY <3>4, <3>6, <3>8, <4>1, <4>2
      <3> QED
        BY <3>8, <3>9, <3>10
    <2>2. CASE ~b
      <3>1. ReplyAt(p, b, i) = LenBefore(p, i) /\ ReplyAt(p, b, i + 1) = LenBefore(p, i + 1)
        BY <2>2 DEF ReplyAt
      <3>2. ReplyLen(p, b, i) = len
        BY <2>2, <2>i DEF ReplyLen
      <3>3. LenBefore(p, i + 1) = LenBefore(p, i) + len /\ LenBefore(p, i) \in Nat
        BY <2>i
      <3>4. Len(out) = LenBefore(p, i)
        BY <2>i, <3>1
      <3>5. /\ Place(FALSE, out, i, len) \in Seq(Nat) /\ Len(Place(FALSE, out, i, len)) = Len(out) + len
            /\ \A j \in 1 .. Len(out) : Place(FALSE, out, i, len)[j] = out[j]
            /\ \A j \in 1 .. len : Place(FALSE, out, i, len)[Len(out) + j] = i
        BY ONLY <2>o, <1>3, PlainPlace, ZenonT(40)
      <3>6. o = Place(FALSE, out, i, len)
        BY <2>2
      <3> HIDE DEF o
      <3>7. o \in Seq(Nat) /\ Len(o) = Len(out) + len /\ \A j \in 1 .. Len(out) : o[j] = out[j]
        BY <3>5, <3>6
      <3>8. Len(o) = ReplyAt(p, b, i + 1) /\ Len(o) >= Len(out)
        BY <1>3, <2>o, <3>1, <3>3, <3>4, <3>7
      <3>9. ASSUME NEW j \in 1 .. ReplyLen(p, b, i)
            PROVE  Len(out) + j \in 1 .. Len(o) /\ o[Len(out) + j] = i
        <4>1. j \in 1 .. len
          BY <3>2
        <4>2. Len(out) + j \in 1 .. Len(out) + len
          BY <1>3, <2>o, <4>1
        <4>3. Place(FALSE, out, i, len)[Len(out) + j] = i
          BY <3>5, <4>1
        <4> QED
          BY <3>6, <3>7, <4>2, <4>3
      <3> QED
        BY <3>7, <3>8, <3>9
    <2> QED
      BY <2>1, <2>2
  <1>5. t \in Seq(Answer) /\ Len(t) = i /\ t[i] = a /\ \A j \in 1 .. k : t[j] = ans[j]
    BY <1>1, AppendProperties
  <1>6. Len(out) = ReplyAt(p, b, i) /\ Len(out) \in Nat /\ Len(o) \in Nat
    BY <1>1, <1>4
  <1>7. ASSUME NEW h \in 1 .. i
        PROVE  /\ Polled(p[h], t[h])
               /\ \A j \in 1 .. ReplyLen(p, b, h) :
                     ReplyAt(p, b, h) + j \in 1 .. Len(o) /\ o[ReplyAt(p, b, h) + j] = h
    <2>1. CASE h = i
      <3>1. Polled(p[i], t[i])
        BY <1>5
      <3> HIDE DEF i, o, t
      <3> QED
        BY <1>4, <1>6, <2>1, <3>1
    <2>2. CASE h # i
      <3>1. h \in 1 .. k
        BY <2>2
      <3> HIDE DEF i, o, t
      <3> QED
        BY <1>1, <1>4, <1>5, <1>6, <3>1
    <2> QED
      BY <2>1, <2>2
  <1>8. InOrder(p, b, o, t, i)
    <2> HIDE DEF i, o, t
    <2> QED
      BY <1>4, <1>5, <1>7 DEF InOrder
  <1> QED
    BY <1>4, <1>8

LEMMA SubKeeps ==
    ASSUME Queued(send3), NEW b \in BOOLEAN, NEW s, NEW k \in Nat, k < Len(send3), Sending(b, s, k)
    PROVE  Sending(b, Sub(s, k + 1, send3[k + 1]), k + 1)
  <1> DEFINE i == k + 1
             c == send3[i]
             o == Place(b, s.out, i, c.len)
             r == Sub(s, i, c)
             t == [s EXCEPT !.out = Place(s.blocked, @, i, c.len)]
  <1>1. i \in 1 .. Len(send3) /\ SubTransfer(c)
    BY DEF Queued
  <1>2. /\ s = [blocked |-> b, out |-> s.out, answers |-> s.answers, pad |-> s.pad, card |-> s.card,
                paged |-> s.paged]
        /\ InOrder(send3, b, s.out, s.answers, k) /\ Len(s.out) = ReplyAt(send3, b, k + 1)
        /\ s.pad \in PadSet /\ SameCard(s.card, s.paged)
    BY DEF Sending
  <1>3. t = [blocked |-> b, out |-> o, answers |-> s.answers, pad |-> s.pad, card |-> s.card,
             paged |-> s.paged]
    BY <1>2
  <1>4. ASSUME NEW a \in Answer, Polled(c, a), NEW p \in PadSet, NEW d, NEW g, SameCard(d, g),
               r = [blocked |-> b, out |-> o, answers |-> Append(s.answers, a), pad |-> p,
                    card |-> d, paged |-> g]
        PROVE  Sending(b, r, i)
    <2>1. InOrder(send3, b, o, Append(s.answers, a), i) /\ Len(o) = ReplyAt(send3, b, i + 1)
      BY <1>2, <1>4, OneMore
    <2>2. /\ r.out = o /\ r.answers = Append(s.answers, a) /\ r.pad = p /\ r.card = d /\ r.paged = g
      BY <1>4
    <2> HIDE DEF r, o, i, c
    <2> QED
      BY <1>4, <2>1, <2>2 DEF Sending
  <1>5. CASE c.port = 0 /\ c.dev = "pad"
    <2>1. r = [t EXCEPT !.pad = PadAfter(@, c), !.answers = Append(@, PadAnswer(s.pad, c))]
      BY <1>5 DEF Sub
    <2>2. r = [blocked |-> b, out |-> o, answers |-> Append(s.answers, PadAnswer(s.pad, c)),
               pad |-> PadAfter(s.pad, c), card |-> s.card, paged |-> s.paged]
      <3> HIDE DEF r, o, i, c, t
      <3> QED
        BY <1>3, <2>1
    <2>3. PadAfter(s.pad, c) \in PadSet /\ PadAnswer(s.pad, c) \in Answer /\ Polled(c, PadAnswer(s.pad, c))
      BY <1>1, <1>2, PadKeeps
    <2> QED
      BY <1>2, <1>4, <2>2, <2>3
  <1>6. CASE c.port = 0 /\ c.dev = "card"
    <2>1. r = [t EXCEPT !.card = CardAfter(@, c), !.paged = PagedAfter(@, c),
                        !.answers = Append(@, CardAnswer(s.card, c))]
      BY <1>6 DEF Sub
    <2>2. r = [blocked |-> b, out |-> o, answers |-> Append(s.answers, CardAnswer(s.card, c)),
               pad |-> s.pad, card |-> CardAfter(s.card, c), paged |-> PagedAfter(s.paged, c)]
      <3> HIDE DEF r, o, i, c, t
      <3> QED
        BY <1>3, <2>1
    <2>3. SameCard(CardAfter(s.card, c), PagedAfter(s.paged, c)) /\ CardAnswer(s.card, c) \in Answer
      BY <1>1, <1>2, CardKeeps, CardSays
    <2>4. Polled(c, CardAnswer(s.card, c))
      BY <1>6 DEF Polled
    <2> QED
      BY <1>2, <1>4, <2>2, <2>3, <2>4
  <1>7. CASE ~(c.port = 0 /\ c.dev = "pad") /\ ~(c.port = 0 /\ c.dev = "card")
    <2>1. PICK a \in {"no tap", "floating"} : r = [t EXCEPT !.answers = Append(@, a)]
      BY <1>7 DEF Sub
    <2>2. r = [blocked |-> b, out |-> o, answers |-> Append(s.answers, a),
               pad |-> s.pad, card |-> s.card, paged |-> s.paged]
      <3> HIDE DEF r, o, i, c, t
      <3> QED
        BY <1>3, <2>1
    <2>3. a \in Answer /\ Polled(c, a)
      BY <1>7 DEF Answer, Polled
    <2> QED
      BY <1>2, <1>4, <2>2, <2>3
  <1> QED
    BY <1>5, <1>6, <1>7

LEMMA AllSentKeeps ==
    ASSUME Queued(send3), NEW b \in BOOLEAN, pad \in PadSet, SameCard(card, paged)
    PROVE  Sending(b, AllSent(b), Len(send3))
  <1> DEFINE f == Sent(b)
             L == Len(send3)
             S == { n \in Nat : n =< L => Sending(b, f[n], n) }
  <1>1. L \in Nat
    BY DEF Queued
  <1>2. f = [k \in 0 .. L |-> IF k = 0 THEN SioStart(b) ELSE Sub(f[k - 1], k, send3[k])]
    BY <1>1, SentTurns
  <1>3. AllSent(b) = f[L]
    BY DEF AllSent, Sent
  <1> HIDE DEF f
  <1>4. 0 \in S
    <2>1. f[0] = SioStart(b)
      BY <1>1, <1>2
    <2>2. /\ SioStart(b) = [blocked |-> b, out |-> <<>>, answers |-> <<>>, pad |-> pad, card |-> card,
                            paged |-> paged]
      BY DEF SioStart
    <2>3. ReplyAt(send3, b, 0 + 1) = 0
      <3>1. CASE b
        <4>1. BlockLen \in Nat
          BY SioAssumption
        <4> QED
          BY <3>1, <4>1 DEF ReplyAt
      <3>2. CASE ~b
        <4>1. 0 + 1 = 1 /\ LenBefore(send3, 1) = 0
          BY RepliesFollow
        <4> QED
          BY <3>2, <4>1 DEF ReplyAt
      <3> QED
        BY <3>1, <3>2
    <2>4. InOrder(send3, b, <<>>, <<>>, 0) /\ Len(<<>>) = 0
      BY DEF InOrder
    <2>5. Sending(b, SioStart(b), 0)
      BY <2>2, <2>3, <2>4 DEF Sending
    <2> QED
      BY <2>1, <2>5
  <1>5. ASSUME NEW n \in S PROVE n + 1 \in S
    <2> SUFFICES ASSUME n + 1 =< L PROVE Sending(b, f[n + 1], n + 1)
      OBVIOUS
    <2>1. n \in Nat /\ n < L /\ Sending(b, f[n], n)
      BY <1>1
    <2>2. Sending(b, Sub(f[n], n + 1, send3[n + 1]), n + 1)
      BY <2>1, SubKeeps
    <2>3. n + 1 \in 0 .. L /\ n + 1 # 0 /\ (n + 1) - 1 = n
      BY <1>1
    <2>4. f[n + 1] = Sub(f[n], n + 1, send3[n + 1])
      <3> DEFINE m == n + 1
      <3>1. m \in 0 .. L /\ m # 0 /\ m - 1 = n
        BY <2>3
      <3> HIDE DEF m
      <3>2. f[m] = Sub(f[m - 1], m, send3[m])
        BY <1>2, <3>1
      <3>3. f[m] = Sub(f[n], m, send3[m])
        BY <3>1, <3>2
      <3> QED
        BY <3>3 DEF m
    <2> QED
      BY <2>2, <2>4
  <1>6. S = Nat
    <2> HIDE DEF S
    <2> QED
      BY <1>4, <1>5, Induction, S \subseteq Nat DEF S
  <1>7. Sending(b, f[L], L)
    BY <1>1, <1>6
  <1> QED
    BY <1>3, <1>7

(***************************************************************************)
(* The invariant of the port.                                              *)
(***************************************************************************)
\* A packet waits only while there is room for its reply, and what the
\* out-FIFO holds otherwise is the reply to the packet fed last.
NewestReply == IF fifo_in = 0 THEN reply_of \in {0, fed}
               ELSE fifo_in = fed /\ out_read /\ ~sio_pending
Answered == \/ answers = <<>>
            \/ InOrder(send3, blocked_reply, sio_out, answers, Len(answers))
SioHolds == /\ send3 = <<>> \/ send3 \in SioPacket
            /\ fed \in Nat /\ in_blocked \in BOOLEAN /\ sio_pending \in BOOLEAN
            /\ pad \in PadSet /\ SameCard(card, paged)
            /\ NewestReply /\ Answered

LEMMA PacketsQueue ==
    ASSUME NEW p \in SioPacket
    PROVE  Queued(p)
  <1>1. Len(p) \in Nat
    BY SioAssumption
  <1>2. ASSUME NEW i \in 1 .. Len(p) PROVE SubTransfer(p[i])
    <2>1. p[i].arg \in CardByte
      BY DEF CardByte, Arg
    <2> QED
      BY <2>1, SioAssumption DEF SubTransfer
  <1> QED
    BY <1>1, <1>2 DEF Queued

LEMMA SioStarts == Sio2Init => SioHolds
  <1> SUFFICES ASSUME Sio2Init PROVE SioHolds
    OBVIOUS
  <1>1. pad \in PadSet
    BY DEF Sio2Init, PadSet, PadMode
  <1>2. Erased \in CardByte /\ "new" \in CardByte
    BY DEF CardByte
  <1>3. /\ card = [data |-> [x \in CardAt |-> Erased], term |-> "new", sector |-> 0, progress |-> 0]
        /\ paged = [page |-> 0, at |-> 0, data |-> [p \in Page |-> [c \in Chunk |-> Erased]]]
    BY DEF Sio2Init
  <1>4. [x \in CardAt |-> Erased] \in CardData /\ [p \in Page |-> [c \in Chunk |-> Erased]] \in PagedData
    BY <1>2 DEF CardData, PagedData
  <1>5. MEMCARD_PAGES \in Nat \ {0} /\ 0 \in 0 .. (MEMCARD_PAGES - 1)
    BY SioAssumption
  <1>6. 0 % MEMCARD_PAGES = 0 /\ 0 \in Page
    BY <1>5 DEF Page
  <1>7. \A p \in Page, c \in Chunk : p * MEMCARD_PAGE + c \in CardAt
    <2> SUFFICES ASSUME NEW p \in Page, NEW c \in Chunk PROVE p * MEMCARD_PAGE + c \in CardAt
      OBVIOUS
    <2>1. [sector |-> 0].sector \in Nat
      OBVIOUS
    <2> QED
      BY <2>1, EraseIs
  <1>8. card \in CardSet /\ paged \in PagedSet
    BY <1>2, <1>3, <1>4, <1>6 DEF CardSet, PagedSet
  <1>9. \A p \in Page, c \in Chunk : card.data[p * MEMCARD_PAGE + c] = paged.data[p][c]
    BY <1>3, <1>7
  <1>10. SameCard(card, paged)
    BY <1>3, <1>6, <1>8, <1>9 DEF SameCard
  <1> QED
    BY <1>1, <1>10 DEF Sio2Init, SioHolds, NewestReply, Answered

\* The transfer answers the packet it runs, and a drain that waited for it
\* moves its reply.
LEMMA RunKeeps ==
    ASSUME SioHolds, send3 \in SioPacket, NEW p \in Nat, NEW b \in BOOLEAN, NEW cs,
           RunTransfer(p, b, cs), send3' = send3, fed' = p
    PROVE  SioHolds' /\ (taken' # taken => taken' = fed')
  <1> DEFINE e == AllSent(b)
  <1>1. Queued(send3) /\ pad \in PadSet /\ SameCard(card, paged)
    BY PacketsQueue DEF SioHolds
  <1>2. Sending(b, e, Len(send3))
    BY <1>1, AllSentKeeps
  <1>3. /\ sio_out' = e.out /\ answers' = e.answers /\ pad' = e.pad /\ card' = e.card /\ paged' = e.paged
        /\ blocked_reply' = b /\ reply_of' = p /\ fifo_in' = 0 /\ in_blocked' = FALSE
        /\ sio_pending' = FALSE /\ taken' \in {p, taken}
    BY DEF RunTransfer
  <1> HIDE DEF e
  <1>4. /\ InOrder(send3, b, e.out, e.answers, Len(send3)) /\ e.pad \in PadSet /\ SameCard(e.card, e.paged)
    BY <1>2 DEF Sending
  <1>5. Len(e.answers) = Len(send3)
    BY <1>4 DEF InOrder
  <1>6. Answered'
    <2>1. InOrder(send3', blocked_reply', sio_out', answers', Len(answers'))
      BY <1>3, <1>4, <1>5
    <2> QED
      BY <2>1 DEF Answered
  <1>7. pad' \in PadSet /\ SameCard(card', paged')
    BY <1>3, <1>4
  <1>8. NewestReply'
    BY <1>3 DEF NewestReply
  <1> QED
    BY <1>3, <1>6, <1>7, <1>8 DEF SioHolds

LEMMA SioKeeps ==
    SioHolds /\ [Sio2Next \/ AroundSio]_<<sio2, iop_bus>> =>
        SioHolds' /\ (taken' # taken /\ taken' # 0 => taken' = fed')
  <1> SUFFICES ASSUME SioHolds, [Sio2Next \/ AroundSio]_<<sio2, iop_bus>>
               PROVE  SioHolds' /\ (taken' # taken /\ taken' # 0 => taken' = fed')
    OBVIOUS
  <1>0. /\ send3 = <<>> \/ send3 \in SioPacket
        /\ fed \in Nat /\ in_blocked \in BOOLEAN /\ sio_pending \in BOOLEAN
        /\ pad \in PadSet /\ SameCard(card, paged) /\ NewestReply /\ Answered
    BY DEF SioHolds
  <1>1. CASE Queue
    <2>1. /\ send3' \in SioPacket /\ answers' = <<>>
          /\ UNCHANGED <<fifo_in, in_blocked, reply_of, out_read, sio_pending, pad, card, paged, fed, taken>>
      BY <1>1 DEF Queue, devices
    <2> QED
      BY <1>0, <2>1 DEF SioHolds, NewestReply, Answered
  <1>2. CASE FeedPio
    <2>1. /\ fed' = fed + 1 /\ fifo_in' = fed + 1 /\ out_read /\ ~sio_pending
          /\ UNCHANGED <<send3, in_blocked, sio_out, answers, blocked_reply, out_read, sio_pending,
                         pad, card, paged, taken>>
      BY <1>2 DEF FeedPio, devices
    <2> QED
      BY <1>0, <2>1 DEF SioHolds, NewestReply, Answered
  <1>3. CASE FeedDma
    <2>1. PICK b \in BOOLEAN :
             IF sio_pending
             THEN RunTransfer(fed + 1, b, {"sio2in"}) /\ UNCHANGED send3
             ELSE /\ in_blocked' = b /\ fifo_in' = fed + 1
                  /\ UNCHANGED <<send3, sio_out, answers, blocked_reply, out_read, sio_pending,
                                 devices, taken>>
      BY <1>3 DEF FeedDma
    <2>2. send3 # <<>> /\ out_read /\ fed' = fed + 1
      BY <1>3 DEF FeedDma
    <2>3. CASE sio_pending
      <3>1. RunTransfer(fed + 1, b, {"sio2in"}) /\ send3' = send3
        BY <2>1, <2>3
      <3>2. fed + 1 \in Nat /\ send3 \in SioPacket
        BY <1>0, <2>2
      <3> QED
        BY <2>2, <3>1, <3>2, RunKeeps
    <2>4. CASE ~sio_pending
      <3>1. /\ in_blocked' = b /\ fifo_in' = fed + 1
            /\ UNCHANGED <<send3, sio_out, answers, blocked_reply, out_read, sio_pending,
                           pad, card, paged, taken>>
        BY <2>1, <2>4 DEF devices
      <3> QED
        BY <1>0, <2>2, <2>4, <3>1 DEF SioHolds, NewestReply, Answered
    <2> QED
      BY <2>3, <2>4
  <1>4. CASE StartTransfer
    <2>1. send3 # <<>> /\ ~sio_pending /\ UNCHANGED <<send3, fed>>
      BY <1>4 DEF StartTransfer
    <2>2. CASE fifo_in = 0
      <3>1. /\ sio_pending' = TRUE
            /\ UNCHANGED <<fifo_in, in_blocked, sio_out, reply_of, answers, blocked_reply, out_read,
                           pad, card, paged, taken>>
        BY <1>4, <2>2 DEF StartTransfer, devices
      <3> QED
        BY <1>0, <2>1, <2>2, <3>1 DEF SioHolds, NewestReply, Answered
    <2>3. CASE fifo_in # 0
      <3>1. RunTransfer(fifo_in, in_blocked, {})
        BY <1>4, <2>3 DEF StartTransfer
      <3>2. fifo_in = fed
        BY <1>0, <2>3 DEF NewestReply
      <3> QED
        BY <1>0, <2>1, <3>1, <3>2, RunKeeps
    <2> QED
      BY <2>2, <2>3
  <1>5. CASE ResetFifos
    <2>1. /\ fifo_in' = 0 /\ reply_of' = 0 /\ answers' = <<>> /\ sio_pending' = FALSE
          /\ UNCHANGED <<send3, in_blocked, pad, card, paged, fed, taken>>
      BY <1>5 DEF ResetFifos, devices
    <2> QED
      BY <1>0, <2>1 DEF SioHolds, NewestReply, Answered
  <1>6. CASE ArmOut
    <2>1. UNCHANGED <<send3, fifo_in, in_blocked, sio_out, reply_of, answers, blocked_reply, sio_pending,
                      pad, card, paged, fed>>
      BY <1>6 DEF ArmOut, devices
    <2>2. CASE DrainWaits
      <3>1. UNCHANGED <<out_read, taken>>
        BY <1>6, <2>2 DEF ArmOut
      <3> QED
        BY <1>0, <2>1, <3>1 DEF SioHolds, NewestReply, Answered
    <2>3. CASE ~DrainWaits
      <3>1. out_read' = TRUE /\ taken' = reply_of
        BY <1>6, <2>3 DEF ArmOut
      <3>2. fifo_in = 0 /\ reply_of \in {0, fed}
        BY <1>0, <2>3 DEF DrainWaits, NewestReply
      <3> QED
        BY <1>0, <2>1, <3>1, <3>2 DEF SioHolds, NewestReply, Answered
    <2> QED
      BY <2>2, <2>3
  <1>7. CASE SioReadOut
    <2>1. /\ out_read' = TRUE
          /\ UNCHANGED <<send3, fifo_in, in_blocked, sio_out, reply_of, answers, blocked_reply, sio_pending,
                         pad, card, paged, fed, taken>>
      BY <1>7 DEF SioReadOut, devices
    <2> QED
      BY <1>0, <2>1 DEF SioHolds, NewestReply, Answered
  <1>8. CASE CardPowerOn
    <2>1. /\ card' = [card EXCEPT !.term = "new", !.sector = 0, !.progress = 0]
          /\ paged' = [paged EXCEPT !.page = 0, !.at = 0]
          /\ UNCHANGED <<send3, fifo_in, in_blocked, sio_out, reply_of, answers, blocked_reply, out_read,
                         sio_pending, pad, fed, taken>>
      BY <1>8 DEF CardPowerOn, port
    <2>2. SameCard(card', paged')
      <3>1. card \in CardSet /\ paged \in PagedSet
        BY <1>0 DEF SameCard
      <3>2. MEMCARD_PAGES \in Nat \ {0} /\ 0 \in 0 .. (MEMCARD_PAGES - 1)
        BY SioAssumption
      <3>3. 0 % MEMCARD_PAGES = 0 /\ 0 \in Page
        BY <3>2 DEF Page
      <3>4. card' = [data |-> card.data, term |-> "new", sector |-> 0, progress |-> 0]
        BY <2>1, <3>1 DEF CardSet
      <3>5. paged' = [page |-> 0, at |-> 0, data |-> paged.data]
        BY <2>1, <3>1 DEF PagedSet
      <3>6. "new" \in CardByte
        BY DEF CardByte
      <3>7. card' \in CardSet /\ paged' \in PagedSet
        BY <3>1, <3>3, <3>4, <3>5, <3>6 DEF CardSet, PagedSet
      <3>8. \A p \in Page, c \in Chunk : card'.data[p * MEMCARD_PAGE + c] = paged'.data[p][c]
        BY <1>0, <3>4, <3>5 DEF SameCard
      <3> QED
        BY <3>3, <3>4, <3>5, <3>7, <3>8 DEF SameCard
    <2> QED
      BY <1>0, <2>1, <2>2 DEF SioHolds, NewestReply, Answered
  <1>9. CASE AckIstat \/ AroundSio \/ UNCHANGED <<sio2, iop_bus>>
    <2>1. UNCHANGED <<send3, fifo_in, in_blocked, sio_out, reply_of, answers, blocked_reply, out_read,
                      sio_pending, pad, card, paged, fed, taken>>
      BY <1>9 DEF AckIstat, AroundSio, sio2, port, devices
    <2> QED
      BY <1>0, <2>1 DEF SioHolds, NewestReply, Answered
  <1> QED
    BY <1>1, <1>2, <1>3, <1>4, <1>5, <1>6, <1>7, <1>8, <1>9 DEF Sio2Next

\* What the invariant says to the driver.
LEMMA SioPromises == SioHolds => RepliesInPlace /\ PollMatchesId /\ CardHoldsPages
  <1> SUFFICES ASSUME SioHolds PROVE RepliesInPlace /\ PollMatchesId /\ CardHoldsPages
    OBVIOUS
  <1>1. CardHoldsPages
    BY DEF SioHolds, SameCard, CardHoldsPages
  <1>2. CASE answers = <<>>
    <2>1. 1 .. Len(answers) = {}
      BY <1>2
    <2> QED
      BY <1>1, <2>1 DEF RepliesInPlace, PollMatchesId
  <1>3. CASE InOrder(send3, blocked_reply, sio_out, answers, Len(answers))
    <2>1. /\ sio_out \in Seq(Nat)
          /\ \A i \in 1 .. Len(answers) :
                /\ Polled(send3[i], answers[i])
                /\ \A j \in 1 .. ReplyLen(send3, blocked_reply, i) :
                      /\ ReplyAt(send3, blocked_reply, i) + j \in 1 .. Len(sio_out)
                      /\ sio_out[ReplyAt(send3, blocked_reply, i) + j] = i
      BY <1>3 DEF InOrder
    <2>2. DOMAIN sio_out = 1 .. Len(sio_out)
      BY <2>1
    <2>3. RepliesInPlace
      BY <2>1, <2>2 DEF RepliesInPlace
    <2>4. PollMatchesId
      BY <2>1 DEF PollMatchesId, Polled
    <2> QED
      BY <1>1, <2>3, <2>4
  <1> QED
    BY <1>2, <1>3 DEF SioHolds, Answered

\* For any packets, block length and card, in whatever order software feeds,
\* starts, drains and resets, and with any other device on the bus: each reply
\* is where the driver looks for it, a poll carries what its id announces, the
\* card holds its pages, and channel 12 moves the newest reply.
THEOREM SerialPortKept == Sio2Spec => SerialKept
  <1> DEFINE vars == <<sio2, iop_bus>>
             Step == Sio2Next \/ AroundSio
  <1>1. Sio2Init => SioHolds
    BY SioStarts
  <1>2. SioHolds /\ [Step]_vars => SioHolds'
    BY SioKeeps
  <1>3. SioHolds /\ [Step]_vars => [taken' # taken /\ taken' # 0 => taken' = fed']_vars
    BY SioKeeps
  <1>4. SioHolds => RepliesInPlace /\ PollMatchesId /\ CardHoldsPages
    BY SioPromises
  <1> QED
    BY <1>1, <1>2, <1>3, <1>4, PTL DEF Sio2Spec, SerialKept, DrainsNewestReply

(***************************************************************************)
(* The GIF: where the unpacker stands after j items of a primitive.        *)
(***************************************************************************)
\* n loops left and register r next.
LoopsAt(p, n, r, j) == /\ n \in 0 .. p.nloop /\ r \in 0 .. (p.nreg - 1)
                       /\ j = (p.nloop - n) * p.nreg + r
                       /\ n = 0 => r = 0

LEMMA LoopsFacts ==
    ASSUME NEW p, p.nloop \in Nat, p.nreg \in Nat \ {0}, NEW n, NEW r, NEW j, LoopsAt(p, n, r, j)
    PROVE  /\ j \in 0 .. p.nloop * p.nreg /\ p.nloop * p.nreg \in Nat
           /\ n = 0 <=> j = p.nloop * p.nreg
           /\ j % p.nreg = r
           /\ n # 0 => IF r + 1 >= p.nreg THEN LoopsAt(p, n - 1, 0, j + 1) ELSE LoopsAt(p, n, r + 1, j + 1)
  <1> DEFINE L == p.nloop
             R == p.nreg
             a == L - n
             x == a * R
             y == L * R
  <1>1. /\ L \in Nat /\ R \in Nat \ {0} /\ n \in 0 .. L /\ r \in 0 .. (R - 1) /\ j = x + r
        /\ n = 0 => r = 0
    BY DEF LoopsAt
  <1>2. a \in Nat /\ n \in Nat
    BY <1>1
  <1>3. x \in Nat /\ y \in Nat
    BY <1>1, <1>2, ProductTypes
  <1>4. n = 0 => x = y
    BY <1>1
  <1>5. n # 0 => x + R =< y
    <2> SUFFICES ASSUME n # 0 PROVE x + R =< y
      OBVIOUS
    <2>1. a + 1 \in Nat /\ a + 1 =< L
      BY <1>1, <1>2
    <2>2. (a + 1) * R =< L * R
      BY <1>1, <2>1, ProductMono
    <2>3. (a + 1) * R = a * R + 1 * R
      <3> HIDE DEF a, R
      <3> QED
        BY <1>1, <1>2, ProductLaws
    <2>4. 1 * R = R
      BY <1>1
    <2> HIDE DEF a, R
    <2> QED
      BY <1>1, <1>3, <2>2, <2>3, <2>4 DEF x, y
  <1>6. j % R = r
    BY <1>1, <1>2, DivOf
  <1>7. ASSUME n # 0 PROVE IF r + 1 >= R THEN LoopsAt(p, n - 1, 0, j + 1) ELSE LoopsAt(p, n, r + 1, j + 1)
    <2>1. CASE r + 1 >= R
      <3>1. L - (n - 1) = a + 1 /\ n - 1 \in 0 .. L
        BY <1>1, <1>7
      <3>2. (a + 1) * R = x + R
        <4>1. (a + 1) * R = a * R + 1 * R
          <5> HIDE DEF a, R
          <5> QED
            BY <1>1, <1>2, ProductLaws
        <4>2. 1 * R = R
          BY <1>1
        <4> QED
          BY <4>1, <4>2
      <3>3. j + 1 = (a + 1) * R + 0
        <4> DEFINE z == (a + 1) * R
        <4>1. z = x + R /\ z \in Int
          BY <1>1, <1>3, <3>2
        <4>2. r + 1 = R
          <5> HIDE DEF R
          <5> QED
            BY <1>1, <2>1
        <4> HIDE DEF z, x, R
        <4>3. j + 1 = z + 0
          BY <1>1, <1>3, <4>1, <4>2
        <4> QED
          BY <4>3 DEF z
      <3>4. 0 \in 0 .. (R - 1)
        BY <1>1
      <3>5. j + 1 = (L - (n - 1)) * R + 0
        BY <3>1, <3>3
      <3>6. LoopsAt(p, n - 1, 0, j + 1)
        BY <3>1, <3>4, <3>5 DEF LoopsAt
      <3> QED
        BY <2>1, <3>6
    <2>2. CASE ~(r + 1 >= R)
      <3>1. r + 1 \in 0 .. (R - 1) /\ j + 1 = x + (r + 1)
        BY <1>1, <1>3, <2>2
      <3>2. LoopsAt(p, n, r + 1, j + 1)
        BY <1>1, <1>7, <3>1 DEF LoopsAt
      <3> QED
        BY <2>2, <3>2
    <2> QED
      BY <2>1, <2>2
  <1> HIDE DEF L, R, a, x, y
  <1>8. j \in 0 .. y /\ (n = 0 <=> j = y)
    BY <1>1, <1>2, <1>3, <1>4, <1>5
  <1> QED
    BY <1>3, <1>6, <1>7, <1>8 DEF L, R, y

LEMMA LoopsBegin ==
    ASSUME NEW p, p.nloop \in Nat, p.nreg \in Nat \ {0}
    PROVE  LoopsAt(p, p.nloop, 0, 0)
  <1>1. (p.nloop - p.nloop) * p.nreg = 0
    <2>1. p.nloop - p.nloop = 0
      OBVIOUS
    <2> QED
      BY <2>1
  <1> QED
    BY <1>1 DEF LoopsAt

LEMMA ItemsAre ==
    ASSUME NEW p, Primitive(p)
    PROVE  /\ Items(p) \in Nat
           /\ p.flg = "image" => Items(p) = p.nloop
           /\ p.flg # "image" => Items(p) = p.nloop * p.nreg
  <1>1. p.nloop \in Nat /\ p.nreg \in Nat
    BY DEF Primitive
  <1>2. p.nloop * p.nreg \in Nat
    BY <1>1, ProductTypes
  <1> QED
    BY <1>1, <1>2 DEF Items

LEMMA DescIs ==
    ASSUME NEW p, Primitive(p), NEW j \in Nat
    PROVE  /\ Desc(p, j).name \in STRING
           /\ p.flg = "packed" => Descriptor(Desc(p, j))
  <1>1. p.nreg \in Nat \ {0} /\ j % p.nreg \in 0 .. (p.nreg - 1)
    BY DEF Primitive
  <1> DEFINE h == (j % p.nreg) + 1
  <1>2. h \in 1 .. p.nreg
    BY <1>1
  <1>3. Desc(p, j) = p.regs[h]
    BY DEF Desc
  <1> HIDE DEF h
  <1>4. p.regs[h].name \in STRING /\ (p.flg = "packed" => Descriptor(p.regs[h]))
    <2>1. \A i \in 1 .. p.nreg : p.regs[i].name \in STRING
      BY DEF Primitive
    <2>2. \A i \in 1 .. p.nreg : p.flg = "packed" => Descriptor(p.regs[i])
      BY Zenon DEF Primitive
    <2> QED
      BY <1>2, <2>1, <2>2
  <1> QED
    BY <1>3, <1>4

(***************************************************************************)
(* What a primitive means, turn by turn.                                   *)
(***************************************************************************)
\* (A literal is no member of STRING for the provers.)
Names == STRING \cup {"xyz3", "rgbaq", "prim", "hwreg"}
Write == [reg : Names, q : Nat]
LEMMA WriteIs == \A n \in Names, q \in Nat : [reg |-> n, q |-> q] \in Write
  BY DEF Write
HeldRun(p, q) ==
    LET h[j \in 0 .. Items(p)] ==
            IF j = 0 THEN q
            ELSE LET d == Desc(p, j - 1)
                 IN IF p.flg = "packed" /\ d.name = "st" THEN d.q ELSE h[j - 1]
    IN  h
MeansRun(p, q, out) ==
    LET w[j \in 0 .. Items(p)] ==
            IF j = 0 THEN out \o (IF p.pre THEN << [reg |-> "prim", q |-> 0] >> ELSE << >>)
            ELSE w[j - 1] \o Writes(p, q, j)
    IN  w
After(p, q, j) == LET d == Desc(p, j) IN IF p.flg = "packed" /\ d.name = "st" THEN d.q ELSE q

LEMMA HeldTurns ==
    ASSUME NEW p, NEW q, Items(p) \in Nat
    PROVE  HeldRun(p, q) = [j \in 0 .. Items(p) |-> IF j = 0 THEN q ELSE After(p, HeldRun(p, q)[j - 1], j - 1)]
  <1> DEFINE G(n, g) == g = [j \in 0 .. n |->
                                IF j = 0 THEN q
                                ELSE LET d == Desc(p, j - 1)
                                     IN IF p.flg = "packed" /\ d.name = "st" THEN d.q ELSE g[j - 1]]
             S == { n \in Nat : \E g : G(n, g) }
  <1>1. 0 \in S
    <2>1. G(0, [j \in 0 .. 0 |-> q])
      OBVIOUS
    <2> QED
      BY <2>1
  <1>2. ASSUME NEW n \in S PROVE n + 1 \in S
    <2>1. PICK g : G(n, g)
      OBVIOUS
    <2> DEFINE h == [j \in 0 .. n + 1 |-> IF j <= n THEN g[j] ELSE After(p, g[n], n)]
    <2>2. \A j \in 0 .. n + 1 : h[j] = IF j = 0 THEN q ELSE After(p, h[j - 1], j - 1)
      BY <2>1 DEF After
    <2>3. G(n + 1, h)
      <3> HIDE DEF h
      <3>1. h = [j \in 0 .. n + 1 |-> h[j]]
        BY DEF h
      <3> QED
        BY <2>2, <3>1 DEF After
    <2>4. n + 1 \in Nat /\ \E f : G(n + 1, f)
      <3> HIDE DEF h, G
      <3> QED
        BY <2>3
    <2> QED
      BY <2>4
  <1>3. S = Nat
    <2> HIDE DEF S
    <2> QED
      BY <1>1, <1>2, Induction, S \subseteq Nat DEF S
  <1>4. \E g : G(Items(p), g)
    BY <1>3
  <1>5. G(Items(p), HeldRun(p, q))
    BY <1>4 DEF HeldRun
  <1> QED
    BY <1>5 DEF After

LEMMA HeldIs ==
    ASSUME NEW p, Primitive(p), NEW q \in Nat
    PROVE  /\ QHeld(p, q, 0) = q
           /\ \A j \in 0 .. Items(p) : QHeld(p, q, j) \in Nat
           /\ \A j \in 0 .. Items(p) - 1 : QHeld(p, q, j + 1) = After(p, QHeld(p, q, j), j)
           /\ p.flg # "packed" => \A j \in 0 .. Items(p) : QHeld(p, q, j) = q
  <1> DEFINE N == Items(p)
             h == HeldRun(p, q)
             S == { j \in Nat : j =< N => h[j] \in Nat /\ (p.flg # "packed" => h[j] = q) }
  <1>1. N \in Nat
    BY ItemsAre
  <1>2. h = [j \in 0 .. N |-> IF j = 0 THEN q ELSE After(p, h[j - 1], j - 1)]
    BY <1>1, HeldTurns
  <1>3. \A j : QHeld(p, q, j) = h[j]
    BY DEF QHeld, HeldRun
  <1> HIDE DEF h, N
  <1>4. h[0] = q
    BY <1>1, <1>2
  <1>5. ASSUME NEW j \in 0 .. N - 1 PROVE h[j + 1] = After(p, h[j], j)
    <2> DEFINE m == j + 1
    <2>1. m \in 0 .. N /\ m # 0 /\ m - 1 = j
      BY <1>1
    <2> HIDE DEF m
    <2>2. h[m] = After(p, h[m - 1], m - 1)
      BY <1>2, <2>1
    <2>3. h[m] = After(p, h[j], j)
      BY <2>1, <2>2
    <2> QED
      BY <2>3 DEF m
  <1>6. ASSUME NEW j \in S PROVE j + 1 \in S
    <2> SUFFICES ASSUME j + 1 =< N PROVE h[j + 1] \in Nat /\ (p.flg # "packed" => h[j + 1] = q)
      OBVIOUS
    <2>1. j \in Nat /\ j \in 0 .. N - 1 /\ h[j] \in Nat /\ (p.flg # "packed" => h[j] = q)
      BY <1>1
    <2>2. h[j + 1] = After(p, h[j], j)
      BY <1>5, <2>1
    <2>3. p.flg = "packed" /\ Desc(p, j).name = "st" => Desc(p, j).q \in Nat
      BY <2>1, DescIs DEF Descriptor
    <2> QED
      BY <2>1, <2>2, <2>3 DEF After
  <1>7. S = Nat
    <2>1. 0 \in S
      BY <1>4
    <2> HIDE DEF S
    <2> QED
      BY <1>6, <2>1, Induction, S \subseteq Nat DEF S
  <1>8. \A j \in 0 .. N : h[j] \in Nat /\ (p.flg # "packed" => h[j] = q)
    BY <1>1, <1>7
  <1> QED
    BY <1>3, <1>4, <1>5, <1>8 DEF N

LEMMA PackedIs ==
    ASSUME NEW d, d.name \in STRING, Descriptor(d), NEW q \in Nat
    PROVE  Packed(d, q) \in Seq(Write)
  <1>1. /\ [reg |-> "xyz3", q |-> 0] \in Write /\ [reg |-> "rgbaq", q |-> q] \in Write
        /\ [reg |-> d.name, q |-> 0] \in Write
        /\ d.name = "ad" => [reg |-> d.addr, q |-> 0] \in Write
    <2>1. "xyz3" \in Names /\ "rgbaq" \in Names /\ d.name \in Names /\ (d.name = "ad" => d.addr \in Names)
      BY DEF Names, Descriptor
    <2> QED
      BY <2>1, WriteIs
  <1>2. CASE d.name \in {"nop", "reserved"}
    <2>1. Packed(d, q) = << >>
      BY <1>2 DEF Packed
    <2> QED
      BY <2>1
  <1>3. CASE d.name = "xyz" /\ d.adc
    <2>1. Packed(d, q) = << [reg |-> "xyz3", q |-> 0] >>
      BY <1>3 DEF Packed
    <2> QED
      BY <1>1, <2>1
  <1>4. CASE d.name = "ad"
    <2>1. Packed(d, q) = << [reg |-> d.addr, q |-> 0] >>
      BY <1>4 DEF Packed
    <2> QED
      BY <1>1, <1>4, <2>1
  <1>5. CASE d.name = "rgbaq"
    <2>1. Packed(d, q) = << [reg |-> "rgbaq", q |-> q] >>
      BY <1>5 DEF Packed
    <2> QED
      BY <1>1, <2>1
  <1>6. CASE d.name \notin {"nop", "reserved", "ad", "rgbaq"} /\ ~(d.name = "xyz" /\ d.adc)
    <2>1. Packed(d, q) = << [reg |-> d.name, q |-> 0] >>
      BY <1>6 DEF Packed
    <2> QED
      BY <1>1, <2>1
  <1> QED
    BY <1>2, <1>3, <1>4, <1>5, <1>6

Prim == [reg |-> "prim", q |-> 0]
Hwreg == [reg |-> "hwreg", q |-> 0]
OfTag(p) == IF p.pre THEN << Prim >> ELSE << >>
OfHalf(d) == IF d.name = "ad" THEN << >> ELSE << [reg |-> d.name, q |-> 0] >>

LEMMA WritesAre ==
    ASSUME NEW p, Primitive(p), NEW q \in Nat, NEW j \in 0 .. Items(p) - 1
    PROVE  /\ Writes(p, q, j + 1) \in Seq(Write)
           /\ p.flg = "packed" => Writes(p, q, j + 1) = Packed(Desc(p, j), QHeld(p, q, j))
           /\ p.flg = "reglist" => Writes(p, q, j + 1) = OfHalf(Desc(p, j))
           /\ p.flg = "image" => Writes(p, q, j + 1) = << Hwreg, Hwreg >>
  <1>1. Items(p) \in Nat /\ j \in Nat /\ (j + 1) - 1 = j /\ j \in 0 .. Items(p)
    BY ItemsAre
  <1>2. Desc(p, j).name \in STRING /\ (p.flg = "packed" => Descriptor(Desc(p, j)))
    BY <1>1, DescIs
  <1>3. QHeld(p, q, j) \in Nat
    BY <1>1, HeldIs
  <1>4. /\ p.flg = "packed" => Writes(p, q, j + 1) = Packed(Desc(p, j), QHeld(p, q, j))
        /\ p.flg = "reglist" => Writes(p, q, j + 1) = OfHalf(Desc(p, j))
        /\ p.flg = "image" => Writes(p, q, j + 1) = << Hwreg, Hwreg >>
    BY <1>1 DEF Writes, OfHalf, Hwreg
  <1>5. p.flg \in {"packed", "reglist", "image"}
    BY DEF Primitive
  <1>6. p.flg = "packed" => Packed(Desc(p, j), QHeld(p, q, j)) \in Seq(Write)
    BY <1>2, <1>3, PackedIs
  <1>7. OfHalf(Desc(p, j)) \in Seq(Write)
    <2>1. [reg |-> Desc(p, j).name, q |-> 0] \in Write
      BY <1>2, WriteIs DEF Names
    <2> QED
      BY <2>1 DEF OfHalf
  <1>8. << Hwreg, Hwreg >> \in Seq(Write)
    <2>1. Hwreg \in Write
      BY WriteIs DEF Hwreg, Names
    <2> HIDE DEF Hwreg
    <2> QED
      BY <2>1
  <1> QED
    BY <1>4, <1>5, <1>6, <1>7, <1>8

LEMMA MeansTurns ==
    ASSUME NEW p, NEW q, NEW out, Items(p) \in Nat
    PROVE  /\ MeansRun(p, q, out)[0] = out \o OfTag(p)
           /\ \A j \in 0 .. Items(p) - 1 :
                 MeansRun(p, q, out)[j + 1] = MeansRun(p, q, out)[j] \o Writes(p, q, j + 1)
  <1> DEFINE first == out \o (IF p.pre THEN << [reg |-> "prim", q |-> 0] >> ELSE << >>)
             G(n, g) == g = [j \in 0 .. n |-> IF j = 0 THEN first ELSE g[j - 1] \o Writes(p, q, j)]
             S == { n \in Nat : \E g : G(n, g) }
  <1>0. first = out \o OfTag(p)
    BY DEF OfTag, Prim
  <1>a. \A f : MeansRun(p, q, out) = f <=>
                 f = CHOOSE g : g = [j \in 0 .. Items(p) |-> IF j = 0 THEN first ELSE g[j - 1] \o Writes(p, q, j)]
    BY DEF MeansRun
  <1> HIDE DEF first
  <1>1. 0 \in S
    <2>1. G(0, [j \in 0 .. 0 |-> first])
      OBVIOUS
    <2> QED
      BY <2>1
  <1>2. ASSUME NEW n \in S PROVE n + 1 \in S
    <2>1. PICK g : G(n, g)
      OBVIOUS
    <2> DEFINE h == [j \in 0 .. n + 1 |-> IF j <= n THEN g[j] ELSE g[n] \o Writes(p, q, n + 1)]
    <2>2. \A j \in 0 .. n + 1 : h[j] = IF j = 0 THEN first ELSE h[j - 1] \o Writes(p, q, j)
      <3>1. ASSUME NEW j \in 0 .. n PROVE h[j] = IF j = 0 THEN first ELSE h[j - 1] \o Writes(p, q, j)
        <4> DEFINE w == Writes(p, q, j)
        <4>1. g[j] = IF j = 0 THEN first ELSE g[j - 1] \o w
          BY <2>1
        <4>2. h[j] = g[j] /\ (j # 0 => h[j - 1] = g[j - 1])
          OBVIOUS
        <4> HIDE DEF w, h
        <4>3. h[j] = IF j = 0 THEN first ELSE h[j - 1] \o w
          BY <4>1, <4>2
        <4> QED
          BY <4>3 DEF w
      <3>2. h[n + 1] = g[n] \o Writes(p, q, n + 1) /\ h[n] = g[n] /\ n + 1 # 0 /\ (n + 1) - 1 = n
        <4>1. n \in Nat /\ n + 1 \in 0 .. n + 1 /\ n \in 0 .. n + 1 /\ ~(n + 1 <= n)
          OBVIOUS
        <4>2. \A j \in 0 .. n + 1 : h[j] = IF j <= n THEN g[j] ELSE g[n] \o Writes(p, q, n + 1)
          <5> HIDE DEF G, S
          <5> QED
            OBVIOUS
        <4> HIDE DEF h, G, S
        <4>3. n <= n /\ n + 1 # 0 /\ (n + 1) - 1 = n
          BY <4>1
        <4> QED
          BY <4>1, <4>2, <4>3
      <3> HIDE DEF h
      <3>3. h[n + 1] = h[(n + 1) - 1] \o Writes(p, q, n + 1)
        BY <3>2
      <3>4. ASSUME NEW j \in 0 .. n + 1 PROVE h[j] = IF j = 0 THEN first ELSE h[j - 1] \o Writes(p, q, j)
        <4>1. j \in 0 .. n \/ j = n + 1
          OBVIOUS
        <4> QED
          BY <3>1, <3>2, <3>3, <4>1
      <3> QED
        BY <3>4
    <2>3. G(n + 1, h)
      <3> HIDE DEF h
      <3>1. h = [j \in 0 .. n + 1 |-> h[j]]
        BY DEF h
      <3> QED
        BY <2>2, <3>1
    <2>4. n + 1 \in Nat /\ \E f : G(n + 1, f)
      <3> HIDE DEF h, G
      <3> QED
        BY <2>3
    <2> QED
      BY <2>4
  <1>3. S = Nat
    <2> HIDE DEF S
    <2> QED
      BY <1>1, <1>2, Induction, S \subseteq Nat DEF S
  <1>4. \E g : G(Items(p), g)
    BY <1>3
  <1>5. G(Items(p), MeansRun(p, q, out))
    BY <1>4, <1>a
  <1> DEFINE m == MeansRun(p, q, out)
             N == Items(p)
  <1>6. m = [j \in 0 .. N |-> IF j = 0 THEN first ELSE m[j - 1] \o Writes(p, q, j)]
    BY <1>5
  <1> HIDE DEF m, N
  <1>7. N \in Nat
    BY DEF N
  <1>8. m[0] = first
    BY <1>6, <1>7
  <1>9. ASSUME NEW j \in 0 .. N - 1 PROVE m[j + 1] = m[j] \o Writes(p, q, j + 1)
    <2> DEFINE k == j + 1
    <2>1. k \in 0 .. N /\ k # 0 /\ k - 1 = j
      BY <1>7
    <2> HIDE DEF k
    <2>2. m[k] = m[k - 1] \o Writes(p, q, k)
      BY <1>6, <2>1
    <2>3. m[k] = m[j] \o Writes(p, q, k)
      BY <2>1, <2>2
    <2> QED
      BY <2>3 DEF k
  <1> QED
    BY <1>0, <1>8, <1>9 DEF m, N

LEMMA MeansAre ==
    ASSUME NEW p, Primitive(p), NEW q \in Nat, NEW out \in Seq(Write)
    PROVE  /\ MeansRun(p, q, out)[0] = out \o OfTag(p) /\ OfTag(p) \in Seq(Write)
           /\ \A j \in 0 .. Items(p) : MeansRun(p, q, out)[j] \in Seq(Write)
           /\ \A j \in 0 .. Items(p) - 1 :
                 MeansRun(p, q, out)[j + 1] = MeansRun(p, q, out)[j] \o Writes(p, q, j + 1)
           /\ Means(p, q, out) = MeansRun(p, q, out)[Items(p)]
  <1> DEFINE N == Items(p)
             w == MeansRun(p, q, out)
             S == { j \in Nat : j =< N => w[j] \in Seq(Write) }
  <1>1. N \in Nat
    BY ItemsAre
  <1>2. w[0] = out \o OfTag(p) /\ \A j \in 0 .. N - 1 : w[j + 1] = w[j] \o Writes(p, q, j + 1)
    BY <1>1, MeansTurns
  <1>3. Means(p, q, out) = w[N]
    BY DEF Means, MeansRun
  <1>t. OfTag(p) \in Seq(Write)
    <2>1. Prim \in Write
      BY WriteIs DEF Prim, Names
    <2> HIDE DEF Prim
    <2> QED
      BY <2>1 DEF OfTag
  <1> HIDE DEF w, N
  <1>4. w[0] = out \o OfTag(p)
    BY <1>2
  <1>5. ASSUME NEW j \in 0 .. N - 1 PROVE w[j + 1] = w[j] \o Writes(p, q, j + 1)
    BY <1>2
  <1>6. ASSUME NEW j \in S PROVE j + 1 \in S
    <2> SUFFICES ASSUME j + 1 =< N PROVE w[j + 1] \in Seq(Write)
      OBVIOUS
    <2>1. j \in Nat /\ j \in 0 .. N - 1 /\ w[j] \in Seq(Write)
      BY <1>1
    <2>2. w[j + 1] = w[j] \o Writes(p, q, j + 1)
      BY <1>5, <2>1
    <2>3. Writes(p, q, j + 1) \in Seq(Write)
      BY <2>1, WritesAre DEF N
    <2> QED
      BY <2>1, <2>2, <2>3, ConcatProperties
  <1>7. S = Nat
    <2>1. 0 \in S
      BY <1>4, <1>t, ConcatProperties
    <2> HIDE DEF S
    <2> QED
      BY <1>6, <2>1, Induction, S \subseteq Nat DEF S
  <1>8. \A j \in 0 .. N : w[j] \in Seq(Write)
    BY <1>1, <1>7
  <1> QED
    <2>1. w[0] = out \o OfTag(p) /\ OfTag(p) \in Seq(Write) /\ Means(p, q, out) = w[N]
      BY <1>3, <1>4, <1>t
    <2> QED
      BY <1>5, <1>8, <2>1 DEF w, N

(***************************************************************************)
(* The unpacker inside a primitive.                                        *)
(***************************************************************************)
Whole(g) == g = [nloop |-> g.nloop, nreg |-> g.nreg, reg_index |-> g.reg_index, regs |-> g.regs,
                 flg |-> g.flg, eop |-> g.eop, packed_q |-> g.packed_q]
\* n loops left of p, register r next, q the Q held, e what the tag's EOP was.
Stands(p, e, n, r, q) == [nloop |-> n, nreg |-> p.nreg, reg_index |-> r, regs |-> p.regs,
                          flg |-> p.flg, eop |-> e, packed_q |-> q]
\* j items done.
DoneAt(p, n, r, j) == IF p.flg = "image" THEN n \in 0 .. p.nloop /\ r = 0 /\ j = p.nloop - n
                      ELSE LoopsAt(p, n, r, j)
Inside(p, e, q, j, g) == \E n, r : DoneAt(p, n, r, j) /\ g = Stands(p, e, n, r, QHeld(p, q, j))

LEMMA StandsIs ==
    ASSUME NEW p, NEW e, NEW n, NEW r, NEW q
    PROVE  LET g == Stands(p, e, n, r, q)
           IN  Whole(g) /\ g.nloop = n /\ g.reg_index = r /\ g.packed_q = q /\ g.eop = e
               /\ g.flg = p.flg /\ g.nreg = p.nreg /\ g.regs = p.regs
  BY DEF Stands, Whole

LEMMA InsideIs ==
    ASSUME NEW p, Primitive(p), NEW e, NEW q \in Nat, NEW j, NEW g, Inside(p, e, q, j, g)
    PROVE  /\ Whole(g) /\ g.eop = e /\ g.packed_q \in Nat /\ g.packed_q = QHeld(p, q, j)
           /\ g.nloop \in Nat /\ j \in 0 .. Items(p)
           /\ g.nloop = 0 <=> j = Items(p)
  <1>1. PICK n, r : DoneAt(p, n, r, j) /\ g = Stands(p, e, n, r, QHeld(p, q, j))
    BY DEF Inside
  <1>2. Whole(g) /\ g.nloop = n /\ g.packed_q = QHeld(p, q, j) /\ g.eop = e
    BY <1>1, StandsIs
  <1>3. p.nloop \in Nat /\ p.nreg \in Nat \ {0}
    BY DEF Primitive
  <1>4. n \in Nat /\ j \in 0 .. Items(p) /\ (n = 0 <=> j = Items(p))
    <2>1. CASE p.flg = "image"
      <3>1. Items(p) = p.nloop
        BY <2>1, ItemsAre
      <3>2. n \in 0 .. p.nloop /\ j = p.nloop - n
        BY <1>1, <2>1 DEF DoneAt
      <3> QED
        BY <1>3, <3>1, <3>2
    <2>2. CASE p.flg # "image"
      <3>1. Items(p) = p.nloop * p.nreg
        BY <2>2, ItemsAre
      <3>2. LoopsAt(p, n, r, j)
        BY <1>1, <2>2 DEF DoneAt
      <3>3. n \in Nat
        BY <1>3, <3>2 DEF LoopsAt
      <3>4. j \in 0 .. p.nloop * p.nreg /\ (n = 0 <=> j = p.nloop * p.nreg)
        BY <1>3, <3>2, LoopsFacts
      <3> QED
        BY <3>1, <3>3, <3>4
    <2> QED
      BY <2>1, <2>2
  <1>5. QHeld(p, q, j) \in Nat
    BY <1>4, HeldIs
  <1> QED
    BY <1>2, <1>4, <1>5

\* A tag.
LEMMA TagStep ==
    ASSUME NEW g, Whole(g), g.nloop = 0, g.packed_q \in Nat,
           NEW w, w.tag, NEW p, w.p = p, Primitive(p), NEW e \in BOOLEAN, w.eop = e
    PROVE  /\ Process(g, w).out = OfTag(p)
           /\ Inside(p, e, g.packed_q, 0, Process(g, w).g)
  <1>1. TagOf(w) = p
    BY DEF TagOf
  <1>2. (w.eop \/ ~w.tag) = e
    BY Zenon
  <1> DEFINE h == [g EXCEPT !.nloop = p.nloop, !.eop = w.eop \/ ~w.tag, !.flg = p.flg, !.nreg = p.nreg,
                            !.regs = p.regs, !.reg_index = 0]
             f == w.eop \/ ~w.tag
  <1>3. Process(g, w) = [g |-> h, out |-> IF p.pre THEN << [reg |-> "prim", q |-> 0] >> ELSE << >>]
    BY <1>1 DEF Process
  <1>4. h = Stands(p, f, p.nloop, 0, g.packed_q)
    <2> HIDE DEF f
    <2>1. h = [g EXCEPT !.nloop = p.nloop, !.eop = f, !.flg = p.flg, !.nreg = p.nreg,
                        !.regs = p.regs, !.reg_index = 0]
      BY DEF f
    <2> HIDE DEF h
    <2> QED
      BY <2>1 DEF Whole, Stands
  <1>5. h = Stands(p, e, p.nloop, 0, g.packed_q)
    BY <1>2, <1>4
  <1>6. DoneAt(p, p.nloop, 0, 0)
    <2>1. p.nloop \in Nat /\ p.nreg \in Nat \ {0}
      BY DEF Primitive
    <2> QED
      BY <2>1, LoopsBegin DEF DoneAt
  <1>7. QHeld(p, g.packed_q, 0) = g.packed_q
    BY HeldIs
  <1> HIDE DEF h
  <1>8. Inside(p, e, g.packed_q, 0, h)
    BY <1>5, <1>6, <1>7 DEF Inside
  <1> QED
    BY <1>3, <1>8 DEF OfTag, Prim

LEMMA AdvanceStands ==
    ASSUME NEW p, NEW e, NEW n, NEW r, NEW q
    PROVE  AdvanceReg(Stands(p, e, n, r, q)) =
              IF r + 1 >= p.nreg THEN Stands(p, e, n - 1, 0, q) ELSE Stands(p, e, n, r + 1, q)
  <1> DEFINE g == Stands(p, e, n, r, q)
  <1>1. g.reg_index = r /\ g.nreg = p.nreg /\ g.nloop = n
    BY StandsIs
  <1>2. AdvanceReg(g) = IF r + 1 >= p.nreg THEN [g EXCEPT !.reg_index = 0, !.nloop = n - 1]
                        ELSE [g EXCEPT !.reg_index = r + 1]
    <2> HIDE DEF g
    <2> QED
      BY <1>1 DEF AdvanceReg
  <1>3. [g EXCEPT !.reg_index = r + 1] = Stands(p, e, n, r + 1, q)
    BY DEF Stands
  <1>4. [g EXCEPT !.reg_index = 0, !.nloop = n - 1] = Stands(p, e, n - 1, 0, q)
    <2> DEFINE h == [g EXCEPT !.reg_index = 0]
               m == n - 1
    <2>1. h = Stands(p, e, n, 0, q)
      BY DEF Stands
    <2>2. [g EXCEPT !.reg_index = 0, !.nloop = n - 1] = [h EXCEPT !.nloop = n - 1]
      OBVIOUS
    <2> HIDE DEF g, h, m
    <2>3. [h EXCEPT !.nloop = m] = Stands(p, e, m, 0, q)
      BY <2>1 DEF Stands
    <2> QED
      BY <2>2, <2>3 DEF m
  <1> HIDE DEF g
  <1>5. CASE r + 1 >= p.nreg
    BY <1>2, <1>4, <1>5 DEF g
  <1>6. CASE ~(r + 1 >= p.nreg)
    BY <1>2, <1>3, <1>6 DEF g
  <1> QED
    BY <1>5, <1>6

\* A register of PACKED or REGLIST.
LEMMA AdvanceDone ==
    ASSUME NEW p, Primitive(p), p.flg # "image", NEW e, NEW n, NEW r, NEW j, LoopsAt(p, n, r, j), n # 0, NEW q,
           NEW q2, QHeld(p, q, j + 1) = q2
    PROVE  Inside(p, e, q, j + 1, AdvanceReg(Stands(p, e, n, r, q2)))
  <1>1. p.nloop \in Nat /\ p.nreg \in Nat \ {0}
    BY DEF Primitive
  <1>2. IF r + 1 >= p.nreg THEN LoopsAt(p, n - 1, 0, j + 1) ELSE LoopsAt(p, n, r + 1, j + 1)
    BY <1>1, LoopsFacts
  <1>3. CASE r + 1 >= p.nreg
    <2>1. AdvanceReg(Stands(p, e, n, r, q2)) = Stands(p, e, n - 1, 0, q2)
      BY <1>3, AdvanceStands
    <2>2. DoneAt(p, n - 1, 0, j + 1)
      BY <1>2, <1>3 DEF DoneAt
    <2> QED
      BY <2>1, <2>2 DEF Inside
  <1>4. CASE ~(r + 1 >= p.nreg)
    <2>1. AdvanceReg(Stands(p, e, n, r, q2)) = Stands(p, e, n, r + 1, q2)
      BY <1>4, AdvanceStands
    <2>2. DoneAt(p, n, r + 1, j + 1)
      BY <1>2, <1>4 DEF DoneAt
    <2> QED
      BY <2>1, <2>2 DEF Inside
  <1> QED
    BY <1>3, <1>4

\* The descriptor the unpacker reads is the item's.
LEMMA DescRead ==
    ASSUME NEW p, Primitive(p), NEW n, NEW r, NEW j, LoopsAt(p, n, r, j)
    PROVE  p.regs[r + 1] = Desc(p, j)
  <1>1. p.nloop \in Nat /\ p.nreg \in Nat \ {0}
    BY DEF Primitive
  <1>2. j % p.nreg = r
    BY <1>1, LoopsFacts
  <1> QED
    BY <1>2 DEF Desc

LEMMA PackedStep ==
    ASSUME NEW p, Primitive(p), p.flg = "packed", NEW e, NEW q \in Nat, NEW j \in 0 .. Items(p) - 1, NEW g,
           Inside(p, e, q, j, g), NEW w
    PROVE  /\ Process(g, w).out = Writes(p, q, j + 1)
           /\ Inside(p, e, q, j + 1, Process(g, w).g)
  <1>1. PICK n, r : DoneAt(p, n, r, j) /\ g = Stands(p, e, n, r, QHeld(p, q, j))
    BY DEF Inside
  <1>2. LoopsAt(p, n, r, j)
    BY <1>1 DEF DoneAt
  <1> DEFINE c == QHeld(p, q, j)
             d == Desc(p, j)
  <1>3. Items(p) \in Nat /\ c \in Nat /\ j \in Nat
    BY ItemsAre, HeldIs
  <1>4. g.nloop = n /\ g.flg = "packed" /\ g.regs[g.reg_index + 1] = d /\ g.packed_q = c
    BY <1>1, <1>2, StandsIs, DescRead
  <1>5. n \in Nat /\ n # 0
    <2>1. g.nloop \in Nat /\ (g.nloop = 0 <=> j = Items(p))
      BY InsideIs
    <2> QED
      BY <1>3, <1>4, <2>1
  <1>6. QHeld(p, q, j + 1) = Latch(d, c)
    <2>1. QHeld(p, q, j + 1) = After(p, c, j)
      BY HeldIs
    <2> QED
      BY <2>1 DEF After, Latch
  <1>7. Process(g, w) = [g |-> AdvanceReg([g EXCEPT !.packed_q = Latch(d, c)]), out |-> Packed(d, c)]
    <2>1. ~(g.nloop = 0) /\ g.nloop > 0
      BY <1>4, <1>5
    <2> HIDE DEF c, d
    <2> QED
      BY <1>4, <2>1 DEF Process
  <1>8. [g EXCEPT !.packed_q = Latch(d, c)] = Stands(p, e, n, r, Latch(d, c))
    <2> HIDE DEF c, d
    <2>1. g = Stands(p, e, n, r, c)
      BY <1>1 DEF c
    <2> QED
      BY <2>1 DEF Stands
  <1>9. Inside(p, e, q, j + 1, AdvanceReg(Stands(p, e, n, r, Latch(d, c))))
    BY <1>2, <1>5, <1>6, AdvanceDone
  <1>10. Writes(p, q, j + 1) = Packed(d, c)
    BY WritesAre
  <1> HIDE DEF c, d
  <1> QED
    BY <1>7, <1>8, <1>9, <1>10

LEMMA HalfStep ==
    ASSUME NEW p, Primitive(p), p.flg = "reglist", NEW e, NEW q \in Nat, NEW j \in 0 .. Items(p) - 1, NEW g,
           Inside(p, e, q, j, g), NEW o \in Seq(Write)
    PROVE  LET h == Half([g |-> g, out |-> o])
           IN  h = [g |-> h.g, out |-> o \o Writes(p, q, j + 1)] /\ Inside(p, e, q, j + 1, h.g)
  <1>1. PICK n, r : DoneAt(p, n, r, j) /\ g = Stands(p, e, n, r, QHeld(p, q, j))
    BY DEF Inside
  <1>2. LoopsAt(p, n, r, j)
    BY <1>1 DEF DoneAt
  <1> DEFINE c == QHeld(p, q, j)
             d == Desc(p, j)
  <1>3. Items(p) \in Nat /\ c \in Nat /\ j \in Nat
    BY ItemsAre, HeldIs
  <1>4. g.nloop = n /\ g.regs[g.reg_index + 1] = d
    BY <1>1, <1>2, StandsIs, DescRead
  <1>5. n # 0
    <2>1. g.nloop \in Nat /\ (g.nloop = 0 <=> j = Items(p))
      BY InsideIs
    <2> QED
      BY <1>3, <1>4, <2>1
  <1>6. QHeld(p, q, j + 1) = c
    <2>1. j + 1 \in 0 .. Items(p) /\ j \in 0 .. Items(p) /\ p.flg # "packed"
      BY <1>3
    <2>2. QHeld(p, q, j + 1) = q /\ c = q
      BY <2>1, HeldIs
    <2> QED
      BY <2>2
  <1>7. d.name \in STRING
    BY <1>3, DescIs
  <1>8. Writes(p, q, j + 1) = OfHalf(d)
    BY WritesAre
  <1>9. (IF d.name = "ad" THEN o ELSE Append(o, [reg |-> d.name, q |-> 0])) = o \o OfHalf(d)
    <2> DEFINE x == [reg |-> d.name, q |-> 0]
    <2>1. x \in Write
      BY <1>7, WriteIs DEF Names
    <2> HIDE DEF x
    <2>2. Append(o, x) = o \o << x >> /\ o \o << >> = o
      BY <2>1, AppendIsConcat, ConcatEmptySeq
    <2> QED
      BY <2>2 DEF x, OfHalf
  <1>10. Half([g |-> g, out |-> o]) =
            [g |-> AdvanceReg(g), out |-> IF d.name = "ad" THEN o ELSE Append(o, [reg |-> d.name, q |-> 0])]
    <2> HIDE DEF d
    <2> QED
      BY <1>4, <1>5 DEF Half
  <1>11. Inside(p, e, q, j + 1, AdvanceReg(g))
    BY <1>1, <1>2, <1>5, <1>6, AdvanceDone
  <1> DEFINE k == Half([g |-> g, out |-> o])
             a == AdvanceReg(g)
  <1>12. k = [g |-> a, out |-> o \o Writes(p, q, j + 1)]
    <2> HIDE DEF d, a
    <2> QED
      BY <1>8, <1>9, <1>10 DEF a
  <1>13. Inside(p, e, q, j + 1, a)
    BY <1>11
  <1> HIDE DEF k, a
  <1>14. k = [g |-> k.g, out |-> o \o Writes(p, q, j + 1)] /\ Inside(p, e, q, j + 1, k.g)
    BY <1>12, <1>13
  <1> QED
    BY <1>14 DEF k

LEMMA ImageStep ==
    ASSUME NEW p, Primitive(p), p.flg = "image", NEW e, NEW q \in Nat, NEW j \in 0 .. Items(p) - 1, NEW g,
           Inside(p, e, q, j, g), NEW w
    PROVE  /\ Process(g, w).out = Writes(p, q, j + 1)
           /\ Inside(p, e, q, j + 1, Process(g, w).g)
  <1>1. PICK n, r : DoneAt(p, n, r, j) /\ g = Stands(p, e, n, r, QHeld(p, q, j))
    BY DEF Inside
  <1>2. n \in 0 .. p.nloop /\ r = 0 /\ j = p.nloop - n
    BY <1>1 DEF DoneAt
  <1> DEFINE c == QHeld(p, q, j)
  <1>3. Items(p) = p.nloop /\ p.nloop \in Nat /\ j \in Nat
    BY ItemsAre
  <1>4. n \in Nat /\ n # 0 /\ n - 1 \in 0 .. p.nloop /\ j + 1 = p.nloop - (n - 1)
    BY <1>2, <1>3
  <1>5. g.nloop = n /\ g.flg = "image"
    BY <1>1, StandsIs
  <1>6. QHeld(p, q, j + 1) = c
    <2>1. j + 1 \in 0 .. Items(p) /\ j \in 0 .. Items(p) /\ p.flg # "packed"
      BY <1>3
    <2>2. QHeld(p, q, j + 1) = q /\ c = q
      BY <2>1, HeldIs
    <2> QED
      BY <2>2
  <1>7. Process(g, w) = [g |-> [g EXCEPT !.nloop = @ - 1],
                         out |-> << [reg |-> "hwreg", q |-> 0], [reg |-> "hwreg", q |-> 0] >>]
    <2>1. ~(g.nloop = 0) /\ g.flg # "packed" /\ g.flg # "reglist"
      BY <1>4, <1>5
    <2> QED
      BY <2>1 DEF Process
  <1>8. [g EXCEPT !.nloop = @ - 1] = Stands(p, e, n - 1, r, c)
    <2> HIDE DEF c
    <2>1. g = Stands(p, e, n, r, c)
      BY <1>1 DEF c
    <2> QED
      BY <2>1 DEF Stands
  <1>9. DoneAt(p, n - 1, r, j + 1)
    BY <1>2, <1>4 DEF DoneAt
  <1>10. Inside(p, e, q, j + 1, Stands(p, e, n - 1, r, c))
    BY <1>6, <1>9 DEF Inside
  <1>11. Writes(p, q, j + 1) = << Hwreg, Hwreg >>
    BY WritesAre
  <1> HIDE DEF c
  <1> QED
    BY <1>7, <1>8, <1>10, <1>11 DEF Hwreg

(***************************************************************************)
(* The quadwords of a primitive's data.                                    *)
(***************************************************************************)
\* Items done after m quadwords.
ItemsAt(p, m) == IF p.flg = "reglist" /\ 2 * m > Items(p) THEN Items(p)
                 ELSE IF p.flg = "reglist" THEN 2 * m ELSE m

LEMMA HalvesAre == \A a, m \in Nat : /\ (a + 2 - 1) \div 2 \in Nat
                                     /\ m < (a + 2 - 1) \div 2 <=> 2 * m < a
  <1> SUFFICES ASSUME NEW a \in Nat, NEW m \in Nat
               PROVE  (a + 2 - 1) \div 2 \in Nat /\ (m < (a + 2 - 1) \div 2 <=> 2 * m < a)
    OBVIOUS
  <1>1. a + 2 - 1 = a + 1 /\ (a + 1) \div 2 \in Nat
    BY SMTT(30)
  <1>2. m < (a + 1) \div 2 <=> 2 * m < a
    BY SMTT(30)
  <1> QED
    BY <1>1, <1>2

LEMMA QuadsAre ==
    ASSUME NEW p, Primitive(p)
    PROVE  /\ QuadCount(p) \in Nat /\ ItemsAt(p, 0) = 0 /\ ItemsAt(p, QuadCount(p)) = Items(p)
           /\ \A m \in 0 .. QuadCount(p) : ItemsAt(p, m) \in 0 .. Items(p)
           /\ \A m \in 0 .. QuadCount(p) - 1 :
                 /\ ItemsAt(p, m) \in 0 .. Items(p) - 1
                 /\ p.flg # "reglist" => ItemsAt(p, m + 1) = ItemsAt(p, m) + 1
                 /\ p.flg = "reglist" => ItemsAt(p, m + 1) = IF ItemsAt(p, m) + 1 = Items(p) THEN ItemsAt(p, m) + 1
                                                             ELSE ItemsAt(p, m) + 2
  <1> DEFINE N == Items(p)
             Q == QuadCount(p)
  <1>1. N \in Nat /\ p.flg \in {"packed", "reglist", "image"}
    BY ItemsAre DEF Primitive
  <1>2. CASE p.flg = "reglist"
    <2>1. N = p.nloop * p.nreg
      BY <1>2, ItemsAre
    <2>2. Q = (N + 2 - 1) \div 2
      BY <1>2, <2>1 DEF QuadCount, CeilDiv
    <2> HIDE DEF Q
    <2>3. Q \in Nat /\ \A m \in Nat : m < Q <=> 2 * m < N
      BY <1>1, <2>2, HalvesAre
    <2>4. \A m : ItemsAt(p, m) = IF 2 * m > N THEN N ELSE 2 * m
      BY <1>2 DEF ItemsAt
    <2> HIDE DEF N
    <2>5. 2 * Q >= N
      BY <1>1, <2>3
    <2>6. ItemsAt(p, 0) = 0 /\ ItemsAt(p, Q) = N
      BY <1>1, <2>3, <2>4, <2>5
    <2>7. \A m \in 0 .. Q : ItemsAt(p, m) \in 0 .. N
      BY <1>1, <2>3, <2>4
    <2>8. ASSUME NEW m \in 0 .. Q - 1
          PROVE  /\ ItemsAt(p, m) \in 0 .. N - 1
                 /\ ItemsAt(p, m + 1) = IF ItemsAt(p, m) + 1 = N THEN ItemsAt(p, m) + 1 ELSE ItemsAt(p, m) + 2
      <3>1. m \in Nat /\ m < Q /\ 2 * m < N
        BY <2>3
      <3>2. ItemsAt(p, m) = 2 * m
        BY <1>1, <2>4, <3>1
      <3>3. ItemsAt(p, m + 1) = IF 2 * m + 2 > N THEN N ELSE 2 * m + 2
        BY <1>1, <2>4, <3>1
      <3> QED
        BY <1>1, <3>1, <3>2, <3>3
    <2> QED
      BY <1>2, <2>3, <2>6, <2>7, <2>8 DEF N, Q
  <1>3. CASE p.flg # "reglist"
    <2>1. Q = N
      <3>1. CASE p.flg = "packed"
        BY <3>1, ItemsAre DEF QuadCount
      <3>2. CASE p.flg = "image"
        BY <3>2, ItemsAre DEF QuadCount
      <3> QED
        BY <1>1, <1>3, <3>1, <3>2
    <2>2. \A m : ItemsAt(p, m) = m
      BY <1>3 DEF ItemsAt
    <2> HIDE DEF N, Q
    <2>3. /\ Q \in Nat /\ ItemsAt(p, 0) = 0 /\ ItemsAt(p, Q) = N
          /\ \A m \in 0 .. Q : ItemsAt(p, m) \in 0 .. N
          /\ \A m \in 0 .. Q - 1 : ItemsAt(p, m) \in 0 .. N - 1 /\ ItemsAt(p, m + 1) = ItemsAt(p, m) + 1
      BY <1>1, <2>1, <2>2
    <2> QED
      BY <1>3, <2>3 DEF N, Q
  <1> QED
    BY <1>2, <1>3

Joined(a, b, c) == a = b \o c

\* Whatever the mode, a data quadword does the items it carries.
LEMMA QuadStep ==
    ASSUME NEW p, Primitive(p), NEW e, NEW q \in Nat, NEW out \in Seq(Write), NEW m \in 0 .. QuadCount(p) - 1,
           NEW g, Inside(p, e, q, ItemsAt(p, m), g), NEW w
    PROVE  /\ Inside(p, e, q, ItemsAt(p, m + 1), Process(g, w).g)
           /\ Joined(MeansRun(p, q, out)[ItemsAt(p, m + 1)], MeansRun(p, q, out)[ItemsAt(p, m)], Process(g, w).out)
  <1> DEFINE N == Items(p)
             j == ItemsAt(p, m)
             M == MeansRun(p, q, out)
             x == Writes(p, q, j + 1)
             y == Writes(p, q, j + 2)
  <1>1. /\ N \in Nat /\ j \in 0 .. N - 1
        /\ p.flg # "reglist" => ItemsAt(p, m + 1) = j + 1
        /\ p.flg = "reglist" => ItemsAt(p, m + 1) = IF j + 1 = N THEN j + 1 ELSE j + 2
        /\ p.flg \in {"packed", "reglist", "image"}
    BY ItemsAre, QuadsAre DEF Primitive
  <1> HIDE DEF j
  <1>2. Inside(p, e, q, j, g)
    BY DEF j
  <1>3. M[j + 1] = M[j] \o x
    BY <1>1, MeansAre
  <1> DEFINE k == ItemsAt(p, m + 1)
  <1> HIDE DEF k
  <1>4. SUFFICES Inside(p, e, q, k, Process(g, w).g) /\ M[k] = M[j] \o Process(g, w).out
    BY DEF j, k, Joined
  <1>k. /\ p.flg # "reglist" => k = j + 1
        /\ p.flg = "reglist" => k = IF j + 1 = N THEN j + 1 ELSE j + 2
    BY <1>1 DEF k
  <1>5. CASE p.flg = "packed"
    <2>1. Process(g, w).out = x /\ Inside(p, e, q, j + 1, Process(g, w).g)
      BY <1>1, <1>2, <1>5, PackedStep
    <2> QED
      BY <1>3, <1>5, <1>k, <2>1
  <1>6. CASE p.flg = "image"
    <2>1. Process(g, w).out = x /\ Inside(p, e, q, j + 1, Process(g, w).g)
      BY <1>1, <1>2, <1>6, ImageStep
    <2> QED
      BY <1>3, <1>6, <1>k, <2>1
  <1>7. CASE p.flg = "reglist"
    <2>1. x \in Seq(Write) /\ M[j] \in Seq(Write) /\ << >> \o x = x
      <3>1. x \in Seq(Write) /\ M[j] \in Seq(Write)
        <4>1. x \in Seq(Write)
          BY <1>1, WritesAre
        <4>2. j \in 0 .. N
          BY <1>1
        <4>3. M[j] \in Seq(Write)
          BY <4>2, MeansAre
        <4> QED
          BY <4>1, <4>3
      <3> QED
        BY <3>1, ConcatEmptySeq
    <2> DEFINE h == Half([g |-> g, out |-> << >>])
    <2>2. h = [g |-> h.g, out |-> x] /\ Inside(p, e, q, j + 1, h.g)
      <3>1. << >> \in Seq(Write)
        OBVIOUS
      <3> HIDE DEF x, N
      <3>2. h = [g |-> h.g, out |-> << >> \o x] /\ Inside(p, e, q, j + 1, h.g)
        BY <1>1, <1>2, <1>7, <3>1, HalfStep DEF x, N
      <3> QED
        BY <2>1, <3>2
    <2>3. Process(g, w) = Half(h)
      <3>1. ~(g.nloop = 0) /\ g.nloop > 0 /\ g.flg = "reglist"
        <4>1. g.nloop \in Nat /\ (g.nloop = 0 <=> j = N)
          BY <1>2, InsideIs
        <4>2. \E n, r, c : g = Stands(p, e, n, r, c)
          BY <1>2 DEF Inside
        <4> QED
          BY <1>1, <1>7, <4>1, <4>2, StandsIs
      <3> QED
        BY <3>1 DEF Process
    <2> HIDE DEF h
    <2>4. CASE j + 1 = N
      <3>1. h.g.nloop = 0
        BY <1>1, <2>2, <2>4, InsideIs
      <3>2. Half(h) = h
        BY <3>1 DEF Half
      <3>3. Process(g, w).out = x /\ Process(g, w).g = h.g
        BY <2>2, <2>3, <3>2
      <3> QED
        BY <1>3, <1>7, <1>k, <2>2, <2>4, <3>3
    <2>5. CASE j + 1 # N
      <3>1. j + 1 \in 0 .. N - 1 /\ (j + 1) + 1 = j + 2
        BY <1>1, <2>5
      <3> DEFINE k2 == j + 1
                 y2 == Writes(p, q, k2 + 1)
                 u == Half([g |-> h.g, out |-> x])
      <3>2. k2 \in 0 .. N - 1 /\ k2 + 1 = j + 2 /\ Inside(p, e, q, k2, h.g)
        BY <2>2, <3>1
      <3> HIDE DEF k2
      <3>3. u = [g |-> u.g, out |-> x \o y2] /\ Inside(p, e, q, k2 + 1, u.g)
        <4> HIDE DEF x, N
        <4> QED
          BY <1>7, <2>1, <3>2, HalfStep DEF N
      <3>4. M[k2 + 1] = M[k2] \o y2 /\ y2 \in Seq(Write)
        BY <3>2, MeansAre, WritesAre
      <3>5. M[k2] = M[j] \o x
        BY <1>3 DEF k2
      <3>6. Process(g, w) = u
        BY <2>2, <2>3
      <3> HIDE DEF M, x, y2, u
      <3>7. (M[j] \o x) \o y2 = M[j] \o (x \o y2)
        <4> DEFINE z == M[j]
        <4>1. z \in Seq(Write) /\ x \in Seq(Write) /\ y2 \in Seq(Write)
          BY <2>1, <3>4
        <4> HIDE DEF z
        <4>2. (z \o x) \o y2 = z \o (x \o y2)
          BY ONLY <4>1, ConcatAssociative, SMTT(20)
        <4> QED
          BY <4>2 DEF z
      <3>8. k = k2 + 1
        BY <1>7, <1>k, <2>5, <3>2
      <3>9. u.out = x \o y2
        BY <3>3
      <3> QED
        BY <3>3, <3>4, <3>5, <3>6, <3>7, <3>8, <3>9
    <2> QED
      BY <2>4, <2>5
  <1> QED
    BY <1>1, <1>5, <1>6, <1>7

(***************************************************************************)
(* Packets: what their primitives mean one after the other, and where each *)
(* one's quadwords are in the stream.                                      *)
(***************************************************************************)
IsPacket(pk) == Len(pk) \in Nat \ {0} /\ \A i \in 1 .. Len(pk) : Primitive(pk[i])
PacketRun(pk, q) ==
    LET m[i \in 0 .. Len(pk)] ==
            IF i = 0 THEN [q |-> q, out |-> << >>]
            ELSE [q |-> QHeld(pk[i], m[i - 1].q, Items(pk[i])),
                  out |-> Means(pk[i], m[i - 1].q, m[i - 1].out)]
    IN  m
NextMeant(pk, i, r) == [q |-> QHeld(pk[i], r.q, Items(pk[i])), out |-> Means(pk[i], r.q, r.out)]
StreamRun(pk) ==
    LET s[i \in 0 .. Len(pk)] == IF i = 0 THEN << >> ELSE s[i - 1] \o PacketQuads(pk, i)
    IN  s

LEMMA PacketTurns ==
    ASSUME NEW pk, Len(pk) \in Nat, NEW q
    PROVE  /\ PacketRun(pk, q)[0] = [q |-> q, out |-> << >>]
           /\ \A i \in 1 .. Len(pk) : PacketRun(pk, q)[i] = NextMeant(pk, i, PacketRun(pk, q)[i - 1])
           /\ PacketMeans(pk, q) = PacketRun(pk, q)[Len(pk)].out
  <1> DEFINE G(n, f) == f = [i \in 0 .. n |->
                                IF i = 0 THEN [q |-> q, out |-> << >>]
                                ELSE [q |-> QHeld(pk[i], f[i - 1].q, Items(pk[i])),
                                      out |-> Means(pk[i], f[i - 1].q, f[i - 1].out)]]
             H(n, f) == f = [i \in 0 .. n |-> IF i = 0 THEN [q |-> q, out |-> << >>] ELSE NextMeant(pk, i, f[i - 1])]
             S == { n \in Nat : \E f : H(n, f) }
  <1>0. \A n, f : G(n, f) <=> H(n, f)
    BY DEF NextMeant
  <1>1. 0 \in S
    <2>1. H(0, [i \in 0 .. 0 |-> [q |-> q, out |-> << >>]])
      OBVIOUS
    <2> QED
      BY <2>1
  <1>2. ASSUME NEW n \in S PROVE n + 1 \in S
    <2>1. PICK g : H(n, g)
      OBVIOUS
    <2> DEFINE h == [i \in 0 .. n + 1 |-> IF i <= n THEN g[i] ELSE NextMeant(pk, n + 1, g[n])]
    <2>2. \A i \in 0 .. n + 1 : h[i] = IF i = 0 THEN [q |-> q, out |-> << >>] ELSE NextMeant(pk, i, h[i - 1])
      BY <2>1
    <2>3. H(n + 1, h)
      <3> HIDE DEF h
      <3>1. h = [i \in 0 .. n + 1 |-> h[i]]
        BY DEF h
      <3> QED
        BY <2>2, <3>1
    <2>4. n + 1 \in Nat /\ \E f : H(n + 1, f)
      <3> HIDE DEF h, H
      <3> QED
        BY <2>3
    <2> QED
      BY <2>4
  <1>3. S = Nat
    <2> HIDE DEF S
    <2> QED
      BY <1>1, <1>2, Induction, S \subseteq Nat DEF S
  <1>4. \E f : G(Len(pk), f)
    <2> HIDE DEF G, H
    <2> QED
      BY <1>0, <1>3
  <1> DEFINE m == PacketRun(pk, q)
  <1>5. G(Len(pk), m)
    BY <1>4 DEF PacketRun
  <1>6. H(Len(pk), m)
    <2> HIDE DEF G, H, m
    <2> QED
      BY <1>0, <1>5
  <1>7. PacketMeans(pk, q) = m[Len(pk)].out
    BY DEF PacketMeans, PacketRun
  <1> HIDE DEF m
  <1>8. m[0] = [q |-> q, out |-> << >>] /\ \A i \in 1 .. Len(pk) : m[i] = NextMeant(pk, i, m[i - 1])
    BY <1>6
  <1> QED
    BY <1>7, <1>8 DEF m

LEMMA PacketAre ==
    ASSUME NEW pk, IsPacket(pk), NEW q \in Nat
    PROVE  \A i \in 0 .. Len(pk) : PacketRun(pk, q)[i].q \in Nat /\ PacketRun(pk, q)[i].out \in Seq(Write)
  <1> DEFINE m == PacketRun(pk, q)
             L == Len(pk)
             S == { i \in Nat : i =< L => m[i].q \in Nat /\ m[i].out \in Seq(Write) }
  <1>1. L \in Nat /\ \A i \in 1 .. L : Primitive(pk[i])
    BY DEF IsPacket
  <1>2. m[0] = [q |-> q, out |-> << >>] /\ \A i \in 1 .. L : m[i] = NextMeant(pk, i, m[i - 1])
    BY <1>1, PacketTurns
  <1> HIDE DEF m, L
  <1>3. 0 \in S
    <2>1. m[0].q = q /\ m[0].out = << >>
      BY <1>2
    <2>2. << >> \in Seq(Write)
      OBVIOUS
    <2> QED
      BY <2>1, <2>2
  <1>4. ASSUME NEW n \in S PROVE n + 1 \in S
    <2> SUFFICES ASSUME n + 1 =< L PROVE m[n + 1].q \in Nat /\ m[n + 1].out \in Seq(Write)
      OBVIOUS
    <2> DEFINE i == n + 1
               x == m[n].q
               o == m[n].out
               p == pk[i]
    <2>1. i \in 1 .. L /\ i - 1 = n /\ x \in Nat /\ o \in Seq(Write)
      BY <1>1
    <2>2. m[i] = NextMeant(pk, i, m[n])
      BY <1>2, <2>1
    <2>3. Primitive(p)
      BY <1>1, <2>1
    <2>4. m[i].q = QHeld(p, x, Items(p)) /\ m[i].out = Means(p, x, o)
      BY <2>2 DEF NextMeant
    <2> HIDE DEF i, x, o, p
    <2>5. Items(p) \in 0 .. Items(p)
      BY <2>3, ItemsAre
    <2>6. QHeld(p, x, Items(p)) \in Nat
      BY <2>1, <2>3, <2>5, HeldIs
    <2>7. Means(p, x, o) \in Seq(Write)
      <3>1. Means(p, x, o) = MeansRun(p, x, o)[Items(p)]
        BY <2>1, <2>3, MeansAre
      <3>2. \A j \in 0 .. Items(p) : MeansRun(p, x, o)[j] \in Seq(Write)
        BY <2>1, <2>3, MeansAre
      <3> QED
        BY <2>5, <3>1, <3>2
    <2> QED
      BY <2>4, <2>6, <2>7 DEF i
  <1>5. S = Nat
    <2> HIDE DEF S
    <2> QED
      BY <1>3, <1>4, Induction, S \subseteq Nat DEF S
  <1> QED
    BY <1>1, <1>5 DEF m, L

LEMMA StreamTurns ==
    ASSUME NEW pk, Len(pk) \in Nat
    PROVE  /\ StreamRun(pk)[0] = << >>
           /\ \A i \in 1 .. Len(pk) : StreamRun(pk)[i] = StreamRun(pk)[i - 1] \o PacketQuads(pk, i)
           /\ QuadStream(pk) = StreamRun(pk)[Len(pk)]
  <1> DEFINE G(n, f) == f = [i \in 0 .. n |-> IF i = 0 THEN << >> ELSE f[i - 1] \o PacketQuads(pk, i)]
             S == { n \in Nat : \E f : G(n, f) }
  <1>1. 0 \in S
    <2>1. G(0, [i \in 0 .. 0 |-> << >>])
      OBVIOUS
    <2> QED
      BY <2>1
  <1>2. ASSUME NEW n \in S PROVE n + 1 \in S
    <2>1. PICK g : G(n, g)
      OBVIOUS
    <2> DEFINE h == [i \in 0 .. n + 1 |-> IF i <= n THEN g[i] ELSE g[n] \o PacketQuads(pk, n + 1)]
    <2>2. \A i \in 0 .. n : h[i] = g[i]
      OBVIOUS
    <2>3. \A i \in 0 .. n : g[i] = IF i = 0 THEN << >> ELSE g[i - 1] \o PacketQuads(pk, i)
      BY <2>1
    <2>4. n \in Nat /\ n + 1 \in 0 .. n + 1 /\ ~(n + 1 <= n) /\ n \in 0 .. n /\ n + 1 # 0 /\ (n + 1) - 1 = n
      OBVIOUS
    <2>5. \A i \in 0 .. n + 1 : h[i] = IF i <= n THEN g[i] ELSE g[n] \o PacketQuads(pk, n + 1)
      <3> HIDE DEF G, S
      <3> QED
        OBVIOUS
    <2>6. h = [i \in 0 .. n + 1 |-> h[i]]
      <3> HIDE DEF G, S
      <3> QED
        OBVIOUS
    <2> HIDE DEF h, G, S
    <2>7. h[n + 1] = h[(n + 1) - 1] \o PacketQuads(pk, n + 1)
      BY <2>2, <2>4, <2>5
    <2>8. ASSUME NEW i \in 0 .. n + 1 PROVE h[i] = IF i = 0 THEN << >> ELSE h[i - 1] \o PacketQuads(pk, i)
      <3>1. CASE i = n + 1
        BY <2>4, <2>7, <3>1
      <3>2. CASE i \in 0 .. n
        <4>1. i # 0 => i - 1 \in 0 .. n
          BY <2>4, <3>2
        <4>2. h[i] = g[i] /\ (i # 0 => h[i - 1] = g[i - 1])
          BY <2>2, <3>2, <4>1
        <4> QED
          BY <2>3, <3>2, <4>2
      <3> QED
        BY <2>4, <3>1, <3>2
    <2>9. G(n + 1, h)
      BY <2>6, <2>8 DEF G
    <2> QED
      BY <2>4, <2>9 DEF S
  <1>3. S = Nat
    <2> HIDE DEF S
    <2> QED
      BY <1>1, <1>2, Induction, S \subseteq Nat DEF S
  <1>4. \E f : G(Len(pk), f)
    BY <1>3
  <1> DEFINE s == StreamRun(pk)
  <1>5. G(Len(pk), s)
    BY <1>4 DEF StreamRun
  <1>6. QuadStream(pk) = s[Len(pk)]
    BY DEF QuadStream, StreamRun
  <1> HIDE DEF s
  <1>7. s[0] = << >>
    BY <1>5
  <1>8. ASSUME NEW i \in 1 .. Len(pk) PROVE s[i] = s[i - 1] \o PacketQuads(pk, i)
    <2>1. i \in 0 .. Len(pk) /\ i # 0
      OBVIOUS
    <2> QED
      BY <1>5, <2>1
  <1> QED
    BY <1>6, <1>7, <1>8 DEF s
\* Quadwords before primitive i's tag.
Before(pk, i) == Len(StreamRun(pk)[i - 1])
Words == { Quad(pk, i, n) : pk \in Packet, i \in Nat, n \in Nat }

LEMMA PacketIs == \A pk \in Packet : IsPacket(pk)
  BY GifAssumption DEF IsPacket

LEMMA QuadsAt ==
    ASSUME NEW pk \in Packet, NEW i \in 1 .. Len(pk)
    PROVE  /\ PacketQuads(pk, i) \in Seq(Words) /\ Len(PacketQuads(pk, i)) = QuadCount(pk[i]) + 1
           /\ QuadCount(pk[i]) \in Nat
           /\ \A m \in 0 .. QuadCount(pk[i]) : PacketQuads(pk, i)[m + 1] = Quad(pk, i, m)
  <1> DEFINE Q == QuadCount(pk[i])
             z == PacketQuads(pk, i)
  <1>1. Q \in Nat /\ i \in Nat
    BY PacketIs, QuadsAre DEF IsPacket
  <1>2. z = [k \in 1 .. Q + 1 |-> Quad(pk, i, k - 1)]
    BY DEF PacketQuads
  <1> HIDE DEF Q, z
  <1>3. \A k \in 1 .. Q + 1 : z[k] = Quad(pk, i, k - 1) /\ z[k] \in Words
    BY <1>1, <1>2 DEF Words
  <1>4. z \in Seq(Words) /\ Len(z) = Q + 1
    <2>1. z \in [1 .. Q + 1 -> Words]
      BY <1>2, <1>3
    <2> QED
      BY <1>1, <2>1
  <1>5. ASSUME NEW m \in 0 .. Q PROVE z[m + 1] = Quad(pk, i, m)
    <2>1. m + 1 \in 1 .. Q + 1 /\ (m + 1) - 1 = m
      BY <1>1
    <2>2. z[m + 1] = Quad(pk, i, (m + 1) - 1)
      BY <1>3, <2>1
    <2> QED
      BY <2>1, <2>2
  <1> QED
    BY <1>1, <1>4, <1>5 DEF Q, z

LEMMA WordsAre ==
    ASSUME NEW pk \in Packet
    PROVE  /\ QuadStream(pk) \in Seq(Words)
           /\ Before(pk, 1) = 0
           /\ \A i \in 1 .. Len(pk) : Before(pk, i) \in Nat
           /\ \A i \in 1 .. Len(pk) - 1 : Before(pk, i + 1) = Before(pk, i) + QuadCount(pk[i]) + 1
           /\ Len(QuadStream(pk)) = Before(pk, Len(pk)) + QuadCount(pk[Len(pk)]) + 1
           /\ \A i \in 1 .. Len(pk) : \A m \in 0 .. QuadCount(pk[i]) :
                 /\ Before(pk, i) + 1 + m \in 1 .. Len(QuadStream(pk))
                 /\ QuadStream(pk)[Before(pk, i) + 1 + m] = Quad(pk, i, m)
  <1> DEFINE s == StreamRun(pk)
             L == Len(pk)
             Q(i) == QuadCount(pk[i])
             B(i) == Len(s[i - 1])
             Fits(n) == /\ s[n] \in Seq(Words)
                        /\ \A i \in 1 .. n : \A m \in 0 .. Q(i) : B(i) + 1 + m \in 1 .. Len(s[n])
                                                                  /\ s[n][B(i) + 1 + m] = Quad(pk, i, m)
             S == { n \in Nat : n =< L => Fits(n) /\ \A i \in 1 .. n : B(i) \in Nat }
  <1>1. L \in Nat \ {0}
    BY PacketIs DEF IsPacket
  <1>2. s[0] = << >> /\ (\A i \in 1 .. L : s[i] = s[i - 1] \o PacketQuads(pk, i)) /\ QuadStream(pk) = s[L]
    BY <1>1, StreamTurns
  <1>3. \A i \in 1 .. L : Q(i) \in Nat
    BY QuadsAt
  <1> HIDE DEF s, L, Q
  <1>4. 0 \in S
    <2>1. s[0] \in Seq(Words)
      BY <1>2
    <2>2. \A i \in 1 .. 0 : FALSE
      OBVIOUS
    <2> QED
      BY <2>1, <2>2
  <1>5. ASSUME NEW i \in 1 .. L, s[i - 1] \in Seq(Words)
        PROVE  /\ s[i] \in Seq(Words) /\ B(i) \in Nat /\ Len(s[i]) = B(i) + Q(i) + 1
               /\ \A k \in 1 .. B(i) : s[i][k] = s[i - 1][k]
               /\ \A m \in 0 .. Q(i) : s[i][B(i) + 1 + m] = Quad(pk, i, m)
    <2> DEFINE a == s[i - 1]
               z == PacketQuads(pk, i)
               b == Len(a)
               c == a \o z
               x == Q(i)
    <2>1. z \in Seq(Words) /\ Len(z) = x + 1 /\ x \in Nat /\ \A m \in 0 .. x : z[m + 1] = Quad(pk, i, m)
      BY QuadsAt DEF L, Q
    <2>2. s[i] = c /\ a \in Seq(Words)
      BY <1>2, <1>5
    <2> HIDE DEF a, z, x
    <2>3. b \in Nat
      BY <2>2
    <2>4. c \in Seq(Words) /\ Len(c) = b + Len(z) /\ \A k \in 1 .. b + Len(z) : c[k] = IF k <= b THEN a[k] ELSE z[k - b]
      BY <2>1, <2>2, ConcatProperties
    <2> HIDE DEF c, b
    <2>5. \A k \in 1 .. b : c[k] = a[k]
      BY <2>1, <2>3, <2>4
    <2>6. ASSUME NEW m \in 0 .. x PROVE c[b + 1 + m] = Quad(pk, i, m)
      <3> DEFINE k == b + 1 + m
      <3>1. k \in 1 .. b + Len(z) /\ ~(k <= b) /\ k - b = m + 1
        BY <2>1, <2>3
      <3> HIDE DEF k
      <3>2. c[k] = z[k - b]
        BY <2>4, <3>1
      <3>3. c[k] = z[m + 1]
        BY <3>1, <3>2
      <3> QED
        BY <2>1, <3>3 DEF k
    <2>7. Len(c) = b + x + 1
      BY <2>1, <2>3, <2>4
    <2>8. a = s[i - 1] /\ b = B(i) /\ x = Q(i)
      BY DEF a, b, x
    <2> HIDE DEF B, Q
    <2> QED
      BY <2>2, <2>3, <2>4, <2>5, <2>6, <2>7, <2>8
  <1>6. ASSUME NEW n \in S PROVE n + 1 \in S
    <2> SUFFICES ASSUME n + 1 =< L PROVE Fits(n + 1) /\ \A i \in 1 .. n + 1 : B(i) \in Nat
      OBVIOUS
    <2> DEFINE j == n + 1
    <2>1. Fits(n) /\ (\A i \in 1 .. n : B(i) \in Nat) /\ j \in 1 .. L /\ j - 1 = n /\ n \in Nat
      BY <1>1
    <2>2. s[j - 1] \in Seq(Words) /\ s[n] \in Seq(Words)
      BY <2>1
    <2> HIDE DEF j
    <2>3. /\ s[j] \in Seq(Words) /\ B(j) \in Nat /\ Len(s[j]) = B(j) + Q(j) + 1
          /\ \A k \in 1 .. B(j) : s[j][k] = s[j - 1][k]
          /\ \A m \in 0 .. Q(j) : s[j][B(j) + 1 + m] = Quad(pk, j, m)
      BY <1>5, <2>1, <2>2
    <2>4. B(j) = Len(s[n])
      BY <2>1
    <2> HIDE DEF B
    <2>5. ASSUME NEW i \in 1 .. j, NEW m \in 0 .. Q(i)
          PROVE  B(i) + 1 + m \in 1 .. Len(s[j]) /\ s[j][B(i) + 1 + m] = Quad(pk, i, m)
      <3>1. CASE i = j
        <4>1. Q(j) \in Nat /\ m \in 0 .. Q(j)
          BY <1>3, <2>1, <3>1
        <4>2. s[j][B(j) + 1 + m] = Quad(pk, j, m)
          BY <2>3, <4>1
        <4>3. B(j) + 1 + m \in 1 .. Len(s[j])
          BY <2>3, <4>1
        <4> QED
          BY <3>1, <4>2, <4>3
      <3>2. CASE i # j
        <4> DEFINE h == B(i) + 1 + m
        <4>1. i \in 1 .. n
          BY <2>1, <3>2 DEF j
        <4>2. h \in 1 .. Len(s[n]) /\ s[n][h] = Quad(pk, i, m)
          BY <2>1, <4>1
        <4> HIDE DEF h
        <4>3. Q(j) \in Nat /\ Len(s[n]) \in Nat
          BY <1>3, <2>1, <2>2
        <4>4. h \in 1 .. Len(s[j]) /\ h \in 1 .. B(j)
          BY <2>3, <2>4, <4>2, <4>3
        <4>5. s[j][h] = s[n][h]
          BY <2>1, <2>3, <4>4
        <4> QED
          BY <4>2, <4>4, <4>5 DEF h
      <3> QED
        BY <3>1, <3>2
    <2>6. \A i \in 1 .. j : B(i) \in Nat
      <3> SUFFICES ASSUME NEW i \in 1 .. j PROVE B(i) \in Nat
        OBVIOUS
      <3>1. i = j \/ i \in 1 .. n
        BY <2>1 DEF j
      <3> QED
        BY <2>1, <2>3, <3>1
    <2> QED
      BY <2>3, <2>5, <2>6 DEF j
  <1>7. S = Nat
    <2> HIDE DEF S
    <2> QED
      BY <1>4, <1>6, Induction, S \subseteq Nat DEF S
  <1>8. \A n \in 0 .. L : Fits(n) /\ \A i \in 1 .. n : B(i) \in Nat
    <2> HIDE DEF Fits, B
    <2> QED
      BY <1>1, <1>7
  <1>9. ASSUME NEW i \in 1 .. L PROVE B(i) \in Nat /\ Len(s[i]) = B(i) + Q(i) + 1
    <2>1. i - 1 \in 0 .. L
      BY <1>1
    <2>2. s[i - 1] \in Seq(Words)
      BY <1>8, <2>1
    <2> HIDE DEF B, Fits
    <2> QED
      BY <1>5, <2>2
  <1>10. /\ s[L] \in Seq(Words) /\ Len(s[0]) = 0
         /\ \A i \in 1 .. L : \A m \in 0 .. Q(i) : B(i) + 1 + m \in 1 .. Len(s[L]) /\ s[L][B(i) + 1 + m] = Quad(pk, i, m)
    <2>1. Fits(L)
      <3> HIDE DEF B, Fits
      <3> QED
        BY <1>1, <1>8
    <2>2. Len(s[0]) = 0
      BY <1>2
    <2> QED
      BY <2>1, <2>2
  <1>11. \A i : Before(pk, i) = B(i)
    BY DEF Before, s
  <1>12. Before(pk, 1) = 0
    <2>1. 1 - 1 = 0
      OBVIOUS
    <2> QED
      BY <1>10, <1>11, <2>1
  <1>13. ASSUME NEW i \in 1 .. L - 1 PROVE Before(pk, i + 1) = Before(pk, i) + Q(i) + 1
    <2>1. (i + 1) - 1 = i /\ i \in 1 .. L
      BY <1>1
    <2>2. B(i + 1) = Len(s[i])
      BY <2>1
    <2> HIDE DEF B
    <2> QED
      BY <1>9, <1>11, <2>1, <2>2
  <1>14. L \in 1 .. L
    BY <1>1
  <1> HIDE DEF B
  <1>15. Len(QuadStream(pk)) = Before(pk, L) + Q(L) + 1
    BY <1>2, <1>9, <1>11, <1>14
  <1>16. \A i \in 1 .. L : Before(pk, i) \in Nat
    BY <1>9, <1>11
  <1>17. \A i \in 1 .. L : \A m \in 0 .. Q(i) : Before(pk, i) + 1 + m \in 1 .. Len(QuadStream(pk))
                                                /\ QuadStream(pk)[Before(pk, i) + 1 + m] = Quad(pk, i, m)
    BY <1>2, <1>10, <1>11
  <1> QED
    BY <1>2, <1>10, <1>12, <1>13, <1>15, <1>16, <1>17 DEF L, Q

(***************************************************************************)
(* The unpacker k quadwords into a packet that began when the Q was q.     *)
(***************************************************************************)
Waits(g) == Whole(g) /\ g.nloop = 0 /\ g.packed_q \in Nat
Last(pk, i) == i = Len(pk)
InPacket(pk, q, i, m, r) ==
    LET b == PacketRun(pk, q)[i - 1]
    IN  /\ Inside(pk[i], Last(pk, i), b.q, ItemsAt(pk[i], m), r.g)
        /\ r.out = MeansRun(pk[i], b.q, b.out)[ItemsAt(pk[i], m)]
StreamAt(pk, q, k, r) ==
    \/ k = 0 /\ r.out = << >> /\ Waits(r.g) /\ r.g.packed_q = q
    \/ \E i \in 1 .. Len(pk) : \E m \in 0 .. QuadCount(pk[i]) :
          k = Before(pk, i) + 1 + m /\ InPacket(pk, q, i, m, r)

LEMMA BeforeIs ==
    ASSUME NEW pk \in Packet, NEW q \in Nat, NEW i \in 1 .. Len(pk)
    PROVE  /\ Primitive(pk[i]) /\ Len(pk) \in Nat
           /\ PacketRun(pk, q)[i - 1].q \in Nat /\ PacketRun(pk, q)[i - 1].out \in Seq(Write)
           /\ PacketRun(pk, q)[i].q = QHeld(pk[i], PacketRun(pk, q)[i - 1].q, Items(pk[i]))
           /\ PacketRun(pk, q)[i].out = Means(pk[i], PacketRun(pk, q)[i - 1].q, PacketRun(pk, q)[i - 1].out)
           /\ PacketRun(pk, q)[0].q = q /\ PacketRun(pk, q)[0].out = << >>
  <1>1. IsPacket(pk)
    BY PacketIs
  <1>2. Primitive(pk[i]) /\ Len(pk) \in Nat
    BY <1>1 DEF IsPacket
  <1>3. i - 1 \in 0 .. Len(pk)
    BY <1>2
  <1>4. PacketRun(pk, q)[i - 1].q \in Nat /\ PacketRun(pk, q)[i - 1].out \in Seq(Write)
    BY <1>1, <1>3, PacketAre
  <1> DEFINE a == PacketRun(pk, q)[i - 1]
             b == PacketRun(pk, q)[i]
             z == PacketRun(pk, q)[0]
  <1>5. b = NextMeant(pk, i, a) /\ z = [q |-> q, out |-> << >>]
    BY <1>2, PacketTurns
  <1> HIDE DEF a, b, z
  <1>6. b.q = QHeld(pk[i], a.q, Items(pk[i])) /\ b.out = Means(pk[i], a.q, a.out) /\ z.q = q /\ z.out = << >>
    BY <1>5 DEF NextMeant
  <1> QED
    BY <1>2, <1>4, <1>6 DEF a, b, z

LEMMA TagAt ==
    ASSUME NEW pk \in Packet, NEW q \in Nat, NEW i \in 1 .. Len(pk), NEW r, Waits(r.g),
           r.g.packed_q = PacketRun(pk, q)[i - 1].q, r.out = PacketRun(pk, q)[i - 1].out
    PROVE  InPacket(pk, q, i, 0, Fed(r, Quad(pk, i, 0)))
  <1> DEFINE b == PacketRun(pk, q)[i - 1]
             p == pk[i]
             w == Quad(pk, i, 0)
             e == Last(pk, i)
             t == Process(r.g, w)
  <1>1. Primitive(p) /\ b.q \in Nat /\ b.out \in Seq(Write)
    BY BeforeIs
  <1>2. w.tag /\ w.p = p /\ w.eop = e /\ e \in BOOLEAN
    BY DEF Quad, Last
  <1>3. r.g.packed_q = b.q /\ r.out = b.out
    OBVIOUS
  <1> HIDE DEF b, p, w, e
  <1>4. t.out = OfTag(p) /\ Inside(p, e, b.q, 0, t.g)
    BY <1>1, <1>2, <1>3, TagStep DEF Waits
  <1>5. MeansRun(p, b.q, b.out)[0] = b.out \o OfTag(p)
    BY <1>1, MeansAre
  <1>6. ItemsAt(p, 0) = 0
    BY <1>1, QuadsAre
  <1>7. Fed(r, w).g = t.g /\ Fed(r, w).out = r.out \o t.out
    BY DEF Fed
  <1> HIDE DEF t
  <1>8. /\ Inside(p, e, b.q, ItemsAt(p, 0), Fed(r, w).g)
        /\ Fed(r, w).out = MeansRun(p, b.q, b.out)[ItemsAt(p, 0)]
    BY <1>3, <1>4, <1>5, <1>6, <1>7
  <1> QED
    BY <1>8 DEF InPacket, b, p, w, e

LEMMA DataAt ==
    ASSUME NEW pk \in Packet, NEW q \in Nat, NEW i \in 1 .. Len(pk), NEW m \in 0 .. QuadCount(pk[i]) - 1,
           NEW r, InPacket(pk, q, i, m, r), NEW w
    PROVE  InPacket(pk, q, i, m + 1, Fed(r, w))
  <1> DEFINE b == PacketRun(pk, q)[i - 1]
             p == pk[i]
             e == Last(pk, i)
             t == Process(r.g, w)
             M == MeansRun(p, b.q, b.out)
  <1>1. Primitive(p) /\ b.q \in Nat /\ b.out \in Seq(Write)
    BY BeforeIs
  <1>2. Inside(p, e, b.q, ItemsAt(p, m), r.g) /\ r.out = M[ItemsAt(p, m)]
    BY DEF InPacket
  <1>3. m \in 0 .. QuadCount(p) - 1
    OBVIOUS
  <1> HIDE DEF b, p, e
  <1>4. Inside(p, e, b.q, ItemsAt(p, m + 1), t.g) /\ M[ItemsAt(p, m + 1)] = M[ItemsAt(p, m)] \o t.out
    <2> DEFINE c == b.q
               o == b.out
               g == r.g
    <2>1. Primitive(p) /\ c \in Nat /\ o \in Seq(Write) /\ Inside(p, e, c, ItemsAt(p, m), g)
      BY <1>1, <1>2
    <2> HIDE DEF c, o, g
    <2>2. /\ Inside(p, e, c, ItemsAt(p, m + 1), Process(g, w).g)
          /\ Joined(MeansRun(p, c, o)[ItemsAt(p, m + 1)], MeansRun(p, c, o)[ItemsAt(p, m)], Process(g, w).out)
      <3> HIDE DEF t, M
      <3>1. m \in 0 .. QuadCount(p) - 1
        BY <1>3
      <3> DEFINE j == ItemsAt(p, m)
                 k == ItemsAt(p, m + 1)
      <3>2. Inside(p, e, c, ItemsAt(p, m), g)
        BY <2>1
      <3>3. Inside(p, e, c, k, Process(g, w).g)
        BY <2>1, <3>1, <3>2, QuadStep
      <3>4. Joined(MeansRun(p, c, o)[k], MeansRun(p, c, o)[j], Process(g, w).out)
        BY <2>1, <3>1, <3>2, QuadStep
      <3> QED
        BY <3>3, <3>4
    <2> QED
      BY <2>2 DEF c, o, g, Joined
  <1>5. Fed(r, w).g = t.g /\ Fed(r, w).out = r.out \o t.out
    BY DEF Fed
  <1> HIDE DEF t, M
  <1>6. Inside(p, e, b.q, ItemsAt(p, m + 1), Fed(r, w).g) /\ Fed(r, w).out = M[ItemsAt(p, m + 1)]
    BY <1>2, <1>4, <1>5
  <1> QED
    BY <1>6 DEF InPacket, b, p, e, M

\* Behind the last quadword of a primitive.
LEMMA PrimitiveEnds ==
    ASSUME NEW pk \in Packet, NEW q \in Nat, NEW i \in 1 .. Len(pk), NEW r, InPacket(pk, q, i, QuadCount(pk[i]), r)
    PROVE  /\ Waits(r.g) /\ r.g.eop = Last(pk, i)
           /\ r.g.packed_q = PacketRun(pk, q)[i].q /\ r.out = PacketRun(pk, q)[i].out
  <1> DEFINE b == PacketRun(pk, q)[i - 1]
             p == pk[i]
             e == Last(pk, i)
             N == Items(p)
  <1>1. Primitive(p) /\ b.q \in Nat /\ b.out \in Seq(Write)
    BY BeforeIs
  <1>2. PacketRun(pk, q)[i].q = QHeld(p, b.q, N) /\ PacketRun(pk, q)[i].out = Means(p, b.q, b.out)
    BY BeforeIs
  <1>3. /\ Inside(p, e, b.q, ItemsAt(p, QuadCount(p)), r.g)
        /\ r.out = MeansRun(p, b.q, b.out)[ItemsAt(p, QuadCount(p))]
    BY DEF InPacket
  <1> HIDE DEF b, p, e, N
  <1>4. ItemsAt(p, QuadCount(p)) = N
    BY <1>1, QuadsAre DEF N
  <1>5. Means(p, b.q, b.out) = MeansRun(p, b.q, b.out)[N]
    BY <1>1, MeansAre DEF N
  <1>6. Inside(p, e, b.q, N, r.g)
    BY <1>3, <1>4
  <1>7. /\ Whole(r.g) /\ r.g.eop = e /\ r.g.packed_q \in Nat /\ r.g.packed_q = QHeld(p, b.q, N)
        /\ r.g.nloop = 0
    BY <1>1, <1>6, InsideIs DEF N
  <1> QED
    BY <1>2, <1>3, <1>4, <1>5, <1>7 DEF e, Waits

LEMMA StreamStep ==
    ASSUME NEW pk \in Packet, NEW q \in Nat, NEW k \in 0 .. Len(QuadStream(pk)) - 1, NEW r, StreamAt(pk, q, k, r)
    PROVE  StreamAt(pk, q, k + 1, Fed(r, QuadStream(pk)[k + 1]))
  <1> DEFINE s == QuadStream(pk)
             L == Len(pk)
             Q(i) == QuadCount(pk[i])
  <1>1. L \in Nat \ {0} /\ \A i \in 1 .. L : Q(i) \in Nat
    BY PacketIs, QuadsAre DEF IsPacket
  <1>2. /\ Before(pk, 1) = 0
        /\ \A i \in 1 .. L : Before(pk, i) \in Nat
        /\ \A i \in 1 .. L - 1 : Before(pk, i + 1) = Before(pk, i) + Q(i) + 1
        /\ Len(s) = Before(pk, L) + Q(L) + 1
        /\ \A i \in 1 .. L : \A m \in 0 .. Q(i) : s[Before(pk, i) + 1 + m] = Quad(pk, i, m)
    BY WordsAre
  <1>3. ASSUME NEW i \in 1 .. L, k = Before(pk, i), Waits(r.g),
               r.g.packed_q = PacketRun(pk, q)[i - 1].q, r.out = PacketRun(pk, q)[i - 1].out
        PROVE  StreamAt(pk, q, k + 1, Fed(r, s[k + 1]))
    <2>1. 0 \in 0 .. Q(i) /\ k + 1 = Before(pk, i) + 1 + 0
      BY <1>1, <1>2, <1>3
    <2>2. s[k + 1] = Quad(pk, i, 0)
      BY <1>2, <2>1
    <2>3. InPacket(pk, q, i, 0, Fed(r, s[k + 1]))
      BY <1>3, <2>2, TagAt
    <2> QED
      BY <2>1, <2>3 DEF StreamAt
  <1>4. CASE k = 0 /\ r.out = << >> /\ Waits(r.g) /\ r.g.packed_q = q
    <2>1. 1 \in 1 .. L /\ 1 - 1 = 0
      BY <1>1
    <2>2. PacketRun(pk, q)[1 - 1].q = q /\ PacketRun(pk, q)[1 - 1].out = << >>
      BY <2>1, BeforeIs
    <2> QED
      BY <1>2, <1>3, <1>4, <2>1, <2>2
  <1>5. ASSUME NEW i \in 1 .. L, NEW m \in 0 .. Q(i), k = Before(pk, i) + 1 + m, InPacket(pk, q, i, m, r)
        PROVE  StreamAt(pk, q, k + 1, Fed(r, s[k + 1]))
    <2>0. Before(pk, i) \in Nat /\ Q(i) \in Nat /\ i \in Nat
      BY <1>1, <1>2
    <2>1. CASE m # Q(i)
      <3>1. m \in 0 .. Q(i) - 1 /\ m + 1 \in 0 .. Q(i)
        BY <2>0, <2>1
      <3>2. k + 1 = Before(pk, i) + 1 + (m + 1)
        BY <1>5, <2>0
      <3>3. InPacket(pk, q, i, m + 1, Fed(r, s[k + 1]))
        BY <1>5, <3>1, DataAt
      <3> QED
        BY <3>1, <3>2, <3>3 DEF StreamAt
    <2>2. CASE m = Q(i)
      <3>1. i # L
        BY <1>2, <1>5, <2>0, <2>2
      <3> DEFINE j == i + 1
      <3>2. j \in 1 .. L /\ i \in 1 .. L - 1 /\ j - 1 = i
        BY <1>1, <3>1
      <3>3. k = Before(pk, j)
        BY <1>2, <1>5, <2>0, <2>2, <3>2
      <3>4. Waits(r.g) /\ r.g.packed_q = PacketRun(pk, q)[i].q /\ r.out = PacketRun(pk, q)[i].out
        BY <1>5, <2>2, PrimitiveEnds
      <3>5. r.g.packed_q = PacketRun(pk, q)[j - 1].q /\ r.out = PacketRun(pk, q)[j - 1].out
        BY <3>2, <3>4
      <3> HIDE DEF j
      <3> QED
        BY <1>3, <3>2, <3>3, <3>4, <3>5
    <2> QED
      BY <2>1, <2>2
  <1> QED
    BY <1>4, <1>5 DEF StreamAt

LEMMA StreamEnds ==
    ASSUME NEW pk \in Packet, NEW q \in Nat, NEW k, NEW r, StreamAt(pk, q, k, r)
    PROVE  /\ Len(QuadStream(pk)) \in Nat \ {0}
           /\ k = Len(QuadStream(pk)) => Waits(r.g) /\ EndOfPacket(r.g) /\ r.out = PacketMeans(pk, q)
           /\ k \in 1 .. Len(QuadStream(pk)) - 1 => ~EndOfPacket(r.g)
  <1> DEFINE s == QuadStream(pk)
             L == Len(pk)
             Q(i) == QuadCount(pk[i])
  <1>1. L \in Nat \ {0} /\ (\A i \in 1 .. L : Q(i) \in Nat) /\ L \in 1 .. L
    BY PacketIs, QuadsAre DEF IsPacket
  <1>2. /\ \A i \in 1 .. L : Before(pk, i) \in Nat
        /\ \A i \in 1 .. L - 1 : Before(pk, i + 1) = Before(pk, i) + Q(i) + 1
        /\ Len(s) = Before(pk, L) + Q(L) + 1
        /\ \A i \in 1 .. L : \A m \in 0 .. Q(i) : Before(pk, i) + 1 + m \in 1 .. Len(s)
    BY WordsAre
  <1>3. Len(s) \in Nat \ {0}
    BY <1>1, <1>2
  <1>4. ASSUME NEW i \in 1 .. L, NEW m \in 0 .. Q(i), k = Before(pk, i) + 1 + m, InPacket(pk, q, i, m, r)
        PROVE  /\ k = Len(s) => Waits(r.g) /\ EndOfPacket(r.g) /\ r.out = PacketMeans(pk, q)
               /\ k \in 1 .. Len(s) - 1 => ~EndOfPacket(r.g)
    <2>0. Before(pk, i) \in Nat /\ Q(i) \in Nat /\ i \in Nat /\ Before(pk, L) \in Nat /\ Q(L) \in Nat
      BY <1>1, <1>2
    <2>1. CASE m # Q(i)
      <3>1. m \in 0 .. Q(i) - 1
        BY <2>0, <2>1
      <3>2. k # Len(s)
        <4>1. Q(i) \in 0 .. Q(i)
          BY <2>0
        <4>2. Before(pk, i) + 1 + Q(i) \in 1 .. Len(s)
          BY <1>2, <4>1
        <4> QED
          BY <1>3, <1>4, <2>0, <3>1, <4>2
      <3>3. ~EndOfPacket(r.g)
        <4> DEFINE p == pk[i]
                   c == PacketRun(pk, q)[i - 1].q
                   j == ItemsAt(p, m)
        <4>1. Primitive(p) /\ c \in Nat
          BY BeforeIs
        <4>2. Inside(p, Last(pk, i), c, j, r.g)
          BY <1>4 DEF InPacket
        <4>3. j \in 0 .. Items(p) - 1
          BY <3>1, <4>1, QuadsAre
        <4>4. Items(p) \in Nat
          BY <4>1, ItemsAre
        <4> HIDE DEF p, c, j
        <4>5. r.g.nloop # 0
          BY <4>1, <4>2, <4>3, <4>4, InsideIs
        <4> QED
          BY <4>5 DEF EndOfPacket
      <3> QED
        BY <3>2, <3>3
    <2>2. CASE m = Q(i)
      <3>1. /\ Waits(r.g) /\ r.g.eop = Last(pk, i) /\ r.out = PacketRun(pk, q)[i].out
        BY <1>4, <2>2, PrimitiveEnds
      <3>2. CASE i = L
        <4>1. r.g.eop
          BY <3>1, <3>2 DEF Last
        <4>2. k = Len(s)
          BY <1>2, <1>4, <2>0, <2>2, <3>2
        <4>3. EndOfPacket(r.g)
          BY <3>1, <4>1 DEF EndOfPacket, Waits
        <4>4. r.out = PacketMeans(pk, q)
          BY <1>1, <3>1, <3>2, PacketTurns
        <4> QED
          BY <1>3, <3>1, <4>2, <4>3, <4>4
      <3>3. CASE i # L
        <4>1. ~r.g.eop
          BY <3>1, <3>3 DEF Last
        <4>2. i + 1 \in 1 .. L /\ i \in 1 .. L - 1
          BY <1>1, <3>3
        <4>3. 0 \in 0 .. Q(i + 1)
          BY <1>1, <4>2
        <4>4. Before(pk, i + 1) + 1 + 0 \in 1 .. Len(s) /\ Before(pk, i + 1) = Before(pk, i) + Q(i) + 1
          BY <1>2, <4>2, <4>3
        <4>5. k # Len(s)
          BY <1>3, <1>4, <2>0, <2>2, <4>4
        <4>6. ~EndOfPacket(r.g)
          BY <4>1 DEF EndOfPacket
        <4> QED
          BY <4>5, <4>6
      <3> QED
        BY <3>2, <3>3
    <2> QED
      BY <2>1, <2>2
  <1>5. CASE k = 0
    BY <1>3, <1>5
  <1> QED
    BY <1>3, <1>4, <1>5 DEF StreamAt

(***************************************************************************)
(* A transfer, whole or in part.                                           *)
(***************************************************************************)
FeedRun(r0, ws, from, to) ==
    LET r[k \in from .. to] == IF k = from THEN r0 ELSE Fed(r[k - 1], ws[k])
    IN  r

LEMMA FeedTurns ==
    ASSUME NEW r0, NEW ws, NEW from \in Nat, NEW to \in Nat, from <= to
    PROVE  /\ FeedRun(r0, ws, from, to)[from] = r0
           /\ \A k \in from .. to - 1 :
                 FeedRun(r0, ws, from, to)[k + 1] = Fed(FeedRun(r0, ws, from, to)[k], ws[k + 1])
           /\ FeedGif(r0, ws, from, to) = FeedRun(r0, ws, from, to)[to]
  <1> DEFINE G(n, f) == f = [k \in from .. n |-> IF k = from THEN r0 ELSE Fed(f[k - 1], ws[k])]
             S == { n \in Nat : \E f : G(from + n, f) }
  <1>1. 0 \in S
    <2>1. G(from, [k \in from .. from |-> r0])
      OBVIOUS
    <2>2. from + 0 = from
      OBVIOUS
    <2> HIDE DEF G
    <2> QED
      BY <2>1, <2>2
  <1>2. ASSUME NEW n \in S PROVE n + 1 \in S
    <2> DEFINE t == from + n
    <2>1. PICK g : G(t, g)
      OBVIOUS
    <2>2. t \in Nat /\ from + (n + 1) = t + 1 /\ from <= t
      OBVIOUS
    <2> HIDE DEF t
    <2> DEFINE h == [k \in from .. t + 1 |-> IF k <= t THEN g[k] ELSE Fed(g[t], ws[t + 1])]
    <2>3. ASSUME NEW k \in from .. t + 1 PROVE h[k] = IF k = from THEN r0 ELSE Fed(h[k - 1], ws[k])
      <3>1. CASE k = t + 1
        <4>1. h[k] = Fed(g[t], ws[t + 1]) /\ h[t] = g[t] /\ k - 1 = t /\ k # from
          BY <2>2, <3>1
        <4> HIDE DEF h
        <4> QED
          BY <3>1, <4>1
      <3>2. CASE k # t + 1
        <4>1. k \in from .. t /\ (k # from => k - 1 \in from .. t)
          BY <2>2, <3>2
        <4>2. h[k] = g[k] /\ (k # from => h[k - 1] = g[k - 1])
          BY <2>2, <4>1
        <4>3. g[k] = IF k = from THEN r0 ELSE Fed(g[k - 1], ws[k])
          BY <2>1, <4>1
        <4> HIDE DEF h
        <4> QED
          BY <4>2, <4>3
      <3> QED
        BY <3>1, <3>2
    <2>4. G(t + 1, h)
      <3> HIDE DEF h
      <3>1. h = [k \in from .. t + 1 |-> h[k]]
        BY DEF h
      <3> QED
        BY <2>3, <3>1
    <2> HIDE DEF h, G
    <2>5. n + 1 \in Nat /\ \E f : G(from + (n + 1), f)
      BY <2>2, <2>4
    <2> QED
      BY <2>5
  <1>3. S = Nat
    <2> HIDE DEF S
    <2> QED
      BY <1>1, <1>2, Induction, S \subseteq Nat DEF S
  <1>4. \E f : G(to, f)
    <2>1. to - from \in Nat /\ from + (to - from) = to
      OBVIOUS
    <2> HIDE DEF G
    <2>2. \E f : G(from + (to - from), f)
      BY <1>3, <2>1
    <2> QED
      BY <2>1, <2>2
  <1> DEFINE r == FeedRun(r0, ws, from, to)
  <1>5. G(to, r)
    BY <1>4 DEF FeedRun
  <1>6. FeedGif(r0, ws, from, to) = r[to]
    BY DEF FeedGif, FeedRun
  <1> HIDE DEF r
  <1>7. r[from] = r0
    BY <1>5
  <1>8. ASSUME NEW k \in from .. to - 1 PROVE r[k + 1] = Fed(r[k], ws[k + 1])
    <2> DEFINE j == k + 1
    <2>1. j \in from .. to /\ j # from /\ j - 1 = k
      OBVIOUS
    <2> HIDE DEF j
    <2>2. r[j] = Fed(r[j - 1], ws[j])
      BY <1>5, <2>1
    <2>3. r[j] = Fed(r[k], ws[j])
      BY <2>1, <2>2
    <2> QED
      BY <2>3 DEF j
  <1> QED
    BY <1>6, <1>7, <1>8 DEF r

LEMMA FeedStream ==
    ASSUME NEW pk \in Packet, NEW q \in Nat, NEW from \in Nat, NEW to \in from .. Len(QuadStream(pk)), NEW r0,
           StreamAt(pk, q, from, r0)
    PROVE  StreamAt(pk, q, to, FeedGif(r0, QuadStream(pk), from, to))
  <1> DEFINE s == QuadStream(pk)
             r == FeedRun(r0, s, from, to)
             S == { n \in Nat : from + n =< to => StreamAt(pk, q, from + n, r[from + n]) }
  <1>1. Len(s) \in Nat /\ to \in Nat /\ from <= to
    BY StreamEnds
  <1>2. r[from] = r0 /\ (\A k \in from .. to - 1 : r[k + 1] = Fed(r[k], s[k + 1])) /\ FeedGif(r0, s, from, to) = r[to]
    BY <1>1, FeedTurns
  <1> HIDE DEF r
  <1>3. 0 \in S
    <2>1. from + 0 = from
      OBVIOUS
    <2> QED
      BY <1>2, <2>1
  <1>4. ASSUME NEW n \in S PROVE n + 1 \in S
    <2> SUFFICES ASSUME from + (n + 1) =< to PROVE StreamAt(pk, q, from + (n + 1), r[from + (n + 1)])
      OBVIOUS
    <2> DEFINE k == from + n
    <2>1. k \in from .. to - 1 /\ k \in 0 .. Len(s) - 1 /\ from + (n + 1) = k + 1 /\ StreamAt(pk, q, k, r[k])
      BY <1>1
    <2> HIDE DEF k
    <2>2. r[k + 1] = Fed(r[k], s[k + 1])
      BY <1>2, <2>1
    <2>3. StreamAt(pk, q, k + 1, Fed(r[k], s[k + 1]))
      BY <2>1, StreamStep
    <2> QED
      BY <2>1, <2>2, <2>3
  <1>5. S = Nat
    <2> HIDE DEF S
    <2> QED
      BY <1>3, <1>4, Induction, S \subseteq Nat DEF S
  <1>6. to - from \in S /\ from + (to - from) = to
    <2> HIDE DEF S
    <2> QED
      BY <1>1, <1>5
  <1>7. StreamAt(pk, q, to, r[to])
    BY <1>1, <1>6
  <1> QED
    BY <1>2, <1>7

(***************************************************************************)
(* A kick.                                                                 *)
(***************************************************************************)
KickRun(g, mem) ==
    LET r[k \in 0 .. KickScan] ==
            IF k = 0 THEN [g |-> g, out |-> << >>]
            ELSE IF k > 1 /\ EndOfPacket(r[k - 1].g) THEN r[k - 1] ELSE Fed(r[k - 1], mem[k])
    IN  r
KickedOn(k, r, w) == IF k > 1 /\ EndOfPacket(r.g) THEN r ELSE Fed(r, w)

LEMMA KickTurns ==
    ASSUME NEW g, NEW mem
    PROVE  /\ KickRun(g, mem)[0] = [g |-> g, out |-> << >>]
           /\ \A k \in 0 .. KickScan - 1 :
                 KickRun(g, mem)[k + 1] = KickedOn(k + 1, KickRun(g, mem)[k], mem[k + 1])
           /\ LET e == KickRun(g, mem)[KickScan]
              IN  Kick(g, mem) = IF EndOfPacket(e.g) THEN e ELSE [e EXCEPT !.g = ResetPath(@)]
  <1> DEFINE a == [g |-> g, out |-> << >>]
             G(n, f) == f = [k \in 0 .. n |->
                               IF k = 0 THEN [g |-> g, out |-> << >>]
                               ELSE IF k > 1 /\ EndOfPacket(f[k - 1].g) THEN f[k - 1] ELSE Fed(f[k - 1], mem[k])]
             H(n, f) == f = [k \in 0 .. n |-> IF k = 0 THEN a ELSE KickedOn(k, f[k - 1], mem[k])]
             S == { n \in Nat : \E f : H(n, f) }
  <1>0. \A n, f : G(n, f) <=> H(n, f)
    BY DEF KickedOn
  <1> HIDE DEF a
  <1>1. 0 \in S
    <2>1. H(0, [k \in 0 .. 0 |-> a])
      OBVIOUS
    <2> QED
      BY <2>1
  <1>2. ASSUME NEW n \in S PROVE n + 1 \in S
    <2>1. PICK f : H(n, f)
      OBVIOUS
    <2> DEFINE h == [k \in 0 .. n + 1 |-> IF k <= n THEN f[k] ELSE KickedOn(n + 1, f[n], mem[n + 1])]
    <2>2. \A k \in 0 .. n + 1 : h[k] = IF k = 0 THEN a ELSE KickedOn(k, h[k - 1], mem[k])
      BY <2>1
    <2>3. H(n + 1, h)
      <3> HIDE DEF h
      <3>1. h = [k \in 0 .. n + 1 |-> h[k]]
        BY DEF h
      <3> QED
        BY <2>2, <3>1
    <2> HIDE DEF h, H
    <2>4. n + 1 \in Nat /\ \E x : H(n + 1, x)
      BY <2>3
    <2> QED
      BY <2>4
  <1>3. S = Nat
    <2> HIDE DEF S
    <2> QED
      BY <1>1, <1>2, Induction, S \subseteq Nat DEF S
  <1>4. KickScan \in Nat /\ \E f : G(KickScan, f)
    <2> HIDE DEF G, H
    <2> QED
      BY <1>0, <1>3, GifAssumption
  <1> DEFINE r == KickRun(g, mem)
  <1>5. G(KickScan, r)
    BY <1>4 DEF KickRun
  <1>6. H(KickScan, r)
    <2> HIDE DEF G, H, r
    <2> QED
      BY <1>0, <1>5
  <1> DEFINE e == r[KickScan]
  <1>7. Kick(g, mem) = IF EndOfPacket(e.g) THEN e ELSE [e EXCEPT !.g = ResetPath(@)]
    BY DEF Kick, KickRun
  <1> HIDE DEF r
  <1>8. r[0] = a
    BY <1>4, <1>6
  <1>9. ASSUME NEW k \in 0 .. KickScan - 1 PROVE r[k + 1] = KickedOn(k + 1, r[k], mem[k + 1])
    <2> DEFINE j == k + 1
    <2>1. j \in 0 .. KickScan /\ j # 0 /\ j - 1 = k
      BY <1>4
    <2> HIDE DEF j
    <2>2. r[j] = KickedOn(j, r[j - 1], mem[j])
      BY <1>6, <2>1
    <2>3. r[j] = KickedOn(j, r[k], mem[j])
      BY <2>1, <2>2
    <2> QED
      BY <2>3 DEF j
  <1> QED
    BY <1>7, <1>8, <1>9 DEF r, a

LEMMA KickPacket ==
    ASSUME NEW pk \in Packet, NEW old \in Packet, NEW g, Waits(g), Len(QuadStream(pk)) <= KickScan
    PROVE  LET r == Kick(g, QuadStream(pk) \o QuadStream(old))
           IN  Waits(r.g) /\ r.out = PacketMeans(pk, g.packed_q)
  <1> DEFINE s == QuadStream(pk)
             mem == s \o QuadStream(old)
             r == KickRun(g, mem)
             q == g.packed_q
             N == Len(s)
             S == { k \in Nat : k =< N => StreamAt(pk, q, k, r[k]) }
             T == { n \in Nat : N + n =< KickScan => r[N + n] = r[N] }
  <1>1. r[0] = [g |-> g, out |-> << >>] /\ \A k \in 0 .. KickScan - 1 : r[k + 1] = KickedOn(k + 1, r[k], mem[k + 1])
    <2> HIDE DEF mem
    <2> QED
      BY KickTurns
  <1>2. q \in Nat /\ KickScan \in Nat
    BY GifAssumption DEF Waits
  <1>3. s \in Seq(Words) /\ QuadStream(old) \in Seq(Words)
    BY WordsAre
  <1>4. \A k \in 1 .. Len(s) : mem[k] = s[k]
    <2> DEFINE t == QuadStream(old)
    <2>1. s \in Seq(Words) /\ t \in Seq(Words)
      BY <1>3
    <2> HIDE DEF s, t
    <2>2. \A k \in 1 .. Len(s) + Len(t) : (s \o t)[k] = IF k <= Len(s) THEN s[k] ELSE t[k - Len(s)]
      BY <2>1, ConcatProperties
    <2>3. Len(s) \in Nat /\ Len(t) \in Nat
      BY <2>1
    <2> QED
      BY <2>2, <2>3 DEF t
  <1> HIDE DEF r, mem
  <1>5. StreamAt(pk, q, 0, r[0])
    <2>1. r[0].g = g /\ r[0].out = << >>
      BY <1>1
    <2> QED
      BY <2>1 DEF StreamAt
  <1>6. N \in Nat \ {0} /\ N <= KickScan
    BY <1>2, <1>5, StreamEnds
  <1>7. 0 \in S
    BY <1>5
  <1>8. ASSUME NEW k \in S PROVE k + 1 \in S
    <2> SUFFICES ASSUME k + 1 =< N PROVE StreamAt(pk, q, k + 1, r[k + 1])
      OBVIOUS
    <2>1. k \in 0 .. N - 1 /\ k \in 0 .. KickScan - 1 /\ StreamAt(pk, q, k, r[k]) /\ k + 1 \in 1 .. N /\ k \in Nat
      BY <1>2, <1>6
    <2>2. ~(k + 1 > 1 /\ EndOfPacket(r[k].g))
      <3>1. CASE k = 0
        BY <3>1
      <3>2. CASE k # 0
        <4>1. k \in 1 .. N - 1
          BY <2>1, <3>2
        <4>2. ~EndOfPacket(r[k].g)
          BY <1>2, <2>1, <4>1, StreamEnds
        <4> QED
          BY <4>2
      <3> QED
        BY <3>1, <3>2
    <2>3. r[k + 1] = KickedOn(k + 1, r[k], mem[k + 1])
      BY <1>1, <2>1
    <2>4. r[k + 1] = Fed(r[k], s[k + 1])
      BY <1>4, <2>1, <2>2, <2>3 DEF KickedOn
    <2>5. StreamAt(pk, q, k + 1, Fed(r[k], s[k + 1]))
      BY <1>2, <2>1, StreamStep
    <2> QED
      BY <2>4, <2>5
  <1>9. S = Nat
    <2> HIDE DEF S
    <2> QED
      BY <1>7, <1>8, Induction, S \subseteq Nat DEF S
  <1>10. StreamAt(pk, q, N, r[N])
    BY <1>6, <1>9
  <1>11. Waits(r[N].g) /\ EndOfPacket(r[N].g) /\ r[N].out = PacketMeans(pk, q)
    BY <1>2, <1>10, StreamEnds
  <1> HIDE DEF N, s
  <1>12. 0 \in T
    BY <1>6
  <1>13. ASSUME NEW n \in T PROVE n + 1 \in T
    <2> SUFFICES ASSUME N + (n + 1) =< KickScan PROVE r[N + (n + 1)] = r[N]
      OBVIOUS
    <2> DEFINE k == N + n
    <2>1. k \in 0 .. KickScan - 1 /\ r[k] = r[N] /\ N + (n + 1) = k + 1 /\ k + 1 > 1
      BY <1>2, <1>6
    <2> HIDE DEF k
    <2>2. r[k + 1] = KickedOn(k + 1, r[k], mem[k + 1])
      BY <1>1, <2>1
    <2>3. r[k + 1] = r[N]
      BY <1>11, <2>1, <2>2 DEF KickedOn
    <2> QED
      BY <2>1, <2>3
  <1>14. T = Nat
    <2> HIDE DEF T
    <2> QED
      BY <1>12, <1>13, Induction, T \subseteq Nat DEF T
  <1>15. r[KickScan] = r[N]
    <2>1. KickScan - N \in T /\ N + (KickScan - N) = KickScan
      <3> HIDE DEF T
      <3> QED
        BY <1>2, <1>6, <1>14
    <2> QED
      BY <1>2, <1>6, <2>1
  <1>16. Kick(g, mem) = r[N]
    <2> DEFINE e == KickRun(g, mem)[KickScan]
    <2>1. e = r[N]
      BY <1>15 DEF r
    <2>2. Kick(g, mem) = IF EndOfPacket(e.g) THEN e ELSE [e EXCEPT !.g = ResetPath(@)]
      BY KickTurns
    <2> HIDE DEF e
    <2> QED
      BY <1>11, <2>1, <2>2
  <1> QED
    BY <1>11, <1>16 DEF mem, s

\* Quadwords that never end a packet.
LEMMA KickUnended ==
    ASSUME NEW g, Waits(g)
    PROVE  Waits(Kick(g, Unended).g)
  <1> DEFINE r == KickRun(g, Unended)
             Kept(h) == /\ Whole(h) /\ h.packed_q \in Nat
                        /\ h.nloop = 0 \/ (h.nloop = 1 /\ h.flg = "image")
             S == { k \in Nat : k =< KickScan => Kept(r[k].g) }
  <1>1. r[0] = [g |-> g, out |-> << >>] /\ \A k \in 0 .. KickScan - 1 : r[k + 1] = KickedOn(k + 1, r[k], Unended[k + 1])
    BY KickTurns
  <1>2. KickScan \in Nat \ {0}
    BY GifAssumption
  <1> HIDE DEF r
  <1>3. ASSUME NEW w, w.tag => w.p = Endless, NEW h, Kept(h) PROVE Kept(Process(h, w).g)
    <2>1. CASE h.nloop = 0
      <3> DEFINE p == TagOf(w)
                 f == w.eop \/ ~w.tag
                 x == [h EXCEPT !.nloop = p.nloop, !.eop = f, !.flg = p.flg, !.nreg = p.nreg,
                                !.regs = p.regs, !.reg_index = 0]
      <3>1. Process(h, w) = [g |-> x, out |-> IF p.pre THEN << [reg |-> "prim", q |-> 0] >> ELSE << >>]
        BY <2>1 DEF Process
      <3>2. p.nloop = 0 \/ (p.nloop = 1 /\ p.flg = "image")
        BY <1>3 DEF TagOf, Endless
      <3>3. Process(h, w).g = x
        BY <3>1
      <3> HIDE DEF p, f
      <3>x. x = [h EXCEPT !.nloop = p.nloop, !.eop = f, !.flg = p.flg, !.nreg = p.nreg,
                          !.regs = p.regs, !.reg_index = 0]
        OBVIOUS
      <3> HIDE DEF x
      <3>4. x = Stands(p, f, p.nloop, 0, h.packed_q)
        BY <1>3, <3>x DEF Whole, Stands
      <3>5. Whole(x) /\ x.nloop = p.nloop /\ x.flg = p.flg /\ x.packed_q = h.packed_q
        BY <3>4, StandsIs
      <3> QED
        BY <1>3, <3>2, <3>3, <3>5
    <2>2. CASE h.nloop # 0
      <3>1. h.nloop = 1 /\ h.flg = "image"
        BY <1>3, <2>2
      <3>2. Process(h, w).g = [h EXCEPT !.nloop = @ - 1]
        BY <3>1 DEF Process
      <3>3. 1 - 1 = 0
        OBVIOUS
      <3>4. Process(h, w).g = [h EXCEPT !.nloop = 0]
        BY <3>1, <3>2, <3>3
      <3> DEFINE x == [h EXCEPT !.nloop = 0]
      <3>5. Whole(x) /\ x.nloop = 0 /\ x.packed_q = h.packed_q
        BY <1>3 DEF Whole
      <3> QED
        BY <1>3, <3>4, <3>5
    <2> QED
      BY <2>1, <2>2
  <1>4. 0 \in S
    <2>1. r[0].g = g
      BY <1>1
    <2> QED
      BY <2>1 DEF Waits
  <1>5. ASSUME NEW k \in S PROVE k + 1 \in S
    <2> SUFFICES ASSUME k + 1 =< KickScan PROVE Kept(r[k + 1].g)
      OBVIOUS
    <2> DEFINE w == Unended[k + 1]
    <2>1. k \in 0 .. KickScan - 1 /\ Kept(r[k].g) /\ k + 1 \in 1 .. KickScan
      BY <1>2
    <2>2. w.p = Endless
      BY <2>1 DEF Unended
    <2> HIDE DEF w, Kept
    <2>3. Kept(Process(r[k].g, w).g)
      BY <1>3, <2>1, <2>2
    <2>4. r[k + 1] = KickedOn(k + 1, r[k], w)
      BY <1>1, <2>1 DEF w
    <2>5. Fed(r[k], w).g = Process(r[k].g, w).g
      BY DEF Fed
    <2> QED
      BY <2>1, <2>3, <2>4, <2>5 DEF KickedOn
  <1>6. S = Nat
    <2> HIDE DEF S
    <2> QED
      BY <1>4, <1>5, Induction, S \subseteq Nat DEF S
  <1> DEFINE e == r[KickScan]
  <1>7. Kept(e.g)
    BY <1>2, <1>6
  <1>8. Kick(g, Unended) = IF EndOfPacket(e.g) THEN e ELSE [e EXCEPT !.g = ResetPath(@)]
    BY KickTurns DEF r
  <1>9. CASE EndOfPacket(e.g)
    <2>1. Kick(g, Unended) = e
      BY <1>8, <1>9
    <2> QED
      BY <1>7, <1>9, <2>1 DEF Waits, EndOfPacket
  <1>10. CASE ~EndOfPacket(e.g)
    <2> DEFINE x == ResetPath(e.g)
    <2>1. Whole(x) /\ x.nloop = 0 /\ x.packed_q = e.g.packed_q
      <3> DEFINE a == e.g
                 b == [a EXCEPT !.nloop = 0]
                 c == [b EXCEPT !.reg_index = 0]
                 v == TRUE
                 d == [c EXCEPT !.eop = v]
      <3>1. Whole(a)
        BY <1>7
      <3>2. x = d
        BY DEF ResetPath
      <3> HIDE DEF a, x
      <3>3. Whole(b) /\ b.nloop = 0 /\ b.packed_q = a.packed_q
        BY <3>1 DEF Whole
      <3> HIDE DEF b
      <3>4. Whole(c) /\ c.nloop = 0 /\ c.packed_q = a.packed_q
        BY <3>3 DEF Whole
      <3> HIDE DEF c, v
      <3>5. Whole(d) /\ d.nloop = 0 /\ d.packed_q = a.packed_q
        BY <3>4 DEF Whole
      <3> QED
        BY <3>2, <3>5 DEF a
    <2> QED
      BY <1>7, <1>8, <1>10, <2>1 DEF Waits
  <1> QED
    BY <1>9, <1>10

(***************************************************************************)
(* The paths.  Between packets the unpacker waits; with a packet under way *)
(* it stands where the quadwords sent so far leave it.                     *)
(***************************************************************************)
GifHolds ==
    \/ feeding = Unfed /\ Waits(gif) /\ written = expected
    \/ /\ feeding.from # "none" /\ feeding.pk \in Packet
       /\ feeding.at \in 1 .. Len(QuadStream(feeding.pk)) - 1
       /\ \E q \in Nat : /\ StreamAt(feeding.pk, q, feeding.at, [g |-> gif, out |-> written])
                         /\ expected = PacketMeans(feeding.pk, q)

LEMMA GifBegins == GifInit => GifHolds
  <1> SUFFICES ASSUME GifInit PROVE feeding = Unfed /\ Waits(gif) /\ written = expected
    BY DEF GifHolds
  <1>1. gif = [nloop |-> 0, nreg |-> 0, reg_index |-> 0, regs |-> << >>, flg |-> "packed",
               eop |-> FALSE, packed_q |-> 1]
    BY DEF GifInit
  <1>2. Waits(gif)
    BY <1>1 DEF Waits, Whole
  <1> QED
    BY <1>2 DEF GifInit

LEMMA SendKeeps ==
    ASSUME NEW pk \in Packet, NEW q \in Nat, NEW at \in Nat, NEW to \in at + 1 .. Len(QuadStream(pk)), NEW r0,
           StreamAt(pk, q, at, r0), NEW from, from # "none", Send(from, pk, at, to, r0), expected' = PacketMeans(pk, q)
    PROVE  GifHolds'
  <1> DEFINE s == QuadStream(pk)
             r == FeedGif(r0, s, at, to)
             n == [g |-> gif', out |-> written']
  <1>1. /\ gif' = r.g /\ written' = r.out
        /\ feeding' = IF to = Len(s) THEN Unfed ELSE [from |-> from, pk |-> pk, at |-> to]
    BY DEF Send
  <1>2. Len(s) \in Nat \ {0}
    BY StreamEnds
  <1>3. to \in at .. Len(s)
    BY <1>2
  <1>4. StreamAt(pk, q, to, r)
    BY <1>3, FeedStream
  <1> HIDE DEF r, s
  <1>5. n.g = r.g /\ n.out = r.out
    BY <1>1
  <1> HIDE DEF n
  <1>6. StreamAt(pk, q, to, n)
    BY <1>4, <1>5 DEF StreamAt, InPacket
  <1>7. CASE to = Len(s)
    <2>1. Waits(r.g) /\ r.out = PacketMeans(pk, q)
      BY <1>4, <1>7, StreamEnds DEF s
    <2>2. feeding' = Unfed /\ Waits(gif') /\ written' = expected'
      BY <1>1, <1>7, <2>1
    <2>3. Unfed' = Unfed /\ Waits(gif)' = Waits(gif')
      BY DEF Unfed, Waits, Whole
    <2> QED
      BY <2>2, <2>3 DEF GifHolds
  <1>8. CASE to # Len(s)
    <2>1. feeding' = [from |-> from, pk |-> pk, at |-> to]
      BY <1>1, <1>8
    <2>2. feeding'.from = from /\ feeding'.pk = pk /\ feeding'.at = to
      BY <2>1
    <2>3. to \in 1 .. Len(s) - 1
      BY <1>2, <1>3, <1>8
    <2>4. \E c \in Nat : StreamAt(feeding'.pk, c, feeding'.at, n) /\ expected' = PacketMeans(feeding'.pk, c)
      BY <1>6, <2>2
    <2> QED
      BY <2>2, <2>3, <2>4 DEF GifHolds, n, s
  <1> QED
    BY <1>7, <1>8

LEMMA SendOnKeeps == ASSUME NEW from, from # "none", GifHolds, SendOn(from) PROVE GifHolds'
  <1>1. feeding.from = "none"
    BY DEF SendOn
  <1>2. Waits(gif)
    BY <1>1 DEF GifHolds
  <1>3. PICK pk \in Packet : \E to \in 1 .. Len(QuadStream(pk)) : Send(from, pk, 0, to, [g |-> gif, out |-> << >>])
                             /\ expected' = PacketMeans(pk, gif.packed_q)
    BY DEF SendOn
  <1>4. PICK to \in 1 .. Len(QuadStream(pk)) : Send(from, pk, 0, to, [g |-> gif, out |-> << >>])
                             /\ expected' = PacketMeans(pk, gif.packed_q)
    BY <1>3
  <1> DEFINE r == [g |-> gif, out |-> << >>]
             q == gif.packed_q
  <1>5. r.g = gif /\ r.out = << >> /\ q \in Nat
    BY <1>2 DEF Waits
  <1>6. Send(from, pk, 0, to, r) /\ expected' = PacketMeans(pk, q)
    BY <1>4
  <1>8. to \in 0 + 1 .. Len(QuadStream(pk))
    OBVIOUS
  <1> HIDE DEF r
  <1>7. StreamAt(pk, q, 0, r)
    BY <1>2, <1>5 DEF StreamAt
  <1> HIDE DEF q
  <1> QED
    BY <1>5, <1>6, <1>7, <1>8, SendKeeps

LEMMA RestKeeps == ASSUME GifHolds, SendRest PROVE GifHolds'
  <1>1. feeding.from # "none" /\ expected' = expected
    BY DEF SendRest
  <1>2. feeding # Unfed
    BY <1>1 DEF Unfed
  <1> DEFINE pk == feeding.pk
             at == feeding.at
             r == [g |-> gif, out |-> written]
             from == feeding.from
  <1>3. /\ pk \in Packet /\ at \in 1 .. Len(QuadStream(pk)) - 1
        /\ \E q \in Nat : StreamAt(pk, q, at, r) /\ expected = PacketMeans(pk, q)
    BY <1>2 DEF GifHolds
  <1>4. PICK q \in Nat : StreamAt(pk, q, at, r) /\ expected = PacketMeans(pk, q)
    BY <1>3
  <1>5. PICK to \in at + 1 .. Len(QuadStream(pk)) : Send(from, pk, at, to, r)
    BY DEF SendRest
  <1>6. at \in Nat /\ expected' = PacketMeans(pk, q) /\ from # "none"
    BY <1>1, <1>3, <1>4
  <1> HIDE DEF pk, at, r, from
  <1> QED
    BY <1>3, <1>4, <1>5, <1>6, SendKeeps

LEMMA XgkickKeeps == ASSUME GifHolds, Xgkick PROVE GifHolds'
  <1>1. feeding.from = "none" /\ feeding' = feeding
    BY DEF Xgkick
  <1>2. Waits(gif) /\ feeding = Unfed
    BY <1>1 DEF GifHolds
  <1>3. SUFFICES Waits(gif') /\ written' = expected'
    <2>1. Unfed' = Unfed /\ Waits(gif)' = Waits(gif')
      BY DEF Unfed, Waits, Whole
    <2> QED
      BY <1>1, <1>2, <2>1 DEF GifHolds
  <1>4. ASSUME NEW pk \in Packet, NEW old \in Packet, NEW r, r = Kick(gif, QuadStream(pk) \o QuadStream(old)),
               Len(QuadStream(pk)) =< KickScan, gif' = r.g, written' = r.out, expected' = PacketMeans(pk, gif.packed_q)
        PROVE  Waits(gif') /\ written' = expected'
    <2>1. Waits(r.g) /\ r.out = PacketMeans(pk, gif.packed_q)
      BY <1>2, <1>4, KickPacket
    <2> QED
      BY <1>4, <2>1
  <1>5. CASE gif' = Kick(gif, Unended).g /\ written' = << >> /\ expected' = << >>
    BY <1>2, <1>5, KickUnended
  <1> QED
    BY <1>4, <1>5 DEF Xgkick

\* Whatever packets the three paths send, in whatever order and however the
\* DMA channel and the VIF cut theirs, each causes the register writes it means
\* and leaves the unpacker waiting for a tag; a kick with no end does too.
THEOREM PathsKept == GifSpec => []PathsExact
  <1>1. GifInit => GifHolds
    BY GifBegins
  <1>2. GifHolds /\ [GifNext]_gif_vars => GifHolds'
    <2> SUFFICES ASSUME GifHolds, [GifNext]_gif_vars PROVE GifHolds'
      OBVIOUS
    <2>1. CASE SendDma
      BY <2>1, SendOnKeeps DEF SendDma
    <2>2. CASE SendDirect
      BY <2>2, SendOnKeeps DEF SendDirect
    <2>3. CASE SendRest
      BY <2>3, RestKeeps
    <2>4. CASE Xgkick
      BY <2>4, XgkickKeeps
    <2>5. CASE UNCHANGED gif_vars
      BY <2>5 DEF gif_vars, GifHolds
    <2> QED
      BY <2>1, <2>2, <2>3, <2>4, <2>5 DEF GifNext
  <1>3. GifHolds => PathsExact
    <2> SUFFICES ASSUME GifHolds, feeding.from = "none" PROVE written = expected /\ gif.nloop = 0
      BY DEF PathsExact, PacketsExact, BetweenPackets
    <2> QED
      BY DEF GifHolds, Waits
  <1> QED
    BY <1>1, <1>2, <1>3, PTL DEF GifSpec

(***************************************************************************)
(* The VIF.  A list is read code by code; within one, so many data words   *)
(* have been read and so many effects are there.                           *)
(***************************************************************************)
VifMask     == [1 .. 4 -> {"data", "row", "col", "keep"}]
VifSettings == [state : {AtCode}, cl : Nat, wl : Nat, base : Nat, offset : Nat, itops : Nat, dbf : BOOLEAN,
                mask : VifMask]
VifSource   == {<<"row">>, <<"col">>, <<"keep">>} \cup { <<"vector", v>> : v \in Nat }
VifEffect   == [kind : {"write"}, flg : BOOLEAN, addr : Nat, src : VifSource]
               \cup [kind : {"quad"}, words : Seq(Nat)]
               \cup [kind : {"micro"}, addr : Nat, word : Nat]
               \cup [kind : {"mscal", "mscnt"}, top : Nat, itop : Nat]
VifWord     == [code : BOOLEAN, c : VifCode, k : Nat]

LEMMA CodeIs ==
    ASSUME NEW c \in VifCode
    PROVE  /\ c.op \in {"unpack", "direct", "mpg", "stcycl", "base", "offset", "itop", "stmask", "strow", "stcol",
                        "mscal", "mscnt", "nop"}
           /\ c.op = "unpack" => c.num \in Nat /\ c.addr \in Nat /\ c.bytes \in Nat \ {0}
                                 /\ c.flg \in BOOLEAN /\ c.masked \in BOOLEAN
           /\ c.op \in {"direct", "mpg"} => c.num \in Nat /\ c.addr \in Nat
           /\ c.op = "stcycl" => c.cl \in Nat /\ c.wl \in Nat
           /\ c.op \in {"base", "offset", "itop"} => c.to \in Nat
           /\ c.op = "stmask" => c.mask \in VifMask
  BY DEF VifCode, VifMask

LEMMA CountIs == \A n \in Nat : Count(n) \in Nat \ {0}
  BY VifAssumption DEF Count

LEMMA SettingIs ==
    ASSUME NEW c \in VifCode, NEW s \in VifSettings
    PROVE  Setting(c, s) \in VifSettings
  <1>0. /\ s.state = AtCode /\ s.cl \in Nat /\ s.wl \in Nat /\ s.base \in Nat /\ s.offset \in Nat
        /\ s.itops \in Nat /\ s.dbf \in BOOLEAN /\ s.mask \in VifMask
    BY DEF VifSettings
  <1>1. CASE c.op = "stcycl"
    <2>1. Setting(c, s) = [s EXCEPT !.cl = c.cl, !.wl = c.wl]
      BY <1>1 DEF Setting
    <2> QED
      BY <1>1, <2>1, CodeIs DEF VifSettings
  <1>2. CASE c.op = "offset"
    <2>1. Setting(c, s) = [s EXCEPT !.offset = c.to, !.dbf = FALSE]
      BY <1>2 DEF Setting
    <2> QED
      BY <1>2, <2>1, CodeIs DEF VifSettings
  <1>3. CASE c.op = "base"
    <2>1. Setting(c, s) = [s EXCEPT !.base = c.to]
      BY <1>3 DEF Setting
    <2> QED
      BY <1>3, <2>1, CodeIs DEF VifSettings
  <1>4. CASE c.op = "itop"
    <2>1. Setting(c, s) = [s EXCEPT !.itops = c.to]
      BY <1>4 DEF Setting
    <2> QED
      BY <1>4, <2>1, CodeIs DEF VifSettings
  <1>5. CASE c.op = "stmask"
    <2>1. Setting(c, s) = [s EXCEPT !.mask = c.mask]
      BY <1>5 DEF Setting
    <2> QED
      BY <1>5, <2>1, CodeIs DEF VifSettings
  <1>6. CASE c.op \in {"mscal", "mscnt"}
    <2>1. Setting(c, s) = [s EXCEPT !.dbf = ~s.dbf]
      BY <1>6 DEF Setting
    <2>2. (~s.dbf) \in BOOLEAN
      BY <1>0, Zenon
    <2> QED
      BY <2>1, <2>2 DEF VifSettings
  <1>7. CASE c.op \notin {"stcycl", "offset", "base", "itop", "stmask", "mscal", "mscnt"}
    BY <1>7 DEF Setting
  <1> QED
    BY <1>1, <1>2, <1>3, <1>4, <1>5, <1>6, <1>7

\* The recursive functions of a list, turn by turn.
LEMMA SettingTurns ==
    ASSUME NEW l, Len(l) \in Nat, NEW s
    PROVE  /\ SettingsIn(l, s)[0] = s
           /\ \A i \in 1 .. Len(l) : SettingsIn(l, s)[i] = Setting(l[i], SettingsIn(l, s)[i - 1])
  <1> DEFINE G(n, f) == f = [i \in 0 .. n |-> IF i = 0 THEN s ELSE Setting(l[i], f[i - 1])]
             S == { n \in Nat : \E f : G(n, f) }
  <1>1. 0 \in S
    <2>1. G(0, [i \in 0 .. 0 |-> s])
      OBVIOUS
    <2> QED
      BY <2>1
  <1>2. ASSUME NEW n \in S PROVE n + 1 \in S
    <2>1. PICK g : G(n, g)
      OBVIOUS
    <2> DEFINE h == [i \in 0 .. n + 1 |-> IF i <= n THEN g[i] ELSE Setting(l[n + 1], g[n])]
    <2>2. \A i \in 0 .. n + 1 : h[i] = IF i = 0 THEN s ELSE Setting(l[i], h[i - 1])
      BY <2>1
    <2>3. G(n + 1, h)
      <3> HIDE DEF h
      <3>1. h = [i \in 0 .. n + 1 |-> h[i]]
        BY DEF h
      <3> QED
        BY <2>2, <3>1
    <2>4. n + 1 \in Nat /\ \E f : G(n + 1, f)
      <3> HIDE DEF h, G
      <3> QED
        BY <2>3
    <2> QED
      BY <2>4
  <1>3. S = Nat
    <2> HIDE DEF S
    <2> QED
      BY <1>1, <1>2, Induction, S \subseteq Nat DEF S
  <1>4. \E f : G(Len(l), f)
    BY <1>3
  <1> DEFINE m == SettingsIn(l, s)
  <1>5. G(Len(l), m)
    BY <1>4 DEF SettingsIn
  <1> HIDE DEF m
  <1> QED
    BY <1>5 DEF m

LEMMA JoinTurns ==
    ASSUME NEW x, Len(x) \in Nat
    PROVE  /\ JoinUpTo(x)[0] = << >>
           /\ \A i \in 1 .. Len(x) : JoinUpTo(x)[i] = JoinUpTo(x)[i - 1] \o x[i]
  <1> DEFINE G(n, f) == f = [i \in 0 .. n |-> IF i = 0 THEN << >> ELSE f[i - 1] \o x[i]]
             S == { n \in Nat : \E f : G(n, f) }
  <1>1. 0 \in S
    <2>1. G(0, [i \in 0 .. 0 |-> << >>])
      OBVIOUS
    <2> QED
      BY <2>1
  <1>2. ASSUME NEW n \in S PROVE n + 1 \in S
    <2>1. PICK g : G(n, g)
      OBVIOUS
    <2> DEFINE h == [i \in 0 .. n + 1 |-> IF i <= n THEN g[i] ELSE g[n] \o x[n + 1]]
    <2>2. \A i \in 0 .. n + 1 : h[i] = IF i = 0 THEN << >> ELSE h[i - 1] \o x[i]
      BY <2>1
    <2>3. G(n + 1, h)
      <3> HIDE DEF h
      <3>1. h = [i \in 0 .. n + 1 |-> h[i]]
        BY DEF h
      <3> QED
        BY <2>2, <3>1
    <2>4. n + 1 \in Nat /\ \E f : G(n + 1, f)
      <3> HIDE DEF h, G
      <3> QED
        BY <2>3
    <2> QED
      BY <2>4
  <1>3. S = Nat
    <2> HIDE DEF S
    <2> QED
      BY <1>1, <1>2, Induction, S \subseteq Nat DEF S
  <1>4. \E f : G(Len(x), f)
    BY <1>3
  <1> DEFINE m == JoinUpTo(x)
  <1>5. G(Len(x), m)
    BY <1>4 DEF JoinUpTo
  <1> DEFINE L == Len(x)
  <1>6. m = [i \in 0 .. L |-> IF i = 0 THEN << >> ELSE m[i - 1] \o x[i]] /\ L \in Nat
    BY <1>5
  <1> HIDE DEF m, L
  <1>7. m[0] = << >>
    BY <1>6
  <1>8. ASSUME NEW i \in 1 .. L PROVE m[i] = m[i - 1] \o x[i]
    <2>1. i \in 0 .. L /\ i # 0
      BY <1>6
    <2> QED
      BY <1>6, <2>1
  <1> QED
    BY <1>7, <1>8 DEF m, L

DrainRun(v, u) ==
    LET d[n \in 0 .. u.left] == IF n = 0 THEN [u |-> u, out |-> << >>] ELSE DrainTurn(v, d[n - 1])
    IN d

LEMMA DrainTurns ==
    ASSUME NEW v, NEW u, u.left \in Nat
    PROVE  /\ DrainRun(v, u)[0] = [u |-> u, out |-> << >>]
           /\ \A n \in 1 .. u.left : DrainRun(v, u)[n] = DrainTurn(v, DrainRun(v, u)[n - 1])
           /\ Drain(v, u) = LET e == DrainRun(v, u)[u.left]
                            IN [v |-> [v EXCEPT !.state = IF e.u.left = 0 THEN AtCode ELSE e.u], out |-> e.out]
  <1> DEFINE z == [u |-> u, out |-> << >>]
             G(n, f) == f = [i \in 0 .. n |-> IF i = 0 THEN z ELSE DrainTurn(v, f[i - 1])]
             S == { n \in Nat : \E f : G(n, f) }
             m == DrainRun(v, u)
  <1>z. \E f : G(u.left, f) => G(u.left, m)
    BY DEF DrainRun
  <1>y. Drain(v, u) = LET e == m[u.left]
                      IN [v |-> [v EXCEPT !.state = IF e.u.left = 0 THEN AtCode ELSE e.u], out |-> e.out]
    BY DEF Drain, DrainRun
  <1> HIDE DEF z
  <1>1. 0 \in S
    <2>1. G(0, [i \in 0 .. 0 |-> z])
      OBVIOUS
    <2> QED
      BY <2>1
  <1>2. ASSUME NEW n \in S PROVE n + 1 \in S
    <2>1. PICK g : G(n, g)
      OBVIOUS
    <2> DEFINE h == [i \in 0 .. n + 1 |-> IF i <= n THEN g[i] ELSE DrainTurn(v, g[n])]
    <2>2. \A i \in 0 .. n + 1 : h[i] = IF i = 0 THEN z ELSE DrainTurn(v, h[i - 1])
      BY <2>1
    <2>3. G(n + 1, h)
      <3> HIDE DEF h
      <3>1. h = [i \in 0 .. n + 1 |-> h[i]]
        BY DEF h
      <3> QED
        BY <2>2, <3>1
    <2>4. n + 1 \in Nat /\ \E f : G(n + 1, f)
      <3> HIDE DEF h, G
      <3> QED
        BY <2>3
    <2> QED
      BY <2>4
  <1>3. S = Nat
    <2> HIDE DEF S
    <2> QED
      BY <1>1, <1>2, Induction, S \subseteq Nat DEF S
  <1>4. \E f : G(u.left, f)
    BY <1>3
  <1>5. G(u.left, m)
    <2>1. \A f : f = CHOOSE g : G(u.left, g) => G(u.left, f)
      BY <1>4
    <2>2. m = CHOOSE g : G(u.left, g)
      BY DEF DrainRun, z
    <2> QED
      BY <1>4, <2>2
  <1> HIDE DEF m
  <1>6. m[0] = z /\ \A n \in 1 .. u.left : m[n] = DrainTurn(v, m[n - 1])
    BY <1>5
  <1> QED
    BY <1>y, <1>6 DEF m, z

LEMMA OneMoreRow ==
    ASSUME NEW q \in Nat, NEW c \in Nat
    PROVE  (q + 1) * c = q * c + c /\ q * c \in Nat
  <1>1. 1 \in Nat /\ (q + 1) * c = q * c + 1 * c
    BY ProductLaws
  <1>2. 1 * c = c /\ q * c \in Nat
    BY ProductTypes
  <1> QED
    BY <1>1, <1>2

LEMMA NextSplit ==
    ASSUME NEW e \in Nat \ {0}, NEW k \in Nat
    PROVE  /\ k \div e \in Nat /\ k % e \in 0 .. (e - 1) /\ k = (k \div e) * e + (k % e)
           /\ (k % e) + 1 = e => (k + 1) % e = 0 /\ (k + 1) \div e = k \div e + 1
           /\ (k % e) + 1 # e => (k + 1) % e = (k % e) + 1 /\ (k + 1) \div e = k \div e
  <1> DEFINE q == k \div e
             r == k % e
  <1>1. q \in Nat /\ r \in 0 .. (e - 1) /\ k = q * e + r
    BY SplitOf
  <1> HIDE DEF q, r
  <1>2. ASSUME r + 1 = e PROVE (k + 1) % e = 0 /\ (k + 1) \div e = q + 1
    <2>1. (q + 1) * e = q * e + 1 * e /\ q * e \in Nat /\ 1 * e = e
      BY <1>1, ProductLaws, ProductTypes
    <2>2. k + 1 = (q + 1) * e + 0
      BY <1>1, <1>2, <2>1
    <2>3. q + 1 \in Nat /\ 0 \in 0 .. (e - 1)
      BY <1>1
    <2>4. ((q + 1) * e + 0) % e = 0 /\ ((q + 1) * e + 0) \div e = q + 1
      BY <2>3, DivOf
    <2> QED
      BY <2>2, <2>4
  <1>3. ASSUME r + 1 # e PROVE (k + 1) % e = r + 1 /\ (k + 1) \div e = q
    <2>1. k + 1 = q * e + (r + 1) /\ r + 1 \in 0 .. (e - 1)
      BY <1>1, <1>3, ProductTypes
    <2> QED
      BY <1>1, <2>1, DivOf
  <1> QED
    BY <1>1, <1>2, <1>3 DEF q, r

\* A write takes a vector unless it lies in the filled part of its block.
LEMMA VectorsStep ==
    ASSUME NEW cl \in Nat \ {0}, NEW wl \in Nat \ {0}, NEW k \in Nat
    PROVE  /\ Vectors(k, cl, wl) \in Nat /\ Vectors(0, cl, wl) = 0
           /\ Vectors(k + 1, cl, wl) = Vectors(k, cl, wl) + (IF wl > cl /\ k % wl >= cl THEN 0 ELSE 1)
           /\ ~(wl > cl /\ k % wl >= cl) =>
                 Vectors(k, cl, wl) = (k \div wl) * Smaller(cl, wl) + (k % wl)
  <1>1. CASE wl <= cl
    <2>1. k = (k \div wl) * wl + (k % wl)
      BY NextSplit, Zenon
    <2> QED
      BY <1>1, <2>1 DEF Vectors, Smaller
  <1>2. CASE ~(wl <= cl)
    <2> DEFINE q == k \div wl
               p == k % wl
    <2>1. q \in Nat /\ p \in 0 .. (wl - 1)
      BY NextSplit
    <2>2. /\ p + 1 = wl => (k + 1) % wl = 0 /\ (k + 1) \div wl = q + 1
          /\ p + 1 # wl => (k + 1) % wl = p + 1 /\ (k + 1) \div wl = q
      BY NextSplit
    <2>3. Vectors(k, cl, wl) = cl * q + Smaller(p, cl)
      BY <1>2 DEF Vectors
    <2>4. Vectors(k + 1, cl, wl) = cl * ((k + 1) \div wl) + Smaller((k + 1) % wl, cl)
      BY <1>2 DEF Vectors
    <2>5. Vectors(0, cl, wl) = 0
      <3>1. 0 = 0 * wl + 0 /\ 0 \in 0 .. (wl - 1) /\ 0 \in Nat
        OBVIOUS
      <3>2. 0 \div wl = 0 /\ 0 % wl = 0
        BY <3>1, DivOf
      <3>3. cl * 0 = 0
        OBVIOUS
      <3> QED
        BY <1>2, <3>2, <3>3 DEF Vectors, Smaller
    <2> HIDE DEF q, p
    <2>6. cl * q \in Nat /\ cl * (q + 1) = cl * q + cl /\ cl * q = q * cl
      <3>1. (q + 1) * cl = q * cl + 1 * cl /\ cl * q = q * cl /\ cl * (q + 1) = (q + 1) * cl /\ 1 * cl = cl
        BY <2>1, ProductLaws
      <3> QED
        BY <2>1, <3>1, ProductTypes
    <2> DEFINE Q == cl * q
    <2>7. Q \in Nat /\ cl * (q + 1) = Q + cl /\ q * cl = Q
      BY <2>6
    <2>8. Vectors(k, cl, wl) = Q + Smaller(p, cl)
      BY <2>3
    <2>9. Vectors(k + 1, cl, wl) = IF p + 1 = wl THEN Q + cl ELSE Q + Smaller(p + 1, cl)
      <3>1. CASE p + 1 = wl
        <4>1. Smaller(0, cl) = 0
          BY DEF Smaller
        <4>2. Vectors(k + 1, cl, wl) = cl * (q + 1) + 0
          BY <2>2, <2>4, <3>1, <4>1
        <4> QED
          BY <2>1, <2>7, <3>1, <4>2
      <3>2. CASE p + 1 # wl
        BY <2>2, <2>4, <3>2
      <3> QED
        BY <3>1, <3>2
    <2> HIDE DEF Q
    <2>10. /\ Vectors(k, cl, wl) \in Nat
           /\ Vectors(k + 1, cl, wl) = Vectors(k, cl, wl) + (IF wl > cl /\ p >= cl THEN 0 ELSE 1)
           /\ ~(wl > cl /\ p >= cl) => Vectors(k, cl, wl) = q * Smaller(cl, wl) + p
      BY <1>2, <2>1, <2>7, <2>8, <2>9 DEF Smaller
    <2> QED
      BY <2>5, <2>10 DEF p, q
  <1> QED
    BY <1>1, <1>2

LEMMA VectorsNext ==
    ASSUME NEW cl \in Nat \ {0}, NEW wl \in Nat \ {0}, NEW k \in Nat, NEW k1, k1 = k + 1
    PROVE  Vectors(k1, cl, wl) = Vectors(k, cl, wl) + (IF wl > cl /\ k % wl >= cl THEN 0 ELSE 1)
  BY VectorsStep

LEMMA VectorsPlain ==
    ASSUME NEW cl \in Nat \ {0}, NEW wl \in Nat \ {0}, NEW k \in Nat, ~(wl > cl /\ k % wl >= cl)
    PROVE  Vectors(k, cl, wl) = (k \div wl) * Smaller(cl, wl) + (k % wl)
  BY VectorsStep

LEMMA VectorsGrow ==
    ASSUME NEW cl \in Nat \ {0}, NEW wl \in Nat \ {0}, NEW k \in Nat, NEW n \in Nat, k <= n
    PROVE  Vectors(k, cl, wl) <= Vectors(n, cl, wl)
  <1> DEFINE V(m) == Vectors(m, cl, wl)
             S == { m \in Nat : V(k) <= V(k + m) }
  <1>1. ASSUME NEW m \in Nat PROVE V(m) \in Nat /\ V(m + 1) >= V(m)
    <2>1. /\ Vectors(m, cl, wl) \in Nat
          /\ Vectors(m + 1, cl, wl) = Vectors(m, cl, wl) + (IF wl > cl /\ m % wl >= cl THEN 0 ELSE 1)
      BY VectorsStep
    <2> QED
      BY <2>1
  <1> HIDE DEF V
  <1>2. 0 \in S
    BY <1>1
  <1>3. ASSUME NEW m \in S PROVE m + 1 \in S
    <2>1. k + m \in Nat /\ k + (m + 1) = (k + m) + 1
      OBVIOUS
    <2> QED
      BY <1>1, <2>1
  <1>4. S = Nat
    <2> HIDE DEF S
    <2> QED
      BY <1>2, <1>3, Induction, S \subseteq Nat DEF S
  <1>5. n - k \in Nat /\ k + (n - k) = n
    OBVIOUS
  <1>6. V(k) <= V(k + (n - k))
    BY <1>4, <1>5
  <1> QED
    BY <1>5, <1>6 DEF V

\* The words behind an UNPACK hold its vectors, and no word less would.
LEMMA WordsForIs ==
    ASSUME NEW b \in Nat
    PROVE  WordsFor(b) \in Nat /\ \A j \in Nat : WordsFor(b) <= j <=> b <= 4 * j
  <1> DEFINE w == (b + 3) \div 4
             r == (b + 3) % 4
  <1>1. w \in Nat /\ r \in 0 .. 3 /\ b + 3 = w * 4 + r
    BY SplitOf
  <1> HIDE DEF w, r
  <1>2. w \in Nat /\ \A j \in Nat : w <= j <=> b <= 4 * j
    BY <1>1
  <1> QED
    BY <1>2 DEF w, WordsFor

(***************************************************************************)
(* The writes of an UNPACK.                                                *)
(***************************************************************************)
UnpackBase(c, s)   == c.addr + (IF c.flg THEN s.base + (IF s.dbf THEN s.offset ELSE 0) ELSE 0)
WriteAt(c, s, k)   == UnpackBase(c, s) + (IF Count(s.cl) > Count(s.wl)
                                          THEN (k \div Count(s.wl)) * Count(s.cl) + (k % Count(s.wl)) ELSE k)
VectorsOf(c, s, k) == Vectors(k, Count(s.cl), Count(s.wl))
MaskCode(c, s, p)  == IF c.masked THEN s.mask[Smaller(p, 3) + 1] ELSE "data"
WriteOf(c, s, k) ==
    [kind |-> "write", flg |-> c.flg, addr |-> WriteAt(c, s, k) % DataSize,
     src |-> IF Count(s.wl) > Count(s.cl) /\ k % Count(s.wl) >= Count(s.cl) THEN <<"row">>
             ELSE IF MaskCode(c, s, k % Count(s.wl)) = "data" THEN <<"vector", VectorsOf(c, s, k)>>
             ELSE << MaskCode(c, s, k % Count(s.wl)) >>]
\* The parser after j data words and k writes.
UnpackAt(c, s, j, k) ==
    [at |-> "unpack", addr |-> WriteAt(c, s, k), bytes |-> c.bytes, flg |-> c.flg, masked |-> c.masked,
     left |-> Count(c.num) - k, block_pos |-> k % Count(s.wl), held |-> 4 * j - c.bytes * VectorsOf(c, s, k),
     taken |-> VectorsOf(c, s, k)]

\* An UNPACK code at work under settings.
Unpacking(c, s) == c \in VifCode /\ c.op = "unpack" /\ s \in VifSettings

LEMMA UnpackingIs ==
    ASSUME NEW c, NEW s, Unpacking(c, s)
    PROVE  /\ Count(s.cl) \in Nat \ {0} /\ Count(s.wl) \in Nat \ {0} /\ Count(c.num) \in Nat \ {0}
           /\ c.bytes \in Nat \ {0} /\ c.flg \in BOOLEAN /\ c.masked \in BOOLEAN
           /\ UnpackBase(c, s) \in Nat /\ s.mask \in VifMask
           /\ \A k \in Nat : VectorsOf(c, s, k) \in Nat /\ WriteAt(c, s, k) \in Nat /\ k % Count(s.wl) \in Nat
                             /\ k \div Count(s.wl) \in Nat
                             /\ MaskCode(c, s, k % Count(s.wl)) \in {"data", "row", "col", "keep"}
  <1>1. /\ c.num \in Nat /\ c.addr \in Nat /\ c.bytes \in Nat \ {0} /\ c.flg \in BOOLEAN /\ c.masked \in BOOLEAN
        /\ s.cl \in Nat /\ s.wl \in Nat /\ s.base \in Nat /\ s.offset \in Nat /\ s.mask \in VifMask
    BY CodeIs DEF Unpacking, VifSettings
  <1>2. Count(s.cl) \in Nat \ {0} /\ Count(s.wl) \in Nat \ {0} /\ Count(c.num) \in Nat \ {0}
    BY <1>1, CountIs
  <1>3. UnpackBase(c, s) \in Nat
    BY <1>1 DEF UnpackBase
  <1>4. ASSUME NEW k \in Nat
        PROVE  /\ VectorsOf(c, s, k) \in Nat /\ WriteAt(c, s, k) \in Nat /\ k % Count(s.wl) \in Nat
               /\ k \div Count(s.wl) \in Nat
               /\ MaskCode(c, s, k % Count(s.wl)) \in {"data", "row", "col", "keep"}
    <2>1. VectorsOf(c, s, k) \in Nat
      BY <1>2, VectorsStep DEF VectorsOf
    <2> DEFINE p == k % Count(s.wl)
               q == k \div Count(s.wl)
    <2>2. p \in Nat /\ q \in Nat
      <3> DEFINE w == Count(s.wl)
      <3>1. w \in Nat \ {0} /\ k \in Nat
        BY <1>2
      <3> HIDE DEF w
      <3>2. k \div w \in Nat /\ k % w \in 0 .. (w - 1)
        BY ONLY <3>1, NextSplit
      <3>3. k % w \in Nat
        BY <3>1, <3>2
      <3> QED
        BY <3>2, <3>3 DEF w
    <2> HIDE DEF p, q
    <2>3. q * Count(s.cl) \in Nat
      BY <1>2, <2>2, ProductTypes
    <2>4. WriteAt(c, s, k) \in Nat
      BY <1>2, <1>3, <2>2, <2>3 DEF WriteAt, p, q
    <2>5. Smaller(p, 3) + 1 \in 1 .. 4
      BY <2>2 DEF Smaller
    <2>6. s.mask[Smaller(p, 3) + 1] \in {"data", "row", "col", "keep"}
      BY <1>1, <2>5 DEF VifMask
    <2>7. MaskCode(c, s, p) \in {"data", "row", "col", "keep"}
      BY <2>6 DEF MaskCode
    <2> QED
      BY <2>1, <2>2, <2>4, <2>7 DEF p, q
  <1> QED
    BY <1>1, <1>2, <1>3, <1>4

LEMMA UnpackMeansIs ==
    ASSUME NEW c, NEW s, Unpacking(c, s)
    PROVE  /\ UnpackMeans(c, s) = [i \in 1 .. Count(c.num) |-> WriteOf(c, s, i - 1)]
           /\ \A k \in Nat : WriteOf(c, s, k) \in VifEffect
  <1>1. ASSUME NEW k \in Nat PROVE WriteOf(c, s, k) \in VifEffect
    <2> DEFINE m == MaskCode(c, s, k % Count(s.wl))
               a == WriteAt(c, s, k)
               v == VectorsOf(c, s, k)
               src == IF Count(s.wl) > Count(s.cl) /\ k % Count(s.wl) >= Count(s.cl) THEN <<"row">>
                      ELSE IF m = "data" THEN <<"vector", v>> ELSE << m >>
    <2>1. m \in {"data", "row", "col", "keep"} /\ a \in Nat /\ v \in Nat /\ c.flg \in BOOLEAN
      BY UnpackingIs
    <2>2. WriteOf(c, s, k) = [kind |-> "write", flg |-> c.flg, addr |-> a % DataSize, src |-> src]
      BY DEF WriteOf
    <2> HIDE DEF m, a, v
    <2>3. src \in VifSource
      BY <2>1 DEF VifSource
    <2> HIDE DEF src
    <2>4. a % DataSize \in Nat
      BY <2>1, VifAssumption, SplitOf
    <2> QED
      BY <2>1, <2>2, <2>3, <2>4 DEF VifEffect
  <1>2. ASSUME NEW i \in 1 .. Count(c.num)
        PROVE  UnpackMeans(c, s)[i] = WriteOf(c, s, i - 1)
    <2> DEFINE k == i - 1
               cl == Count(s.cl)
               wl == Count(s.wl)
    <2>1. k \in Nat /\ cl \in Nat \ {0} /\ wl \in Nat \ {0} /\ cl = Count(s.cl) /\ wl = Count(s.wl)
      BY UnpackingIs
    <2> DEFINE q == k \div wl
               p == k % wl
               row == wl > cl /\ p >= cl
               code == IF c.masked THEN s.mask[Smaller(p, 3) + 1] ELSE "data"
               a == (UnpackBase(c, s) + (IF cl > wl THEN q * cl + p ELSE k)) % DataSize
               u == q * Smaller(cl, wl) + p
    <2>2. UnpackMeans(c, s)[i] =
            [kind |-> "write", flg |-> c.flg, addr |-> a,
             src |-> IF row THEN <<"row">> ELSE IF code = "data" THEN <<"vector", u>> ELSE << code >>]
      BY DEF UnpackMeans, UnpackBase
    <2> HIDE DEF k, cl, wl
    <2>3. ~row => VectorsOf(c, s, k) = u
      <3>1. ~(wl > cl /\ k % wl >= cl) => Vectors(k, cl, wl) = (k \div wl) * Smaller(cl, wl) + (k % wl)
        BY ONLY <2>1, VectorsPlain
      <3>2. VectorsOf(c, s, k) = Vectors(k, cl, wl)
        BY <2>1 DEF VectorsOf
      <3> QED
        BY <3>1, <3>2
    <2>6. WriteAt(c, s, k) % DataSize = a
      BY <2>1 DEF WriteAt
    <2>7. MaskCode(c, s, k % Count(s.wl)) = code /\ (Count(s.wl) > Count(s.cl) /\ k % Count(s.wl) >= Count(s.cl) <=> row)
      BY <2>1 DEF MaskCode
    <2> HIDE DEF q, p, row, code, a, u
    <2>4. WriteOf(c, s, k) =
            [kind |-> "write", flg |-> c.flg, addr |-> a,
             src |-> IF row THEN <<"row">> ELSE IF code = "data" THEN <<"vector", VectorsOf(c, s, k)>> ELSE << code >>]
      BY <2>6, <2>7 DEF WriteOf
    <2>5. UnpackMeans(c, s)[i] = WriteOf(c, s, k)
      BY <2>2, <2>3, <2>4
    <2> QED
      BY <2>5 DEF k
  <1>3. UnpackMeans(c, s) = [i \in 1 .. Count(c.num) |-> UnpackMeans(c, s)[i]]
    BY DEF UnpackMeans
  <1> DEFINE m == UnpackMeans(c, s)
  <1>4. m = [i \in 1 .. Count(c.num) |-> m[i]] /\ \A i \in 1 .. Count(c.num) : m[i] = WriteOf(c, s, i - 1)
    BY <1>2, <1>3
  <1> HIDE DEF m
  <1>5. m = [i \in 1 .. Count(c.num) |-> WriteOf(c, s, i - 1)]
    BY <1>4
  <1> QED
    BY <1>1, <1>5 DEF m

(***************************************************************************)
(* Pieces of a sequence of effects.                                        *)
(***************************************************************************)
Piece(x, a, b) == [i \in 1 .. b - a |-> x[a + i]]

LEMMA PieceIs ==
    ASSUME NEW S, NEW x \in Seq(S), NEW a \in Nat, NEW b \in Nat, a <= b, b <= Len(x)
    PROVE  /\ Piece(x, a, b) \in Seq(S) /\ Len(Piece(x, a, b)) = b - a
           /\ \A i \in 1 .. b - a : Piece(x, a, b)[i] = x[a + i]
  <1>1. Len(x) \in Nat /\ b - a \in Nat
    OBVIOUS
  <1>2. ASSUME NEW i \in 1 .. b - a PROVE x[a + i] \in S
    <2>1. a + i \in 1 .. Len(x)
      BY <1>1
    <2> QED
      BY <2>1, ElementOfSeq
  <1> DEFINE p == Piece(x, a, b)
  <1>3. p = [i \in 1 .. b - a |-> x[a + i]]
    BY DEF Piece
  <1> HIDE DEF p
  <1>4. p \in Seq(S)
    BY <1>1, <1>2, <1>3, IsASeq
  <1>5. Len(p) = b - a
    BY <1>1, <1>3, <1>4, LenProperties
  <1>6. \A i \in 1 .. b - a : p[i] = x[a + i]
    BY <1>3
  <1> QED
    BY <1>4, <1>5, <1>6 DEF p

LEMMA PieceJoin ==
    ASSUME NEW S, NEW x \in Seq(S), NEW a \in Nat, NEW b \in Nat, NEW c \in Nat, a <= b, b <= c, c <= Len(x)
    PROVE  Piece(x, a, b) \o Piece(x, b, c) = Piece(x, a, c)
  <1> DEFINE p == Piece(x, a, b)
             q == Piece(x, b, c)
             r == Piece(x, a, c)
  <1>0. Len(x) \in Nat /\ b <= Len(x) /\ a <= c
    OBVIOUS
  <1>1. p \in Seq(S) /\ Len(p) = b - a /\ \A i \in 1 .. b - a : p[i] = x[a + i]
    BY <1>0, PieceIs
  <1>2. q \in Seq(S) /\ Len(q) = c - b /\ \A i \in 1 .. c - b : q[i] = x[b + i]
    BY <1>0, PieceIs
  <1>3. r \in Seq(S) /\ Len(r) = c - a /\ \A i \in 1 .. c - a : r[i] = x[a + i]
    BY <1>0, PieceIs
  <1> HIDE DEF p, q, r
  <1>4. /\ p \o q \in Seq(S) /\ Len(p \o q) = Len(p) + Len(q)
        /\ \A i \in 1 .. Len(p) + Len(q) : (p \o q)[i] = IF i <= Len(p) THEN p[i] ELSE q[i - Len(p)]
    BY <1>1, <1>2, ConcatProperties
  <1>5. Len(p \o q) = Len(r) /\ Len(r) \in Nat
    BY <1>1, <1>2, <1>3, <1>4
  <1>6. ASSUME NEW i \in 1 .. Len(r) PROVE (p \o q)[i] = r[i]
    <2>1. CASE i <= b - a
      <3>1. i \in 1 .. b - a /\ i \in 1 .. Len(p) + Len(q) /\ i <= Len(p) /\ i \in 1 .. c - a
        BY <1>1, <1>2, <1>3, <2>1
      <3> QED
        BY <1>1, <1>3, <1>4, <3>1
    <2>2. CASE ~(i <= b - a)
      <3> DEFINE h == i - (b - a)
      <3>1. h \in 1 .. c - b /\ i \in 1 .. Len(p) + Len(q) /\ ~(i <= Len(p)) /\ i \in 1 .. c - a
            /\ i - Len(p) = h /\ b + h = a + i
        BY <1>1, <1>2, <1>3, <2>2
      <3> HIDE DEF h
      <3>2. (p \o q)[i] = q[h] /\ q[h] = x[b + h] /\ r[i] = x[a + i]
        BY <1>2, <1>3, <1>4, <3>1
      <3> QED
        BY <3>1, <3>2
    <2> QED
      BY <2>1, <2>2
  <1>7. p \o q = r
    BY <1>3, <1>4, <1>5, <1>6, SeqEqual
  <1> QED
    BY <1>7 DEF p, q, r

\* The same of effects, and their joining end to end.
LEMMA EffectPiece ==
    ASSUME NEW x \in Seq(VifEffect), NEW a \in Nat, NEW b \in Nat, a <= b, b <= Len(x)
    PROVE  /\ Piece(x, a, b) \in Seq(VifEffect) /\ Len(Piece(x, a, b)) = b - a
           /\ \A i \in 1 .. b - a : Piece(x, a, b)[i] = x[a + i]
  BY PieceIs

LEMMA EffectPieces ==
    ASSUME NEW x \in Seq(VifEffect), NEW a \in Nat, NEW b \in Nat, NEW c \in Nat, a <= b, b <= c, c <= Len(x)
    PROVE  Piece(x, a, b) \o Piece(x, b, c) = Piece(x, a, c)
  BY PieceJoin

LEMMA Reassociate ==
    \A x, y, z \in Seq(VifEffect) : (x \o y) \o z = x \o (y \o z)
  BY ConcatAssociative

LEMMA PieceNext ==
    ASSUME NEW S, NEW x \in Seq(S), NEW a \in Nat, NEW b \in Nat, a <= b, b < Len(x)
    PROVE  /\ Append(Piece(x, a, b), x[b + 1]) = Piece(x, a, b + 1)
           /\ << x[b + 1] >> = Piece(x, b, b + 1)
  <1> DEFINE e == x[b + 1]
             p == Piece(x, a, b)
             q == Piece(x, b, b + 1)
  <1>1. b + 1 \in Nat /\ b <= b + 1 /\ b + 1 <= Len(x) /\ b <= Len(x) /\ b + 1 \in 1 .. Len(x)
    OBVIOUS
  <1>2. e \in S
    BY <1>1, ElementOfSeq
  <1>3. /\ q \in Seq(S) /\ Len(q) = (b + 1) - b
        /\ \A i \in 1 .. (b + 1) - b : q[i] = x[b + i]
    BY <1>1, PieceIs
  <1>4. Len(q) = 1 /\ q[1] = e
    <2> DEFINE m == (b + 1) - b
    <2>1. m = 1 /\ 1 \in 1 .. m
      OBVIOUS
    <2>2. Len(q) = m /\ \A i \in 1 .. m : q[i] = x[b + i]
      BY <1>3
    <2> HIDE DEF m, q
    <2>3. Len(q) = 1 /\ q[1] = x[b + 1]
      BY ONLY <2>1, <2>2
    <2> QED
      BY <2>3
  <1> HIDE DEF e, q
  <1>5. q = << e >>
    BY <1>2, <1>3, <1>4
  <1>6. p \in Seq(S)
    BY <1>1, PieceIs
  <1>7. p \o q = Piece(x, a, b + 1)
    BY <1>1, PieceJoin DEF q
  <1> HIDE DEF p
  <1>8. Append(p, e) = p \o << e >>
    BY <1>2, <1>6, AppendIsConcat
  <1> QED
    BY <1>5, <1>7, <1>8 DEF e, p, q

LEMMA PieceWhole ==
    ASSUME NEW S, NEW x \in Seq(S)
    PROVE  /\ Piece(x, 0, Len(x)) = x
           /\ \A a \in 0 .. Len(x) : Piece(x, a, a) = << >>
  <1>1. Len(x) \in Nat /\ x \in [1 .. Len(x) -> S]
    BY LenProperties
  <1>2. ASSUME NEW a \in 0 .. Len(x) PROVE Piece(x, a, a) = << >>
    <2> DEFINE p == Piece(x, a, a)
    <2>1. p \in Seq(S) /\ Len(p) = a - a
      BY <1>1, PieceIs
    <2> HIDE DEF p
    <2>2. p = << >>
      BY <1>1, <2>1, EmptySeq
    <2> QED
      BY <2>2 DEF p
  <1>3. Piece(x, 0, Len(x)) = x
    <2> DEFINE p == Piece(x, 0, Len(x))
    <2>0. 0 \in Nat /\ 0 <= Len(x) /\ Len(x) <= Len(x)
      BY <1>1
    <2>1. p \in Seq(S) /\ Len(p) = Len(x) - 0 /\ \A i \in 1 .. Len(x) - 0 : p[i] = x[0 + i]
      BY <1>1, <2>0, PieceIs
    <2> HIDE DEF p
    <2>2. Len(p) = Len(x) /\ \A i \in 1 .. Len(p) : p[i] = x[i]
      BY <1>1, <2>1
    <2>3. p = x
      BY <2>1, <2>2, SeqEqual
    <2> QED
      BY <2>3 DEF p
  <1> QED
    BY <1>2, <1>3

(***************************************************************************)
(* The writes a word allows.                                               *)
(***************************************************************************)
LEMMA TakenIs ==
    ASSUME NEW a, NEW b, NEW f, NEW m, NEW n, NEW p, NEW h, NEW v, NEW n2, NEW h2, NEW v2, NEW u,
           u = [at |-> "unpack", addr |-> a, bytes |-> b, flg |-> f, masked |-> m, left |-> n,
                block_pos |-> p, held |-> h, taken |-> v]
    PROVE  [u EXCEPT !.held = h2, !.left = n2, !.taken = v2] =
             [at |-> "unpack", addr |-> a, bytes |-> b, flg |-> f, masked |-> m, left |-> n2,
              block_pos |-> p, held |-> h2, taken |-> v2]
  <1> DEFINE g1 == [u EXCEPT !.held = h2]
             g2 == [g1 EXCEPT !.left = n2]
  <1>1. [u EXCEPT !.held = h2, !.left = n2, !.taken = v2] = [g2 EXCEPT !.taken = v2]
    OBVIOUS
  <1>2. g1 = [at |-> "unpack", addr |-> a, bytes |-> b, flg |-> f, masked |-> m, left |-> n,
              block_pos |-> p, held |-> h2, taken |-> v]
    OBVIOUS
  <1> HIDE DEF g1
  <1>3. g2 = [at |-> "unpack", addr |-> a, bytes |-> b, flg |-> f, masked |-> m, left |-> n2,
              block_pos |-> p, held |-> h2, taken |-> v]
    BY <1>2
  <1> HIDE DEF g2
  <1> QED
    BY <1>1, <1>3

LEMMA PastIs ==
    ASSUME NEW a, NEW b, NEW f, NEW m, NEW n, NEW p, NEW h, NEW v, NEW cl, NEW wl, NEW g,
           g = [at |-> "unpack", addr |-> a, bytes |-> b, flg |-> f, masked |-> m, left |-> n,
                block_pos |-> p, held |-> h, taken |-> v]
    PROVE  Past(g, cl, wl) =
             [at |-> "unpack", addr |-> a + 1 + (IF p + 1 = wl /\ cl > wl THEN cl - wl ELSE 0), bytes |-> b,
              flg |-> f, masked |-> m, left |-> n, block_pos |-> IF p + 1 = wl THEN 0 ELSE p + 1,
              held |-> h, taken |-> v]
  <1> DEFINE a2 == a + 1 + (IF p + 1 = wl /\ cl > wl THEN cl - wl ELSE 0)
             p2 == IF p + 1 = wl THEN 0 ELSE p + 1
  <1>0. g.addr = a /\ g.block_pos = p
    OBVIOUS
  <1>1. Past(g, cl, wl) = [g EXCEPT !.addr = a2, !.block_pos = p2]
    BY <1>0 DEF Past
  <1> HIDE DEF a2, p2
  <1>2. Past(g, cl, wl) = [at |-> "unpack", addr |-> a2, bytes |-> b, flg |-> f, masked |-> m, left |-> n,
                           block_pos |-> p2, held |-> h, taken |-> v]
    BY <1>1
  <1> QED
    BY <1>2 DEF a2, p2

\* A turn at k writes of num makes the next, or waits for bytes.
Turned(c, s, v, j, k, o) ==
    LET d == DrainTurn(v, [u |-> UnpackAt(c, s, j, k), out |-> o])
    IN \/ /\ d = [u |-> UnpackAt(c, s, j, k), out |-> o]
          /\ 4 * j < c.bytes * VectorsOf(c, s, k + 1)
       \/ /\ d = [u |-> UnpackAt(c, s, j, k + 1), out |-> Append(o, WriteOf(c, s, k))]
          /\ c.bytes * VectorsOf(c, s, k + 1) <= 4 * j

LEMMA TurnAt ==
    ASSUME NEW c, NEW s, Unpacking(c, s), NEW v, v.cl = s.cl, v.wl = s.wl, v.mask = s.mask,
           NEW j \in Nat, NEW k \in 0 .. Count(c.num) - 1, NEW out, c.bytes * VectorsOf(c, s, k) <= 4 * j
    PROVE  Turned(c, s, v, j, k, out)
  <1> DEFINE cl == Count(s.cl)
             wl == Count(s.wl)
             num == Count(c.num)
             b == c.bytes
             V == VectorsOf(c, s, k)
             V1 == VectorsOf(c, s, k + 1)
             p == k % wl
             u == UnpackAt(c, s, j, k)
             row == wl > cl /\ p >= cl
             need == IF row THEN 0 ELSE b
             A == WriteAt(c, s, k)
             A1 == WriteAt(c, s, k + 1)
  <1>1. /\ cl \in Nat \ {0} /\ wl \in Nat \ {0} /\ num \in Nat \ {0} /\ b \in Nat \ {0}
        /\ V \in Nat /\ A \in Nat /\ p \in Nat /\ k \in Nat /\ V1 \in Nat /\ A1 \in Nat
        /\ cl = Count(s.cl) /\ wl = Count(s.wl) /\ num = Count(c.num) /\ k < num
    BY UnpackingIs
  <1>2. V1 = V + (IF row THEN 0 ELSE 1)
    <2>1. Vectors(k + 1, cl, wl) = Vectors(k, cl, wl) + (IF wl > cl /\ k % wl >= cl THEN 0 ELSE 1)
      <3> DEFINE k1 == k + 1
      <3>1. k1 = k + 1 /\ k \in Nat /\ cl \in Nat \ {0} /\ wl \in Nat \ {0}
        BY <1>1
      <3> HIDE DEF k1, cl, wl
      <3>2. Vectors(k1, cl, wl) = Vectors(k, cl, wl) + (IF wl > cl /\ k % wl >= cl THEN 0 ELSE 1)
        BY ONLY <3>1, VectorsNext
      <3> QED
        BY <3>2 DEF k1
    <2> QED
      BY <2>1 DEF VectorsOf
  <1>3. b * V \in Nat /\ b * V1 = b * V + need
    <2>1. b * V \in Nat /\ (V + 1) * b = V * b + 1 * b /\ V * b = b * V /\ (V + 1) * b = b * (V + 1) /\ 1 * b = b
      BY <1>1, ProductTypes, ProductLaws
    <2>2. CASE row
      BY <1>1, <1>2, <2>1, <2>2
    <2>3. CASE ~row
      BY <1>1, <1>2, <2>1, <2>3
    <2> QED
      BY <2>2, <2>3
  <1>4. p < wl /\ (k + 1) % wl = (IF p + 1 = wl THEN 0 ELSE p + 1)
    BY <1>1, NextSplit
  <1>5. A1 = A + 1 + (IF p + 1 = wl /\ cl > wl THEN cl - wl ELSE 0)
    <2> DEFINE q == k \div wl
               B == UnpackBase(c, s)
               q1 == (k + 1) \div wl
               p1 == (k + 1) % wl
    <2>1. q \in Nat /\ B \in Nat /\ (p + 1 = wl => q1 = q + 1 /\ p1 = 0) /\ (p + 1 # wl => q1 = q /\ p1 = p + 1)
      BY <1>1, NextSplit, UnpackingIs
    <2>2. A = B + (IF cl > wl THEN q * cl + p ELSE k) /\ A1 = B + (IF cl > wl THEN q1 * cl + p1 ELSE k + 1)
      BY DEF WriteAt
    <2>3. (q + 1) * cl = q * cl + cl /\ q * cl \in Nat
      <3>1. q \in Nat /\ cl \in Nat
        BY <1>1, <2>1
      <3> HIDE DEF q, cl
      <3> QED
        BY ONLY <3>1, OneMoreRow
    <2> DEFINE Q == q * cl
    <2>4. q1 * cl = IF p + 1 = wl THEN Q + cl ELSE Q
      BY <2>1, <2>3
    <2>5. Q \in Nat
      BY <2>3
    <2> HIDE DEF q, B, q1, p1, Q, A, A1, cl, wl, p
    <2>6. A = B + (IF cl > wl THEN Q + p ELSE k)
      BY <2>2 DEF Q
    <2>7. A1 = B + (IF cl > wl THEN (IF p + 1 = wl THEN Q + cl ELSE Q) + p1 ELSE k + 1)
      BY <2>2, <2>4
    <2>8. B \in Nat /\ cl \in Nat /\ wl \in Nat /\ p \in Nat /\ k \in Nat
      BY <1>1, <2>1
    <2>9. CASE p + 1 = wl
      <3>1. p1 = 0 /\ A1 = B + (IF cl > wl THEN Q + cl + p1 ELSE k + 1)
        BY <2>1, <2>7, <2>9
      <3> QED
        BY ONLY <2>5, <2>6, <2>8, <2>9, <3>1
    <2>10. CASE p + 1 # wl
      <3>1. p1 = p + 1 /\ A1 = B + (IF cl > wl THEN Q + p1 ELSE k + 1)
        BY <2>1, <2>7, <2>10
      <3> QED
        BY ONLY <2>5, <2>6, <2>8, <2>10, <3>1
    <2> QED
      BY <2>9, <2>10
  <1>6. /\ u = [at |-> "unpack", addr |-> A, bytes |-> b, flg |-> c.flg, masked |-> c.masked,
                left |-> num - k, block_pos |-> p, held |-> 4 * j - b * V, taken |-> V]
        /\ UnpackAt(c, s, j, k + 1) =
              [at |-> "unpack", addr |-> A1, bytes |-> b, flg |-> c.flg, masked |-> c.masked,
               left |-> num - (k + 1), block_pos |-> (k + 1) % wl, held |-> 4 * j - b * V1, taken |-> V1]
    BY DEF UnpackAt
  <1>7. Need(u, cl, wl) = need
    BY <1>6 DEF Need
  <1> DEFINE code == MaskCode(c, s, p)
             src == IF row THEN <<"row">> ELSE IF code = "data" THEN <<"vector", V>> ELSE << code >>
             w == [kind |-> "write", flg |-> c.flg, addr |-> A % DataSize, src |-> src]
             g == [u EXCEPT !.held = u.held - need, !.left = u.left - 1,
                            !.taken = IF need > 0 THEN u.taken + 1 ELSE u.taken]
             d == DrainTurn(v, [u |-> u, out |-> out])
  <1>8. WriteOf(c, s, k) = w
    BY DEF WriteOf
  <1>9. u.left = num - k /\ u.held = 4 * j - b * V /\ u.block_pos = p /\ u.addr = A /\ u.taken = V
        /\ u.flg = c.flg /\ u.masked = c.masked
    BY <1>6
  <1>10. d = IF u.left = 0 \/ u.held < need THEN [u |-> u, out |-> out]
             ELSE [u |-> Past(g, cl, wl), out |-> Append(out, w)]
    <2>1. (IF u.masked THEN v.mask[Smaller(u.block_pos, 3) + 1] ELSE "data") = code
      BY <1>9 DEF MaskCode
    <2>2. (IF need = 0 THEN <<"row">> ELSE IF code = "data" THEN <<"vector", u.taken>> ELSE << code >>) = src
      <3>1. need = 0 <=> row
        BY <1>1
      <3> QED
        BY <1>9, <3>1
    <2>3. Count(v.cl) = cl /\ Count(v.wl) = wl
      OBVIOUS
    <2> HIDE DEF need, code, src, cl, wl, u
    <2> QED
      BY <1>7, <1>9, <2>1, <2>2, <2>3 DEF DrainTurn
  <1> HIDE DEF u, w, src, code, A, A1, V, V1, p, cl, wl, num
  <1>11. Past(g, cl, wl) = UnpackAt(c, s, j, k + 1) \/ u.held < need
    <2> SUFFICES ASSUME ~(u.held < need) PROVE Past(g, cl, wl) = UnpackAt(c, s, j, k + 1)
      OBVIOUS
    <2> HIDE DEF need, row
    <2>0. need \in {0, b} /\ (need = 0 <=> row)
      BY <1>1 DEF need
    <2> DEFINE t == 4 * j - b * V
               B1 == b * V
    <2> DEFINE z == IF need > 0 THEN V + 1 ELSE V
    <2>1. g = [u EXCEPT !.held = t - need, !.left = (num - k) - 1, !.taken = z]
      BY <1>9
    <2> HIDE DEF g, t, z
    <2>2. Past(g, cl, wl) =
            [at |-> "unpack", addr |-> A + 1 + (IF p + 1 = wl /\ cl > wl THEN cl - wl ELSE 0), bytes |-> b,
             flg |-> c.flg, masked |-> c.masked, left |-> (num - k) - 1, block_pos |-> IF p + 1 = wl THEN 0 ELSE p + 1,
             held |-> t - need, taken |-> z]
      <3> DEFINE f == c.flg
                 m == c.masked
                 n == num - k
                 n2 == (num - k) - 1
                 h2 == t - need
      <3>1. u = [at |-> "unpack", addr |-> A, bytes |-> b, flg |-> f, masked |-> m,
                 left |-> n, block_pos |-> p, held |-> t, taken |-> V]
        BY <1>6 DEF t
      <3>2. g = [u EXCEPT !.held = h2, !.left = n2, !.taken = z]
        BY <2>1
      <3> HIDE DEF f, m, n, n2, h2, b
      <3>3. g = [at |-> "unpack", addr |-> A, bytes |-> b, flg |-> f, masked |-> m,
                 left |-> n2, block_pos |-> p, held |-> h2, taken |-> z]
        BY <3>1, <3>2, TakenIs
      <3>4. Past(g, cl, wl) =
              [at |-> "unpack", addr |-> A + 1 + (IF p + 1 = wl /\ cl > wl THEN cl - wl ELSE 0), bytes |-> b,
               flg |-> f, masked |-> m, left |-> n2, block_pos |-> IF p + 1 = wl THEN 0 ELSE p + 1,
               held |-> h2, taken |-> z]
        BY <3>3, PastIs
      <3> QED
        BY <3>4 DEF f, m, n2, h2
    <2>3. (num - k) - 1 = num - (k + 1)
      BY <1>1
    <2>4. t - need = 4 * j - b * V1
      <3>1. t = 4 * j - B1 /\ b * V1 = B1 + need /\ B1 \in Nat
        BY <1>3 DEF t
      <3> HIDE DEF B1
      <3> QED
        BY <1>1, <2>0, <3>1
    <2>5. z = V1
      BY <1>1, <1>2, <2>0 DEF z
    <2> QED
      BY <1>4, <1>5, <1>6, <2>2, <2>3, <2>4, <2>5
  <1>12. u.held < need <=> 4 * j < b * V1
    <2> DEFINE B1 == b * V
               B2 == b * V1
    <2>1. u.held = 4 * j - B1 /\ B2 = B1 + need /\ B1 \in Nat /\ need \in Nat
      BY <1>1, <1>3, <1>9
    <2> HIDE DEF B1, need
    <2>2. u.held < need <=> 4 * j < B2
      <3> HIDE DEF B2
      <3> QED
        BY <2>1
    <2> QED
      BY <2>2
  <1>13. u.left # 0
    BY <1>1, <1>9
  <1>14. b * V1 \in Nat /\ 4 * j \in Nat
    BY <1>1, ProductTypes
  <1> HIDE DEF d, g, need, b
  <1>15. \/ d = [u |-> u, out |-> out] /\ 4 * j < b * V1
         \/ d = [u |-> UnpackAt(c, s, j, k + 1), out |-> Append(out, w)] /\ ~(4 * j < b * V1)
    BY <1>10, <1>11, <1>12, <1>13
  <1>16. \/ d = [u |-> u, out |-> out] /\ 4 * j < b * V1
         \/ d = [u |-> UnpackAt(c, s, j, k + 1), out |-> Append(out, w)] /\ b * V1 <= 4 * j
    BY <1>14, <1>15
  <1> QED
    BY <1>8, <1>16 DEF d, u, b, V1, Turned

LEMMA TurnEnd ==
    ASSUME NEW v, NEW d, d.u.left = 0
    PROVE  DrainTurn(v, d) = d
  BY DEF DrainTurn

LEMMA UnpackSeq ==
    ASSUME NEW c, NEW s, Unpacking(c, s)
    PROVE  /\ UnpackMeans(c, s) \in Seq(VifEffect) /\ Len(UnpackMeans(c, s)) = Count(c.num)
           /\ \A m \in 0 .. Count(c.num) - 1 : UnpackMeans(c, s)[m + 1] = WriteOf(c, s, m)
  <1> DEFINE num == Count(c.num)
             x == UnpackMeans(c, s)
  <1>1. num \in Nat \ {0}
    BY UnpackingIs
  <1>2. x \in Seq(VifEffect) /\ Len(x) = num /\ \A m \in 0 .. num - 1 : x[m + 1] = WriteOf(c, s, m)
    <2>1. x = [i \in 1 .. num |-> WriteOf(c, s, i - 1)] /\ \A m \in Nat : WriteOf(c, s, m) \in VifEffect
      BY UnpackMeansIs
    <2>2. \A i \in 1 .. num : WriteOf(c, s, i - 1) \in VifEffect
      BY <1>1, <2>1
    <2> HIDE DEF x, num
    <2>3. x \in Seq(VifEffect)
      BY <1>1, <2>1, <2>2, IsASeq
    <2>4. Len(x) = num
      BY <1>1, <2>1, <2>3, LenProperties
    <2>5. ASSUME NEW m \in 0 .. num - 1 PROVE x[m + 1] = WriteOf(c, s, m)
      <3>1. m + 1 \in 1 .. num /\ (m + 1) - 1 = m
        BY <1>1
      <3> DEFINE i == m + 1
      <3>2. i \in 1 .. num /\ i - 1 = m
        BY <3>1
      <3> HIDE DEF i
      <3>3. x[i] = WriteOf(c, s, i - 1)
        BY <2>1, <3>2
      <3>4. x[i] = WriteOf(c, s, m)
        BY <3>2, <3>3
      <3> QED
        BY <3>4 DEF i
    <2> QED
      BY <2>3, <2>4, <2>5
  <1> QED
    BY <1>2

\* A word's turns make as many writes as its bytes allow.
LEMMA DrainAt ==
    ASSUME NEW c, NEW s, Unpacking(c, s), NEW v, v.cl = s.cl, v.wl = s.wl, v.mask = s.mask,
           NEW j \in Nat, NEW k \in 0 .. Count(c.num) - 1, c.bytes * VectorsOf(c, s, k) <= 4 * j
    PROVE  \E m \in k .. Count(c.num) :
              /\ Drain(v, UnpackAt(c, s, j, k)) =
                    [v |-> [v EXCEPT !.state = IF m = Count(c.num) THEN AtCode ELSE UnpackAt(c, s, j, m)],
                     out |-> Piece(UnpackMeans(c, s), k, m)]
              /\ c.bytes * VectorsOf(c, s, m) <= 4 * j
              /\ m < Count(c.num) => 4 * j < c.bytes * VectorsOf(c, s, m + 1)
  <1> DEFINE num == Count(c.num)
             b == c.bytes
             x == UnpackMeans(c, s)
             u == UnpackAt(c, s, j, k)
             run == DrainRun(v, u)
             Fits(m) == b * VectorsOf(c, s, m) <= 4 * j
             Short(m) == 4 * j < b * VectorsOf(c, s, m + 1)
             State(m) == [u |-> UnpackAt(c, s, j, m), out |-> Piece(x, k, m)]
             Reached(n, m) == /\ m \in k .. num /\ run[n] = State(m) /\ Fits(m)
                              /\ m = k + n \/ (m < num /\ Short(m))
             S == { n \in Nat : n <= num - k => \E m : Reached(n, m) }
  <1>1. num \in Nat \ {0} /\ k \in Nat /\ k < num
    BY UnpackingIs
  <1>2. x \in Seq(VifEffect) /\ Len(x) = num /\ \A m \in 0 .. num - 1 : x[m + 1] = WriteOf(c, s, m)
    BY UnpackSeq
  <1>3. \A m : UnpackAt(c, s, j, m).left = num - m
    BY DEF UnpackAt
  <1>4. u.left = num - k /\ u.left \in Nat
    BY <1>1, <1>3
  <1>5. /\ run[0] = [u |-> u, out |-> << >>]
        /\ \A n \in 1 .. num - k : run[n] = DrainTurn(v, run[n - 1])
        /\ Drain(v, u) = [v |-> [v EXCEPT !.state = IF run[num - k].u.left = 0 THEN AtCode ELSE run[num - k].u],
                          out |-> run[num - k].out]
    <2> HIDE DEF u
    <2>1. /\ run[0] = [u |-> u, out |-> << >>]
          /\ \A n \in 1 .. u.left : run[n] = DrainTurn(v, run[n - 1])
          /\ Drain(v, u) = LET e == run[u.left]
                           IN [v |-> [v EXCEPT !.state = IF e.u.left = 0 THEN AtCode ELSE e.u], out |-> e.out]
      BY <1>4, DrainTurns
    <2> HIDE DEF run
    <2> QED
      BY <1>4, <2>1
  <1>6. 0 \in S
    <2>1. Piece(x, k, k) = << >>
      <3>1. k \in 0 .. Len(x)
        BY <1>1, <1>2
      <3> HIDE DEF x
      <3> QED
        BY <1>2, <3>1, PieceWhole
    <2>2. k \in k .. num /\ k = k + 0
      BY <1>1
    <2>3. run[0] = State(k)
      BY <1>5, <2>1
    <2>4. Reached(0, k)
      <3> HIDE DEF run, State, num, x
      <3> QED
        BY <2>2, <2>3
    <2> HIDE DEF Reached
    <2> QED
      BY <2>4
  <1>7. ASSUME NEW n \in S PROVE n + 1 \in S
    <2> SUFFICES ASSUME n + 1 <= num - k PROVE \E m : Reached(n + 1, m)
      OBVIOUS
    <2>1. n \in Nat /\ n <= num - k /\ n + 1 \in 1 .. num - k
      BY <1>1
    <2>2. PICK m : Reached(n, m)
      BY <2>1
    <2>3. m \in Nat /\ k <= m /\ m <= num
      BY <1>1, <2>2
    <2>4. run[n + 1] = DrainTurn(v, run[n])
      <3> DEFINE n1 == n + 1
      <3>1. n1 \in 1 .. num - k /\ n1 - 1 = n
        BY <2>1
      <3> HIDE DEF n1, run
      <3>2. run[n1] = DrainTurn(v, run[n1 - 1])
        BY <1>5, <3>1
      <3>3. run[n1] = DrainTurn(v, run[n])
        BY <3>1, <3>2
      <3> QED
        BY <3>3 DEF n1
    <2>5. run[n] = State(m)
      BY <2>2
    <2>6. CASE m < num
      <3>1. m \in 0 .. num - 1
        BY <1>1, <2>3, <2>6
      <3>2. \/ DrainTurn(v, State(m)) = State(m) /\ Short(m)
            \/ /\ DrainTurn(v, State(m)) = [u |-> UnpackAt(c, s, j, m + 1),
                                            out |-> Append(Piece(x, k, m), WriteOf(c, s, m))]
               /\ Fits(m + 1)
        <4> DEFINE o == Piece(x, k, m)
        <4>1. Fits(m)
          BY <2>2
        <4>3. Unpacking(c, s) /\ v.cl = s.cl /\ v.wl = s.wl /\ v.mask = s.mask /\ j \in Nat
          OBVIOUS
        <4>4. m \in 0 .. Count(c.num) - 1 /\ c.bytes * VectorsOf(c, s, m) <= 4 * j
          BY <3>1, <4>1
        <4> HIDE DEF o
        <4>2. Turned(c, s, v, j, m, o)
          BY ONLY <4>3, <4>4, TurnAt
        <4> QED
          BY <4>2 DEF o, Turned
      <3>3. CASE DrainTurn(v, State(m)) = State(m) /\ Short(m)
        <4>1. run[n + 1] = State(m)
          BY <2>4, <2>5, <3>3
        <4>2. Reached(n + 1, m)
          <5> HIDE DEF run, State, Fits, Short
          <5> QED
            BY <2>2, <2>6, <3>3, <4>1
        <4> HIDE DEF Reached
        <4> QED
          BY <4>2
      <3>4. CASE /\ DrainTurn(v, State(m)) = [u |-> UnpackAt(c, s, j, m + 1),
                                              out |-> Append(Piece(x, k, m), WriteOf(c, s, m))]
                 /\ Fits(m + 1)
        <4>1. CASE m = k + n
          <5>1. Append(Piece(x, k, m), WriteOf(c, s, m)) = Piece(x, k, m + 1)
            <6>1. x[m + 1] = WriteOf(c, s, m) /\ m < Len(x)
              BY <1>2, <2>6, <3>1
            <6> HIDE DEF x
            <6>2. Append(Piece(x, k, m), x[m + 1]) = Piece(x, k, m + 1)
              BY <1>1, <1>2, <2>3, <6>1, PieceNext
            <6> QED
              BY <6>1, <6>2
          <5>2. run[n + 1] = State(m + 1)
            BY <2>4, <2>5, <3>4, <5>1
          <5>3. m + 1 \in k .. num /\ m + 1 = k + (n + 1)
            BY <1>1, <2>1, <2>3, <2>6, <4>1
          <5>4. Reached(n + 1, m + 1)
            <6> HIDE DEF run, State, Fits, Short
            <6> QED
              BY <3>4, <5>2, <5>3
          <5> HIDE DEF Reached
          <5> QED
            BY <5>4
        <4>2. CASE m # k + n
          <5>1. Short(m)
            BY <2>2, <4>2
          <5>2. FALSE
            <6> DEFINE z == b * VectorsOf(c, s, m + 1)
            <6>1. z \in Nat
              BY <2>3, UnpackingIs, ProductTypes
            <6>2. 4 * j < z /\ z <= 4 * j
              BY <3>4, <5>1
            <6> HIDE DEF z
            <6> QED
              BY <6>1, <6>2
          <5> QED
            BY <5>2
        <4> QED
          BY <4>1, <4>2
      <3> QED
        BY <3>2, <3>3, <3>4
    <2>7. CASE ~(m < num)
      <3>1. m = num /\ num # k + n
        BY <1>1, <2>1, <2>3, <2>7
      <3> QED
        BY <2>2, <2>7, <3>1
    <2> QED
      BY <2>6, <2>7
  <1>8. S = Nat
    <2> HIDE DEF S
    <2> QED
      BY <1>6, <1>7, Induction, S \subseteq Nat DEF S
  <1>9. PICK m : Reached(num - k, m)
    BY <1>1, <1>8
  <1>10. m \in k .. num /\ run[num - k] = State(m) /\ Fits(m) /\ (m = num \/ (m < num /\ Short(m)))
    <2>1. k + (num - k) = num
      BY <1>1
    <2> QED
      BY <1>9, <2>1
  <1>11. m < num => Short(m)
    BY <1>1, <1>10
  <1>12. Drain(v, u) = [v |-> [v EXCEPT !.state = IF m = num THEN AtCode ELSE UnpackAt(c, s, j, m)],
                        out |-> Piece(x, k, m)]
    <2>1. UnpackAt(c, s, j, m).left = 0 <=> m = num
      BY <1>1, <1>3, <1>10
    <2>2. run[num - k].u = UnpackAt(c, s, j, m) /\ run[num - k].out = Piece(x, k, m)
      BY <1>10
    <2> HIDE DEF run, x
    <2> QED
      BY <1>5, <2>1, <2>2
  <1> QED
    BY <1>10, <1>11, <1>12

(***************************************************************************)
(* A code: its words and its effects.                                      *)
(***************************************************************************)
LEMMA StateOf ==
    ASSUME NEW s \in VifSettings, NEW st
    PROVE  LET v == [s EXCEPT !.state = st]
           IN /\ v.state = st /\ v.cl = s.cl /\ v.wl = s.wl /\ v.base = s.base /\ v.offset = s.offset
              /\ v.itops = s.itops /\ v.dbf = s.dbf /\ v.mask = s.mask
              /\ \A t : [v EXCEPT !.state = t] = [s EXCEPT !.state = t]
              /\ [s EXCEPT !.state = AtCode] = s
  BY DEF VifSettings

LEMMA SettingsAre ==
    ASSUME NEW s \in VifSettings
    PROVE  /\ s.state = AtCode /\ s.cl \in Nat /\ s.wl \in Nat /\ s.base \in Nat /\ s.offset \in Nat
           /\ s.itops \in Nat /\ s.dbf \in BOOLEAN /\ s.mask \in VifMask
  BY DEF VifSettings

LEMMA UnpackWords ==
    ASSUME NEW c, NEW s, Unpacking(c, s)
    PROVE  /\ DataWords(c, s) \in Nat \ {0}
           /\ \A j \in Nat, m \in 0 .. Count(c.num) :
                 /\ m = Count(c.num) /\ c.bytes * VectorsOf(c, s, m) <= 4 * j => DataWords(c, s) <= j
                 /\ m < Count(c.num) /\ 4 * j < c.bytes * VectorsOf(c, s, m + 1) => j < DataWords(c, s)
  <1> DEFINE num == Count(c.num)
             b == c.bytes
             W == DataWords(c, s)
             V(m) == VectorsOf(c, s, m)
  <1>1. num \in Nat \ {0} /\ b \in Nat \ {0} /\ \A m \in Nat : V(m) \in Nat
    BY UnpackingIs
  <1>2. ASSUME NEW m \in Nat, m <= num PROVE b * V(m) \in Nat /\ b * V(m) <= b * V(num)
    <2>1. V(m) <= V(num)
      BY <1>1, <1>2, UnpackingIs, VectorsGrow DEF VectorsOf
    <2> DEFINE p == V(m)
               q == V(num)
    <2>2. p \in Nat /\ q \in Nat /\ p <= q
      BY <1>1, <2>1
    <2> HIDE DEF p, q
    <2>3. b * p \in Nat /\ p * b <= q * b /\ p * b = b * p /\ q * b = b * q
      BY <1>1, <2>2, ProductTypes, ProductMono, ProductLaws
    <2>4. b * p \in Nat /\ b * p <= b * q
      BY <2>3
    <2> QED
      BY <2>4 DEF p, q
  <1>3. b * V(num) \in Nat
    BY <1>1, <1>2
  <1>4. W = WordsFor(b * V(num))
    <2>1. c.op = "unpack"
      BY DEF Unpacking
    <2>2. W = WordsFor(V(num) * b)
      BY <2>1 DEF DataWords, VectorsOf
    <2>3. V(num) * b = b * V(num)
      BY <1>1, ProductLaws
    <2> QED
      BY <2>2, <2>3
  <1> DEFINE B == b * V(num)
  <1>5. W \in Nat /\ \A j \in Nat : W <= j <=> B <= 4 * j
    BY <1>3, <1>4, WordsForIs
  <1>6. b <= B
    <2>1. V(1) = 1
      <3> DEFINE cl == Count(s.cl)
                 wl == Count(s.wl)
      <3>1. cl \in Nat \ {0} /\ wl \in Nat \ {0}
        BY UnpackingIs
      <3>2. V(1) = Vectors(0 + 1, cl, wl)
        BY DEF VectorsOf
      <3> HIDE DEF cl, wl
      <3>3. 0 % wl = 0
        <4>1. 0 * wl = 0 /\ 0 \in 0 .. (wl - 1) /\ 0 \in Nat
          BY <3>1
        <4>2. (0 * wl + 0) % wl = 0
          BY <3>1, <4>1, DivOf
        <4> QED
          BY <4>1, <4>2
      <3>4. Vectors(0 + 1, cl, wl) = Vectors(0, cl, wl) + (IF wl > cl /\ 0 % wl >= cl THEN 0 ELSE 1)
            /\ Vectors(0, cl, wl) = 0
        <4>1. 0 \in Nat
          OBVIOUS
        <4> QED
          BY <3>1, <4>1, VectorsStep, ZenonT(30)
      <3> QED
        BY <3>1, <3>2, <3>3, <3>4
    <2>2. b * V(1) <= B
      BY <1>1, <1>2
    <2>3. b * V(1) = b
      BY <1>1, <2>1
    <2> QED
      BY <2>2, <2>3
  <1>7. W # 0
    <2> HIDE DEF B, W
    <2>1. B \in Nat
      BY <1>3 DEF B
    <2>2. W <= 0 <=> B <= 0
      BY <1>5
    <2> QED
      BY <1>1, <1>5, <1>6, <2>1, <2>2
  <1>8. ASSUME NEW j \in Nat, NEW m \in 0 .. num
        PROVE  /\ m = num /\ b * V(m) <= 4 * j => W <= j
               /\ m < num /\ 4 * j < b * V(m + 1) => j < W
    <2>1. ASSUME m = num, b * V(m) <= 4 * j PROVE W <= j
      BY <1>5, <2>1
    <2>2. ASSUME m < num, 4 * j < b * V(m + 1) PROVE j < W
      <3>1. m + 1 \in Nat /\ m + 1 <= num
        BY <1>1, <2>2
      <3>2. b * V(m + 1) \in Nat /\ b * V(m + 1) <= B
        BY <1>2, <3>1
      <3> DEFINE z == b * V(m + 1)
      <3>3. 4 * j < z /\ z <= B /\ z \in Nat /\ B \in Nat
        BY <1>3, <2>2, <3>2
      <3> HIDE DEF z, B, W
      <3>4. ~(B <= 4 * j)
        BY <3>3
      <3> QED
        BY <1>5, <3>4
    <2> QED
      BY <2>1, <2>2
  <1> QED
    BY <1>5, <1>7, <1>8

LEMMA EffectIs ==
    ASSUME NEW c \in VifCode, NEW s \in VifSettings
    PROVE  /\ Effect(c, s) \in Seq(VifEffect) /\ DataWords(c, s) \in Nat
           /\ c.op = "unpack" => Effect(c, s) = UnpackMeans(c, s) /\ Len(Effect(c, s)) = Count(c.num)
           /\ c.op = "direct" => /\ Len(Effect(c, s)) = Count(c.num) /\ DataWords(c, s) = 4 * Count(c.num)
                                 /\ \A k \in 1 .. Count(c.num) :
                                       Effect(c, s)[k] = [kind |-> "quad", words |-> [j \in 1 .. 4 |-> 4 * (k - 1) + j]]
           /\ c.op = "mpg" => /\ Len(Effect(c, s)) = 2 * Count(c.num) /\ DataWords(c, s) = 2 * Count(c.num)
                              /\ \A k \in 1 .. 2 * Count(c.num) :
                                    Effect(c, s)[k] = [kind |-> "micro", addr |-> (2 * c.addr + k - 1) % MicroSize, word |-> k]
           /\ c.op \in {"mscal", "mscnt"} =>
                 /\ DataWords(c, s) = 0
                 /\ Effect(c, s) = << [kind |-> c.op, top |-> s.base + (IF s.dbf THEN s.offset ELSE 0), itop |-> s.itops] >>
           /\ c.op \in {"stcycl", "offset", "base", "itop", "nop"} => Effect(c, s) = << >> /\ DataWords(c, s) = 0
           /\ c.op = "stmask" => Effect(c, s) = << >> /\ DataWords(c, s) = 1
           /\ c.op \in {"strow", "stcol"} => Effect(c, s) = << >> /\ DataWords(c, s) = 4
  <1> DEFINE x == Effect(c, s)
             num == Count(c.num)
  <1>1. CASE c.op = "unpack"
    <2>1. Unpacking(c, s)
      BY <1>1 DEF Unpacking
    <2>2. x = UnpackMeans(c, s)
      BY <1>1 DEF Effect
    <2> HIDE DEF x
    <2> QED
      BY <1>1, <2>1, <2>2, UnpackSeq, UnpackWords DEF x
  <1>2. CASE c.op = "direct"
    <2>1. num \in Nat \ {0}
      BY <1>2, CodeIs, CountIs
    <2> DEFINE e(k) == [kind |-> "quad", words |-> [j \in 1 .. 4 |-> 4 * (k - 1) + j]]
    <2>2. x = [k \in 1 .. num |-> e(k)] /\ DataWords(c, s) = 4 * num
      BY <1>2 DEF Effect, DataWords
    <2>3. ASSUME NEW k \in 1 .. num PROVE e(k) \in VifEffect
      <3> DEFINE q == [j \in 1 .. 4 |-> 4 * (k - 1) + j]
      <3>1. \A j \in 1 .. 4 : 4 * (k - 1) + j \in Nat
        BY <2>1
      <3>2. q \in Seq(Nat)
        BY <3>1, IsASeq
      <3> HIDE DEF q
      <3>3. [kind |-> "quad", words |-> q] \in VifEffect
        BY <3>2 DEF VifEffect
      <3> QED
        BY <3>3 DEF q
    <2> HIDE DEF x, num, e
    <2>4. x \in Seq(VifEffect)
      BY <2>1, <2>2, <2>3, IsASeq
    <2>5. Len(x) = num /\ \A k \in 1 .. num : x[k] = e(k)
      BY <2>1, <2>2, <2>4, LenProperties
    <2>6. 4 * num \in Nat
      BY <2>1
    <2> QED
      BY <1>2, <2>2, <2>4, <2>5, <2>6 DEF x, num, e
  <1>3. CASE c.op = "mpg"
    <2>1. num \in Nat \ {0} /\ c.addr \in Nat
      BY <1>3, CodeIs, CountIs
    <2> DEFINE n == 2 * num
               a(k) == (2 * c.addr + k - 1) % MicroSize
               e(k) == [kind |-> "micro", addr |-> a(k), word |-> k]
    <2>2. x = [k \in 1 .. n |-> e(k)] /\ DataWords(c, s) = n /\ n \in Nat
      BY <1>3, <2>1 DEF Effect, DataWords
    <2>3. ASSUME NEW k \in 1 .. n PROVE e(k) \in VifEffect
      <3>1. 2 * c.addr + k - 1 \in Nat
        BY <2>1
      <3>2. a(k) \in Nat
        <4> DEFINE z == 2 * c.addr + k - 1
        <4>1. z \in Nat /\ MicroSize \in Nat \ {0}
          BY <3>1, VifAssumption
        <4> HIDE DEF z
        <4>2. z % MicroSize \in Nat
          BY <4>1, SplitOf
        <4> QED
          BY <4>2 DEF z
      <3> HIDE DEF a
      <3> QED
        BY <2>2, <3>2 DEF VifEffect
    <2> HIDE DEF x, n, e
    <2>4. x \in Seq(VifEffect)
      BY <2>2, <2>3, IsASeq
    <2>5. Len(x) = n /\ \A k \in 1 .. n : x[k] = e(k)
      BY <2>2, <2>4, LenProperties
    <2> QED
      BY <1>3, <2>2, <2>4, <2>5 DEF x, n, e
  <1>4. CASE c.op \in {"mscal", "mscnt"}
    <2> DEFINE top == s.base + (IF s.dbf THEN s.offset ELSE 0)
               e == [kind |-> c.op, top |-> top, itop |-> s.itops]
    <2>1. x = << e >> /\ DataWords(c, s) = 0
      BY <1>4 DEF Effect, DataWords
    <2>2. top \in Nat /\ s.itops \in Nat
      BY SettingsAre
    <2> HIDE DEF top
    <2>3. e \in VifEffect
      BY <1>4, <2>2 DEF VifEffect
    <2> HIDE DEF e
    <2>4. << e >> \in Seq(VifEffect)
      BY <2>3
    <2> HIDE DEF x
    <2> QED
      BY <1>4, <2>1, <2>4 DEF x, e, top
  <1>5. CASE c.op \in {"stcycl", "offset", "base", "itop", "nop"}
    <2>1. x = << >> /\ DataWords(c, s) = 0
      BY <1>5 DEF Effect, DataWords
    <2> QED
      BY <1>5, <2>1
  <1>6. CASE c.op = "stmask"
    <2>1. x = << >> /\ DataWords(c, s) = 1
      BY <1>6 DEF Effect, DataWords
    <2> QED
      BY <1>6, <2>1
  <1>7. CASE c.op \in {"strow", "stcol"}
    <2>1. x = << >> /\ DataWords(c, s) = 4
      BY <1>7 DEF Effect, DataWords
    <2> QED
      BY <1>7, <2>1
  <1> QED
    BY <1>1, <1>2, <1>3, <1>4, <1>5, <1>6, <1>7, CodeIs

\* The parser within a code: j of its data words read, k of its effects there.
Midway(c, s, j, st, k) ==
    /\ j \in 0 .. DataWords(c, s) - 1 /\ k \in 0 .. Len(Effect(c, s))
    /\ \/ /\ c.op = "unpack" /\ k < Count(c.num) /\ st = UnpackAt(c, s, j, k)
          /\ c.bytes * VectorsOf(c, s, k) <= 4 * j
       \/ /\ c.op = "direct"
          /\ \E r \in 0 .. 3 :
                /\ j = 4 * k + r
                /\ st = [at |-> "direct", left |-> Count(c.num) - k, buf |-> [p \in 1 .. r |-> 4 * k + p]]
       \/ /\ c.op = "mpg" /\ k = j
          /\ \E a \in Nat : /\ a % MicroSize = (2 * c.addr + j) % MicroSize
                            /\ st = [at |-> "mpg", addr |-> a, left |-> 2 * Count(c.num) - j]
       \/ c.op \in {"strow", "stcol"} /\ k = 0 /\ st = [at |-> c.op, left |-> 4 - j]
       \/ c.op = "stmask" /\ k = 0 /\ st = [at |-> "stmask"]

LEMMA MidwayIs ==
    ASSUME NEW c, NEW s, NEW j, NEW st, NEW k, Midway(c, s, j, st, k)
    PROVE  st.at = c.op /\ c.op \in {"unpack", "direct", "mpg", "strow", "stcol", "stmask"} /\ st # AtCode
  <1>1. st.at = c.op /\ c.op \in {"unpack", "direct", "mpg", "strow", "stcol", "stmask"}
    BY DEF Midway, UnpackAt
  <1> QED
    BY <1>1 DEF AtCode

LEMMA CommandAt ==
    ASSUME NEW c \in VifCode, NEW s \in VifSettings
    PROVE  LET r == VifCommand(s, c)
               x == Effect(c, s)
           IN IF DataWords(c, s) = 0 THEN r.v = Setting(c, s) /\ r.out = x
              ELSE \E st, k : r.v = [s EXCEPT !.state = st] /\ Midway(c, s, 0, st, k) /\ r.out = Piece(x, 0, k)
  <1> DEFINE r == VifCommand(s, c)
             x == Effect(c, s)
             W == DataWords(c, s)
             Begins(st, k) == r.v = [s EXCEPT !.state = st] /\ Midway(c, s, 0, st, k) /\ r.out = Piece(x, 0, k)
  <1>0. x \in Seq(VifEffect) /\ Piece(x, 0, 0) = << >> /\ W \in Nat /\ Len(x) \in Nat
    <2>1. x \in Seq(VifEffect) /\ W \in Nat
      BY EffectIs
    <2> HIDE DEF x
    <2>2. Len(x) \in Nat /\ 0 \in 0 .. Len(x)
      BY <2>1
    <2> QED
      BY <2>1, <2>2, PieceWhole
  <1>s. /\ s.state = AtCode /\ s.cl \in Nat /\ s.wl \in Nat /\ s.base \in Nat /\ s.offset \in Nat
        /\ s.itops \in Nat /\ s.dbf \in BOOLEAN /\ s.mask \in VifMask
    BY SettingsAre
  <1>1. CASE c.op \in {"stcycl", "offset", "base", "itop", "nop"}
    <2>1. W = 0 /\ x = << >>
      BY <1>1, EffectIs
    <2>2. r = [v |-> Setting(c, s), out |-> << >>]
      BY <1>1 DEF VifCommand
    <2> HIDE DEF r, x, W
    <2>3. W = 0 /\ r.v = Setting(c, s) /\ r.out = x
      BY <2>1, <2>2
    <2> QED
      BY <2>3 DEF r, x, W
  <1>2. CASE c.op \in {"mscal", "mscnt"}
    <2>1. W = 0 /\ x = << [kind |-> c.op, top |-> s.base + (IF s.dbf THEN s.offset ELSE 0), itop |-> s.itops] >>
      BY <1>2, EffectIs
    <2>2. r = [v |-> [s EXCEPT !.dbf = ~s.dbf], out |-> << [kind |-> c.op, top |-> Tops(s), itop |-> s.itops] >>]
      BY <1>2 DEF VifCommand, RunVu
    <2>3. Setting(c, s) = [s EXCEPT !.dbf = ~s.dbf]
      BY <1>2 DEF Setting
    <2>4. Tops(s) = s.base + (IF s.dbf THEN s.offset ELSE 0)
      BY DEF Tops
    <2> HIDE DEF r, x, W
    <2>5. W = 0 /\ r.v = Setting(c, s) /\ r.out = x
      BY <2>1, <2>2, <2>3, <2>4
    <2> QED
      BY <2>5 DEF r, x, W
  <1>3. CASE c.op = "stmask"
    <2> DEFINE st == [at |-> "stmask"]
    <2>1. W = 1
      BY <1>3, EffectIs
    <2>2. r = [v |-> [s EXCEPT !.state = st], out |-> << >>]
      BY <1>3 DEF VifCommand
    <2>3. Midway(c, s, 0, st, 0)
      BY <1>0, <1>3, <2>1 DEF Midway
    <2>4. Begins(st, 0)
      BY <1>0, <2>2, <2>3
    <2> HIDE DEF r, x, W, st
    <2> QED
      BY <2>1, <2>4 DEF r, x, W
  <1>4. CASE c.op \in {"strow", "stcol"}
    <2> DEFINE st == [at |-> c.op, left |-> 4]
    <2>1. W = 4
      BY <1>4, EffectIs
    <2>2. r = [v |-> [s EXCEPT !.state = st], out |-> << >>]
      BY <1>4 DEF VifCommand
    <2>3. Midway(c, s, 0, st, 0)
      BY <1>0, <1>4, <2>1 DEF Midway
    <2>4. Begins(st, 0)
      BY <1>0, <2>2, <2>3
    <2> HIDE DEF r, x, W, st
    <2> QED
      BY <2>1, <2>4 DEF r, x, W
  <1>5. CASE c.op = "mpg"
    <2> DEFINE num == Count(c.num)
               a == 2 * c.addr
               st == [at |-> "mpg", addr |-> a, left |-> 2 * num]
    <2>1. W = 2 * num /\ num \in Nat \ {0} /\ c.addr \in Nat /\ a \in Nat
      <3>1. W = 2 * num
        BY <1>5, EffectIs
      <3>2. num \in Nat \ {0} /\ c.addr \in Nat
        BY <1>5, CodeIs, CountIs
      <3> HIDE DEF W, num
      <3> QED
        BY <3>1, <3>2
    <2>2. r = [v |-> [s EXCEPT !.state = st], out |-> << >>]
      BY <1>5 DEF VifCommand
    <2>3. Midway(c, s, 0, st, 0)
      <3>1. 2 * num - 0 = 2 * num /\ a + 0 = a /\ 0 \in 0 .. W - 1
        BY <2>1
      <3>2. a % MicroSize = (2 * c.addr + 0) % MicroSize
        BY <3>1
      <3>3. st = [at |-> "mpg", addr |-> a, left |-> 2 * Count(c.num) - 0]
        BY <3>1
      <3>4. \E z \in Nat : z % MicroSize = (2 * c.addr + 0) % MicroSize
                           /\ st = [at |-> "mpg", addr |-> z, left |-> 2 * Count(c.num) - 0]
        BY <2>1, <3>2, <3>3
      <3> QED
        BY <1>0, <1>5, <3>1, <3>4 DEF Midway
    <2>4. Begins(st, 0)
      BY <1>0, <2>2, <2>3
    <2>5. W # 0
      BY <2>1
    <2> HIDE DEF r, x, W, st
    <2> QED
      BY <2>4, <2>5 DEF r, x, W
  <1>6. CASE c.op = "direct"
    <2> DEFINE num == Count(c.num)
               st == [at |-> "direct", left |-> num, buf |-> << >>]
    <2>1. W = 4 * num /\ num \in Nat \ {0}
      BY <1>6, EffectIs, CodeIs, CountIs
    <2>2. r = [v |-> [s EXCEPT !.state = st], out |-> << >>]
      BY <1>6 DEF VifCommand
    <2>3. Midway(c, s, 0, st, 0)
      <3>1. num - 0 = num /\ 0 = 4 * 0 + 0 /\ 0 \in 0 .. W - 1 /\ 0 \in 0 .. 3
        BY <2>1
      <3>2. [p \in 1 .. 0 |-> 4 * 0 + p] = << >>
        <4> DEFINE q == [p \in 1 .. 0 |-> 4 * 0 + p]
        <4>1. q \in Seq(Nat) /\ Len(q) = 0
          <5>1. q \in Seq(Nat)
            BY IsASeq
          <5>2. DOMAIN q = 1 .. 0 /\ Len(q) \in Nat /\ DOMAIN q = 1 .. Len(q)
            BY <5>1, LenProperties
          <5> QED
            BY <5>1, <5>2
        <4> HIDE DEF q
        <4>2. q = << >>
          BY <4>1, EmptySeq
        <4> QED
          BY <4>2 DEF q
      <3>3. st = [at |-> "direct", left |-> Count(c.num) - 0, buf |-> [p \in 1 .. 0 |-> 4 * 0 + p]]
        BY <3>1, <3>2
      <3>4. \E z \in 0 .. 3 :
                /\ 0 = 4 * 0 + z
                /\ st = [at |-> "direct", left |-> Count(c.num) - 0, buf |-> [p \in 1 .. z |-> 4 * 0 + p]]
        BY <3>1, <3>3
      <3> QED
        BY <1>0, <1>6, <3>1, <3>4 DEF Midway
    <2>4. Begins(st, 0)
      BY <1>0, <2>2, <2>3
    <2>5. W # 0
      BY <2>1
    <2> HIDE DEF r, x, W, st
    <2> QED
      BY <2>4, <2>5 DEF r, x, W
  <1>7. CASE c.op = "unpack"
    <2> DEFINE num == Count(c.num)
               u == UnpackAt(c, s, 0, 0)
    <2>0. Unpacking(c, s)
      BY <1>7 DEF Unpacking
    <2>1. W \in Nat \ {0} /\ num \in Nat \ {0} /\ 0 \in 0 .. num - 1 /\ 0 \in Nat
          /\ x = UnpackMeans(c, s) /\ Len(x) = num
      <3>1. W \in Nat \ {0}
        BY <2>0, UnpackWords
      <3>2. num \in Nat \ {0}
        BY <2>0, UnpackingIs
      <3>3. x = UnpackMeans(c, s) /\ Len(x) = num
        BY <1>7, EffectIs
      <3> HIDE DEF W, num, x
      <3> QED
        BY <3>1, <3>2, <3>3
    <2>2. r = Drain(s, u)
      <3>1. r = Unpack(s, c)
        BY <1>7 DEF VifCommand
      <3>2. VectorsOf(c, s, 0) = 0
        BY <2>0, <2>1, UnpackingIs, VectorsStep DEF VectorsOf
      <3>3. 0 % Count(s.wl) = 0 /\ 0 \div Count(s.wl) = 0
        <4> DEFINE wl == Count(s.wl)
        <4>1. wl \in Nat \ {0}
          BY <2>0, UnpackingIs
        <4> HIDE DEF wl
        <4>2. 0 * wl = 0 /\ 0 \in 0 .. (wl - 1) /\ 0 \in Nat /\ 0 + 0 = 0
          BY <4>1
        <4>3. (0 * wl + 0) % wl = 0 /\ (0 * wl + 0) \div wl = 0
          BY <4>1, <4>2, DivOf
        <4>4. 0 % wl = 0 /\ 0 \div wl = 0
          BY <4>2, <4>3
        <4> QED
          BY <4>4 DEF wl
      <3>4. WriteAt(c, s, 0) = c.addr + (IF c.flg THEN Tops(s) ELSE 0)
        <4> DEFINE B == UnpackBase(c, s)
                   cl == Count(s.cl)
        <4>1. B \in Nat /\ B = c.addr + (IF c.flg THEN Tops(s) ELSE 0) /\ cl \in Nat
          BY <2>0, UnpackingIs DEF UnpackBase, Tops
        <4>2. WriteAt(c, s, 0) = B + (IF cl > Count(s.wl) THEN 0 * cl + 0 ELSE 0)
          BY <3>3 DEF WriteAt
        <4> HIDE DEF B, cl
        <4>3. WriteAt(c, s, 0) = B
          BY <4>1, <4>2
        <4> QED
          BY <4>1, <4>3
      <3>5. c.bytes * 0 = 0 /\ 4 * 0 - 0 = 0 /\ num - 0 = num
        <4> DEFINE b == c.bytes
        <4>1. b \in Nat /\ num \in Nat
          BY <2>0, <2>1, UnpackingIs
        <4> HIDE DEF b, num
        <4>2. b * 0 = 0 /\ num - 0 = num
          BY <4>1
        <4> QED
          BY <4>2 DEF b
      <3>6. u = [at |-> "unpack", addr |-> c.addr + (IF c.flg THEN Tops(s) ELSE 0), bytes |-> c.bytes,
                 flg |-> c.flg, masked |-> c.masked, left |-> num, block_pos |-> 0, held |-> 0, taken |-> 0]
        BY <3>2, <3>3, <3>4, <3>5 DEF UnpackAt
      <3> HIDE DEF u, r
      <3> QED
        BY <3>1, <3>6 DEF Unpack
    <2>3. c.bytes * VectorsOf(c, s, 0) <= 4 * 0
      <3>1. VectorsOf(c, s, 0) = 0
        BY <2>0, <2>1, UnpackingIs, VectorsStep DEF VectorsOf
      <3>2. c.bytes * 0 = 0
        BY <2>0, UnpackingIs
      <3> QED
        BY <3>1, <3>2
    <2>4. PICK m \in 0 .. num :
              /\ Drain(s, u) = [v |-> [s EXCEPT !.state = IF m = num THEN AtCode ELSE UnpackAt(c, s, 0, m)],
                                out |-> Piece(UnpackMeans(c, s), 0, m)]
              /\ c.bytes * VectorsOf(c, s, m) <= 4 * 0
              /\ m < num => 4 * 0 < c.bytes * VectorsOf(c, s, m + 1)
      <3> HIDE DEF num
      <3> QED
        BY <2>0, <2>1, <2>3, DrainAt DEF num
    <2>5. m # num
      <3>1. m = num => W <= 0
        BY <2>0, <2>1, <2>4, UnpackWords
      <3> QED
        BY <2>1, <3>1
    <2> DEFINE st == UnpackAt(c, s, 0, m)
    <2>6. r.v = [s EXCEPT !.state = st] /\ r.out = Piece(x, 0, m)
      <3> HIDE DEF r, st, u
      <3> QED
        BY <2>1, <2>2, <2>4, <2>5 DEF st
    <2>7. Midway(c, s, 0, st, m)
      <3>1. m \in 0 .. Len(x) /\ m < num /\ 0 \in 0 .. W - 1
        BY <2>1, <2>4, <2>5
      <3> QED
        BY <1>7, <2>4, <3>1 DEF Midway
    <2>8. Begins(st, m)
      BY <2>6, <2>7
    <2>9. W # 0
      BY <2>1
    <2> HIDE DEF r, x, W, st
    <2> QED
      BY <2>8, <2>9 DEF r, x, W
  <1> QED
    BY <1>1, <1>2, <1>3, <1>4, <1>5, <1>6, <1>7, CodeIs

LEMMA DataAt1 ==
    ASSUME NEW c \in VifCode, NEW s \in VifSettings, NEW j, NEW st, NEW k, Midway(c, s, j, st, k)
    PROVE  /\ j \in Nat /\ k \in Nat /\ k <= Len(Effect(c, s)) /\ Len(Effect(c, s)) \in Nat
           /\ j + 1 <= DataWords(c, s) /\ DataWords(c, s) \in Nat
  <1> DEFINE x == Effect(c, s)
  <1>1. x \in Seq(VifEffect) /\ DataWords(c, s) \in Nat
    BY EffectIs
  <1> HIDE DEF x
  <1>2. Len(x) \in Nat
    BY <1>1
  <1>3. j \in 0 .. DataWords(c, s) - 1 /\ k \in 0 .. Len(x)
    BY DEF Midway, x
  <1>4. j \in Nat /\ k \in Nat /\ k <= Len(x) /\ j + 1 <= DataWords(c, s)
    BY <1>1, <1>2, <1>3
  <1> QED
    BY <1>1, <1>2, <1>4 DEF x

\* A data word of a code either ends it or leaves the parser midway.
WordDone(c, s, j, k, r) ==
    \/ j + 1 = DataWords(c, s) /\ r.v = Setting(c, s) /\ r.out = Piece(Effect(c, s), k, Len(Effect(c, s)))
    \/ /\ j + 1 < DataWords(c, s)
       /\ \E st, m : /\ r.v = [s EXCEPT !.state = st] /\ Midway(c, s, j + 1, st, m)
                     /\ k <= m /\ r.out = Piece(Effect(c, s), k, m)

LEMMA UnpackAtWord ==
    ASSUME NEW c \in VifCode, NEW s \in VifSettings, NEW j, NEW st, NEW k, Midway(c, s, j, st, k), c.op = "unpack"
    PROVE  WordDone(c, s, j, k, PushOne([s EXCEPT !.state = st], [code |-> FALSE, c |-> c, k |-> j + 1]))
  <1> DEFINE v == [s EXCEPT !.state = st]
             w == [code |-> FALSE, c |-> c, k |-> j + 1]
             r == PushOne(v, w)
             x == Effect(c, s)
             num == Count(c.num)
             W == DataWords(c, s)
             b == c.bytes
             V == VectorsOf(c, s, k)
             u == UnpackAt(c, s, j + 1, k)
  <1>0. Unpacking(c, s)
    BY DEF Unpacking
  <1>1. /\ k < num /\ st = UnpackAt(c, s, j, k) /\ b * V <= 4 * j
        /\ j \in Nat /\ k \in Nat /\ j + 1 <= W /\ W \in Nat
    BY DataAt1 DEF Midway
  <1>2. num \in Nat \ {0} /\ x = UnpackMeans(c, s) /\ Len(x) = num /\ b * V \in Nat
    <2>1. num \in Nat \ {0} /\ b \in Nat /\ V \in Nat
      BY <1>0, <1>1, UnpackingIs
    <2>2. x = UnpackMeans(c, s) /\ Len(x) = num
      BY EffectIs
    <2> QED
      BY <2>1, <2>2, ProductTypes
  <1>3. /\ v.state = st /\ v.cl = s.cl /\ v.wl = s.wl /\ v.mask = s.mask
        /\ \A t : [v EXCEPT !.state = t] = [s EXCEPT !.state = t]
        /\ [s EXCEPT !.state = AtCode] = s
    BY StateOf
  <1>4. [st EXCEPT !.held = st.held + 4] = u
    <2> DEFINE B == b * V
               h == 4 * j - B
               h1 == 4 * (j + 1) - B
               a == WriteAt(c, s, k)
               p == k % Count(s.wl)
    <2>1. h + 4 = h1
      <3> HIDE DEF B
      <3> QED
        BY <1>1, <1>2 DEF B
    <2>2. st = [at |-> "unpack", addr |-> a, bytes |-> b, flg |-> c.flg, masked |-> c.masked,
                left |-> num - k, block_pos |-> p, held |-> h, taken |-> V]
      BY <1>1 DEF UnpackAt
    <2>3. u = [at |-> "unpack", addr |-> a, bytes |-> b, flg |-> c.flg, masked |-> c.masked,
               left |-> num - k, block_pos |-> p, held |-> h1, taken |-> V]
      BY DEF UnpackAt
    <2> HIDE DEF u, h, h1, a, p, V, b, num
    <2>4. st.held = h
      BY <2>2
    <2>5. [st EXCEPT !.held = h1] = u
      BY <2>2, <2>3
    <2> QED
      BY <2>1, <2>4, <2>5
  <1>5. r = Drain(v, u)
    <2>1. st.at = "unpack"
      BY MidwayIs
    <2>2. r = Drain(v, [st EXCEPT !.held = st.held + 4])
      <3> HIDE DEF v
      <3> QED
        BY <1>3, <2>1 DEF PushOne
    <2> QED
      BY <1>4, <2>2
  <1>6. PICK m \in k .. num :
            /\ Drain(v, u) = [v |-> [v EXCEPT !.state = IF m = num THEN AtCode ELSE UnpackAt(c, s, j + 1, m)],
                              out |-> Piece(UnpackMeans(c, s), k, m)]
            /\ b * VectorsOf(c, s, m) <= 4 * (j + 1)
            /\ m < num => 4 * (j + 1) < b * VectorsOf(c, s, m + 1)
    <2> DEFINE j1 == j + 1
    <2>1. j1 \in Nat /\ k \in 0 .. num - 1 /\ b * V <= 4 * j1
      <3> DEFINE B == b * V
      <3>1. B <= 4 * j /\ B \in Nat
        BY <1>1, <1>2
      <3> HIDE DEF B
      <3>2. B <= 4 * j1
        BY <1>1, <3>1
      <3> QED
        BY <1>1, <1>2, <3>2 DEF B
    <2> HIDE DEF j1, v, num, b
    <2>2. \E m \in k .. num :
              /\ Drain(v, UnpackAt(c, s, j1, k)) =
                    [v |-> [v EXCEPT !.state = IF m = num THEN AtCode ELSE UnpackAt(c, s, j1, m)],
                     out |-> Piece(UnpackMeans(c, s), k, m)]
              /\ b * VectorsOf(c, s, m) <= 4 * j1
              /\ m < num => 4 * j1 < b * VectorsOf(c, s, m + 1)
      BY <1>0, <1>3, <2>1, DrainAt DEF num, b
    <2> QED
      BY <2>2 DEF j1
  <1>7. m \in Nat /\ k <= m /\ m <= num /\ j + 1 \in Nat
    BY <1>1, <1>2
  <1>8. Setting(c, s) = s
    BY DEF Setting
  <1>9. /\ r.v = [s EXCEPT !.state = IF m = num THEN AtCode ELSE UnpackAt(c, s, j + 1, m)]
        /\ r.out = Piece(x, k, m)
    <2> DEFINE t == IF m = num THEN AtCode ELSE UnpackAt(c, s, j + 1, m)
    <2>1. r = [v |-> [v EXCEPT !.state = t], out |-> Piece(x, k, m)]
      BY <1>2, <1>5, <1>6
    <2>2. [v EXCEPT !.state = t] = [s EXCEPT !.state = t]
      BY <1>3
    <2> HIDE DEF r, v, x, t
    <2>3. r.v = [s EXCEPT !.state = t] /\ r.out = Piece(x, k, m)
      BY <2>1, <2>2
    <2> QED
      BY <2>3 DEF t
  <1>10. CASE m = num
    <2>1. W <= j + 1
      <3> HIDE DEF W, num, b
      <3>1. m \in 0 .. num
        BY <1>2, <1>7
      <3> QED
        BY <1>0, <1>6, <1>7, <1>10, <3>1, UnpackWords DEF W, num, b
    <2>2. j + 1 = W
      BY <1>1, <2>1
    <2> HIDE DEF r, x, W, num
    <2>3. r.v = Setting(c, s) /\ r.out = Piece(x, k, Len(x))
      BY <1>2, <1>3, <1>8, <1>9, <1>10
    <2> QED
      BY <2>2, <2>3 DEF WordDone, r, x, W
  <1>11. CASE m # num
    <2> DEFINE t == UnpackAt(c, s, j + 1, m)
    <2>1. m < num
      BY <1>2, <1>7, <1>11
    <2>2. j + 1 < W
      <3> HIDE DEF W, num, b
      <3>1. m \in 0 .. num
        BY <1>2, <1>7
      <3> QED
        BY <1>0, <1>6, <1>7, <2>1, <3>1, UnpackWords DEF W, num, b
    <2>3. Midway(c, s, j + 1, t, m)
      <3>1. j + 1 \in 0 .. W - 1 /\ m \in 0 .. Len(x)
        BY <1>1, <1>2, <1>7, <2>2
      <3> QED
        BY <1>6, <2>1, <3>1 DEF Midway
    <2>4. r.v = [s EXCEPT !.state = t] /\ r.out = Piece(x, k, m) /\ k <= m
      <3> HIDE DEF r, x, t
      <3> QED
        BY <1>7, <1>9, <1>11 DEF t
    <2> HIDE DEF r, x, W, t
    <2> QED
      BY <2>2, <2>3, <2>4 DEF WordDone, r, x, W
  <1> QED
    BY <1>10, <1>11

LEMMA PlainAtWord ==
    ASSUME NEW c \in VifCode, NEW s \in VifSettings, NEW j, NEW st, NEW k, Midway(c, s, j, st, k),
           c.op \in {"stmask", "strow", "stcol"}
    PROVE  WordDone(c, s, j, k, PushOne([s EXCEPT !.state = st], [code |-> FALSE, c |-> c, k |-> j + 1]))
  <1> DEFINE v == [s EXCEPT !.state = st]
             w == [code |-> FALSE, c |-> c, k |-> j + 1]
             r == PushOne(v, w)
             x == Effect(c, s)
             W == DataWords(c, s)
  <1>1. j \in Nat /\ j + 1 <= W /\ W \in Nat /\ k = 0 /\ st.at = c.op
    BY DataAt1, MidwayIs DEF Midway
  <1>2. x = << >> /\ (c.op = "stmask" => W = 1) /\ (c.op # "stmask" => W = 4)
    BY EffectIs
  <1>3. Len(x) = 0 /\ Piece(x, 0, 0) = << >>
    <2>1. << >> \in Seq(VifEffect) /\ Len(<< >>) = 0 /\ 0 \in 0 .. 0
      OBVIOUS
    <2>2. Piece(<< >>, 0, 0) = << >>
      BY <2>1, PieceWhole
    <2> QED
      BY <1>2, <2>1, <2>2
  <1>4. /\ v.state = st /\ v.mask = s.mask
        /\ \A t : [v EXCEPT !.state = t] = [s EXCEPT !.state = t]
        /\ [s EXCEPT !.state = AtCode] = s
    BY StateOf
  <1>5. CASE c.op = "stmask"
    <2>1. r = [v |-> [v EXCEPT !.state = AtCode, !.mask = c.mask], out |-> << >>]
      <3>1. w.c.mask = c.mask /\ v.state.at = "stmask"
        BY <1>1, <1>4, <1>5
      <3> HIDE DEF v, w
      <3> QED
        BY <3>1 DEF PushOne
    <2>2. [v EXCEPT !.state = AtCode, !.mask = c.mask] = Setting(c, s)
      <3>1. Setting(c, s) = [s EXCEPT !.mask = c.mask]
        BY <1>5 DEF Setting
      <3>2. [v EXCEPT !.state = AtCode, !.mask = c.mask] = [[s EXCEPT !.state = AtCode] EXCEPT !.mask = c.mask]
        BY DEF VifSettings
      <3> QED
        BY <1>4, <3>1, <3>2
    <2>3. j + 1 = W
      BY <1>1, <1>2, <1>5
    <2> HIDE DEF r, x, W, v
    <2>4. r.v = Setting(c, s) /\ r.out = Piece(x, k, Len(x))
      BY <1>1, <1>3, <2>1, <2>2
    <2> QED
      BY <2>3, <2>4 DEF WordDone, r, x, W, v
  <1>6. CASE c.op # "stmask"
    <2>1. r = [v |-> [v EXCEPT !.state = Taken(v)], out |-> << >>]
      <3>1. v.state.at \in {"strow", "stcol"}
        BY <1>1, <1>4, <1>6
      <3> HIDE DEF v, w
      <3> QED
        BY <3>1 DEF PushOne
    <2>2. st = [at |-> c.op, left |-> 4 - j] /\ j \in 0 .. 3 /\ W = 4
      BY <1>1, <1>2, <1>6 DEF Midway
    <2>3. Taken(v) = IF j = 3 THEN AtCode ELSE [at |-> c.op, left |-> 4 - (j + 1)]
      <3>1. Taken(v) = IF st.left = 1 THEN AtCode ELSE [st EXCEPT !.left = st.left - 1]
        <4> HIDE DEF v
        <4> QED
          BY <1>4 DEF Taken
      <3>2. st.left = 4 - j /\ (4 - j) - 1 = 4 - (j + 1) /\ (4 - j = 1 <=> j = 3)
        BY <2>2
      <3>3. [st EXCEPT !.left = 4 - (j + 1)] = [at |-> c.op, left |-> 4 - (j + 1)]
        BY <2>2
      <3> HIDE DEF v
      <3> QED
        BY <3>1, <3>2, <3>3
    <2>4. Setting(c, s) = s
      BY <1>6 DEF Setting
    <2> HIDE DEF r, x, W, v
    <2>5. CASE j = 3
      <3>1. r.v = Setting(c, s) /\ r.out = Piece(x, k, Len(x)) /\ j + 1 = W
        <4>1. r.v = [v EXCEPT !.state = AtCode] /\ r.out = << >>
          BY <2>1, <2>3, <2>5
        <4>2. [v EXCEPT !.state = AtCode] = s
          BY <1>4
        <4> QED
          BY <1>1, <1>3, <2>2, <2>4, <2>5, <4>1, <4>2
      <3> QED
        BY <3>1 DEF WordDone, r, x, W, v
    <2>6. CASE j # 3
      <3> DEFINE t == [at |-> c.op, left |-> 4 - (j + 1)]
      <3>1. r.v = [s EXCEPT !.state = t] /\ r.out = Piece(x, k, 0) /\ k <= 0 /\ j + 1 < W /\ j + 1 \in 0 .. W - 1
        <4>1. r.v = [v EXCEPT !.state = t] /\ r.out = << >>
          BY <2>1, <2>3, <2>6
        <4>2. [v EXCEPT !.state = t] = [s EXCEPT !.state = t]
          BY <1>4
        <4> HIDE DEF t
        <4>3. r.v = [s EXCEPT !.state = t]
          BY <4>1, <4>2
        <4> QED
          BY <1>1, <1>3, <2>2, <2>6, <4>1, <4>3
      <3>2. Midway(c, s, j + 1, t, 0)
        BY <1>3, <1>6, <3>1 DEF Midway, x, W
      <3> HIDE DEF t
      <3> QED
        BY <3>1, <3>2 DEF WordDone, r, x, W, v
    <2> QED
      BY <2>5, <2>6
  <1> QED
    BY <1>5, <1>6

LEMMA MpgAtWord ==
    ASSUME NEW c \in VifCode, NEW s \in VifSettings, NEW j, NEW st, NEW k, Midway(c, s, j, st, k), c.op = "mpg"
    PROVE  WordDone(c, s, j, k, PushOne([s EXCEPT !.state = st], [code |-> FALSE, c |-> c, k |-> j + 1]))
  <1> DEFINE v == [s EXCEPT !.state = st]
             w == [code |-> FALSE, c |-> c, k |-> j + 1]
             r == PushOne(v, w)
             x == Effect(c, s)
             W == DataWords(c, s)
             M == MicroSize
  <1>1. j \in Nat /\ j + 1 <= W /\ W \in Nat /\ k = j /\ st.at = "mpg"
    BY DataAt1, MidwayIs DEF Midway
  <1>2. PICK a \in Nat : a % M = (2 * c.addr + j) % M /\ st = [at |-> "mpg", addr |-> a, left |-> 2 * Count(c.num) - j]
    BY DEF Midway
  <1>3. /\ W = 2 * Count(c.num) /\ Len(x) = W /\ x \in Seq(VifEffect)
        /\ \A n \in 1 .. W : x[n] = [kind |-> "micro", addr |-> (2 * c.addr + n - 1) % M, word |-> n]
    BY EffectIs
  <1>4. /\ v.state = st
        /\ \A t : [v EXCEPT !.state = t] = [s EXCEPT !.state = t]
        /\ [s EXCEPT !.state = AtCode] = s
    BY StateOf
  <1>5. c.addr \in Nat /\ M \in Nat \ {0}
    BY CodeIs, VifAssumption
  <1> DEFINE T == Taken(v)
             n == W - j
             a1 == (a + 1) % M
             t == [at |-> "mpg", addr |-> a1, left |-> n - 1]
             e == [kind |-> "micro", addr |-> a % M, word |-> j + 1]
  <1>6. st = [at |-> "mpg", addr |-> a, left |-> n] /\ n \in Nat \ {0} /\ n - 1 = W - (j + 1) /\ (n = 1 <=> j + 1 = W)
    <2> HIDE DEF W
    <2> QED
      BY <1>1, <1>2, <1>3
  <1>7. T = IF n = 1 THEN AtCode ELSE [at |-> "mpg", addr |-> a, left |-> n - 1]
    <2> HIDE DEF v, n
    <2>1. T = IF st.left = 1 THEN AtCode ELSE [st EXCEPT !.left = st.left - 1]
      BY <1>4 DEF Taken
    <2>2. st.left = n /\ [st EXCEPT !.left = n - 1] = [at |-> "mpg", addr |-> a, left |-> n - 1]
      BY <1>6
    <2> HIDE DEF T
    <2> QED
      BY <2>1, <2>2
  <1>8. r = [v |-> [v EXCEPT !.state = IF n = 1 THEN AtCode ELSE t], out |-> << e >>]
    <2>1. r = MpgWord(v, w)
      <3>1. v.state.at = "mpg"
        BY <1>1, <1>4
      <3> HIDE DEF v, w
      <3> QED
        BY <3>1 DEF PushOne
    <2>2. w.k = j + 1 /\ v.state.addr = a
      <3> HIDE DEF v, n
      <3> QED
        BY <1>4, <1>6
    <2>3. MpgWord(v, w) = [v |-> [v EXCEPT !.state = IF T = AtCode THEN AtCode ELSE [T EXCEPT !.addr = (T.addr + 1) % M]],
                           out |-> << e >>]
      <3> HIDE DEF v, w
      <3> QED
        BY <2>2 DEF MpgWord
    <2>4. (IF T = AtCode THEN AtCode ELSE [T EXCEPT !.addr = (T.addr + 1) % M]) = IF n = 1 THEN AtCode ELSE t
      <3>1. CASE n = 1
        BY <1>7, <3>1
      <3>2. CASE n # 1
        <4>1. T = [at |-> "mpg", addr |-> a, left |-> n - 1]
          BY <1>7, <3>2
        <4>2. T # AtCode
          BY <4>1 DEF AtCode
        <4> HIDE DEF T, n
        <4>3. T.addr = a /\ [T EXCEPT !.addr = a1] = t
          BY <4>1
        <4> QED
          BY <3>2, <4>2, <4>3
      <3> QED
        BY <3>1, <3>2
    <2> HIDE DEF r, v, w, T, t, e, n
    <2> QED
      BY <2>1, <2>3, <2>4
  <1>9. << e >> = Piece(x, j, j + 1)
    <2> DEFINE i == j + 1
    <2>1. i \in 1 .. W /\ i - 1 = j /\ 2 * c.addr + i - 1 = 2 * c.addr + j
      BY <1>1, <1>5
    <2> HIDE DEF i
    <2>2. x[i] = [kind |-> "micro", addr |-> (2 * c.addr + i - 1) % M, word |-> i]
      BY <1>3, <2>1
    <2>3. x[i] = [kind |-> "micro", addr |-> a % M, word |-> i]
      BY <1>2, <2>1, <2>2
    <2>4. x[j + 1] = e
      BY <2>3 DEF i
    <2>5. j \in Nat /\ j <= j /\ j < Len(x)
      BY <1>1, <1>3
    <2> HIDE DEF x, e
    <2>6. << x[j + 1] >> = Piece(x, j, j + 1)
      BY <1>3, <2>5, PieceNext
    <2> QED
      BY <2>4, <2>6
  <1>10. r.out = Piece(x, k, j + 1) /\ r.v = [s EXCEPT !.state = IF n = 1 THEN AtCode ELSE t]
    <2> DEFINE z == IF n = 1 THEN AtCode ELSE t
    <2>1. [v EXCEPT !.state = z] = [s EXCEPT !.state = z]
      BY <1>4
    <2>2. r.v = [v EXCEPT !.state = z] /\ r.out = << e >>
      <3> HIDE DEF r, v, z, e
      <3> QED
        BY <1>8 DEF z
    <2> HIDE DEF r, v, z, e, x
    <2>3. r.v = [s EXCEPT !.state = z] /\ r.out = Piece(x, k, j + 1)
      BY <1>1, <1>9, <2>1, <2>2
    <2> QED
      BY <2>3 DEF z
  <1>11. CASE j + 1 = W
    <2>1. Setting(c, s) = s
      BY DEF Setting
    <2> HIDE DEF r, x, W, n
    <2>2. r.v = Setting(c, s) /\ r.out = Piece(x, k, Len(x))
      BY <1>3, <1>4, <1>6, <1>10, <1>11, <2>1
    <2> QED
      BY <1>11, <2>2 DEF WordDone, r, x, W
  <1>12. CASE j + 1 # W
    <2>1. r.v = [s EXCEPT !.state = t] /\ j + 1 < W
      <3> HIDE DEF r, n, t, W
      <3> QED
        BY <1>1, <1>6, <1>10, <1>12
    <2>2. Midway(c, s, j + 1, t, j + 1)
      <3>1. j + 1 \in 0 .. W - 1 /\ j + 1 \in 0 .. Len(x)
        BY <1>1, <1>3, <2>1
      <3>2. a1 \in Nat
        <4>1. a + 1 \in Nat
          OBVIOUS
        <4> QED
          BY <1>5, <4>1, SplitOf
      <3>3. a1 % M = (2 * c.addr + (j + 1)) % M
        <4> DEFINE z == 2 * c.addr + j
        <4>1. z \in Nat /\ z + 1 = 2 * c.addr + (j + 1) /\ a + 1 \in Nat /\ 0 \in Nat /\ 1 \in Nat
          BY <1>1, <1>5
        <4>2. a % M = z % M
          BY <1>2
        <4> HIDE DEF z
        <4>3. ((a % M) + 1) % M = (a + 1) % M /\ ((z % M) + 1) % M = (z + 1) % M
          BY <1>5, <4>1, ResidueOfSum
        <4>4. (a + 1) % M = (z + 1) % M
          BY <4>2, <4>3
        <4>5. ((a + 1) % M) % M = (a + 1) % M
          <5> DEFINE y == a + 1
                     f == y % M
          <5>1. y \in Nat
            BY <4>1
          <5> HIDE DEF y
          <5>2. f \in 0 .. (M - 1)
            BY <1>5, <5>1, SplitOf
          <5> HIDE DEF f
          <5>3. 0 * M = 0 /\ 0 \in Nat /\ 0 + f = f
            BY <1>5, <5>2
          <5>4. (0 * M + f) % M = f
            BY <1>5, <5>2, <5>3, DivOf
          <5>5. f % M = f
            BY <5>3, <5>4
          <5> QED
            BY <5>5 DEF f, y
        <4> QED
          BY <4>1, <4>4, <4>5
      <3>4. t = [at |-> "mpg", addr |-> a1, left |-> 2 * Count(c.num) - (j + 1)]
        BY <1>3, <1>6
      <3>5. \E z \in Nat : z % M = (2 * c.addr + (j + 1)) % M
                           /\ t = [at |-> "mpg", addr |-> z, left |-> 2 * Count(c.num) - (j + 1)]
        BY <3>2, <3>3, <3>4
      <3> HIDE DEF t
      <3> QED
        BY <3>1, <3>5 DEF Midway
    <2>3. k <= j + 1
      BY <1>1
    <2> HIDE DEF r, x, W, t
    <2> QED
      BY <1>10, <2>1, <2>2, <2>3 DEF WordDone, r, x, W
  <1> QED
    BY <1>11, <1>12

LEMMA DirectAtWord ==
    ASSUME NEW c \in VifCode, NEW s \in VifSettings, NEW j, NEW st, NEW k, Midway(c, s, j, st, k), c.op = "direct"
    PROVE  WordDone(c, s, j, k, PushOne([s EXCEPT !.state = st], [code |-> FALSE, c |-> c, k |-> j + 1]))
  <1> DEFINE v == [s EXCEPT !.state = st]
             w == [code |-> FALSE, c |-> c, k |-> j + 1]
             r == PushOne(v, w)
             x == Effect(c, s)
             W == DataWords(c, s)
             num == Count(c.num)
             B(i, m) == [p \in 1 .. m |-> 4 * i + p]
  <1>1. j \in Nat /\ k \in Nat /\ j + 1 <= W /\ W \in Nat /\ st.at = "direct"
    <2>1. j \in Nat /\ k \in Nat /\ j + 1 <= W /\ W \in Nat
      BY ONLY c \in VifCode, s \in VifSettings, Midway(c, s, j, st, k), DataAt1
    <2>2. st.at = "direct"
      BY MidwayIs
    <2> QED
      BY <2>1, <2>2
  <1>2. PICK m \in 0 .. 3 : j = 4 * k + m /\ st = [at |-> "direct", left |-> num - k, buf |-> B(k, m)]
    BY DEF Midway
  <1>3. /\ W = 4 * num /\ Len(x) = num /\ x \in Seq(VifEffect)
        /\ \A n \in 1 .. num : x[n] = [kind |-> "quad", words |-> [i \in 1 .. 4 |-> 4 * (n - 1) + i]]
    BY EffectIs
  <1>4. /\ v.state = st
        /\ \A t : [v EXCEPT !.state = t] = [s EXCEPT !.state = t]
        /\ [s EXCEPT !.state = AtCode] = s
    BY StateOf
  <1>5. num \in Nat /\ k < num
    <2>1. num \in Nat
      BY CodeIs, CountIs
    <2> HIDE DEF num
    <2> QED
      BY <1>1, <1>2, <1>3, <2>1
  <1>6. ASSUME NEW n \in 0 .. 4 PROVE B(k, n) \in Seq(Nat) /\ Len(B(k, n)) = n /\ \A p \in 1 .. n : B(k, n)[p] = 4 * k + p
    <2> DEFINE q == B(k, n)
    <2>1. \A p \in 1 .. n : 4 * k + p \in Nat
      BY <1>1
    <2>2. q \in Seq(Nat)
      BY <2>1, IsASeq
    <2>3. q = [p \in 1 .. n |-> 4 * k + p]
      OBVIOUS
    <2> HIDE DEF q
    <2>4. Len(q) = n /\ \A p \in 1 .. n : q[p] = 4 * k + p
      BY <2>2, <2>3, LenProperties
    <2> QED
      BY <2>2, <2>4 DEF q
  <1>7. Append(B(k, m), j + 1) = B(k, m + 1)
    <2>1. m \in 0 .. 4 /\ m + 1 \in 0 .. 4 /\ j + 1 \in Nat /\ j + 1 = 4 * k + (m + 1) /\ m \in Nat
      BY <1>1, <1>2
    <2> DEFINE p == B(k, m)
               q == B(k, m + 1)
               z == Append(p, j + 1)
    <2>2. /\ p \in Seq(Nat) /\ Len(p) = m /\ (\A i \in 1 .. m : p[i] = 4 * k + i)
          /\ q \in Seq(Nat) /\ Len(q) = m + 1 /\ (\A i \in 1 .. m + 1 : q[i] = 4 * k + i)
      BY <1>6, <2>1
    <2> HIDE DEF p, q
    <2>3. /\ z \in Seq(Nat) /\ Len(z) = Len(p) + 1 /\ z[Len(p) + 1] = j + 1
          /\ \A i \in 1 .. Len(p) : z[i] = p[i]
      BY <2>1, <2>2, AppendProperties
    <2> HIDE DEF z
    <2>4. ASSUME NEW i \in 1 .. Len(z) PROVE z[i] = q[i]
      <3>1. i \in 1 .. m + 1 /\ (i \in 1 .. m \/ i = m + 1)
        BY <2>1, <2>2, <2>3
      <3>2. q[i] = 4 * k + i
        BY <2>2, <3>1
      <3>3. CASE i \in 1 .. m
        BY <2>2, <2>3, <3>2, <3>3
      <3>4. CASE i = m + 1
        BY <2>1, <2>2, <2>3, <3>2, <3>4
      <3> QED
        BY <3>1, <3>3, <3>4
    <2>5. Len(z) = Len(q)
      BY <2>2, <2>3
    <2>6. z = q
      BY <2>2, <2>3, <2>4, <2>5, SeqEqual
    <2> QED
      BY <2>6 DEF z, p, q
  <1>8. r = DirectWord(v, w)
    <2>1. v.state.at = "direct"
      BY <1>1, <1>4
    <2> HIDE DEF v, w
    <2> QED
      BY <2>1 DEF PushOne
  <1>9. w.k = j + 1 /\ st.left = num - k /\ st.buf = B(k, m) /\ Append(st.buf, w.k) = B(k, m + 1)
    BY <1>2, <1>7
  <1>10. Len(B(k, m + 1)) = m + 1
    <2>1. m + 1 \in 0 .. 4
      BY <1>2
    <2> HIDE DEF B
    <2> QED
      BY <1>6, <2>1
  <1> DEFINE e == [kind |-> "quad", words |-> B(k, 4)]
             t == [at |-> "direct", left |-> num - k, buf |-> B(k, m + 1)]
             t4 == [at |-> "direct", left |-> num - (k + 1), buf |-> << >>]
  <1>11. CASE m # 3
    <2>1. m + 1 # 4 /\ m + 1 \in 0 .. 3 /\ j + 1 = 4 * k + (m + 1) /\ j + 1 < W
      <3>1. m \in 0 .. 3 /\ j = 4 * k + m
        BY <1>2
      <3> HIDE DEF W, num
      <3> QED
        BY <1>1, <1>3, <1>5, <1>11, <3>1
    <2>2. r = [v |-> [v EXCEPT !.state = [st EXCEPT !.buf = B(k, m + 1)]], out |-> << >>]
      <3> HIDE DEF v, w, B
      <3>1. v.state = st /\ Append(v.state.buf, w.k) = B(k, m + 1) /\ ~(Len(B(k, m + 1)) = 4)
        BY <1>4, <1>9, <1>10, <2>1
      <3>2. DirectWord(v, w) = [v |-> [v EXCEPT !.state = [v.state EXCEPT !.buf = Append(v.state.buf, w.k)]], out |-> << >>]
        BY <3>1 DEF DirectWord
      <3> QED
        BY <1>8, <3>1, <3>2
    <2>3. [st EXCEPT !.buf = B(k, m + 1)] = t
      <3> DEFINE b == B(k, m)
                 b2 == B(k, m + 1)
                 n == num - k
      <3>1. st = [at |-> "direct", left |-> n, buf |-> b]
        BY <1>2
      <3> HIDE DEF b, b2, n
      <3>2. [st EXCEPT !.buf = b2] = [at |-> "direct", left |-> n, buf |-> b2]
        BY <3>1
      <3> QED
        BY <3>2 DEF b2, n
    <2>4. r.v = [s EXCEPT !.state = t] /\ r.out = << >>
      <3>1. [v EXCEPT !.state = t] = [s EXCEPT !.state = t]
        BY <1>4
      <3> HIDE DEF r, v, t
      <3> QED
        BY <2>2, <2>3, <3>1
    <2>5. Midway(c, s, j + 1, t, k)
      <3>1. j + 1 \in 0 .. W - 1 /\ k \in 0 .. Len(x)
        BY <1>1, <1>3, <1>5, <2>1
      <3>2. \E n \in 0 .. 3 :
                /\ j + 1 = 4 * k + n
                /\ t = [at |-> "direct", left |-> Count(c.num) - k, buf |-> [p \in 1 .. n |-> 4 * k + p]]
        BY <2>1
      <3> HIDE DEF t
      <3> QED
        BY <3>1, <3>2 DEF Midway
    <2>6. r.out = Piece(x, k, k)
      <3>1. k \in 0 .. Len(x)
        BY <1>1, <1>3, <1>5
      <3> HIDE DEF x, r
      <3>2. Piece(x, k, k) = << >>
        BY <1>3, <3>1, PieceWhole
      <3> QED
        BY <2>4, <3>2
    <2>7. k <= k
      BY <1>1
    <2> HIDE DEF r, x, W, t
    <2> QED
      BY <2>1, <2>4, <2>5, <2>6, <2>7 DEF WordDone, r, x, W
  <1>12. CASE m = 3
    <2>1. m + 1 = 4 /\ j + 1 = 4 * (k + 1)
      BY <1>1, <1>2, <1>12
    <2> DEFINE z == IF num - k = 1 THEN AtCode ELSE t4
    <2>2. r = [v |-> [v EXCEPT !.state = z], out |-> << e >>]
      <3>1. B(k, m + 1) = B(k, 4) /\ Len(B(k, 4)) = 4
        BY <1>10, <2>1
      <3>2. [st EXCEPT !.buf = << >>, !.left = st.left - 1] = t4
        <4> DEFINE b == B(k, m)
                   n == num - k
                   n2 == num - (k + 1)
                   g == [st EXCEPT !.buf = << >>]
        <4>1. (num - k) - 1 = num - (k + 1)
          BY <1>1, <1>5
        <4>2. st = [at |-> "direct", left |-> n, buf |-> b] /\ st.left - 1 = n2
          BY <1>2, <1>9, <4>1
        <4> HIDE DEF b, n, n2
        <4>3. [st EXCEPT !.buf = << >>, !.left = st.left - 1] = [g EXCEPT !.left = n2]
          BY <4>2
        <4>4. g = [at |-> "direct", left |-> n, buf |-> << >>]
          BY <4>2
        <4> HIDE DEF g
        <4>5. [g EXCEPT !.left = n2] = [at |-> "direct", left |-> n2, buf |-> << >>]
          BY <4>4
        <4> QED
          BY <4>3, <4>5 DEF n2
      <3> HIDE DEF v, w, B, num, t4
      <3>3. v.state = st /\ Append(v.state.buf, w.k) = B(k, 4) /\ Len(B(k, 4)) = 4
        BY <1>4, <1>9, <3>1
      <3>4. DirectWord(v, w) = [v |-> [v EXCEPT !.state = IF v.state.left = 1 THEN AtCode
                                                          ELSE [v.state EXCEPT !.buf = << >>, !.left = v.state.left - 1]],
                                out |-> << [kind |-> "quad", words |-> Append(v.state.buf, w.k)] >>]
        BY <3>3 DEF DirectWord
      <3> QED
        BY <1>8, <1>9, <3>2, <3>3, <3>4
    <2>3. r.v = [s EXCEPT !.state = z] /\ r.out = << e >>
      <3>1. [v EXCEPT !.state = z] = [s EXCEPT !.state = z]
        BY <1>4
      <3> HIDE DEF r, v, z, e
      <3> QED
        BY <2>2, <3>1
    <2>4. << e >> = Piece(x, k, k + 1)
      <3>1. k + 1 \in 1 .. num /\ (k + 1) - 1 = k
        BY <1>1, <1>5
      <3> DEFINE i == k + 1
      <3>2. i \in 1 .. num /\ i - 1 = k
        BY <3>1
      <3> HIDE DEF i
      <3>3. x[i] = [kind |-> "quad", words |-> [p \in 1 .. 4 |-> 4 * (i - 1) + p]]
        BY <1>3, <3>2
      <3>4. x[i] = e
        BY <3>2, <3>3
      <3>5. x[k + 1] = e
        BY <3>4 DEF i
      <3>6. k <= k /\ k < Len(x)
        BY <1>1, <1>3, <1>5
      <3> HIDE DEF x, e
      <3>7. << x[k + 1] >> = Piece(x, k, k + 1)
        BY <1>1, <1>3, <3>6, PieceNext
      <3> QED
        BY <3>5, <3>7
    <2>5. CASE num - k = 1
      <3>1. k + 1 = num /\ j + 1 = W
        <4> HIDE DEF W, num
        <4> QED
          BY <1>1, <1>3, <1>5, <2>1, <2>5
      <3>2. Setting(c, s) = s
        BY DEF Setting
      <3>3. z = AtCode
        BY <2>5
      <3> HIDE DEF r, x, W, z, e, num
      <3>4. r.v = Setting(c, s) /\ r.out = Piece(x, k, Len(x))
        BY <1>3, <1>4, <2>3, <2>4, <3>1, <3>2, <3>3
      <3> QED
        BY <3>1, <3>4 DEF WordDone, r, x, W
    <2>6. CASE num - k # 1
      <3>1. k + 1 < num /\ j + 1 < W
        <4> HIDE DEF W, num
        <4> QED
          BY <1>1, <1>3, <1>5, <2>1, <2>6
      <3>2. Midway(c, s, j + 1, t4, k + 1)
        <4>1. j + 1 \in 0 .. W - 1 /\ k + 1 \in 0 .. Len(x)
          BY <1>1, <1>3, <1>5, <3>1
        <4>2. [p \in 1 .. 0 |-> 4 * (k + 1) + p] = << >>
          <5> DEFINE q == [p \in 1 .. 0 |-> 4 * (k + 1) + p]
          <5>1. q \in Seq(Nat)
            BY IsASeq
          <5>2. DOMAIN q = 1 .. 0 /\ Len(q) \in Nat /\ DOMAIN q = 1 .. Len(q)
            BY <5>1, LenProperties
          <5> HIDE DEF q
          <5>3. Len(q) = 0
            BY <5>2
          <5>4. q = << >>
            BY <5>1, <5>3, EmptySeq
          <5> QED
            BY <5>4 DEF q
        <4>3. t4 = [at |-> "direct", left |-> Count(c.num) - (k + 1), buf |-> [p \in 1 .. 0 |-> 4 * (k + 1) + p]]
          BY <4>2
        <4>4. j + 1 = 4 * (k + 1) + 0 /\ 0 \in 0 .. 3
          BY <1>1, <2>1
        <4>5. \E n \in 0 .. 3 :
                  /\ j + 1 = 4 * (k + 1) + n
                  /\ t4 = [at |-> "direct", left |-> Count(c.num) - (k + 1), buf |-> [p \in 1 .. n |-> 4 * (k + 1) + p]]
          BY <4>3, <4>4
        <4> HIDE DEF t4
        <4> QED
          BY <4>1, <4>5 DEF Midway
      <3>3. z = t4 /\ k <= k + 1
        BY <1>1, <2>6
      <3> HIDE DEF r, x, W, z, e, t4
      <3>4. r.v = [s EXCEPT !.state = t4] /\ r.out = Piece(x, k, k + 1)
        BY <2>3, <2>4, <3>3
      <3> QED
        BY <3>1, <3>2, <3>3, <3>4 DEF WordDone, r, x, W
    <2> QED
      BY <2>5, <2>6
  <1> QED
    BY <1>11, <1>12

LEMMA DataWord ==
    ASSUME NEW c \in VifCode, NEW s \in VifSettings, NEW j, NEW st, NEW k, Midway(c, s, j, st, k)
    PROVE  WordDone(c, s, j, k, PushOne([s EXCEPT !.state = st], [code |-> FALSE, c |-> c, k |-> j + 1]))
  BY MidwayIs, UnpackAtWord, PlainAtWord, MpgAtWord, DirectAtWord

(***************************************************************************)
(* A list: its codes end to end.                                           *)
(***************************************************************************)
Parts(S, x, n) == n \in Nat /\ Len(x) = n /\ \A i \in 1 .. n : x[i] \in Seq(S)
Joining(S, x, n, J) ==
    /\ J[0] = << >>
    /\ \A i \in 0 .. n : J[i] \in Seq(S) /\ Len(J[i]) \in Nat
    /\ \A i \in 1 .. n : /\ J[i] = J[i - 1] \o x[i] /\ Len(J[i]) = Len(J[i - 1]) + Len(x[i])
                         /\ x[i] \in Seq(S) /\ Len(x[i]) \in Nat
    /\ \A i, m \in 0 .. n : i <= m => /\ Len(J[i]) <= Len(J[m])
                                      /\ \A k \in 1 .. Len(J[i]) : J[m][k] = J[i][k]

LEMMA JoinsAre ==
    ASSUME NEW S, NEW x, NEW n, Parts(S, x, n)
    PROVE  Joining(S, x, n, JoinUpTo(x))
  <1> DEFINE J == JoinUpTo(x)
             T == { i \in Nat : i <= n => J[i] \in Seq(S) }
  <1>0. n \in Nat /\ Len(x) = n /\ \A i \in 1 .. n : x[i] \in Seq(S)
    BY DEF Parts
  <1>1. J[0] = << >> /\ \A i \in 1 .. n : J[i] = J[i - 1] \o x[i]
    BY <1>0, JoinTurns
  <1> HIDE DEF J
  <1>2. 0 \in T
    <2>1. << >> \in Seq(S)
      BY EmptySeq
    <2>2. J[0] \in Seq(S)
      BY <1>1, <2>1
    <2> QED
      BY <2>2
  <1>3. ASSUME NEW i \in T PROVE i + 1 \in T
    <2> SUFFICES ASSUME i + 1 <= n PROVE J[i + 1] \in Seq(S)
      OBVIOUS
    <2> DEFINE h == i + 1
    <2>1. h \in 1 .. n /\ h - 1 = i /\ J[i] \in Seq(S)
      BY <1>0
    <2> HIDE DEF h
    <2>2. J[h] = J[i] \o x[h] /\ x[h] \in Seq(S)
      BY <1>0, <1>1, <2>1
    <2>3. J[h] \in Seq(S)
      BY <2>1, <2>2, ConcatProperties
    <2> QED
      BY <2>3 DEF h
  <1>4. T = Nat
    <2> HIDE DEF T
    <2> QED
      BY <1>2, <1>3, Induction, T \subseteq Nat DEF T
  <1>5. \A i \in 0 .. n : J[i] \in Seq(S)
    BY <1>4
  <1>6. ASSUME NEW i \in 1 .. n
        PROVE  /\ J[i] = J[i - 1] \o x[i] /\ Len(J[i]) = Len(J[i - 1]) + Len(x[i]) /\ Len(J[i - 1]) <= Len(J[i])
               /\ \A k \in 1 .. Len(J[i - 1]) : J[i][k] = J[i - 1][k]
    <2> DEFINE a == J[i - 1]
               b == J[i]
               y == x[i]
    <2>1. a \in Seq(S) /\ y \in Seq(S) /\ b = a \o y
      <3>1. i - 1 \in 0 .. n
        BY <1>0
      <3> QED
        BY <1>0, <1>1, <1>5, <3>1
    <2> HIDE DEF a, b, y
    <2>2. /\ Len(a \o y) = Len(a) + Len(y) /\ Len(a) \in Nat /\ Len(y) \in Nat
          /\ \A k \in 1 .. Len(a) + Len(y) : (a \o y)[k] = IF k <= Len(a) THEN a[k] ELSE y[k - Len(a)]
      BY <2>1, ConcatProperties
    <2>3. Len(b) = Len(a) + Len(y) /\ Len(a) <= Len(b)
      BY <2>1, <2>2
    <2>4. ASSUME NEW k \in 1 .. Len(a) PROVE b[k] = a[k]
      <3>1. k \in 1 .. Len(a) + Len(y) /\ k <= Len(a)
        BY <2>2
      <3> QED
        BY <2>1, <2>2, <3>1
    <2> QED
      BY <2>1, <2>3, <2>4 DEF a, b, y
  <1>7. ASSUME NEW i \in 0 .. n, NEW m \in 0 .. n, i <= m
        PROVE  Len(J[i]) <= Len(J[m]) /\ \A k \in 1 .. Len(J[i]) : J[m][k] = J[i][k]
    <2> DEFINE P(d) == Len(J[i]) <= Len(J[i + d]) /\ \A k \in 1 .. Len(J[i]) : J[i + d][k] = J[i][k]
               U == { d \in Nat : i + d <= n => P(d) }
    <2>1. 0 \in U
      <3>1. i + 0 = i /\ Len(J[i]) \in Nat
        BY <1>5
      <3>2. P(0)
        BY <3>1
      <3> QED
        BY <3>2
    <2>2. ASSUME NEW d \in U PROVE d + 1 \in U
      <3> SUFFICES ASSUME i + (d + 1) <= n PROVE P(d + 1)
        OBVIOUS
      <3> DEFINE h == i + (d + 1)
                 g == i + d
      <3>1. h \in 1 .. n /\ h - 1 = g /\ g \in 0 .. n /\ P(d)
        BY <1>0
      <3> HIDE DEF h, P
      <3>2. Len(J[h - 1]) <= Len(J[h]) /\ \A k \in 1 .. Len(J[h - 1]) : J[h][k] = J[h - 1][k]
        BY <1>6, <3>1
      <3>3. Len(J[g]) <= Len(J[h]) /\ \A k \in 1 .. Len(J[g]) : J[h][k] = J[g][k]
        BY <3>1, <3>2
      <3>4. Len(J[i]) <= Len(J[g]) /\ \A k \in 1 .. Len(J[i]) : J[g][k] = J[i][k]
        BY <3>1 DEF P
      <3> HIDE DEF g
      <3>5. Len(J[i]) \in Nat /\ Len(J[g]) \in Nat /\ Len(J[h]) \in Nat
        BY <1>5, <3>1, LenProperties
      <3>6. Len(J[i]) <= Len(J[h])
        BY <3>3, <3>4, <3>5
      <3>7. ASSUME NEW k \in 1 .. Len(J[i]) PROVE J[h][k] = J[i][k]
        <4>1. k \in 1 .. Len(J[g])
          BY <3>4, <3>5
        <4> QED
          BY <3>3, <3>4, <4>1
      <3> QED
        BY <3>6, <3>7 DEF P, h
    <2>3. U = Nat
      <3> HIDE DEF U
      <3> QED
        BY <2>1, <2>2, Induction, U \subseteq Nat DEF U
    <2>4. m - i \in Nat /\ i + (m - i) = m
      BY <1>7
    <2> DEFINE d == m - i
    <2>5. P(d)
      <3>1. d \in Nat /\ i + d <= n
        BY <1>0, <2>4
      <3> HIDE DEF d, P
      <3>2. d \in U
        BY <2>3, <3>1
      <3> QED
        BY <3>1, <3>2
    <2>6. i + d = m
      BY <2>4
    <2> HIDE DEF d
    <2> QED
      BY <2>5, <2>6
  <1>8. \A i \in 0 .. n : J[i] \in Seq(S) /\ Len(J[i]) \in Nat
    BY <1>5, LenProperties
  <1>9. ASSUME NEW i \in 1 .. n PROVE x[i] \in Seq(S) /\ Len(x[i]) \in Nat
    BY <1>0, LenProperties
  <1>10. Joining(S, x, n, J)
    BY <1>1, <1>6, <1>7, <1>8, <1>9 DEF Joining
  <1> QED
    BY <1>10 DEF J

\* The k-th word of the i-th part, in the whole.
LEMMA JoinPlace ==
    ASSUME NEW S, NEW x, NEW n, NEW J, Parts(S, x, n), Joining(S, x, n, J),
           NEW i \in 1 .. n, NEW k \in 1 .. Len(x[i])
    PROVE  J[n][Len(J[i - 1]) + k] = x[i][k]
  <1> DEFINE a == J[i - 1]
             b == J[i]
             z == J[n]
             y == x[i]
  <1>0. n \in Nat /\ i - 1 \in 0 .. n /\ i \in 0 .. n /\ n \in 0 .. n /\ i <= n
    BY DEF Parts
  <1>1. a \in Seq(S) /\ b \in Seq(S) /\ z \in Seq(S) /\ y \in Seq(S) /\ b = a \o y /\ Len(b) = Len(a) + Len(y)
    BY <1>0 DEF Joining
  <1>2. Len(b) <= Len(z) /\ \A h \in 1 .. Len(b) : z[h] = b[h]
    BY <1>0 DEF Joining
  <1> HIDE DEF a, b, z, y
  <1>3. /\ Len(a) \in Nat /\ Len(y) \in Nat /\ Len(z) \in Nat
        /\ \A h \in 1 .. Len(a) + Len(y) : (a \o y)[h] = IF h <= Len(a) THEN a[h] ELSE y[h - Len(a)]
    BY <1>1, ConcatProperties, LenProperties
  <1> DEFINE h == Len(a) + k
  <1>4. k \in 1 .. Len(y)
    BY DEF y
  <1>5. h \in 1 .. Len(a) + Len(y) /\ ~(h <= Len(a)) /\ h - Len(a) = k /\ h \in 1 .. Len(b) /\ h <= Len(z)
    BY <1>1, <1>2, <1>3, <1>4
  <1> HIDE DEF h
  <1>6. z[h] = y[k]
    BY <1>1, <1>2, <1>3, <1>5
  <1> QED
    BY <1>6 DEF h, a, z, y

LEMMA SettingsInAre ==
    ASSUME NEW l \in Seq(VifCode), NEW s \in VifSettings
    PROVE  /\ \A i \in 0 .. Len(l) : SettingsIn(l, s)[i] \in VifSettings
           /\ \A i \in 1 .. Len(l) : l[i] \in VifCode /\ SettingsIn(l, s)[i] = Setting(l[i], SettingsIn(l, s)[i - 1])
           /\ SettingsIn(l, s)[0] = s /\ Len(l) \in Nat
  <1> DEFINE n == Len(l)
             at == SettingsIn(l, s)
             S == { i \in Nat : i <= n => at[i] \in VifSettings }
  <1>1. n \in Nat /\ \A i \in 1 .. n : l[i] \in VifCode
    BY ElementOfSeq
  <1>2. at[0] = s /\ \A i \in 1 .. n : at[i] = Setting(l[i], at[i - 1])
    BY <1>1, SettingTurns
  <1> HIDE DEF n, at
  <1>3. 0 \in S
    BY <1>2
  <1>4. ASSUME NEW i \in S PROVE i + 1 \in S
    <2> SUFFICES ASSUME i + 1 <= n PROVE at[i + 1] \in VifSettings
      OBVIOUS
    <2> DEFINE h == i + 1
    <2>1. h \in 1 .. n /\ h - 1 = i /\ at[i] \in VifSettings
      BY <1>1
    <2> HIDE DEF h
    <2>2. at[h] = Setting(l[h], at[i]) /\ l[h] \in VifCode
      BY <1>1, <1>2, <2>1
    <2>3. at[h] \in VifSettings
      BY <2>1, <2>2, SettingIs
    <2> QED
      BY <2>3 DEF h
  <1>5. S = Nat
    <2> HIDE DEF S
    <2> QED
      BY <1>3, <1>4, Induction, S \subseteq Nat DEF S
  <1>6. \A i \in 0 .. n : at[i] \in VifSettings
    BY <1>1, <1>5
  <1> QED
    BY <1>1, <1>2, <1>6 DEF n, at

ListAt(l, s) == SettingsIn(l, s)
WordsTo(l, s) == JoinUpTo(WordsIn(l, s))
MeansTo(l, s) == JoinUpTo(MeansIn(l, s))

ListIs(l, s, n, at, W, M) ==
    /\ n \in Nat /\ at[0] = s /\ W[0] = << >> /\ M[0] = << >>
    /\ ListWords(l, s) = W[n] /\ ListMeans(l, s) = M[n]
    /\ \A i \in 0 .. n : /\ at[i] \in VifSettings /\ W[i] \in Seq(VifWord) /\ M[i] \in Seq(VifEffect)
                         /\ Len(W[i]) <= Len(W[n])
    /\ \A i \in 1 .. n : /\ l[i] \in VifCode /\ at[i] = Setting(l[i], at[i - 1])
                         /\ M[i] = M[i - 1] \o Effect(l[i], at[i - 1])
                         /\ Len(W[i]) = Len(W[i - 1]) + (DataWords(l[i], at[i - 1]) + 1)
                         /\ \A k \in 1 .. DataWords(l[i], at[i - 1]) + 1 :
                               W[n][Len(W[i - 1]) + k] = [code |-> k = 1, c |-> l[i], k |-> k - 1]

LEMMA ListTurns ==
    ASSUME NEW l \in Seq(VifCode), NEW s \in VifSettings
    PROVE  ListIs(l, s, Len(l), ListAt(l, s), WordsTo(l, s), MeansTo(l, s))
  <1> DEFINE n == Len(l)
             at == SettingsIn(l, s)
             w == WordsIn(l, s)
             m == MeansIn(l, s)
             W == JoinUpTo(w)
             M == JoinUpTo(m)
  <1>1. /\ n \in Nat /\ at[0] = s /\ (\A i \in 0 .. n : at[i] \in VifSettings)
        /\ \A i \in 1 .. n : l[i] \in VifCode /\ at[i] = Setting(l[i], at[i - 1])
    BY SettingsInAre
  <1>2. w = [i \in 1 .. n |-> WordsOf(l[i], at[i - 1])] /\ m = [i \in 1 .. n |-> Effect(l[i], at[i - 1])]
    BY DEF WordsIn, MeansIn
  <1>3. ListWords(l, s) = W[n] /\ ListMeans(l, s) = M[n]
    BY DEF ListWords, ListMeans
  <1> HIDE DEF n, at, w, m
  <1>4. ASSUME NEW i \in 1 .. n
        PROVE  /\ w[i] \in Seq(VifWord) /\ Len(w[i]) = DataWords(l[i], at[i - 1]) + 1
               /\ \A k \in 1 .. Len(w[i]) : w[i][k] = [code |-> k = 1, c |-> l[i], k |-> k - 1]
               /\ m[i] \in Seq(VifEffect) /\ m[i] = Effect(l[i], at[i - 1])
    <2> DEFINE c == l[i]
               v == at[i - 1]
               d == DataWords(c, v) + 1
               y == w[i]
    <2>1. c \in VifCode /\ v \in VifSettings
      <3>1. i - 1 \in 0 .. n
        BY <1>1
      <3> QED
        BY <1>1, <3>1
    <2>2. y = WordsOf(c, v) /\ m[i] = Effect(c, v)
      BY <1>2
    <2> HIDE DEF c, v, y
    <2>3. d \in Nat /\ Effect(c, v) \in Seq(VifEffect)
      BY <2>1, EffectIs
    <2>4. y = [k \in 1 .. d |-> [code |-> k = 1, c |-> c, k |-> k - 1]]
      BY <2>2 DEF WordsOf
    <2>5. \A k \in 1 .. d : [code |-> k = 1, c |-> c, k |-> k - 1] \in VifWord
      <3> SUFFICES ASSUME NEW k \in 1 .. d PROVE [code |-> k = 1, c |-> c, k |-> k - 1] \in VifWord
        OBVIOUS
      <3> DEFINE f == (k = 1)
                 g == k - 1
      <3>1. f \in BOOLEAN /\ g \in Nat
        <4>1. f \in BOOLEAN
          OBVIOUS
        <4>2. g \in Nat
          BY <2>3
        <4> QED
          BY <4>1, <4>2
      <3> HIDE DEF f, g
      <3>2. [code |-> f, c |-> c, k |-> g] \in VifWord
        BY <2>1, <3>1 DEF VifWord
      <3> QED
        BY <3>2 DEF f, g
    <2> HIDE DEF d
    <2>6. y \in Seq(VifWord)
      BY <2>3, <2>4, <2>5, IsASeq
    <2>7. Len(y) = d
      BY <2>3, <2>4, <2>6, LenProperties
    <2>8. \A k \in 1 .. Len(y) : y[k] = [code |-> k = 1, c |-> c, k |-> k - 1]
      BY <2>4, <2>7
    <2> QED
      BY <2>2, <2>3, <2>6, <2>7, <2>8 DEF c, v, d, y
  <1>5. Len(w) = n /\ Len(m) = n
    <2>1. w \in Seq(Seq(VifWord)) /\ m \in Seq(Seq(VifEffect))
      <3>1. \A i \in 1 .. n : WordsOf(l[i], at[i - 1]) \in Seq(VifWord) /\ Effect(l[i], at[i - 1]) \in Seq(VifEffect)
        BY <1>2, <1>4
      <3> QED
        BY <1>1, <1>2, <3>1, IsASeq
    <2> QED
      BY <1>1, <1>2, <2>1, LenProperties
  <1>6. Parts(VifWord, w, n) /\ Joining(VifWord, w, n, W)
    <2>1. Parts(VifWord, w, n)
      BY <1>1, <1>4, <1>5 DEF Parts
    <2> QED
      BY <2>1, JoinsAre
  <1>7. Parts(VifEffect, m, n) /\ Joining(VifEffect, m, n, M)
    <2>1. Parts(VifEffect, m, n)
      BY <1>1, <1>4, <1>5 DEF Parts
    <2> QED
      BY <2>1, JoinsAre
  <1> HIDE DEF W, M
  <1>8. ASSUME NEW i \in 1 .. n, NEW k \in 1 .. Len(w[i]) PROVE W[n][Len(W[i - 1]) + k] = w[i][k]
    BY <1>6, JoinPlace
  <1>9. ASSUME NEW i \in 0 .. n
        PROVE  at[i] \in VifSettings /\ W[i] \in Seq(VifWord) /\ M[i] \in Seq(VifEffect) /\ Len(W[i]) <= Len(W[n])
    <2>1. i <= n /\ n \in 0 .. n
      BY <1>1
    <2>2. W[i] \in Seq(VifWord) /\ Len(W[i]) <= Len(W[n])
      BY <1>6, <2>1 DEF Joining
    <2>3. M[i] \in Seq(VifEffect)
      BY <1>7 DEF Joining
    <2> QED
      BY <1>1, <2>2, <2>3
  <1>10. ASSUME NEW i \in 1 .. n
         PROVE  /\ l[i] \in VifCode /\ at[i] = Setting(l[i], at[i - 1])
                /\ M[i] = M[i - 1] \o Effect(l[i], at[i - 1])
                /\ Len(W[i]) = Len(W[i - 1]) + (DataWords(l[i], at[i - 1]) + 1)
                /\ \A k \in 1 .. DataWords(l[i], at[i - 1]) + 1 :
                      W[n][Len(W[i - 1]) + k] = [code |-> k = 1, c |-> l[i], k |-> k - 1]
    <2> DEFINE d == DataWords(l[i], at[i - 1]) + 1
    <2>1. Len(w[i]) = d /\ \A k \in 1 .. Len(w[i]) : w[i][k] = [code |-> k = 1, c |-> l[i], k |-> k - 1]
      BY <1>4
    <2> HIDE DEF d
    <2>2. M[i] = M[i - 1] \o m[i]
      BY <1>7 DEF Joining
    <2>3. Len(W[i]) = Len(W[i - 1]) + d
      BY <1>6, <2>1 DEF Joining
    <2>4. \A k \in 1 .. d : W[n][Len(W[i - 1]) + k] = [code |-> k = 1, c |-> l[i], k |-> k - 1]
      BY <1>8, <2>1
    <2> QED
      BY <1>1, <1>4, <2>2, <2>3, <2>4 DEF d
  <1>11. W[0] = << >> /\ M[0] = << >>
    BY <1>6, <1>7 DEF Joining
  <1>12. ListIs(l, s, n, at, W, M)
    BY <1>1, <1>3, <1>9, <1>10, <1>11 DEF ListIs
  <1> QED
    BY <1>12 DEF n, at, W, M, w, m, ListAt, WordsTo, MeansTo

(***************************************************************************)
(* The inductive invariant: the parser stands before a code of the list,   *)
(* or within one.                                                          *)
(***************************************************************************)
\* What is left of the words w when d of them have been pushed.
Rest(q, w, d) ==
    /\ q \in Seq(VifWord) /\ d \in 0 .. Len(w) /\ Len(q) = Len(w) - d
    /\ \A k \in 1 .. Len(q) : q[k] = w[d + k]

LEMMA RestTurns ==
    ASSUME NEW q, NEW w \in Seq(VifWord), NEW d, Rest(q, w, d), q # << >>
    PROVE  Head(q) = w[d + 1] /\ Rest(Tail(q), w, d + 1)
  <1>1. q \in Seq(VifWord) /\ d \in 0 .. Len(w) /\ Len(q) = Len(w) - d /\ \A k \in 1 .. Len(q) : q[k] = w[d + k]
    BY DEF Rest
  <1>2. Len(w) \in Nat /\ Len(q) \in Nat \ {0}
    BY <1>1, EmptySeq, LenProperties
  <1>3. Head(q) = q[1] /\ 1 \in 1 .. Len(q)
    BY <1>1, <1>2
  <1> DEFINE t == Tail(q)
  <1>4. t \in Seq(VifWord) /\ Len(t) = Len(q) - 1 /\ \A k \in 1 .. Len(t) : t[k] = q[k + 1]
    BY <1>1, HeadTailProperties
  <1> HIDE DEF t
  <1>5. d + 1 \in 0 .. Len(w) /\ Len(t) = Len(w) - (d + 1)
    BY <1>1, <1>2, <1>4
  <1>6. ASSUME NEW k \in 1 .. Len(t) PROVE t[k] = w[(d + 1) + k]
    <2>1. k + 1 \in 1 .. Len(q) /\ d + (k + 1) = (d + 1) + k
      BY <1>1, <1>2, <1>4
    <2> QED
      BY <1>1, <1>4, <2>1
  <1>7. Rest(t, w, d + 1)
    BY <1>4, <1>5, <1>6 DEF Rest
  <1> QED
    BY <1>1, <1>3, <1>7 DEF t

\* Before code i + 1 of list l, begun with the settings s; within code i.
OnCode(l, s, i) ==
    /\ i \in 0 .. Len(l) /\ vif = ListAt(l, s)[i] /\ effects = MeansTo(l, s)[i]
    /\ Rest(todo, WordsTo(l, s)[Len(l)], Len(WordsTo(l, s)[i]))
WithinCode(l, s, i, j, st, k) ==
    /\ i \in 1 .. Len(l) /\ Midway(l[i], ListAt(l, s)[i - 1], j, st, k)
    /\ vif = [ListAt(l, s)[i - 1] EXCEPT !.state = st]
    /\ effects = MeansTo(l, s)[i - 1] \o Piece(Effect(l[i], ListAt(l, s)[i - 1]), 0, k)
    /\ Rest(todo, WordsTo(l, s)[Len(l)], Len(WordsTo(l, s)[i - 1]) + 1 + j)
InCode(l, s, i) == \E j, st, k : WithinCode(l, s, i, j, st, k)

\* The buffers' base and offset, each 0 or what some list says.
Laid(v) == v.base \in ValuesOf("base") /\ v.offset \in ValuesOf("offset")

VifInList(l, s) ==
    /\ l \in List \cup {<< >>} /\ s \in VifSettings /\ Laid(s) /\ meaning = ListMeans(l, s)
    /\ \E i : OnCode(l, s, i) \/ InCode(l, s, i)
VifHolds == \E l, s : VifInList(l, s)

LEMMA ListsAre == \A l \in List \cup {<< >>} : l \in Seq(VifCode)
  BY VifAssumption, EmptySeq

LEMMA ListFacts ==
    ASSUME NEW l \in List \cup {<< >>}, NEW s \in VifSettings
    PROVE  l \in Seq(VifCode) /\ ListIs(l, s, Len(l), ListAt(l, s), WordsTo(l, s), MeansTo(l, s))
  BY ListsAre, ListTurns

\* A code's words lie within the list's.
LEMMA CodeWords ==
    ASSUME NEW l, NEW s, NEW n, NEW at, NEW W, NEW M, ListIs(l, s, n, at, W, M), NEW i \in 1 .. n
    PROVE  /\ i - 1 \in 0 .. n /\ l[i] \in VifCode /\ at[i - 1] \in VifSettings
           /\ DataWords(l[i], at[i - 1]) \in Nat /\ Len(W[i - 1]) \in Nat /\ Len(W[n]) \in Nat
           /\ Len(W[i - 1]) + DataWords(l[i], at[i - 1]) + 1 = Len(W[i]) /\ Len(W[i]) <= Len(W[n])
  <1> DEFINE c == l[i]
             v == at[i - 1]
             d == DataWords(c, v)
             a == Len(W[i - 1])
  <1>1. n \in Nat
    BY DEF ListIs
  <1>2. i - 1 \in 0 .. n /\ i \in 0 .. n /\ n \in 0 .. n
    BY <1>1
  <1>3. c \in VifCode /\ v \in VifSettings /\ W[i - 1] \in Seq(VifWord) /\ W[n] \in Seq(VifWord)
        /\ Len(W[i]) = a + (d + 1) /\ Len(W[i]) <= Len(W[n])
    BY <1>2 DEF ListIs
  <1>4. a \in Nat /\ Len(W[n]) \in Nat
    BY <1>3, LenProperties
  <1> HIDE DEF c, v
  <1>5. d \in Nat
    BY <1>3, EffectIs
  <1> HIDE DEF d, a
  <1>6. a + d + 1 = Len(W[i])
    BY <1>3, <1>4, <1>5
  <1> QED
    BY <1>2, <1>3, <1>4, <1>5, <1>6 DEF c, v, d, a

\* With nothing left the list is done; within a code something is left.
LEMMA ListOver ==
    ASSUME NEW l \in List \cup {<< >>}, NEW s \in VifSettings, NEW i
    PROVE  /\ OnCode(l, s, i) /\ todo = << >> => i = Len(l)
           /\ OnCode(l, s, i) /\ todo # << >> => i + 1 \in 1 .. Len(l) /\ (i + 1) - 1 = i
           /\ InCode(l, s, i) => todo # << >>
  <1> DEFINE n == Len(l)
             at == ListAt(l, s)
             W == WordsTo(l, s)
             M == MeansTo(l, s)
  <1>1. ListIs(l, s, n, at, W, M)
    BY ListFacts
  <1> HIDE DEF n, at, W, M
  <1>2. n \in Nat /\ \A h \in 0 .. n : W[h] \in Seq(VifWord) /\ Len(W[h]) \in Nat
    BY <1>1, LenProperties DEF ListIs
  <1>3. ASSUME OnCode(l, s, i) PROVE (todo = << >> => i = n) /\ (todo # << >> => i + 1 \in 1 .. n /\ (i + 1) - 1 = i)
    <2>1. i \in 0 .. n /\ Rest(todo, W[n], Len(W[i]))
      BY <1>3 DEF OnCode, n, W
    <2>2. todo \in Seq(VifWord) /\ Len(todo) = Len(W[n]) - Len(W[i])
      BY <2>1 DEF Rest
    <2>3. CASE i = n
      <3>1. Len(todo) = 0
        BY <1>2, <2>1, <2>2, <2>3
      <3>2. todo = << >>
        BY <2>2, <3>1, EmptySeq
      <3> QED
        BY <2>3, <3>2
    <2>4. CASE i # n
      <3> DEFINE h == i + 1
      <3>1. h \in 1 .. n /\ h - 1 = i
        BY <1>2, <2>1, <2>4
      <3> HIDE DEF h
      <3>2. Len(W[i]) < Len(W[n])
        <4> DEFINE d == DataWords(l[h], at[i])
                   a == Len(W[i])
                   z == Len(W[n])
        <4>1. d \in Nat /\ a \in Nat /\ z \in Nat /\ a + d + 1 = Len(W[h]) /\ Len(W[h]) <= z
          BY <1>1, <3>1, CodeWords
        <4> HIDE DEF d, a, z
        <4> QED
          BY <4>1 DEF a, z
      <3>3. Len(todo) # 0
        BY <1>2, <2>1, <2>2, <3>2
      <3>4. todo # << >>
        BY <3>3, EmptySeq
      <3> QED
        BY <3>1, <3>4 DEF h
    <2> QED
      BY <2>3, <2>4
  <1>4. ASSUME InCode(l, s, i) PROVE todo # << >>
    <2>1. PICK j, st, k : WithinCode(l, s, i, j, st, k)
      BY <1>4 DEF InCode
    <2>2. i \in 1 .. n /\ Midway(l[i], at[i - 1], j, st, k) /\ Rest(todo, W[n], Len(W[i - 1]) + 1 + j)
      BY <2>1 DEF WithinCode, n, at, W
    <2> DEFINE d == DataWords(l[i], at[i - 1])
               a == Len(W[i - 1])
               z == Len(W[n])
    <2>3. d \in Nat /\ a \in Nat /\ z \in Nat /\ a + d + 1 <= z /\ l[i] \in VifCode /\ at[i - 1] \in VifSettings
      BY <1>1, <2>2, CodeWords
    <2>4. j \in Nat /\ j + 1 <= d
      BY <2>2, <2>3, DataAt1
    <2>5. Len(todo) = z - (a + 1 + j)
      BY <2>2 DEF Rest
    <2> HIDE DEF d, a, z
    <2>6. Len(todo) # 0
      BY <2>3, <2>4, <2>5
    <2> QED
      BY <2>6, EmptySeq
  <1> QED
    BY <1>3, <1>4 DEF n

LEMMA InList ==
    ASSUME NEW l \in List \cup {<< >>}, NEW i \in 1 .. Len(l)
    PROVE  l \in List /\ Len(l) \in Nat /\ DOMAIN l = 1 .. Len(l) /\ l[i] \in VifCode /\ i \in Nat
  <1>1. l \in Seq(VifCode)
    BY ListsAre
  <1>2. Len(l) \in Nat /\ DOMAIN l = 1 .. Len(l) /\ l[i] \in VifCode /\ i \in Nat
    BY <1>1, LenProperties, ElementOfSeq
  <1>3. l # << >>
    <2>1. Len(<< >>) = 0
      BY EmptySeq
    <2> QED
      BY <1>2, <2>1
  <1> QED
    BY <1>2, <1>3

LEMMA LaidKept ==
    ASSUME NEW l \in List \cup {<< >>}, NEW i \in 1 .. Len(l), NEW v \in VifSettings, Laid(v)
    PROVE  Laid(Setting(l[i], v))
  <1> DEFINE c == l[i]
             s == Setting(c, v)
  <1>1. l \in List /\ i \in DOMAIN l /\ c \in VifCode
    BY InList
  <1>2. ASSUME NEW op, l[i].op = op PROVE l[i].to \in ValuesOf(op)
    <2>1. l[i].to \in { l[h].to : h \in { k \in DOMAIN l : l[k].op = op } }
      BY <1>1, <1>2
    <2> QED
      BY <1>1, <2>1 DEF ValuesOf
  <1>3. v.base \in ValuesOf("base") /\ v.offset \in ValuesOf("offset")
    BY DEF Laid
  <1>4. CASE c.op = "base"
    <2>1. s.base = c.to /\ s.offset = v.offset
      BY <1>4 DEF Setting, VifSettings
    <2>2. c.to \in ValuesOf("base")
      BY <1>2, <1>4
    <2> QED
      BY <1>3, <2>1, <2>2 DEF Laid
  <1>5. CASE c.op = "offset"
    <2>1. s.offset = c.to /\ s.base = v.base
      BY <1>5 DEF Setting, VifSettings
    <2>2. c.to \in ValuesOf("offset")
      BY <1>2, <1>5
    <2> QED
      BY <1>3, <2>1, <2>2 DEF Laid
  <1>6. CASE c.op \notin {"base", "offset"}
    <2> HIDE DEF c
    <2>1. s.base = v.base /\ s.offset = v.offset
      BY <1>1, <1>6, CodeIs DEF Setting, VifSettings
    <2> QED
      BY <1>3, <2>1 DEF Laid, c
  <1> QED
    BY <1>4, <1>5, <1>6

LEMMA LaidThrough ==
    ASSUME NEW l \in List \cup {<< >>}, NEW s \in VifSettings, Laid(s)
    PROVE  \A i \in 0 .. Len(l) : Laid(ListAt(l, s)[i])
  <1> DEFINE n == Len(l)
             at == ListAt(l, s)
             S == { i \in Nat : i <= n => Laid(at[i]) }
  <1>1. ListIs(l, s, n, at, WordsTo(l, s), MeansTo(l, s))
    BY ListFacts
  <1> HIDE DEF at
  <1>2. n \in Nat /\ at[0] = s /\ (\A i \in 0 .. n : at[i] \in VifSettings)
        /\ \A i \in 1 .. n : at[i] = Setting(l[i], at[i - 1])
    BY <1>1 DEF ListIs
  <1>3. 0 \in S
    BY <1>2
  <1>4. ASSUME NEW i \in S PROVE i + 1 \in S
    <2> SUFFICES ASSUME i + 1 <= n PROVE Laid(at[i + 1])
      OBVIOUS
    <2> DEFINE h == i + 1
    <2>1. h \in 1 .. n /\ h - 1 = i /\ Laid(at[i]) /\ i \in 0 .. n
      BY <1>2
    <2> HIDE DEF h
    <2>2. at[h] = Setting(l[h], at[i]) /\ at[i] \in VifSettings
      BY <1>2, <2>1
    <2>3. Laid(at[h])
      BY <2>1, <2>2, LaidKept
    <2> QED
      BY <2>3 DEF h
  <1>5. S = Nat
    <2> HIDE DEF S
    <2> QED
      BY <1>3, <1>4, Induction, S \subseteq Nat DEF S
  <1> QED
    BY <1>2, <1>5 DEF at

\* The list's next word in the whole of its words.
LEMMA WordPlace ==
    ASSUME NEW l, NEW s, NEW n, NEW at, NEW W, NEW M, ListIs(l, s, n, at, W, M), NEW i \in 1 .. n,
           NEW k \in Nat, k <= DataWords(l[i], at[i - 1])
    PROVE  W[n][(Len(W[i - 1]) + k) + 1] = [code |-> k = 0, c |-> l[i], k |-> k]
  <1> DEFINE d == DataWords(l[i], at[i - 1])
             a == Len(W[i - 1])
             z == W[n]
  <1>1. d \in Nat /\ a \in Nat
    BY CodeWords
  <1>2. \A h \in 1 .. d + 1 : z[a + h] = [code |-> h = 1, c |-> l[i], k |-> h - 1]
    BY DEF ListIs
  <1> HIDE DEF d, a, z
  <1> DEFINE h == k + 1
  <1>3. h \in 1 .. d + 1 /\ a + h = (a + k) + 1 /\ (h = 1 <=> k = 0) /\ h - 1 = k
    BY <1>1 DEF d
  <1> HIDE DEF h
  <1>4. z[a + h] = [code |-> k = 0, c |-> l[i], k |-> k]
    BY <1>2, <1>3
  <1> QED
    BY <1>3, <1>4 DEF a, z

\* A code done: what it leaves is the list before the next code.
LEMMA CodeDone ==
    ASSUME NEW l \in List \cup {<< >>}, NEW s \in VifSettings, NEW i \in 1 .. Len(l),
           vif' = Setting(l[i], ListAt(l, s)[i - 1]),
           effects' = MeansTo(l, s)[i - 1] \o Effect(l[i], ListAt(l, s)[i - 1]),
           Rest(todo', WordsTo(l, s)[Len(l)], Len(WordsTo(l, s)[i - 1]) + DataWords(l[i], ListAt(l, s)[i - 1]) + 1)
    PROVE  OnCode(l, s, i)'
  <1> DEFINE n == Len(l)
             at == ListAt(l, s)
             W == WordsTo(l, s)
             M == MeansTo(l, s)
  <1>1. ListIs(l, s, n, at, W, M)
    BY ListFacts
  <1>2. /\ vif' = Setting(l[i], at[i - 1]) /\ effects' = M[i - 1] \o Effect(l[i], at[i - 1])
        /\ Rest(todo', W[n], Len(W[i - 1]) + DataWords(l[i], at[i - 1]) + 1)
    OBVIOUS
  <1>3. i \in 1 .. n
    OBVIOUS
  <1> HIDE DEF n, at, W, M
  <1>4. i \in 0 .. n /\ Len(W[i - 1]) + DataWords(l[i], at[i - 1]) + 1 = Len(W[i])
    <2>1. n \in Nat
      BY <1>1 DEF ListIs
    <2>2. Len(W[i - 1]) + DataWords(l[i], at[i - 1]) + 1 = Len(W[i])
      BY ONLY <1>1, <1>3, CodeWords
    <2>3. i \in 0 .. n
      BY <1>3, <2>1
    <2> QED
      BY <2>2, <2>3
  <1>5. vif' = at[i] /\ effects' = M[i]
    BY <1>1, <1>2, <1>3 DEF ListIs
  <1>6. Rest(todo', W[n], Len(W[i]))
    BY <1>2, <1>4
  <1> QED
    BY <1>4, <1>5, <1>6 DEF OnCode, n, at, W, M

LEMMA CodePushed ==
    ASSUME NEW l \in List \cup {<< >>}, NEW s \in VifSettings, NEW i, OnCode(l, s, i), PushWord
    PROVE  Head(todo).code /\ \E h : (OnCode(l, s, h) \/ InCode(l, s, h))'
  <1> DEFINE n == Len(l)
             at == ListAt(l, s)
             W == WordsTo(l, s)
             M == MeansTo(l, s)
             h == i + 1
             c == l[h]
             v == at[i]
             d == DataWords(c, v)
             a == Len(W[i])
             x == Effect(c, v)
             r == PushOne(vif, Head(todo))
  <1>1. ListIs(l, s, n, at, W, M)
    BY ListFacts
  <1>2. h \in 1 .. n /\ h - 1 = i
    BY ListOver DEF PushWord
  <1>3. /\ vif = at[i] /\ effects = M[i] /\ Rest(todo, W[n], a) /\ todo # << >> /\ todo' = Tail(todo)
        /\ vif' = r.v /\ effects' = effects \o r.out
    BY DEF OnCode, PushWord
  <1> HIDE DEF n, at, W, M, h
  <1>4. /\ c \in VifCode /\ v \in VifSettings /\ d \in Nat /\ a \in Nat /\ W[n] \in Seq(VifWord)
        /\ M[i] \in Seq(VifEffect)
    <2>1. n \in Nat
      BY <1>1 DEF ListIs
    <2>2. i \in 0 .. n /\ n \in 0 .. n
      BY <1>2, <2>1
    <2>3. W[n] \in Seq(VifWord) /\ M[i] \in Seq(VifEffect)
      BY <1>1, <2>2 DEF ListIs
    <2> QED
      BY <1>1, <1>2, <2>3, CodeWords
  <1>5. Head(todo) = W[n][a + 1] /\ Rest(todo', W[n], a + 1)
    <2> HIDE DEF a
    <2> QED
      BY <1>3, <1>4, RestTurns
  <1>6. Head(todo) = [code |-> TRUE, c |-> c, k |-> 0]
    <2> DEFINE a1 == Len(W[h - 1])
    <2>1. 0 \in Nat /\ 0 <= DataWords(l[h], at[h - 1])
      BY <1>2, <1>4
    <2>2. W[n][(a1 + 0) + 1] = [code |-> 0 = 0, c |-> l[h], k |-> 0]
      BY <1>1, <1>2, <2>1, WordPlace
    <2>3. a1 = a
      BY <1>2
    <2> HIDE DEF a1, a
    <2>4. (a1 + 0) + 1 = a + 1
      BY <1>4, <2>3
    <2>5. W[n][a + 1] = [code |-> TRUE, c |-> l[h], k |-> 0]
      BY <2>2, <2>4
    <2> QED
      BY <1>5, <2>5
  <1>7. r = VifCommand(v, c)
    <2>1. vif.state.at = "cmd"
      BY <1>3, <1>4, SettingsAre DEF AtCode
    <2> QED
      BY <1>3, <1>6, <2>1 DEF PushOne
  <1> HIDE DEF r
  <1>8. CASE d = 0
    <2>1. r.v = Setting(c, v) /\ r.out = x
      BY <1>4, <1>7, <1>8, CommandAt
    <2>2. a + d + 1 = a + 1
      BY <1>4, <1>8
    <2>3. vif' = Setting(l[h], at[h - 1]) /\ effects' = M[h - 1] \o Effect(l[h], at[h - 1])
          /\ Rest(todo', W[n], Len(W[h - 1]) + DataWords(l[h], at[h - 1]) + 1)
      <3>1. Rest(todo', W[n], a + d + 1)
        BY <1>5, <2>2
      <3> QED
        BY <1>2, <1>3, <2>1, <3>1
    <2>4. OnCode(l, s, h)'
      BY <1>2, <2>3, CodeDone DEF n, at, W, M
    <2> QED
      BY <1>6, <2>4
  <1>9. CASE d # 0
    <2>1. PICK st, k : r.v = [v EXCEPT !.state = st] /\ Midway(c, v, 0, st, k) /\ r.out = Piece(x, 0, k)
      <3> HIDE DEF c, v
      <3>1. \E st, k : r.v = [v EXCEPT !.state = st] /\ Midway(c, v, 0, st, k) /\ r.out = Piece(Effect(c, v), 0, k)
        BY <1>4, <1>7, <1>9, CommandAt DEF d
      <3> QED
        BY <3>1
    <2>2. /\ vif' = [at[h - 1] EXCEPT !.state = st] /\ effects' = M[h - 1] \o Piece(Effect(l[h], at[h - 1]), 0, k)
          /\ Midway(l[h], at[h - 1], 0, st, k)
      BY <1>2, <1>3, <2>1
    <2>3. Rest(todo', W[n], Len(W[h - 1]) + 1 + 0)
      <3>1. a + 1 + 0 = a + 1
        BY <1>4
      <3>2. Rest(todo', W[n], a + 1 + 0)
        BY <1>5, <3>1
      <3> QED
        BY <1>2, <3>2
    <2>4. WithinCode(l, s, h, 0, st, k)'
      BY <1>2, <2>2, <2>3 DEF WithinCode, n, at, W, M
    <2>5. InCode(l, s, h)'
      BY <2>4 DEF InCode
    <2> QED
      BY <1>6, <2>5
  <1> QED
    BY <1>8, <1>9

LEMMA DataPushed ==
    ASSUME NEW l \in List \cup {<< >>}, NEW s \in VifSettings, NEW i, InCode(l, s, i), PushWord
    PROVE  (OnCode(l, s, i) \/ InCode(l, s, i))'
  <1>0. PICK j, st, k : WithinCode(l, s, i, j, st, k)
    BY DEF InCode
  <1> DEFINE n == Len(l)
             at == ListAt(l, s)
             W == WordsTo(l, s)
             M == MeansTo(l, s)
             c == l[i]
             v == at[i - 1]
             d == DataWords(c, v)
             a == Len(W[i - 1])
             x == Effect(c, v)
             r == PushOne(vif, Head(todo))
             m == M[i - 1]
             z == a + 1 + j
  <1>1. ListIs(l, s, n, at, W, M)
    BY ListFacts
  <1>2. i \in 1 .. n /\ Midway(c, v, j, st, k) /\ vif = [v EXCEPT !.state = st]
        /\ effects = m \o Piece(x, 0, k) /\ Rest(todo, W[n], z)
    BY <1>0 DEF WithinCode
  <1>3. todo # << >> /\ todo' = Tail(todo) /\ vif' = r.v /\ effects' = effects \o r.out
    BY DEF PushWord
  <1> HIDE DEF n, at, W, M
  <1>4. /\ c \in VifCode /\ v \in VifSettings /\ d \in Nat /\ a \in Nat /\ W[n] \in Seq(VifWord)
        /\ m \in Seq(VifEffect) /\ x \in Seq(VifEffect) /\ Len(x) \in Nat
    <2>1. n \in Nat
      BY <1>1 DEF ListIs
    <2>2. i - 1 \in 0 .. n /\ n \in 0 .. n
      BY <1>2, <2>1
    <2>3. W[n] \in Seq(VifWord) /\ m \in Seq(VifEffect)
      BY <1>1, <2>2 DEF ListIs
    <2>4. c \in VifCode /\ v \in VifSettings /\ d \in Nat /\ a \in Nat
      BY <1>1, <1>2, CodeWords
    <2> HIDE DEF c, v, d, a, m
    <2>5. x \in Seq(VifEffect)
      BY <2>4, EffectIs
    <2> QED
      BY <2>3, <2>4, <2>5, LenProperties
  <1>5. j \in Nat /\ k \in Nat /\ k <= Len(x) /\ j + 1 <= d
    BY <1>2, <1>4, DataAt1
  <1>6. Head(todo) = W[n][z + 1] /\ Rest(todo', W[n], z + 1)
    <2> HIDE DEF z
    <2> QED
      BY <1>2, <1>3, <1>4, RestTurns
  <1>7. Head(todo) = [code |-> FALSE, c |-> c, k |-> j + 1]
    <2> DEFINE e == j + 1
    <2>1. e \in Nat /\ e <= d /\ ~(e = 0)
      BY <1>4, <1>5
    <2> HIDE DEF e
    <2>2. W[n][(a + e) + 1] = [code |-> e = 0, c |-> c, k |-> e]
      BY <1>1, <1>2, <2>1, WordPlace
    <2>3. (a + e) + 1 = z + 1
      <3> HIDE DEF a
      <3> QED
        BY <1>4, <1>5 DEF e
    <2>4. [code |-> e = 0, c |-> c, k |-> e] = [code |-> FALSE, c |-> c, k |-> e]
      BY <2>1
    <2> QED
      BY <1>6, <2>2, <2>3, <2>4 DEF e
  <1>8. WordDone(c, v, j, k, r)
    BY <1>2, <1>4, <1>7, DataWord
  <1> HIDE DEF r
  <1>9. CASE j + 1 = d /\ r.v = Setting(c, v) /\ r.out = Piece(x, k, Len(x))
    <2>1. effects' = m \o x
      <3> DEFINE p == Piece(x, 0, k)
                 q == Piece(x, k, Len(x))
      <3>1. p \in Seq(VifEffect) /\ q \in Seq(VifEffect) /\ p \o q = x
        <4>1. 0 \in Nat /\ 0 <= k /\ Len(x) <= Len(x)
          BY <1>4, <1>5
        <4>2. p \in Seq(VifEffect) /\ q \in Seq(VifEffect)
          BY <1>4, <1>5, <4>1, PieceIs
        <4>3. p \o q = Piece(x, 0, Len(x))
          <5> DEFINE o == 0
                     top == Len(x)
          <5>1. x \in Seq(VifEffect) /\ o \in Nat /\ k \in Nat /\ top \in Nat /\ o <= k /\ k <= top /\ top <= Len(x)
            BY <1>4, <1>5, <4>1
          <5> HIDE DEF x, o, top
          <5>2. Piece(x, o, k) \o Piece(x, k, top) = Piece(x, o, top)
            BY ONLY <5>1, EffectPieces
          <5> QED
            BY <5>2 DEF o, top
        <4>4. Piece(x, 0, Len(x)) = x
          BY <1>4, PieceWhole
        <4> QED
          BY <4>2, <4>3, <4>4
      <3> HIDE DEF p, q, x, m
      <3>2. effects' = (m \o p) \o q
        BY <1>2, <1>3, <1>9 DEF p, q
      <3>3. (m \o p) \o q = m \o (p \o q)
        <4>1. m \in Seq(VifEffect) /\ p \in Seq(VifEffect) /\ q \in Seq(VifEffect)
          BY <1>4, <3>1
        <4> QED
          BY ONLY <4>1, Reassociate
      <3> QED
        BY <3>1, <3>2, <3>3
    <2>2. Rest(todo', W[n], a + d + 1)
      <3>1. z + 1 = a + d + 1
        <4> HIDE DEF a, d
        <4> QED
          BY <1>4, <1>5, <1>9
      <3> QED
        BY <1>6, <3>1
    <2>3. OnCode(l, s, i)'
      BY <1>2, <1>3, <1>9, <2>1, <2>2, CodeDone DEF n, at, W, M
    <2> QED
      BY <2>3
  <1>10. CASE /\ j + 1 < d
              /\ \E t, b : /\ r.v = [v EXCEPT !.state = t] /\ Midway(c, v, j + 1, t, b)
                           /\ k <= b /\ r.out = Piece(x, k, b)
    <2>1. PICK t, b : r.v = [v EXCEPT !.state = t] /\ Midway(c, v, j + 1, t, b) /\ k <= b /\ r.out = Piece(x, k, b)
      BY <1>10
    <2>2. b \in Nat /\ b <= Len(x)
      BY <1>4, <2>1, DataAt1
    <2>3. effects' = m \o Piece(x, 0, b)
      <3> DEFINE p == Piece(x, 0, k)
                 q == Piece(x, k, b)
      <3>1. p \in Seq(VifEffect) /\ q \in Seq(VifEffect) /\ p \o q = Piece(x, 0, b)
        <4>1. 0 \in Nat /\ 0 <= k
          BY <1>5
        <4>2. p \in Seq(VifEffect) /\ q \in Seq(VifEffect)
          BY <1>4, <1>5, <2>1, <2>2, <4>1, PieceIs
        <4>3. p \o q = Piece(x, 0, b)
          <5> DEFINE o == 0
          <5>1. x \in Seq(VifEffect) /\ o \in Nat /\ k \in Nat /\ b \in Nat /\ o <= k /\ k <= b /\ b <= Len(x)
            BY <1>4, <1>5, <2>1, <2>2
          <5> HIDE DEF x, o
          <5>2. Piece(x, o, k) \o Piece(x, k, b) = Piece(x, o, b)
            BY ONLY <5>1, EffectPieces
          <5> QED
            BY <5>2 DEF o
        <4> QED
          BY <4>2, <4>3
      <3> HIDE DEF p, q, x, m
      <3>2. effects' = (m \o p) \o q
        BY <1>2, <1>3, <2>1 DEF p, q
      <3>3. (m \o p) \o q = m \o (p \o q)
        <4>1. m \in Seq(VifEffect) /\ p \in Seq(VifEffect) /\ q \in Seq(VifEffect)
          BY <1>4, <3>1
        <4> QED
          BY ONLY <4>1, Reassociate
      <3> QED
        BY <3>1, <3>2, <3>3
    <2>4. Rest(todo', W[n], a + 1 + (j + 1))
      <3>1. z + 1 = a + 1 + (j + 1)
        <4> HIDE DEF a
        <4> QED
          BY <1>4, <1>5
      <3> QED
        BY <1>6, <3>1
    <2>5. vif' = [v EXCEPT !.state = t]
      BY <1>3, <2>1
    <2>6. WithinCode(l, s, i, j + 1, t, b)'
      BY <1>2, <2>1, <2>3, <2>4, <2>5 DEF WithinCode, n, at, W, M
    <2>7. InCode(l, s, i)'
      BY <2>6 DEF InCode
    <2> QED
      BY <2>7
  <1> QED
    BY <1>8, <1>9, <1>10 DEF WordDone

LEMMA WordsWhole ==
    ASSUME NEW l, NEW s, NEW n, NEW at, NEW W, NEW M, ListIs(l, s, n, at, W, M)
    PROVE  W[n] \in Seq(VifWord)
  <1>1. n \in Nat /\ \A i \in 0 .. n : W[i] \in Seq(VifWord)
    BY DEF ListIs
  <1>2. n \in 0 .. n
    BY <1>1
  <1> QED
    BY <1>1, <1>2

LEMMA ListBegun ==
    ASSUME NEW l \in List \cup {<< >>}, NEW s \in VifSettings, Laid(s),
           vif' = s, effects' = << >>, meaning' = ListMeans(l, s), todo' = ListWords(l, s)
    PROVE  VifHolds'
  <1> DEFINE n == Len(l)
             at == ListAt(l, s)
             W == WordsTo(l, s)
             M == MeansTo(l, s)
  <1>1. ListIs(l, s, n, at, W, M)
    BY ListFacts
  <1> HIDE DEF n, at, W, M
  <1>2. n \in Nat /\ at[0] = s /\ W[0] = << >> /\ M[0] = << >> /\ ListWords(l, s) = W[n]
    BY <1>1 DEF ListIs
  <1>3. W[n] \in Seq(VifWord)
    <2>1. n \in 0 .. n
      BY <1>2
    <2> QED
      BY <1>1, <2>1 DEF ListIs
  <1>4. Rest(todo', W[n], Len(W[0]))
    <2> DEFINE w == W[n]
    <2>1. todo' = w /\ w \in Seq(VifWord)
      BY <1>2, <1>3
    <2> HIDE DEF w
    <2>2. Len(w) \in Nat /\ Len(W[0]) = 0
      BY <1>2, <2>1, EmptySeq, LenProperties
    <2>3. 0 \in 0 .. Len(w) /\ Len(w) = Len(w) - 0 /\ \A k \in 1 .. Len(w) : w[k] = w[0 + k]
      BY <2>2
    <2>4. Rest(todo', w, 0)
      BY <2>1, <2>3 DEF Rest
    <2> QED
      BY <2>2, <2>4 DEF w
  <1>5. OnCode(l, s, 0)'
    <2>1. 0 \in 0 .. n
      BY <1>2
    <2> QED
      BY <1>2, <1>4, <2>1 DEF OnCode, n, at, W, M
  <1>6. VifInList(l, s)'
    BY <1>5 DEF VifInList
  <1> QED
    BY <1>6 DEF VifHolds

\* The words of the initial state: none, of no list.
LEMMA VifBegins == VifInit => VifHolds
  <1> SUFFICES ASSUME VifInit PROVE VifHolds
    OBVIOUS
  <1> DEFINE l == << >>
             s == [state |-> AtCode, cl |-> 1, wl |-> 1, base |-> 0, offset |-> 0, itops |-> 0, dbf |-> FALSE,
                   mask |-> << "data", "data", "data", "data" >>]
  <1>1. vif = s /\ todo = << >> /\ effects = << >> /\ meaning = << >>
    BY DEF VifInit
  <1>2. l \in List \cup {<< >>} /\ s \in VifSettings
    <2>1. << "data", "data", "data", "data" >> \in VifMask
      BY DEF VifMask
    <2> QED
      BY <2>1 DEF VifSettings
  <1>3. Len(l) = 0
    BY EmptySeq
  <1> HIDE DEF l, s
  <1>4. ListIs(l, s, Len(l), ListAt(l, s), WordsTo(l, s), MeansTo(l, s))
    BY <1>2, ListFacts
  <1>5. /\ ListAt(l, s)[0] = s /\ WordsTo(l, s)[0] = << >> /\ MeansTo(l, s)[0] = << >>
        /\ ListMeans(l, s) = << >>
    BY <1>3, <1>4 DEF ListIs
  <1>6. Rest(todo, WordsTo(l, s)[Len(l)], Len(WordsTo(l, s)[0]))
    <2>1. << >> \in Seq(VifWord) /\ Len(<< >>) = 0
      BY EmptySeq
    <2>2. Rest(<< >>, << >>, 0)
      BY <2>1 DEF Rest
    <2> QED
      BY <1>1, <1>3, <1>5, <2>1, <2>2
  <1>7. OnCode(l, s, 0)
    <2>1. 0 \in 0 .. Len(l)
      BY <1>3
    <2> QED
      BY <1>1, <1>5, <1>6, <2>1 DEF OnCode
  <1>8. Laid(s)
    <2>1. s.base = 0 /\ s.offset = 0
      BY DEF s
    <2> QED
      BY <2>1 DEF Laid, ValuesOf
  <1>9. VifInList(l, s)
    BY <1>1, <1>2, <1>5, <1>7, <1>8 DEF VifInList
  <1> QED
    BY <1>9 DEF VifHolds

LEMMA VifMoves == VifHolds /\ [VifNext]_vif_vars => VifHolds'
  <1> SUFFICES ASSUME VifHolds, [VifNext]_vif_vars PROVE VifHolds'
    OBVIOUS
  <1>0. PICK l, s : VifInList(l, s)
    BY DEF VifHolds
  <1>1. l \in List \cup {<< >>} /\ s \in VifSettings /\ Laid(s) /\ meaning = ListMeans(l, s)
    BY <1>0 DEF VifInList
  <1>2. PICK i : OnCode(l, s, i) \/ InCode(l, s, i)
    BY <1>0 DEF VifInList
  <1>3. CASE PushWord
    <2>1. \E h : (OnCode(l, s, h) \/ InCode(l, s, h))'
      <3>1. CASE OnCode(l, s, i)
        BY <1>1, <1>3, <3>1, CodePushed
      <3>2. CASE InCode(l, s, i)
        BY <1>1, <1>3, <3>2, DataPushed
      <3> QED
        BY <1>2, <3>1, <3>2
    <2>2. meaning' = meaning
      BY <1>3 DEF PushWord
    <2>3. VifInList(l, s)'
      BY <1>1, <2>1, <2>2 DEF VifInList
    <2> QED
      BY <2>3 DEF VifHolds
  <1>4. CASE Submit
    <2>1. PICK k \in List : todo' = ListWords(k, vif) /\ meaning' = ListMeans(k, vif)
      BY <1>4 DEF Submit
    <2>2. todo = << >> /\ effects' = << >> /\ vif' = vif
      BY <1>4 DEF Submit
    <2>3. OnCode(l, s, i)
      BY <1>1, <1>2, <2>2, ListOver
    <2>4. vif \in VifSettings /\ Laid(vif)
      <3>1. ListIs(l, s, Len(l), ListAt(l, s), WordsTo(l, s), MeansTo(l, s))
        BY <1>1, ListFacts
      <3> QED
        BY <1>1, <2>3, <3>1, LaidThrough DEF OnCode, ListIs
    <2>5. k \in List \cup {<< >>}
      OBVIOUS
    <2> QED
      BY <2>1, <2>2, <2>4, <2>5, ListBegun
  <1>5. CASE UNCHANGED vif_vars
    <2>1. VifInList(l, s)'
      <3>1. vif' = vif /\ todo' = todo /\ effects' = effects /\ meaning' = meaning
        BY <1>5 DEF vif_vars
      <3>2. OnCode(l, s, i)' <=> OnCode(l, s, i)
        BY <3>1 DEF OnCode
      <3>3. InCode(l, s, i)' <=> InCode(l, s, i)
        BY <3>1 DEF InCode, WithinCode
      <3> QED
        BY <1>1, <1>2, <3>1, <3>2, <3>3 DEF VifInList
    <2> QED
      BY <2>1 DEF VifHolds
  <1> QED
    BY <1>3, <1>4, <1>5 DEF VifNext

LEMMA VifKeeps == VifHolds => InSync /\ EffectsExact
  <1> SUFFICES ASSUME VifHolds PROVE InSync /\ EffectsExact
    OBVIOUS
  <1>0. PICK l, s : VifInList(l, s)
    BY DEF VifHolds
  <1> DEFINE n == Len(l)
             at == ListAt(l, s)
             W == WordsTo(l, s)
             M == MeansTo(l, s)
  <1>1. l \in List \cup {<< >>} /\ s \in VifSettings /\ Laid(s) /\ meaning = ListMeans(l, s)
    BY <1>0 DEF VifInList
  <1>2. PICK i : OnCode(l, s, i) \/ InCode(l, s, i)
    BY <1>0 DEF VifInList
  <1>3. ListIs(l, s, n, at, W, M)
    BY <1>1, ListFacts
  <1>4. CASE OnCode(l, s, i)
    <2>1. i \in 0 .. n /\ vif = at[i] /\ effects = M[i] /\ Rest(todo, W[n], Len(W[i]))
      BY <1>4 DEF OnCode
    <2>2. vif.state = AtCode
      <3> HIDE DEF at, n
      <3>1. at[i] \in VifSettings
        BY <1>3, <2>1 DEF ListIs
      <3> QED
        BY <2>1, <3>1, SettingsAre
    <2>3. todo # << >> => Head(todo).code
      <3> SUFFICES ASSUME todo # << >> PROVE Head(todo).code
        OBVIOUS
      <3> DEFINE h == i + 1
      <3>1. h \in 1 .. n /\ h - 1 = i
        BY <1>1, <1>4, ListOver
      <3> HIDE DEF h, n, at, W, M
      <3>2. DataWords(l[h], at[h - 1]) \in Nat /\ Len(W[h - 1]) \in Nat /\ W[n] \in Seq(VifWord)
        BY <1>3, <3>1, CodeWords, WordsWhole
      <3> DEFINE a == Len(W[h - 1])
      <3>3. 0 \in Nat /\ 0 <= DataWords(l[h], at[h - 1])
        BY <3>2
      <3>4. W[n][(a + 0) + 1].code
        <4> DEFINE e == 0
        <4>1. e \in Nat /\ e <= DataWords(l[h], at[h - 1]) /\ e = 0
          BY <3>3
        <4> HIDE DEF e
        <4>2. W[n][(a + e) + 1] = [code |-> e = 0, c |-> l[h], k |-> e]
          BY <1>3, <3>1, <4>1, WordPlace
        <4>3. W[n][(a + e) + 1].code = (e = 0)
          BY ONLY <4>2
        <4>4. W[n][(a + e) + 1].code
          BY <4>1, <4>3
        <4> QED
          BY <4>4 DEF e
      <3>5. a + 0 = Len(W[i])
        <4> HIDE DEF a
        <4>1. a \in Nat /\ a = Len(W[i])
          BY <3>1, <3>2 DEF a
        <4> QED
          BY <4>1
      <3>6. Head(todo) = W[n][Len(W[i]) + 1]
        BY <2>1, <3>2, RestTurns
      <3> QED
        BY <3>4, <3>5, <3>6
    <2>4. InSync
      BY <2>2, <2>3 DEF InSync
    <2>5. EffectsExact
      <3> SUFFICES ASSUME todo = << >> PROVE effects = meaning
        BY DEF EffectsExact
      <3>1. i = n
        BY <1>1, <1>4, ListOver
      <3> HIDE DEF n, M
      <3>2. meaning = M[n]
        BY <1>1, <1>3 DEF ListIs
      <3> QED
        BY <2>1, <3>1, <3>2
    <2> QED
      BY <2>4, <2>5
  <1>5. CASE InCode(l, s, i)
    <2>0. todo # << >>
      BY <1>1, <1>5, ListOver
    <2>1. PICK j, st, k : WithinCode(l, s, i, j, st, k)
      BY <1>5 DEF InCode
    <2> DEFINE c == l[i]
               v == at[i - 1]
               a == Len(W[i - 1])
               e == j + 1
               d == DataWords(c, v)
    <2>2. /\ i \in 1 .. n /\ Midway(c, v, j, st, k) /\ vif = [v EXCEPT !.state = st]
          /\ Rest(todo, W[n], a + 1 + j)
      BY <2>1 DEF WithinCode
    <2> HIDE DEF n, at, W, M
    <2>3. c \in VifCode /\ v \in VifSettings /\ a \in Nat /\ d \in Nat /\ W[n] \in Seq(VifWord)
      <3> HIDE DEF c, v, a, d
      <3>1. l[i] \in VifCode /\ at[i - 1] \in VifSettings /\ Len(W[i - 1]) \in Nat /\ DataWords(l[i], at[i - 1]) \in Nat
        BY <1>3, <2>2, CodeWords
      <3>2. W[n] \in Seq(VifWord)
        BY <1>3, WordsWhole
      <3> QED
        BY <3>1, <3>2 DEF c, v, a, d
    <2>4. vif.state # AtCode
      <3>1. st # AtCode
        BY <2>2, MidwayIs
      <3>2. vif.state = st
        BY <2>2, <2>3, StateOf
      <3> QED
        BY <3>1, <3>2
    <2>5. e \in Nat /\ e <= d /\ e # 0 /\ j \in Nat
      BY <2>2, <2>3, DataAt1
    <2>6. Head(todo) = W[n][(a + 1 + j) + 1]
      <3> DEFINE z == a + 1 + j
      <3>1. Rest(todo, W[n], z)
        BY <2>2
      <3> HIDE DEF z
      <3>2. Head(todo) = W[n][z + 1]
        BY <2>0, <2>3, <3>1, RestTurns
      <3> QED
        BY <3>2 DEF z
    <2>7. a + 1 + j = a + e
      <3> HIDE DEF a
      <3> QED
        BY <2>3, <2>5
    <2>8. W[n][(a + e) + 1] = [code |-> e = 0, c |-> c, k |-> e]
      <3>1. e \in Nat /\ e <= DataWords(l[i], at[i - 1])
        BY <2>5
      <3> HIDE DEF e
      <3>2. W[n][(Len(W[i - 1]) + e) + 1] = [code |-> e = 0, c |-> l[i], k |-> e]
        BY ONLY <1>3, <2>2, <3>1, WordPlace
      <3> QED
        BY <3>2
    <2>9. ~Head(todo).code
      <3> DEFINE z == W[n][(a + e) + 1]
      <3>1. Head(todo) = z
        BY <2>6, <2>7
      <3> HIDE DEF e
      <3>2. z.code = (e = 0)
        BY ONLY <2>8
      <3> HIDE DEF z
      <3> QED
        BY <2>5, <3>1, <3>2
    <2> QED
      BY <2>0, <2>4, <2>9 DEF InSync, EffectsExact
  <1> QED
    BY <1>2, <1>4, <1>5

\* Whatever lists the software sends: the parser takes a word for a code exactly when
\* it is one, and a list has the effects it means (push_word, unpack_drain).
THEOREM ListsRead == VifSpec => [](InSync /\ EffectsExact)
  <1> QED
    BY VifBegins, VifMoves, VifKeeps, PTL DEF VifSpec

(***************************************************************************)
(* Double buffering, by the effects at a list's codes.                     *)
(***************************************************************************)
\* What ends e: writes into the buffer at t, or a program run on the one at t.
Filled(e, t) ==
    Len(e) > 0 /\ Rebased(e[Len(e)]) => \E j \in 1 .. Len(e) : (\A k \in j .. Len(e) : Rebased(e[k])) /\ e[j].addr = t
RanOn(e, t)  == Len(e) > 0 /\ Started(e[Len(e)]) => e[Len(e)].top = t
Clear(e)     == \A k \in 1 .. Len(e) : ~Rebased(e[k]) /\ ~Started(e[k])

LEMMA KindsApart == \A w : Rebased(w) => ~Started(w)
  BY DEF Rebased, Started

LEMMA JoinedAt ==
    ASSUME NEW e \in Seq(VifEffect), NEW x \in Seq(VifEffect)
    PROVE  /\ e \o x \in Seq(VifEffect) /\ Len(e) \in Nat /\ Len(x) \in Nat /\ Len(e \o x) = Len(e) + Len(x)
           /\ DOMAIN (e \o x) = 1 .. Len(e) + Len(x) /\ DOMAIN e = 1 .. Len(e)
           /\ \A k \in 1 .. Len(e) : (e \o x)[k] = e[k]
           /\ \A k \in 1 .. Len(x) : (e \o x)[Len(e) + k] = x[k]
  <1> DEFINE y == e \o x
             a == Len(e)
             b == Len(x)
  <1>1. /\ y \in Seq(VifEffect) /\ Len(y) = a + b /\ a \in Nat /\ b \in Nat
        /\ \A k \in 1 .. a + b : y[k] = IF k <= a THEN e[k] ELSE x[k - a]
    BY ConcatProperties, LenProperties
  <1>2. DOMAIN y = 1 .. a + b /\ DOMAIN e = 1 .. a
    BY <1>1, LenProperties
  <1> HIDE DEF y, a, b
  <1>3. ASSUME NEW k \in 1 .. a PROVE y[k] = e[k]
    <2>1. k \in 1 .. a + b /\ k <= a
      BY <1>1
    <2> QED
      BY <1>1, <2>1
  <1>4. ASSUME NEW k \in 1 .. b PROVE y[a + k] = x[k]
    <2> DEFINE h == a + k
    <2>1. h \in 1 .. a + b /\ ~(h <= a) /\ h - a = k
      BY <1>1
    <2> HIDE DEF h
    <2>2. y[h] = x[k]
      BY <1>1, <2>1
    <2> QED
      BY <2>2 DEF h
  <1> QED
    BY <1>1, <1>2, <1>3, <1>4 DEF y, a, b

\* The i-th effect obeys double buffering after the one before it.
Obeys(e, o, i) ==
    /\ i > 1 /\ Started(e[i]) /\ Rebased(e[i - 1]) =>
          \E j \in 1 .. i - 1 : (\A k \in j .. i - 1 : Rebased(e[k])) /\ e[j].addr = e[i].top
    /\ i > 1 /\ Rebased(e[i]) /\ Started(e[i - 1]) /\ o > 0 => e[i].addr # e[i - 1].top

LEMMA ObeysAll ==
    ASSUME NEW e \in Seq(VifEffect), NEW o
    PROVE  InStep(e, o) <=> \A i \in 1 .. Len(e) : Obeys(e, o, i)
  <1>1. DOMAIN e = 1 .. Len(e)
    BY LenProperties
  <1> QED
    BY <1>1 DEF InStep, Obeys

\* It looks back only.
LEMMA ObeysBack ==
    ASSUME NEW e, NEW y, NEW o, NEW i \in Nat, \A k \in 1 .. i : y[k] = e[k], Obeys(e, o, i)
    PROVE  Obeys(y, o, i)
  <1> SUFFICES ASSUME i > 1 PROVE Obeys(y, o, i)
    BY DEF Obeys
  <1> DEFINE h == i - 1
  <1>1. h \in 1 .. i /\ i \in 1 .. i /\ \A j \in 1 .. h : j \in 1 .. i /\ \A k \in j .. h : k \in 1 .. i
    OBVIOUS
  <1>2. /\ Started(e[i]) /\ Rebased(e[h]) =>
              \E j \in 1 .. h : (\A k \in j .. h : Rebased(e[k])) /\ e[j].addr = e[i].top
        /\ Rebased(e[i]) /\ Started(e[h]) /\ o > 0 => e[i].addr # e[h].top
    BY DEF Obeys
  <1> HIDE DEF h
  <1>3. y[i] = e[i] /\ y[h] = e[h]
    BY <1>1
  <1>4. ASSUME Started(y[i]), Rebased(y[h])
        PROVE  \E j \in 1 .. h : (\A k \in j .. h : Rebased(y[k])) /\ y[j].addr = y[i].top
    <2>1. PICK j \in 1 .. h : (\A k \in j .. h : Rebased(e[k])) /\ e[j].addr = e[i].top
      BY <1>2, <1>3, <1>4
    <2>2. y[j] = e[j] /\ \A k \in j .. h : y[k] = e[k]
      BY <1>1
    <2>3. \A k \in j .. h : Rebased(y[k])
      BY <2>1, <2>2
    <2> QED
      BY <1>3, <2>1, <2>2, <2>3
  <1>5. Rebased(y[i]) /\ Started(y[h]) /\ o > 0 => y[i].addr # y[h].top
    BY <1>2, <1>3
  <1> QED
    BY <1>4, <1>5 DEF Obeys, h

LEMMA PrefixBuffered ==
    ASSUME NEW e \in Seq(VifEffect), NEW p \in Seq(VifEffect), NEW o, InStep(e, o), Len(p) <= Len(e),
           \A k \in 1 .. Len(p) : p[k] = e[k]
    PROVE  InStep(p, o)
  <1>0. Len(p) \in Nat /\ Len(e) \in Nat
    BY LenProperties
  <1>1. ASSUME NEW i \in 1 .. Len(p) PROVE Obeys(p, o, i)
    <2>1. i \in 1 .. Len(e) /\ i \in Nat /\ \A k \in 1 .. i : k \in 1 .. Len(p)
      BY <1>0
    <2>2. Obeys(e, o, i) /\ \A k \in 1 .. i : p[k] = e[k]
      BY <2>1, ObeysAll
    <2> QED
      BY <2>1, <2>2, ObeysBack
  <1> QED
    BY <1>1, ObeysAll

\* More effects, of which the first obeys and each later one is like none before it.
LEMMA MoreBuffered ==
    ASSUME NEW e \in Seq(VifEffect), NEW x \in Seq(VifEffect), NEW o, InStep(e, o),
           Len(x) > 0 => Obeys(e \o x, o, Len(e) + 1),
           \A k \in 1 .. Len(x) : k > 1 => ~Started(x[k]) /\ ~(Rebased(x[k]) /\ Started(x[k - 1]))
    PROVE  InStep(e \o x, o)
  <1> DEFINE y == e \o x
             a == Len(e)
             b == Len(x)
  <1>1. /\ y \in Seq(VifEffect) /\ a \in Nat /\ b \in Nat /\ Len(y) = a + b
        /\ (\A k \in 1 .. a : y[k] = e[k]) /\ (\A k \in 1 .. b : y[a + k] = x[k])
    BY JoinedAt
  <1>2. /\ b > 0 => Obeys(y, o, a + 1)
        /\ \A k \in 1 .. b : k > 1 => ~Started(x[k]) /\ ~(Rebased(x[k]) /\ Started(x[k - 1]))
    OBVIOUS
  <1> HIDE DEF y, a, b
  <1>3. ASSUME NEW i \in 1 .. a + b PROVE Obeys(y, o, i)
    <2>1. CASE i <= a
      <3>1. i \in Nat /\ i \in 1 .. a /\ \A k \in 1 .. i : k \in 1 .. a
        BY <1>1, <2>1
      <3>2. Obeys(e, o, i) /\ \A k \in 1 .. i : y[k] = e[k]
        BY <1>1, <3>1, ObeysAll DEF a
      <3> QED
        BY <3>1, <3>2, ObeysBack
    <2>2. CASE i = a + 1
      <3>1. b > 0
        BY <1>1, <2>2
      <3> QED
        BY <1>2, <2>2, <3>1
    <2>3. CASE i > a + 1
      <3> DEFINE k == i - a
                 h == k - 1
      <3>1. k \in 1 .. b /\ k > 1 /\ h \in 1 .. b /\ a + k = i /\ a + h = i - 1
        BY <1>1, <2>3
      <3>2. ~Started(x[k]) /\ ~(Rebased(x[k]) /\ Started(x[k - 1]))
        <4> HIDE DEF k
        <4> QED
          BY <1>2, <3>1
      <3>3. ~Started(x[k]) /\ ~(Rebased(x[k]) /\ Started(x[h]))
        BY <3>2
      <3> HIDE DEF k, h
      <3>4. y[i] = x[k] /\ y[i - 1] = x[h]
        <4>1. y[a + k] = x[k] /\ y[a + h] = x[h]
          BY <1>1, <3>1
        <4> QED
          BY <3>1, <4>1
      <3> QED
        BY <3>3, <3>4 DEF Obeys
    <2> QED
      BY <1>1, <2>1, <2>2, <2>3
  <1>4. InStep(y, o)
    BY <1>1, <1>3, ObeysAll
  <1> QED
    BY <1>4 DEF y

LEMMA LastJoined ==
    ASSUME NEW e \in Seq(VifEffect), NEW x \in Seq(VifEffect)
    PROVE  /\ Len(e \o x) = Len(e) + Len(x)
           /\ Len(x) > 0 => (e \o x)[Len(e \o x)] = x[Len(x)]
           /\ Len(x) > 0 => /\ (e \o x)[Len(e) + 1] = x[1]
                            /\ Len(e) > 0 => (e \o x)[(Len(e) + 1) - 1] = e[Len(e)]
  <1> DEFINE y == e \o x
             a == Len(e)
             b == Len(x)
  <1>1. /\ a \in Nat /\ b \in Nat /\ Len(y) = a + b
        /\ (\A k \in 1 .. a : y[k] = e[k]) /\ (\A k \in 1 .. b : y[a + k] = x[k])
    BY JoinedAt
  <1> HIDE DEF y, a, b
  <1>2. b > 0 => y[Len(y)] = x[b] /\ y[a + 1] = x[1]
    <2>1. b > 0 => b \in 1 .. b /\ 1 \in 1 .. b
      BY <1>1
    <2> QED
      BY <1>1, <2>1
  <1>3. a > 0 => y[(a + 1) - 1] = e[a]
    <2>1. a > 0 => a \in 1 .. a /\ (a + 1) - 1 = a
      BY <1>1
    <2> QED
      BY <1>1, <2>1
  <1> QED
    BY <1>1, <1>2, <1>3 DEF y, a, b

\* Effects of another kind.
LEMMA ClearJoined ==
    ASSUME NEW e \in Seq(VifEffect), NEW x \in Seq(VifEffect), NEW o, NEW t, NEW u,
           InStep(e, o), Clear(x), Len(x) > 0
    PROVE  InStep(e \o x, o) /\ Filled(e \o x, t) /\ RanOn(e \o x, u) /\ (Clear(e) => Clear(e \o x))
  <1> DEFINE y == e \o x
             a == Len(e)
             b == Len(x)
  <1>1. /\ a \in Nat /\ b \in Nat /\ Len(y) = a + b
        /\ (\A k \in 1 .. a : y[k] = e[k]) /\ (\A k \in 1 .. b : y[a + k] = x[k])
    BY JoinedAt
  <1>2. y[Len(y)] = x[b] /\ y[a + 1] = x[1]
    BY LastJoined
  <1>3. \A k \in 1 .. b : ~Rebased(x[k]) /\ ~Started(x[k])
    BY DEF Clear
  <1>4. 1 \in 1 .. b /\ b \in 1 .. b
    BY <1>1
  <1>5. InStep(y, o)
    <2>1. Obeys(y, o, a + 1)
      <3>1. ~Rebased(y[a + 1]) /\ ~Started(y[a + 1])
        BY <1>2, <1>3, <1>4
      <3> HIDE DEF y, a
      <3> QED
        BY <3>1 DEF Obeys
    <2>2. \A k \in 1 .. b : k > 1 => ~Started(x[k]) /\ ~(Rebased(x[k]) /\ Started(x[k - 1]))
      BY <1>3
    <2> QED
      BY <2>1, <2>2, MoreBuffered
  <1> HIDE DEF y, a, b
  <1>6. ~Rebased(y[Len(y)]) /\ ~Started(y[Len(y)])
    BY <1>2, <1>3, <1>4
  <1>7. Filled(y, t) /\ RanOn(y, u)
    BY <1>6 DEF Filled, RanOn
  <1>8. ASSUME Clear(e) PROVE Clear(y)
    <2>1. \A k \in 1 .. a : ~Rebased(e[k]) /\ ~Started(e[k])
      BY <1>8 DEF Clear, a
    <2>2. ASSUME NEW k \in 1 .. Len(y) PROVE ~Rebased(y[k]) /\ ~Started(y[k])
      <3>1. CASE k <= a
        <4>1. k \in 1 .. a
          BY <1>1, <3>1
        <4> QED
          BY <1>1, <2>1, <4>1
      <3>2. CASE ~(k <= a)
        <4> DEFINE h == k - a
        <4>1. h \in 1 .. b /\ a + h = k
          BY <1>1, <3>2
        <4> HIDE DEF h
        <4>2. y[k] = x[h]
          BY <1>1, <4>1
        <4> QED
          BY <1>3, <4>1, <4>2
      <3> QED
        BY <3>1, <3>2
    <2> QED
      BY <2>2 DEF Clear
  <1> QED
    BY <1>5, <1>7, <1>8 DEF y

\* A program started on the buffer just filled.
LEMMA StartJoined ==
    ASSUME NEW e \in Seq(VifEffect), NEW w \in VifEffect, NEW o, NEW t,
           InStep(e, o), Started(w), Filled(e, w.top)
    PROVE  InStep(e \o << w >>, o) /\ Filled(e \o << w >>, t) /\ RanOn(e \o << w >>, w.top)
  <1> DEFINE x == << w >>
             y == e \o x
             a == Len(e)
  <1>1. x \in Seq(VifEffect) /\ Len(x) = 1 /\ x[1] = w
    OBVIOUS
  <1> HIDE DEF x
  <1>2. /\ y[Len(y)] = w /\ y[a + 1] = w /\ a \in Nat /\ (a > 0 => y[(a + 1) - 1] = e[a])
        /\ (\A k \in 1 .. a : y[k] = e[k])
    <2>1. a \in Nat /\ \A k \in 1 .. a : y[k] = e[k]
      BY <1>1, JoinedAt
    <2>2. Len(x) > 0
      BY <1>1
    <2>3. y[Len(y)] = x[Len(x)] /\ y[a + 1] = x[1] /\ (a > 0 => y[(a + 1) - 1] = e[a])
      BY <1>1, <2>2, LastJoined
    <2> HIDE DEF y, a
    <2> QED
      BY <1>1, <2>1, <2>3
  <1>3. ~Rebased(w)
    BY KindsApart
  <1>4. Obeys(y, o, a + 1)
    <2> DEFINE i == a + 1
    <2>0. i - 1 = a /\ y[i] = w /\ ~Rebased(y[i])
      BY <1>2, <1>3
    <2>1. ASSUME i > 1, Rebased(y[i - 1])
          PROVE  \E j \in 1 .. i - 1 : (\A k \in j .. i - 1 : Rebased(y[k])) /\ y[j].addr = y[i].top
      <3>1. a > 0
        BY <1>2, <2>1
      <3>2. y[i - 1] = e[a]
        BY <1>2, <3>1
      <3>3. PICK j \in 1 .. a : (\A k \in j .. a : Rebased(e[k])) /\ e[j].addr = w.top
        BY <2>1, <3>1, <3>2 DEF Filled
      <3> HIDE DEF y, a, i
      <3>4. y[j] = e[j] /\ \A k \in j .. a : k \in 1 .. a
        BY <1>2
      <3>5. \A k \in j .. a : Rebased(y[k])
        BY <1>2, <3>3, <3>4
      <3>6. y[j].addr = y[i].top
        BY <2>0, <3>3, <3>4
      <3> QED
        BY <2>0, <3>5, <3>6
    <2> HIDE DEF i, y
    <2>2. Obeys(y, o, i)
      BY <2>0, <2>1 DEF Obeys
    <2> QED
      BY <2>2 DEF i
  <1>5. InStep(y, o)
    <2>1. \A k \in 1 .. Len(x) : k > 1 => ~Started(x[k]) /\ ~(Rebased(x[k]) /\ Started(x[k - 1]))
      BY <1>1
    <2> QED
      BY <1>1, <1>4, <2>1, MoreBuffered
  <1> HIDE DEF y
  <1>6. Filled(y, t) /\ RanOn(y, w.top)
    BY <1>2, <1>3 DEF Filled, RanOn
  <1> QED
    BY <1>5, <1>6 DEF x, y

\* Rebased writes: a new run from the buffer's start, or more of one.
LEMMA RebasedJoined ==
    ASSUME NEW e \in Seq(VifEffect), NEW x \in Seq(VifEffect), NEW o, NEW t, NEW u,
           InStep(e, o), Filled(e, t), Len(x) > 0, \A k \in 1 .. Len(x) : Rebased(x[k]),
           ~(Len(e) > 0 /\ Rebased(e[Len(e)])) => x[1].addr = t,
           Len(e) > 0 /\ Started(e[Len(e)]) /\ o > 0 => x[1].addr # e[Len(e)].top
    PROVE  /\ InStep(e \o x, o) /\ Filled(e \o x, t) /\ RanOn(e \o x, u)
           /\ Len(e \o x) > 0 /\ Rebased((e \o x)[Len(e \o x)])
  <1> DEFINE y == e \o x
             a == Len(e)
             b == Len(x)
  <1>1. /\ a \in Nat /\ b \in Nat /\ b > 0 /\ Len(y) = a + b
        /\ (\A k \in 1 .. a : y[k] = e[k]) /\ (\A k \in 1 .. b : y[a + k] = x[k])
    BY JoinedAt
  <1>2. y[Len(y)] = x[b] /\ y[a + 1] = x[1] /\ (a > 0 => y[(a + 1) - 1] = e[a])
    BY LastJoined
  <1>3. \A k \in 1 .. b : Rebased(x[k]) /\ ~Started(x[k])
    BY KindsApart
  <1>4. 1 \in 1 .. b /\ b \in 1 .. b
    BY <1>1
  <1>5. InStep(y, o)
    <2>1. Obeys(y, o, a + 1)
      <3> DEFINE i == a + 1
      <3>1. ~Started(y[i]) /\ y[i] = x[1] /\ (i > 1 => a > 0) /\ (a > 0 => y[i - 1] = e[a])
        BY <1>1, <1>2, <1>3, <1>4
      <3>2. i > 1 /\ Started(y[i - 1]) /\ o > 0 => y[i].addr # y[i - 1].top
        <4> SUFFICES ASSUME i > 1, Started(y[i - 1]), o > 0 PROVE y[i].addr # y[i - 1].top
          OBVIOUS
        <4>1. a > 0
          BY <3>1
        <4>2. x[1].addr # e[a].top
          <5>1. y[i - 1] = e[a]
            BY <3>1, <4>1
          <5>2. Started(e[a])
            BY <5>1
          <5> QED
            BY <4>1, <5>2
        <4> HIDE DEF i, y, a
        <4> QED
          BY <3>1, <4>1, <4>2
      <3> HIDE DEF i, y
      <3>3. Obeys(y, o, i)
        BY <3>1, <3>2 DEF Obeys
      <3> QED
        BY <3>3 DEF i
    <2>2. \A k \in 1 .. b : k > 1 => ~Started(x[k]) /\ ~(Rebased(x[k]) /\ Started(x[k - 1]))
      <3> SUFFICES ASSUME NEW k \in 1 .. b, k > 1 PROVE ~Started(x[k]) /\ ~Started(x[k - 1])
        OBVIOUS
      <3>1. k - 1 \in 1 .. b
        BY <1>1
      <3> QED
        BY <1>3, <3>1
    <2> QED
      BY <2>1, <2>2, MoreBuffered
  <1>6. Len(y) > 0 /\ Rebased(y[Len(y)]) /\ ~Started(y[Len(y)])
    <2> HIDE DEF y, a, b
    <2> QED
      BY <1>1, <1>2, <1>3, <1>4
  <1>7. \A k \in (a + 1) .. Len(y) : Rebased(y[k])
    <2> SUFFICES ASSUME NEW k \in (a + 1) .. Len(y) PROVE Rebased(y[k])
      OBVIOUS
    <2> DEFINE h == k - a
    <2> HIDE DEF y, a, b
    <2>1. h \in 1 .. b /\ a + h = k
      BY <1>1
    <2> HIDE DEF h
    <2>2. y[k] = x[h]
      BY <1>1, <2>1
    <2> QED
      BY <1>3, <2>1, <2>2
  <1>8. \E j \in 1 .. Len(y) : (\A k \in j .. Len(y) : Rebased(y[k])) /\ y[j].addr = t
    <2>1. CASE a > 0 /\ Rebased(e[a])
      <3>1. PICK j \in 1 .. a : (\A k \in j .. a : Rebased(e[k])) /\ e[j].addr = t
        BY <2>1 DEF Filled
      <3> HIDE DEF y, a, b
      <3>2. j \in 1 .. Len(y) /\ y[j] = e[j]
        BY <1>1
      <3>3. ASSUME NEW k \in j .. Len(y) PROVE Rebased(y[k])
        <4>1. CASE k <= a
          <5>1. k \in 1 .. a /\ k \in j .. a
            BY <1>1, <4>1
          <5> QED
            BY <1>1, <3>1, <5>1
        <4>2. CASE ~(k <= a)
          <5>1. k \in (a + 1) .. Len(y)
            BY <1>1, <4>2
          <5> QED
            BY <1>7, <5>1
        <4> QED
          BY <4>1, <4>2
      <3> QED
        BY <3>1, <3>2, <3>3
    <2>2. CASE ~(a > 0 /\ Rebased(e[a]))
      <3> DEFINE j == a + 1
      <3>0. x[1].addr = t
        BY <2>2
      <3> HIDE DEF y, a, b
      <3>1. j \in 1 .. Len(y) /\ y[j].addr = t /\ \A k \in j .. Len(y) : Rebased(y[k])
        <4>1. j \in 1 .. Len(y)
          BY <1>1
        <4>2. y[j].addr = t
          BY <1>2, <3>0
        <4>3. \A k \in j .. Len(y) : Rebased(y[k])
          BY <1>7
        <4> QED
          BY <4>1, <4>2, <4>3
      <3> HIDE DEF j
      <3> QED
        BY <3>1
    <2> QED
      BY <2>1, <2>2
  <1> HIDE DEF y
  <1>9. Filled(y, t) /\ RanOn(y, u)
    BY <1>6, <1>8 DEF Filled, RanOn
  <1> QED
    BY <1>5, <1>6, <1>9 DEF y

\* The buffers the settings v name: the one to fill, and the one last run on.
Ran(v) == v.base + (IF v.dbf THEN 0 ELSE v.offset)
Steady(l, i, e, v) ==
    /\ e \in Seq(VifEffect) /\ v \in VifSettings /\ Laid(v)
    /\ InStep(e, v.offset) /\ Filled(e, Tops(v)) /\ RanOn(e, Ran(v))
    /\ (\A k \in 1 .. i : ~RebasedCode(l[k]) /\ ~Starting(l[k])) => Clear(e)
    /\ i > 0 /\ RebasedCode(l[i]) => Len(e) > 0 /\ Rebased(e[Len(e)])

LEMMA LaidIs ==
    ASSUME Disciplined, NEW v \in VifSettings, Laid(v)
    PROVE  /\ v.base \in Nat /\ v.offset \in Nat /\ v.dbf \in BOOLEAN /\ Tops(v) \in 0 .. DataSize - 1
           /\ Tops(v) % DataSize = Tops(v) /\ (v.offset > 0 => Tops(v) # Ran(v))
  <1> DEFINE b == v.base
             o == v.offset
  <1>1. b \in Nat /\ o \in Nat /\ v.dbf \in BOOLEAN
    BY SettingsAre
  <1>2. b + o < DataSize /\ DataSize \in Nat \ {0}
    <2>1. b \in ValuesOf("base") /\ o \in ValuesOf("offset")
      BY DEF Laid
    <2> HIDE DEF b, o
    <2> QED
      BY <2>1, VifAssumption DEF Disciplined
  <1>3. Tops(v) = b + (IF v.dbf THEN o ELSE 0) /\ Ran(v) = b + (IF v.dbf THEN 0 ELSE o)
    BY DEF Tops, Ran
  <1> HIDE DEF b, o
  <1> DEFINE t == Tops(v)
  <1>4. t \in Nat /\ t < DataSize /\ (o > 0 => t # Ran(v))
    <2>1. CASE v.dbf
      <3>1. t = b + o /\ Ran(v) = b + 0
        BY <1>3, <2>1
      <3> HIDE DEF t
      <3> QED
        BY <1>1, <1>2, <3>1
    <2>2. CASE ~v.dbf
      <3>1. t = b + 0 /\ Ran(v) = b + o
        BY <1>3, <2>2
      <3> HIDE DEF t
      <3> QED
        BY <1>1, <1>2, <3>1
    <2> QED
      BY <2>1, <2>2
  <1> HIDE DEF t
  <1>5. t \in 0 .. DataSize - 1 /\ t % DataSize = t
    <2>1. t \in 0 .. DataSize - 1
      BY <1>2, <1>4
    <2>2. 0 * DataSize = 0 /\ 0 + t = t
      BY <1>2, <1>4
    <2>3. (0 * DataSize + t) % DataSize = t
      BY <1>2, <2>1, DivOf
    <2> QED
      BY <2>1, <2>2, <2>3
  <1> QED
    BY <1>1, <1>4, <1>5 DEF b, o, t

\* The first write of an UNPACK.
LEMMA FirstWriteAt ==
    ASSUME NEW c, NEW s, Unpacking(c, s)
    PROVE  WriteAt(c, s, 0) = c.addr + (IF c.flg THEN Tops(s) ELSE 0)
  <1> DEFINE wl == Count(s.wl)
             cl == Count(s.cl)
             B == UnpackBase(c, s)
  <1>1. wl \in Nat \ {0} /\ cl \in Nat /\ B \in Nat
    BY UnpackingIs
  <1>2. B = c.addr + (IF c.flg THEN Tops(s) ELSE 0)
    BY DEF UnpackBase, Tops
  <1>3. 0 % wl = 0 /\ 0 \div wl = 0
    <2> HIDE DEF wl
    <2>1. 0 * wl = 0 /\ 0 \in 0 .. (wl - 1) /\ 0 \in Nat /\ 0 + 0 = 0
      BY <1>1
    <2>2. (0 * wl + 0) % wl = 0 /\ (0 * wl + 0) \div wl = 0
      BY <1>1, <2>1, DivOf
    <2> QED
      BY <2>1, <2>2
  <1>4. WriteAt(c, s, 0) = B + (IF cl > wl THEN 0 * cl + 0 ELSE 0)
    BY <1>3 DEF WriteAt
  <1> HIDE DEF B, cl, wl
  <1>5. WriteAt(c, s, 0) = B
    BY <1>1, <1>4
  <1> QED
    BY <1>2, <1>5

\* The kinds of a code's effects.
LEMMA KindsOf ==
    ASSUME NEW c \in VifCode, NEW v \in VifSettings
    PROVE  /\ Effect(c, v) \in Seq(VifEffect)
           /\ c.op \in {"stcycl", "offset", "base", "itop", "nop", "stmask", "strow", "stcol"} => Effect(c, v) = << >>
           /\ c.op \in {"direct", "mpg"} \/ (c.op = "unpack" /\ ~c.flg) => Clear(Effect(c, v)) /\ Len(Effect(c, v)) > 0
           /\ Starting(c) => Effect(c, v) = << [kind |-> c.op, top |-> Tops(v), itop |-> v.itops] >>
           /\ RebasedCode(c) => /\ Len(Effect(c, v)) > 0 /\ \A k \in 1 .. Len(Effect(c, v)) : Rebased(Effect(c, v)[k])
                                /\ Effect(c, v)[1].addr = (c.addr + Tops(v)) % DataSize
  <1> DEFINE x == Effect(c, v)
             num == Count(c.num)
  <1>1. x \in Seq(VifEffect)
    BY EffectIs
  <1>2. c.op \in {"direct", "mpg", "unpack"} => num \in Nat \ {0}
    BY CodeIs, CountIs
  <1>3. ASSUME c.op = "direct" PROVE Clear(x) /\ Len(x) > 0
    <2>1. Len(x) = num /\ \A k \in 1 .. num : x[k] = [kind |-> "quad", words |-> [j \in 1 .. 4 |-> 4 * (k - 1) + j]]
      BY <1>3, EffectIs
    <2> HIDE DEF x, num
    <2>2. Len(x) > 0
      BY <1>2, <1>3, <2>1
    <2>3. \A k \in 1 .. num : x[k].kind = "quad"
      BY <2>1
    <2> QED
      BY <2>1, <2>2, <2>3 DEF Clear, Rebased, Started
  <1>4. ASSUME c.op = "mpg" PROVE Clear(x) /\ Len(x) > 0
    <2> DEFINE m == 2 * num
    <2>1. Len(x) = m /\ \A k \in 1 .. m :
              x[k] = [kind |-> "micro", addr |-> (2 * c.addr + k - 1) % MicroSize, word |-> k]
      BY <1>4, EffectIs
    <2> HIDE DEF x, num
    <2>2. m \in Nat /\ m > 0
      BY <1>2, <1>4
    <2> HIDE DEF m
    <2>3. \A k \in 1 .. m : x[k].kind = "micro"
      BY <2>1
    <2> QED
      BY <2>1, <2>2, <2>3 DEF Clear, Rebased, Started
  <1>5. ASSUME c.op = "unpack"
        PROVE  /\ Len(x) > 0 /\ \A k \in 1 .. Len(x) : x[k].kind = "write" /\ x[k].flg = c.flg
               /\ x[1].addr = WriteAt(c, v, 0) % DataSize
    <2>0. Unpacking(c, v)
      BY <1>5 DEF Unpacking
    <2>1. x = UnpackMeans(c, v)
      BY <1>5, EffectIs
    <2>2. Len(x) = num /\ \A m \in 0 .. num - 1 : x[m + 1] = WriteOf(c, v, m)
      BY <2>0, <2>1, UnpackSeq
    <2> HIDE DEF x, num
    <2>3. num \in Nat \ {0}
      BY <1>2, <1>5
    <2>4. ASSUME NEW k \in 1 .. Len(x) PROVE x[k].kind = "write" /\ x[k].flg = c.flg
      <3> DEFINE m == k - 1
      <3>1. m \in 0 .. num - 1 /\ m + 1 = k
        BY <2>2, <2>3
      <3> HIDE DEF m
      <3>2. x[k] = WriteOf(c, v, m)
        BY <2>2, <3>1
      <3> QED
        BY <3>2 DEF WriteOf
    <2>5. x[1].addr = WriteAt(c, v, 0) % DataSize
      <3> DEFINE m == 0
      <3>1. m \in 0 .. num - 1 /\ m + 1 = 1
        BY <2>3
      <3> HIDE DEF m
      <3>2. x[1] = WriteOf(c, v, m)
        BY <2>2, <3>1
      <3>3. x[1].addr = WriteAt(c, v, m) % DataSize
        BY <3>2 DEF WriteOf
      <3> QED
        BY <3>3 DEF m
    <2>6. Len(x) > 0
      BY <2>2, <2>3
    <2> QED
      BY ONLY <2>4, <2>5, <2>6
  <1>6. ASSUME c.op = "unpack", ~c.flg PROVE Clear(x) /\ Len(x) > 0
    <2>1. Len(x) > 0 /\ \A k \in 1 .. Len(x) : x[k].kind = "write" /\ ~x[k].flg
      BY <1>5, <1>6
    <2> HIDE DEF x
    <2> QED
      BY <2>1 DEF Clear, Rebased, Started
  <1>7. ASSUME RebasedCode(c)
        PROVE  /\ Len(x) > 0 /\ (\A k \in 1 .. Len(x) : Rebased(x[k])) /\ x[1].addr = (c.addr + Tops(v)) % DataSize
    <2>1. c.op = "unpack" /\ c.flg
      BY <1>7 DEF RebasedCode
    <2>2. /\ Len(x) > 0 /\ (\A k \in 1 .. Len(x) : x[k].kind = "write" /\ x[k].flg)
          /\ x[1].addr = WriteAt(c, v, 0) % DataSize
      BY <1>5, <2>1
    <2>3. WriteAt(c, v, 0) = c.addr + Tops(v)
      <3>1. Unpacking(c, v)
        BY <2>1 DEF Unpacking
      <3>2. WriteAt(c, v, 0) = c.addr + (IF c.flg THEN Tops(v) ELSE 0)
        BY <3>1, FirstWriteAt
      <3> QED
        BY <2>1, <3>2
    <2> HIDE DEF x
    <2>4. \A k \in 1 .. Len(x) : Rebased(x[k])
      BY <2>2 DEF Rebased
    <2> QED
      BY <2>2, <2>3, <2>4
  <1>8. Starting(c) => x = << [kind |-> c.op, top |-> Tops(v), itop |-> v.itops] >>
    <2> SUFFICES ASSUME Starting(c) PROVE x = << [kind |-> c.op, top |-> Tops(v), itop |-> v.itops] >>
      OBVIOUS
    <2>1. c.op \in {"mscal", "mscnt"}
      BY DEF Starting
    <2>2. x = << [kind |-> c.op, top |-> v.base + (IF v.dbf THEN v.offset ELSE 0), itop |-> v.itops] >>
      BY <2>1, EffectIs
    <2> QED
      BY <2>2 DEF Tops
  <1>9. c.op \in {"stcycl", "offset", "base", "itop", "nop", "stmask", "strow", "stcol"} => x = << >>
    BY EffectIs
  <1> HIDE DEF x
  <1> QED
    BY <1>1, <1>3, <1>4, <1>6, <1>7, <1>8, <1>9 DEF x

\* What the discipline says at a code.
LEMMA AtCodeIs ==
    ASSUME Disciplined, NEW l \in List \cup {<< >>}, NEW i \in 1 .. Len(l)
    PROVE  /\ l[i] \in VifCode /\ i \in Nat /\ Len(l) \in Nat
           /\ RebasedCode(l[i]) /\ l[i].addr # 0 => i > 1 /\ RebasedCode(l[i - 1])
           /\ l[i].op \in {"base", "offset"} => \A k \in 1 .. i - 1 : ~RebasedCode(l[k]) /\ ~Starting(l[k])
  <1>2. l \in List /\ Len(l) \in Nat /\ DOMAIN l = 1 .. Len(l) /\ l[i] \in VifCode /\ i \in Nat
    BY InList
  <1>4. i \in DOMAIN l
    BY <1>2
  <1>5. /\ RebasedCode(l[i]) /\ l[i].addr # 0 => i > 1 /\ RebasedCode(l[i - 1])
        /\ l[i].op \in {"base", "offset"} => \A k \in DOMAIN l : k < i => ~RebasedCode(l[k]) /\ ~Starting(l[k])
    BY <1>2, <1>4 DEF Disciplined
  <1>6. \A k \in 1 .. i - 1 : k \in DOMAIN l /\ k < i
    BY <1>2
  <1> QED
    BY <1>2, <1>5, <1>6

LEMMA EmptyJoined == ASSUME NEW e \in Seq(VifEffect) PROVE e \o << >> = e
  BY ConcatEmptySeq

LEMMA SteadyTurns ==
    ASSUME Disciplined, NEW l \in List \cup {<< >>}, NEW i \in 1 .. Len(l), NEW e, NEW v, Steady(l, i - 1, e, v)
    PROVE  Steady(l, i, e \o Effect(l[i], v), Setting(l[i], v))
  <1> DEFINE c == l[i]
             x == Effect(c, v)
             y == e \o x
             s == Setting(c, v)
             Calm(n) == \A k \in 1 .. n : ~RebasedCode(l[k]) /\ ~Starting(l[k])
  <1>1. /\ e \in Seq(VifEffect) /\ v \in VifSettings /\ Laid(v)
        /\ InStep(e, v.offset) /\ Filled(e, Tops(v)) /\ RanOn(e, Ran(v))
        /\ (Calm(i - 1) => Clear(e))
        /\ i - 1 > 0 /\ RebasedCode(l[i - 1]) => Len(e) > 0 /\ Rebased(e[Len(e)])
    BY DEF Steady
  <1>2. /\ c \in VifCode /\ i \in Nat /\ i > 0
        /\ RebasedCode(c) /\ c.addr # 0 => i > 1 /\ RebasedCode(l[i - 1])
        /\ c.op \in {"base", "offset"} => Calm(i - 1)
    BY AtCodeIs
  <1>3. Calm(i) => Calm(i - 1) /\ ~RebasedCode(c) /\ ~Starting(c)
    BY <1>2
  <1> HIDE DEF c, Calm
  <1>4. s \in VifSettings /\ x \in Seq(VifEffect) /\ y \in Seq(VifEffect)
    <2>1. s \in VifSettings /\ x \in Seq(VifEffect)
      BY <1>1, <1>2, SettingIs, KindsOf
    <2> HIDE DEF x, s
    <2> QED
      BY <1>1, <2>1, ConcatProperties
  <1>5. /\ c.op \in {"unpack", "direct", "mpg", "stcycl", "base", "offset", "itop", "stmask", "strow", "stcol",
                     "mscal", "mscnt", "nop"}
        /\ RebasedCode(c) <=> c.op = "unpack" /\ c.flg
        /\ Starting(c) <=> c.op \in {"mscal", "mscnt"}
    BY <1>2, CodeIs DEF RebasedCode, Starting
  <1>6. c.op \notin {"base", "offset", "mscal", "mscnt"} => s.base = v.base /\ s.offset = v.offset /\ s.dbf = v.dbf
    BY <1>1, <1>2, <1>5 DEF Setting, VifSettings
  <1>7. Laid(s) /\ (c.op \notin {"base", "offset", "mscal", "mscnt"} => Tops(s) = Tops(v) /\ Ran(s) = Ran(v))
    <2>1. Laid(s)
      <3> HIDE DEF s
      <3> QED
        BY <1>1, LaidKept DEF s, c
    <2> QED
      BY <1>6, <2>1 DEF Tops, Ran
  <1>8. CASE c.op \in {"stcycl", "itop", "nop", "stmask", "strow", "stcol"}
    <2>1. x = << >>
      BY <1>1, <1>2, <1>8, KindsOf
    <2>2. y = e
      BY <1>1, <2>1, EmptyJoined
    <2>3. ~RebasedCode(c) /\ s.offset = v.offset /\ Laid(s) /\ Tops(s) = Tops(v) /\ Ran(s) = Ran(v)
      BY <1>5, <1>6, <1>7, <1>8
    <2>4. Calm(i) => Clear(y)
      BY <1>1, <1>3, <2>2
    <2> HIDE DEF y, s
    <2>5. /\ y \in Seq(VifEffect) /\ s \in VifSettings /\ Laid(s)
          /\ InStep(y, s.offset) /\ Filled(y, Tops(s)) /\ RanOn(y, Ran(s))
      BY <1>1, <1>4, <2>2, <2>3
    <2>6. Steady(l, i, y, s)
      BY <2>3, <2>4, <2>5 DEF Steady, Calm, c
    <2> QED
      BY <2>6 DEF y, s, x, c
  <1>9. CASE c.op \in {"base", "offset"}
    <2>1. x = << >>
      BY <1>1, <1>2, <1>9, KindsOf
    <2>2. y = e /\ Clear(e)
      BY <1>1, <1>2, <1>9, <2>1, EmptyJoined
    <2>3. Laid(s)
      BY <1>7
    <2>4. ~RebasedCode(c)
      BY <1>5, <1>9
    <2> HIDE DEF y, s
    <2>5. Len(e) \in Nat /\ DOMAIN e = 1 .. Len(e)
      BY <1>1, LenProperties
    <2>6. \A k \in 1 .. Len(e) : ~Rebased(e[k]) /\ ~Started(e[k])
      BY <2>2 DEF Clear
    <2>7. Len(e) > 0 => ~Rebased(e[Len(e)]) /\ ~Started(e[Len(e)])
      BY <2>5, <2>6
    <2>8. Filled(e, Tops(s)) /\ RanOn(e, Ran(s))
      BY <2>7 DEF Filled, RanOn
    <2>9. InStep(e, s.offset)
      BY <2>5, <2>6 DEF InStep
    <2>10. Steady(l, i, y, s)
      BY <1>4, <2>2, <2>3, <2>4, <2>8, <2>9 DEF Steady, c
    <2> QED
      BY <2>10 DEF y, s, x, c
  <1>10. CASE c.op \in {"mscal", "mscnt"}
    <2> DEFINE w == [kind |-> c.op, top |-> Tops(v), itop |-> v.itops]
    <2>1. x = << w >> /\ Started(w) /\ w.top = Tops(v)
      BY <1>1, <1>2, <1>5, <1>10, KindsOf DEF Started
    <2>2. v.base \in Nat /\ v.offset \in Nat /\ v.dbf \in BOOLEAN /\ v.itops \in Nat
      BY <1>1, SettingsAre
    <2>3. w \in VifEffect
      <3>1. Tops(v) \in Nat
        BY <2>2 DEF Tops
      <3> QED
        BY <1>10, <2>2, <3>1 DEF VifEffect
    <2>4. s = [v EXCEPT !.dbf = ~v.dbf]
      BY <1>10 DEF Setting
    <2>5. s.base = v.base /\ s.offset = v.offset /\ s.dbf = ~v.dbf
      BY <1>1, <2>4 DEF VifSettings
    <2>6. Laid(s) /\ Ran(s) = Tops(v)
      <3>1. Laid(s)
        BY <1>7
      <3>2. (IF s.dbf THEN 0 ELSE s.offset) = (IF v.dbf THEN v.offset ELSE 0)
        BY <2>2, <2>5
      <3> QED
        BY <2>5, <3>1, <3>2 DEF Ran, Tops
    <2> HIDE DEF w, s
    <2>7. InStep(e \o << w >>, v.offset) /\ Filled(e \o << w >>, Tops(s)) /\ RanOn(e \o << w >>, w.top)
      <3>1. Filled(e, w.top)
        BY <1>1, <2>1
      <3> QED
        BY <1>1, <2>1, <2>3, <3>1, StartJoined
    <2>8. InStep(y, s.offset) /\ Filled(y, Tops(s)) /\ RanOn(y, Ran(s))
      BY <2>1, <2>5, <2>6, <2>7
    <2>9. ~RebasedCode(c) /\ ~Calm(i)
      BY <1>3, <1>5, <1>10
    <2> HIDE DEF y
    <2>10. Steady(l, i, y, s)
      BY <1>4, <2>6, <2>8, <2>9 DEF Steady, Calm, c
    <2> QED
      BY <2>10 DEF y, s, x, c
  <1>11. CASE c.op \in {"direct", "mpg"} \/ (c.op = "unpack" /\ ~c.flg)
    <2>1. Clear(x) /\ Len(x) > 0
      BY <1>1, <1>2, <1>11, KindsOf
    <2>2. ~RebasedCode(c) /\ s.offset = v.offset /\ Laid(s)
      BY <1>5, <1>6, <1>7, <1>11
    <2> HIDE DEF x, s
    <2>3. InStep(y, s.offset) /\ Filled(y, Tops(s)) /\ RanOn(y, Ran(s)) /\ (Clear(e) => Clear(y))
      BY <1>1, <1>4, <2>1, <2>2, ClearJoined
    <2> HIDE DEF y
    <2>4. Calm(i) => Clear(y)
      BY <1>1, <1>3, <2>3
    <2>5. Steady(l, i, y, s)
      BY <1>4, <2>2, <2>3, <2>4 DEF Steady, Calm, c
    <2> QED
      BY <2>5 DEF y, s, x, c
  <1>12. CASE RebasedCode(c)
    <2>1. Len(x) > 0 /\ (\A k \in 1 .. Len(x) : Rebased(x[k])) /\ x[1].addr = (c.addr + Tops(v)) % DataSize
      BY <1>1, <1>2, <1>12, KindsOf
    <2>2. s.offset = v.offset /\ Laid(s) /\ Tops(s) = Tops(v)
      BY <1>5, <1>6, <1>7, <1>12
    <2>3. Tops(v) \in 0 .. DataSize - 1 /\ Tops(v) % DataSize = Tops(v) /\ (v.offset > 0 => Tops(v) # Ran(v))
      BY <1>1, LaidIs
    <2>4. c.addr \in Nat
      BY <1>2, <1>5, <1>12, CodeIs
    <2> HIDE DEF x, s
    <2>5. ASSUME ~(Len(e) > 0 /\ Rebased(e[Len(e)])) PROVE x[1].addr = Tops(v)
      <3>1. c.addr = 0
        <4>1. i > 1 => i - 1 > 0
          BY <1>2
        <4> QED
          BY <1>1, <1>2, <1>12, <2>5, <4>1
      <3>2. c.addr + Tops(v) = Tops(v)
        BY <2>3, <3>1
      <3> QED
        BY <2>1, <2>3, <3>2
    <2>6. ASSUME Len(e) > 0, Started(e[Len(e)]), v.offset > 0 PROVE x[1].addr # e[Len(e)].top
      <3>1. ~Rebased(e[Len(e)])
        BY <2>6, KindsApart
      <3>2. x[1].addr = Tops(v)
        BY <2>5, <3>1
      <3>3. e[Len(e)].top = Ran(v)
        BY <1>1, <2>6 DEF RanOn
      <3> QED
        BY <2>3, <2>6, <3>2, <3>3
    <2>7. /\ InStep(y, v.offset) /\ Filled(y, Tops(v)) /\ RanOn(y, Ran(s))
          /\ Len(y) > 0 /\ Rebased(y[Len(y)])
      BY <1>1, <1>4, <2>1, <2>5, <2>6, RebasedJoined
    <2>8. ~Calm(i)
      BY <1>3, <1>12
    <2> HIDE DEF y
    <2>9. Steady(l, i, y, s)
      BY <1>4, <2>2, <2>7, <2>8 DEF Steady, Calm
    <2> QED
      BY <2>9 DEF y, s, x, c
  <1> QED
    BY <1>5, <1>8, <1>9, <1>10, <1>11, <1>12

LEMMA SteadyThrough ==
    ASSUME Disciplined, NEW l \in List \cup {<< >>}, NEW s \in VifSettings, Laid(s)
    PROVE  \A i \in 0 .. Len(l) : Steady(l, i, MeansTo(l, s)[i], ListAt(l, s)[i])
  <1> DEFINE n == Len(l)
             at == ListAt(l, s)
             M == MeansTo(l, s)
             S == { i \in Nat : i <= n => Steady(l, i, M[i], at[i]) }
  <1>1. ListIs(l, s, n, at, WordsTo(l, s), M)
    BY ListFacts
  <1> HIDE DEF at, M
  <1>2. /\ n \in Nat /\ at[0] = s /\ M[0] = << >>
        /\ \A i \in 1 .. n : at[i] = Setting(l[i], at[i - 1]) /\ M[i] = M[i - 1] \o Effect(l[i], at[i - 1])
    BY <1>1 DEF ListIs
  <1>3. 0 \in S
    <2>1. << >> \in Seq(VifEffect) /\ Len(<< >>) = 0 /\ DOMAIN << >> = 1 .. 0
      BY EmptySeq, LenProperties
    <2>2. \A k \in 1 .. 0 : FALSE
      OBVIOUS
    <2>3. InStep(<< >>, s.offset)
      BY <2>1, <2>2 DEF InStep
    <2>4. Filled(<< >>, Tops(s)) /\ RanOn(<< >>, Ran(s)) /\ Clear(<< >>)
      BY <2>1, <2>2 DEF Filled, RanOn, Clear
    <2>5. Steady(l, 0, << >>, s)
      BY <2>1, <2>3, <2>4 DEF Steady
    <2> QED
      BY <1>2, <2>5
  <1>4. ASSUME NEW i \in S PROVE i + 1 \in S
    <2> SUFFICES ASSUME i + 1 <= n PROVE Steady(l, i + 1, M[i + 1], at[i + 1])
      OBVIOUS
    <2> DEFINE h == i + 1
    <2>1. h \in 1 .. n /\ h - 1 = i /\ Steady(l, h - 1, M[h - 1], at[h - 1])
      BY <1>2
    <2> HIDE DEF h
    <2>2. Steady(l, h, M[h - 1] \o Effect(l[h], at[h - 1]), Setting(l[h], at[h - 1]))
      BY <2>1, SteadyTurns
    <2>3. Steady(l, h, M[h], at[h])
      BY <1>2, <2>1, <2>2
    <2> QED
      BY <2>3 DEF h
  <1>5. S = Nat
    <2> HIDE DEF S
    <2> QED
      BY <1>3, <1>4, Induction, S \subseteq Nat DEF S
  <1> QED
    BY <1>2, <1>5 DEF at, M

\* The effects so far are the first of a list's, under the offset they were made under.
LEMMA VifDoubles == ASSUME Disciplined, VifHolds PROVE DoubleBuffered
  <1>0. PICK l, s : VifInList(l, s)
    BY DEF VifHolds
  <1> DEFINE n == Len(l)
             at == ListAt(l, s)
             M == MeansTo(l, s)
  <1>1. l \in List \cup {<< >>} /\ s \in VifSettings /\ Laid(s)
    BY <1>0 DEF VifInList
  <1>2. PICK i : OnCode(l, s, i) \/ InCode(l, s, i)
    BY <1>0 DEF VifInList
  <1>3. ListIs(l, s, n, at, WordsTo(l, s), M)
    BY <1>1, ListFacts
  <1>4. \A h \in 0 .. n : Steady(l, h, M[h], at[h])
    BY <1>1, SteadyThrough
  <1>5. CASE OnCode(l, s, i)
    <2>1. i \in 0 .. n /\ vif = at[i] /\ effects = M[i]
      BY <1>5 DEF OnCode
    <2> QED
      BY <1>4, <2>1 DEF Steady, DoubleBuffered
  <1>6. CASE InCode(l, s, i)
    <2>1. PICK j, st, k : WithinCode(l, s, i, j, st, k)
      BY <1>6 DEF InCode
    <2> DEFINE c == l[i]
               v == at[i - 1]
               x == Effect(c, v)
               e == M[i - 1]
               p == Piece(x, 0, k)
               q == Piece(x, k, Len(x))
    <2>2. i \in 1 .. n /\ Midway(c, v, j, st, k) /\ vif = [v EXCEPT !.state = st] /\ effects = e \o p
      BY <2>1 DEF WithinCode
    <2> HIDE DEF n, at, M
    <2>3. i - 1 \in 0 .. n /\ i \in 0 .. n /\ c \in VifCode /\ v \in VifSettings
      <3>1. n \in Nat
        BY <1>3 DEF ListIs
      <3> QED
        BY <1>3, <2>2, <3>1, CodeWords
    <2>4. at[i] = Setting(c, v) /\ M[i] = e \o x
      BY <1>3, <2>2 DEF ListIs
    <2>5. M[i] \in Seq(VifEffect) /\ InStep(M[i], at[i].offset) /\ e \in Seq(VifEffect)
      BY <1>4, <2>3 DEF Steady
    <2> HIDE DEF c, v, e
    <2>6. x \in Seq(VifEffect)
      BY <2>3, EffectIs
    <2>7. k \in Nat /\ k <= Len(x) /\ Len(x) \in Nat
      BY <2>2, <2>3, DataAt1
    <2>8. vif.offset = at[i].offset
      <3>1. vif.offset = v.offset
        BY <2>2, <2>3, StateOf
      <3>2. c.op \in {"unpack", "direct", "mpg", "strow", "stcol", "stmask"}
        BY <2>2, MidwayIs
      <3>3. Setting(c, v).offset = v.offset
        BY <2>3, <3>2 DEF Setting, VifSettings
      <3> QED
        BY <2>4, <3>1, <3>3
    <2>9. p \in Seq(VifEffect) /\ Len(p) = k /\ \A h \in 1 .. k : p[h] = x[h]
      <3> DEFINE o == 0
      <3>1. o \in Nat /\ o <= k /\ k - o = k /\ \A h \in 1 .. k : o + h = h
        BY <2>7
      <3>2. p = Piece(x, o, k)
        OBVIOUS
      <3> HIDE DEF o, x, p
      <3>3. p \in Seq(VifEffect) /\ Len(p) = k - o /\ \A h \in 1 .. k - o : p[h] = x[o + h]
        <4>1. /\ Piece(x, o, k) \in Seq(VifEffect) /\ Len(Piece(x, o, k)) = k - o
              /\ \A h \in 1 .. k - o : Piece(x, o, k)[h] = x[o + h]
          <5>1. x \in Seq(VifEffect) /\ o \in Nat /\ k \in Nat /\ o <= k /\ k <= Len(x)
            BY <2>6, <2>7, <3>1
          <5> QED
            BY ONLY <5>1, EffectPiece
        <4> QED
          BY <3>2, <4>1
      <3>4. \A h \in 1 .. k : p[h] = x[h]
        <4>1. \A h \in 1 .. k : p[h] = x[o + h]
          BY <3>1, <3>3
        <4> QED
          BY <3>1, <4>1
      <3> QED
        BY <3>1, <3>3, <3>4
    <2> HIDE DEF x, p
    <2> DEFINE y == e \o p
               z == e \o x
               a == Len(e)
    <2>10. /\ y \in Seq(VifEffect) /\ a \in Nat /\ Len(y) = a + k /\ (\A h \in 1 .. a : y[h] = e[h])
           /\ \A h \in 1 .. k : y[a + h] = p[h]
      BY <2>5, <2>9, JoinedAt
    <2>11. Len(z) = a + Len(x) /\ (\A h \in 1 .. a : z[h] = e[h]) /\ \A h \in 1 .. Len(x) : z[a + h] = x[h]
      BY <2>5, <2>6, JoinedAt
    <2> HIDE DEF y, z, a
    <2>12. ASSUME NEW h \in 1 .. Len(y) PROVE y[h] = z[h]
      <3>1. CASE h <= a
        <4>1. h \in 1 .. a
          BY <2>10, <3>1
        <4> QED
          BY <2>10, <2>11, <4>1
      <3>2. CASE ~(h <= a)
        <4> DEFINE g == h - a
        <4>1. g \in 1 .. k /\ g \in 1 .. Len(x) /\ a + g = h
          BY <2>7, <2>10, <3>2
        <4> HIDE DEF g
        <4>2. y[a + g] = p[g] /\ z[a + g] = x[g] /\ p[g] = x[g]
          BY <2>9, <2>10, <2>11, <4>1
        <4> QED
          BY <4>1, <4>2
      <3> QED
        BY <3>1, <3>2
    <2>13. Len(y) <= Len(z)
      BY <2>7, <2>10, <2>11
    <2>14. z \in Seq(VifEffect) /\ InStep(z, vif.offset)
      BY <2>4, <2>5, <2>8 DEF z
    <2>15. InStep(y, vif.offset)
      BY <2>10, <2>12, <2>13, <2>14, PrefixBuffered
    <2> QED
      BY <2>2, <2>15 DEF DoubleBuffered, y
  <1> QED
    BY <1>2, <1>5, <1>6

\* Lists that lay out their buffers before they use them: besides, a program started
\* after a rebased UNPACK runs on the buffer just filled, and the next UNPACK fills the
\* other (the MSCAL and MSCNT of command, with TOPS and DBF).
THEOREM ListsKept == ASSUME Disciplined PROVE VifSpec => []ListsExact
  <1>1. VifHolds => ListsExact
    BY VifKeeps, VifDoubles DEF ListsExact
  <1> QED
    BY <1>1, VifBegins, VifMoves, PTL DEF VifSpec
=============================================================================
