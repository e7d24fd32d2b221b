-------------------------------- MODULE Sif --------------------------------
(***************************************************************************)
(* The link between the two processors: the flag words (sif.rs) and the    *)
(* two DMA paths (bus.rs, pump_sif).  A path has a FIFO between a sender   *)
(* that frames its data with the receiver's tags and a receiver that finds *)
(* its tags in the stream.  Every start of a channel runs all four as far  *)
(* as they go, so the senders are idle between two starts.  A word is      *)
(* [p, i], word i of the frame of packet p: a quadword with its tag, its   *)
(* data, and what fills the last quadword.                                 *)
(*                                                                         *)
(* sent, got, posted and seen are history.                                 *)
(***************************************************************************)
EXTENDS Naturals, Sequences, FiniteSets

CONSTANTS
    Words,        \* lengths of a packet, in words
    MaxPackets,   \* bounds on the packets sent, by path
    FlagBit       \* bits of the two flag words

ASSUME SifAssumption ==
    /\ Words \subseteq Nat \ {0}
    /\ MaxPackets \in [{"sif0", "sif1"} -> Nat]

VARIABLES
    fifo0, fifo1,   \* IOP to EE, EE to IOP
    unsent,         \* what the EE has framed and not sent yet
    iop_sif1,       \* the receiving channels
    ee_sif0,
    sif_irqs,       \* completions signalled, by channel
    sent, got,      \* packets sent and words received, by path
    iop_resets,
    reset_at,       \* history: packets on the link at the reset, by path
    flags, posted, seen  \* SMFLG; bits raised and bits taken, by the software

fifos == <<fifo0, fifo1>>
sif_dma == <<fifos, unsent, iop_sif1, ee_sif0, sif_irqs, sent, got, iop_resets, reset_at>>
sif_mail == <<flags, posted, seen>>

Path == {"sif0", "sif1"}
SifChannel == {5, 6, 9, 10}
Idle1(busy) == [busy |-> busy, left |-> 0, pad |-> 0, end |-> FALSE, cmd |-> "none"]
SifInit ==
    /\ fifo0 = <<>> /\ fifo1 = <<>>
    /\ unsent = <<>>
    /\ iop_sif1 = Idle1(FALSE)
    /\ ee_sif0 = [str |-> FALSE, qwc |-> 0, tag_end |-> FALSE]
    /\ sif_irqs = [c \in SifChannel |-> 0]
    /\ sent = [p \in Path |-> <<>>] /\ got = [p \in Path |-> <<>>]
    /\ iop_resets = 0 /\ reset_at = [p \in Path |-> 0]
    /\ flags = {} /\ posted = {} /\ seen = {}

(***************************************************************************)
(* What a sender puts on the stream.                                       *)
(***************************************************************************)
Quads(n) == (n + 3) \div 4
FrameLen(p) == 4 + 4 * Quads(p.n)
Word(p, i) == [p |-> p, i |-> i]
Framed(p) == [i \in 1 .. FrameLen(p) |-> Word(p, i - 1)]
Stream(ps) ==
    LET s[k \in 0 .. Len(ps)] == IF k = 0 THEN <<>> ELSE s[k - 1] \o Framed(ps[k])
    IN s[Len(ps)]

Take(q, n) == SubSeq(q, 1, n)
Drop(q, n) == SubSeq(q, n + 1, Len(q))
AtMost(n, m) == IF n < m THEN n ELSE m

(***************************************************************************)
(* The IOP's receiver, SIF1, as it is pumped, turn by turn.                *)
(***************************************************************************)
Receiver1 == [f0 |-> fifo0, f1 |-> fifo1, ch |-> iop_sif1, irq |-> sif_irqs[10],
              got |-> got["sif1"], resets |-> iop_resets]

\* Words of padding behind n words of data.
Pad4(n) == (4 - (n % 4)) % 4

ReadTag(s) ==
    LET p == s.f1[1].p
    IN [s EXCEPT !.f1 = Drop(@, 4),
                 !.ch = [busy |-> TRUE, left |-> p.n, pad |-> Pad4(p.n), end |-> p.end, cmd |-> p.cmd]]
Land(s, n) == [s EXCEPT !.f1 = Drop(@, n), !.ch.left = @ - n, !.got = @ \o Take(s.f1, n)]
SkipPad(s, n) == [s EXCEPT !.f1 = Drop(@, n), !.ch.pad = @ - n]

\* A reset command flushes the link, the tail of its own packet and the channel
\* that sends to the EE included.
BadFlush(s) == [s EXCEPT !.f1 = <<>>, !.ch = Idle1(@.busy), !.resets = @ + 1]
Flush(s) == [s EXCEPT !.f0 = <<>>, !.f1 = <<>>, !.ch = Idle1(@.busy), !.resets = @ + 1]
Finish(s) ==
    IF s.ch.left + s.ch.pad > 0 \/ ~s.ch.end THEN s
    ELSE LET t == [s EXCEPT !.irq = @ + 1, !.ch.busy = FALSE, !.ch.end = FALSE]
         IN IF s.ch.cmd = "reset" THEN Flush(t) ELSE t

Rests1(s) == ~s.ch.busy \/ IF s.ch.left + s.ch.pad = 0 THEN Len(s.f1) < 4 ELSE s.f1 = <<>>
Turn1(s) ==
    IF Rests1(s) THEN s
    ELSE Finish(IF s.ch.left + s.ch.pad = 0 THEN ReadTag(s)
                ELSE IF s.ch.left > 0 THEN Land(s, AtMost(s.ch.left, Len(s.f1)))
                ELSE SkipPad(s, AtMost(s.ch.pad, Len(s.f1))))

\* Every turn takes a word off the FIFO.
PumpSif1Iop(s) ==
    LET t[n \in 0 .. Len(s.f1)] == IF n = 0 THEN s ELSE Turn1(t[n - 1])
    IN t[Len(s.f1)]

(***************************************************************************)
(* The EE's receiver, SIF0: a destination chain, in whole quadwords.       *)
(***************************************************************************)
Receiver0(f0) == [f0 |-> f0, ch |-> ee_sif0, irq |-> sif_irqs[5], got |-> got["sif0"]]

\* The data in the quadword that begins with word w.
DataIn(w) == IF w.i + 4 <= 4 + w.p.n THEN 4 ELSE (4 + w.p.n) - w.i

EndChain(s) == [s EXCEPT !.ch.str = FALSE, !.ch.tag_end = FALSE, !.irq = @ + 1]
ReadDestTag(s) ==
    LET p == s.f0[1].p
    IN [s EXCEPT !.f0 = Drop(@, 4), !.ch.qwc = Quads(p.n), !.ch.tag_end = p.end]
LandQuad(s) == [s EXCEPT !.f0 = Drop(@, 4), !.ch.qwc = @ - 1, !.got = @ \o Take(s.f0, DataIn(s.f0[1]))]

Ends0(s) == s.ch.qwc = 0 /\ s.ch.tag_end
Rests0(s) == ~s.ch.str \/ (~Ends0(s) /\ Len(s.f0) < 4)
Turn0(s) ==
    IF Rests0(s) THEN s
    ELSE IF Ends0(s) THEN EndChain(s)
    ELSE IF s.ch.qwc = 0 THEN ReadDestTag(s)
    ELSE LandQuad(s)

\* Every turn takes a quadword off the FIFO; one more ends the chain.
PumpSif0Ee(s) ==
    LET t[n \in 0 .. Len(s.f0) + 1] == IF n = 0 THEN s ELSE Turn0(t[n - 1])
    IN t[Len(s.f0) + 1]

(***************************************************************************)
(* The four in turn until none progresses: a reset empties both FIFOs, so  *)
(* a second round never finds more than the first left.  The EE sends the  *)
(* words of its chain to the end; the IOP its blocks at TADR, up to the    *)
(* one that ends the transfer.                                             *)
(***************************************************************************)
PumpSif1Ee(s, words)  == [s EXCEPT !.f1 = @ \o words]
PumpSif0Iop(f0, ps)   == f0 \o Stream(ps)
PumpSif(s1, words, ch0, ps) ==
    LET t == PumpSif1Iop(PumpSif1Ee(s1, words))
        u == PumpSif0Ee([Receiver0(PumpSif0Iop(t.f0, ps)) EXCEPT !.ch = ch0])
    IN /\ fifo0' = u.f0 /\ fifo1' = t.f1 /\ iop_sif1' = t.ch /\ ee_sif0' = u.ch
       /\ sif_irqs' = [sif_irqs EXCEPT ![6] = IF words = <<>> THEN @ ELSE @ + 1, ![10] = t.irq,
                                       ![9] = IF ps = <<>> THEN @ ELSE @ + 1, ![5] = u.irq]
       /\ got' = [sif0 |-> u.got, sif1 |-> t.got] /\ iop_resets' = t.resets
       /\ reset_at' = IF t.resets = iop_resets THEN reset_at
                      ELSE [sif0 |-> Len(sent["sif0"]),
                            sif1 |-> IF unsent' = <<>> THEN Len(sent["sif1"]) ELSE unsent'[1].p.no - 1]
       /\ UNCHANGED sif_mail

(***************************************************************************)
(* The register writes that start a channel.                               *)
(***************************************************************************)
\* About the software, not a test of the code: a reset command goes out whole,
\* and behind it nothing is cut before the rebooted IOP has taken it.
ResetSent == iop_resets = 0 /\ \E i \in DOMAIN sent["sif1"] : sent["sif1"][i].cmd = "reset"

\* A transfer of one or two packets; the last asks the receiver to end.
Packets(p) ==
    LET no == Len(sent[p]) + 1
        Cmd(c, n) == [no |-> no, n |-> n, end |-> TRUE, cmd |-> c]
    IN { <<Cmd("none", n)>> : n \in Words }
       \cup (IF p = "sif1" /\ ~ResetSent /\ iop_resets = 0 THEN { <<Cmd("reset", 1)>> } ELSE {})
       \cup { <<[no |-> no, n |-> n, end |-> FALSE, cmd |-> "none"],
                [no |-> no + 1, n |-> m, end |-> TRUE, cmd |-> "none"]>> : n, m \in Words }

\* A chain of the EE sends what it has framed, or a stretch of it.
Frame == /\ unsent = <<>>
         /\ \E ps \in Packets("sif1") :
              /\ Len(sent["sif1"] \o ps) <= MaxPackets["sif1"]
              /\ unsent' = Stream(ps) /\ sent' = [sent EXCEPT !["sif1"] = @ \o ps]
         /\ UNCHANGED <<fifos, iop_sif1, ee_sif0, sif_irqs, got, iop_resets, reset_at, sif_mail>>
EeStartSif1 ==
    \E k \in 1 .. Len(unsent) \div 4 :
        /\ ResetSent => 4 * k = Len(unsent)
        /\ unsent' = Drop(unsent, 4 * k)
        /\ PumpSif(Receiver1, Take(unsent, 4 * k), ee_sif0, <<>>)
        /\ UNCHANGED sent
IopStartSif0 ==
    \E ps \in Packets("sif0") :
        /\ Len(sent["sif0"] \o ps) <= MaxPackets["sif0"]
        /\ sent' = [sent EXCEPT !["sif0"] = @ \o ps]
        /\ UNCHANGED unsent
        /\ PumpSif(Receiver1, <<>>, ee_sif0, ps)
IopStartSif1 == /\ ~iop_sif1.busy
                /\ UNCHANGED <<unsent, sent>>
                /\ PumpSif([Receiver1 EXCEPT !.ch.busy = TRUE], <<>>, ee_sif0, <<>>)
EeStartSif0  == /\ ~ee_sif0.str
                /\ UNCHANGED <<unsent, sent>>
                /\ PumpSif(Receiver1, <<>>, [ee_sif0 EXCEPT !.str = TRUE], <<>>)

(***************************************************************************)
(* SMFLG: the IOP sets bits, the EE takes those it has read and clears     *)
(* them (MSFLG is the same the other way round).                           *)
(***************************************************************************)
EeClear(v) == flags \ v
IopRaise == \E b \in FlagBit \ posted :
                /\ flags' = flags \cup {b} /\ posted' = posted \cup {b}
                /\ UNCHANGED <<seen, sif_dma>>
EeRead  == /\ flags \ seen # {} /\ seen' = seen \cup flags
           /\ UNCHANGED <<flags, posted, sif_dma>>
EeAck   == /\ seen \cap flags # {} /\ flags' = EeClear(seen)
           /\ UNCHANGED <<posted, seen, sif_dma>>

SifDmaNext  == Frame \/ EeStartSif1 \/ IopStartSif0 \/ IopStartSif1 \/ EeStartSif0
SifMailNext == IopRaise \/ EeRead \/ EeAck
-----------------------------------------------------------------------------
(***************************************************************************)
(* Properties.                                                             *)
(***************************************************************************)
\* What is received is data that was sent, in order, no word twice; until a
\* reset of the IOP, which loses a stretch of it, no word is left out either.
DataOf(p) == { Word(p, i) : i \in 4 .. 3 + p.n }
DataSent(ps) == UNION { DataOf(ps[k]) : k \in DOMAIN ps }
Before(w, v) == w.p.no < v.p.no \/ (w.p.no = v.p.no /\ w.i < v.i)
Received(q) == { q[i] : i \in DOMAIN q }
ReceivedInOrder ==
    \A p \in Path :
        LET S == DataSent(sent[p])
            R == Received(got[p])
        IN /\ R \subseteq S
           /\ \A i \in 2 .. Len(got[p]) : Before(got[p][i - 1], got[p][i])
           /\ iop_resets = 0 => \A v \in R, w \in S \ R : Before(v, w)

\* Nothing that was on the link when the IOP was reset is received after it.
ResetFlushes ==
    [][ iop_resets > 0 => \A p \in Path : \A i \in DOMAIN got'[p] \ DOMAIN got[p] :
                              got'[p][i].p.no > reset_at[p] ]_sif_dma

\* No channel is left armed with data it could take.
NothingStuck ==
    /\ iop_sif1.busy => IF iop_sif1.left + iop_sif1.pad = 0 THEN Len(fifo1) < 4 ELSE fifo1 = <<>>
    /\ ee_sif0.str => Len(fifo0) < 4

\* Between the packets the stream of each path stands at a tag, also after
\* a reset has flushed it.
AtATag ==
    /\ iop_sif1.left + iop_sif1.pad = 0 /\ fifo1 # <<>> => fifo1[1].i = 0
    /\ ee_sif0.qwc = 0 /\ fifo0 # <<>> => fifo0[1].i = 0

\* The receiver of a path is told of the end of a transfer once, and when its
\* last word has landed.
LandedEnds(ps, q) == { k \in DOMAIN ps : ps[k].end /\ Word(ps[k], 3 + ps[k].n) \in Received(q) }
EndSignalled == /\ sif_irqs[10] = Cardinality(LandedEnds(sent["sif1"], got["sif1"]))
                /\ sif_irqs[5] = Cardinality(LandedEnds(sent["sif0"], got["sif0"]))

\* A bit the IOP raised is in the flag word until the EE has seen it.
DoorbellKept == posted \ seen \subseteq flags

\* The link between the processors as one promise.
SifKept == /\ []ReceivedInOrder /\ []NothingStuck /\ []AtATag /\ []EndSignalled /\ []DoorbellKept
           /\ ResetFlushes

SifSpec == SifInit /\ [][SifDmaNext \/ SifMailNext]_<<sif_dma, sif_mail>>
=============================================================================
