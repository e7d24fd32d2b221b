-------------------------------- MODULE Ipu --------------------------------
(***************************************************************************)
(* The IPU between its two DMA channels (ipu/mod.rs, bus.rs): the bit      *)
(* reader with its window, the transactions decode units run in, the       *)
(* commands that park and resume, channel 4 feeding it from a source chain *)
(* and channel 3 draining it.  A quadword is its address in memory; what a *)
(* unit reads is a list of bit counts, looked at or consumed.              *)
(*                                                                         *)
(* origin, began, raised, emitted, moved_out, ended, polled: history.      *)
(***************************************************************************)
EXTENDS Naturals, Sequences, SequencesExt

CONSTANTS
    QW_BITS, FIFO_DEPTH,
    Command,      \* [name, skip, emits, units, reads]
    Tags,         \* the chain of the movie: [addr, qwc, last]
    Samples,      \* address of the samples a conversion borrows channel 4 for
    MaxCommands   \* bound on the commands issued

VARIABLES
    bits,      \* the reader: [fin, win, bp, adv]
    fifo_out,  \* quadwords decoded and not taken
    pending,   \* parked commands, at most one: <<[c, progress]>>
    drained_done,
    to, from,  \* channels 4 and 3
    saved,     \* what the player keeps of a suspended channel 4, at most one
    origin,    \* [q, bp, adv]: where the reader stood when its buffer was filled anew
    began,     \* [n, adv, c]: commands issued, the last and where it began
    raised,    \* IPU interrupts raised
    emitted, moved_out, ended, \* quadwords decoded and taken; ends of channel 4
    polled     \* the program has read the output of a parked command

ipu == <<bits, fifo_out, pending, drained_done, to, from, saved, origin, began, raised, emitted, moved_out, ended, polled>>

IpuInit ==
    /\ bits = [fin |-> <<>>, win |-> <<>>, bp |-> 0, adv |-> 0]
    /\ fifo_out = 0 /\ pending = <<>> /\ drained_done = FALSE
    /\ to = [str |-> FALSE, chain |-> TRUE, qwc |-> 0, madr |-> 0, tadr |-> 1, tag_end |-> FALSE]
    /\ from = [str |-> FALSE, qwc |-> 0]
    /\ saved = <<>> /\ origin = [q |-> 0, bp |-> 0, adv |-> 0]
    /\ began = [n |-> 0, adv |-> 0, c |-> <<>>] /\ raised = 0
    /\ emitted = 0 /\ moved_out = 0 /\ ended = 0 /\ polled = FALSE

\* The state while a register write is carried out.  taken is what a unit has
\* pulled; ok says that its reads have found their bits so far.
Now == [b |-> bits, out |-> fifo_out, pend |-> pending, drained |-> drained_done,
        to |-> to, from |-> from, raised |-> raised, emitted |-> emitted, moved_out |-> moved_out,
        ended |-> ended, moved |-> FALSE]

(***************************************************************************)
(* The bit reader.                                                         *)
(***************************************************************************)
Fewer(a, b) == IF a < b THEN a ELSE b
Lacking(r, n) ==
    LET want == (r.bp + n + QW_BITS - 1) \div QW_BITS
    IN IF want > Len(r.win) THEN want - Len(r.win) ELSE 0
Pull(r, k) ==
    [r EXCEPT !.win = @ \o SubSeq(r.fin, 1, k), !.fin = SubSeq(@, k + 1, Len(@)), !.taken = @ \o SubSeq(r.fin, 1, k)]
\* fill: whole quadwords into the window until n more bits are readable.
Fill(r, n) == [Pull(r, Fewer(Lacking(r, n), Len(r.fin))) EXCEPT !.ok = Lacking(r, n) <= Len(r.fin)]

\* advance: the window slides when the pointer leaves its first quadword.
Slide(r) ==
    IF r.bp < QW_BITS THEN r
    ELSE IF Len(r.win) = 2 \/ r.fin = <<>> THEN [r EXCEPT !.bp = @ - QW_BITS, !.win = Tail(@)]
    ELSE [r EXCEPT !.bp = @ - QW_BITS, !.win = <<Head(r.fin)>>, !.fin = Tail(@),
                   !.taken = Append(@, Head(r.fin))]
Consume(f, n) == IF f.ok THEN Slide([f EXCEPT !.bp = @ + n, !.adv = @ + n]) ELSE f
Advance(r, n) == Consume(Fill(r, n), n)
Read(r, x) == IF ~r.ok THEN r ELSE IF x.eat THEN Advance(r, x.n) ELSE Fill(r, x.n)

Buffered == bits.win \o bits.fin
Begin(b) == [fin |-> b.fin, win |-> b.win, bp |-> b.bp, adv |-> b.adv, taken |-> <<>>, ok |-> TRUE]
Commit(r) == [fin |-> r.fin, win |-> r.win, bp |-> r.bp, adv |-> r.adv]
Rollback(r, b) == [b EXCEPT !.fin = r.taken \o r.fin]

(***************************************************************************)
(* Commands.                                                               *)
(***************************************************************************)
Stall(s, c, p) == [s EXCEPT !.pend = <<[c |-> c, progress |-> p]>>]
Done(s) == [s EXCEPT !.pend = <<>>]
Finished(s) == s.pend = <<>>

\* A command made of units: each emitted whole, retried whole when it starves,
\* held between two while the output FIFO is full.
RECURSIVE Stepped(_, _, _)
UnitRead(s, c, p, r) ==
    LET u == c.units[p + 1]
        t == [s EXCEPT !.b = Commit(r), !.out = @ + u.out, !.emitted = @ + u.out]
    IN IF ~r.ok THEN Stall([s EXCEPT !.b = Rollback(r, @)], c, p)
       ELSE IF u.last THEN Done(t) ELSE Stepped(t, c, p + 1)
Stepped(s, c, p) ==
    IF c.emits /\ s.out >= FIFO_DEPTH THEN Stall(s, c, p)
    ELSE UnitRead(s, c, p, FoldLeft(Read, Begin(s.b), c.units[p + 1].reads))

\* FDEC, SETIQ and SETVQ: outside a transaction, parked read by read.
ParkedAt(p) == p
RECURSIVE ReadByRead(_, _, _)
OneRead(s, c, p, r) ==
    LET t == [s EXCEPT !.b = Commit(r)]
    IN IF r.ok THEN ReadByRead(t, c, p + 1) ELSE Stall(t, c, ParkedAt(p))
ReadByRead(s, c, p) ==
    IF p = Len(c.reads) THEN Done(s) ELSE OneRead(s, c, p, Read(Begin(s.b), c.reads[p + 1]))

Bclr(s, bp) == Done([s EXCEPT !.b = [@ EXCEPT !.fin = <<>>, !.win = <<>>, !.bp = bp]])
Run(s, c, p) == IF c.units # <<>> THEN Stepped(s, c, p) ELSE ReadByRead(s, c, p)
Resume(s) == IF s.pend = <<>> THEN s ELSE Run(s, s.pend[1].c, s.pend[1].progress)

\* The completions of t, that had not happened in s, raised.
Raise(t, s) == IF s.pend # <<>> /\ Finished(t) THEN [t EXCEPT !.raised = @ + 1] ELSE t

(***************************************************************************)
(* The FIFOs and the channels.                                             *)
(***************************************************************************)
in_full(s) == Len(s.b.fin) >= FIFO_DEPTH
starved(s) == s.pend # <<>>
Woken(t) == Raise(Resume(t), t)
PushIn(s, q) == Woken([s EXCEPT !.b.fin = Append(@, q)])

Popped(s) == [s EXCEPT !.out = @ - 1, !.moved_out = @ + 1]
NoteDrained(u, s) == [u EXCEPT !.drained = @ \/ (s.pend # <<>> /\ Finished(u))]
PopOut(s) == NoteDrained(IF s.out >= FIFO_DEPTH THEN Resume(Popped(s)) ELSE Popped(s), s)

\* Channel 3: as far as the output FIFO goes; what finished meanwhile is
\* reported here.
RECURSIVE TakeOut(_)
TakeOut(s) == IF s.from.qwc = 0 \/ s.out = 0 THEN s
              ELSE TakeOut([PopOut(s) EXCEPT !.from.qwc = @ - 1])
Reported(t) == [t EXCEPT !.drained = FALSE, !.raised = @ + (IF t.drained THEN 1 ELSE 0)]
StopWhenMoved(u) == IF u.from.qwc = 0 THEN [u EXCEPT !.from.str = FALSE] ELSE u
PumpFrom(s) == StopWhenMoved(Reported(TakeOut(s)))
Ran(s) == IF s.from.str THEN PumpFrom(s) ELSE s

\* Channel 4: quadwords and tags until the FIFO is full or the transfer ends.
TagEndAfter(c) == c.tag_end /\ ~c.chain
RECURSIVE Feed(_)
Feed(s) ==
    LET c == s.to
        g == Tags[c.tadr]
    IN CASE ~c.str -> s
         [] c.str /\ c.qwc > 0 ->
               IF in_full(s) /\ ~starved(s) THEN s
               ELSE Feed([PushIn(s, c.madr) EXCEPT !.to.madr = @ + 1, !.to.qwc = @ - 1, !.moved = TRUE])
         [] c.str /\ c.qwc = 0 /\ (~c.chain \/ c.tag_end) ->
               [s EXCEPT !.to.str = FALSE, !.to.tag_end = TagEndAfter(c), !.ended = @ + 1]
         [] OTHER -> Feed([s EXCEPT !.to = [c EXCEPT !.madr = g.addr, !.qwc = g.qwc, !.tadr = @ + 1,
                                                     !.tag_end = @ \/ g.last],
                                    !.moved = TRUE])
PumpTo(s) == Ran(Feed([s EXCEPT !.moved = FALSE]))
RECURSIVE Refill(_)
Again(t) == IF t.moved THEN Refill(t) ELSE t
Refill(s) == IF s.to.str THEN Again(PumpTo(s)) ELSE s

(***************************************************************************)
(* What the player does.                                                   *)
(***************************************************************************)
Set(s) == /\ bits' = s.b /\ fifo_out' = s.out /\ pending' = s.pend /\ drained_done' = s.drained
          /\ to' = s.to /\ from' = s.from /\ raised' = s.raised /\ emitted' = s.emitted
          /\ moved_out' = s.moved_out /\ ended' = s.ended

\* IPU_CMD, once the last command is done.
Announce(t) == IF Finished(t) THEN [t EXCEPT !.raised = @ + 1] ELSE t
CommandWrite(s, c) == Refill(Ran(Announce(Run(s, c, 0))))
Issue ==
    /\ pending = <<>> /\ began.n < MaxCommands
    /\ \E c \in Command :
         /\ c.movie <=> saved = <<>>
         /\ Set(CommandWrite(Now, c))
         /\ began' = [n |-> began.n + 1, adv |-> bits.adv, c |-> <<c>>]
    /\ UNCHANGED <<saved, origin, polled>>

\* A CHCR write to a channel that may be running reaches only STR of it.
BadChcrWrite(c, str, chain) == [c EXCEPT !.str = str, !.chain = chain]
ChcrWrite(c, str, chain) ==
    IF c.str THEN [c EXCEPT !.str = str] ELSE [c EXCEPT !.str = str, !.chain = chain]
Arm(c) == IF c.str /\ c.qwc = 0 THEN [c EXCEPT !.tag_end = FALSE] ELSE c
StartTo(s, c, chain) == Refill([s EXCEPT !.to = Arm(ChcrWrite(c, TRUE, chain))])

\* A movie, from its first tag.
StartMovie ==
    /\ ~to.str /\ pending = <<>>
    /\ Set(StartTo(Bclr(Now, 0), [to EXCEPT !.qwc = 0, !.tadr = 1], TRUE))
    /\ origin' = [q |-> Tags[1].addr, bp |-> 0, adv |-> bits.adv]
    /\ began' = [began EXCEPT !.c = <<>>] /\ saved' = <<>>
    /\ UNCHANGED polled

\* Channel 4 is stopped, its context read back and rewound by what BCLR will
\* throw away: the quadwords of the FIFO, at most its depth, and the window.
BadHeld(s) == Fewer(Len(s.b.fin), FIFO_DEPTH)
Held(s) == Fewer(Len(s.b.fin), FIFO_DEPTH) + Len(s.b.win)
Under(b, c) == IF b.win \o b.fin = <<>> THEN c.madr ELSE Head(b.win \o b.fin)
Suspend ==
    /\ to.str /\ to.madr < Samples /\ pending = <<>>
    /\ LET c == ChcrWrite(to, FALSE, FALSE)
       IN /\ saved' = <<[madr |-> c.madr - Held(Now), qwc |-> c.qwc + Held(Now), tadr |-> c.tadr,
                         chain |-> c.chain, bp |-> bits.bp,
                         at |-> Under(bits, to), over |-> Len(bits.fin) > FIFO_DEPTH]>>
          /\ Set(Bclr([Now EXCEPT !.to = c], 0))
          /\ origin' = [q |-> c.madr, bp |-> 0, adv |-> bits.adv]
    /\ UNCHANGED <<began, polled>>

\* Meanwhile the channel carries samples to convert.
Borrow ==
    /\ saved # <<>> /\ ~to.str /\ pending = <<>> /\ Buffered = <<>>
    /\ Set(StartTo(Now, [to EXCEPT !.madr = Samples, !.qwc = FIFO_DEPTH + 1], FALSE))
    /\ origin' = [q |-> Samples, bp |-> bits.bp, adv |-> bits.adv]
    /\ UNCHANGED <<saved, began, polled>>

Restore ==
    /\ saved # <<>> /\ ~to.str /\ pending = <<>>
    /\ LET v == saved[1]
       IN /\ Set(StartTo(Bclr(Now, v.bp),
                         [to EXCEPT !.madr = v.madr, !.qwc = v.qwc, !.tadr = v.tadr], v.chain))
          /\ origin' = [q |-> v.madr, bp |-> v.bp, adv |-> bits.adv]
    /\ saved' = <<>>
    /\ began' = [began EXCEPT !.c = <<>>]
    /\ UNCHANGED polled

StartFrom ==
    /\ ~from.str /\ emitted > moved_out
    /\ \E n \in {1, FIFO_DEPTH + 1} : Set(PumpFrom([Now EXCEPT !.from = [str |-> TRUE, qwc |-> n]]))
    /\ UNCHANGED <<saved, origin, began, polled>>

\* The output FIFO read by the program.
ReadOut == /\ fifo_out > 0 /\ ~from.str
           /\ polled' = (polled \/ pending # <<>>)
           /\ Set(PopOut(Now)) /\ UNCHANGED <<saved, origin, began>>

IpuNext == Issue \/ StartMovie \/ Suspend \/ Borrow \/ Restore \/ StartFrom \/ ReadOut
-----------------------------------------------------------------------------
(***************************************************************************)
(* Properties.                                                             *)
(***************************************************************************)
\* The bit pointer is as many bits into the stream as have been consumed, and
\* behind it no quadword is missing, however often a unit starved.
ReaderOnStream ==
    /\ (Under(bits, to) - origin.q) * QW_BITS + bits.bp = origin.bp + bits.adv - origin.adv
    /\ \A i \in 2 .. Len(Buffered) : Buffered[i] = Buffered[i - 1] + 1

\* A finished command has consumed the bits of its reads and no others.
Eaten(rs) == FoldLeft(LAMBDA n, x : IF x.eat THEN n + x.n ELSE n, 0, rs)
Total(c) == Eaten(c.reads) + FoldLeft(LAMBDA n, u : n + Eaten(u.reads), 0, c.units)
BitsExact == began.c # <<>> /\ pending = <<>> => bits.adv - began.adv = Total(began.c[1])

\* A parked command lacks bits, or room: nothing that could run is waiting.
Settled ==
    /\ \A i \in DOMAIN pending :
         LET p == pending[i]
             rs == IF p.c.units # <<>> THEN p.c.units[p.progress + 1].reads ELSE <<p.c.reads[p.progress + 1]>>
         IN \/ p.c.emits /\ fifo_out >= FIFO_DEPTH
            \/ ~FoldLeft(Read, Begin(bits), rs).ok
    /\ to.str => Len(bits.fin) >= FIFO_DEPTH /\ pending = <<>>
    /\ from.str => fifo_out = 0

\* Each command is announced once, when it is done.
Announced == ~polled => raised + Len(pending) = began.n

\* What finishes inside a bus access is announced by that access.
DoneReported == ~drained_done

\* A chain of channel 4 ends with the last quadword of its last tag, however
\* often it was suspended, rewound and the channel lent to another transfer.
LastTag == Tags[Len(Tags)]
ChainWhole == [][ended' # ended /\ to'.madr < Samples => to'.madr = LastTag.addr + LastTag.qwc]_ipu

\* A restored channel feeds the quadword that was under the bit pointer.
RestoredInPlace ==
    [][Restore /\ ~saved[1].over => Under(bits', to') = saved[1].at]_ipu

\* The decoder and its two channels as one promise.
IpuKept == /\ []ReaderOnStream /\ []BitsExact /\ []Settled /\ []Announced
           /\ ChainWhole /\ RestoredInPlace
=============================================================================
