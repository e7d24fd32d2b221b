------------------------------ MODULE EeChain ------------------------------
(***************************************************************************)
(* The chains of the EE's DMA controller (bus.rs): VIF0, VIF1, GIF and     *)
(* toSPR walk a source chain of tags in memory with a call stack of two,   *)
(* fromSPR a destination chain of tags in the scratchpad.  A start runs    *)
(* the channel to its end, so a transfer is one action.  Addresses count   *)
(* quadwords.                                                              *)
(*                                                                         *)
(* The software's side is a program: routines of blocks, laid out one      *)
(* after the other, that call, return, jump and refer to data elsewhere.   *)
(***************************************************************************)
EXTENDS Naturals, Sequences, SequencesExt

CONSTANTS
    Routine,      \* names of routines
    Main,         \* the one a chain starts in
    Origin,       \* where each routine is laid out
    Program,      \* programs: functions from Routine to sequences of blocks
    Leads,        \* runs left in MADR and QWC for a channel to move first
    Guard,        \* turns of a pump's loop, of a million, after which it gives up
    SprSize,      \* quadwords of scratchpad
    SprRuns       \* runs of a destination chain: sequences of [qwc, madr]

ASRS == 2

VARIABLES
    dma,          \* the channel in use, the others being independent:
                  \* [name, madr, qwc, tadr, sadr, tag_end, asr]
    program, tie, tte,
    transfer      \* history: the last transfer, what was asked and what moved

chain == <<dma, program, tie, tte, transfer>>

SourceChannel == {"vif0", "vif1", "gif", "spr_to"}
Channel == SourceChannel \cup {"spr_from"}
None == [channel |-> "none"]

(***************************************************************************)
(* Layout of a program.                                                    *)
(***************************************************************************)
Inline(b) == b.id \notin {"ref", "refe"}
Size(b)   == IF Inline(b) THEN 1 + b.qwc ELSE 1
SumTo(x)  == LET f[i \in 0 .. Len(x)] == IF i = 0 THEN 0 ELSE f[i - 1] + x[i] IN f
At(p, r, i) == Origin[r] + SumTo([k \in 1 .. Len(p[r]) |-> Size(p[r][k])])[i - 1]
Blocks(p, a) == UNION { { p[r][i] : i \in { k \in DOMAIN p[r] : At(p, r, k) = a } } : r \in Routine }
Stray == [id |-> "end", qwc |-> 0, to |-> 0, irq |-> FALSE]
TagAt(p, a) == IF Blocks(p, a) = {} THEN Stray ELSE CHOOSE b \in Blocks(p, a) : TRUE
Target(b) == IF b.id \in {"next", "call"} THEN Origin[b.to] ELSE b.to
Quadwords(a, n) == [k \in 1 .. n |-> [at |-> a + k - 1, upper |-> FALSE]]
Upper(a)   == << [at |-> a, upper |-> TRUE] >>

\* What a program means from a block on: the quadwords it moves and, with up, the
\* upper halves of its tags, in order; with t a block that asks for an interrupt
\* is the last.  Besides: whether all ends there or only the routine, the turns of
\* the loop it takes and how deep its calls nest.  f[n] reads n blocks ahead.
Larger(a, b) == IF a < b THEN b ELSE a
DataAt(p, r, i, up) ==
    LET b == p[r][i]
    IN (IF up THEN Upper(At(p, r, i)) ELSE <<>>)
           \o Quadwords(IF Inline(b) THEN At(p, r, i) + 1 ELSE b.to, b.qwc)
Unread == [data |-> <<>>, stop |-> TRUE, turns |-> Guard, nest |-> 0]
MeansAt(p, m, r, i, t, up) ==
    LET b == p[r][i]
        data == DataAt(p, r, i, up)
        last == [data |-> data, stop |-> b.id # "ret" \/ (t /\ b.irq), turns |-> 1 + b.qwc, nest |-> 0]
        next == m[r][i + 1]
        there == m[b.to][1]
        then(x) == [x EXCEPT !.data = data \o @, !.turns = 1 + b.qwc + @]
    IN CASE (t /\ b.irq) \/ b.id \in {"refe", "ret", "end"} -> last
         [] ~(t /\ b.irq) /\ b.id \in {"cnt", "ref"} -> then(next)
         [] ~(t /\ b.irq) /\ b.id = "next" -> then(there)
         [] ~(t /\ b.irq) /\ b.id = "call" ->
                IF there.stop THEN [then(there) EXCEPT !.nest = 1 + @]
                ELSE [data |-> data \o (there.data \o next.data), stop |-> next.stop,
                      turns |-> 1 + b.qwc + (there.turns + next.turns),
                      nest |-> Larger(1 + there.nest, next.nest)]
ReadAhead(p, t, up) ==
    LET f[n \in 0 .. Guard] == [r \in Routine |-> [i \in DOMAIN p[r] |->
                             IF n = 0 THEN Unread ELSE MeansAt(p, f[n - 1], r, i, t, up)]]
    IN f
Meaning(p, t, up) == ReadAhead(p, t, up)[Guard][Main][1]

\* Tags and data of a destination chain ahead of run k.
AheadOf(ts, k) == SumTo([i \in 1 .. Len(ts) |-> 1 + ts[i].qwc])[k - 1]

\* The software's part: its blocks lie apart, it goes on only where there is one,
\* calls no deeper than the controller's stack, and asks for no more than a pump
\* does in one go.
Sound(p) ==
    /\ \A r, s \in Routine : \A i \in DOMAIN p[r], k \in DOMAIN p[s] :
          At(p, r, i) = At(p, s, k) => r = s /\ i = k
    /\ \A r \in Routine :
          /\ Len(p[r]) \in Nat \ {0} /\ DOMAIN p[r] = 1 .. Len(p[r])
          /\ \A i \in DOMAIN p[r] :
                LET b == p[r][i]
                IN /\ b.id \in {"cnt", "ref", "refe", "next", "call", "ret", "end"}
                   /\ b.qwc \in Nat /\ b.irq \in BOOLEAN
                   /\ IF b.id \in {"next", "call"} THEN b.to \in Routine ELSE b.to \in Nat
                   /\ b.id \in {"cnt", "ref", "call"} => i < Len(p[r])
    /\ \A t, up \in BOOLEAN :
          /\ Meaning(p, t, up).nest <= ASRS
          /\ \A l \in Leads : l.qwc + Meaning(p, t, up).turns < Guard
ASSUME ChainAssumption ==
    /\ Main \in Routine /\ Origin \in [Routine -> Nat] /\ Guard \in Nat /\ SprSize \in Nat \ {0}
    /\ Leads \subseteq [madr : Nat, qwc : Nat]
    /\ \A p \in Program : Sound(p)
    /\ SprRuns \subseteq Seq([qwc : Nat, madr : Nat]) \ {<<>>}
    /\ \A ts \in SprRuns : AheadOf(ts, Len(ts) + 1) < Guard

(***************************************************************************)
(* The controller's side.                                                  *)
(***************************************************************************)
Idle(ch) == [name |-> ch, madr |-> 0, qwc |-> 0, tadr |-> 0, sadr |-> 0, tag_end |-> FALSE, asr |-> <<>>]
ChainInit ==
    /\ \E ch \in Channel : dma = Idle(ch)
    /\ program \in Program /\ tie \in BOOLEAN /\ tte \in BOOLEAN
    /\ transfer = None

PushAsr(asr, a) == IF Len(asr) < ASRS THEN Append(asr, a) ELSE asr
BadBack(c, b) == c.tadr + 1
Back(c, b) == c.tadr + 1 + b.qwc

\* The tag b at TADR.
Follow(c, b) ==
    LET in == [c EXCEPT !.madr = c.tadr + 1, !.qwc = b.qwc]
        far == [c EXCEPT !.madr = b.to, !.qwc = b.qwc, !.tadr = @ + 1]
    IN CASE b.id = "ref"  -> far
         [] b.id = "refe" -> [far EXCEPT !.tag_end = TRUE]
         [] b.id = "cnt"  -> [in EXCEPT !.tadr = c.tadr + 1 + b.qwc]
         [] b.id = "next" -> [in EXCEPT !.tadr = Target(b)]
         [] b.id = "call" -> [in EXCEPT !.asr = PushAsr(@, Back(c, b)), !.tadr = Target(b)]
         [] b.id = "ret" /\ c.asr # <<>> -> [in EXCEPT !.tadr = Last(c.asr), !.asr = Front(@)]
         [] OTHER -> [in EXCEPT !.tag_end = TRUE]

\* A turn of a pump's loop: a quadword, the end, or a tag, whose upper half goes
\* first with TTE.  The pump is left at its end or, still armed, by its guard.
PumpTurn(mode, up, s) ==
    LET c == s.c
        b == TagAt(program, c.tadr)
        d == Follow(c, b)
    IN CASE s.over -> s
         [] ~s.over /\ c.qwc > 0 ->
                [s EXCEPT !.c = [c EXCEPT !.madr = @ + 1, !.qwc = @ - 1],
                          !.out = @ \o Quadwords(c.madr, 1)]
         [] ~s.over /\ c.qwc = 0 /\ (c.tag_end \/ mode = "normal") ->
                [s EXCEPT !.c = [c EXCEPT !.tag_end = FALSE], !.over = TRUE]
         [] OTHER ->
                [s EXCEPT !.c = [d EXCEPT !.tag_end = @ \/ (b.irq /\ tie)],
                          !.out = IF up THEN @ \o Upper(c.tadr) ELSE @]
Pump(c, mode, up) ==
    LET f[n \in 0 .. Guard] == IF n = 0 THEN [c |-> c, out |-> <<>>, over |-> FALSE]
                               ELSE PumpTurn(mode, up, f[n - 1])
    IN f[Guard]

Start(ch, up) ==
    \E mode \in {"normal", "chain"}, lead \in Leads :
        LET r == Pump([dma EXCEPT !.tadr = Origin[Main], !.madr = lead.madr, !.qwc = lead.qwc], mode, up)
        IN /\ transfer = None /\ dma.name = ch
           /\ dma' = r.c
           /\ transfer' = [channel |-> ch, mode |-> mode, lead |-> lead, up |-> up,
                           fresh |-> dma.asr = <<>> /\ ~dma.tag_end, moved |-> r.out]
           /\ UNCHANGED <<program, tie, tte>>

PumpVif0  == Start("vif0", tte)
PumpVif1  == Start("vif1", tte)
PumpGif   == Start("gif", tte)
PumpSprTo == Start("spr_to", FALSE)

\* The software prepares another transfer, perhaps with other mode bits.
Prepare == /\ transfer # None /\ transfer' = None
           /\ tie' \in BOOLEAN /\ tte' \in BOOLEAN
           /\ UNCHANGED <<dma, program>>

(***************************************************************************)
(* fromSPR.  The scratchpad holds the tags ahead of their runs, from SADR  *)
(* on, and wraps.                                                          *)
(***************************************************************************)
BadWrap(a) == a
Wrap(a) == a % SprSize
SprTurn(s) ==
    LET c == s.c
        t == Head(s.tags)
    IN CASE s.over -> s
         [] ~s.over /\ c.qwc > 0 ->
                [s EXCEPT !.c = [c EXCEPT !.sadr = Wrap(@ + 1), !.madr = @ + 1, !.qwc = @ - 1],
                          !.out = Append(@, <<c.sadr, c.madr>>)]
         [] ~s.over /\ c.qwc = 0 /\ c.tag_end ->
                [s EXCEPT !.c = [c EXCEPT !.tag_end = FALSE], !.over = TRUE]
         [] OTHER ->
                [s EXCEPT !.c = [c EXCEPT !.sadr = Wrap(@ + 1), !.madr = t.madr, !.qwc = t.qwc,
                                          !.tag_end = Len(s.tags) = 1],
                          !.tags = Tail(@)]
PumpFromSpr(c, tags) ==
    LET f[n \in 0 .. Guard] == IF n = 0 THEN [c |-> c, tags |-> tags, out |-> <<>>, over |-> FALSE]
                               ELSE SprTurn(f[n - 1])
    IN f[Guard]

PumpSprFrom ==
    \E ts \in SprRuns, s \in 0 .. SprSize - 1 :
        LET r == PumpFromSpr([dma EXCEPT !.sadr = s, !.qwc = 0], ts)
        IN /\ transfer = None /\ dma.name = "spr_from"
           /\ dma' = r.c
           /\ transfer' = [channel |-> "spr_from", runs |-> ts, from |-> s, moved |-> r.out]
           /\ UNCHANGED <<program, tie, tte>>

ChainNext == PumpVif0 \/ PumpVif1 \/ PumpGif \/ PumpSprTo \/ PumpSprFrom \/ Prepare
-----------------------------------------------------------------------------
(***************************************************************************)
(* Properties.                                                             *)
(***************************************************************************)
\* A source channel moves what its program means, in that order, through calls,
\* returns and jumps, after the run left in its registers, if its call stack was
\* empty (nothing empties the stack of a chain that an interrupt tag ended
\* inside a routine) and the guard had not left it with the last tag taken.
ChainRunsProgram ==
    transfer.channel \in SourceChannel /\ transfer.fresh =>
        transfer.moved =
            Quadwords(transfer.lead.madr, transfer.lead.qwc)
                \o (IF transfer.mode = "normal" THEN <<>> ELSE Meaning(program, tie, transfer.up).data)

\* A destination chain puts run k, read from the quadwords behind its tag, at
\* the address the tag names, also across the end of the scratchpad.
RunsLand ==
    transfer.channel = "spr_from" =>
        LET ts == transfer.runs
        IN ToSet(transfer.moved)
             = UNION { { <<(transfer.from + AheadOf(ts, k) + 1 + j) % SprSize, ts[k].madr + j>> :
                         j \in 0 .. ts[k].qwc - 1 } : k \in DOMAIN ts }

\* Chains of both kinds as one promise.
ChainsExact == ChainRunsProgram /\ RunsLand

ChainSpec == ChainInit /\ [][ChainNext]_chain
=============================================================================
