--------------------------------- MODULE Vu1 ---------------------------------
(***************************************************************************)
(* The vector unit's micro mode (vu1.rs) and its recompiler (vu1_jit).     *)
(* Pairs of an upper and a lower instruction; an E bit or a branch acts    *)
(* one pair late, flags are read four pairs late, and a branch reads an    *)
(* integer register as it was before the pair ahead wrote it.  Blocks are  *)
(* kept per image of micro memory.  One float register, x, stands for all: *)
(* an FMAC's flags are its result.                                         *)
(***************************************************************************)
EXTENDS Naturals, Sequences, SequencesExt, FiniteSets

CONSTANTS
    Pairs,                     \* micro memory, in pairs
    MAX_PAIRS, PAIR_LIMIT, IMAGES,
    ArenaPairs,                \* blocks an image's arena holds
    VuPrograms, VuUploads,
    MaxVuRuns, MaxUploads      \* bounds

VARIABLES micro, micro_gen, vu, vu_jit, vu_last, vu_runs, vu_uploads

vu_vars == <<micro, micro_gen, vu, vu_jit, vu_last, vu_runs, vu_uploads>>

Pcs == 0 .. Pairs - 1
NO_BRANCH == Pairs
NoJit == <<>>
FreshVu == [vi |-> [r \in 0 .. 2 |-> 0], x |-> 1, i |-> 0, mac |-> 0, next_pc |-> 0,
            pipe |-> [s \in 0 .. 3 |-> 0], cycle |-> 0, seen |-> 0,
            written |-> <<0, 0>>, hazard |-> <<0, 0>>, branch |-> NO_BRANCH, out |-> <<>>, n |-> 0,
            macs |-> <<0, 0, 0, 0>>, late |-> TRUE]        \* history: the last four results

(***************************************************************************)
(* The interpreter.                                                        *)
(***************************************************************************)
ViWrite(v, r, val) == IF r = 0 THEN v ELSE [v EXCEPT !.written = <<r, v.vi[r]>>, !.vi[r] = val]
ViWriteSeen(v, r, val) == IF r = 0 THEN v ELSE [v EXCEPT !.vi[r] = val]
ViForBranch(v, r) == IF r # 0 /\ v.hazard[1] = r THEN v.hazard[2] ELSE v.vi[r]
ExecUpper(v, u) ==
    IF u = "nop" THEN v
    ELSE LET y == (v.x + (IF u = "addi" THEN v.i ELSE 1)) % 4 IN [v EXCEPT !.x = y, !.mac = y]
Take(v, cond, t) == IF cond THEN [v EXCEPT !.branch = t] ELSE v
ExecLower(v, pc, l) ==
    CASE l.op = "nop" -> v
      [] l.op = "iadd" -> ViWrite(v, l.d, (v.vi[l.s] + 1) % 4)
      [] l.op = "mtir" -> ViWrite(v, l.d, v.x)
      [] l.op = "ilw" -> ViWriteSeen(v, l.d, 3)
      [] l.op = "fmand" -> [ViWriteSeen(v, l.d, v.seen) EXCEPT !.late = @ /\ v.seen = v.macs[1]]
      [] l.op = "xgkick" -> [v EXCEPT !.out = Append(@, v.vi[l.s])]
      [] l.op = "b" -> Take(v, TRUE, l.t)
      [] l.op = "bal" -> Take(ViWrite(v, l.d, (pc + 2) % 4), TRUE, l.t)
      [] l.op = "jr" -> Take(v, TRUE, ViForBranch(v, l.s) % Pairs)
      [] l.op = "jalr" -> Take(ViWrite(v, l.d, (pc + 2) % 4), TRUE, ViForBranch(v, l.s) % Pairs)
      [] l.op = "ibne" -> Take(v, ViForBranch(v, l.s) # ViForBranch(v, l.d), l.t)

BadStoreFlags(v) == [v EXCEPT !.pipe[(v.cycle + 1) % 4] = v.mac, !.cycle = (@ + 1) % 4, !.macs = Append(Tail(@), v.mac)]
StoreFlags(v) == [v EXCEPT !.pipe[v.cycle] = v.mac, !.cycle = (@ + 1) % 4, !.macs = Append(Tail(@), v.mac)]
RunPair(v, pc, p) ==
    LET a == [v EXCEPT !.seen = v.pipe[v.cycle], !.branch = NO_BRANCH, !.i = IF p.i THEN p.l.t ELSE @]
        b == ExecUpper(a, p.u)
        c == StoreFlags(IF p.i THEN b ELSE ExecLower(b, pc, p.l))
    IN [c EXCEPT !.hazard = c.written, !.written = <<0, 0>>, !.n = @ + 1]
\* ending is the E bit of the pair before.
RECURSIVE RunInterp(_, _, _, _, _)
RunInterp(m, v, pc, ending, budget) ==
    IF budget = 0 THEN [v EXCEPT !.next_pc = pc]
    ELSE LET w == RunPair(v, pc, m[pc])
             to == IF v.branch # NO_BRANCH THEN v.branch ELSE (pc + 1) % Pairs
         IN IF ending THEN [w EXCEPT !.next_pc = to] ELSE RunInterp(m, w, to, m[pc].e, budget - 1)
Entered(v) == [v EXCEPT !.written = <<0, 0>>, !.hazard = <<0, 0>>, !.branch = NO_BRANCH, !.n = 0, !.out = <<>>]
VuInterpret(m, v, pc, budget) == RunInterp(m, [v EXCEPT !.branch = NO_BRANCH], pc, FALSE, budget)

(***************************************************************************)
(* Translation.  Each pair carries its part in the branch hazard: set      *)
(* copies the old value aside, read takes it from there, dynamic looks at  *)
(* what the block before left, clear drops that.                           *)
(***************************************************************************)
IsVuBranch(p) == ~p.i /\ p.l.op \in {"b", "bal", "jr", "jalr", "ibne"}
BadViDest(p) == IF ~p.i /\ p.l.op \in {"iadd", "mtir", "bal", "jalr", "ilw"} THEN p.l.d ELSE 0
ViDest(p) == IF ~p.i /\ p.l.op \in {"iadd", "mtir", "bal", "jalr"} THEN p.l.d ELSE 0
BranchReads(p) ==
    IF p.i THEN {} ELSE (CASE p.l.op \in {"jr", "jalr"} -> {p.l.s} [] p.l.op = "ibne" -> {p.l.s, p.l.d} [] OTHER -> {}) \ {0}
Among(r, S) == IF r \in S THEN r ELSE 0
Emit(pc, p, set, read, dynamic, clear) ==
    [pc |-> pc, p |-> p, set |-> set, read |-> read, dynamic |-> dynamic, clear |-> clear]

Ends(p) == p.e \/ IsVuBranch(p)
\* Straight pairs from pc up to the terminator or the limit.
StraightTo(m, pc) ==
    LET stops == { k \in 0 .. MAX_PAIRS - 1 : Ends(m[(pc + k) % Pairs]) }
    IN IF stops = {} THEN MAX_PAIRS ELSE CHOOSE k \in stops : \A j \in stops : k <= j
VuTranslate(m, pc) ==
    LET k == StraightTo(m, pc)
        at(j) == (pc + j) % Pairs
        p(j) == m[at(j)]
        set(j) == Among(ViDest(p(j)), BranchReads(p(j + 1)))
        run == [ j \in 1 .. k |-> Emit(at(j - 1), p(j - 1), set(j - 1), 0, FALSE, j = 1) ]
        reads == IF IsVuBranch(p(k)) THEN BranchReads(p(k)) ELSE {}
        term == Emit(at(k), p(k), 0, IF k = 0 THEN 0 ELSE Among(ViDest(p(k - 1)), reads),
                     k = 0 /\ reads # {}, k = 0 /\ reads = {})
        slot == Emit(at(k + 1), p(k + 1), ViDest(p(k + 1)), 0, FALSE, FALSE)
    IN CASE k = MAX_PAIRS ->
              [steps |-> run, branchy |-> FALSE, fall |-> at(k), status |-> "on", kept |-> set(k - 1) # 0]
         [] k < MAX_PAIRS /\ ~p(k).e /\ Ends(p(k + 1)) ->
              [steps |-> run, branchy |-> FALSE, fall |-> at(k), status |-> "bail", kept |-> TRUE]
         [] OTHER ->
              [steps |-> run \o <<term, slot>>, branchy |-> IsVuBranch(p(k)), fall |-> at(k + 2),
               status |-> IF p(k).e THEN "end" ELSE "on", kept |-> ViDest(p(k + 1)) # 0]

(***************************************************************************)
(* What a block does.  branch is r14d, which a pair does not clear.        *)
(***************************************************************************)
BranchVi(v, s, r) ==
    IF r # 0 /\ s.read = r THEN v.hazard[2] ELSE IF s.dynamic THEN ViForBranch(v, r) ELSE v.vi[r]
\* MTIR, the flag readers and XGKICK go to the interpreter, which records
\* its write for a pair end that does not come.
LowerNative(v, s) ==
    LET l == s.p.l
    IN CASE l.op = "iadd" -> ViWriteSeen(v, l.d, (v.vi[l.s] + 1) % 4)
         [] l.op = "bal" -> Take(ViWriteSeen(v, l.d, (s.pc + 2) % 4), TRUE, l.t)
         [] l.op = "jr" -> Take(v, TRUE, BranchVi(v, s, l.s) % Pairs)
         [] l.op = "jalr" -> ViWriteSeen(Take(v, TRUE, BranchVi(v, s, l.s) % Pairs), l.d, (s.pc + 2) % 4)
         [] l.op = "ibne" -> Take(v, BranchVi(v, s, l.s) # BranchVi(v, s, l.d), l.t)
         [] OTHER -> ExecLower(v, s.pc, l)
\* The hazard of the block before is dropped, or this pair's copied aside.
Aside(v, s) ==
    CASE s.set # 0 -> [v EXCEPT !.hazard = <<s.set, v.vi[s.set]>>]
      [] s.set = 0 /\ s.clear -> [v EXCEPT !.hazard = <<0, 0>>]
      [] OTHER -> v
UpperNative(v, s) ==
    ExecUpper([v EXCEPT !.seen = IF ~s.p.i /\ s.p.l.op = "fmand" THEN v.pipe[v.cycle] ELSE @,
                        !.i = IF s.p.i THEN s.p.l.t ELSE @], s.p.u)
BothNative(v, s) == IF s.p.i THEN UpperNative(v, s) ELSE LowerNative(UpperNative(v, s), s)
PairDone(v, s) == [StoreFlags(v) EXCEPT !.n = @ + 1, !.hazard = IF s.read # 0 \/ s.dynamic THEN <<0, 0>> ELSE @]
EmitPair(v, s) == PairDone(BothNative(Aside(v, s), s), s)
PassOn(w, b) ==
    [w EXCEPT !.written = <<0, 0>>, !.hazard = IF b.kept THEN @ ELSE <<0, 0>>,
              !.next_pc = IF b.branchy /\ w.branch # NO_BRANCH THEN w.branch ELSE b.fall]
RunBlock(v, b) == PassOn(FoldLeft(EmitPair, [v EXCEPT !.branch = NO_BRANCH], b.steps), b)

(***************************************************************************)
(* The images.  A key is the contents of micro memory; the first image     *)
(* starts, and starts over, under a key that no contents have.             *)
(***************************************************************************)
NoKey == <<>>
NewImage(key, used) == [blocks |-> <<>>, key |-> key, used |-> used]
NewVuJit == [images |-> <<NewImage(NoKey, 0)>>, cur |-> 1, gen |-> 0, clock |-> 0]
BlockAt(j, pc) == { b \in ToSet(j.images[j.cur].blocks) : b.pc = pc }
Select(j, m) ==
    LET c == j.clock + 1
        held == { i \in DOMAIN j.images : j.images[i].key = m }
        old == CHOOSE i \in DOMAIN j.images : \A k \in DOMAIN j.images : j.images[i].used <= j.images[k].used
        at == IF held # {} THEN CHOOSE i \in held : TRUE ELSE IF Len(j.images) < IMAGES THEN Len(j.images) + 1 ELSE old
    IN [j EXCEPT !.clock = c, !.cur = at,
                 !.images = CASE held # {} -> [@ EXCEPT ![at].used = c]
                              [] held = {} /\ at > Len(@) -> Append(@, NewImage(m, c))
                              [] OTHER -> [@ EXCEPT ![at] = NewImage(m, c)]]
CompileAt(j, m, pc) ==
    LET full == Len(j.images[j.cur].blocks) >= ArenaPairs
    IN [j EXCEPT !.images[j.cur].blocks = Append(IF full THEN <<>> ELSE @, [pc |-> pc, code |-> VuTranslate(m, pc)])]
FlushFor(j, gen) == [j EXCEPT !.images = <<NewImage(NoKey, j.images[1].used)>>, !.cur = 1, !.gen = gen]

\* A block cannot stop part way, so the interpreter counts the tail out.
BadTail(budget) == budget < MAX_PAIRS
CountOut(budget) == budget <= MAX_PAIRS + 1
RECURSIVE VuDispatch(_, _, _, _)
VuGoOn(j, m, w, b, left) ==
    CASE b.status = "end" -> [j |-> j, v |-> w]
      [] b.status = "bail" -> [j |-> j, v |-> VuInterpret(m, w, w.next_pc, left)]
      [] b.status = "on" -> VuDispatch(j, m, w, left)
VuEnter(j, m, v, b, budget) ==
    VuGoOn(j, m, RunBlock(v, b), b, IF budget > Len(b.steps) THEN budget - Len(b.steps) ELSE 0)
VuReady(j, m, pc) == IF BlockAt(j, pc) = {} THEN CompileAt(j, m, pc) ELSE j
VuLookup(j, m, v, budget) == VuEnter(j, m, v, (CHOOSE x \in BlockAt(j, v.next_pc) : TRUE).code, budget)
VuDispatch(j, m, v, budget) ==
    IF CountOut(budget) THEN [j |-> j, v |-> VuInterpret(m, v, v.next_pc, budget)]
    ELSE VuLookup(VuReady(j, m, v.next_pc), m, v, budget)
VuRun(j, m, gen, v, pc) ==
    VuDispatch(IF j.gen # gen THEN [Select(j, m) EXCEPT !.gen = gen] ELSE j, m, [Entered(v) EXCEPT !.next_pc = pc], PAIR_LIMIT)

VuInit ==
    /\ micro \in VuPrograms
    /\ micro_gen = 0 /\ vu = FreshVu /\ vu_jit = NewVuJit /\ vu_runs = 0 /\ vu_uploads = 0
    /\ vu_last = [agree |-> TRUE, stops |-> TRUE, end_branch |-> FALSE, late |-> TRUE, n |-> 0]

Kept(v) == [ f \in {"vi", "x", "i", "mac", "pipe", "cycle", "out", "n"} |-> v[f] ]
EndBranch == \E p \in Pcs : micro[p].e /\ IsVuBranch(micro[p]) /\ IsVuBranch(micro[(p + 1) % Pairs])
VuRecord(r, ref) ==
    /\ vu' = [r.v EXCEPT !.written = <<0, 0>>, !.hazard = <<0, 0>>, !.branch = NO_BRANCH, !.seen = 0]
    /\ vu_jit' = r.j
    /\ vu_last' = [agree |-> Kept(r.v) = Kept(ref), stops |-> r.v.next_pc = ref.next_pc, n |-> r.v.n,
                   late |-> r.v.late, end_branch |-> EndBranch]
VuEngine(ref, pc) == IF vu_jit = NoJit THEN [j |-> vu_jit, v |-> ref] ELSE VuRun(vu_jit, micro, micro_gen, vu, pc)
VuCompare(ref, pc) == VuRecord(VuEngine(ref, pc), ref)
\* MSCAL from a pair, MSCNT from where the last program stopped.
RunFrom(pc) ==
    /\ vu_runs < MaxVuRuns /\ vu_runs' = vu_runs + 1
    /\ VuCompare(VuInterpret(micro, Entered(vu), pc, PAIR_LIMIT), pc)
    /\ UNCHANGED <<micro, micro_gen, vu_uploads>>
Start == \E pc \in Pcs : RunFrom(pc)
Continue == RunFrom(vu.next_pc)
\* MPG or an EE store; identical content is not a change.
WriteMicro(m) ==
    /\ m # micro /\ micro' = m /\ micro_gen' = micro_gen + 1
    /\ vu_uploads < MaxUploads /\ vu_uploads' = vu_uploads + 1
    /\ UNCHANGED <<vu, vu_jit, vu_last, vu_runs>>
\* A state holds micro memory and the registers; neither the flags in
\* flight nor the generation.  The recompiler is carried over and flushed.
BadVuLoad(m) ==
    /\ vu_uploads < MaxUploads /\ vu_uploads' = vu_uploads + 1
    /\ micro' = m /\ micro_gen' = 0
    /\ vu' = [vu EXCEPT !.pipe = FreshVu.pipe, !.cycle = 0, !.macs = FreshVu.macs]
    /\ UNCHANGED <<vu_jit, vu_last, vu_runs>>
VuLoad(m) ==
    /\ vu_uploads < MaxUploads /\ vu_uploads' = vu_uploads + 1
    /\ micro' = m /\ micro_gen' = 0
    /\ vu' = [vu EXCEPT !.pipe = FreshVu.pipe, !.cycle = 0, !.macs = FreshVu.macs]
    /\ vu_jit' = IF vu_jit = NoJit THEN vu_jit ELSE FlushFor(vu_jit, 0)
    /\ UNCHANGED <<vu_last, vu_runs>>
VuSetJit ==
    /\ vu_uploads < MaxUploads /\ vu_uploads' = vu_uploads + 1
    /\ vu_jit' = IF vu_jit = NoJit THEN NewVuJit ELSE NoJit
    /\ UNCHANGED <<micro, micro_gen, vu, vu_last, vu_runs>>

VuNext == \/ Start \/ Continue
          \/ \E m \in VuUploads : micro \in VuUploads /\ (WriteMicro(m) \/ VuLoad(m))
          \/ micro \in VuUploads /\ VuSetJit

(***************************************************************************)
(* Properties.                                                             *)
(***************************************************************************)
\* "Mirrors Vu1::run_interp exactly": the registers, the flags in flight,
\* the packets kicked and the pairs retired are the interpreter's.
VuEnginesAgree == vu_last.agree
\* ... "including where it leaves next_pc for a later MSCNT, and including
\* where a program that never ends stops", as long as no E-bit branch has a
\* branch behind it.
VuStopsAgree == ~vu_last.end_branch => vu_last.stops
VuNextPcMirrors == vu_last.stops
\* The blocks the next program will enter are translations of what micro
\* memory holds, whatever was uploaded, loaded or evicted in between.
VuCodeCurrent ==
    vu_jit # NoJit =>
        /\ vu_jit.gen = micro_gen =>
              \A b \in ToSet(vu_jit.images[vu_jit.cur].blocks) : b.code = VuTranslate(micro, b.pc)
        /\ \A k \in DOMAIN vu_jit.images :
              LET im == vu_jit.images[k]
              IN im.key # NoKey => \A b \in ToSet(im.blocks) : b.code = VuTranslate(im.key, b.pc)
\* A flag reader sees the flags of the fourth pair before it, across blocks
\* and across programs.
VuFlagsFourLate == vu_last.late

\* VU1's programs as one promise.
VuCodeExact == VuEnginesAgree /\ VuStopsAgree /\ VuCodeCurrent /\ VuFlagsFourLate
=============================================================================
