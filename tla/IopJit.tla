------------------------------- MODULE IopJit -------------------------------
(***************************************************************************)
(* The IOP core (iop/mod.rs) and its recompiler (iop/jit).  A load's value *)
(* lands one instruction late; the interpreter keeps it in pending_load,   *)
(* the recompiler resolves it while it translates.  A chain of blocks      *)
(* stands in for stepping one instruction at a time with the interrupt     *)
(* lines tested before each, so whatever can move a line must end it.      *)
(* Addresses count words; the second half of Virtual shows the first again *)
(* (KUSEG and KSEG0).  Registers hold two bits, a high and a low half.     *)
(***************************************************************************)
EXTENDS Naturals, Sequences, SequencesExt

CONSTANTS
    IopWords, IopPage, IopVector,
    IOP_MAX_BLOCK, IOP_LOOKUP,
    ArenaBlocks,             \* what the arena holds before it starts over
    IopText, IopPatches, IopEntry, IopBudgets,
    MaxChains                \* bound on the dispatches

VARIABLES
    iop_ram, iop_cpu,
    line,                    \* a device's line at the interrupt controller
    iop_cache,
    chain,                   \* history: the last chain
    chains

iop_jit == <<iop_ram, iop_cpu, line, iop_cache, chain, chains>>

IopVirtual == 0 .. (2 * IopWords) - 1
IopPhys(v) == v % IopWords
IopPageOf(p) == p \div IopPage
Core0 == iop_cpu @@ [mem |-> iop_ram, line |-> line, pages |-> iop_cache.code_pages, dirty |-> <<>>, n |-> 0,
                     cur |-> 0, in_delay |-> FALSE, written |-> 0, out |-> FALSE, log |-> <<>>,
                     wrote |-> {}, stale |-> {}]
IopFetch(m, v) == m.mem[IopPhys(v)]

(***************************************************************************)
(* The interpreter.                                                        *)
(***************************************************************************)
Jumps(i) == i.op \in {"j", "jal", "jr", "bne"}
EndsBlock(i) == i.op \in {"mtc0", "rfe", "syscall"}
Untranslated(i) == EndsBlock(i) \/ i.op = "mult"
Leaves(i) == i.op \in {"in", "out"}            \* an access outside IOP RAM
Loads(i) == i.op \in {"ld", "lwl", "lwr", "in", "mfc0"}

SetReg(m, d, v) == [m EXCEPT !.r[d] = v, !.written = d]
SetLoad(m, d, v) == [m EXCEPT !.pend = <<d, v>>]
MergeBase(m, d) == IF m.pend # <<>> /\ m.pend[1] = d THEN m.pend[2] ELSE m.r[d]
Merged(op, base, v) == IF op = "lwl" THEN (base % 2) + (2 * (v \div 2)) ELSE (2 * (base \div 2)) + (v % 2)
Datum(m, a) == IF m.mem[a].op = "nop" THEN 1 ELSE 2
\* A device register: reading it acknowledges, writing it raises the line.
Device(m, op) == [m EXCEPT !.log = Append(@, <<op, m.n>>), !.line = (op = "out")]
\* iop_ram_written
NoteWord(dirty, pages, p) ==
    IF pages[IopPageOf(p)] /\ (dirty = <<>> \/ Last(dirty) # p) THEN Append(dirty, p) ELSE dirty
IopStore(m, i) == [m EXCEPT !.mem[i.a] = i.v, !.dirty = NoteWord(@, m.pages, i.a), !.wrote = @ \cup {i.a}]
IopException(m) ==
    [m EXCEPT !.epc = IF m.in_delay THEN m.cur - 1 ELSE m.cur, !.ie = FALSE, !.iep = m.ie,
              !.pc = IopVector, !.next_pc = IopVector + 1, !.delay = FALSE]
IopBranch(m, target) == [m EXCEPT !.next_pc = target, !.delay = TRUE]
SpinsHere(m, i) == i.op = "j" /\ i.a = m.cur /\ IopFetch(m, m.pc).op = "nop"

IopExecute(m, i) ==
    CASE i.op = "nop" -> m
      [] i.op = "add" -> SetReg(m, i.d, (m.r[i.s] + 1) % 4)
      [] i.op = "mult" -> [m EXCEPT !.hi = m.r[i.s]]
      [] i.op = "mfhi" -> SetReg(m, i.d, m.hi)
      [] i.op = "ld" -> SetLoad(m, i.d, Datum(m, i.a))
      [] i.op \in {"lwl", "lwr"} -> SetLoad(m, i.d, Merged(i.op, MergeBase(m, i.d), 3))
      [] i.op = "in" -> SetLoad(Device(m, "in"), i.d, IF m.line THEN 3 ELSE 0)
      [] i.op = "out" -> Device(m, "out")
      [] i.op = "mfc0" -> SetLoad(m, i.d, IF m.ie THEN 1 ELSE 0)
      [] i.op = "mtc0" -> [m EXCEPT !.ie = (m.r[i.s] # 0)]
      [] i.op = "rfe" -> [m EXCEPT !.ie = m.iep]
      [] i.op = "sw" -> IopStore(m, i)
      [] i.op = "j" -> [IopBranch(m, i.a) EXCEPT !.idle = m.idle \/ SpinsHere(m, i)]
      [] i.op = "jal" -> IopBranch(SetReg(m, i.d, 3), i.a)
      [] i.op = "jr" -> IopBranch(m, m.epc)
      [] i.op = "bne" -> IF m.r[i.s] # 0 THEN IopBranch(m, i.a) ELSE [m EXCEPT !.delay = TRUE]
      [] i.op = "syscall" -> IopException(m)

\* The load in flight before the instruction lands after it, unless the
\* instruction wrote its register.
Landed(before, after) ==
    IF before.pend = <<>> THEN after
    ELSE LET a == IF after.pend = before.pend THEN [after EXCEPT !.pend = <<>>] ELSE after
         IN IF before.pend[1] # after.written THEN [a EXCEPT !.r[before.pend[1]] = before.pend[2]] ELSE a
Ran(m, i) == LET b == [m EXCEPT !.written = 0] IN Landed(b, IopExecute(b, i))
IopPending(m) == m.ie /\ m.line
TakeInterrupt(m) ==
    IF ~IopPending(m) THEN m
    ELSE LET c == IF m.pend = <<>> THEN m ELSE [m EXCEPT !.r[m.pend[1]] = m.pend[2], !.pend = <<>>]
         IN IopException([c EXCEPT !.cur = c.pc, !.in_delay = c.delay])
IopStep(m0) ==
    LET m == TakeInterrupt(m0)
        i == IopFetch(m, m.pc)
    IN [Ran([m EXCEPT !.cur = m.pc, !.in_delay = m.delay, !.delay = FALSE,
                      !.pc = m.next_pc, !.next_pc = m.next_pc + 1], i) EXCEPT !.n = m0.n + 1]
RECURSIVE Stepped(_, _)
Stepped(m, n) == IF n = 0 THEN m ELSE Stepped(IopStep(m), n - 1)
IopExecAt(m, a, i, in_delay) ==
    Ran([m EXCEPT !.cur = a, !.in_delay = in_delay, !.delay = FALSE, !.pc = a + 1, !.next_pc = a + 2], i)

(***************************************************************************)
(* One instruction as it is emitted: operands, result, then the commit of  *)
(* the load in flight, then the load this one leaves in flight.            *)
(***************************************************************************)
Commit(m, written) ==
    IF m.pend = <<>> THEN m
    ELSE IF m.pend[1] = written THEN [m EXCEPT !.pend = <<>>]
    ELSE [m EXCEPT !.r[m.pend[1]] = m.pend[2], !.pend = <<>>]
Put(m, d, v) == Commit([m EXCEPT !.r[d] = v], d)
EmitOne(m, i) ==
    CASE i.op \in {"nop", "j", "jr", "bne"} -> Commit(m, 0)
      [] i.op = "add" -> Put(m, i.d, (m.r[i.s] + 1) % 4)
      [] i.op = "mfhi" -> Put(m, i.d, m.hi)
      [] i.op = "jal" -> Put(m, i.d, 3)
      [] i.op = "ld" -> SetLoad(Commit(m, 0), i.d, Datum(m, i.a))
      [] i.op \in {"lwl", "lwr"} -> SetLoad(Commit(m, 0), i.d, Merged(i.op, MergeBase(m, i.d), 3))
      [] i.op = "in" -> SetLoad(Device(Commit(m, 0), "in"), i.d, IF m.line THEN 3 ELSE 0)
      [] i.op = "out" -> Device(Commit(m, 0), "out")
      [] i.op = "mfc0" -> SetLoad(Commit(m, 0), i.d, IF m.ie THEN 1 ELSE 0)
      [] i.op = "sw" -> IopStore(Commit(m, 0), i)

(***************************************************************************)
(* Translation.                                                            *)
(***************************************************************************)
Earliest(S) == CHOOSE x \in S : \A y \in S : x <= y
Spin(a, i, ds) == i.op = "j" /\ i.a = a /\ ds.op = "nop"
EndOf(pc) ==
    Earliest({ k \in 1 .. IOP_MAX_BLOCK :
        LET i == IopFetch(Core0, pc + k - 1)
        IN Jumps(i) \/ EndsBlock(i) \/ k = IOP_MAX_BLOCK \/ (pc + k) % IopPage = 0 })
BadScan(pc) == EndOf(pc)
\* What the entry tests against the budget.
Scan(pc) ==
    LET a == pc + EndOf(pc) - 1
        i == IopFetch(Core0, a)  ds == IopFetch(Core0, a + 1)
    IN IF Jumps(i) /\ ~Jumps(ds) /\ ~Spin(a, i, ds) THEN EndOf(pc) + 1 ELSE EndOf(pc)
KindOf(a) ==
    LET i == IopFetch(Core0, a)  ds == IopFetch(Core0, a + 1)
    IN CASE Jumps(i) /\ Jumps(ds) -> "double"
         [] Spin(a, i, ds) -> "idle"
         [] Jumps(i) -> "branch"
         [] EndsBlock(i) -> "stop"
         [] OTHER -> "run"
\* A load in flight is never linked across, nor an interrupt just unmasked.
BadLinkable(i) == ~EndsBlock(i)
Linkable(i) == ~Loads(i) /\ ~EndsBlock(i)
ExitTargets(a, kind) ==
    LET i == IopFetch(Core0, a)  last == IopFetch(Core0, IF kind = "branch" THEN a + 1 ELSE a)
    IN IF kind \notin {"branch", "run"} \/ ~Linkable(last) \/ i.op = "jr" THEN {}
       ELSE IF kind = "run" THEN {<<"fall", a + 1>>}
       ELSE {<<"taken", i.a>>} \cup (IF i.op = "bne" THEN {<<"fall", a + 2>>} ELSE {})
IopTranslate(pc) ==
    LET a == pc + EndOf(pc) - 1
        kind == KindOf(a)
        count == IF kind = "branch" THEN EndOf(pc) + 1 ELSE EndOf(pc)
    IN [pc |-> pc, kind |-> kind, len |-> Scan(pc), text |-> [ j \in 1 .. count |-> IopFetch(Core0, pc + j - 1) ],
        exits |-> ExitTargets(a, kind), phys |-> <<IopPhys(pc), IopPhys(pc + count - 1) + 1>>,
        incoming |-> {}, valid |-> TRUE]

(***************************************************************************)
(* The cache.  A link is [own, name, target, at]; at is 0 for a jump with  *)
(* no displacement, which falls into its block's own slow path.            *)
(***************************************************************************)
Pages == 0 .. IopPageOf(IopWords) - 1
NoSlot == [pc |-> 0, entry |-> 0]
Flushed == [blocks |-> <<>>, by_pc |-> [v \in IopVirtual |-> 0], lookup |-> [s \in 0 .. IOP_LOOKUP - 1 |-> NoSlot],
            page_blocks |-> [p \in Pages |-> {}], code_pages |-> [p \in Pages |-> FALSE],
            dirty |-> <<>>, dirty_pages |-> <<>>, links |-> <<>>, pending |-> [v \in IopVirtual |-> {}]]
BadDropSlot(c, pc) == c
DropSlot(c, pc) ==
    IF c.lookup[pc % IOP_LOOKUP].pc = pc THEN [c EXCEPT !.lookup[pc % IOP_LOOKUP] = NoSlot] ELSE c
Forget(c, b) ==
    LET in == c.blocks[b].incoming  pc == c.blocks[b].pc
    IN DropSlot([c EXCEPT !.blocks[b].valid = FALSE, !.blocks[b].incoming = {}, !.by_pc[pc] = 0,
                          !.links = [ x \in DOMAIN @ |-> IF x \in in THEN [@[x] EXCEPT !.at = 0] ELSE @[x] ],
                          !.pending[pc] = @ \cup in], pc)
ValidOn(c, page) == { b \in c.page_blocks[page] : c.blocks[b].valid }
ForgetAll(c, page, S) ==
    LET d == FoldLeft(Forget, c, SetToSeq(S))
    IN IF S = ValidOn(c, page) THEN [d EXCEPT !.page_blocks[page] = {}, !.code_pages[page] = FALSE] ELSE d
ForgetWord(c, a) ==
    ForgetAll(c, IopPageOf(a), { b \in ValidOn(c, IopPageOf(a)) : c.blocks[b].phys[1] <= a /\ a < c.blocks[b].phys[2] })
ForgetPage(c, p) == ForgetAll(c, p, ValidOn(c, p))
InvalidateDirty(c) ==
    [FoldLeft(ForgetWord, FoldLeft(ForgetPage, c, c.dirty_pages), c.dirty) EXCEPT !.dirty = <<>>, !.dirty_pages = <<>>]
Lookup(c, pc) == LET s == c.lookup[pc % IOP_LOOKUP] IN IF s.entry # 0 /\ s.pc = pc THEN s.entry ELSE c.by_pc[pc]

Connect(c, x) ==
    LET t == c.by_pc[c.links[x].target]
    IN IF t = 0 THEN [c EXCEPT !.pending[c.links[x].target] = @ \cup {x}]
       ELSE [c EXCEPT !.links[x].at = t, !.blocks[t].incoming = @ \cup {x}]
\* The exits that waited for pc jump to its block.
Settled(w, pc, idx) ==
    [w EXCEPT !.links = [ x \in DOMAIN @ |-> IF x \in w.pending[pc] THEN [@[x] EXCEPT !.at = idx] ELSE @[x] ],
              !.blocks[idx].incoming = @ \cup w.pending[pc], !.pending[pc] = {}]
Placed(c, pc, b) ==
    LET idx == Len(c.blocks) + 1
        on == IopPageOf(b.phys[1]) .. IopPageOf(b.phys[2] - 1)
        exits == SetToSeq(b.exits)
        new == [ j \in DOMAIN exits |-> [own |-> idx, name |-> exits[j][1], target |-> exits[j][2], at |-> 0] ]
        d == [c EXCEPT !.blocks = Append(@, b), !.by_pc[pc] = idx, !.lookup[pc % IOP_LOOKUP] = [pc |-> pc, entry |-> idx],
                       !.page_blocks = [ p \in DOMAIN @ |-> IF p \in on THEN @[p] \cup {idx} ELSE @[p] ],
                       !.code_pages = [ p \in DOMAIN @ |-> @[p] \/ p \in on ], !.links = @ \o new]
    IN Settled(FoldLeft(Connect, d, [ j \in DOMAIN exits |-> Len(c.links) + j ]), pc, idx)
IopCompile(c, pc) == Placed(IF Len(c.blocks) >= ArenaBlocks THEN Flushed ELSE c, pc, IopTranslate(pc))

(***************************************************************************)
(* A chain.                                                                *)
(***************************************************************************)
At(m, pc) == [m EXCEPT !.pc = pc, !.next_pc = pc + 1, !.delay = FALSE]
Watched(m, b, j) ==
    IF IopFetch(m, b.pc + j - 1) = b.text[j] THEN m ELSE [m EXCEPT !.stale = @ \cup {IopPhys(b.pc + j - 1)}]
\* Back from the interpreter: a block is left where the instruction diverted.
Returned(i, a, x, slot) == [x EXCEPT !.n = @ + 1, !.out = (EndsBlock(i) /\ ~slot) \/ x.delay \/ x.pc # a + 1]
LeftAfter(i, a, e, slot) == IF Leaves(i) /\ ~slot THEN [At(e, a + 1) EXCEPT !.out = TRUE] ELSE e
InText(i, a, m, slot) ==
    IF Untranslated(i) THEN Returned(i, a, IopExecAt(m, a, i, slot), slot)
    ELSE LeftAfter(i, a, [EmitOne(m, i) EXCEPT !.n = @ + 1], slot)
InBlock(b, j, m, slot) == IF m.out THEN m ELSE InText(b.text[j], b.pc + j - 1, Watched(m, b, j), slot)
Straight(b, m, upto) == FoldLeftDomain(LAMBDA acc, j : InBlock(b, j, acc, FALSE), m, SubSeq(b.text, 1, upto))

RECURSIVE IopEnter(_, _, _, _)
\* A branch target is left for through its link when it has one; the block
\* linked to was translated with no load in flight.
Follow(c, idx, name, m, target, budget) ==
    LET xs == { x \in DOMAIN c.links : c.links[x].own = idx /\ c.links[x].name = name }
    IN IF xs = {} THEN At(m, target)
       ELSE LET x == c.links[Earliest(xs)]
            IN IF x.at = 0 THEN At(m, target) ELSE IopEnter(c, x.at, [m EXCEPT !.pend = <<>>], budget)
AfterDelay(c, idx, taken, target, slot, budget) ==
    IF slot.out THEN slot
    ELSE IF Leaves(Last(c.blocks[idx].text)) THEN At(slot, target)
    ELSE Follow(c, idx, IF taken THEN "taken" ELSE "fall", slot, target, budget)
\* The jump itself, at j.
JumpIn(b, j, m) == [EmitOne(Watched(m, b, j), b.text[j]) EXCEPT !.n = @ + 1]
AtBranch(c, idx, pre, budget) ==
    LET b == c.blocks[idx]
        j == Len(b.text) - 1
        i == b.text[j]
        taken == i.op = "bne" => pre.r[i.s] # 0
        target == CASE i.op = "jr" -> pre.epc [] taken -> i.a [] OTHER -> b.pc + j + 1
    IN AfterDelay(c, idx, taken, target, InBlock(b, j + 1, JumpIn(b, j, pre), TRUE), budget)
BodyDone(c, idx, pre, budget) ==
    LET b == c.blocks[idx]
        k == Len(b.text)
        a == b.pc + k - 1
    IN CASE pre.out \/ b.kind = "stop" -> pre
         [] ~pre.out /\ b.kind = "run" -> Follow(c, idx, "fall", pre, b.pc + k, budget)
         [] ~pre.out /\ b.kind = "double" ->
                [IopExecAt(Watched(pre, b, k), a, b.text[k], FALSE) EXCEPT !.n = @ + 1]
         [] ~pre.out /\ b.kind = "idle" ->
                [JumpIn(b, k, pre) EXCEPT !.idle = TRUE, !.delay = TRUE, !.pc = a + 1, !.next_pc = b.text[k].a]
         [] ~pre.out /\ b.kind = "branch" -> AtBranch(c, idx, pre, budget)
\* What a block runs before the jump that ends it.
BodyLen(b) ==
    CASE b.kind = "branch" -> Len(b.text) - 2 [] b.kind \in {"double", "idle"} -> Len(b.text) - 1 [] OTHER -> Len(b.text)
IopEnter(c, idx, m, budget) ==
    LET b == c.blocks[idx]
    IN IF m.n + b.len > budget THEN At(m, b.pc)
       ELSE BodyDone(c, idx, Straight(b, m, BodyLen(b)), budget)

IopJitInit ==
    /\ iop_ram \in IopText
    /\ iop_cpu = [pc |-> IopEntry, next_pc |-> IopEntry + 1, delay |-> FALSE, r |-> <<0, 1>>, hi |-> 0, pend |-> <<>>,
                  epc |-> IopEntry, ie |-> FALSE, iep |-> FALSE, idle |-> FALSE]
    /\ line = FALSE /\ iop_cache = Flushed /\ chains = 0
    /\ chain = [n |-> 1, budget |-> 1, stale |-> {}, wrote |-> {}, agreed |-> TRUE]

\* What a program can tell: a load in flight whose value its register already
\* has is no load.
Seen(m) == [ f \in {"pc", "next_pc", "delay", "r", "hi", "epc", "ie", "iep", "idle", "mem", "line", "log"} |-> m[f] ]
           @@ [pend |-> IF m.pend # <<>> /\ m.r[m.pend[1]] = m.pend[2] THEN <<>> ELSE m.pend]
SteppedFirst == iop_cpu.delay \/ iop_cpu.pend # <<>> \/ IopPending(Core0)
IopCurrent(c) == IF SteppedFirst \/ Lookup(c, iop_cpu.pc) # 0 THEN c ELSE IopCompile(c, iop_cpu.pc)
\* A block the budget does not hold retires nothing: one step instead.
OrStep(m0, e) == IF e.n = 0 THEN IopStep(m0) ELSE e
IopChain(c, m0, budget) ==
    IF SteppedFirst THEN IopStep(m0) ELSE OrStep(m0, IopEnter(c, Lookup(c, iop_cpu.pc), m0, budget))
IopOutcome(c, m0, m, budget) ==
    /\ iop_cache' = [c EXCEPT !.dirty = m.dirty]
    /\ iop_ram' = m.mem /\ line' = m.line
    /\ iop_cpu' = [ f \in DOMAIN iop_cpu |-> m[f] ]
    /\ chain' = [n |-> m.n, budget |-> budget, stale |-> m.stale, wrote |-> m.wrote,
                 agreed |-> Seen(m) = Seen(Stepped(m0, m.n))]
IopRunOn(c, budget) ==
    LET m0 == [Core0 EXCEPT !.pages = c.code_pages, !.idle = FALSE]
    IN IopOutcome(c, m0, IopChain(c, m0, budget), budget)
\* Jit::run; an idle core is left alone until its line is up.
IopRun(budget) ==
    /\ chains < MaxChains
    /\ iop_cpu.idle => IopPending(Core0)
    /\ IopRunOn(IopCurrent(InvalidateDirty(iop_cache)), budget)
    /\ chains' = chains + 1
\* iop_ram_bulk_written: a transfer lands on code, a page at a time.
BadBulkWrite(p) ==
    /\ iop_ram[p.at] # p.i /\ iop_ram' = [iop_ram EXCEPT ![p.at] = p.i]
    /\ UNCHANGED <<iop_cpu, line, iop_cache, chain, chains>>
BulkWrite(p) ==
    /\ iop_ram[p.at] # p.i /\ iop_ram' = [iop_ram EXCEPT ![p.at] = p.i]
    /\ iop_cache' = IF iop_cache.code_pages[IopPageOf(p.at)]
                    THEN [iop_cache EXCEPT !.dirty_pages = Append(@, IopPageOf(p.at))] ELSE iop_cache
    /\ UNCHANGED <<iop_cpu, line, chain, chains>>
DeviceLine == ~line /\ line' = TRUE /\ UNCHANGED <<iop_ram, iop_cpu, iop_cache, chain, chains>>

IopJitNext == \/ \E b \in IopBudgets : IopRun(b)
              \/ \E p \in IopPatches : BulkWrite(p)
              \/ DeviceLine

(***************************************************************************)
(* Properties.                                                             *)
(***************************************************************************)
\* "A chain may only stand in for that loop while nothing it does can be
\* observed in between": registers, the load in flight, the return address,
\* the idle flag, the device accesses and the instruction each came at are
\* those of as many single steps, the interrupt lines tested before each.
IopChainAgrees == chain.stale = {} => chain.agreed
\* A chain retires no more than it was given, and something always.
IopBudgetKept == chain.n >= 1 /\ chain.n <= chain.budget
\* A chain runs no code that was out of date when it was dispatched.
IopStaleWithin == chain.stale \subseteq chain.wrote
\* Every jump between blocks is in the books of the live block it lands in,
\* or waits for one that does not exist; the dispatcher finds live blocks.
IopLinksWhole ==
    /\ \A x \in DOMAIN iop_cache.links :
          LET t == iop_cache.links[x].target  at == iop_cache.links[x].at
          IN IF at = 0 THEN iop_cache.by_pc[t] = 0 /\ x \in iop_cache.pending[t]
             ELSE at = iop_cache.by_pc[t] /\ x \in iop_cache.blocks[at].incoming
    /\ \A v \in IopVirtual :
          LET f == Lookup(iop_cache, v)
          IN f # 0 => iop_cache.blocks[f].valid /\ iop_cache.blocks[f].pc = v

\* The IOP's translations as one promise.
IopCodeExact == IopChainAgrees /\ IopBudgetKept /\ IopStaleWithin /\ IopLinksWhole
=============================================================================
