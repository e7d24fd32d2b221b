------------------------------- MODULE EeJit -------------------------------
(***************************************************************************)
(* The EE recompiler (ee/jit/mod.rs): its block cache and linked chains    *)
(* against the memory they were translated from and the interpreter they   *)
(* stand for.  Addresses count instruction words: a couple is two, a       *)
(* quadword four.  An instruction is a record: what it does to the         *)
(* registers is kept down to what tells one text from another.             *)
(*                                                                         *)
(* unnoted and last are history.                                           *)
(***************************************************************************)
EXTENDS Naturals, Sequences, FiniteSets, SequencesExt

CONSTANTS
    Words, PageWords,       \* physical words; the page after them is mapped
    MAX_BLOCK, LINK_CELLS, LOOKUP_ENTRIES,
    IntVector, ExcVector,
    Text,                   \* the programs memory may hold
    Patches,                \* what a DMA may put in memory: [at, i]
    Entry, Mapped, Budgets,
    MaxRuns                 \* bound on the dispatches

VARIABLES
    mem, tlb,               \* code; the page the mapped window shows
    cpu,                    \* [pc, next_pc, delay, r, epc, exl, idle]
    irq,
    cache,                  \* blocks and everything that finds them
    flush_needed,           \* Bus::jit_flush_needed
    unnoted,                \* words a DMA changed in the half it does not note
    last, runs

ee_jit == <<mem, tlb, cpu, irq, cache, flush_needed, unnoted, last, runs>>

Virtual == 0 .. Words + PageWords - 1
Phys(v) == IF v < Words THEN v ELSE (tlb * PageWords) + (v % PageWords)
Page(p) == p \div PageWords
LeastOf(S) == CHOOSE x \in S : \A y \in S : x <= y
Machine == cpu @@ [mem |-> mem, pages |-> cache.code_pages, dirty |-> <<>>, n |-> 0, cur |-> 0,
                   in_delay |-> FALSE, out |-> FALSE, wrote |-> {}, stale |-> {}]
Fetch(m, v) == m.mem[Phys(v)]

(***************************************************************************)
(* Instructions: what a couple may be, and what ends a block.              *)
(***************************************************************************)
IsBranch(i) == i.op \in {"j", "jr", "b", "bne", "bnel", "eret"}
IsControl(i) == IsBranch(i) \/ i.op = "syscall"
IssueUse(i) == [reads |-> CASE i.op \in {"add", "ld", "bne", "bnel", "sw"} -> {i.s} [] OTHER -> {},
                write |-> IF i.op \in {"add", "ld"} THEN i.d ELSE 0,
                mem |-> i.op \in {"ld", "sw"},
                branch |-> IsBranch(i),
                pairs |-> i.op \notin {"mult", "epc", "eret", "syscall"}]
DualIssue(first, second) ==
    LET a == IssueUse(first)  b == IssueUse(second)
    IN a.pairs /\ b.pairs /\ ~a.branch /\ ~(a.mem /\ b.mem)
       /\ (a.write = 0 \/ a.write \notin (b.reads \cup {b.write}))

(***************************************************************************)
(* The interpreter.                                                        *)
(***************************************************************************)
Enter(m, vector) == [m EXCEPT !.epc = IF m.in_delay THEN m.cur - 1 ELSE m.cur, !.exl = TRUE,
                              !.pc = vector, !.next_pc = vector + 1, !.delay = FALSE]
BranchTo(m, target) == [m EXCEPT !.next_pc = target, !.delay = TRUE]
BranchCond(m, taken, target, likely) ==
    IF taken THEN BranchTo(m, target)
    ELSE IF likely THEN [m EXCEPT !.pc = m.next_pc, !.next_pc = m.next_pc + 1]
    ELSE [m EXCEPT !.delay = TRUE]
IdleLoop(m, a, target) == target <= a /\ \A v \in target .. a + 1 : v # a => Fetch(m, v).op = "nop"
\* note_ram_write: the couple is queued when its page holds translated code.
Note(dirty, pages, p) ==
    IF pages[Page(p)] /\ (dirty = <<>> \/ Last(dirty) # p \div 2)
    THEN Append(dirty, p \div 2) ELSE dirty
Store(m, i) == [m EXCEPT !.mem[i.a] = i.v, !.dirty = Note(m.dirty, m.pages, i.a), !.wrote = @ \cup {i.a}]

Execute(m, i) ==
    CASE i.op = "nop" -> m
      [] i.op \in {"add", "mult"} -> [m EXCEPT !.r[i.d] = (m.r[i.s] + 1) % 2]
      [] i.op = "ld" -> [m EXCEPT !.r[i.d] = IF m.mem[i.a].op = "nop" THEN 0 ELSE 1]
      [] i.op = "sw" -> Store(m, i)
      [] i.op \in {"j", "jr"} -> BranchTo(m, i.a)
      [] i.op = "b" -> [BranchTo(m, i.a) EXCEPT !.idle = m.idle \/ IdleLoop(m, m.cur, i.a)]
      [] i.op = "bne" -> BranchCond(m, m.r[i.s] # 0, i.a, FALSE)
      [] i.op = "bnel" -> BranchCond(m, m.r[i.s] # 0, i.a, TRUE)
      [] i.op = "syscall" -> Enter(m, ExcVector)
      [] i.op = "epc" -> [m EXCEPT !.epc = @ + 1]  \* mtc0
      [] i.op = "eret" -> [m EXCEPT !.pc = m.epc, !.next_pc = m.epc + 1, !.exl = FALSE]

\* A fetched instruction, wherever it is fetched from.
Issue(m) == Execute([m EXCEPT !.cur = m.pc, !.pc = m.next_pc, !.next_pc = m.next_pc + 1], Fetch(m, m.pc))
InterruptPending(m) == irq /\ ~m.exl
\* step: the interrupt is taken and its handler's first instruction runs; a
\* couple retires together.
Retire(i0, m1) ==
    IF ~i0.delay /\ i0.pc % 2 = 0 /\ DualIssue(Fetch(i0, i0.pc), Fetch(m1, i0.pc + 1)) THEN Issue(m1) ELSE m1
Proceed(i0) == Retire(i0, Issue([i0 EXCEPT !.in_delay = i0.delay, !.delay = FALSE]))
Step(m0) ==
    Proceed(IF InterruptPending(m0)
            THEN Enter([m0 EXCEPT !.cur = m0.pc, !.in_delay = m0.delay], IntVector) ELSE m0)
\* One instruction as the interpreter would run it at a, for a block.
ExecAt(m, a, i, in_delay) ==
    Execute([m EXCEPT !.cur = a, !.in_delay = in_delay, !.delay = FALSE,
                      !.pc = a + 1, !.next_pc = a + 2], i)
Diverted(m, a) == m.delay \/ m.pc # a + 1 \/ m.idle

RECURSIVE Interpret(_, _)
Interpret(m, n) == IF n = 0 THEN m ELSE Interpret(Step(m), n - 1)

(***************************************************************************)
(* Translation.                                                            *)
(***************************************************************************)
BadLastOf(pc) ==
    LeastOf({ k \in 1 .. MAX_BLOCK + 1 :
        \/ IsControl(Fetch(Machine, pc + k - 1))
        \/ k >= MAX_BLOCK
        \/ (pc + k) % PageWords = 0 })
\* The instructions up to the one that ends the block.
LastOf(pc) ==
    LeastOf({ k \in 1 .. MAX_BLOCK + 1 :
        \/ IsControl(Fetch(Machine, pc + k - 1))
        \/ (k >= MAX_BLOCK /\ (pc + k) % 2 = 0)
        \/ (pc + k) % PageWords = 0 })
Free(pc, k) ==
    k > 1 /\ (pc + k - 1) % 2 = 1 /\ DualIssue(Fetch(Machine, pc + k - 2), Fetch(Machine, pc + k - 1))
Cycles(pc, k) == k - Cardinality({ j \in 1 .. k : Free(pc, j) })

\* What the exits of a block that ends in i at a are: name and target.
ExitsOf(i, a, native) ==
    IF ~IsControl(i) THEN {<<"to", a + 1>>}
    ELSE IF ~native \/ i.op = "jr" THEN {}
    ELSE IF i.op = "j" THEN {<<"taken", i.a>>}
    ELSE {<<"fall", a + 2>>}
         \cup (IF i.op = "bnel" THEN {<<"skip", a + 2>>} ELSE {})
         \cup (IF i.op = "b" /\ IdleLoop(Machine, a, i.a) THEN {} ELSE {<<"taken", i.a>>})
Translate(pc) ==
    LET k == LastOf(pc)  a == pc + k - 1  i == Fetch(Machine, a)
        native == IsBranch(i) /\ ~IsBranch(Fetch(Machine, a + 1)) /\ i.op # "eret"
        n == IF native THEN k + 1 ELSE k
    IN [pc |-> pc, text |-> [ j \in 1 .. n |-> Fetch(Machine, pc + j - 1) ],
        cycles |-> [ j \in 1 .. n |-> IF j > k THEN Cycles(pc, k) + 1 ELSE Cycles(pc, j) ],
        native |-> native, exits |-> ExitsOf(i, a, native),
        idle |-> i.op = "b" /\ IdleLoop(Machine, a, i.a),
        phys |-> <<Phys(pc), Phys(pc + n - 1) + 1>>, incoming |-> {}, valid |-> TRUE]

(***************************************************************************)
(* The cache.  A cell is [own, name, target, at]: at is the block it jumps *)
(* to, 0 for the slow path of the block that owns it.                      *)
(***************************************************************************)
Empty == [blocks |-> <<>>, by_pc |-> [v \in Virtual |-> 0], lookup |-> [s \in 0 .. LOOKUP_ENTRIES - 1 |-> 0],
          page_blocks |-> [p \in 0 .. Page(Words) - 1 |-> {}], code_pages |-> [p \in 0 .. Page(Words) - 1 |-> FALSE],
          dirty |-> <<>>, cells |-> <<>>, pending |-> [v \in Virtual |-> {}]]

\* A block goes: whoever links to it takes its own slow path and waits.
BadDrop(c, b) ==
    [c EXCEPT !.blocks[b].valid = FALSE, !.blocks[b].incoming = {}, !.by_pc[c.blocks[b].pc] = 0,
              !.pending[c.blocks[b].pc] = @ \cup c.blocks[b].incoming]
Drop(c, b) ==
    LET in == c.blocks[b].incoming
    IN [c EXCEPT !.blocks[b].valid = FALSE, !.blocks[b].incoming = {}, !.by_pc[c.blocks[b].pc] = 0,
                 !.cells = [ x \in DOMAIN @ |-> IF x \in in THEN [@[x] EXCEPT !.at = 0] ELSE @[x] ],
                 !.pending[c.blocks[b].pc] = @ \cup in]
Covers(b, couple) == b.phys[1] < 2 * couple + 2 /\ 2 * couple < b.phys[2]
InvalidateOne(c, couple) ==
    LET page == Page(2 * couple)
        here == { b \in c.page_blocks[page] : c.blocks[b].valid }
        hit  == { b \in here : Covers(c.blocks[b], couple) }
        d    == FoldLeft(Drop, c, SetToSeq(hit))
    IN IF hit = here THEN [d EXCEPT !.page_blocks[page] = {}, !.code_pages[page] = FALSE] ELSE d
Invalidate(c) == [FoldLeft(InvalidateOne, c, c.dirty) EXCEPT !.dirty = <<>>]
BadFind(c, pc) ==
    LET l == c.lookup[pc % LOOKUP_ENTRIES]
    IN IF l # 0 /\ c.blocks[l].pc = pc THEN l ELSE c.by_pc[pc]
Find(c, pc) ==
    LET l == c.lookup[pc % LOOKUP_ENTRIES]
    IN IF l # 0 /\ c.blocks[l].valid /\ c.blocks[l].pc = pc THEN l ELSE c.by_pc[pc]

\* An exit is wired to its target, or parked on it.
Wire(c, x) ==
    LET cell == c.cells[x]  t == c.by_pc[cell.target]
    IN IF t # 0 THEN [c EXCEPT !.cells[x].at = t, !.blocks[t].incoming = @ \cup {x}]
       ELSE [c EXCEPT !.pending[cell.target] = @ \cup {x}]
\* The exits parked on pc are pointed at its block.
BadUnpark(c, pc) ==
    [c EXCEPT !.cells = [ x \in DOMAIN @ |-> IF x \in c.pending[pc] THEN [@[x] EXCEPT !.at = c.by_pc[pc]] ELSE @[x] ],
              !.pending[pc] = {}]
Unpark(c, pc) ==
    [c EXCEPT !.cells = [ x \in DOMAIN @ |-> IF x \in c.pending[pc] THEN [@[x] EXCEPT !.at = c.by_pc[pc]] ELSE @[x] ],
              !.blocks[c.by_pc[pc]].incoming = @ \cup c.pending[pc], !.pending[pc] = {}]
Install(c, pc, b) ==
    LET idx == Len(c.blocks) + 1
        pages == Page(b.phys[1]) .. Page(b.phys[2] - 1)
        exits == SetToSeq(b.exits)
        new == [ j \in DOMAIN exits |-> [own |-> idx, name |-> exits[j][1], target |-> exits[j][2], at |-> 0] ]
        d == [c EXCEPT !.blocks = Append(@, b), !.by_pc[pc] = idx, !.lookup[pc % LOOKUP_ENTRIES] = idx,
                       !.page_blocks = [ p \in DOMAIN @ |-> IF p \in pages THEN @[p] \cup {idx} ELSE @[p] ],
                       !.code_pages = [ p \in DOMAIN @ |-> @[p] \/ p \in pages ],
                       !.cells = @ \o new]
    IN Unpark(FoldLeft(Wire, d, [ j \in DOMAIN exits |-> Len(c.cells) + j ]), pc)
Compile(c, pc) == Install(IF Len(c.cells) + 3 > LINK_CELLS THEN Empty ELSE c, pc, Translate(pc))

(***************************************************************************)
(* A chain of linked blocks.                                               *)
(***************************************************************************)
CellOf(c, b, name) == LeastOf({ x \in DOMAIN c.cells : c.cells[x].own = b /\ c.cells[x].name = name })
\* One instruction of a block; the texts that are no longer what memory holds
\* are remembered.
Marked(m, a, i) == IF Fetch(m, a) = i THEN m ELSE [m EXCEPT !.stale = @ \cup {Phys(a)}]
Left(b, j, m) ==
    IF (b.text[j].op = "syscall" \/ (IsControl(b.text[j]) /\ ~b.native)) /\ Diverted(m, b.pc + j - 1)
    THEN [m EXCEPT !.out = TRUE, !.n = @ + b.cycles[j]] ELSE m
Emitted(b, j, m) ==
    LET a == b.pc + j - 1
        s == IF Fetch(m, a) = b.text[j] THEN m.stale ELSE m.stale \cup {Phys(a)}
    IN IF m.out THEN m
       ELSE Left(b, j, [ExecAt(m, a, b.text[j], b.native /\ j = Len(b.text)) EXCEPT !.stale = s])
RunText(b, m) == FoldLeftDomain(LAMBDA acc, j : Emitted(b, j, acc), m, b.text)

RECURSIVE EnterBody(_, _, _, _)
\* An exit through a cell: the block linked there, or back to the dispatcher.
Leave(c, b, name, m, budget) ==
    LET x == c.cells[CellOf(c, b, name)]
    IN IF x.at # 0 THEN EnterBody(c, x.at, m, budget)
       ELSE [m EXCEPT !.pc = x.target, !.next_pc = x.target + 1]
AfterSlot(c, idx, taken, slot, budget) ==
    LET b == c.blocks[idx]
        k == Len(b.text)
        i == b.text[k - 1]
        end == [slot EXCEPT !.n = @ + b.cycles[k], !.delay = FALSE]
    IN IF slot.out THEN slot
       ELSE IF i.op = "jr" \/ b.idle
            THEN [end EXCEPT !.pc = i.a, !.next_pc = i.a + 1, !.idle = @ \/ b.idle]
       ELSE Leave(c, idx, IF taken THEN "taken" ELSE "fall", end, budget)
Native(c, idx, pre, budget) ==
    LET b == c.blocks[idx]
        k == Len(b.text)
        i == b.text[k - 1]
        taken == i.op \in {"bne", "bnel"} => pre.r[i.s] # 0
        seen == Marked(pre, b.pc + k - 2, i)
    IN IF pre.out THEN pre
       ELSE IF i.op = "bnel" /\ ~taken
            THEN Leave(c, idx, "skip", [seen EXCEPT !.n = @ + b.cycles[k - 1], !.delay = FALSE], budget)
       ELSE AfterSlot(c, idx, taken, Emitted(b, k, seen), budget)
AfterText(c, idx, e, budget) ==
    LET b == c.blocks[idx]
        end == [e EXCEPT !.n = @ + b.cycles[Len(b.text)]]
    IN IF e.out THEN e
       ELSE IF IsControl(b.text[Len(b.text)]) THEN end
       ELSE Leave(c, idx, "to", end, budget)
EnterBody(c, idx, m, budget) ==
    LET b == c.blocks[idx]
    IN IF m.n >= budget THEN [m EXCEPT !.pc = b.pc, !.next_pc = b.pc + 1]
       ELSE IF b.native
            THEN Native(c, idx, RunText([b EXCEPT !.text = SubSeq(@, 1, Len(@) - 2), !.native = FALSE], m), budget)
       ELSE AfterText(c, idx, RunText(b, m), budget)
RECURSIVE FinishSlot(_)
FinishSlot(m) == IF m.delay THEN FinishSlot([Step(m) EXCEPT !.n = m.n + 1]) ELSE m

JitInit ==
    /\ mem \in Text /\ tlb \in Mapped
    /\ cpu = [pc |-> Entry, next_pc |-> Entry + 1, delay |-> FALSE, r |-> <<0, 0>>, epc |-> Entry,
              exl |-> FALSE, idle |-> FALSE]
    /\ irq = FALSE /\ cache = Empty /\ flush_needed = FALSE
    /\ unnoted = {} /\ runs = 0
    /\ last = [stale |-> {}, wrote |-> {}, agreed |-> TRUE]

Core(m) == [ f \in {"pc", "next_pc", "delay", "r", "epc", "exl", "idle", "mem"} |-> m[f] ]
Stepping == cpu.delay \/ InterruptPending(Machine)
Current(c) == IF Stepping \/ Find(c, cpu.pc) # 0 THEN c ELSE Compile(c, cpu.pc)
Chain(c, m0, budget) ==
    IF Stepping THEN [Step(m0) EXCEPT !.n = 1]
    ELSE FinishSlot(EnterBody(c, Find(c, cpu.pc), m0, budget))
Outcome(c, m0, m) ==
    /\ cache' = [c EXCEPT !.dirty = m.dirty]
    /\ mem' = m.mem
    /\ cpu' = [ f \in DOMAIN cpu |-> m[f] ]
    /\ last' = [stale |-> m.stale, wrote |-> m.wrote, agreed |-> Core(m) = Core(Interpret(m0, m.n))]
RunOn(c, budget) ==
    LET m0 == [Machine EXCEPT !.pages = c.code_pages, !.idle = FALSE]
    IN Outcome(c, m0, Chain(c, m0, budget))
\* Jit::run, and what the interpreter makes of as many cycles.
Dispatch(budget) ==
    /\ runs < MaxRuns
    /\ cpu.idle => InterruptPending(Machine)
    /\ RunOn(Current(IF flush_needed THEN Empty ELSE Invalidate(cache)), budget)
    /\ flush_needed' = FALSE /\ runs' = runs + 1
    /\ UNCHANGED <<tlb, irq, unnoted>>
\* ee_dma_write128: a quadword, noted at its address.
DmaWrite(p) ==
    /\ mem[p.at] # p.i
    /\ mem' = [mem EXCEPT ![p.at] = p.i]
    /\ cache' = [cache EXCEPT !.dirty = Note(@, cache.code_pages, p.at - (p.at % 4))]
    /\ unnoted' = IF p.at % 4 >= 2 THEN unnoted \cup {p.at} ELSE unnoted
    /\ UNCHANGED <<tlb, cpu, irq, flush_needed, last, runs>>
\* ee_tlb_write, between dispatches for want of a kernel in the model.
BadTlbWrite(page) ==
    /\ tlb # page /\ tlb' = page
    /\ UNCHANGED <<mem, cpu, irq, cache, flush_needed, unnoted, last, runs>>
TlbWrite(page) ==
    /\ tlb # page /\ tlb' = page
    /\ flush_needed' = TRUE
    /\ UNCHANGED <<mem, cpu, irq, cache, unnoted, last, runs>>
Line == irq' = ~irq /\ UNCHANGED <<mem, tlb, cpu, cache, flush_needed, unnoted, last, runs>>

JitNext == \/ \E b \in Budgets : Dispatch(b)
           \/ \E p \in Patches : DmaWrite(p)
           \/ \E t \in Mapped : TlbWrite(t)
           \/ Line

(***************************************************************************)
(* Properties.                                                             *)
(***************************************************************************)
Live == { b \in DOMAIN cache.blocks : cache.blocks[b].valid }
Outdated(b) == { Phys(cache.blocks[b].pc + j - 1) : j \in { k \in DOMAIN cache.blocks[b].text :
                    Fetch(Machine, cache.blocks[b].pc + k - 1) # cache.blocks[b].text[k] } }
Queued(w) == \E j \in DOMAIN cache.dirty : cache.dirty[j] = w \div 2

\* Whatever wrote a word of translated code - the program, a DMA, a TLB entry
\* that shows another page - the next dispatch knows of every block it
\* outdates (note_ram_write, invalidate_dirty); the upper half of a quadword
\* of a DMA is the exception CodeKnown states.
StaleQueued == \A b \in Live : \A w \in Outdated(b) : flush_needed \/ Queued(w) \/ w \in unnoted
\* "RAM pages (4 KiB) holding recompiled code; a write to one queues the
\* address in `dirty_code_writes` for the recompiler to drop the blocks
\* covering it."
CodeKnown == \A b \in Live : \A w \in Outdated(b) : flush_needed \/ Queued(w)
\* A chain may run code that was current when it was dispatched and that it
\* has itself overwritten since, and no other.
StaleWithinChain == last.stale \subseteq (last.wrote \cup unnoted)
\* What a chain leaves - registers, memory, the branch it is in, the return
\* address of an exception in a delay slot, the idle flag - is what the
\* interpreter leaves after as many steps as the chain charged cycles:
\* couples, seams of blocks, likely branches and links charge alike.
ChainAgrees == last.stale = {} => last.agreed
\* No exit jumps to a block that is gone, and none takes its slow path while
\* the block it wants is there: every cell is in the books of the one block
\* it jumps to, or waits for one that does not exist.
LinksWhole ==
    \A x \in DOMAIN cache.cells :
        LET t == cache.cells[x].target  at == cache.cells[x].at
        IN IF at = 0 THEN cache.by_pc[t] = 0 /\ x \in cache.pending[t]
           ELSE at = cache.by_pc[t] /\ x \in cache.blocks[at].incoming
\* The dispatcher finds a live block and its own, through either table.
FindsLive ==
    \A v \in Virtual :
        LET f == Find(cache, v)
        IN IF f = 0 THEN \A b \in Live : cache.blocks[b].pc # v
           ELSE f \in Live /\ cache.blocks[f].pc = v

\* The EE's translations as one promise: what is stale is known to be, what
\* runs is what the interpreter would run, and the books of links and lookups
\* are those of the blocks that live.
EeCodeExact == StaleQueued /\ StaleWithinChain /\ ChainAgrees /\ LinksWhole /\ FindsLive
=============================================================================
