------------------------------- MODULE MCCode -------------------------------
\* The recompilers: the EE's and the IOP's blocks, the EE's arithmetic and
\* multimedia instructions, VU1's micro programs and its data paths; and what
\* the host does to running code: cheats, the debugger, the window's worker.
\* Each behaviour drives one of them, `part`.
EXTENDS EeJit, IopJit, EeAlu, EeMmi, Vu1, VuAlu, Worker

VARIABLE part

I(op, d, s, a) == [op |-> op, d |-> d, s |-> s, a |-> a, v |-> <<>>]
Nop == I("nop", 0, 0, 0)
Add(d, s) == I("add", d, s, 0)
Mul(d, s) == I("mult", d, s, 0)
Ld(d, s, a) == I("ld", d, s, a)
Sw(a, i) == [op |-> "sw", d |-> 0, s |-> 1, a |-> a, v |-> i]
J(a) == I("j", 0, 0, a)
Op(op) == I(op, 0, 0, 0)

\* Words 0 to 15, two pages; the interrupt handler at 1, the others' at 13;
\* words 16 to 23 show a page again.
Image(f) == [ w \in 0 .. 15 |-> IF w = 1 THEN Mul(2, 2) ELSE IF w \in {2, 14} THEN Op("eret")
                                ELSE IF w \in DOMAIN f THEN f[w] ELSE Nop ]
MCText ==
    { \* couples, a likely branch with a trap in its slot, a run across the page
      Image((4 :> Add(1, 1)) @@ (5 :> Add(2, 2)) @@ (6 :> I("bnel", 0, 1, 9)) @@ (7 :> Op("syscall"))
            @@ (8 :> Add(1, 2)) @@ (9 :> Ld(2, 1, 4)) @@ (10 :> I("bne", 0, 2, 4)) @@ (11 :> Mul(1, 1))
            @@ (12 :> J(4)) @@ (13 :> Add(1, 1))),
      \* the idle loop, and straight code entered at either half of a couple
      Image((4 :> I("b", 0, 0, 3)) @@ (8 :> Add(1, 1)) @@ (9 :> Add(2, 1)) @@ (10 :> Add(1, 2))
            @@ (11 :> Ld(2, 2, 4)) @@ (12 :> J(9)) @@ (13 :> Add(2, 2))) }
    \cup \* code that patches a block it is linked to, with a syscall between or without
    { Image((4 :> Sw(9, Mul(1, 1))) @@ (5 :> sync) @@ (6 :> J(8)) @@ (7 :> Add(1, 1)) @@ (8 :> Add(2, 1))
            @@ (9 :> Add(1, 2)) @@ (10 :> I("jr", 0, 0, 20)) @@ (12 :> J(4)) @@ (13 :> Op("epc"))) :
      sync \in {Op("syscall"), Nop} }
MCPatches == {[at |-> 9, i |-> Mul(1, 1)], [at |-> 9, i |-> Add(1, 2)], [at |-> 10, i |-> Nop], [at |-> 4, i |-> J(9)]}

\* The IOP: the handler at 1 acknowledges and returns by an rfe in a delay slot.
IopImage(f) == [ w \in 0 .. 15 |-> CASE w = 1 -> I("in", 2, 0, 0) [] w = 2 -> I("jr", 0, 0, 0) [] w = 3 -> Op("rfe")
                                     [] w > 3 -> IF w \in DOMAIN f THEN f[w] ELSE Nop [] OTHER -> Nop ]
MCIopText ==
    { \* loads in flight: under use, merged, overwritten, in a slot, at a page's end
      IopImage((4 :> I("ld", 1, 0, 12)) @@ (5 :> Add(2, 1)) @@ (6 :> I("lwl", 1, 0, 0)) @@ (7 :> I("lwr", 1, 0, 0))
               @@ (8 :> Add(1, 1)) @@ (9 :> I("ld", 2, 0, 4)) @@ (10 :> I("bne", 0, 1, 4)) @@ (11 :> I("lwl", 2, 0, 0))
               @@ (12 :> I("ld", 1, 0, 4)) @@ (13 :> I("jal", 1, 0, 4)) @@ (14 :> I("mfc0", 2, 0, 0))),
      \* device accesses with interrupts unmasked, one in a slot, the other mirror
      IopImage((4 :> I("mtc0", 0, 2, 0)) @@ (5 :> Op("out")) @@ (6 :> Mul(0, 1)) @@ (7 :> I("in", 1, 0, 0))
               @@ (8 :> Add(2, 1)) @@ (9 :> I("j", 0, 0, 20)) @@ (10 :> Op("out"))),
      \* code patching a block it is linked to
      IopImage((4 :> Add(2, 1)) @@ (5 :> I("j", 0, 0, 8)) @@ (6 :> Mul(0, 2)) @@ (8 :> Add(2, 1)) @@ (9 :> Add(1, 2))
               @@ (10 :> I("bne", 0, 2, 12)) @@ (12 :> Sw(9, I("mfhi", 1, 0, 0))) @@ (13 :> I("j", 0, 0, 24))),
      \* an exception in a slot
      IopImage((4 :> Add(1, 2)) @@ (5 :> I("bne", 0, 1, 9)) @@ (6 :> Op("syscall"))),
      \* the idle thread, and a branch in a delay slot
      IopImage((4 :> I("mtc0", 0, 2, 0)) @@ (5 :> I("bne", 0, 1, 9)) @@ (6 :> Add(1, 1)) @@ (7 :> J(7)) @@ (9 :> J(7))
               @@ (10 :> I("bne", 0, 2, 4))) }
MCIopPatches == {[at |-> 9, i |-> I("ld", 1, 0, 4)], [at |-> 10, i |-> Op("out")], [at |-> 5, i |-> I("j", 0, 0, 8)]}

MCFactors == { << 1, 2, 3, 4, 5, 6, 7, 8 >>, << 3, -5, 0, 11, -2, 1, 9, 4 >> }
MCValues == {0, 1, 7, 8, 15, 16, 127, 128, 136, 255}

\* VU1: micro programs, and pairs of instructions on register files.
LowOp(op, d, s, t) == [op |-> op, d |-> d, s |-> s, t |-> t]
Pair(u, l, e) == [u |-> u, l |-> l, e |-> e, i |-> FALSE]
VNop == LowOp("nop", 0, 0, 0)
Const(u, t) == [u |-> u, l |-> LowOp("b", 0, 0, t), e |-> FALSE, i |-> TRUE]
End == Pair("nop", VNop, TRUE)
Prog(f) == [ p \in Pcs |-> IF p \in DOMAIN f THEN f[p] ELSE End ]

Writers == { LowOp("iadd", 1, 1, 0), LowOp("ilw", 1, 0, 0), LowOp("fmand", 1, 0, 0) }
Readers == { LowOp("ibne", 1, 0, 0), LowOp("ibne", 2, 1, 5), LowOp("jr", 0, 1, 0), LowOp("jalr", 1, 1, 0) }
Slots == { LowOp("mtir", 2, 0, 0), LowOp("xgkick", 0, 1, 0), LowOp("ibne", 1, 0, 6) }
MCVuUploads ==
    { Prog((0 :> Pair("add", LowOp("iadd", 1, 1, 0), FALSE)) @@ (1 :> Pair("add", LowOp("ibne", 1, 2, 3), FALSE))
           @@ (2 :> Pair("add", LowOp("mtir", 2, 0, 0), FALSE)) @@ (3 :> Pair("nop", LowOp("ibne", 2, 1, 0), FALSE))),
      Prog((0 :> Pair("add", VNop, FALSE)) @@ (1 :> Const("addi", 2)) @@ (2 :> Pair("add", LowOp("fmand", 1, 0, 0), FALSE))
           @@ (3 :> Pair("nop", LowOp("fmand", 2, 0, 0), FALSE)) @@ (4 :> Pair("nop", LowOp("b", 0, 0, 6), TRUE))),
      Prog((0 :> Pair("add", LowOp("bal", 2, 0, 0), FALSE)) @@ (1 :> Pair("add", LowOp("xgkick", 0, 2, 0), FALSE))) }
MCVuPrograms ==
    MCVuUploads
    \cup { Prog((0 :> Pair("add", w, FALSE)) @@ (1 :> Pair(u, r, u = "nop")) @@ (2 :> Pair("add", d, e))
                @@ (3 :> Pair("nop", r2, FALSE)) @@ (4 :> Pair("add", w2, FALSE)) @@ (5 :> Const("addi", 3))) :
           w \in Writers, u \in {"nop", "add"}, r \in Readers, d \in Slots, e \in BOOLEAN,
           r2 \in {VNop, LowOp("ibne", 1, 2, 7)}, w2 \in {LowOp("fmand", 2, 0, 0), LowOp("b", 0, 0, 1)} }


U(n, dest, s, t, d) == [op |-> "fmac", n |-> n, dest |-> dest, s |-> s, t |-> t, d |-> d, imm |-> 0]
X(op, dest, s, t, d, imm) == [op |-> op, n |-> 0, dest |-> dest, s |-> s, t |-> t, d |-> d, imm |-> imm]
MCVuFirst ==
    { U(op, e, r[1], r[2], r[3]) : op \in (0 .. 47) \cup (64 .. 111), e \in {15, 9},
                                      r \in {<<1, 2, 3>>, <<2, 2, 2>>} }
    \cup { X(op, e, r[1], r[2], r[3], i) : e \in {15, 6, 1}, i \in {-3, 2}, r \in {<<1, 2, 3>>, <<3, 2, 2>>, <<2, 0, 1>>, <<0, 3, 2>>},
                 op \in {"lq", "sq", "ilw", "isw", "ilwr", "iswr", "lqi", "sqi", "lqd", "sqd", "move", "mr32", "iadd", "isub", "iaddi", "xtop"} }
    \cup { X("div", 15, 1, t, 0, f) : t \in {0, 2, 3}, f \in VuLane }
MCVuSecond == { U(op, 13, 3, 2, 1) : op \in {2, 41, 95, 106, 110} } \cup { X(op, 9, 1, 3, 1, 1) : op \in {"lqi", "isw", "mr32", "div"} }
Quad(a, b, c, d) == [f \in VuLane |-> CASE f = 0 -> a [] f = 1 -> b [] f = 2 -> c [] f = 3 -> d]
MCVuFiles ==
    { [vf |-> [r \in 0 .. 3 |-> CASE r = 0 -> Quad(0, 0, 0, 6) [] r = 1 -> w [] r = 2 -> Quad(3, 19, 6, 0) [] r = 3 -> Quad(8, 27, 31, 12)],
       acc |-> Quad(0, 5, 27, 16), vi |-> [r \in 0 .. 1 |-> IF r = 0 THEN 0 ELSE n], mac |-> 0, status |-> 4, clip |-> 9,
       q |-> 7, i |-> 22, top |-> 21, data |-> [a \in 0 .. 3 |-> Quad(a, 8 * a, 31 - a, 12 + a)]] :
      w \in {Quad(12, 2, 21, 5), Quad(30, 15, 9, 4)}, n \in {0, 18, 31} }

(***************************************************************************)
(* The host around the machine.                                            *)
(***************************************************************************)
Cheat(op, a, v, once, skip) == [op |-> op, at |-> a, v |-> v, once |-> once, skip |-> skip]
Section(name, on, cheats) == [name |-> name, on |-> on, cheats |-> cheats]
MCCheatFiles ==
    { << Section("x", TRUE, << Cheat("cond", 0, 1, FALSE, 2), Cheat("write", 1, 1, TRUE, 0) >>),
         Section("y", FALSE, << Cheat("add", 0, 1, TRUE, 0), Cheat("write", 9, 1, FALSE, 0) >>),
         Section("x", TRUE, << Cheat("cond", 1, 1, TRUE, 1), Cheat("add", 1, 1, FALSE, 0) >>) >>,
      << Section("z", TRUE, << Cheat("cond", 0, 0, FALSE, 1), Cheat("cond", 1, 0, FALSE, 3),
                             Cheat("write", 0, 1, FALSE, 0) >>),
         Section("y", TRUE, << Cheat("write", 1, 1, TRUE, 0), Cheat("add", 0, 1, FALSE, 0) >>) >> }

\* Breakpoints with both clients, or with one of them, an idle loop and
\* interrupts; a watched cell under both of its addresses, or by one of two
\* clients.
Clients(servers, loops, spots, watch) == [servers |-> servers, loops |-> loops, spots |-> spots, watch |-> watch]
MCDebugUses ==
    { Clients({"ee", "iop"}, {}, {1}, {}), Clients({"ee", "iop"}, {}, {}, {<< "iop", "kuseg" >>}) }
    \cup { Clients({t}, {t}, {1, 2}, {}) : t \in DebugTarget }
    \cup { Clients({t}, {}, {}, {t} \X Alias) : t \in DebugTarget }

Using(uses, server) == [uses |-> uses, server |-> server, waits |-> server]
MCSession ==
    { Using({"disc", "cheats", "Reset"}, FALSE), Using({"disc", "Step"}, TRUE),
      Using({"card", "Step", "Reset", "SetRunning", "SaveState", "LoadState", "Quit"}, TRUE) }

\* The EE's arithmetic, plain and by lanes, and VU1's data paths: what a
\* recompiler emits for an instruction computes what the interpreter does.
DataExact == [](ValuesExact /\ LanesCompose /\ LanesAccumulate /\ LanesSelect) /\ VuDataExact

Init ==
    /\ part \in {"jit", "iop", "alu", "pair", "mmi", "code", "data", "cheats", "debug", "worker"}
    /\ VuInit
    /\ part # "code" => micro = (CHOOSE m \in VuUploads : TRUE)
    /\ VuAluInit
    /\ part # "data" => vu_interp = (CHOOSE f \in VuFiles : TRUE)
    /\ JitInit
    /\ part # "jit" => mem = (CHOOSE t \in Text : TRUE) /\ tlb = 0
    /\ IopJitInit
    /\ part # "iop" => iop_ram = (CHOOSE t \in IopText : TRUE)
    /\ PairInit
    /\ part # "pair" => pair.n = 4 /\ ~pair.store /\ pair.at = 0
    /\ MmiInit
    /\ AluInit
    /\ part # "alu" => src.a = 0 /\ src.b = 0 /\ src.lo = 0 /\ src.imm = 0
    /\ HostInit
    /\ part # "cheats" => ~cheats_enabled /\ cheat_table = TableOf(CHOOSE f \in CheatFiles : TRUE)
    /\ part # "debug" => use = (CHOOSE u \in DebugUses : TRUE)
    /\ part # "worker" => /\ session = (CHOOSE s \in Session : TRUE)
                          /\ label = NoImage /\ \A d \in DiscImage : ~cheat_off[d]
values == <<ee_alu, ee_mmi, vu_alu>>
blocks == <<ee_jit, iop_jit, vu_vars>>
vars == <<part, values, blocks, host_vars>>
Next ==
    /\ UNCHANGED part
    /\ \/ /\ \/ part = "jit" /\ JitNext /\ UNCHANGED <<iop_jit, vu_vars>>
             \/ part = "iop" /\ IopJitNext /\ UNCHANGED <<ee_jit, vu_vars>>
             \/ part = "code" /\ VuNext /\ UNCHANGED <<ee_jit, iop_jit>>
          /\ UNCHANGED <<values, host_vars>>
       \/ /\ \/ part = "alu" /\ AluNext /\ UNCHANGED <<ee_mmi, vu_alu>>
             \/ part = "pair" /\ PairNext /\ UNCHANGED <<ee_mmi, vu_alu>>
             \/ part = "mmi" /\ MmiNext /\ UNCHANGED <<ee_alu, vu_alu>>
             \/ part = "data" /\ VuAluNext /\ UNCHANGED <<ee_alu, ee_mmi>>
          /\ UNCHANGED <<blocks, host_vars>>
       \/ /\ \/ part = "cheats" /\ CheatsNext /\ UNCHANGED <<debug_vars, worker_vars>>
             \/ part = "debug" /\ DebugNext /\ UNCHANGED <<cheat_vars, worker_vars>>
             \/ part = "worker" /\ WorkerNext /\ UNCHANGED <<cheat_vars, debug_vars>>
          /\ UNCHANGED <<values, blocks>>
Spec == Init /\ [][Next]_vars
=============================================================================
