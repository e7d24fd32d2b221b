-------------------------------- MODULE VuAlu --------------------------------
(***************************************************************************)
(* The vector unit's data path, as vu1.rs computes it and as vu1_jit emits *)
(* it.  A float is a sign, an exponent and a mantissa of two bits each; the*)
(* host's arithmetic is any function of its operands, the same for both.   *)
(* Opcodes are those of the encoding; the second table is written 64 up.   *)
(***************************************************************************)
EXTENDS Integers, Sequences, FiniteSets

CONSTANTS
    Qwords,                 \* data memory, in quadwords
    ViRegs,                 \* integer registers; a field names twice as many
    VuFiles,                \* register files to start from
    VuFirst, VuSecond       \* instructions tried first, and after those

VARIABLES vu_interp, vu_native, vu_steps

vu_alu == <<vu_interp, vu_native, vu_steps>>

VuLane == 0 .. 3
MaxFinite == 11   MinNormal == 4
Sign(p) == p \div 16   Mag(p) == p % 16
InRange(p) == Mag(p) = 0 \/ Mag(p) \in MinNormal .. MaxFinite
Host(op, a, b) == (3 * a + 5 * b + (IF op = "mul" THEN 7 ELSE IF op = "sub" THEN 1 ELSE 0)) % 32
InDest(d, f) == (d \div (2 ^ (3 - f))) % 2 = 1
Bcast(v, k) == [f \in VuLane |-> v[k]]
All(x) == [f \in VuLane |-> x]
Bits(S) == [f \in VuLane |-> IF f \in S THEN 1 ELSE 0]
Num4(b) == 8 * b[0] + 4 * b[1] + 2 * b[2] + b[3]
Masked(d, old, new) == [f \in VuLane |-> IF InDest(d, f) THEN new[f] ELSE old[f]]

(***************************************************************************)
(* The interpreter's FMACs.                                                *)
(***************************************************************************)
VuNum(p) == IF Mag(p) \div 4 = 3 THEN 16 * Sign(p) + MaxFinite ELSE IF Mag(p) \div 4 = 0 THEN 16 * Sign(p) ELSE p
\* Status: Z and S, two bits this code never sets, and their sticky copies.
BadSticky(v, mac) ==
    LET st == (v.status % 16) - (v.status % 4) + (IF mac % 16 # 0 THEN 1 ELSE 0) + (IF mac \div 16 # 0 THEN 2 ELSE 0)
    IN st + 16 * st
Sticky(v, mac) ==
    LET st == (v.status % 16) - (v.status % 4) + (IF mac % 16 # 0 THEN 1 ELSE 0) + (IF mac \div 16 # 0 THEN 2 ELSE 0)
        kept == v.status \div 16
    IN st + 16 * Num4([f \in VuLane |-> IF (st \div (2 ^ (3 - f))) % 2 = 1 \/ (kept \div (2 ^ (3 - f))) % 2 = 1 THEN 1 ELSE 0])
UpdateFlags(v, d, vals) ==
    LET mac == Num4(Bits({ f \in VuLane : InDest(d, f) /\ Mag(vals[f]) = 0 }))
               + 16 * Num4(Bits({ f \in VuLane : InDest(d, f) /\ Sign(vals[f]) = 1 }))
    IN [v EXCEPT !.mac = mac, !.status = Sticky(v, mac)]
VfWriteRaw(v, r, d, vals) == IF r = 0 THEN v ELSE [v EXCEPT !.vf[r] = Masked(d, @, vals)]
VfWrite(v, r, d, vals) ==
    LET n == [f \in VuLane |-> VuNum(vals[f])] IN UpdateFlags(VfWriteRaw(v, r, d, n), d, n)
AccWrite(v, d, vals) ==
    LET n == [f \in VuLane |-> VuNum(vals[f])] IN UpdateFlags([v EXCEPT !.acc = Masked(d, @, n)], d, n)

\* The tables, in groups of four and then one by one.
Group(op) == << "add", "sub", "madd", "msub", "max", "mini", "mul" >>[(op \div 4) + 1]
Single == << "mulq", "maxi", "muli", "minii", "addq", "maddq", "addi", "maddi", "subq", "msubq", "subi", "msubi",
             "add", "madd", "mul", "max", "sub", "msub", "opm", "mini" >>
Second(op, name) == CASE op < 28 -> "bc" [] name \in {"mulq", "addq", "maddq", "subq", "msubq"} -> "q"
                         [] name \in {"maxi", "muli", "minii", "addi", "maddi", "subi", "msubi"} -> "i" [] OTHER -> "t"
Stem(name) == CASE name \in {"mulq", "muli"} -> "mul" [] name \in {"addq", "addi"} -> "add" [] name \in {"subq", "subi"} -> "sub"
                [] name \in {"maddq", "maddi"} -> "madd" [] name \in {"msubq", "msubi"} -> "msub"
                [] name = "maxi" -> "max" [] name = "minii" -> "mini" [] OTHER -> name
Result(stem, s, b, a) ==
    [f \in VuLane |-> CASE stem \in {"add", "sub", "mul"} -> Host(stem, s[f], b[f])
                      [] stem = "madd" -> Host("add", a[f], Host("mul", s[f], b[f]))
                      [] stem = "msub" -> Host("sub", a[f], Host("mul", s[f], b[f]))
                      [] stem = "max" -> IF s[f] >= b[f] THEN s[f] ELSE b[f]
                      [] stem = "mini" -> IF s[f] <= b[f] THEN s[f] ELSE b[f]]
Cross(s, t) == [f \in VuLane |-> IF f = 3 THEN 0 ELSE Host("mul", s[(f + 1) % 3], t[(f + 2) % 3])]
Above(p, w) == Sign(p) = 0 /\ Mag(p) > w
Below(p, w) == Sign(p) = 1 /\ Mag(p) > w
Clip(v, s, t) ==
    LET w == Mag(t[3])
        bit(f, n) == IF (IF n = 0 THEN Above(s[f], w) ELSE Below(s[f], w)) THEN 2 ^ (2 * f + n) ELSE 0
        j == bit(0, 0) + bit(0, 1) + bit(1, 0) + bit(1, 1) + bit(2, 0) + bit(2, 1)
    IN [v EXCEPT !.clip = (@ * 64 + j) % 4096]
Scalar(v, src, t, op) ==
    CASE src = "bc" -> Bcast(t, op % 4) [] src = "q" -> All(v.q) [] src = "i" -> All(v.i) [] src = "t" -> t
ExecUpperAlu(v, x) ==
    LET s == v.vf[x.s]  t == v.vf[x.t]  op == x.n % 64
        name == IF op < 28 THEN Group(op) ELSE Single[op - 27]
        r == Result(Stem(name), s, Scalar(v, Second(op, name), t, op), v.acc)
    IN CASE x.n < 64 /\ name = "opm" ->
              VfWrite(v, x.d, x.dest - (x.dest % 2), [f \in VuLane |-> Host("sub", v.acc[f], Cross(s, t)[f])])
         [] x.n < 64 /\ Stem(name) \in {"max", "mini"} -> VfWriteRaw(v, x.d, x.dest, r)
         [] x.n < 64 /\ name # "opm" /\ Stem(name) \notin {"max", "mini"} -> VfWrite(v, x.d, x.dest, r)
         [] x.n \in 80 .. 87 -> v                       \* ITOF, FTOI: see Lower
         [] x.n = 93 -> VfWriteRaw(v, x.t, x.dest, [f \in VuLane |-> Mag(s[f])])
         [] x.n = 95 -> Clip(v, s, t)
         [] x.n = 110 -> AccWrite(v, x.dest - (x.dest % 2), Cross(s, t))
         [] x.n \in {107, 111} -> v
         [] x.n >= 64 /\ x.n \notin (80 .. 87) \cup {93, 95, 107, 110, 111} -> AccWrite(v, x.dest, r)

(***************************************************************************)
(* What is emitted for them.  Anything else goes to the interpreter.       *)
(***************************************************************************)
FmacOp(op) ==
    CASE op \in 0 .. 3 -> <<"add", "bc">> [] op \in 4 .. 7 -> <<"sub", "bc">> [] op \in 8 .. 11 -> <<"madd", "bc">>
      [] op \in 12 .. 15 -> <<"msub", "bc">> [] op \in 24 .. 27 -> <<"mul", "bc">>
      [] op = 28 -> <<"mul", "q">> [] op = 30 -> <<"mul", "i">> [] op = 32 -> <<"add", "q">> [] op = 33 -> <<"madd", "q">>
      [] op = 34 -> <<"add", "i">> [] op = 35 -> <<"madd", "i">> [] op = 36 -> <<"sub", "q">> [] op = 37 -> <<"msub", "q">>
      [] op = 38 -> <<"sub", "i">> [] op = 39 -> <<"msub", "i">> [] op = 40 -> <<"add", "t">> [] op = 41 -> <<"madd", "t">>
      [] op = 42 -> <<"mul", "t">> [] op = 44 -> <<"sub", "t">> [] op = 45 -> <<"msub", "t">>
      [] OTHER -> <<>>
EmitVuNum(p) ==
    LET over == Mag(p) > MaxFinite  small == MinNormal > Mag(p)
    IN 16 * Sign(p) + (IF over \/ small THEN 0 ELSE Mag(p)) + (IF over THEN MaxFinite ELSE 0)
\* The lanes turned round, so that movmskps puts x in the high bit.
MoveMask(b) == b[0] + 2 * b[1] + 4 * b[2] + 8 * b[3]
Turned(b) == [f \in VuLane |-> b[3 - f]]
AndDest(d, m) == Num4([f \in VuLane |-> IF InDest(d, f) /\ InDest(m, f) THEN 1 ELSE 0])
EmitFlags(v, d, x) ==
    LET mac == AndDest(d, MoveMask(Turned(Bits({ f \in VuLane : Mag(x[f]) = 0 }))))
               + 16 * AndDest(d, MoveMask(Turned(Bits({ f \in VuLane : Sign(x[f]) = 1 }))))
    IN [v EXCEPT !.mac = mac, !.status = Sticky(v, mac)]
EmitUpper(v, x) ==
    LET k == FmacOp(x.n % 64)
        r == Result(k[1], v.vf[x.s], Scalar(v, k[2], v.vf[x.t], x.n), v.acc)
        n == [f \in VuLane |-> EmitVuNum(r[f])]
        w == EmitFlags(v, x.dest, n)
    IN CASE k = <<>> -> ExecUpperAlu(v, x)
         [] k # <<>> /\ x.n >= 64 -> [w EXCEPT !.acc = Masked(x.dest, @, n)]
         [] k # <<>> /\ x.n < 64 -> IF x.d = 0 THEN w ELSE [w EXCEPT !.vf[x.d] = Masked(x.dest, @, n)]

(***************************************************************************)
(* Loads, stores and the integer unit.  Integer registers are five bits;   *)
(* the interpreter extends their sign for an address, the emitted code     *)
(* does not.                                                               *)
(***************************************************************************)
Signed(x) == IF x >= 16 THEN x - 32 ELSE x
Vi(v, r) == v.vi[r % ViRegs]
ViPut(v, r, x) == IF r % ViRegs = 0 THEN v ELSE [v EXCEPT !.vi[r % ViRegs] = x % 32]
FieldIndex(d) == CASE d = 8 -> 0 [] d = 4 -> 1 [] d = 2 -> 2 [] OTHER -> 3
Qw(v, a) == v.data[a % Qwords]
QwPut(v, a, d, vals) == [v EXCEPT !.data[a % Qwords] = Masked(d, @, vals)]
Divided(n, d) ==
    IF Mag(d) = 0 THEN IF Sign(n) # Sign(d) THEN 16 + MaxFinite ELSE MaxFinite ELSE Host("mul", n, d)
Imm5(d) == IF d >= 2 THEN d - 4 ELSE d
IntOp(v, x) == CASE x.op = "iadd" -> Vi(v, x.s) + Vi(v, x.t) [] x.op = "isub" -> Vi(v, x.s) - Vi(v, x.t)
ExecLowerAlu(v, x) ==
    CASE x.op = "lq" -> VfWriteRaw(v, x.t, x.dest, Qw(v, Signed(Vi(v, x.s)) + x.imm))
      [] x.op = "sq" -> QwPut(v, Signed(Vi(v, x.t)) + x.imm, x.dest, v.vf[x.s])
      [] x.op = "ilw" -> ViPut(v, x.t, Qw(v, Signed(Vi(v, x.s)) + x.imm)[FieldIndex(x.dest)])
      [] x.op = "isw" -> QwPut(v, Signed(Vi(v, x.s)) + x.imm, 2 ^ (3 - FieldIndex(x.dest)), All(Vi(v, x.t)))
      [] x.op = "ilwr" -> ViPut(v, x.t, Qw(v, Vi(v, x.s))[FieldIndex(x.dest)])
      [] x.op = "iswr" -> QwPut(v, Vi(v, x.s), 2 ^ (3 - FieldIndex(x.dest)), All(Vi(v, x.t)))
      [] x.op = "lqi" -> LET w == VfWriteRaw(v, x.t, x.dest, Qw(v, Vi(v, x.s))) IN ViPut(w, x.s, Vi(v, x.s) + 1)
      [] x.op = "sqi" -> ViPut(QwPut(v, Vi(v, x.t), x.dest, v.vf[x.s]), x.t, Vi(v, x.t) + 1)
      [] x.op = "lqd" -> LET a == (Vi(v, x.s) - 1) % 32 IN VfWriteRaw(ViPut(v, x.s, a), x.t, x.dest, Qw(v, a))
      [] x.op = "sqd" -> LET a == (Vi(v, x.t) - 1) % 32 IN QwPut(ViPut(v, x.t, a), a, x.dest, v.vf[x.s])
      [] x.op = "move" -> VfWriteRaw(v, x.t, x.dest, v.vf[x.s])
      [] x.op = "mr32" -> VfWriteRaw(v, x.t, x.dest, [f \in VuLane |-> v.vf[x.s][(f + 1) % 4]])
      [] x.op \in {"iadd", "isub"} -> ViPut(v, x.d, IntOp(v, x))
      [] x.op = "iaddi" -> ViPut(v, x.t, Vi(v, x.s) + Imm5(x.d))
      [] x.op = "xtop" -> ViPut(v, x.t, v.top)
      [] x.op = "div" -> [v EXCEPT !.q = VuNum(Divided(v.vf[x.s][x.imm], v.vf[x.t][x.imm]))]

Shufps(w, sel) == [f \in VuLane |-> w[(sel \div (4 ^ f)) % 4]]
DataAddr(v, r, imm) == (Vi(v, r) + imm) % Qwords
PreDec(v, r) == [v |-> ViPut(v, r, Vi(v, r) - 1), at |-> (Vi(v, r) - 1) % Qwords]
LoadTo(v, x, a) == IF x.t = 0 THEN v ELSE [v EXCEPT !.vf[x.t] = Masked(x.dest, @, v.data[a])]
StoreFrom(v, x, a) == [v EXCEPT !.data[a] = Masked(x.dest, @, v.vf[x.s])]
Bump(v, r) == ViPut(v, r, Vi(v, r) + 1)
IntTo(v, x, a) == ViPut(v, x.t, v.data[a][FieldIndex(x.dest)])
IntFrom(v, x, a) == [v EXCEPT !.data[a][FieldIndex(x.dest)] = Vi(v, x.t)]
EmitLower(v, x) ==
    CASE x.op = "lq" -> LoadTo(v, x, DataAddr(v, x.s, x.imm))
      [] x.op = "sq" -> StoreFrom(v, x, DataAddr(v, x.t, x.imm))
      [] x.op = "ilw" -> IntTo(v, x, DataAddr(v, x.s, x.imm))
      [] x.op = "isw" -> IntFrom(v, x, DataAddr(v, x.s, x.imm))
      [] x.op = "ilwr" -> IntTo(v, x, DataAddr(v, x.s, 0))
      [] x.op = "iswr" -> IntFrom(v, x, DataAddr(v, x.s, 0))
      [] x.op = "lqi" -> Bump(LoadTo(v, x, DataAddr(v, x.s, 0)), x.s)
      [] x.op = "sqi" -> Bump(StoreFrom(v, x, DataAddr(v, x.t, 0)), x.t)
      [] x.op = "lqd" -> LET p == PreDec(v, x.s) IN LoadTo(p.v, x, p.at)
      [] x.op = "sqd" -> LET p == PreDec(v, x.t) IN StoreFrom(p.v, x, p.at)
      [] x.op = "move" -> IF x.t = 0 THEN v ELSE [v EXCEPT !.vf[x.t] = Masked(x.dest, @, v.vf[x.s])]
      [] x.op = "mr32" -> IF x.t = 0 THEN v
                          ELSE [v EXCEPT !.vf[x.t] = Masked(x.dest, @, Shufps(v.vf[x.s], 57))]
      [] OTHER -> ExecLowerAlu(v, x)

VuAluInit == /\ vu_interp \in VuFiles /\ vu_native = vu_interp /\ vu_steps = <<>>
VuAluNext ==
    /\ Len(vu_steps) < 2
    /\ \E x \in IF vu_steps = <<>> THEN VuFirst ELSE VuSecond :
          /\ vu_steps' = Append(vu_steps, x)
          /\ vu_interp' = IF x.op = "fmac" THEN ExecUpperAlu(vu_interp, x) ELSE ExecLowerAlu(vu_interp, x)
          /\ vu_native' = IF x.op = "fmac" THEN EmitUpper(vu_native, x) ELSE EmitLower(vu_native, x)

(***************************************************************************)
(* Properties.                                                             *)
(***************************************************************************)
\* The recompiler leaves the registers, the accumulator, the flags and the
\* data memory the interpreter leaves, for wild bit patterns too.
VuDataAgrees == vu_interp = vu_native
\* "The PS2 has no NaN or infinity": whatever reaches the accumulator and Q
\* is in range, though loads bring any bits into the registers.
VuStaysInRange == (\A f \in VuLane : InRange(vu_interp.acc[f])) /\ InRange(vu_interp.q)
\* A sticky flag is up from the first FMAC that raised it on.
VuStickyStays == [][ \A b \in 0 .. 3 : (vu_interp.status \div 2 ^ (4 + b)) % 2 = 1 =>
                        (vu_interp'.status \div 2 ^ (4 + b)) % 2 = 1 ]_vu_alu

\* VU1's data paths as one promise.
VuDataExact == []VuDataAgrees /\ []VuStaysInRange /\ VuStickyStays
=============================================================================
