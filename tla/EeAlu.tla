------------------------------- MODULE EeAlu -------------------------------
(***************************************************************************)
(* The arithmetic of the EE twice: as the interpreter computes it          *)
(* (ee/mod.rs, ee/fpu.rs) and as the code the recompiler emits computes it *)
(* (ee/jit/emit.rs), on words of H bits and doublewords of 2H.  A float is *)
(* its pattern: sign, two bits of exponent, one of mantissa.  Bytes of     *)
(* unaligned accesses are only told apart.                                 *)
(***************************************************************************)
EXTENDS Integers, Sequences, Bitwise

CONSTANTS H, Values, Immediates

VARIABLES
    src,    \* [a, b, hi, lo, rd, imm, sa]: operands before the instruction
    ran,    \* the instruction
    interp, native,  \* [rd, hi, lo] after it, in each world
    pair    \* an unaligned access in two halves: [n, at, store, half, reg, mem, reg0]

ee_alu == <<src, ran, interp, native, pair>>

W == 2 ^ H
D == 2 ^ (2 * H)
Low(x) == x % W
\* Sign extension of a word, and the number a word or doubleword stands for.
SignedW(x) == IF Low(x) >= W \div 2 THEN Low(x) - W ELSE Low(x)
SignedD(x) == IF x >= D \div 2 THEN x - D ELSE x
Ext(i) == SignedW(i % W) % D
Shl(x, n, modulus) == (x * (2 ^ n)) % modulus
Asr(i, n) == i \div (2 ^ n)
Truth(p) == IF p THEN 1 ELSE 0
Inverted(x) == D - 1 - x
\* Rust's / and %, and x86's idiv: the quotient is cut towards zero.
Magnitude(i) == IF i < 0 THEN -i ELSE i
Quot(n, d) == LET q == Magnitude(n) \div Magnitude(d) IN IF (n < 0) = (d < 0) THEN q ELSE -q
Rem(n, d) == n - (d * Quot(n, d))
HalfWord == 2 ^ (H \div 2)
Simm(imm) == IF imm >= HalfWord \div 2 THEN imm - HalfWord ELSE imm

Same == [rd |-> src.rd, hi |-> src.hi, lo |-> src.lo]
Rd(v) == [Same EXCEPT !.rd = v]
HiLo(h, l) == [Same EXCEPT !.hi = h, !.lo = l]

(***************************************************************************)
(* The interpreter.                                                        *)
(***************************************************************************)
Shifts == {"sll", "srl", "sra", "sllv", "srlv", "srav"}
DShifts == {"dsll", "dsrl", "dsra", "dsllv", "dsrlv", "dsrav", "dsll32", "dsrl32", "dsra32"}
Arith == {"add", "sub", "and", "or", "xor", "nor", "slt", "sltu", "dadd", "dsub", "movz", "movn"}
MulDiv == {"mult", "multu", "div", "divu"}
Imms == {"addi", "slti", "sltiu", "andi", "ori", "xori", "lui", "daddi"}
Conds == {"beq", "bne", "blez", "bgtz", "bltz", "bgez"}

OpShift(op) ==
    LET n == IF op \in {"sllv", "srlv", "srav"} THEN Low(src.a) % H ELSE src.sa
    IN Rd(CASE op \in {"sll", "sllv"} -> Ext(Shl(Low(src.b), n, W))
            [] op \in {"srl", "srlv"} -> Ext(Low(src.b) \div (2 ^ n))
            [] OTHER -> Ext(Asr(SignedW(src.b), n)))
OpDShift(op) ==
    LET n == CASE op \in {"dsll", "dsrl", "dsra"} -> src.sa
               [] op \in {"dsll32", "dsrl32", "dsra32"} -> src.sa + H
               [] OTHER -> Low(src.a) % (2 * H)
    IN Rd(CASE op \in {"dsll", "dsllv", "dsll32"} -> Shl(src.b, n, D)
            [] op \in {"dsrl", "dsrlv", "dsrl32"} -> src.b \div (2 ^ n)
            [] OTHER -> Asr(SignedD(src.b), n) % D)
OpArith(op) ==
    CASE op = "add" -> Rd(Ext(Low(src.a) + Low(src.b)))
      [] op = "sub" -> Rd(Ext(Low(src.a) - Low(src.b)))
      [] op = "and" -> Rd(src.a & src.b)
      [] op = "or" -> Rd(src.a | src.b)
      [] op = "xor" -> Rd(src.a ^^ src.b)
      [] op = "nor" -> Rd(Inverted(src.a | src.b))
      [] op = "slt" -> Rd(Truth(SignedD(src.a) < SignedD(src.b)))
      [] op = "sltu" -> Rd(Truth(src.a < src.b))
      [] op = "dadd" -> Rd((src.a + src.b) % D)
      [] op = "dsub" -> Rd((src.a - src.b) % D)
      [] op = "movz" -> IF src.b = 0 THEN Rd(src.a) ELSE Same
      [] op = "movn" -> IF src.b # 0 THEN Rd(src.a) ELSE Same
Mult(signed) ==
    LET p == IF signed THEN SignedW(src.a) * SignedW(src.b) ELSE Low(src.a) * Low(src.b)
    IN [rd |-> Ext(p), lo |-> Ext(p), hi |-> IF signed THEN (p \div W) % D ELSE Ext(p \div W)]
Div ==
    LET n == SignedW(src.a)  d == SignedW(src.b)
    IN IF d = 0 THEN HiLo(Ext(n), Ext(IF n >= 0 THEN -1 ELSE 1))
       ELSE IF n = -(W \div 2) /\ d = -1 THEN HiLo(0, Ext(n))
       ELSE HiLo(Ext(Rem(n, d)), Ext(Quot(n, d)))
Divu ==
    LET n == Low(src.a)  d == Low(src.b)
    IN IF d = 0 THEN HiLo(Ext(n), Ext(W - 1)) ELSE HiLo(Ext(n % d), Ext(n \div d))
BadMadd(signed) ==
    LET p == IF signed THEN SignedW(src.a) * SignedW(src.b) ELSE Low(src.a) * Low(src.b)
        lo == Low(src.lo) + Low(p)
    IN [rd |-> Ext(lo), lo |-> Ext(lo), hi |-> Ext(Low(src.hi) + (p \div W))]
Madd(signed) ==
    LET acc == (Low(src.hi) * W) + Low(src.lo)
        sum == acc + (IF signed THEN SignedW(src.a) * SignedW(src.b) ELSE Low(src.a) * Low(src.b))
    IN [rd |-> Ext(sum), lo |-> Ext(sum), hi |-> Ext(sum \div W)]
\* pmultw and its kin, one of their two pipes; rd takes the whole.
PWord(op) ==
    LET acc == (Low(src.hi) * W) + Low(src.lo)
        signed == SignedW(src.a) * SignedW(src.b)
        unsigned == Low(src.a) * Low(src.b)
        sum == CASE op = "pmultw" -> signed [] op = "pmultuw" -> unsigned
                 [] op = "pmaddw" -> acc + signed [] op = "pmsubw" -> acc - signed
                 [] op = "pmadduw" -> acc + unsigned
    IN [rd |-> sum % D, lo |-> Ext(sum), hi |-> Ext(sum \div W)]
OpImm(op) ==
    Rd(CASE op = "addi" -> Ext(Low(src.a) + Simm(src.imm))
         [] op = "slti" -> Truth(SignedD(src.a) < Simm(src.imm))
         [] op = "sltiu" -> Truth(src.a < Simm(src.imm) % D)
         [] op = "andi" -> src.a & src.imm
         [] op = "ori" -> src.a | src.imm
         [] op = "xori" -> src.a ^^ src.imm
         [] op = "lui" -> Ext(src.imm * HalfWord)
         [] op = "daddi" -> (src.a + Simm(src.imm)) % D)
Taken(op) ==
    Rd(Truth(CASE op = "beq" -> src.a = src.b [] op = "bne" -> src.a # src.b
               [] op = "blez" -> SignedD(src.a) <= 0 [] op = "bgtz" -> SignedD(src.a) > 0
               [] op = "bltz" -> SignedD(src.a) < 0 [] op = "bgez" -> SignedD(src.a) >= 0))

(***************************************************************************)
(* The recompiler: eax and rax, the flags of cmp, a two-register product.  *)
(***************************************************************************)
Movsxd(e) == IF e % W >= W \div 2 THEN (e % W) + (D - W) ELSE e % W
SfNeOf(x, y, modulus) ==  \* setl: the sign of the exact difference
    LET s(v) == IF v >= modulus \div 2 THEN v - modulus ELSE v IN s(x) - s(y) < 0
EmitShift(op) ==
    LET eax == Low(src.b)
        cl  == IF op \in {"sllv", "srlv", "srav"} THEN Low(src.a) % H ELSE src.sa
        fill == IF eax >= W \div 2 THEN W - (2 ^ (H - cl)) ELSE 0
    IN Rd(Movsxd(CASE op \in {"sll", "sllv"} -> Shl(eax, cl, W)
                   [] op \in {"srl", "srlv"} -> eax \div (2 ^ cl)
                   [] OTHER -> fill + (eax \div (2 ^ cl))))
EmitDShift(op) ==
    LET n == CASE op \in {"dsllv", "dsrlv", "dsrav"} -> Low(src.a) % (2 * H)
               [] OTHER -> src.sa + (IF op \in {"dsll32", "dsrl32", "dsra32"} THEN H ELSE 0)
        fill == IF src.b >= D \div 2 THEN D - (2 ^ ((2 * H) - n)) ELSE 0
    IN Rd(CASE op \in {"dsll", "dsllv", "dsll32"} -> Shl(src.b, n, D)
            [] op \in {"dsrl", "dsrlv", "dsrl32"} -> src.b \div (2 ^ n)
            [] OTHER -> fill + (src.b \div (2 ^ n)))
EmitArith(op) ==
    CASE op = "add" -> Rd(Movsxd(Low(src.a) + Low(src.b)))
      [] op = "sub" -> Rd(Movsxd((W + Low(src.a)) - Low(src.b)))
      [] op = "and" -> Rd(src.a & src.b)
      [] op = "or" -> Rd(src.a | src.b)
      [] op = "xor" -> Rd(src.a ^^ src.b)
      [] op = "nor" -> Rd(Inverted(src.a | src.b))
      [] op = "slt" -> Rd(Truth(SfNeOf(src.a, src.b, D)))
      [] op = "sltu" -> Rd(Truth(src.a < src.b))
      [] op = "dadd" -> Rd((src.a + src.b) % D)
      [] op = "dsub" -> Rd((src.a + (D - src.b)) % D)
      [] op \in {"movz", "movn"} -> IF (src.b # 0) = (op = "movz") THEN Same ELSE Rd(src.a)
\* imul and mul leave the product in edx:eax.
EmitMult(signed) ==
    LET p == (IF signed THEN SignedW(src.a) * SignedW(src.b) ELSE Low(src.a) * Low(src.b)) % D
    IN [rd |-> Movsxd(p), lo |-> Movsxd(p), hi |-> Movsxd(p \div W)]
BadEmitDiv(signed) ==
    LET eax == Low(src.a)  ecx == Low(src.b)
        Out(edx, quo) == HiLo(Movsxd(edx), Movsxd(quo))
    IN IF ecx = 0 THEN Out(eax, W - 1)
       ELSE IF ~signed THEN Out(eax % ecx, eax \div ecx)
       ELSE IF ecx = W - 1 /\ eax = W \div 2 THEN Out(0, eax)
       ELSE Out(Rem(SignedW(eax), SignedW(ecx)) % W, Quot(SignedW(eax), SignedW(ecx)) % W)
EmitDiv(signed) ==
    LET eax == Low(src.a)  ecx == Low(src.b)
        sar == IF eax >= W \div 2 THEN W - 1 ELSE 0
        Out(edx, quo) == HiLo(Movsxd(edx), Movsxd(quo))
    IN IF ecx = 0 THEN Out(eax, IF signed THEN (W - 1 - sar) | 1 ELSE W - 1)
       ELSE IF ~signed THEN Out(eax % ecx, eax \div ecx)
       ELSE IF ecx = W - 1 /\ eax = W \div 2 THEN Out(0, eax)
       ELSE Out(Rem(SignedW(eax), SignedW(ecx)) % W, Quot(SignedW(eax), SignedW(ecx)) % W)
EmitImm(op) ==
    LET simm == Simm(src.imm)
    IN Rd(CASE op = "addi" -> Movsxd(Low(src.a) + simm)
            [] op = "slti" -> Truth(SfNeOf(src.a, simm % D, D))
            [] op = "sltiu" -> Truth(src.a < simm % D)
            [] op = "andi" -> src.a & src.imm
            [] op = "ori" -> src.a | src.imm
            [] op = "xori" -> src.a ^^ src.imm
            [] op = "lui" -> Movsxd(src.imm * HalfWord)
            [] op = "daddi" -> (src.a + simm) % D)
EmitTaken(op) ==
    LET sign == src.a >= D \div 2
    IN Rd(Truth(CASE op = "beq" -> src.a = src.b [] op = "bne" -> src.a # src.b
                  [] op = "blez" -> src.a = 0 \/ sign [] op = "bgtz" -> src.a # 0 /\ ~sign
                  [] op = "bltz" -> sign [] op = "bgez" -> ~sign))

(***************************************************************************)
(* COP1: the clamping of results and the comparisons.                      *)
(***************************************************************************)
Patterns == 0 .. 15
FMag(x) == x % 8
IsNan(x) == FMag(x) = 7
FloatOf(x) == IF x >= 8 THEN -FMag(x) ELSE FMag(x)
Fpu(op, x, y) ==
    CASE op = "clamp" -> IF IsNan(x) THEN 0 ELSE IF FMag(x) = 6 THEN x - 1 ELSE x
      [] op = "c.eq" -> Truth(~IsNan(x) /\ ~IsNan(y) /\ FloatOf(x) = FloatOf(y))
      [] op = "c.lt" -> Truth(~IsNan(x) /\ ~IsNan(y) /\ FloatOf(x) < FloatOf(y))
      [] op = "c.le" -> Truth(~IsNan(x) /\ ~IsNan(y) /\ FloatOf(x) <= FloatOf(y))
\* ucomiss sets all three flags when either operand is not a number.
EmitFpu(op, x, y) ==
    LET unordered == IsNan(x) \/ IsNan(y)
        zf == unordered \/ FloatOf(x) = FloatOf(y)
        cf == unordered \/ FloatOf(x) < FloatOf(y)
    IN CASE op = "clamp" -> IF FMag(x) < 6 THEN x ELSE IF FMag(x) > 6 THEN 0 ELSE x - 1
         [] op = "c.eq" -> Truth(zf /\ ~unordered)
         [] op = "c.lt" -> Truth(cf /\ ~unordered)
         [] op = "c.le" -> Truth((zf \/ cf) /\ ~unordered)

(***************************************************************************)
(* Unaligned accesses: k is the byte of the aligned word addressed, n its  *)
(* size, and everything is bytes, the lowest first.                        *)
(***************************************************************************)
LoadLeft(reg, word, n, k) == [ i \in 0 .. n - 1 |-> IF i < (n - 1) - k THEN reg[i] ELSE word[i - ((n - 1) - k)] ]
BadLoadRight(reg, word, n, k) == [ i \in 0 .. n - 1 |-> IF i >= n - k THEN 0 ELSE word[i + k] ]
LoadRight(reg, word, n, k) == [ i \in 0 .. n - 1 |-> IF i >= n - k THEN reg[i] ELSE word[i + k] ]
StoreLeft(reg, word, n, k) == [ i \in 0 .. n - 1 |-> IF i > k THEN word[i] ELSE reg[i + ((n - 1) - k)] ]
StoreRight(reg, word, n, k) == [ i \in 0 .. n - 1 |-> IF i < k THEN word[i] ELSE reg[i - k] ]

\* lwr/lwl, ldr/ldl, swr/swl, sdr/sdl: one half of the access.
Access(left) ==
    LET addr == IF left THEN pair.at + (pair.n - 1) ELSE pair.at
        base == addr - (addr % pair.n)
        word == [ i \in 0 .. pair.n - 1 |-> pair.mem[base + i] ]
        k == addr % pair.n
        new == CASE pair.store /\ left -> StoreLeft(pair.reg, word, pair.n, k)
                 [] pair.store /\ ~left -> StoreRight(pair.reg, word, pair.n, k)
                 [] ~pair.store /\ left -> LoadLeft(pair.reg, word, pair.n, k)
                 [] OTHER -> LoadRight(pair.reg, word, pair.n, k)
    IN IF pair.store
       THEN [pair EXCEPT !.mem = [ a \in DOMAIN @ |-> IF a \in base .. base + (pair.n - 1) THEN new[a - base] ELSE @[a] ],
                         !.half = @ \cup {left}]
       ELSE [pair EXCEPT !.reg = new, !.half = @ \cup {left}]

(***************************************************************************)
(* Every instruction on every operand.                                     *)
(***************************************************************************)
AluInit ==
    /\ src \in [a : Values, b : Values, hi : {0}, lo : {0}, rd : {1}, imm : Immediates, sa : {0}]
              \cup [a : Values, b : Values, hi : {0, D - 1}, lo : {W - 1}, rd : {1}, imm : {0}, sa : {1, H - 1}]
    /\ ran = "none" /\ interp = Same /\ native = Same
Run(op, i, e) == ran = "none" /\ ran' = op /\ interp' = i /\ native' = e /\ UNCHANGED <<src, pair>>
RunShift == \E op \in Shifts : Run(op, OpShift(op), EmitShift(op))
RunDShift == \E op \in DShifts : Run(op, OpDShift(op), EmitDShift(op))
RunArith == \E op \in Arith : Run(op, OpArith(op), EmitArith(op))
RunMult == \E s \in BOOLEAN : Run(IF s THEN "mult" ELSE "multu", Mult(s), EmitMult(s))
RunDiv == \/ Run("div", Div, EmitDiv(TRUE)) \/ Run("divu", Divu, EmitDiv(FALSE))
RunMadd == \E s \in BOOLEAN : Run(IF s THEN "madd" ELSE "maddu", Madd(s), Madd(s))
RunPWord == \E op \in {"pmultw", "pmultuw", "pmaddw", "pmsubw", "pmadduw"} : Run(op, PWord(op), PWord(op))
RunImm == \E op \in Imms : Run(op, OpImm(op), EmitImm(op))
RunBranch == \E op \in Conds : Run(op, Taken(op), EmitTaken(op))
RunFpu == \E op \in {"clamp", "c.eq", "c.lt", "c.le"} :
            Run(op, Rd(Fpu(op, src.a % 16, src.b % 16)), Rd(EmitFpu(op, src.a % 16, src.b % 16)))
AluNext == RunShift \/ RunDShift \/ RunArith \/ RunMult \/ RunDiv \/ RunMadd \/ RunPWord \/ RunImm \/ RunBranch \/ RunFpu
\* The two halves of an unaligned access, in either order.
PairInit ==
    \E n \in {4, 8}, st \in BOOLEAN : \E at \in 0 .. n :
        pair = [n |-> n, at |-> at, store |-> st, half |-> {}, reg |-> [ i \in 0 .. n - 1 |-> 100 + i ],
                mem |-> [ a \in 0 .. (2 * n) - 1 |-> 200 + a ]]
PairNext == \E left \in BOOLEAN : left \notin pair.half /\ pair' = Access(left) /\ UNCHANGED <<src, ran, interp, native>>

(***************************************************************************)
(* Properties.                                                             *)
(***************************************************************************)
\* "The interpreter stays the reference": whatever the operands, what the
\* emitted code leaves in the registers is what the interpreter leaves.
NativeAgrees == native = interp
\* HI:LO hold the whole product, the whole accumulated sum, and a quotient and
\* remainder that give the dividend back - but for a division by zero and the
\* one quotient that has no word.
HiLoExact ==
    LET whole == (Low(interp.hi) * W) + Low(interp.lo)
        old == (Low(src.hi) * W) + Low(src.lo)
        sp == SignedW(src.a) * SignedW(src.b)
        up == Low(src.a) * Low(src.b)
    IN /\ ran \in {"mult", "multu"} => whole = (IF ran = "mult" THEN sp ELSE up) % D
       /\ ran \in {"madd", "maddu"} => whole = (old + (IF ran = "madd" THEN sp ELSE up)) % D
       /\ ran \in {"pmaddw", "pmsubw", "pmadduw"} =>
            whole = interp.rd /\ whole = (old + (CASE ran = "pmaddw" -> sp [] ran = "pmsubw" -> -sp [] OTHER -> up)) % D
       /\ ran = "divu" /\ Low(src.b) # 0 =>
            /\ (Low(interp.lo) * Low(src.b)) + Low(interp.hi) = Low(src.a)
            /\ Low(interp.hi) < Low(src.b)
       /\ ran = "div" /\ Low(src.b) # 0 =>
            /\ ((SignedW(interp.lo) * SignedW(src.b)) + SignedW(interp.hi)) % W = Low(src.a)
            /\ Magnitude(SignedW(interp.hi)) < Magnitude(SignedW(src.b))
\* Two halves of an unaligned access, in either order, move the bytes at the
\* address and no others.
PairWhole ==
    pair.half = BOOLEAN =>
        IF pair.store
        THEN \A a \in DOMAIN pair.mem :
                pair.mem[a] = IF a \in pair.at .. pair.at + (pair.n - 1) THEN 100 + (a - pair.at) ELSE 200 + a
        ELSE \A i \in DOMAIN pair.reg : pair.reg[i] = 200 + pair.at + i

\* The EE's plain arithmetic as one promise.
ValuesExact == NativeAgrees /\ HiLoExact /\ PairWhole
=============================================================================
