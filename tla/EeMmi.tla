------------------------------- MODULE EeMmi -------------------------------
(***************************************************************************)
(* The 128-bit instructions of the EE that move lanes about and those that *)
(* multiply and accumulate by lanes (ee/mod.rs).  A register is a sequence *)
(* of sixteen bytes, the lowest first; HI and LO are four words each.      *)
(* Programs string several of them together as games and libraries do.     *)
(***************************************************************************)
EXTENDS Integers, Sequences, SequencesExt, Bitwise

CONSTANTS Offsets,   \* what mtsab is given
          Factors,   \* the products of eight lanes, one row each
          LaneBits   \* the width of a lane in the arithmetic by lanes

VARIABLES regs,      \* registers by name
          acc,       \* [lo, hi]: four words each
          sums,      \* history: what each lane should have accumulated
          idiom      \* the instructions run so far

ee_mmi == <<regs, acc, sums, idiom>>

Half(r, h) == SubSeq(r, (8 * h) + 1, (8 * h) + 8)
Lane(s, k, i) == SubSeq(s, (k * i) + 1, k * (i + 1))
Lanes(s, k) == [ i \in 1 .. Len(s) \div k |-> Lane(s, k, i - 1) ]
Joined(lanes) == FlattenSeq(lanes)

BadWoven(l, h, k) == Joined([ i \in 1 .. 16 \div k |-> Lane(IF i % 2 = 1 THEN h ELSE l, k, (i - 1) \div 2) ])
\* interleave_u8, interleave_u16 and the word form written out in pextlw.
Woven(l, h, k) == Joined([ i \in 1 .. 16 \div k |-> Lane(IF i % 2 = 1 THEN l ELSE h, k, (i - 1) \div 2) ])
Pextl(a, b, k) == Woven(Half(b, 0), Half(a, 0), k)
Pextu(a, b, k) == Woven(Half(b, 1), Half(a, 1), k)
\* pack_u8, pack_u16, ppacw: the even lanes, rt's below rs's.
EvenLanes(r, k) == Joined([ i \in 1 .. 8 \div k |-> Lane(r, k, 2 * (i - 1)) ])
Ppac(a, b, k) == EvenLanes(b, k) \o EvenLanes(a, k)
Pcpyld(a, b) == Half(b, 0) \o Half(a, 0)
Pcpyud(a, b) == Half(a, 1) \o Half(b, 1)
Pinth(a, b) == Woven(Half(b, 0), Half(a, 1), 2)
Pinteh(a, b) == Joined([ i \in 1 .. 8 |-> IF i % 2 = 1 THEN Lane(b, 2, i - 1) ELSE Lane(a, 2, i - 2) ])
Pcpyh(b) == Joined([ i \in 1 .. 8 |-> Lane(b, 2, 4 * ((i - 1) \div 4)) ])
\* perm_h4, perm_w4.
PermH(r, m) == Joined([ i \in 1 .. 8 |-> Lane(r, 2, (4 * ((i - 1) \div 4)) + m[((i - 1) % 4) + 1]) ])
PermW(r, m) == Joined([ i \in 1 .. 4 |-> Lane(r, 4, m[i]) ])
Perms == [pexeh |-> <<2, 1, 0, 3>>, prevh |-> <<3, 2, 1, 0>>, pexch |-> <<0, 2, 1, 3>>,
          pexew |-> <<2, 1, 0, 3>>, prot3w |-> <<1, 2, 0, 3>>, pexcw |-> <<0, 2, 1, 3>>]
Permute(op, r) == IF op \in {"pexeh", "prevh", "pexch"} THEN PermH(r, Perms[op]) ELSE PermW(r, Perms[op])
\* mtsab leaves a shift in bits; qfsrv moves rs:rt right by it.
Mtsab(x) == (x % 16) * 8
Qfsrv(a, b, sa) == SubSeq(b \o a, (sa \div 8) + 1, (sa \div 8) + 16)

(***************************************************************************)
(* Arithmetic by lanes, the same at every width.                           *)
(***************************************************************************)
LM == 2 ^ LaneBits
SignedL(x) == IF x >= LM \div 2 THEN x - LM ELSE x
Saturated(i, low, high) == (IF i < low THEN low ELSE IF i > high THEN high ELSE i) % LM
Mask(p) == IF p THEN LM - 1 ELSE 0
BadLaneOp(op, x, y) ==
    CASE op = "padd" -> (x + y) % LM [] op = "psub" -> (x - y) % LM
      [] op = "pcgt" -> Mask(x > y) [] op = "pceq" -> Mask(x = y)
      [] op = "pmax" -> IF SignedL(x) > SignedL(y) THEN x ELSE y
      [] op = "pmin" -> IF SignedL(x) < SignedL(y) THEN x ELSE y
      [] op = "padds" -> (x + y) % LM [] op = "psubs" -> (x - y) % LM
      [] op = "paddu" -> Saturated(x + y, 0, LM - 1) [] op = "psubu" -> Saturated(x - y, 0, LM - 1)
      [] op = "pabs" -> IF SignedL(y) < 0 THEN -SignedL(y) ELSE y
LaneOp(op, x, y) ==
    CASE op = "padd" -> (x + y) % LM [] op = "psub" -> (x - y) % LM
      [] op = "pcgt" -> Mask(SignedL(x) > SignedL(y)) [] op = "pceq" -> Mask(x = y)
      [] op = "pmax" -> IF SignedL(x) > SignedL(y) THEN x ELSE y
      [] op = "pmin" -> IF SignedL(x) < SignedL(y) THEN x ELSE y
      [] op = "padds" -> Saturated(SignedL(x) + SignedL(y), -(LM \div 2), (LM \div 2) - 1)
      [] op = "psubs" -> Saturated(SignedL(x) - SignedL(y), -(LM \div 2), (LM \div 2) - 1)
      [] op = "paddu" -> Saturated(x + y, 0, LM - 1)
      [] op = "psubu" -> Saturated(x - y, 0, LM - 1)
      [] op = "pabs" -> IF SignedL(y) < 0 THEN -SignedL(y) ELSE y
Pnor(x, y) == LM - 1 - (x | y)
\* As programs combine them: the mask of pcgt chooses, two clipped differences
\* make a distance, a clipped sum is checked against the wrapped one.
Selected(x, y) == LET g == LaneOp("pcgt", x, y) IN (x & g) | (y & Pnor(g, 0))
Distance(x, y) == LaneOp("psubu", x, y) | LaneOp("psubu", y, x)
Overflowed(x, y) == LaneOp("pceq", LaneOp("padds", x, y), LaneOp("padd", x, y)) = 0

(***************************************************************************)
(* Multiply and accumulate.  prods are the products of the eight halfword  *)
(* lanes, or of words 0 and 2.                                             *)
(***************************************************************************)
BadPlace(prods, keep) ==
    [lo |-> [ w \in 1 .. 4 |-> (IF keep THEN acc.lo[w] ELSE 0) + prods[w] ],
     hi |-> [ w \in 1 .. 4 |-> (IF keep THEN acc.hi[w] ELSE 0) + prods[w + 4] ]]
\* ph_multiply_step: lanes 0 1 4 5 into LO, 2 3 6 7 into HI.
Place(prods, keep) ==
    LET at(h, w) == (4 * ((w - 1) \div 2)) + (2 * h) + ((w - 1) % 2) + 1
    IN [lo |-> [ w \in 1 .. 4 |-> (IF keep THEN acc.lo[w] ELSE 0) + prods[at(0, w)] ],
        hi |-> [ w \in 1 .. 4 |-> (IF keep THEN acc.hi[w] ELSE 0) + prods[at(1, w)] ]]
Negated(p) == [ n \in DOMAIN p |-> -p[n] ]
\* What rd receives: words 0 and 2 of each.
Read(c) == <<c.lo[1], c.hi[1], c.lo[3], c.hi[3]>>
\* phmadh, phmsbh: neighbours together; the odd word keeps the odd product.
Horizontal(p, sign) ==
    LET pairOf(n) == <<p[n + 1] + (sign * p[n]), IF sign = 1 THEN p[n + 1] ELSE -p[n + 1] - 1>>
    IN [lo |-> pairOf(1) \o pairOf(5), hi |-> pairOf(3) \o pairOf(7)]
PmfhlLw(c) == <<c.lo[1], c.hi[1], c.lo[3], c.hi[3]>>
PmfhlUw(c) == <<c.lo[2], c.hi[2], c.lo[4], c.hi[4]>>
PmfhlLh(c) == <<c.lo[1], c.lo[2], c.hi[1], c.hi[2], c.lo[3], c.lo[4], c.hi[3], c.hi[4]>>

Bytes(n) == [ i \in 1 .. 16 |-> (100 * n) + i ]
MmiInit ==
    /\ regs = [ n \in 1 .. 4 |-> Bytes(n) ]
    /\ acc = [lo |-> <<0, 0, 0, 0>>, hi |-> <<0, 0, 0, 0>>]
    /\ sums = [ n \in 1 .. 8 |-> 0 ] /\ idiom = <<>>

\* Widen by lanes of k bytes, then pack again.
Widen(k) == /\ idiom = <<>> /\ idiom' = <<"widen", k>>
            /\ regs' = [regs EXCEPT ![3] = Pextl(regs[1], regs[2], k), ![4] = Pextu(regs[1], regs[2], k)]
            /\ UNCHANGED <<acc, sums>>
Narrow == /\ idiom # <<>> /\ idiom[1] = "widen" /\ idiom' = <<"narrow", idiom[2]>>
          /\ regs' = [regs EXCEPT ![3] = Ppac(regs[4], regs[3], idiom[2])]
          /\ UNCHANGED <<acc, sums>>
\* Four rows into four columns.
Transpose ==
    /\ idiom = <<>> /\ idiom' = <<"transpose">>
    /\ LET t0 == Pextl(regs[2], regs[1], 4)  t1 == Pextl(regs[4], regs[3], 4)
           t2 == Pextu(regs[2], regs[1], 4)  t3 == Pextu(regs[4], regs[3], 4)
       IN regs' = [regs EXCEPT ![1] = Pcpyld(t1, t0), ![2] = Pcpyud(t0, t1), ![3] = Pcpyld(t3, t2), ![4] = Pcpyud(t2, t3)]
    /\ UNCHANGED <<acc, sums>>
\* The same permutation until it should be undone.
Running(op, n) == IF idiom = <<>> THEN TRUE ELSE idiom[1] = op /\ Len(idiom) < n
Turn(op) == /\ Running(op, 3)
            /\ idiom' = Append(idiom, op)
            /\ regs' = [regs EXCEPT ![1] = Permute(op, @)]
            /\ UNCHANGED <<acc, sums>>
\* Two aligned loads and a funnel shift.
Unaligned(o) == /\ idiom = <<>> /\ idiom' = <<"unaligned", o>>
                /\ regs' = [regs EXCEPT ![3] = Qfsrv(regs[2], regs[1], Mtsab(o))]
                /\ UNCHANGED <<acc, sums>>
Combine(x, y) ==
    /\ idiom = <<>> /\ idiom' = <<"combine", x, y>>
    /\ regs' = [regs EXCEPT ![1] = << Selected(x, y), Distance(x, y), Overflowed(x, y),
                                     LaneOp("pmin", x, y) + LaneOp("pmax", x, y),
                                     LaneOp("psub", LaneOp("padd", x, y), y),
                                     LaneOp("psubs", 0, y), LaneOp("pabs", x, y),
                                     LaneOp("psubu", LaneOp("paddu", x, y), y) >>]
    /\ UNCHANGED <<acc, sums>>
\* pmulth, pmaddh, pmsubh.
MulStep(op, p) ==
    /\ Running("mac", 4)
    /\ idiom' = (IF idiom = <<>> THEN <<"mac">> ELSE idiom) \o <<op>>
    /\ LET q == IF op = "pmsubh" THEN Negated(p) ELSE p
       IN IF op = "pmulth" THEN acc' = Place(q, FALSE) /\ sums' = q
          ELSE acc' = Place(q, TRUE) /\ sums' = [ n \in 1 .. 8 |-> sums[n] + q[n] ]
    /\ regs' = [regs EXCEPT ![1] = Read(acc')]
\* phmadh, phmsbh.
MulPairs(p, sign) ==
    /\ idiom = <<>> /\ idiom' = <<"pairs", sign>>
    /\ acc' = Horizontal(p, sign) /\ sums' = p /\ regs' = [regs EXCEPT ![1] = Read(acc')]
MmiNext == \/ Narrow \/ Transpose
           \/ \E k \in {1, 2, 4} : Widen(k)
           \/ \E op \in DOMAIN Perms : Turn(op)
           \/ \E o \in Offsets : Unaligned(o)
           \/ \E x, y \in 0 .. LM - 1 : Combine(x, y)
           \/ \E p \in Factors : \/ \E op \in {"pmulth", "pmaddh", "pmsubh"} : MulStep(op, p)
                                 \/ \E s \in {1, -1} : MulPairs(p, s)

(***************************************************************************)
(* Properties.                                                             *)
(***************************************************************************)
\* The lane instructions fit together as their users rely on: packing undoes
\* widening, two rounds of interleaving and copying transpose four rows, an
\* exchange is its own inverse and a rotation of three comes round, a funnel
\* shift reads sixteen bytes at any offset of a pair.
LanesCompose ==
    /\ idiom # <<>> /\ idiom[1] = "narrow" => regs[3] = regs[2]
    /\ idiom = <<"transpose">> =>
           \A n \in 1 .. 4 : regs[n] = Joined([ i \in 1 .. 4 |-> Lane(Bytes(i), 4, n - 1) ])
    /\ idiom # <<>> /\ idiom[1] \in DOMAIN Perms /\ Len(idiom) = (IF idiom[1] = "prot3w" THEN 3 ELSE 2)
           => regs[1] = Bytes(1)
    /\ idiom # <<>> /\ idiom[1] = "unaligned" =>
           regs[3] = SubSeq(Bytes(1) \o Bytes(2), idiom[2] + 1, idiom[2] + 16)
\* The lane arithmetic agrees with itself: masks choose the larger as PMAX
\* does, clipped differences are distances, a saturated sum differs from the
\* wrapped one exactly when the sum is out of range, PMIN and PMAX are one
\* operand each, and a saturated negation is the absolute value's negation.
LanesSelect ==
    idiom # <<>> /\ idiom[1] = "combine" =>
        LET x == idiom[2]  y == idiom[3]  r == regs[1]  sum == SignedL(x) + SignedL(y)
        IN /\ r[1] = LaneOp("pmax", x, y)
           /\ r[2] = (IF x > y THEN x - y ELSE y - x)
           /\ r[3] = (sum < -(LM \div 2) \/ sum >= LM \div 2)
           /\ r[4] = x + y /\ r[5] = x
           /\ SignedL(y) < 0 => r[6] = (IF r[7] = LM \div 2 THEN r[7] - 1 ELSE r[7])
           /\ r[8] = (IF x + y < LM THEN x ELSE LM - 1 - y)
\* After any run of halfword multiplies HI and LO hold each lane's sum in one
\* place, PMFHL.LH reads all eight in lane order, and rd "takes ... the same
\* placement PMFHL.LW would read back" with PMFHL.UW the odd ones.
LanesAccumulate ==
    /\ idiom # <<>> /\ idiom[1] = "mac" =>
           /\ PmfhlLh(acc) = sums
           /\ regs[1] = PmfhlLw(acc)
           /\ PmfhlLw(acc) = << sums[1], sums[3], sums[5], sums[7] >>
           /\ PmfhlUw(acc) = << sums[2], sums[4], sums[6], sums[8] >>
    /\ idiom # <<>> /\ idiom[1] = "pairs" =>
           regs[1] = [ n \in 1 .. 4 |-> sums[2 * n] + (idiom[2] * sums[(2 * n) - 1]) ]
=============================================================================
