--------------------------- MODULE GsUnits_proofs ---------------------------
(***************************************************************************)
(* Proofs about the units of the drawing side: transfers, the vertex       *)
(* queue, the texel row cache and scanout.  The loops of the units are     *)
(* functions of the turn; what they compute is proved by induction on it,  *)
(* as the set of the turns up to which it holds.                           *)
(***************************************************************************)
EXTENDS GsVertex, GsTransfer, GsTexel, GsDisplay, SequenceTheorems, FiniteSetTheorems, WellFoundedInduction, TLAPS

(***************************************************************************)
(* Induction over the numbers.                                             *)
(***************************************************************************)
LEMMA Least ==
    ASSUME NEW S \in SUBSET Nat, S # {}
    PROVE  \E n \in S : \A m \in S : n <= m
<1> DEFINE R == OpToRel(<, Nat)
<1>1. \A m, n \in Nat : m < n => <<m, n>> \in R
    BY DEF OpToRel
<1>2. IsWellFoundedOn(R, Nat)
    BY NatLessThanWellFounded
<1> HIDE DEF R
<1>3. PICK n \in S : \A m \in S : ~(<<m, n>> \in R)
    BY <1>2, WFMin
<1>4. \A m \in S : ~(m < n)
    BY <1>1, <1>3
<1> QED
    BY <1>4

LEMMA Induction ==
    ASSUME NEW S \in SUBSET Nat, 0 \in S, \A n \in S : n + 1 \in S
    PROVE  S = Nat
<1>1. SUFFICES ASSUME S # Nat PROVE FALSE
    OBVIOUS
<1>2. PICK n \in Nat \ S : \A m \in Nat \ S : n <= m
    BY <1>1, Least
<1>3. n - 1 \in S
    BY <1>2
<1> QED
    BY <1>2, <1>3

\* A sequence of one, two or three, item by item.
LEMMA Appended ==
    ASSUME NEW a, NEW b, NEW c
    PROVE  /\ Len(<<>>) = 0 /\ Append(<<>>, a) = <<a>>
           /\ Len(<<a>>) = 1 /\ Append(<<a>>, b) = <<a, b>>
           /\ Len(<<a, b>>) = 2 /\ Append(<<a, b>>, c) = <<a, b, c>>
<1> DEFINE V == {a, b, c}
<1>1. <<>> \in Seq(V) /\ <<a>> \in Seq(V) /\ <<a, b>> \in Seq(V) /\ <<a, b, c>> \in Seq(V)
    OBVIOUS
<1>2. Len(<<>>) = 0 /\ Len(<<a>>) = 1 /\ Len(<<a, b>>) = 2 /\ Len(<<a, b, c>>) = 3
    OBVIOUS
<1>3. a \in V /\ b \in V /\ c \in V
    OBVIOUS
<1> HIDE DEF V
<1>4. Append(<<>>, a) = <<a>>
    BY <1>1
<1>5. Append(<<a>>, b) = <<a, b>>
  <2> DEFINE t == Append(<<a>>, b)
  <2>1. t \in Seq(V) /\ Len(t) = 2 /\ t[1] = a /\ t[2] = b
      BY <1>1, <1>2, <1>3, AppendProperties
  <2> HIDE DEF t
  <2>2. t = <<a, b>>
      BY <1>1, <1>2, <2>1, SeqEqual
  <2> QED
      BY <2>2 DEF t
<1>6. Append(<<a, b>>, c) = <<a, b, c>>
  <2> DEFINE t == Append(<<a, b>>, c)
  <2>1. t \in Seq(V) /\ Len(t) = 3 /\ t[1] = a /\ t[2] = b /\ t[3] = c
      BY <1>1, <1>2, <1>3, AppendProperties
  <2> HIDE DEF t
  <2>2. t = <<a, b, c>>
      BY <1>1, <1>2, <2>1, SeqEqual
  <2> QED
      BY <2>2 DEF t
<1> QED
    BY <1>2, <1>4, <1>5, <1>6


(***************************************************************************)
(* Places in the rectangle.                                                *)
(***************************************************************************)
LEMMA Places ==
    ASSUME NEW W \in Nat \ {0}, NEW q \in Nat, NEW r \in 0 .. W - 1
    PROVE  /\ W * q + r \in Nat
           /\ (W * q + r) \div W = q /\ (W * q + r) % W = r
<1>1. W * q \in Nat
    OBVIOUS
<1>2. PICK a \in Nat, b \in 0 .. W - 1 : /\ a = (W * q + r) \div W /\ b = (W * q + r) % W
                                         /\ W * q + r = W * a + b
    BY <1>1
<1>3. W * (a - q) = r - b
    BY <1>2
<1>4. ~(a >= q + 1)
  <2>1. ASSUME a >= q + 1 PROVE W * (a - q) >= W
    BY <2>1
  <2> QED
    BY <1>3, <2>1
<1>5. ~(a <= q - 1)
  <2>1. ASSUME a <= q - 1 PROVE W * (q - a) >= W
    BY <2>1
  <2>2. W * (q - a) = b - r
    BY <1>2
  <2> QED
    BY <2>1, <2>2
<1>6. a = q
    BY <1>2, <1>4, <1>5
<1> QED
    BY <1>1, <1>2, <1>3, <1>6
Cell(W, q, r) == W \in Nat \ {0} /\ q \in Nat /\ r \in 0 .. W - 1
LEMMA PlaceAt ==
    ASSUME NEW W, NEW q, NEW r, Cell(W, q, r), NEW n, n = W * q + r
    PROVE  n \div W = q /\ n % W = r
    BY Places DEF Cell
LEMMA PlaceOf ==
    ASSUME NEW W \in Nat \ {0}, NEW n \in Nat
    PROVE  /\ n \div W \in Nat /\ n % W \in 0 .. W - 1 /\ n = W * (n \div W) + (n % W)
    OBVIOUS

(***************************************************************************)
(* A transfer: the first n pixels are in place and the cursor is behind    *)
(* them.                                                                   *)
(***************************************************************************)
Value(i) == IF trx_fmt.packed THEN <<3 * i, 3 * i + 1, 3 * i + 2>> ELSE i
Place(i) == <<i % rrw, i \div rrw>>
Area == rrw * rrh
Placed(m, n) == /\ m = [p \in DOMAIN m |-> m[p]]
                /\ DOMAIN m = { Place(i) : i \in 0 .. n - 1 }
                /\ \A i \in 0 .. n - 1 : m[Place(i)] = Value(i)
Behind(c, n) == n \in 0 .. Area /\ c = [x |-> n % rrw, y |-> n \div rrw]
Sized == /\ trx_rect = <<rrw, rrh>> /\ rrw \in Nat /\ rrh \in Nat
         /\ trx_fmt \in [ppw : Nat \ {0}, packed : BOOLEAN]
         /\ trx_fmt.packed => trx_fmt.ppw = 1

LEMMA AreaIsNat == Sized => Area \in Nat
    BY DEF Sized, Area

LEMMA PlacesApart ==
    ASSUME Sized, rrw # 0, NEW i \in Nat, NEW j \in Nat, Place(i) = Place(j)
    PROVE  i = j
<1>1. i = rrw * (i \div rrw) + (i % rrw) /\ j = rrw * (j \div rrw) + (j % rrw)
    BY PlaceOf DEF Sized
<1>2. i % rrw = j % rrw /\ i \div rrw = j \div rrw
    BY DEF Place
<1> QED
    BY <1>1, <1>2

LEMMA CursorMeans ==
    ASSUME Sized, rrw # 0, NEW n, NEW c, Behind(c, n)
    PROVE  /\ n \in Nat /\ c.x \in 0 .. rrw - 1 /\ c.y \in Nat /\ n = rrw * c.y + c.x
           /\ c = [x |-> c.x, y |-> c.y] /\ Place(n) = <<c.x, c.y>>
           /\ c.y >= rrh <=> n = Area
<1>1. Area \in Nat /\ n \in 0 .. Area /\ rrw \in Nat \ {0}
    BY AreaIsNat DEF Behind, Sized
<1>2. c.x = n % rrw /\ c.y = n \div rrw /\ c = [x |-> c.x, y |-> c.y]
    BY DEF Behind
<1>3. /\ c.x \in 0 .. rrw - 1 /\ c.y \in Nat /\ n = rrw * c.y + c.x
    BY <1>1, <1>2, PlaceOf
<1>4. ASSUME c.y >= rrh PROVE n = Area
  <2>1. rrw * c.y >= rrw * rrh
      BY <1>1, <1>3, <1>4 DEF Sized
  <2> QED
      BY <1>1, <1>3, <2>1 DEF Area
<1>5. ASSUME n = Area PROVE c.y >= rrh
  <2>1. n = rrw * rrh + 0 /\ rrh \in Nat /\ 0 \in 0 .. rrw - 1
      BY <1>1, <1>5 DEF Area, Sized
  <2>2. n \div rrw = rrh
      BY <1>1, <2>1, PlaceAt
  <2> QED
      BY <1>2, <2>1, <2>2
<1>6. Place(n) = <<c.x, c.y>>
    BY <1>2 DEF Place
<1>7. c.y >= rrh <=> n = Area
    BY <1>4, <1>5
<1>8. n \in Nat
    BY <1>1
<1> QED
    BY <1>2, <1>3, <1>6, <1>7, <1>8

LEMMA Further ==
    ASSUME Sized, rrw # 0, NEW n, NEW c, Behind(c, n), n < Area, NEW k \in Nat, k > 0, c.x + k <= rrw
    PROVE  /\ n + k <= Area
           /\ Behind(IF c.x + k >= rrw THEN [x |-> 0, y |-> c.y + 1] ELSE [x |-> c.x + k, y |-> c.y], n + k)
           /\ \A i \in 0 .. k - 1 : Place(n + i) = <<c.x + i, c.y>>
<1>1. /\ n \in Nat /\ c.x \in 0 .. rrw - 1 /\ c.y \in Nat /\ n = rrw * c.y + c.x /\ rrw \in Nat \ {0}
      /\ c.y < rrh /\ rrh \in Nat /\ Area \in Nat
    BY CursorMeans, AreaIsNat DEF Sized
<1>2. \A i \in 0 .. k - 1 : Place(n + i) = <<c.x + i, c.y>>
  <2> SUFFICES ASSUME NEW i \in 0 .. k - 1 PROVE Place(n + i) = <<c.x + i, c.y>>
      OBVIOUS
  <2>1. n + i = rrw * c.y + (c.x + i) /\ c.x + i \in 0 .. rrw - 1
      BY <1>1
  <2>a. Cell(rrw, c.y, c.x + i)
      BY <1>1, <2>1 DEF Cell
  <2>2. (n + i) \div rrw = c.y /\ (n + i) % rrw = c.x + i
      BY <2>1, <2>a, PlaceAt
  <2> QED
      BY <2>2 DEF Place
<1>3. rrw * c.y + rrw <= Area
  <2>1. rrw * (c.y + 1) <= rrw * rrh
      BY <1>1
  <2> QED
      BY <1>1, <2>1 DEF Area
<1>4. n + k \in 0 .. Area
    BY <1>1, <1>3
<1>5. CASE c.x + k >= rrw
  <2>1. n + k = rrw * (c.y + 1) + 0 /\ c.y + 1 \in Nat /\ 0 \in 0 .. rrw - 1
    <3>1. rrw * (c.y + 1) = rrw * c.y + rrw
        BY <1>1
    <3> QED
        BY <1>1, <1>5, <3>1
  <2>a. Cell(rrw, c.y + 1, 0)
      BY <1>1, <2>1 DEF Cell
  <2>2. (n + k) \div rrw = c.y + 1 /\ (n + k) % rrw = 0
      BY <2>1, <2>a, PlaceAt
  <2> QED
      BY <1>2, <1>4, <1>5, <2>2 DEF Behind
<1>6. CASE ~(c.x + k >= rrw)
  <2>1. n + k = rrw * c.y + (c.x + k) /\ c.x + k \in 0 .. rrw - 1
      BY <1>1, <1>6
  <2>a. Cell(rrw, c.y, c.x + k)
      BY <1>1, <2>1 DEF Cell
  <2>2. (n + k) \div rrw = c.y /\ (n + k) % rrw = c.x + k
      BY <2>1, <2>a, PlaceAt
  <2> QED
      BY <1>2, <1>4, <1>6, <2>2 DEF Behind
<1> QED
    BY <1>5, <1>6

\* k more pixels of a row.
LEMMA PlacedMore ==
    ASSUME Sized, rrw # 0, NEW n \in Nat, NEW k \in Nat, NEW m, Placed(m, n), NEW f,
           f = [p \in DOMAIN f |-> f[p]], DOMAIN f = { Place(n + i) : i \in 0 .. k - 1 },
           \A i \in 0 .. k - 1 : f[Place(n + i)] = Value(n + i)
    PROVE  Placed(Over(f, m), n + k)
<1> DEFINE g == Over(f, m)
<1>1. /\ g = [p \in DOMAIN f \cup DOMAIN m |-> IF p \in DOMAIN f THEN f[p] ELSE m[p]]
    BY DEF Over
<1>2. DOMAIN g = DOMAIN f \cup DOMAIN m
    BY <1>1
<1>3. \A i \in 0 .. n + k - 1 : i \in 0 .. n - 1 \/ (i - n \in 0 .. k - 1 /\ i = n + (i - n))
    OBVIOUS
<1>4. DOMAIN g = { Place(i) : i \in 0 .. n + k - 1 }
  <2>1. ASSUME NEW p \in DOMAIN g PROVE p \in { Place(i) : i \in 0 .. n + k - 1 }
    <3>1. CASE p \in DOMAIN m
        BY <3>1 DEF Placed
    <3>2. CASE p \in DOMAIN f
        BY <3>2
    <3> QED
        BY <1>2, <2>1, <3>1, <3>2
  <2>2. ASSUME NEW i \in 0 .. n + k - 1 PROVE Place(i) \in DOMAIN g
    <3>1. CASE i \in 0 .. n - 1
        BY <1>2, <3>1 DEF Placed
    <3>2. CASE i - n \in 0 .. k - 1 /\ i = n + (i - n)
        BY <1>2, <3>2
    <3> QED
        BY <1>3, <3>1, <3>2
  <2> QED
      BY <2>1, <2>2
<1>5. ASSUME NEW i \in 0 .. n + k - 1 PROVE g[Place(i)] = Value(i)
  <2>1. CASE i \in 0 .. n - 1
    <3>1. Place(i) \in DOMAIN m /\ m[Place(i)] = Value(i)
        BY <2>1 DEF Placed
    <3>2. Place(i) \notin DOMAIN f
      <4>1. \A j \in 0 .. k - 1 : Place(i) # Place(n + j)
          BY <2>1, PlacesApart
      <4> QED
          BY <4>1
    <3> QED
        BY <1>1, <3>1, <3>2
  <2>2. CASE i - n \in 0 .. k - 1 /\ i = n + (i - n)
    <3>1. Place(i) \in DOMAIN f /\ f[Place(i)] = Value(i)
        BY <2>2
    <3> QED
        BY <1>1, <3>1
  <2> QED
      BY <1>3, <2>1, <2>2
<1>6. g = [p \in DOMAIN g |-> g[p]]
    BY <1>1
<1> QED
    BY <1>4, <1>5, <1>6 DEF Placed

(***************************************************************************)
(* The loops, turn by turn.                                                *)
(***************************************************************************)
Lesser(a, b) == IF a <= b THEN a ELSE b
Holding(s, b, k) ==
    \E m, c : /\ s = [mem |-> m, cur |-> c, carry |-> k]
              /\ Placed(m, Lesser(b, Area)) /\ Behind(c, Lesser(b, Area))

\* One pixel more, or none once the rectangle is full.
LEMMA PutNext ==
    ASSUME Sized, rrw # 0, NEW s, NEW b \in Nat, NEW k, Holding(s, b, k)
    PROVE  Holding(PutInside(s, Value(b)), b + 1, k)
<1>1. PICK m, c : /\ s = [mem |-> m, cur |-> c, carry |-> k]
                  /\ Placed(m, Lesser(b, Area)) /\ Behind(c, Lesser(b, Area))
    BY DEF Holding
<1>2. Area \in Nat /\ Lesser(b, Area) \in Nat
    BY AreaIsNat DEF Lesser
<1>3. /\ c.x \in 0 .. rrw - 1 /\ c.y \in Nat /\ c = [x |-> c.x, y |-> c.y] /\ rrw \in Nat
      /\ Place(Lesser(b, Area)) = <<c.x, c.y>> /\ (c.y >= rrh <=> Lesser(b, Area) = Area)
    BY <1>1, CursorMeans DEF Sized
<1>4. s.cur = c /\ s.mem = m
    BY <1>1
<1>5. ASSUME s.cur.y >= rrh PROVE Holding(s, b + 1, k)
  <2>1. Lesser(b + 1, Area) = Lesser(b, Area)
      BY <1>2, <1>3, <1>4, <1>5 DEF Lesser
  <2> QED
      BY <1>1, <2>1 DEF Holding
<1>6. ASSUME ~(s.cur.y >= rrh) PROVE Holding(PutPx(s, Value(b)), b + 1, k)
  <2>1. b < Area /\ Lesser(b, Area) = b /\ Lesser(b + 1, Area) = b + 1
      BY <1>2, <1>3, <1>4, <1>6 DEF Lesser
  <2> DEFINE f == [p \in {<<c.x, c.y>>} |-> Value(b)]
             d == Advance(c)
  <2>2. Behind(d, b + 1)
    <3>1. d = IF c.x + 1 >= rrw THEN [x |-> 0, y |-> c.y + 1] ELSE [x |-> c.x + 1, y |-> c.y]
        BY DEF Advance
    <3>2. c.x + 1 <= rrw
        BY <1>3
    <3> QED
        BY <1>1, <2>1, <3>1, <3>2, Further
  <2>3. /\ f = [p \in DOMAIN f |-> f[p]] /\ DOMAIN f = { Place(b + i) : i \in 0 .. 0 }
        /\ \A i \in 0 .. 0 : f[Place(b + i)] = Value(b + i)
      BY <1>3, <2>1
  <2> HIDE DEF f, d
  <2>4. Placed(Over(f, m), b + 1)
    <3>1. 0 .. 1 - 1 = 0 .. 0
        OBVIOUS
    <3> QED
        BY <1>1, <2>1, <2>3, <3>1, PlacedMore
  <2>5. PutPx(s, Value(b)) = [mem |-> Over(f, m), cur |-> d, carry |-> k]
    <3>1. PutPx(s, Value(b)) = [s EXCEPT !.mem = Over(f, m), !.cur = d]
        BY <1>4 DEF PutPx, f, d
    <3> HIDE DEF Over
    <3> QED
        BY <1>1, <3>1
  <2> QED
      BY <2>1, <2>2, <2>4, <2>5 DEF Holding
<1> QED
    BY <1>5, <1>6 DEF PutInside

PushRun(s, w) ==
    LET p[k \in 0 .. trx_fmt.ppw] ==
            IF k = 0 THEN s ELSE PutInside(p[k - 1], Px(w, k - 1))
    IN  p

LEMMA PushTurns ==
    ASSUME Sized, NEW s, NEW w
    PROVE  PushRun(s, w) = [k \in 0 .. trx_fmt.ppw |-> IF k = 0 THEN s ELSE PutInside(PushRun(s, w)[k - 1], Px(w, k - 1))]
<1> DEFINE G(n, g) == g = [k \in 0 .. n |-> IF k = 0 THEN s ELSE PutInside(g[k - 1], Px(w, k - 1))]
           S == { n \in Nat : \E g : G(n, g) }
<1>1. 0 \in S
  <2>1. G(0, [k \in 0 .. 0 |-> s])
      OBVIOUS
  <2> QED
      BY <2>1
<1>2. ASSUME NEW n \in S PROVE n + 1 \in S
  <2>1. PICK g : G(n, g)
      OBVIOUS
  <2> DEFINE h == [k \in 0 .. n + 1 |-> IF k <= n THEN g[k] ELSE PutInside(g[n], Px(w, n))]
  <2>2. \A k \in 0 .. n + 1 : h[k] = IF k = 0 THEN s ELSE PutInside(h[k - 1], Px(w, k - 1))
      BY <2>1
  <2>3. G(n + 1, h)
      BY <2>2
  <2>4. n + 1 \in Nat /\ \E f : G(n + 1, f)
    <3> HIDE DEF h, G
    <3> QED
        BY <2>3
  <2> QED
      BY <2>4
<1>3. S = Nat
  <2> HIDE DEF S
  <2> QED
      BY <1>1, <1>2, Induction, S \subseteq Nat DEF S
<1>4. \E g : G(trx_fmt.ppw, g)
    BY <1>3 DEF Sized
<1> QED
    BY <1>4 DEF PushRun

LEMMA OneMore == \A a, b \in Nat : (a + 1) * b = a * b + b
    OBVIOUS

LEMMA PushKeeps ==
    ASSUME Sized, rrw # 0, ~trx_fmt.packed, NEW s, NEW w \in Nat, NEW k, Holding(s, w * trx_fmt.ppw, k)
    PROVE  Holding(push(s, w), (w + 1) * trx_fmt.ppw, k)
<1> DEFINE P == trx_fmt.ppw
           r == PushRun(s, w)
           S == { n \in Nat : n <= P => Holding(r[n], w * P + n, k) }
<1>1. P \in Nat /\ w * P \in Nat
    BY DEF Sized
<1>2. r = [j \in 0 .. P |-> IF j = 0 THEN s ELSE PutInside(r[j - 1], Px(w, j - 1))]
    BY PushTurns
<1> HIDE DEF r
<1>3. 0 \in S
    BY <1>1, <1>2
<1>4. ASSUME NEW n \in S PROVE n + 1 \in S
  <2> SUFFICES ASSUME n + 1 <= P PROVE Holding(r[n + 1], w * P + (n + 1), k)
      OBVIOUS
  <2>1. n \in Nat /\ n <= P /\ Holding(r[n], w * P + n, k)
      BY <1>1
  <2>2. w * P + n \in Nat /\ Value(w * P + n) = Px(w, n) /\ (w * P + n) + 1 = w * P + (n + 1)
      BY <1>1, <2>1 DEF Value, Px
  <2>3. Holding(PutInside(r[n], Px(w, n)), w * P + (n + 1), k)
      BY <2>1, <2>2, PutNext
  <2>4. r[n + 1] = PutInside(r[n], Px(w, n))
      BY <1>1, <1>2, <2>1
  <2> QED
      BY <2>3, <2>4
<1>5. P \in S
  <2> HIDE DEF S
  <2>1. S = Nat
      BY <1>3, <1>4, Induction, S \subseteq Nat DEF S
  <2> QED
      BY <1>1, <2>1
<1>6. push(s, w) = r[P]
    BY DEF push, PushRun, r
<1>7. w * P + P = (w + 1) * P
  <2> HIDE DEF P
  <2> QED
      BY <1>1, OneMore
<1> QED
    BY <1>1, <1>5, <1>6, <1>7

(***************************************************************************)
(* The packed format: after b bytes, b \div 3 pixels and the rest carried. *)
(***************************************************************************)
Rest(b) == IF b % 3 = 0 THEN <<>> ELSE IF b % 3 = 1 THEN <<b - 1>> ELSE <<b - 2, b - 1>>
PushBytes(s, w) ==
    LET p[k \in 0 .. 8] == IF k = 0 THEN s ELSE PushByte(p[k - 1], 8 * w + k - 1)
    IN  p

LEMMA ByteKeeps ==
    ASSUME Sized, rrw # 0, trx_fmt.packed, NEW s, NEW b \in Nat, Holding(s, b \div 3, Rest(b))
    PROVE  Holding(PushByte(s, b), (b + 1) \div 3, Rest(b + 1))
<1> DEFINE q == b \div 3
<1>1. PICK m, c : /\ s = [mem |-> m, cur |-> c, carry |-> Rest(b)]
                  /\ Placed(m, Lesser(q, Area)) /\ Behind(c, Lesser(q, Area))
    BY DEF Holding
<1>2. q \in Nat /\ b % 3 \in 0 .. 2 /\ b = 3 * q + (b % 3)
    BY PlaceOf
<1>3. s.carry = Rest(b)
    BY <1>1
<1>4. CASE b % 3 = 0
  <2>1. (b + 1) \div 3 = q /\ (b + 1) % 3 = 1
      BY <1>2, <1>4
  <2>2. Rest(b) = <<>> /\ Rest(b + 1) = <<b>>
      BY <1>4, <2>1 DEF Rest
  <2>3. PushByte(s, b) = [mem |-> m, cur |-> c, carry |-> <<b>>]
    <3>1. Len(s.carry) < 2 /\ Append(s.carry, b) = <<b>>
        BY <1>3, <2>2, Appended
    <3> QED
        BY <1>1, <3>1 DEF PushByte
  <2> QED
      BY <1>1, <2>1, <2>2, <2>3 DEF Holding
<1>5. CASE b % 3 = 1
  <2>1. (b + 1) \div 3 = q /\ (b + 1) % 3 = 2
      BY <1>2, <1>5
  <2>2. Rest(b) = <<b - 1>> /\ Rest(b + 1) = <<b - 1, b>>
      BY <1>5, <2>1 DEF Rest
  <2>3. PushByte(s, b) = [mem |-> m, cur |-> c, carry |-> <<b - 1, b>>]
    <3>1. Len(s.carry) < 2 /\ Append(s.carry, b) = <<b - 1, b>>
        BY <1>3, <2>2, Appended
    <3> QED
        BY <1>1, <3>1 DEF PushByte
  <2> QED
      BY <1>1, <2>1, <2>2, <2>3 DEF Holding
<1>6. CASE b % 3 = 2
  <2>1. (b + 1) \div 3 = q + 1 /\ (b + 1) % 3 = 0
      BY <1>2, <1>6
  <2>2. Rest(b) = <<b - 2, b - 1>> /\ Rest(b + 1) = <<>>
      BY <1>6, <2>1 DEF Rest
  <2>3. ~(Len(s.carry) < 2) /\ Append(s.carry, b) = Value(q)
    <3>1. Append(s.carry, b) = <<b - 2, b - 1, b>> /\ ~(Len(s.carry) < 2)
      <4>1. Append(<<b - 2, b - 1>>, b) = <<b - 2, b - 1, b>> /\ Len(<<b - 2, b - 1>>) = 2
          BY Appended, Zenon
      <4>2. s.carry = <<b - 2, b - 1>>
          BY <1>3, <2>2
      <4> QED
          BY <4>1, <4>2
    <3>2. Value(q) = <<b - 2, b - 1, b>>
        BY <1>2, <1>6 DEF Value
    <3> QED
        BY <3>1, <3>2
  <2> DEFINE t == [s EXCEPT !.carry = <<>>]
  <2>4. PushByte(s, b) = PutInside(t, Value(q))
      BY <2>3 DEF PushByte
  <2>5. Holding(t, q, <<>>)
      BY <1>1 DEF Holding
  <2> HIDE DEF t
  <2>6. Holding(PutInside(t, Value(q)), q + 1, <<>>)
      BY <1>2, <2>5, PutNext
  <2> QED
      BY <2>1, <2>2, <2>4, <2>6
<1> QED
    BY <1>2, <1>4, <1>5, <1>6

LEMMA ByteTurns ==
    ASSUME NEW s, NEW w
    PROVE  PushBytes(s, w) = [k \in 0 .. 8 |-> IF k = 0 THEN s ELSE PushByte(PushBytes(s, w)[k - 1], 8 * w + k - 1)]
<1> DEFINE G(n, g) == g = [k \in 0 .. n |-> IF k = 0 THEN s ELSE PushByte(g[k - 1], 8 * w + k - 1)]
           S == { n \in Nat : \E g : G(n, g) }
<1>1. 0 \in S
  <2>1. G(0, [k \in 0 .. 0 |-> s])
      OBVIOUS
  <2> QED
      BY <2>1
<1>2. ASSUME NEW n \in S PROVE n + 1 \in S
  <2>1. PICK g : G(n, g)
      OBVIOUS
  <2> DEFINE h == [k \in 0 .. n + 1 |-> IF k <= n THEN g[k] ELSE PushByte(g[n], 8 * w + (n + 1) - 1)]
  <2>2. \A k \in 0 .. n + 1 : h[k] = IF k = 0 THEN s ELSE PushByte(h[k - 1], 8 * w + k - 1)
      BY <2>1
  <2>3. G(n + 1, h)
      BY <2>2
  <2>4. n + 1 \in Nat /\ \E f : G(n + 1, f)
    <3> HIDE DEF h, G
    <3> QED
        BY <2>3
  <2> QED
      BY <2>4
<1>3. S = Nat
  <2> HIDE DEF S
  <2> QED
      BY <1>1, <1>2, Induction, S \subseteq Nat DEF S
<1>4. \E g : G(8, g)
    BY <1>3
<1> QED
    BY <1>4 DEF PushBytes

LEMMA Push24Keeps ==
    ASSUME Sized, rrw # 0, trx_fmt.packed, NEW s, NEW w \in Nat, Holding(s, (8 * w) \div 3, Rest(8 * w))
    PROVE  Holding(push24(s, w), (8 * (w + 1)) \div 3, Rest(8 * (w + 1)))
<1> DEFINE r == PushBytes(s, w)
           T(n) == Holding(r[n], (8 * w + n) \div 3, Rest(8 * w + n))
<1>1. r = [j \in 0 .. 8 |-> IF j = 0 THEN s ELSE PushByte(r[j - 1], 8 * w + j - 1)]
    BY ByteTurns
<1> HIDE DEF r
<1>2. T(0)
    BY <1>1
<1>3. ASSUME NEW n \in 0 .. 7, T(n) PROVE T(n + 1)
  <2>1. r[n + 1] = PushByte(r[n], 8 * w + n)
      BY <1>1
  <2>2. 8 * w + n \in Nat /\ (8 * w + n) + 1 = 8 * w + (n + 1)
      OBVIOUS
  <2> QED
      BY <1>3, <2>1, <2>2, ByteKeeps
<1> HIDE DEF T
<1>4. T(1) /\ T(2) /\ T(3) /\ T(4)
    BY <1>2, <1>3, 0 + 1 = 1, 1 + 1 = 2, 2 + 1 = 3, 3 + 1 = 4
<1>5. T(5) /\ T(6) /\ T(7) /\ T(8)
    BY <1>3, <1>4, 4 + 1 = 5, 5 + 1 = 6, 6 + 1 = 7, 7 + 1 = 8
<1>6. push24(s, w) = r[8]
    BY DEF push24, PushBytes, r
<1>7. 8 * w + 8 = 8 * (w + 1)
    OBVIOUS
<1> QED
    BY <1>5, <1>6, <1>7 DEF T

(***************************************************************************)
(* image_rows: a piece of a row is the next pixels of the stream.          *)
(***************************************************************************)
LEMMA Ordered == \A a, b, d \in Nat : a <= b => a * d <= b * d
    OBVIOUS
LEMMA Spread == \A a, b, d \in Nat : (a + b) * d = a * d + b * d
    OBVIOUS

Reached(first, wi, sub) == (first + wi) * trx_fmt.ppw + sub
\* k turns into a run of n words.
Running(s, first, n, k) ==
    \E m, c, q, wi, sub :
        /\ s = [mem |-> m, cur |-> c, carry |-> q, first |-> first, wi |-> wi, sub |-> sub]
        /\ wi \in 0 .. n /\ sub \in 0 .. trx_fmt.ppw - 1 /\ (wi = n => sub = 0)
        /\ Placed(m, Lesser(Reached(first, wi, sub), Area))
        /\ Behind(c, Lesser(Reached(first, wi, sub), Area))
        /\ q = <<>>
        /\ c.y >= rrh \/ wi = n \/ Reached(first, wi, sub) >= first * trx_fmt.ppw + k

\* RowRun by the parts of its state.
RunOf(s, m, c, first, wi, sub, count) ==
    LET row == { <<c.x + k, c.y>> : k \in 0 .. count - 1 }
        put == Over([p \in row |-> Px(first + wi, sub + p[1] - c.x)], m)
        full == sub + count = trx_fmt.ppw
    IN  [s EXCEPT !.mem = put,
                  !.cur = IF c.x + count >= rrw THEN [x |-> 0, y |-> c.y + 1] ELSE [x |-> c.x + count, y |-> c.y],
                  !.sub = IF full THEN 0 ELSE sub + count, !.wi = IF full THEN wi + 1 ELSE wi]
LEMMA RowRunIs == \A s : RowRun(s) = RunOf(s, s.mem, s.cur, s.first, s.wi, s.sub, Piece(s))
    BY DEF RowRun, RunOf

LEMMA RowKeeps ==
    ASSUME Sized, rrw # 0, ~trx_fmt.packed, NEW s, NEW first \in Nat, NEW n \in Nat, NEW k \in Nat,
           Running(s, first, n, k)
    PROVE  Running(NextRun(s, n), first, n, k + 1)
<1> DEFINE P == trx_fmt.ppw
<1>1. PICK m, c, q, wi, sub :
        /\ s = [mem |-> m, cur |-> c, carry |-> q, first |-> first, wi |-> wi, sub |-> sub]
        /\ wi \in 0 .. n /\ sub \in 0 .. P - 1 /\ (wi = n => sub = 0)
        /\ Placed(m, Lesser(Reached(first, wi, sub), Area))
        /\ Behind(c, Lesser(Reached(first, wi, sub), Area))
        /\ q = <<>>
        /\ c.y >= rrh \/ wi = n \/ Reached(first, wi, sub) >= first * P + k
    BY DEF Running
<1> DEFINE b == Reached(first, wi, sub)
           base == (first + wi) * P
<1>2. P \in Nat \ {0} /\ rrw \in Nat \ {0} /\ base \in Nat /\ b = base + sub /\ b \in Nat /\ Area \in Nat
      /\ first * P \in Nat
  <2>1. P \in Nat \ {0} /\ rrw \in Nat \ {0} /\ first + wi \in Nat /\ Area \in Nat
      BY <1>1, AreaIsNat DEF Sized
  <2> HIDE DEF P
  <2>2. base \in Nat /\ first * P \in Nat
      BY <2>1
  <2>3. b = base + sub
      BY DEF Reached, P
  <2> HIDE DEF base, b
  <2> QED
      BY <1>1, <2>1, <2>2, <2>3
<1>3. s.cur = c /\ s.wi = wi /\ s.sub = sub /\ s.first = first /\ s.mem = m /\ s.carry = q
    BY <1>1
<1>4. CASE c.y >= rrh \/ wi >= n
  <2>1. NextRun(s, n) = s
      BY <1>3, <1>4 DEF NextRun
  <2>2. c.y >= rrh \/ wi = n
      BY <1>1, <1>4
  <2> QED
      BY <1>1, <2>1, <2>2 DEF Running
<1>5. CASE ~(c.y >= rrh \/ wi >= n)
  <2> DEFINE e == Lesser(b, Area)
             count == Min({P - sub, rrw - c.x})
  <2>1. /\ c.x \in 0 .. rrw - 1 /\ c.y \in Nat /\ c = [x |-> c.x, y |-> c.y] /\ (c.y >= rrh <=> e = Area)
        /\ e \in Nat
      BY <1>1, CursorMeans
  <2>2. e = b /\ b < Area
    <3> HIDE DEF b
    <3> QED
        BY <1>2, <1>5, <2>1 DEF Lesser
  <2>3. count \in Nat \ {0} /\ count <= P - sub /\ count <= rrw - c.x
    <3> DEFINE u == P - sub
               v == rrw - c.x
    <3>1. u \in Nat \ {0} /\ v \in Nat \ {0}
      <4>1. P \in Nat /\ sub \in 0 .. P - 1 /\ rrw \in Nat /\ c.x \in 0 .. rrw - 1
          BY <1>1, <1>2, <2>1
      <4> HIDE DEF P
      <4> QED
          BY <4>1
    <3> HIDE DEF u, v
    <3>2. Min({u, v}) \in Nat \ {0} /\ Min({u, v}) <= u /\ Min({u, v}) <= v
        BY <3>1 DEF Min
    <3> QED
        BY <3>2 DEF u, v
  <2>4. Piece(s) = count
      BY <1>3 DEF Piece
  <2> HIDE DEF count
  <2> DEFINE d == IF c.x + count >= rrw THEN [x |-> 0, y |-> c.y + 1] ELSE [x |-> c.x + count, y |-> c.y]
             row == { <<c.x + i, c.y>> : i \in 0 .. count - 1 }
             f == [p \in row |-> Px(first + wi, sub + p[1] - c.x)]
             full == sub + count = P
             wi2 == IF full THEN wi + 1 ELSE wi
             sub2 == IF full THEN 0 ELSE sub + count
  <2>5. NextRun(s, n) = [mem |-> Over(f, m), cur |-> d, carry |-> q, first |-> first, wi |-> wi2, sub |-> sub2]
    <3>1. NextRun(s, n) = RowRun(s)
        BY <1>3, <1>5 DEF NextRun
    <3>2. RowRun(s) = RunOf(s, m, c, first, wi, sub, count)
        BY <1>3, <2>4, RowRunIs
    <3>3. RunOf(s, m, c, first, wi, sub, count) = [s EXCEPT !.mem = Over(f, m), !.cur = d, !.sub = sub2, !.wi = wi2]
        BY Zenon DEF RunOf
    <3> HIDE DEF Over, d, row, f, sub2, wi2
    <3> QED
        BY <1>1, <3>1, <3>2, <3>3
  <2>6. wi2 \in 0 .. n /\ sub2 \in 0 .. P - 1 /\ (wi2 = n => sub2 = 0)
    <3> HIDE DEF P
    <3> QED
        BY <1>1, <1>2, <1>5, <2>3
  <2>7. Reached(first, wi2, sub2) = b + count
    <3>1. CASE full
      <4>1. Reached(first, wi2, sub2) = ((first + wi) + 1) * P
        <5>1. Reached(first, wi2, sub2) = (first + (wi + 1)) * P + 0
            BY <3>1 DEF Reached
        <5>2. first + (wi + 1) = (first + wi) + 1 /\ (first + wi) + 1 \in Nat
            BY <1>1
        <5> HIDE DEF P
        <5> QED
            BY <1>2, <5>1, <5>2
      <4>2. ((first + wi) + 1) * P = base + P
        <5>1. first + wi \in Nat
            BY <1>1
        <5> HIDE DEF P
        <5> QED
            BY <1>2, <5>1, OneMore
      <4> HIDE DEF base, P, b
      <4> QED
          BY <1>1, <1>2, <2>3, <3>1, <4>1, <4>2
    <3>2. CASE ~full
      <4>1. Reached(first, wi2, sub2) = base + (sub + count)
          BY <3>2 DEF Reached
      <4> HIDE DEF base, P, b
      <4> QED
          BY <1>1, <1>2, <2>3, <3>2, <4>1
    <3> QED
        BY <3>1, <3>2
  <2>8. /\ b + count <= Area /\ Behind(d, b + count)
        /\ \A i \in 0 .. count - 1 : Place(b + i) = <<c.x + i, c.y>>
    <3>1. c.x + count <= rrw /\ count > 0 /\ count \in Nat
        BY <1>2, <2>1, <2>3
    <3>2. Behind(c, b)
        BY <1>1, <2>2
    <3> HIDE DEF b
    <3> QED
        BY <2>2, <3>1, <3>2, Further
  <2>9. Placed(Over(f, m), b + count)
    <3>1. f = [p \in DOMAIN f |-> f[p]] /\ DOMAIN f = { Place(b + i) : i \in 0 .. count - 1 }
      <4>1. row = { Place(b + i) : i \in 0 .. count - 1 }
          BY <2>8
      <4> QED
          BY <4>1
    <3>2. \A i \in 0 .. count - 1 : f[Place(b + i)] = Value(b + i)
      <4> SUFFICES ASSUME NEW i \in 0 .. count - 1 PROVE f[Place(b + i)] = Value(b + i)
          OBVIOUS
      <4>1. Place(b + i) = <<c.x + i, c.y>> /\ <<c.x + i, c.y>> \in row
          BY <2>8
      <4>2. f[Place(b + i)] = Px(first + wi, sub + (c.x + i) - c.x)
          BY <4>1
      <4>3. sub + (c.x + i) - c.x = sub + i
          BY <1>1, <2>1, <2>3
      <4>4. Px(first + wi, sub + i) = base + (sub + i)
          BY DEF Px
      <4>5. Value(b + i) = b + i
          BY DEF Value
      <4> HIDE DEF b, base, f, row
      <4> QED
          BY <1>1, <1>2, <2>3, <4>2, <4>3, <4>4, <4>5
    <3>3. Placed(m, b)
        BY <1>1, <2>2
    <3> HIDE DEF f, b
    <3> QED
        BY <1>2, <2>3, <3>1, <3>2, <3>3, PlacedMore
  <2>10. Lesser(b + count, Area) = b + count
      BY <1>2, <2>3, <2>8 DEF Lesser
  <2>11. wi2 = n \/ b + count >= first * P + (k + 1)
    <3>1. b >= first * P + k
        BY <1>1, <1>5
    <3> HIDE DEF b, P
    <3> QED
        BY <1>2, <2>3, <3>1
  <2>12. \E m2, c2, q2, w2, s2 :
            /\ NextRun(s, n) = [mem |-> m2, cur |-> c2, carry |-> q2, first |-> first, wi |-> w2, sub |-> s2]
            /\ w2 \in 0 .. n /\ s2 \in 0 .. P - 1 /\ (w2 = n => s2 = 0)
            /\ Placed(m2, Lesser(Reached(first, w2, s2), Area))
            /\ Behind(c2, Lesser(Reached(first, w2, s2), Area))
            /\ q2 = <<>>
            /\ c2.y >= rrh \/ w2 = n \/ Reached(first, w2, s2) >= first * P + (k + 1)
    <3> HIDE DEF P, b, d, f, row, full, wi2, sub2
    <3> QED
        BY <1>1, <2>5, <2>6, <2>7, <2>8, <2>9, <2>10, <2>11
  <2> QED
      BY <2>12 DEF Running
<1> QED
    BY <1>4, <1>5

RowTurns(s, n) ==
    LET p[k \in 0 .. n * trx_fmt.ppw] ==
            IF k = 0 THEN s ELSE NextRun(p[k - 1], n)
    IN  p

LEMMA RowTurnsAre ==
    ASSUME Sized, NEW s, NEW n \in Nat
    PROVE  RowTurns(s, n) = [k \in 0 .. n * trx_fmt.ppw |-> IF k = 0 THEN s ELSE NextRun(RowTurns(s, n)[k - 1], n)]
<1> DEFINE G(t, g) == g = [k \in 0 .. t |-> IF k = 0 THEN s ELSE NextRun(g[k - 1], n)]
           S == { t \in Nat : \E g : G(t, g) }
<1>1. 0 \in S
  <2>1. G(0, [k \in 0 .. 0 |-> s])
      OBVIOUS
  <2> QED
      BY <2>1
<1>2. ASSUME NEW t \in S PROVE t + 1 \in S
  <2>1. PICK g : G(t, g)
      OBVIOUS
  <2> DEFINE h == [k \in 0 .. t + 1 |-> IF k <= t THEN g[k] ELSE NextRun(g[t], n)]
  <2>2. \A k \in 0 .. t + 1 : h[k] = IF k = 0 THEN s ELSE NextRun(h[k - 1], n)
      BY <2>1
  <2>3. G(t + 1, h)
      BY <2>2
  <2>4. t + 1 \in Nat /\ \E f : G(t + 1, f)
    <3> HIDE DEF h, G
    <3> QED
        BY <2>3
  <2> QED
      BY <2>4
<1>3. S = Nat
  <2> HIDE DEF S
  <2> QED
      BY <1>1, <1>2, Induction, S \subseteq Nat DEF S
<1>4. \E g : G(n * trx_fmt.ppw, g)
  <2>1. n * trx_fmt.ppw \in Nat
      BY DEF Sized
  <2> QED
      BY <1>3, <2>1
<1> QED
    BY <1>4 DEF RowTurns

Starting(s, m, c, first) ==
    s = [mem |-> m, cur |-> c, carry |-> <<>>, first |-> first, wi |-> 0, sub |-> 0]
LEMMA RowsKeep ==
    ASSUME Sized, rrw # 0, ~trx_fmt.packed, NEW first \in Nat, NEW n \in Nat, NEW m, NEW c,
           Holding([mem |-> m, cur |-> c, carry |-> <<>>], first * trx_fmt.ppw, <<>>),
           NEW s, Starting(s, m, c, first)
    PROVE  LET e == image_rows(s, n)
           IN  Holding([mem |-> e.mem, cur |-> e.cur, carry |-> e.carry], (first + n) * trx_fmt.ppw, <<>>)
<1> DEFINE P == trx_fmt.ppw
           r == RowTurns(s, n)
           N == n * P
           S == { k \in Nat : k <= N => Running(r[k], first, n, k) }
<1>1. P \in Nat \ {0} /\ N \in Nat /\ first * P \in Nat /\ Area \in Nat
  <2>1. P \in Nat \ {0} /\ Area \in Nat
      BY AreaIsNat DEF Sized
  <2> HIDE DEF P
  <2> QED
      BY <2>1
<1>2. r = [k \in 0 .. N |-> IF k = 0 THEN s ELSE NextRun(r[k - 1], n)]
  <2> HIDE DEF r, NextRun
  <2>1. RowTurns(s, n) = [k \in 0 .. n * trx_fmt.ppw |-> IF k = 0 THEN s ELSE NextRun(RowTurns(s, n)[k - 1], n)]
      BY RowTurnsAre, Zenon
  <2> QED
      BY <2>1, Zenon DEF r
<1> HIDE DEF r
<1>3. 0 \in S
  <2>1. Placed(m, Lesser(first * P, Area)) /\ Behind(c, Lesser(first * P, Area))
    <3> HIDE DEF Placed, Behind, Lesser
    <3> QED
        BY Zenon DEF Holding
  <2>2. Reached(first, 0, 0) = first * P /\ first * P + 0 = first * P
    <3>1. Reached(first, 0, 0) = (first + 0) * P + 0 /\ first + 0 = first
        BY DEF Reached
    <3> HIDE DEF P
    <3> QED
        BY <1>1, <3>1
  <2>3. 0 \in 0 .. n /\ 0 \in 0 .. P - 1
      BY <1>1
  <2>4. Running(s, first, n, 0)
    <3> HIDE DEF P
    <3>1. \E wi, sub : /\ s = [mem |-> m, cur |-> c, carry |-> <<>>, first |-> first, wi |-> wi, sub |-> sub]
                       /\ wi \in 0 .. n /\ sub \in 0 .. P - 1 /\ (wi = n => sub = 0)
                       /\ Placed(m, Lesser(Reached(first, wi, sub), Area))
                       /\ Behind(c, Lesser(Reached(first, wi, sub), Area))
                       /\ Reached(first, wi, sub) >= first * P + 0
      <4>1. Reached(first, 0, 0) >= first * P + 0
          BY <1>1, <2>2
      <4> QED
          BY <2>1, <2>2, <2>3, <4>1 DEF Starting
    <3> QED
        BY <3>1 DEF Running, P
  <2>5. r[0] = s
      BY <1>1, <1>2
  <2> QED
      BY <2>4, <2>5
<1>4. ASSUME NEW k \in S PROVE k + 1 \in S
  <2> SUFFICES ASSUME k + 1 <= N PROVE Running(r[k + 1], first, n, k + 1)
      OBVIOUS
  <2>1. k \in Nat /\ k <= N /\ Running(r[k], first, n, k)
      BY <1>1
  <2>2. Running(NextRun(r[k], n), first, n, k + 1)
      BY <2>1, RowKeeps
  <2>3. r[k + 1] = NextRun(r[k], n)
    <3>1. k + 1 \in 0 .. N /\ k + 1 # 0 /\ (k + 1) - 1 = k
        BY <1>1, <2>1
    <3> HIDE DEF N
    <3> QED
        BY <1>2, <3>1
  <2> QED
      BY <2>2, <2>3
<1>5. Running(r[N], first, n, N)
  <2> HIDE DEF S
  <2>1. S = Nat
      BY <1>3, <1>4, Induction, S \subseteq Nat DEF S
  <2> HIDE DEF N
  <2> QED
      BY <1>1, <2>1 DEF S
<1>6. image_rows(s, n) = r[N]
    BY DEF image_rows, RowTurns, r
<1>7. PICK m2, c2, q, wi, sub :
        /\ r[N] = [mem |-> m2, cur |-> c2, carry |-> q, first |-> first, wi |-> wi, sub |-> sub]
        /\ wi \in 0 .. n /\ sub \in 0 .. P - 1 /\ (wi = n => sub = 0)
        /\ Placed(m2, Lesser(Reached(first, wi, sub), Area))
        /\ Behind(c2, Lesser(Reached(first, wi, sub), Area))
        /\ q = <<>>
        /\ c2.y >= rrh \/ wi = n \/ Reached(first, wi, sub) >= first * P + N
    BY <1>5 DEF Running
<1> DEFINE b == Reached(first, wi, sub)
           end == (first + n) * P
<1>8. b = (first + wi) * P + sub /\ b \in Nat /\ end \in Nat /\ end = first * P + N
  <2>1. b = (first + wi) * P + sub
      BY DEF Reached
  <2>2. first + wi \in Nat /\ first + n \in Nat /\ sub \in Nat
      BY <1>1, <1>7
  <2> HIDE DEF P, b
  <2>3. (first + wi) * P \in Nat /\ end \in Nat
      BY <1>1, <2>2
  <2>4. end = first * P + N
      BY <1>1, Spread
  <2> QED
      BY <2>1, <2>2, <2>3, <2>4
<1>9. Lesser(b, Area) = Lesser(end, Area)
  <2>1. CASE wi = n
    <3>1. b = end
      <4>1. sub = 0 /\ (first + wi) * P = end
          BY <1>7, <2>1
      <4> HIDE DEF b, end
      <4> QED
          BY <1>8, <4>1
    <3> QED
        BY <3>1
  <2>2. CASE wi # n /\ c2.y >= rrh
    <3>1. Lesser(b, Area) = Area
        BY <1>7, <2>2, CursorMeans
    <3>2. b >= Area
      <4> HIDE DEF b
      <4> QED
          BY <1>1, <1>8, <3>1 DEF Lesser
    <3>3. b <= end
      <4>1. (first + wi) + 1 <= first + n /\ (first + wi) + 1 \in Nat /\ first + n \in Nat
            /\ first + wi \in Nat /\ sub \in Nat /\ sub < P
        <5>1. wi \in 0 .. n /\ sub \in 0 .. P - 1 /\ wi # n
            BY <1>7, <2>2
        <5> HIDE DEF P
        <5> QED
            BY <1>1, <5>1
      <4> HIDE DEF P
      <4>2. ((first + wi) + 1) * P <= end
          BY <1>1, <4>1, Ordered
      <4>3. ((first + wi) + 1) * P = (first + wi) * P + P
          BY <1>1, <4>1, OneMore
      <4>4. (first + wi) * P \in Nat
          BY <1>1, <4>1
      <4> DEFINE u == (first + wi) * P
      <4> HIDE DEF u, b, end
      <4> QED
          BY <1>1, <1>8, <4>1, <4>2, <4>3, <4>4 DEF u
    <3> HIDE DEF b, end
    <3> QED
        BY <1>1, <1>8, <3>2, <3>3 DEF Lesser
  <2>3. CASE wi # n /\ b >= first * P + N
    <3>1. b < end
      <4>1. (first + wi) + 1 <= first + n /\ (first + wi) + 1 \in Nat /\ first + n \in Nat
            /\ first + wi \in Nat /\ sub \in Nat /\ sub < P
        <5>1. wi \in 0 .. n /\ sub \in 0 .. P - 1 /\ wi # n
            BY <1>7, <2>3
        <5> HIDE DEF P
        <5> QED
            BY <1>1, <5>1
      <4> HIDE DEF P
      <4>2. ((first + wi) + 1) * P <= end
          BY <1>1, <4>1, Ordered
      <4>3. ((first + wi) + 1) * P = (first + wi) * P + P
          BY <1>1, <4>1, OneMore
      <4>4. (first + wi) * P \in Nat
          BY <1>1, <4>1
      <4> DEFINE u == (first + wi) * P
      <4> HIDE DEF u, b, end
      <4> QED
          BY <1>1, <1>8, <4>1, <4>2, <4>3, <4>4 DEF u
    <3> HIDE DEF b, end
    <3> QED
        BY <1>8, <2>3, <3>1
  <2> QED
      BY <1>7, <2>1, <2>2, <2>3
<1>10. /\ r[N].mem = m2 /\ r[N].cur = c2 /\ r[N].carry = <<>>
    BY <1>7
<1> HIDE DEF N, P, b, end
<1> QED
    BY <1>6, <1>7, <1>9, <1>10 DEF Holding, b, end, P

(***************************************************************************)
(* A word, a run of words, and a transfer so far.                          *)
(***************************************************************************)
Landed(s, n) ==
    IF trx_fmt.packed THEN Holding(s, (8 * n) \div 3, Rest(8 * n))
    ELSE Holding(s, n * trx_fmt.ppw, <<>>)
WordRun(s, first, n) ==
    LET p[k \in 0 .. n] == IF k = 0 THEN s ELSE Hwreg(p[k - 1], first + k - 1)
    IN  p

LEMMA HwregKeeps ==
    ASSUME Sized, rrw # 0, NEW s, NEW w \in Nat, Landed(s, w)
    PROVE  Landed(Hwreg(s, w), w + 1)
<1>1. CASE trx_fmt.packed
  <2>1. Holding(push24(s, w), (8 * (w + 1)) \div 3, Rest(8 * (w + 1)))
      BY <1>1, Push24Keeps DEF Landed
  <2> QED
      BY <1>1, <2>1 DEF Landed, Hwreg
<1>2. CASE ~trx_fmt.packed
  <2>1. Holding(push(s, w), (w + 1) * trx_fmt.ppw, <<>>)
      BY <1>2, PushKeeps DEF Landed
  <2> QED
      BY <1>2, <2>1 DEF Landed, Hwreg
<1> QED
    BY <1>1, <1>2

LEMMA WordTurns ==
    ASSUME NEW s, NEW first, NEW n \in Nat
    PROVE  WordRun(s, first, n) = [k \in 0 .. n |-> IF k = 0 THEN s ELSE Hwreg(WordRun(s, first, n)[k - 1], first + k - 1)]
<1> DEFINE G(t, g) == g = [k \in 0 .. t |-> IF k = 0 THEN s ELSE Hwreg(g[k - 1], first + k - 1)]
           S == { t \in Nat : \E g : G(t, g) }
<1>1. 0 \in S
  <2>1. G(0, [k \in 0 .. 0 |-> s])
      OBVIOUS
  <2> QED
      BY <2>1
<1>2. ASSUME NEW t \in S PROVE t + 1 \in S
  <2>1. PICK g : G(t, g)
      OBVIOUS
  <2> DEFINE h == [k \in 0 .. t + 1 |-> IF k <= t THEN g[k] ELSE Hwreg(g[t], first + (t + 1) - 1)]
  <2>2. \A k \in 0 .. t + 1 : h[k] = IF k = 0 THEN s ELSE Hwreg(h[k - 1], first + k - 1)
      BY <2>1
  <2>3. G(t + 1, h)
      BY <2>2
  <2>4. t + 1 \in Nat /\ \E f : G(t + 1, f)
    <3> HIDE DEF h, G
    <3> QED
        BY <2>3
  <2> QED
      BY <2>4
<1>3. S = Nat
  <2> HIDE DEF S
  <2> QED
      BY <1>1, <1>2, Induction, S \subseteq Nat DEF S
<1>4. \E g : G(n, g)
    BY <1>3
<1> QED
    BY <1>4 DEF WordRun

\* Words as they come; a rectangle without width takes none.
LEMMA WordsKeep ==
    ASSUME Sized, NEW s, NEW first \in Nat, NEW n \in Nat
    PROVE  /\ rrw # 0 /\ Landed(s, first) => Landed(Words(s, first, n), first + n)
           /\ rrw = 0 => Words(s, first, n) = s
<1> DEFINE r == WordRun(s, first, n)
           T(k) == /\ rrw # 0 /\ Landed(s, first) => Landed(r[k], first + k)
                   /\ rrw = 0 => r[k] = s
           S == { k \in Nat : k <= n => T(k) }
<1>1. r = [k \in 0 .. n |-> IF k = 0 THEN s ELSE Hwreg(r[k - 1], first + k - 1)]
    BY WordTurns
<1> HIDE DEF r
<1>2. 0 \in S
    BY <1>1
<1>3. ASSUME NEW k \in S PROVE k + 1 \in S
  <2> SUFFICES ASSUME k + 1 <= n PROVE T(k + 1)
      OBVIOUS
  <2>1. k \in Nat /\ k <= n /\ T(k)
      OBVIOUS
  <2>2. r[k + 1] = Hwreg(r[k], first + k)
      BY <1>1, <2>1
  <2>3. first + k \in Nat /\ (first + k) + 1 = first + (k + 1)
      BY <2>1
  <2>4. rrw # 0 /\ Landed(s, first) => Landed(r[k + 1], first + (k + 1))
      BY <2>1, <2>2, <2>3, HwregKeeps
  <2>5. rrw = 0 => r[k + 1] = s
      BY <2>1, <2>2 DEF Hwreg
  <2> QED
      BY <2>4, <2>5
<1>4. T(n)
  <2> HIDE DEF S
  <2>1. S = Nat
      BY <1>2, <1>3, Induction, S \subseteq Nat DEF S
  <2> HIDE DEF T
  <2> QED
      BY <2>1 DEF S
<1>5. Words(s, first, n) = r[n]
    BY DEF Words, WordRun, r
<1> QED
    BY <1>4, <1>5

Carried(s) == [mem |-> s.mem, cur |-> s.cur, carry |-> s.carry]
LEMMA HoldingKept ==
    ASSUME NEW s, NEW b, NEW k, Holding(s, b, k)
    PROVE  Carried(s) = s
    BY DEF Holding, Carried
LEMMA LandedKept ==
    ASSUME NEW s, NEW n, Landed(s, n)
    PROVE  Carried(s) = s
    BY HoldingKept DEF Landed

LEMMA ImageKeeps ==
    ASSUME Sized, rrw # 0, NEW s, NEW first \in Nat, NEW n \in Nat, Landed(s, first)
    PROVE  Landed(Carried(Image(s, first, n)), first + n)
<1>1. CASE trx_fmt.packed
  <2>1. Landed(Words(s, first, n), first + n)
      BY WordsKeep
  <2> QED
      BY <1>1, <2>1, LandedKept DEF Image
<1>2. CASE ~trx_fmt.packed
  <2> DEFINE t == [mem |-> s.mem, cur |-> s.cur, carry |-> s.carry, first |-> first, wi |-> 0, sub |-> 0]
  <2>1. Holding(s, first * trx_fmt.ppw, <<>>)
      BY <1>2 DEF Landed
  <2>2. s = [mem |-> s.mem, cur |-> s.cur, carry |-> <<>>]
      BY <2>1 DEF Holding
  <2>3. Starting(t, s.mem, s.cur, first)
    <3>1. s.carry = <<>>
        BY <2>2
    <3> QED
        BY <3>1 DEF Starting
  <2> HIDE DEF t
  <2>4. Holding(Carried(image_rows(t, n)), (first + n) * trx_fmt.ppw, <<>>)
    <3> DEFINE m == s.mem
               c == s.cur
    <3>1. Holding([mem |-> m, cur |-> c, carry |-> <<>>], first * trx_fmt.ppw, <<>>) /\ Starting(t, m, c, first)
        BY <2>1, <2>2, <2>3
    <3> HIDE DEF m, c
    <3> QED
        BY <1>2, <3>1, RowsKeep DEF Carried
  <2>5. Image(s, first, n) = image_rows(t, n)
      BY <1>2 DEF Image, t
  <2> QED
      BY <1>2, <2>4, <2>5 DEF Landed
<1> QED
    BY <1>1, <1>2

LEMMA NothingPlaced == Placed(<<>>, 0)
<1>1. <<>> \in Seq({})
    OBVIOUS
<1>2. DOMAIN <<>> = {} /\ <<>> = [p \in {} |-> <<>>[p]]
    BY <1>1
<1> QED
    BY <1>2 DEF Placed

TrxInv ==
    /\ Sized /\ trx_sent \in Nat /\ trx_dir \in {"in", "off"}
    /\ IF trx_dir = "in" /\ rrw # 0 THEN Landed(TrxState, trx_sent) ELSE trx_mem = <<>>

\* However a HOST -> LOCAL transfer is cut into words through HWREG and runs
\* through image, and for every rectangle, its pixels land in raster order from
\* the corner, one each, and none lands past the rectangle.
THEOREM TransferInOrder == GsTransferSpec => []PixelsInRasterOrder
<1>1. GsTransferInit => TrxInv
    BY DEF GsTransferInit, TrxInv, Sized, rrw, rrh
<1>2. TrxInv /\ [GsTransferNext]_trx_vars => TrxInv'
  <2> SUFFICES ASSUME TrxInv, [GsTransferNext]_trx_vars PROVE TrxInv'
      OBVIOUS
  <2>1. CASE WriteTrxdir
    <3>1. PICK d \in {"in", "off"}, w \in TrxWidths, h \in TrxHeights,
               f \in { [ppw |-> n, packed |-> FALSE] : n \in TrxPpw } \cup { [ppw |-> 1, packed |-> TRUE] } :
            /\ trx_dir' = d /\ trx_rect' = <<w, h>> /\ trx_fmt' = f
            /\ trx_cur' = [x |-> 0, y |-> 0] /\ trx_carry' = <<>>
            /\ trx_mem' = <<>> /\ trx_sent' = 0
        BY <2>1, Zenon DEF WriteTrxdir
    <3>2. w \in Nat /\ h \in Nat /\ f \in [ppw : Nat \ {0}, packed : BOOLEAN] /\ (f.packed => f.ppw = 1)
      <4>1. CASE f = [ppw |-> 1, packed |-> TRUE]
          BY <4>1, TrxAssumption
      <4>2. ASSUME NEW n \in TrxPpw, f = [ppw |-> n, packed |-> FALSE]
            PROVE  f \in [ppw : Nat \ {0}, packed : BOOLEAN] /\ (f.packed => f.ppw = 1)
          BY <4>2, TrxAssumption
      <4> QED
          BY <4>1, <4>2, TrxAssumption
    <3>3. Sized'
        BY <3>1, <3>2 DEF Sized, rrw, rrh
    <3>4. ASSUME w # 0 PROVE Landed(TrxState, trx_sent)'
      <4>1. w * h \in Nat /\ Lesser(0, w * h) = 0
          BY <3>2 DEF Lesser
      <4>2. Placed(<<>>, 0)'
          BY NothingPlaced, PTL
      <4>3. Behind([x |-> 0, y |-> 0], 0)'
          BY <3>1, <3>2, <3>4, <4>1 DEF Behind, Area, rrw, rrh
      <4>4. 0 * f.ppw = 0 /\ (8 * 0) \div 3 = 0 /\ Rest(8 * 0) = <<>>
          BY <3>2 DEF Rest
      <4>5. Area' = w * h
          BY <3>1 DEF Area, rrw, rrh
      <4>6. Holding([mem |-> <<>>, cur |-> [x |-> 0, y |-> 0], carry |-> <<>>], 0, <<>>)'
          BY <4>1, <4>2, <4>3, <4>5 DEF Holding
      <4> QED
          BY <3>1, <4>4, <4>6 DEF Landed, TrxState
    <3> QED
        BY <3>1, <3>3, <3>4 DEF TrxInv, rrw
  <2>2. ASSUME NEW n \in Nat, NEW s, Land(s, n),
               trx_dir = "in" /\ rrw # 0 => Landed(Carried(s), trx_sent + n),
               ~(trx_dir = "in" /\ rrw # 0) => s.mem = trx_mem
        PROVE  TrxInv'
    <3>1. /\ trx_mem' = s.mem /\ trx_cur' = s.cur /\ trx_carry' = s.carry /\ trx_sent' = trx_sent + n
          /\ trx_fmt' = trx_fmt /\ trx_dir' = trx_dir /\ trx_rect' = trx_rect
        BY <2>2 DEF Land
    <3>2. Sized' /\ trx_sent' \in Nat /\ trx_dir' \in {"in", "off"} /\ rrw' = rrw
        BY <3>1 DEF TrxInv, Sized, rrw, rrh
    <3>3. CASE trx_dir = "in" /\ rrw # 0
      <4>1. Landed(Carried(s), trx_sent + n)
          BY <2>2, <3>3
      <4>2. TrxState' = Carried(s)
          BY <3>1 DEF TrxState, Carried
      <4>3. Landed(TrxState, trx_sent)' = Landed(TrxState', trx_sent')
          BY <3>1 DEF Landed, Holding, Placed, Behind, Value, Place, Area, rrw, rrh
      <4> QED
          BY <3>1, <3>2, <3>3, <4>1, <4>2, <4>3 DEF TrxInv
    <3>4. CASE ~(trx_dir = "in" /\ rrw # 0)
        BY <2>2, <3>1, <3>2, <3>4 DEF TrxInv
    <3> QED
        BY <3>3, <3>4
  <2>3. Carried(TrxState) = TrxState /\ TrxState.mem = trx_mem
      BY DEF Carried, TrxState
  <2>4. CASE HwregWord
    <3> DEFINE s == IF trx_dir = "in" THEN Hwreg(TrxState, trx_sent) ELSE TrxState
    <3>1. Land(s, 1)
        BY <2>4 DEF HwregWord
    <3>2. ASSUME trx_dir = "in" /\ rrw # 0 PROVE Landed(Carried(s), trx_sent + 1)
      <4>1. Landed(Hwreg(TrxState, trx_sent), trx_sent + 1)
          BY <3>2, HwregKeeps DEF TrxInv
      <4> QED
          BY <3>2, <4>1, LandedKept
    <3>3. ASSUME ~(trx_dir = "in" /\ rrw # 0) PROVE s.mem = trx_mem
        BY <2>3, <3>3 DEF Hwreg
    <3> HIDE DEF s
    <3> QED
        BY <2>2, <3>1, <3>2, <3>3
  <2>5. CASE ImageRun
    <3>1. PICK n \in 1 .. TrxRun : Land(IF trx_dir = "in" THEN Image(TrxState, trx_sent, n) ELSE TrxState, n)
        BY <2>5 DEF ImageRun
    <3> DEFINE s == IF trx_dir = "in" THEN Image(TrxState, trx_sent, n) ELSE TrxState
    <3>2. n \in Nat
        BY TrxAssumption
    <3>3. ASSUME trx_dir = "in" /\ rrw # 0 PROVE Landed(Carried(s), trx_sent + n)
        BY <3>2, <3>3, ImageKeeps DEF TrxInv
    <3>4. ASSUME ~(trx_dir = "in" /\ rrw # 0) PROVE s.mem = trx_mem
        BY <2>3, <3>2, <3>4, WordsKeep DEF Image, TrxInv
    <3>5. Land(s, n)
        BY <3>1
    <3> HIDE DEF s
    <3> QED
        BY <2>2, <3>2, <3>3, <3>4, <3>5
  <2>6. CASE UNCHANGED trx_vars
    <3>1. Landed(TrxState, trx_sent)' = Landed(TrxState, trx_sent)
        BY <2>6 DEF trx_vars, Landed, Holding, Placed, Behind, Value, Place, Area, rrw, rrh, TrxState
    <3> QED
        BY <2>6, <3>1 DEF TrxInv, trx_vars, Sized, rrw, rrh
  <2> QED
      BY <2>1, <2>4, <2>5, <2>6 DEF GsTransferNext
<1>3. TrxInv => PixelsInRasterOrder
  <2> SUFFICES ASSUME TrxInv PROVE PixelsInRasterOrder
      OBVIOUS
  <2> DEFINE n == IF trx_dir = "off" THEN 0 ELSE Min({StreamPx, rrw * rrh})
  <2>1. StreamPx \in Nat /\ Area \in Nat /\ rrw \in Nat /\ rrh \in Nat
    <3>1. trx_sent \in Nat /\ trx_fmt.ppw \in Nat /\ (8 * trx_sent) \div 3 \in Nat
        BY DEF TrxInv, Sized
    <3> QED
        BY <3>1, AreaIsNat DEF TrxInv, Sized, StreamPx
  <2>2. Min({StreamPx, rrw * rrh}) = Lesser(StreamPx, Area)
    <3> DEFINE a == StreamPx
               b == Area
    <3> HIDE DEF a, b
    <3>1. a \in Nat /\ b \in Nat
        BY <2>1 DEF a, b
    <3>2. Min({a, b}) = Lesser(a, b)
        BY <3>1 DEF Min, Lesser
    <3> QED
        BY <3>2 DEF a, b, Area
  <2>3. Placed(trx_mem, n)
    <3>1. CASE trx_dir = "in" /\ rrw # 0
      <4>1. Landed(TrxState, trx_sent)
          BY <3>1 DEF TrxInv
      <4>2. PICK k : Holding(TrxState, StreamPx, k)
          BY <4>1 DEF Landed, StreamPx
      <4>3. PICK m, c : TrxState = [mem |-> m, cur |-> c, carry |-> k] /\ Placed(m, Lesser(StreamPx, Area))
          BY <4>2 DEF Holding
      <4>4. trx_mem = m
          BY <4>3 DEF TrxState
      <4> QED
          BY <2>2, <3>1, <4>3, <4>4
    <3>2. CASE ~(trx_dir = "in" /\ rrw # 0)
      <4>1. trx_mem = <<>>
          BY <3>2 DEF TrxInv
      <4>2. n = 0
        <5>1. CASE trx_dir = "off"
            BY <5>1
        <5>2. CASE trx_dir # "off"
          <6>1. Area = 0
              BY <2>1, <3>2, <5>2 DEF Area, TrxInv
          <6>2. Lesser(StreamPx, Area) = 0
              BY <2>1, <6>1 DEF Lesser
          <6> QED
              BY <2>2, <5>2, <6>2
        <5> QED
            BY <5>1, <5>2
      <4> HIDE DEF n
      <4> QED
          BY <4>1, <4>2, NothingPlaced
    <3> QED
        BY <3>1, <3>2
  <2> QED
      BY <2>3, Zenon DEF PixelsInRasterOrder, Placed, Place, Value
<1> QED
    BY <1>1, <1>2, <1>3, PTL DEF GsTransferSpec

(***************************************************************************)
(* The queue of a kind of primitive, from the vertices since PRIM.         *)
(***************************************************************************)
Vertices == [n : Nat, fog : {0, 1}, ctx : Ctxs]
Queue(k, h) ==
    LET n == Len(h)
    IN  CASE k \in {1, 6} -> IF n % 2 = 0 THEN <<>> ELSE <<h[n]>>
          [] k = 2 -> IF n = 0 THEN <<>> ELSE <<h[n]>>
          [] k = 3 -> IF n % 3 = 0 THEN <<>> ELSE IF n % 3 = 1 THEN <<h[n]>> ELSE <<h[n - 1], h[n]>>
          [] k = 4 -> IF n = 0 THEN <<>> ELSE IF n = 1 THEN <<h[1]>> ELSE <<h[n - 1], h[n]>>
          [] k = 5 -> IF n = 0 THEN <<>> ELSE IF n = 1 THEN <<h[1]>> ELSE <<h[1], h[n]>>
          [] OTHER -> <<>>
VtxInv ==
    /\ gv_prim \in [kind : Kind, ctx : Ctxs] /\ gv_prmode \in Ctxs /\ gv_cont \in BOOLEAN /\ gv_fog \in {0, 1}
    /\ gv_hist \in Seq(Vertices)
    /\ gv_q = Queue(gv_prim.kind, gv_hist)
    /\ PrimitiveOfKicks

\* What a kick of vertex v leaves in the queue and draws.
KickedWell(v) ==
    LET h == Append(gv_hist, v)
        q == Pushed(v)
        want == Completes(Len(h))
    IN  /\ Kept(q) = Queue(gv_prim.kind, h)
        /\ Full(q) => q = [i \in DOMAIN want |-> h[want[i]]]
        /\ ~Full(q) => want = <<>>

LEMMA Three == \A a, b, c : Len(<<a, b, c>>) = 3
    OBVIOUS
LEMMA Picked ==
    ASSUME NEW h, NEW a, NEW b, NEW c
    PROVE  /\ [i \in DOMAIN <<a>> |-> h[<<a>>[i]]] = <<h[a]>>
           /\ [i \in DOMAIN <<a, b>> |-> h[<<a, b>>[i]]] = <<h[a], h[b]>>
           /\ [i \in DOMAIN <<a, b, c>> |-> h[<<a, b, c>>[i]]] = <<h[a], h[b], h[c]>>
<1>1. [i \in DOMAIN <<a>> |-> h[<<a>>[i]]] = <<h[a]>>
    OBVIOUS
<1>2. [i \in DOMAIN <<a, b>> |-> h[<<a, b>>[i]]] = <<h[a], h[b]>>
    OBVIOUS
<1>3. [i \in DOMAIN <<a, b, c>> |-> h[<<a, b, c>>[i]]] = <<h[a], h[b], h[c]>>
    OBVIOUS
<1> QED
    BY <1>1, <1>2, <1>3

LEMMA PushedIs ==
    ASSUME NEW v
    PROVE  /\ gv_q = <<>> => Pushed(v) = <<v>>
           /\ \A a : gv_q = <<a>> => Pushed(v) = <<a, v>>
           /\ \A a, b : gv_q = <<a, b>> => Pushed(v) = <<a, b, v>>
<1>1. ASSUME gv_q = <<>> PROVE Pushed(v) = <<v>>
    BY <1>1, Appended DEF Pushed, QLEN
<1>2. ASSUME NEW a, gv_q = <<a>> PROVE Pushed(v) = <<a, v>>
  <2>1. Len(<<a>>) = 1 /\ Append(<<a>>, v) = <<a, v>>
      BY Appended, Zenon
  <2> QED
      BY <1>2, <2>1 DEF Pushed, QLEN
<1>3. ASSUME NEW a, NEW b, gv_q = <<a, b>> PROVE Pushed(v) = <<a, b, v>>
  <2>1. Len(<<a, b>>) = 2 /\ Append(<<a, b>>, v) = <<a, b, v>>
      BY Appended, Zenon
  <2> QED
      BY <1>3, <2>1 DEF Pushed, QLEN
<1> QED
    BY <1>1, <1>2, <1>3

LEMMA KickKeeps ==
    ASSUME VtxInv, NEW v \in Vertices
    PROVE  KickedWell(v)
<1> DEFINE n == Len(gv_hist)
           h == Append(gv_hist, v)
           q == Pushed(v)
           k == gv_prim.kind
           want == Completes(Len(h))
<1>1. n \in Nat /\ Len(h) = n + 1 /\ h[n + 1] = v /\ \A i \in 1 .. n : h[i] = gv_hist[i]
    BY AppendProperties DEF VtxInv
<1>2. gv_q = Queue(k, gv_hist) /\ k \in 0 .. 7
    BY DEF VtxInv, Kind
<1>3. ASSUME Kept(q) = Queue(k, h), Full(q), q = [i \in DOMAIN want |-> h[want[i]]]
      PROVE  KickedWell(v)
    BY <1>3 DEF KickedWell
<1>4. ASSUME Kept(q) = Queue(k, h), ~Full(q), want = <<>>
      PROVE  KickedWell(v)
    BY <1>4 DEF KickedWell
<1>5. want = Completes(n + 1) /\ Len(gv_hist) = n
    BY <1>1
<1> HIDE DEF h, q, n, want
<1>6. CASE k = 0
  <2>1. gv_q = <<>>
      BY <1>2, <1>6 DEF Queue
  <2>2. q = <<v>>
      BY <2>1, PushedIs DEF q
  <2>3. Full(q) /\ Kept(q) = <<>> /\ Queue(k, h) = <<>> /\ want = <<n + 1>>
      BY <1>5, <1>6 DEF Full, Kept, Queue, Completes
  <2>4. q = [i \in DOMAIN want |-> h[want[i]]]
      BY <1>1, <2>2, <2>3, Picked
  <2> QED
      BY <1>3, <2>3, <2>4
<1>7. CASE k = 7
  <2>1. ~Full(q)
      BY <1>7 DEF Full
  <2>2. Kept(q) = <<>>
      BY <1>7 DEF Kept
  <2>3. Queue(k, h) = <<>> /\ want = <<>>
      BY <1>5, <1>7 DEF Queue, Completes
  <2> QED
      BY <1>4, <2>1, <2>2, <2>3
<1>8. CASE k \in {1, 6}
  <2>1. CASE n % 2 = 0
    <3>1. gv_q = <<>>
        BY <1>1, <1>2, <1>5, <1>8, <2>1 DEF Queue
    <3>2. q = <<v>> /\ Len(q) = 1
      <4>1. q = <<v>>
          BY <3>1, PushedIs DEF q
      <4> QED
          BY <4>1, Appended, Three
    <3>3. (n + 1) % 2 # 0
        BY <1>1, <2>1
    <3>4. ~Full(q)
        BY <1>8, <3>2 DEF Full
    <3>5. Kept(q) = <<v>>
        BY <1>8, <3>2, <3>4 DEF Kept
    <3>6. Queue(k, h) = <<v>>
        BY <1>1, <1>8, <2>1, <3>1, <3>3 DEF Queue
    <3>7. want = <<>>
        BY <1>1, <1>5, <1>8, <2>1, <3>1, <3>3 DEF Completes
    <3> QED
        BY <1>4, <3>4, <3>5, <3>6, <3>7
  <2>2. CASE n % 2 # 0
    <3>1. gv_q = <<gv_hist[n]>> /\ n >= 1
        BY <1>1, <1>2, <1>5, <1>8, <2>2 DEF Queue
    <3>2. q = <<gv_hist[n], v>> /\ Len(q) = 2
      <4>1. q = <<gv_hist[n], v>>
          BY <3>1, PushedIs DEF q
      <4> QED
          BY <4>1, Appended, Three
    <3>3. (n + 1) % 2 = 0
        BY <1>1, <2>2
    <3>4. Full(q)
        BY <1>8, <3>2 DEF Full
    <3>5. Kept(q) = <<>>
        BY <1>8, <3>2, <3>4 DEF Kept
    <3>6. Queue(k, h) = <<>>
        BY <1>1, <1>8, <2>2, <3>1, <3>3 DEF Queue
    <3>7. want = <<n, n + 1>>
        BY <1>1, <1>5, <1>8, <2>2, <3>1, <3>3 DEF Completes
    <3>8. q = [i \in DOMAIN want |-> h[want[i]]]
      <4>1. h[n] = gv_hist[n] /\ h[n + 1] = v
          BY <1>1, <3>1
      <4>2. [i \in DOMAIN <<n, n + 1>> |-> h[<<n, n + 1>>[i]]] = <<h[n], h[n + 1]>>
          BY Picked
      <4> QED
          BY <3>2, <3>7, <4>1, <4>2
    <3> QED
        BY <1>3, <3>4, <3>5, <3>6, <3>8
  <2> QED
      BY <1>1, <2>1, <2>2
<1>9. CASE k = 2
  <2>1. CASE n = 0
    <3>1. gv_q = <<>>
        BY <1>1, <1>2, <1>5, <1>9, <2>1 DEF Queue
    <3>2. q = <<v>> /\ Len(q) = 1
      <4>1. q = <<v>>
          BY <3>1, PushedIs DEF q
      <4> QED
          BY <4>1, Appended, Three
    <3>4. ~Full(q)
        BY <1>9, <3>2 DEF Full
    <3>5. Kept(q) = <<v>>
        BY <1>9, <3>2, <3>4 DEF Kept
    <3>6. Queue(k, h) = <<v>>
        BY <1>1, <1>9, <2>1, <3>1 DEF Queue
    <3>7. want = <<>>
        BY <1>1, <1>5, <1>9, <2>1, <3>1 DEF Completes
    <3> QED
        BY <1>4, <3>4, <3>5, <3>6, <3>7
  <2>2. CASE n # 0
    <3>1. gv_q = <<gv_hist[n]>> /\ n >= 1
        BY <1>1, <1>2, <1>5, <1>9, <2>2 DEF Queue
    <3>2. q = <<gv_hist[n], v>> /\ Len(q) = 2
      <4>1. q = <<gv_hist[n], v>>
          BY <3>1, PushedIs DEF q
      <4> QED
          BY <4>1, Appended, Three
    <3>4. Full(q)
        BY <1>9, <3>2 DEF Full
    <3>5. Kept(q) = <<v>>
        BY <1>9, <3>2, <3>4 DEF Kept
    <3>6. Queue(k, h) = <<v>>
        BY <1>1, <1>9, <2>2, <3>1 DEF Queue
    <3>7. want = <<n, n + 1>>
        BY <1>1, <1>5, <1>9, <2>2, <3>1 DEF Completes
    <3>8. q = [i \in DOMAIN want |-> h[want[i]]]
      <4>1. h[n] = gv_hist[n] /\ h[n + 1] = v
          BY <1>1, <3>1
      <4>2. [i \in DOMAIN <<n, n + 1>> |-> h[<<n, n + 1>>[i]]] = <<h[n], h[n + 1]>>
          BY Picked
      <4> QED
          BY <3>2, <3>7, <4>1, <4>2
    <3> QED
        BY <1>3, <3>4, <3>5, <3>6, <3>8
  <2> QED
      BY <1>1, <2>1, <2>2
<1>10. CASE k = 3
  <2>1. CASE n % 3 = 0
    <3>1. gv_q = <<>>
        BY <1>1, <1>2, <1>5, <1>10, <2>1 DEF Queue
    <3>2. q = <<v>> /\ Len(q) = 1
      <4>1. q = <<v>>
          BY <3>1, PushedIs DEF q
      <4> QED
          BY <4>1, Appended, Three
    <3>3. (n + 1) % 3 = 1
        BY <1>1, <2>1
    <3>4. ~Full(q)
        BY <1>10, <3>2 DEF Full
    <3>5. Kept(q) = <<v>>
        BY <1>10, <3>2, <3>4 DEF Kept
    <3>6. Queue(k, h) = <<v>>
        BY <1>1, <1>10, <2>1, <3>1, <3>3 DEF Queue
    <3>7. want = <<>>
        BY <1>1, <1>5, <1>10, <2>1, <3>1, <3>3 DEF Completes
    <3> QED
        BY <1>4, <3>4, <3>5, <3>6, <3>7
  <2>2. CASE n % 3 = 1
    <3>1. gv_q = <<gv_hist[n]>> /\ n >= 1
        BY <1>1, <1>2, <1>5, <1>10, <2>2 DEF Queue
    <3>2. q = <<gv_hist[n], v>> /\ Len(q) = 2
      <4>1. q = <<gv_hist[n], v>>
          BY <3>1, PushedIs DEF q
      <4> QED
          BY <4>1, Appended, Three
    <3>3. (n + 1) % 3 = 2 /\ (n + 1) - 1 = n /\ n \in 1 .. n
        BY <1>1, <2>2
    <3>4. ~Full(q)
        BY <1>10, <3>2 DEF Full
    <3>5. Kept(q) = <<gv_hist[n], v>>
        BY <1>10, <3>2, <3>4 DEF Kept
    <3>6. Queue(k, h) = <<gv_hist[n], v>>
      <4>1. Queue(k, h) = <<h[(n + 1) - 1], h[n + 1]>>
          BY <1>1, <1>10, <3>3 DEF Queue
      <4>2. h[(n + 1) - 1] = gv_hist[n] /\ h[n + 1] = v
          BY <1>1, <3>3
      <4> QED
          BY <4>1, <4>2
    <3>7. want = <<>>
        BY <1>1, <1>5, <1>10, <2>2, <3>1, <3>3 DEF Completes
    <3> QED
        BY <1>4, <3>4, <3>5, <3>6, <3>7
  <2>3. CASE n % 3 = 2
    <3>1. gv_q = <<gv_hist[n - 1], gv_hist[n]>> /\ n >= 2
        BY <1>1, <1>2, <1>5, <1>10, <2>3 DEF Queue
    <3>2. q = <<gv_hist[n - 1], gv_hist[n], v>> /\ Len(q) = 3
      <4>1. q = <<gv_hist[n - 1], gv_hist[n], v>>
          BY <3>1, PushedIs DEF q
      <4> QED
          BY <4>1, Appended, Three
    <3>3. (n + 1) % 3 = 0
        BY <1>1, <2>3
    <3>4. Full(q)
        BY <1>10, <3>2 DEF Full
    <3>5. Kept(q) = <<>>
        BY <1>10, <3>2, <3>4 DEF Kept
    <3>6. Queue(k, h) = <<>>
        BY <1>1, <1>10, <2>3, <3>1, <3>3 DEF Queue
    <3>7. want = <<n - 1, n, n + 1>>
        BY <1>1, <1>5, <1>10, <2>3, <3>1, <3>3 DEF Completes
    <3>8. q = [i \in DOMAIN want |-> h[want[i]]]
      <4>1. h[n - 1] = gv_hist[n - 1] /\ h[n] = gv_hist[n] /\ h[n + 1] = v
          BY <1>1, <3>1
      <4>2. [i \in DOMAIN <<n - 1, n, n + 1>> |-> h[<<n - 1, n, n + 1>>[i]]] = <<h[n - 1], h[n], h[n + 1]>>
          BY Picked
      <4> QED
          BY <3>2, <3>7, <4>1, <4>2
    <3> QED
        BY <1>3, <3>4, <3>5, <3>6, <3>8
  <2> QED
      BY <1>1, <2>1, <2>2, <2>3
<1>11. CASE k = 4
  <2>1. CASE n = 0
    <3>1. gv_q = <<>>
        BY <1>1, <1>2, <1>5, <1>11, <2>1 DEF Queue
    <3>2. q = <<v>> /\ Len(q) = 1
      <4>1. q = <<v>>
          BY <3>1, PushedIs DEF q
      <4> QED
          BY <4>1, Appended, Three
    <3>4. ~Full(q)
        BY <1>11, <3>2 DEF Full
    <3>5. Kept(q) = <<v>>
        BY <1>11, <3>2, <3>4 DEF Kept
    <3>6. Queue(k, h) = <<v>>
        BY <1>1, <1>11, <2>1, <3>1 DEF Queue
    <3>7. want = <<>>
        BY <1>1, <1>5, <1>11, <2>1, <3>1 DEF Completes
    <3> QED
        BY <1>4, <3>4, <3>5, <3>6, <3>7
  <2>2. CASE n = 1
    <3>1. gv_q = <<gv_hist[1]>> /\ n >= 1
        BY <1>1, <1>2, <1>5, <1>11, <2>2 DEF Queue
    <3>2. q = <<gv_hist[1], v>> /\ Len(q) = 2
      <4>1. q = <<gv_hist[1], v>>
          BY <3>1, PushedIs DEF q
      <4> QED
          BY <4>1, Appended, Three
    <3>4. ~Full(q)
        BY <1>11, <3>2 DEF Full
    <3>5. Kept(q) = <<gv_hist[1], v>>
        BY <1>11, <3>2, <3>4 DEF Kept
    <3>6. Queue(k, h) = <<gv_hist[1], v>>
        BY <1>1, <1>11, <2>2, <3>1 DEF Queue
    <3>7. want = <<>>
        BY <1>1, <1>5, <1>11, <2>2, <3>1 DEF Completes
    <3> QED
        BY <1>4, <3>4, <3>5, <3>6, <3>7
  <2>3. CASE n >= 2
    <3>1. gv_q = <<gv_hist[n - 1], gv_hist[n]>> /\ n >= 2
        BY <1>1, <1>2, <1>5, <1>11, <2>3 DEF Queue
    <3>2. q = <<gv_hist[n - 1], gv_hist[n], v>> /\ Len(q) = 3
      <4>1. q = <<gv_hist[n - 1], gv_hist[n], v>>
          BY <3>1, PushedIs DEF q
      <4> QED
          BY <4>1, Appended, Three
    <3>4. Full(q)
        BY <1>11, <3>2 DEF Full
    <3>5. Kept(q) = <<gv_hist[n], v>>
        BY <1>11, <3>2, <3>4 DEF Kept
    <3>6. Queue(k, h) = <<gv_hist[n], v>>
        BY <1>1, <1>11, <2>3, <3>1 DEF Queue
    <3>7. want = <<n - 1, n, n + 1>>
        BY <1>1, <1>5, <1>11, <2>3, <3>1 DEF Completes
    <3>8. q = [i \in DOMAIN want |-> h[want[i]]]
      <4>1. h[n - 1] = gv_hist[n - 1] /\ h[n] = gv_hist[n] /\ h[n + 1] = v
          BY <1>1, <3>1
      <4>2. [i \in DOMAIN <<n - 1, n, n + 1>> |-> h[<<n - 1, n, n + 1>>[i]]] = <<h[n - 1], h[n], h[n + 1]>>
          BY Picked
      <4> QED
          BY <3>2, <3>7, <4>1, <4>2
    <3> QED
        BY <1>3, <3>4, <3>5, <3>6, <3>8
  <2> QED
      BY <1>1, <2>1, <2>2, <2>3
<1>12. CASE k = 5
  <2>1. CASE n = 0
    <3>1. gv_q = <<>>
        BY <1>1, <1>2, <1>5, <1>12, <2>1 DEF Queue
    <3>2. q = <<v>> /\ Len(q) = 1
      <4>1. q = <<v>>
          BY <3>1, PushedIs DEF q
      <4> QED
          BY <4>1, Appended, Three
    <3>4. ~Full(q)
        BY <1>12, <3>2 DEF Full
    <3>5. Kept(q) = <<v>>
        BY <1>12, <3>2, <3>4 DEF Kept
    <3>6. Queue(k, h) = <<v>>
        BY <1>1, <1>12, <2>1, <3>1 DEF Queue
    <3>7. want = <<>>
        BY <1>1, <1>5, <1>12, <2>1, <3>1 DEF Completes
    <3> QED
        BY <1>4, <3>4, <3>5, <3>6, <3>7
  <2>2. CASE n = 1
    <3>1. gv_q = <<gv_hist[1]>> /\ n >= 1
        BY <1>1, <1>2, <1>5, <1>12, <2>2 DEF Queue
    <3>2. q = <<gv_hist[1], v>> /\ Len(q) = 2
      <4>1. q = <<gv_hist[1], v>>
          BY <3>1, PushedIs DEF q
      <4> QED
          BY <4>1, Appended, Three
    <3>4. ~Full(q)
        BY <1>12, <3>2 DEF Full
    <3>5. Kept(q) = <<gv_hist[1], v>>
        BY <1>12, <3>2, <3>4 DEF Kept
    <3>6. Queue(k, h) = <<gv_hist[1], v>>
        BY <1>1, <1>12, <2>2, <3>1 DEF Queue
    <3>7. want = <<>>
        BY <1>1, <1>5, <1>12, <2>2, <3>1 DEF Completes
    <3> QED
        BY <1>4, <3>4, <3>5, <3>6, <3>7
  <2>3. CASE n >= 2
    <3>1. gv_q = <<gv_hist[1], gv_hist[n]>> /\ n >= 2
        BY <1>1, <1>2, <1>5, <1>12, <2>3 DEF Queue
    <3>2. q = <<gv_hist[1], gv_hist[n], v>> /\ Len(q) = 3
      <4>1. q = <<gv_hist[1], gv_hist[n], v>>
          BY <3>1, PushedIs DEF q
      <4> QED
          BY <4>1, Appended, Three
    <3>4. Full(q)
        BY <1>12, <3>2 DEF Full
    <3>5. Kept(q) = <<gv_hist[1], v>>
        BY <1>12, <3>2, <3>4 DEF Kept
    <3>6. Queue(k, h) = <<gv_hist[1], v>>
        BY <1>1, <1>12, <2>3, <3>1 DEF Queue
    <3>7. want = <<1, n, n + 1>>
        BY <1>1, <1>5, <1>12, <2>3, <3>1 DEF Completes
    <3>8. q = [i \in DOMAIN want |-> h[want[i]]]
      <4>1. h[1] = gv_hist[1] /\ h[n] = gv_hist[n] /\ h[n + 1] = v
          BY <1>1, <3>1
      <4>2. [i \in DOMAIN <<1, n, n + 1>> |-> h[<<1, n, n + 1>>[i]]] = <<h[1], h[n], h[n + 1]>>
          BY Picked
      <4> QED
          BY <3>2, <3>7, <4>1, <4>2
    <3> QED
        BY <1>3, <3>4, <3>5, <3>6, <3>8
  <2> QED
      BY <1>1, <2>1, <2>2, <2>3
<1> QED
    BY <1>2, <1>6, <1>7, <1>8, <1>9, <1>10, <1>11, <1>12

\* Every sequence of register writes: a kick that draws draws exactly the
\* primitive PRIM's kind makes of the vertices kicked since PRIM.
THEOREM KicksMakePrimitives == GsVertexSpec => []PrimitiveOfKicks
<1>1. GsVertexInit => VtxInv
  <2> SUFFICES ASSUME GsVertexInit PROVE VtxInv
      OBVIOUS
  <2>1. gv_hist = <<>> /\ Len(gv_hist) = 0 /\ gv_hist \in Seq(Vertices)
      BY DEF GsVertexInit
  <2>2. PrimitiveOfKicks
      BY <2>1 DEF GsVertexInit, PrimitiveOfKicks, NoPrim
  <2>3. Queue(0, gv_hist) = <<>>
      BY DEF Queue
  <2> QED
      BY <2>1, <2>2, <2>3 DEF GsVertexInit, VtxInv, Kind, Ctxs
<1>2. VtxInv /\ [GsVertexNext]_gv_vars => VtxInv'
  <2> SUFFICES ASSUME VtxInv, [GsVertexNext]_gv_vars PROVE VtxInv'
      OBVIOUS
  <2>1. CASE WritePrim
    <3>1. /\ gv_q' = <<>> /\ gv_hist' = <<>> /\ gv_drawn' = NoPrim /\ gv_last' = "prim"
          /\ gv_prim' \in [kind : Kind, ctx : Ctxs] /\ gv_prmode' = gv_prmode /\ gv_cont' = gv_cont /\ gv_fog' = gv_fog
        BY <2>1 DEF WritePrim, Quiet
    <3>2. PrimitiveOfKicks'
        BY <3>1 DEF PrimitiveOfKicks, NoPrim
    <3>3. \A k \in Kind : Queue(k, <<>>) = <<>>
      <4>1. Len(<<>>) = 0
          OBVIOUS
      <4> QED
          BY <4>1 DEF Queue
    <3>4. Queue(gv_prim'.kind, gv_hist') = <<>> /\ gv_hist' \in Seq(Vertices)
        BY <3>1, <3>3
    <3> QED
        BY <3>1, <3>2, <3>4 DEF VtxInv, Queue
  <2>2. CASE WriteXyz
    <3>1. PICK f \in {-1, 1 - gv_fog}, draw \in BOOLEAN :
            LET fog == IF f = -1 THEN gv_fog ELSE f
            IN  /\ gv_fog' = fog /\ vertex_kick(fog, draw)
                /\ gv_last' = IF draw THEN "kick" ELSE "pass"
                /\ UNCHANGED <<gv_prim, gv_prmode, gv_cont, gv_writes>>
        BY <2>2, Zenon DEF WriteXyz
    <3> DEFINE fog == IF f = -1 THEN gv_fog ELSE f
               v == GvVertex(fog)
               q == Pushed(v)
               h == Append(gv_hist, v)
               want == Completes(Len(h))
    <3>2. fog \in {0, 1} /\ GvCtx \in Ctxs /\ Len(gv_hist) \in Nat
        BY DEF VtxInv, GvCtx, Ctxs
    <3>3. v \in Vertices
        BY <3>2 DEF GvVertex, Vertices
    <3>4. /\ gv_q' = Kept(q) /\ gv_hist' = h /\ gv_fog' = fog
          /\ gv_drawn' = IF draw /\ Full(q) THEN [vs |-> q, ctx |-> GvCtx] ELSE NoPrim
          /\ gv_last' = IF draw THEN "kick" ELSE "pass"
          /\ gv_prim' = gv_prim /\ gv_prmode' = gv_prmode /\ gv_cont' = gv_cont
        BY <3>1 DEF vertex_kick
    <3> HIDE DEF fog, v
    <3>5. /\ Kept(q) = Queue(gv_prim.kind, h)
          /\ Full(q) => q = [i \in DOMAIN want |-> h[want[i]]]
          /\ ~Full(q) => want = <<>>
        BY <3>3, KickKeeps DEF KickedWell
    <3>6. h \in Seq(Vertices)
        BY <3>3, AppendProperties DEF VtxInv
    <3> HIDE DEF q, h
    <3>7. Completes(Len(gv_hist))' = want
        BY <3>4 DEF Completes
    <3> HIDE DEF want
    <3>8. PrimitiveOfKicks'
      <4>1. CASE draw /\ Full(q)
          BY <3>4, <3>5, <3>7, <4>1 DEF PrimitiveOfKicks
      <4>2. CASE draw /\ ~Full(q)
          BY <3>4, <3>5, <3>7, <4>2 DEF PrimitiveOfKicks, NoPrim
      <4>3. CASE ~draw
          BY <3>4, <4>3 DEF PrimitiveOfKicks, NoPrim
      <4> QED
          BY <4>1, <4>2, <4>3
    <3>9. Queue(gv_prim.kind, gv_hist)' = Queue(gv_prim.kind, h)
        BY <3>4 DEF Queue
    <3> QED
        BY <3>2, <3>4, <3>5, <3>6, <3>8, <3>9 DEF VtxInv
  <2>3. CASE WriteAttributes
    <3>1. /\ gv_q' = gv_q /\ gv_hist' = gv_hist /\ gv_prim' = gv_prim /\ gv_drawn' = NoPrim /\ gv_last' = "attr"
          /\ gv_prmode' \in Ctxs /\ gv_cont' \in BOOLEAN /\ gv_fog' \in {0, 1}
      <4>1. gv_fog' = 1 - gv_fog \/ gv_fog' = gv_fog
          BY <2>3 DEF WriteAttributes
      <4>2. gv_prmode' = 1 - gv_prmode \/ gv_prmode' = gv_prmode
          BY <2>3 DEF WriteAttributes
      <4>3. gv_cont' = ~gv_cont \/ gv_cont' = gv_cont
          BY <2>3 DEF WriteAttributes
      <4>4. gv_fog' \in {0, 1} /\ gv_prmode' \in Ctxs
          BY <4>1, <4>2 DEF VtxInv, Ctxs
      <4>5. gv_cont' \in BOOLEAN
          BY <4>3, Zenon DEF VtxInv
      <4> QED
          BY <2>3, <4>4, <4>5 DEF WriteAttributes, Quiet
    <3>2. PrimitiveOfKicks'
        BY <3>1 DEF PrimitiveOfKicks, NoPrim
    <3>3. Queue(gv_prim.kind, gv_hist)' = Queue(gv_prim.kind, gv_hist)
        BY <3>1 DEF Queue
    <3> QED
        BY <3>1, <3>2, <3>3 DEF VtxInv
  <2>4. CASE UNCHANGED gv_vars
    <3>1. PrimitiveOfKicks' = PrimitiveOfKicks
      <4>1. Completes(Len(gv_hist))' = Completes(Len(gv_hist))
          BY <2>4 DEF gv_vars, gv_regs, Completes
      <4> HIDE DEF Completes
      <4> QED
          BY <2>4, <4>1 DEF gv_vars, gv_regs, PrimitiveOfKicks
    <3>2. Queue(gv_prim.kind, gv_hist)' = Queue(gv_prim.kind, gv_hist)
        BY <2>4 DEF gv_vars, gv_regs, Queue
    <3> QED
        BY <2>4, <3>1, <3>2 DEF VtxInv, gv_vars, gv_regs
  <2> QED
      BY <2>1, <2>2, <2>3, <2>4 DEF GsVertexNext
<1>3. VtxInv => PrimitiveOfKicks
    BY DEF VtxInv
<1> QED
    BY <1>1, <1>2, <1>3, PTL DEF GsVertexSpec

\* Both streams at once, as GsTransfer states them.
THEOREM StreamsLand == GsVertexSpec /\ GsTransferSpec => []StreamsInPlace
<1>1. PrimitiveOfKicks /\ PixelsInRasterOrder => StreamsInPlace
    BY DEF StreamsInPlace
<1> QED
    BY <1>1, KicksMakePrimitives, TransferInOrder, PTL

(***************************************************************************)
(* The row cache.                                                          *)
(***************************************************************************)
Textures == [tw : Nat \ {0}, th : Nat \ {0}, wm : 0 .. 3, min : Int, max : Int]
GoodRow(ti, row) ==
    /\ "known" \in DOMAIN row
    /\ row.known => /\ row.y \in Int /\ row.lo \in Int /\ Len(row.data) \in Nat
                    /\ \A k \in 1 .. Len(row.data) : row.data[k] = texel(ti, row.lo + k - 1, row.y)
Good(ti, rows) ==
    /\ rows = [s \in 1 .. 2 |-> rows[s]]
    /\ GoodRow(ti, rows[1]) /\ GoodRow(ti, rows[2])

LEMMA LengthIs ==
    ASSUME NEW n \in Nat, NEW d, d = [k \in 1 .. n |-> d[k]]
    PROVE  Len(d) = n
<1> DEFINE V == { d[k] : k \in 1 .. n }
<1>1. d \in [1 .. n -> V]
    OBVIOUS
<1> HIDE DEF V
<1>2. d \in Seq(V)
    BY <1>1, SeqDef
<1> QED
    BY <1>1, <1>2, LenProperties

\* Between lo and hi nothing wraps.
LEMMA IdentityIs ==
    ASSUME NEW ti \in Textures, NEW lo \in Int, NEW hi \in Int, wrap_identity(lo, hi, ti), NEW u \in lo .. hi
    PROVE  wrap(u, ti, ti.tw) = u
<1>1. CASE ti.wm = 0
  <2>1. u >= 0 /\ u < ti.tw /\ ti.tw \in Nat \ {0}
      BY <1>1 DEF wrap_identity, Textures
  <2>2. u % ti.tw = u
      BY <2>1
  <2> QED
      BY <1>1, <2>2 DEF wrap
<1>2. CASE ti.wm = 1
  <2>1. u >= 0 /\ u < ti.tw /\ ti.tw \in Nat \ {0}
      BY <1>2 DEF wrap_identity, Textures
  <2>2. Limit(u, 0, ti.tw - 1) = u
      BY <2>1 DEF Limit
  <2> QED
      BY <1>2, <2>2 DEF wrap
<1>3. CASE ti.wm = 2
  <2>1. ti.min <= u /\ u <= ti.max /\ ti.min <= ti.max /\ ti.min \in Int /\ ti.max \in Int
      BY <1>3 DEF wrap_identity, Textures
  <2>2. Max({ti.max, ti.min}) = ti.max
      BY <2>1 DEF Max
  <2>3. Limit(u, ti.min, ti.max) = u
      BY <2>1 DEF Limit
  <2> QED
      BY <1>3, <2>2, <2>3 DEF wrap
<1>4. CASE ti.wm = 3
    BY <1>4 DEF wrap_identity
<1> QED
    BY <1>1, <1>2, <1>3, <1>4 DEF Textures

Filled(row, y, lo, hi) == row.known /\ row.y = y /\ row.lo = lo /\ lo + Len(row.data) > hi
LEMMA FillGood ==
    ASSUME NEW ti \in Textures, NEW rows, Good(ti, rows), NEW slot \in 1 .. 2, NEW y \in Int,
           NEW lo \in Int, NEW hi \in Int, lo <= hi
    PROVE  /\ Good(ti, fill_tex_row(ti, rows, slot, y, lo, hi))
           /\ Filled(fill_tex_row(ti, rows, slot, y, lo, hi)[slot], y, lo, hi)
           /\ ~Covers(rows[3 - slot], y, lo, hi) => fill_tex_row(ti, rows, slot, y, lo, hi)[3 - slot] = rows[3 - slot]
<1> DEFINE r == fill_tex_row(ti, rows, slot, y, lo, hi)
<1>1. CASE Covers(rows[slot], y, lo, hi)
  <2>1. r = rows
      BY <1>1 DEF fill_tex_row
  <2> QED
      BY <1>1, <2>1 DEF Covers, Filled
<1>2. CASE ~Covers(rows[slot], y, lo, hi) /\ Covers(rows[3 - slot], y, lo, hi)
  <2>1. r = <<rows[2], rows[1]>>
      BY <1>2 DEF fill_tex_row
  <2>2. Good(ti, <<rows[2], rows[1]>>)
      BY DEF Good
  <2>3. <<rows[2], rows[1]>>[slot] = rows[3 - slot]
      OBVIOUS
  <2> QED
      BY <1>2, <2>1, <2>2, <2>3 DEF Covers, Filled
<1>3. CASE ~Covers(rows[slot], y, lo, hi) /\ ~Covers(rows[3 - slot], y, lo, hi)
  <2> DEFINE n == hi - lo + 1
             d == [k \in 1 .. n |-> <<IF wrap_identity(lo, hi, ti) THEN lo + k - 1 ELSE wrap(lo + k - 1, ti, ti.tw), wrap(y, ti, ti.th)>>]
             row == [known |-> TRUE, y |-> y, lo |-> lo, data |-> d]
  <2>1. r = [rows EXCEPT ![slot] = row]
      BY <1>3, Zenon DEF fill_tex_row
  <2>2. n \in Nat /\ d = [k \in 1 .. n |-> d[k]]
      OBVIOUS
  <2>3. \A k \in 1 .. n : d[k] = texel(ti, lo + k - 1, y)
    <3> SUFFICES ASSUME NEW k \in 1 .. n PROVE d[k] = texel(ti, lo + k - 1, y)
        OBVIOUS
    <3>1. lo + k - 1 \in lo .. hi
        OBVIOUS
    <3>2. wrap_identity(lo, hi, ti) => wrap(lo + k - 1, ti, ti.tw) = lo + k - 1
        BY <3>1, IdentityIs
    <3>3. d[k] = <<IF wrap_identity(lo, hi, ti) THEN lo + k - 1 ELSE wrap(lo + k - 1, ti, ti.tw), wrap(y, ti, ti.th)>>
        OBVIOUS
    <3> QED
        BY <3>2, <3>3 DEF texel
  <2> HIDE DEF d
  <2>4. Len(d) = n
      BY <2>2, LengthIs
  <2>5. GoodRow(ti, row)
      BY <2>2, <2>3, <2>4 DEF GoodRow
  <2>6. Filled(row, y, lo, hi)
      BY <2>4 DEF Filled
  <2> HIDE DEF row
  <2>7. r[slot] = row /\ r[3 - slot] = rows[3 - slot] /\ r = [s \in 1 .. 2 |-> r[s]]
      BY <2>1 DEF Good
  <2> HIDE DEF r
  <2> QED
      BY <2>5, <2>6, <2>7 DEF Good, r
<1> QED
    BY <1>1, <1>2, <1>3

LEMMA FilledReads ==
    ASSUME NEW ti, NEW rows, Good(ti, rows), NEW s \in 1 .. 2, NEW y, NEW lo \in Int, NEW hi \in Int,
           Filled(rows[s], y, lo, hi), NEW k \in 1 .. hi - lo + 1
    PROVE  rows[s].data[k] = texel(ti, lo + k - 1, y)
<1>1. GoodRow(ti, rows[s])
    BY DEF Good
<1> QED
    BY <1>1 DEF GoodRow, Filled

LEMMA HeldReads ==
    ASSUME NEW ti, NEW rows, Good(ti, rows), NEW s \in 1 .. 2, NEW y, NEW u \in Int, Holds(rows[s], y, u)
    PROVE  At(rows[s], u) = texel(ti, u, y)
<1>1. GoodRow(ti, rows[s])
    BY DEF Good
<1>2. rows[s].lo \in Int /\ u - rows[s].lo + 1 \in 1 .. Len(rows[s].data) /\ rows[s].y = y
    BY <1>1 DEF GoodRow, Holds
<1>3. rows[s].data[u - rows[s].lo + 1] = texel(ti, rows[s].lo + (u - rows[s].lo + 1) - 1, y)
    BY <1>1, <1>2 DEF GoodRow, Holds
<1>4. rows[s].lo + (u - rows[s].lo + 1) - 1 = u
    BY <1>2
<1> QED
    BY <1>3, <1>4 DEF At

LEMMA CachedReads ==
    ASSUME NEW ti \in Textures, NEW rows, Good(ti, rows), NEW s \in 1 .. 2, NEW y \in Int, NEW u \in Int
    PROVE  LET a == cached_texel(ti, rows, s, u, y) IN Good(ti, a.rows) /\ a.t = texel(ti, u, y)
<1>1. CASE Holds(rows[s], y, u)
    BY <1>1, HeldReads DEF cached_texel
<1>2. CASE ~Holds(rows[s], y, u)
  <2> DEFINE lo == u - CHUNK_BACK
             hi == u + CHUNK_AHEAD
             r == fill_tex_row(ti, rows, s, y, lo, hi)
  <2>1. lo \in Int /\ hi \in Int /\ lo <= hi /\ CHUNK_BACK + 1 \in 1 .. hi - lo + 1
      BY TexelAssumption
  <2>2. Good(ti, r) /\ Filled(r[s], y, lo, hi)
      BY <2>1, FillGood
  <2>3. cached_texel(ti, rows, s, u, y) = [rows |-> r, t |-> r[s].data[CHUNK_BACK + 1]]
      BY <1>2 DEF cached_texel
  <2> HIDE DEF lo, hi, r
  <2> DEFINE k == CHUNK_BACK + 1
  <2>4. r[s].data[k] = texel(ti, lo + k - 1, y)
    <3>1. k \in 1 .. hi - lo + 1
        BY <2>1
    <3> HIDE DEF k
    <3> QED
        BY <2>1, <2>2, <3>1, FilledReads
  <2>5. lo + (CHUNK_BACK + 1) - 1 = u
      BY TexelAssumption DEF lo
  <2> QED
      BY <2>2, <2>3, <2>4, <2>5
<1> QED
    BY <1>1, <1>2

LEMMA TapIsInt ==
    ASSUME NEW u \in Int
    PROVE  Tap(u) \in Int /\ u \div WEIGHTS \in Int
    BY TexelAssumption DEF Tap
LEMMA TapGrows ==
    ASSUME NEW u \in Int, NEW w \in Int, u <= w
    PROVE  Tap(u) <= Tap(w) /\ u \div WEIGHTS <= w \div WEIGHTS
<1>1. \A W \in Nat \ {0}, a, b \in Int : a <= b => a \div W <= b \div W
  <2> SUFFICES ASSUME NEW W \in Nat \ {0}, NEW a \in Int, NEW b \in Int, a <= b PROVE a \div W <= b \div W
      OBVIOUS
  <2>1. PICK qa, ra \in Int : qa = a \div W /\ a = W * qa + ra /\ 0 <= ra /\ ra < W
      OBVIOUS
  <2>2. PICK qb, rb \in Int : qb = b \div W /\ b = W * qb + rb /\ 0 <= rb /\ rb < W
      OBVIOUS
  <2>3. qa \in Int /\ qb \in Int
      BY <2>1, <2>2
  <2>4. ASSUME qa >= qb + 1 PROVE FALSE
    <3>1. W * (qa - qb) >= W
        BY <2>3, <2>4
    <3>2. W * (qa - qb) = W * qa - W * qb
        BY <2>3
    <3>3. W * qa \in Int /\ W * qb \in Int
        BY <2>3
    <3> QED
        BY <2>1, <2>2, <3>1, <3>2, <3>3
  <2> QED
      BY <2>1, <2>2, <2>3, <2>4
<1>2. WEIGHTS \in Nat \ {0} /\ WEIGHTS \div 2 \in Int
    BY TexelAssumption
<1> QED
    BY <1>1, <1>2 DEF Tap

LEMMA SampledDirect ==
    ASSUME NEW ti \in Textures, NEW rows, Good(ti, rows), NEW b \in BOOLEAN, NEW u \in Int, NEW v \in Int
    PROVE  LET r == sample_cached(ti, rows, b, u, v) IN Good(ti, r.rows) /\ r.s = sample(ti, b, u, v)
<1>1. CASE ~b
  <2> DEFINE a == cached_texel(ti, rows, 1, u \div WEIGHTS, v \div WEIGHTS)
  <2>1. Good(ti, a.rows) /\ a.t = texel(ti, u \div WEIGHTS, v \div WEIGHTS)
      BY TapIsInt, CachedReads
  <2>2. sample_cached(ti, rows, b, u, v) = [rows |-> a.rows, s |-> Single(a.t)]
      BY <1>1 DEF sample_cached
  <2> HIDE DEF a
  <2> QED
      BY <1>1, <2>1, <2>2 DEF sample
<1>2. CASE b
  <2> DEFINE x == Tap(u)
             y == Tap(v)
             f == cached_texel(ti, rows, 1, x, y)
             g == cached_texel(ti, f.rows, 1, x + 1, y)
             h == cached_texel(ti, g.rows, 2, x, y + 1)
             k == cached_texel(ti, h.rows, 2, x + 1, y + 1)
             r == sample_bilinear_cached(ti, rows, u, v)
  <2>1. x \in Int /\ y \in Int /\ x + 1 \in Int /\ y + 1 \in Int
      BY TapIsInt
  <2> HIDE DEF x, y
  <2>2. Good(ti, f.rows) /\ f.t = texel(ti, x, y)
      BY <2>1, CachedReads
  <2> HIDE DEF f
  <2>3. Good(ti, g.rows) /\ g.t = texel(ti, x + 1, y)
    <3> DEFINE x1 == x + 1
               fr == f.rows
               l == cached_texel(ti, fr, 1, x1, y)
    <3>1. x1 \in Int /\ y \in Int /\ Good(ti, fr)
        BY <2>1, <2>2
    <3> HIDE DEF x1, fr
    <3>2. Good(ti, l.rows) /\ l.t = texel(ti, x1, y)
        BY <3>1, CachedReads
    <3> QED
        BY <3>2 DEF x1, fr
  <2> HIDE DEF g
  <2>4. Good(ti, h.rows) /\ h.t = texel(ti, x, y + 1)
    <3> DEFINE y1 == y + 1
               gr == g.rows
               l == cached_texel(ti, gr, 2, x, y1)
    <3>1. x \in Int /\ y1 \in Int /\ Good(ti, gr)
        BY <2>1, <2>3
    <3> HIDE DEF y1, gr
    <3>2. Good(ti, l.rows) /\ l.t = texel(ti, x, y1)
        BY <3>1, CachedReads
    <3> QED
        BY <3>2 DEF y1, gr
  <2> HIDE DEF h
  <2>5. Good(ti, k.rows) /\ k.t = texel(ti, x + 1, y + 1)
    <3> DEFINE x1 == x + 1
               y1 == y + 1
               hr == h.rows
               l == cached_texel(ti, hr, 2, x1, y1)
    <3>1. x1 \in Int /\ y1 \in Int /\ Good(ti, hr)
        BY <2>1, <2>4
    <3> HIDE DEF x1, y1, hr
    <3>2. Good(ti, l.rows) /\ l.t = texel(ti, x1, y1)
        BY <3>1, CachedReads
    <3> QED
        BY <3>2 DEF x1, y1, hr
  <2> HIDE DEF k
  <2> DEFINE both == \A s \in 1 .. 2 : Holds(rows[s], y + s - 1, x) /\ Holds(rows[s], y + s - 1, x + 1)
             wx == Weight(u)
             wy == Weight(v)
  <2>6. r = IF wx = 0 /\ wy = 0 THEN [rows |-> f.rows, s |-> Single(f.t)]
            ELSE IF both
            THEN [rows |-> rows, s |-> Blended(At(rows[1], x), At(rows[1], x + 1), At(rows[2], x), At(rows[2], x + 1), wx, wy)]
            ELSE [rows |-> k.rows, s |-> Blended(f.t, g.t, h.t, k.t, wx, wy)]
      BY Zenon DEF sample_bilinear_cached, f, g, h, k, x, y
  <2>7. sample_cached(ti, rows, b, u, v) = r
      BY <1>2 DEF sample_cached
  <2>8. sample(ti, b, u, v) = IF wx = 0 /\ wy = 0 THEN Single(texel(ti, x, y))
                             ELSE Blended(texel(ti, x, y), texel(ti, x + 1, y), texel(ti, x, y + 1), texel(ti, x + 1, y + 1), wx, wy)
      BY <1>2, Zenon DEF sample, sample_bilinear_direct, x, y
  <2>9. both => /\ At(rows[1], x) = texel(ti, x, y) /\ At(rows[1], x + 1) = texel(ti, x + 1, y)
                /\ At(rows[2], x) = texel(ti, x, y + 1) /\ At(rows[2], x + 1) = texel(ti, x + 1, y + 1)
    <3> SUFFICES ASSUME both
                 PROVE  /\ At(rows[1], x) = texel(ti, x, y) /\ At(rows[1], x + 1) = texel(ti, x + 1, y)
                        /\ At(rows[2], x) = texel(ti, x, y + 1) /\ At(rows[2], x + 1) = texel(ti, x + 1, y + 1)
        OBVIOUS
    <3>1. /\ Holds(rows[1], y, x) /\ Holds(rows[1], y, x + 1)
          /\ Holds(rows[2], y + 1, x) /\ Holds(rows[2], y + 1, x + 1)
      <4>1. y + 1 - 1 = y /\ y + 2 - 1 = y + 1 /\ 1 \in 1 .. 2 /\ 2 \in 1 .. 2
          BY <2>1
      <4> HIDE DEF y
      <4> QED
          BY <4>1
    <3> HIDE DEF x, y
    <3> QED
        BY <2>1, <3>1, HeldReads
  <2> HIDE DEF r, x, y, wx, wy, both
  <2> QED
      BY <2>2, <2>3, <2>4, <2>5, <2>6, <2>7, <2>8, <2>9
<1> QED
    BY <1>1, <1>2

LEMMA RunDirect ==
    ASSUME NEW ti \in Textures, NEW rows, Good(ti, rows), NEW b \in BOOLEAN, NEW ua \in Int, NEW ub \in Int, ua <= ub, NEW v \in Int,
           NEW r, r = RunRows(ti, rows, b, ua, ub, v)
    PROVE  /\ Good(ti, r)
           /\ \A u \in Int : ua <= u /\ u <= ub => RunSample(r, b, ua, u, v) = sample(ti, b, u, v)
<1>1. CASE ~b
  <2> DEFINE y == v \div WEIGHTS
             lo == ua \div WEIGHTS
             hi == ub \div WEIGHTS
  <2>1. y \in Int /\ lo \in Int /\ hi \in Int /\ lo <= hi
      BY TapIsInt, TapGrows
  <2>2. r = fill_tex_row(ti, rows, 1, y, lo, hi)
      BY <1>1 DEF RunRows
  <2>3. Good(ti, r) /\ Filled(r[1], y, lo, hi)
      BY <2>1, <2>2, FillGood
  <2>4. ASSUME NEW u \in Int, ua <= u, u <= ub PROVE RunSample(r, b, ua, u, v) = sample(ti, b, u, v)
    <3> DEFINE i == u \div WEIGHTS
    <3>1. i \in Int /\ lo <= i /\ i <= hi
        BY <2>4, TapIsInt, TapGrows
    <3>2. RunSample(r, b, ua, u, v) = Single(r[1].data[i - lo + 1]) /\ sample(ti, b, u, v) = Single(texel(ti, i, y))
        BY <1>1 DEF RunSample, sample
    <3> HIDE DEF i, lo, hi, y
    <3> DEFINE k == i - lo + 1
    <3>3. k \in 1 .. hi - lo + 1 /\ lo + k - 1 = i
        BY <2>1, <3>1
    <3>4. r[1].data[k] = texel(ti, lo + k - 1, y)
      <4> HIDE DEF k
      <4>1. 1 \in 1 .. 2
          OBVIOUS
      <4> QED
          BY <2>1, <2>3, <3>3, <4>1, FilledReads
    <3> QED
        BY <3>2, <3>3, <3>4
  <2> QED
      BY <2>3, <2>4
<1>2. CASE b
  <2> DEFINE y == Tap(v)
             lo == Tap(ua)
             hi == Tap(ub) + 1
             r1 == fill_tex_row(ti, rows, 1, y, lo, hi)
  <2>1. y \in Int /\ y + 1 \in Int /\ lo \in Int /\ hi \in Int /\ lo <= hi
      BY TapIsInt, TapGrows
  <2>2. r = fill_tex_row(ti, r1, 2, y + 1, lo, hi)
      BY <1>2 DEF RunRows
  <2>3. Good(ti, r1) /\ Filled(r1[1], y, lo, hi)
      BY <2>1, FillGood
  <2> HIDE DEF r1, y, lo, hi
  <2>4. ~Covers(r1[3 - 2], y + 1, lo, hi) /\ 3 - 2 = 1
      BY <2>1, <2>3 DEF Covers, Filled
  <2>5. Good(ti, r) /\ Filled(r[2], y + 1, lo, hi) /\ r[1] = r1[1]
      BY <2>1, <2>2, <2>3, <2>4, FillGood
  <2>6. Filled(r[1], y, lo, hi)
      BY <2>3, <2>5
  <2>7. ASSUME NEW u \in Int, ua <= u, u <= ub PROVE RunSample(r, b, ua, u, v) = sample(ti, b, u, v)
    <3> DEFINE x == Tap(u)
               i == x - lo + 1
               wx == Weight(u)
               wy == Weight(v)
    <3>1. x \in Int /\ lo <= x /\ x + 1 <= hi
        BY <2>7, TapIsInt, TapGrows DEF lo, hi
    <3>2. RunSample(r, b, ua, u, v) =
             IF wx = 0 /\ wy = 0 THEN Single(r[1].data[i])
             ELSE Blended(r[1].data[i], r[1].data[i + 1], r[2].data[i], r[2].data[i + 1], wx, wy)
        BY <1>2, Zenon DEF RunSample, lo
    <3>3. sample(ti, b, u, v) = IF wx = 0 /\ wy = 0 THEN Single(texel(ti, x, y))
                                ELSE Blended(texel(ti, x, y), texel(ti, x + 1, y), texel(ti, x, y + 1), texel(ti, x + 1, y + 1), wx, wy)
        BY <1>2, Zenon DEF sample, sample_bilinear_direct, y
    <3> HIDE DEF x, wx, wy
    <3>4. /\ i \in 1 .. hi - lo + 1 /\ i + 1 \in 1 .. hi - lo + 1
          /\ lo + i - 1 = x /\ lo + (i + 1) - 1 = x + 1
        BY <2>1, <3>1
    <3> HIDE DEF i
    <3>5. ASSUME NEW z \in 1 .. 2, NEW w, Filled(r[z], w, lo, hi)
          PROVE  r[z].data[i] = texel(ti, x, w) /\ r[z].data[i + 1] = texel(ti, x + 1, w)
      <4>1. r[z].data[i] = texel(ti, lo + i - 1, w)
          BY <2>1, <2>5, <3>4, <3>5, FilledReads
      <4> DEFINE e == i + 1
      <4>2. e \in 1 .. hi - lo + 1 /\ lo + e - 1 = x + 1
          BY <3>4
      <4> HIDE DEF e
      <4>3. r[z].data[e] = texel(ti, lo + e - 1, w)
          BY <2>1, <2>5, <3>5, <4>2, FilledReads
      <4> QED
          BY <3>4, <4>1, <4>2, <4>3 DEF e
    <3>6. /\ r[1].data[i] = texel(ti, x, y) /\ r[1].data[i + 1] = texel(ti, x + 1, y)
          /\ r[2].data[i] = texel(ti, x, y + 1) /\ r[2].data[i + 1] = texel(ti, x + 1, y + 1)
        BY <2>5, <2>6, <3>5
    <3> QED
        BY <3>2, <3>3, <3>6
  <2> QED
      BY <2>5, <2>7
<1> QED
    BY <1>1, <1>2

TexInv == gt_tex \in Textures /\ Good(gt_tex, gt_rows) /\ gt_same = TRUE

\* Every texture, wrap mode and sequence of reads: the prefilter and the bilinear
\* sampler read through the row cache the texels the texture holds there.
THEOREM CacheReadsDirect == GsTexelSpec => []CacheIsDirect
<1>1. GsTexelInit => TexInv
  <2> SUFFICES ASSUME GsTexelInit PROVE TexInv
      OBVIOUS
  <2>1. GoodRow(gt_tex, NoRow)
      BY DEF GoodRow, NoRow
  <2>2. Good(gt_tex, <<NoRow, NoRow>>)
    <3> HIDE DEF NoRow
    <3> QED
        BY <2>1 DEF Good
  <2> QED
      BY <2>2, TexelAssumption DEF GsTexelInit, TexInv, Textures
<1>2. TexInv /\ [GsTexelNext]_gt_vars => TexInv'
  <2> SUFFICES ASSUME TexInv, [GsTexelNext]_gt_vars PROVE TexInv'
      OBVIOUS
  <2>1. CASE Primitive
    <3>1. PICK ti \in GtTextures :
            /\ gt_tex' = ti /\ gt_same' = TRUE
            /\ gt_rows' = [s \in 1 .. 2 |-> [gt_rows[s] EXCEPT !.known = FALSE]]
        BY <2>1 DEF Primitive
    <3>2. ASSUME NEW s \in 1 .. 2 PROVE GoodRow(ti, [gt_rows[s] EXCEPT !.known = FALSE])
      <4>1. GoodRow(gt_tex, gt_rows[s])
          BY DEF TexInv, Good
      <4> DEFINE row == gt_rows[s]
      <4>2. "known" \in DOMAIN row
          BY <4>1 DEF GoodRow
      <4> HIDE DEF row
      <4>3. [row EXCEPT !.known = FALSE].known = FALSE /\ "known" \in DOMAIN [row EXCEPT !.known = FALSE]
          BY <4>2
      <4>4. GoodRow(ti, [row EXCEPT !.known = FALSE])
          BY <4>3 DEF GoodRow
      <4> QED
          BY <4>4 DEF row
    <3>3. Good(ti, gt_rows')
        BY <3>1, <3>2 DEF Good
    <3> QED
        BY <3>1, <3>3, TexelAssumption DEF TexInv, Textures
  <2>2. CASE SamplePixel
    <3>1. PICK b \in BOOLEAN, u \in GtColumns, v \in GtRows :
            /\ gt_rows' = sample_cached(gt_tex, gt_rows, b, u, v).rows
            /\ gt_same' = (sample_cached(gt_tex, gt_rows, b, u, v).s = sample(gt_tex, b, u, v))
            /\ gt_tex' = gt_tex
        BY <2>2, Zenon DEF SamplePixel
    <3>2. u \in Int /\ v \in Int
        BY TexelAssumption
    <3>3. /\ Good(gt_tex, sample_cached(gt_tex, gt_rows, b, u, v).rows)
          /\ sample_cached(gt_tex, gt_rows, b, u, v).s = sample(gt_tex, b, u, v)
        BY <3>2, SampledDirect DEF TexInv
    <3> QED
        BY <3>1, <3>3 DEF TexInv
  <2>3. CASE SampleRun
    <3>1. PICK b \in BOOLEAN, ua \in GtColumns, v \in GtRows :
            LET us == [k \in 1 .. 3 |-> ua + (k - 1) * (WEIGHTS - 1)]
                r == RunRows(gt_tex, gt_rows, b, us[1], us[3], v)
            IN  /\ gt_rows' = r
                /\ gt_same' = (\A k \in 1 .. 3 : RunSample(r, b, us[1], us[k], v) = sample(gt_tex, b, us[k], v))
                /\ gt_tex' = gt_tex
        BY <2>3, Zenon DEF SampleRun
    <3> DEFINE us == [k \in 1 .. 3 |-> ua + (k - 1) * (WEIGHTS - 1)]
               r == RunRows(gt_tex, gt_rows, b, us[1], us[3], v)
    <3>2. ua \in Int /\ v \in Int /\ WEIGHTS \in Nat \ {0}
        BY TexelAssumption
    <3>3. us[1] \in Int /\ us[3] \in Int /\ us[1] <= us[3]
          /\ \A k \in 1 .. 3 : us[k] \in Int /\ us[1] <= us[k] /\ us[k] <= us[3]
        BY <3>2
    <3> HIDE DEF us
    <3>4. Good(gt_tex, r) /\ \A u \in Int : us[1] <= u /\ u <= us[3] => RunSample(r, b, us[1], u, v) = sample(gt_tex, b, u, v)
      <4> DEFINE a == us[1]
                 c == us[3]
      <4>1. a \in Int /\ c \in Int /\ a <= c /\ gt_tex \in Textures /\ Good(gt_tex, gt_rows) /\ r = RunRows(gt_tex, gt_rows, b, a, c, v)
          BY <3>3 DEF TexInv
      <4> HIDE DEF a, c, r
      <4>2. Good(gt_tex, r) /\ \A u \in Int : a <= u /\ u <= c => RunSample(r, b, a, u, v) = sample(gt_tex, b, u, v)
          BY <3>2, <4>1, RunDirect
      <4> QED
          BY <4>2 DEF a, c
    <3>5. gt_rows' = r /\ gt_tex' = gt_tex
          /\ gt_same' = (\A k \in 1 .. 3 : RunSample(r, b, us[1], us[k], v) = sample(gt_tex, b, us[k], v))
        BY <3>1, Zenon DEF us
    <3> HIDE DEF r
    <3>6. \A k \in 1 .. 3 : RunSample(r, b, us[1], us[k], v) = sample(gt_tex, b, us[k], v)
        BY <3>3, <3>4
    <3> QED
        BY <3>4, <3>5, <3>6 DEF TexInv
  <2>4. CASE UNCHANGED gt_vars
      BY <2>4 DEF TexInv, gt_vars
  <2> QED
      BY <2>1, <2>2, <2>3, <2>4 DEF GsTexelNext
<1>3. TexInv => CacheIsDirect
    BY DEF TexInv, CacheIsDirect
<1> QED
    BY <1>1, <1>2, <1>3, PTL DEF GsTexelSpec

(***************************************************************************)
(* Scanout.                                                                *)
(***************************************************************************)
Frame == [Pixels -> 0 .. 255]

LEMMA Sizes ==
    /\ GdWidth \in Nat /\ GdWidth >= 1 /\ GdHeight \in Nat /\ GdHeight >= 2 /\ GdHeight % 2 = 0
    /\ \A x \in Cols, y \in Rows : <<x, y>> \in Pixels
    /\ \A p \in Pixels : p[1] \in Cols /\ p[2] \in Rows /\ p = <<p[1], p[2]>>
    /\ \A y \in Rows : y \in Nat /\ y % 2 \in {0, 1}
<1>1. GdWidth \in Nat /\ GdWidth >= 1 /\ GdHeight \in Nat /\ GdHeight >= 2 /\ GdHeight % 2 = 0
    BY DisplayAssumption
<1>2. /\ \A x \in Cols, y \in Rows : <<x, y>> \in Pixels
      /\ \A p \in Pixels : p[1] \in Cols /\ p[2] \in Rows /\ p = <<p[1], p[2]>>
    BY DEF Pixels
<1>3. \A y \in Rows : y \in Nat /\ y % 2 \in {0, 1}
    BY <1>1 DEF Rows
<1> QED
    BY <1>1, <1>2, <1>3

LEMMA FromIs ==
    ASSUME NEW b \in Frame, NEW x \in Int, NEW y \in Int
    PROVE  From(b, x, y) \in 0 .. 255
<1>1. Bound(x, 0, GdWidth - 1) \in Cols
    BY Sizes DEF Bound, Cols
<1>2. Mirror(y) \in Rows
  <2> DEFINE m == IF y < 0 THEN -y ELSE IF y > GdHeight - 1 THEN 2 * (GdHeight - 1) - y ELSE y
  <2>1. m \in Int /\ GdHeight - 1 \in Int /\ 0 <= GdHeight - 1
      BY Sizes
  <2> HIDE DEF m
  <2>2. Bound(m, 0, GdHeight - 1) \in Rows
      BY <2>1 DEF Bound, Rows
  <2> QED
      BY <2>2 DEF Mirror, m
<1> QED
    BY <1>1, <1>2, Sizes DEF From, Frame

\* The rows above and below are of the other field, at the edges too.
LEMMA Neighbour ==
    ASSUME NEW y \in Rows, NEW k \in {-1, 1}
    PROVE  Mirror(y + k) \in Rows /\ Mirror(y + k) % 2 = 1 - (y % 2)
<1>1. y \in 0 .. GdHeight - 1 /\ GdHeight \in Nat /\ GdHeight >= 2 /\ GdHeight % 2 = 0
    BY Sizes DEF Rows
<1>2. Mirror(y + k) = IF y + k < 0 THEN 1 ELSE IF y + k > GdHeight - 1 THEN GdHeight - 2 ELSE y + k
    BY <1>1 DEF Mirror, Bound
<1> QED
    BY <1>1, <1>2 DEF Rows

LEMMA Here ==
    ASSUME NEW x \in Cols, NEW y \in Rows, NEW b
    PROVE  From(b, x, y) = b[<<x, y>>]
<1>1. Bound(x, 0, GdWidth - 1) = x /\ Mirror(y) = y
    BY Sizes DEF Bound, Mirror, Cols, Rows
<1> QED
    BY <1>1 DEF From

LEMMA AvgIs ==
    ASSUME NEW a \in 0 .. 255, NEW b \in 0 .. 255
    PROVE  Avg(a, b) \in 0 .. 255
<1>1. a + b \in 0 .. 510
    OBVIOUS
<1> DEFINE c == a + b
<1> HIDE DEF c
<1>2. c \in 0 .. 510
    BY <1>1 DEF c
<1>3. c \div 2 \in 0 .. 255
    BY <1>2
<1> QED
    BY <1>3 DEF Avg, c
LEMMA AvgSame == \A a \in Nat : Avg(a, a) = a
    BY DEF Avg
LEMMA DistSame == \A a \in Nat : Dist(a, a) = 0
    BY DEF Dist

\* Everything kept is the picture: nothing moved between the fields.
Stands(wv, hs, pic) == /\ wv \in Frame /\ hs \in [0 .. 1 -> Frame] /\ pic \in Frame
                       /\ \A p \in Pixels : wv[p] = pic[p] /\ hs[p[2] % 2][p] = pic[p]

LEMMA TemporalStill ==
    ASSUME NEW wv, NEW hs, NEW pic, Stands(wv, hs, pic), NEW x \in Cols, NEW y \in Rows
    PROVE  Temporal(wv, hs, y % 2, x, y) = [d |-> pic[<<x, y>>], diff |-> 0]
<1> DEFINE par == y % 2
<1>1. par \in 0 .. 1 /\ 1 - par \in 0 .. 1 /\ <<x, y>> \in Pixels
    BY Sizes
<1>2. From(hs[par], x, y) = pic[<<x, y>>] /\ From(wv, x, y) = pic[<<x, y>>] /\ pic[<<x, y>>] \in Nat
  <2>1. From(hs[par], x, y) = hs[par][<<x, y>>] /\ From(wv, x, y) = wv[<<x, y>>]
      BY Here
  <2> DEFINE p == <<x, y>>
  <2>2. p \in Pixels /\ p[2] = y
      BY <1>1
  <2> HIDE DEF p
  <2>3. wv[p] = pic[p] /\ hs[par][p] = pic[p] /\ pic[p] \in Nat
      BY <2>2 DEF Stands, Frame
  <2> QED
      BY <2>1, <2>3 DEF p
<1>3. ASSUME NEW k \in {-1, 1} PROVE Dist(From(hs[1 - par], x, y + k), From(wv, x, y + k)) = 0
  <2> DEFINE z == Mirror(y + k)
             q == <<x, z>>
  <2>1. z \in Rows /\ z % 2 = 1 - par
      BY Neighbour
  <2>2. q \in Pixels /\ q[2] = z
      BY <2>1, Sizes
  <2>3. Bound(x, 0, GdWidth - 1) = x
      BY Sizes DEF Bound, Cols
  <2>4. From(hs[1 - par], x, y + k) = hs[1 - par][q] /\ From(wv, x, y + k) = wv[q]
      BY <2>3 DEF From
  <2> HIDE DEF q, z, par
  <2>5. hs[1 - par][q] = wv[q] /\ wv[q] \in Nat
      BY <2>1, <2>2 DEF Stands, Frame
  <2> QED
      BY <2>4, <2>5, DistSame
<1> HIDE DEF par
<1>4. y + (-1) = y - 1
    BY Sizes
<1>5. Dist(From(hs[1 - par], x, y - 1), From(wv, x, y - 1)) = 0 /\ Dist(From(hs[1 - par], x, y + 1), From(wv, x, y + 1)) = 0
    BY <1>3, <1>4
<1>6. Avg(pic[<<x, y>>], pic[<<x, y>>]) = pic[<<x, y>>] /\ Dist(pic[<<x, y>>], pic[<<x, y>>]) = 0 /\ Avg(0, 0) = 0
    BY <1>2, AvgSame, DistSame
<1>7. Max({0 \div 2, 0}) = 0
    BY DEF Max
<1>8. Temporal(wv, hs, par, x, y) = [d |-> pic[<<x, y>>], diff |-> 0]
    BY <1>2, <1>5, <1>6, <1>7 DEF Temporal
<1> QED
    BY <1>8 DEF par

LEMMA BwdifStill ==
    ASSUME NEW wv, NEW hs, NEW pic, Stands(wv, hs, pic), NEW x \in Cols, NEW y \in Rows
    PROVE  bwdif(wv, hs, y % 2, x, y) = pic[<<x, y>>]
<1>1. Temporal(wv, hs, y % 2, x, y).diff = 0 /\ Temporal(wv, hs, y % 2, x, y).d = pic[<<x, y>>]
  <2>1. Temporal(wv, hs, y % 2, x, y) = [d |-> pic[<<x, y>>], diff |-> 0]
      BY TemporalStill
  <2> QED
      BY <2>1
<1> QED
    BY <1>1 DEF bwdif

\* What lies between its neighbours is not moved.
LEMMA WidenedStill ==
    ASSUME NEW wv \in Frame, NEW hs \in [0 .. 1 -> Frame], NEW par \in 0 .. 1, NEW x \in Cols, NEW y \in Rows,
           NEW t, NEW d \in 0 .. 255, t = [d |-> d, diff |-> 0],
           LET c == From(wv, x, y - 1)
               e == From(wv, x, y + 1)
           IN  (c <= d /\ d <= e) \/ (e <= d /\ d <= c)
    PROVE  Widened(wv, hs, par, x, y, t) = 0
<1> DEFINE c == From(wv, x, y - 1)
           e == From(wv, x, y + 1)
           b == Avg(From(hs[par], x, y - 2), From(wv, x, y - 2)) - c
           f == Avg(From(hs[par], x, y + 2), From(wv, x, y + 2)) - e
<1>1. x \in Int /\ y \in Int /\ y - 1 \in Int /\ y + 1 \in Int /\ y - 2 \in Int /\ y + 2 \in Int /\ hs[par] \in Frame
    BY Sizes DEF Cols, Rows
<1>2. c \in 0 .. 255 /\ e \in 0 .. 255
    BY <1>1, FromIs
<1>3. /\ From(hs[par], x, y - 2) \in 0 .. 255 /\ From(wv, x, y - 2) \in 0 .. 255
      /\ From(hs[par], x, y + 2) \in 0 .. 255 /\ From(wv, x, y + 2) \in 0 .. 255
    BY <1>1, FromIs
<1>4. b \in Int /\ f \in Int
  <2> HIDE DEF c, e
  <2>1. Avg(From(hs[par], x, y - 2), From(wv, x, y - 2)) \in 0 .. 255
      BY <1>3, AvgIs
  <2>2. Avg(From(hs[par], x, y + 2), From(wv, x, y + 2)) \in 0 .. 255
      BY <1>3, AvgIs
  <2> QED
      BY <1>2, <2>1, <2>2
<1>5. Widened(wv, hs, par, x, y, t) = Max({0, Min({d - e, d - c, Max({b, f})}), -Max({d - e, d - c, Min({b, f})})})
    BY DEF Widened
<1>6. (c <= d /\ d <= e) \/ (e <= d /\ d <= c)
    OBVIOUS
<1> HIDE DEF c, e, b, f
<1>7. \A m, n \in Int : Max({m, n}) \in Int /\ Min({m, n}) \in Int
    BY DEF Max, Min
<1> DEFINE u == Max({b, f})
           w == Min({b, f})
           p == d - e
           q == d - c
<1>8. u \in Int /\ w \in Int /\ p \in Int /\ q \in Int /\ (p <= 0 \/ q <= 0) /\ (p >= 0 \/ q >= 0)
    BY <1>2, <1>4, <1>6, <1>7
<1> HIDE DEF u, w, p, q
<1>9. Min({p, q, u}) \in Int /\ Min({p, q, u}) <= 0
    BY <1>8 DEF Min
<1>10. Max({p, q, w}) \in Int /\ Max({p, q, w}) >= 0
    BY <1>8 DEF Max
<1> DEFINE g == Min({p, q, u})
           h == -Max({p, q, w})
<1>11. g \in Int /\ g <= 0 /\ h \in Int /\ h <= 0
    BY <1>9, <1>10
<1> HIDE DEF g, h
<1>12. Max({0, g, h}) = 0
    BY <1>11 DEF Max
<1> QED
    BY <1>5, <1>12 DEF g, h, p, q, u, w

LEMMA SpatialIs ==
    ASSUME NEW wv \in Frame, NEW x \in Cols, NEW y \in Rows
    PROVE  Spatial(wv, x, y) \in Int
<1> DEFINE s(j) == IF j = 0 THEN Score(wv, x, y, 0) - 1 ELSE Score(wv, x, y, j)
           left == IF s(-1) >= s(0) THEN 0 ELSE IF s(-2) < s(-1) THEN -2 ELSE -1
           j == IF s(1) >= s(left) THEN left ELSE IF s(2) < s(1) THEN 2 ELSE 1
<1>1. Spatial(wv, x, y) = Avg(From(wv, x + j, y - 1), From(wv, x - j, y + 1))
    BY DEF Spatial
<1>2. j \in Int
  <2>1. left \in {0, -2, -1}
      BY Zenon
  <2> HIDE DEF left
  <2>2. j \in {left, 2, 1}
      BY Zenon
  <2> HIDE DEF j
  <2> QED
      BY <2>1, <2>2
<1> HIDE DEF j
<1>3. x + j \in Int /\ x - j \in Int /\ y - 1 \in Int /\ y + 1 \in Int
    BY <1>2, Sizes DEF Cols, Rows
<1>4. From(wv, x + j, y - 1) \in 0 .. 255 /\ From(wv, x - j, y + 1) \in 0 .. 255
    BY <1>3, FromIs
<1>5. Avg(From(wv, x + j, y - 1), From(wv, x - j, y + 1)) \in 0 .. 255
    BY <1>4, AvgIs
<1> HIDE DEF Spatial
<1> QED
    BY <1>1, <1>5

LEMMA YadifStill ==
    ASSUME NEW wv, NEW hs, NEW pic, Stands(wv, hs, pic), NEW x \in Cols, NEW y \in 1 .. GdHeight - 2,
           LET c == pic[<<x, y - 1>>]
               e == pic[<<x, y + 1>>]
               d == pic[<<x, y>>]
           IN  (c <= d /\ d <= e) \/ (e <= d /\ d <= c)
    PROVE  yadif(wv, hs, y % 2, x, y) = pic[<<x, y>>]
<1> DEFINE par == y % 2
           d == pic[<<x, y>>]
           t == Temporal(wv, hs, par, x, y)
           diff == Widened(wv, hs, par, x, y, t)
<1>1. y \in Rows /\ y - 1 \in Rows /\ y + 1 \in Rows /\ par \in 0 .. 1
    BY Sizes DEF Rows
<1>2. t = [d |-> d, diff |-> 0]
    BY <1>1, TemporalStill
<1>3. d \in 0 .. 255 /\ wv \in Frame /\ hs \in [0 .. 1 -> Frame]
    BY <1>1, Sizes DEF Stands, Frame
<1>4. From(wv, x, y - 1) = pic[<<x, y - 1>>] /\ From(wv, x, y + 1) = pic[<<x, y + 1>>]
    BY <1>1, Here, Sizes DEF Stands
<1>5. diff = 0
  <2> HIDE DEF par, d, t
  <2>1. LET c == From(wv, x, y - 1)
            e == From(wv, x, y + 1)
        IN  (c <= d /\ d <= e) \/ (e <= d /\ d <= c)
      BY <1>4 DEF d
  <2> QED
      BY <1>1, <1>2, <1>3, <2>1, WidenedStill
<1>6. Spatial(wv, x, y) \in Int
    BY <1>1, <1>3, SpatialIs
<1> DEFINE sp == Spatial(wv, x, y)
<1>7. yadif(wv, hs, par, x, y) = Bound(Bound(sp, t.d - diff, t.d + diff), 0, 255)
    BY DEF yadif
<1>8. t.d - diff = d /\ t.d + diff = d
  <2>1. t.d = d
      BY <1>2
  <2> HIDE DEF t, diff, d
  <2> QED
      BY <1>3, <1>5, <2>1
<1> HIDE DEF sp, d, t, diff
<1>9. Bound(Bound(sp, d, d), 0, 255) = d
    BY <1>3, <1>6 DEF Bound, sp
<1> QED
    BY <1>7, <1>8, <1>9 DEF d

(***************************************************************************)
(* Rebuilt rows and the motion of the adaptive mode.                       *)
(***************************************************************************)
LEMMA MaxIs ==
    ASSUME NEW S \in SUBSET (0 .. 255), S # {}
    PROVE  Max(S) \in S /\ \A m \in S : m <= Max(S)
<1> DEFINE T == { 255 - m : m \in S }
<1>1. T \in SUBSET Nat /\ T # {}
    OBVIOUS
<1> HIDE DEF T
<1>2. PICK n \in T : \A m \in T : n <= m
    BY <1>1, Least
<1>3. PICK k \in S : n = 255 - k
    BY DEF T
<1>4. ASSUME NEW m \in S PROVE k >= m
  <2>1. 255 - m \in T
      BY DEF T
  <2> QED
      BY <1>2, <1>3, <2>1
<1>5. \E x \in S : \A y \in S : x >= y
    BY <1>4
<1>6. Max(S) \in S /\ \A y \in S : Max(S) >= y
    BY <1>5, Zenon DEF Max
<1> QED
    BY <1>6

LEMMA Best ==
    ASSUME NEW f \in [-2 .. 2 -> Nat]
    PROVE  \E j \in -2 .. 2 : \A k \in -2 .. 2 : f[j] < f[k] \/ (f[j] = f[k] /\ j <= k)
<1> DEFINE V == { f[j] : j \in -2 .. 2 }
<1>1. V \in SUBSET Nat /\ V # {}
  <2>1. f[0] \in V
      OBVIOUS
  <2> QED
      BY <2>1
<1>2. PICK v \in V : \A m \in V : v <= m
  <2> HIDE DEF V
  <2> QED
      BY <1>1, Least
<1> DEFINE J == { j + 2 : j \in { i \in -2 .. 2 : f[i] = v } }
<1>3. J \in SUBSET Nat /\ J # {}
  <2>1. PICK i \in -2 .. 2 : f[i] = v
      OBVIOUS
  <2>2. i + 2 \in J
      BY <2>1
  <2> QED
      BY <2>2
<1>4. PICK n \in J : \A m \in J : n <= m
  <2> HIDE DEF J
  <2> QED
      BY <1>3, Least
<1>5. PICK j \in -2 .. 2 : n = j + 2 /\ f[j] = v
    OBVIOUS
<1>6. ASSUME NEW k \in -2 .. 2 PROVE f[j] < f[k] \/ (f[j] = f[k] /\ j <= k)
  <2>1. f[k] \in V /\ v <= f[k] /\ f[k] \in Nat /\ v \in Nat
      BY <1>1, <1>2
  <2>2. ASSUME f[k] = v PROVE j <= k
    <3>1. k + 2 \in J
        BY <2>2
    <3>2. n <= k + 2
        BY <1>4, <3>1
    <3> QED
        BY <1>5, <3>2
  <2> QED
      BY <1>5, <2>1, <2>2
<1> QED
    BY <1>6

LEMMA AboveBelow ==
    ASSUME NEW y \in Rows
    PROVE  Above(y) \in Rows /\ Below(y) \in Rows /\ Above(y) % 2 = 1 - (y % 2) /\ Below(y) % 2 = 1 - (y % 2)
    BY Sizes DEF Above, Below, Rows

\* A rebuilt pixel is the mean of one above and one below.
LEMMA RebuiltIs ==
    ASSUME NEW wv \in Frame, NEW x \in Cols, NEW y \in Rows
    PROVE  \E a, b \in Cols : Rebuilt(wv, x, y) = (wv[<<a, Above(y)>>] + wv[<<b, Below(y)>>] + 1) \div 2
<1> DEFINE up(i) == wv[<<Col(i), Above(y)>>]
           down(i) == wv[<<Col(i), Below(y)>>]
           score(j) == 4 * (Dist(up(x + j - 1), down(x - j - 1)) + Dist(up(x + j), down(x - j)) + Dist(up(x + j + 1), down(x - j + 1))) + (IF j < 0 THEN -j ELSE j)
           best == CHOOSE j \in -2 .. 2 : \A k \in -2 .. 2 : score(j) < score(k) \/ (score(j) = score(k) /\ j <= k)
<1>1. Rebuilt(wv, x, y) = (up(x + best) + down(x - best) + 1) \div 2
    BY DEF Rebuilt
<1>2. \A i \in Int : Col(i) \in Cols
    BY Sizes DEF Col, Bound, Cols
<1>3. x \in Int /\ Above(y) \in Rows /\ Below(y) \in Rows
    BY AboveBelow, Sizes DEF Cols
<1>4. \A i \in Int : up(i) \in 0 .. 255 /\ down(i) \in 0 .. 255
    BY <1>2, <1>3, Sizes DEF Frame
<1> HIDE DEF up, down
<1>5. \A a, b \in 0 .. 255 : Dist(a, b) \in Nat
    BY DEF Dist
<1>6. \A j \in -2 .. 2 : score(j) \in Nat
  <2> SUFFICES ASSUME NEW j \in -2 .. 2 PROVE score(j) \in Nat
      OBVIOUS
  <2>1. /\ x + j - 1 \in Int /\ x - j - 1 \in Int /\ x + j \in Int /\ x - j \in Int
        /\ x + j + 1 \in Int /\ x - j + 1 \in Int
      BY <1>3
  <2>2. /\ Dist(up(x + j - 1), down(x - j - 1)) \in Nat /\ Dist(up(x + j), down(x - j)) \in Nat
        /\ Dist(up(x + j + 1), down(x - j + 1)) \in Nat
      BY <1>4, <1>5, <2>1
  <2> QED
      BY <2>2
<1> HIDE DEF score
<1>7. best \in -2 .. 2
  <2> DEFINE f == [j \in -2 .. 2 |-> score(j)]
  <2>1. f \in [-2 .. 2 -> Nat]
      BY <1>6
  <2>2. \A j \in -2 .. 2 : f[j] = score(j)
      OBVIOUS
  <2> HIDE DEF f
  <2>3. \E j \in -2 .. 2 : \A k \in -2 .. 2 : f[j] < f[k] \/ (f[j] = f[k] /\ j <= k)
      BY <2>1, Best
  <2>4. \E j \in -2 .. 2 : \A k \in -2 .. 2 : score(j) < score(k) \/ (score(j) = score(k) /\ j <= k)
      BY <2>2, <2>3
  <2> QED
      BY <2>4, Zenon
<1> HIDE DEF best
<1>8. x + best \in Int /\ x - best \in Int
    BY <1>3, <1>7
<1>9. Col(x + best) \in Cols /\ Col(x - best) \in Cols
    BY <1>2, <1>8
<1> QED
    BY <1>1, <1>9 DEF up, down

LEMMA MixedStill ==
    ASSUME NEW wv \in Frame, NEW x \in Cols, NEW y \in Rows
    PROVE  Mixed(wv, 0, x, y) = wv[<<x, y>>]
<1>1. wv[<<x, y>>] \in 0 .. 255
    BY Sizes DEF Frame
<1>2. PICK a, b \in Cols : Rebuilt(wv, x, y) = (wv[<<a, Above(y)>>] + wv[<<b, Below(y)>>] + 1) \div 2
    BY RebuiltIs
<1>3. wv[<<a, Above(y)>>] \in Nat /\ wv[<<b, Below(y)>>] \in Nat
  <2>1. <<a, Above(y)>> \in Pixels /\ <<b, Below(y)>> \in Pixels
      BY AboveBelow, Sizes
  <2> HIDE DEF Above, Below
  <2> QED
      BY <2>1 DEF Frame
<1>4. Rebuilt(wv, x, y) \in Int
    BY <1>2, <1>3
<1> DEFINE r == Rebuilt(wv, x, y)
           c == wv[<<x, y>>]
<1>5. Mixed(wv, 0, x, y) = (c * (255 - 0) + r * 0 + 127) \div 255
    BY DEF Mixed
<1> HIDE DEF r, c
<1>6. c \in 0 .. 255 /\ r \in Int
    BY <1>1, <1>4 DEF r, c
<1>7. (c * (255 - 0) + r * 0 + 127) \div 255 = c
    BY <1>6
<1> QED
    BY <1>5, <1>7 DEF c

LEMMA MixedFull ==
    ASSUME NEW wv \in Frame, NEW x \in Cols, NEW y \in Rows
    PROVE  Mixed(wv, 255, x, y) = Rebuilt(wv, x, y)
<1>1. PICK a, b \in Cols : Rebuilt(wv, x, y) = (wv[<<a, Above(y)>>] + wv[<<b, Below(y)>>] + 1) \div 2
    BY RebuiltIs
<1>2. wv[<<a, Above(y)>>] \in Nat /\ wv[<<b, Below(y)>>] \in Nat /\ wv[<<x, y>>] \in Nat
  <2>1. <<a, Above(y)>> \in Pixels /\ <<b, Below(y)>> \in Pixels /\ <<x, y>> \in Pixels
      BY AboveBelow, Sizes
  <2> HIDE DEF Above, Below
  <2> QED
      BY <2>1 DEF Frame
<1> DEFINE r == Rebuilt(wv, x, y)
           c == wv[<<x, y>>]
<1>3. r \in Nat /\ c \in Nat
    BY <1>1, <1>2
<1>4. Mixed(wv, 255, x, y) = (c * (255 - 255) + r * 255 + 127) \div 255
    BY DEF Mixed
<1> HIDE DEF r, c
<1>5. c * (255 - 255) = 0
    BY <1>3
<1>6. (0 + r * 255 + 127) \div 255 = r
    BY <1>3
<1> QED
    BY <1>4, <1>5, <1>6 DEF r

\* The most a motion weight can be after it was halved k times.
Level(k) == IF k = 0 THEN 255 ELSE IF k = 1 THEN 127 ELSE IF k = 2 THEN 63 ELSE IF k = 3 THEN 31
            ELSE IF k = 4 THEN 15 ELSE IF k = 5 THEN 7 ELSE IF k = 6 THEN 3 ELSE IF k = 7 THEN 1 ELSE 0
LEMMA Halved ==
    ASSUME NEW k \in Nat, NEW m \in Nat, m <= Level(k)
    PROVE  m \div 2 <= Level(k + 1)
    BY DEF Level

LEMMA MotionIs ==
    ASSUME gd_woven \in Frame, gd_motion \in Frame, NEW pic \in Frame, NEW x \in Cols, NEW y \in Rows
    PROVE  /\ Motion(pic, y, x) \in 0 .. 255
           /\ (\A i \in Cols : gd_woven[<<i, y>>] = pic[<<i, y>>]) => Motion(pic, y, x) = gd_motion[<<x, y>>] \div 2
           /\ Dist(gd_woven[<<x, y>>], pic[<<x, y>>]) >= MOTION_HI => Motion(pic, y, x) = 255
<1> DEFINE lo == Max({x - 2, 0})
           hi == Min({x + 2, GdWidth - 1})
           f(i) == Fresh(gd_woven[<<i, y>>], pic[<<i, y>>])
           m == gd_motion[<<x, y>>] \div 2
           S == { f(i) : i \in lo .. hi } \cup {m}
<1>1. lo \in Int /\ hi \in Int /\ lo .. hi \subseteq Cols /\ x \in lo .. hi
  <2>1. x - 2 \in Int /\ x + 2 \in Int /\ GdWidth - 1 \in Int
      BY Sizes DEF Cols
  <2> DEFINE a == x - 2
             b == x + 2
             c == GdWidth - 1
  <2> HIDE DEF a, b, c
  <2>2. Max({a, 0}) \in Int /\ Max({a, 0}) >= 0 /\ Min({b, c}) \in Int /\ Min({b, c}) <= c
      BY <2>1 DEF a, b, c, Max, Min
  <2>3. x \in Int /\ a <= x /\ 0 <= x /\ x <= b /\ x <= c
      BY Sizes DEF a, b, c, Cols
  <2>4. Max({a, 0}) <= x /\ x <= Min({b, c})
    <3>1. a \in Int /\ b \in Int /\ c \in Int
        BY <2>1 DEF a, b, c
    <3> QED
        BY <2>3, <3>1 DEF Max, Min
  <2>5. lo = Max({a, 0}) /\ hi = Min({b, c})
      BY DEF a, b, c
  <2> HIDE DEF lo, hi
  <2>6. lo \in Int /\ lo >= 0 /\ hi \in Int /\ hi <= GdWidth - 1
      BY <2>2, <2>5 DEF c
  <2>7. lo .. hi \subseteq Cols
      BY <2>1, <2>6 DEF Cols
  <2>8. lo <= x /\ x <= hi /\ x \in Int
      BY <2>3, <2>4, <2>5
  <2>9. x \in lo .. hi
      BY <2>6, <2>8
  <2> QED
      BY <2>6, <2>7, <2>9
<1>2. \A i \in Cols : gd_woven[<<i, y>>] \in 0 .. 255 /\ pic[<<i, y>>] \in 0 .. 255
    BY Sizes DEF Frame
<1>3. ASSUME NEW a \in 0 .. 255, NEW b \in 0 .. 255 PROVE Fresh(a, b) \in 0 .. 255 /\ Fresh(a, a) = 0
  <2> DEFINE d == IF Dist(a, b) <= MOTION_LO THEN 0 ELSE Dist(a, b) - MOTION_LO
             q == (d * 255) \div (MOTION_HI - MOTION_LO)
  <2>1. d \in Nat
      BY DEF Dist, MOTION_LO
  <2> HIDE DEF d
  <2>2. q \in Nat
      BY <2>1 DEF MOTION_LO, MOTION_HI
  <2> HIDE DEF q
  <2>3. Min({q, 255}) \in 0 .. 255
      BY <2>2 DEF Min
  <2>4. Fresh(a, b) = Min({q, 255})
      BY DEF Fresh, q, d
  <2>5. Dist(a, a) = 0 /\ (0 * 255) \div (40 - 6) = 0
      BY DEF Dist
  <2>6. Min({0, 255}) = 0
      BY DEF Min
  <2>7. Fresh(a, a) = 0
      BY <2>5, <2>6 DEF Fresh, MOTION_LO, MOTION_HI
  <2> QED
      BY <2>3, <2>4, <2>7
<1>4. ASSUME NEW a \in 0 .. 255, NEW b \in 0 .. 255, Dist(a, b) >= MOTION_HI PROVE Fresh(a, b) = 255
  <2> DEFINE d == Dist(a, b) - MOTION_LO
             q == (d * 255) \div (MOTION_HI - MOTION_LO)
  <2>1. d \in Int /\ d >= 34 /\ ~(Dist(a, b) <= MOTION_LO)
      BY <1>4 DEF Dist, MOTION_LO, MOTION_HI
  <2>2. Fresh(a, b) = Min({q, 255})
      BY <2>1 DEF Fresh
  <2> HIDE DEF d
  <2>3. q \in Int /\ q >= 255
      BY <2>1 DEF MOTION_LO, MOTION_HI
  <2> HIDE DEF q
  <2> QED
      BY <2>2, <2>3 DEF Min
<1>5. m \in 0 .. 255
  <2>1. gd_motion[<<x, y>>] \in 0 .. 255
      BY Sizes DEF Frame
  <2> QED
      BY <2>1
<1>6. Motion(pic, y, x) = Max(S)
    BY DEF Motion
<1> HIDE DEF lo, hi, m
<1>7. S \in SUBSET (0 .. 255) /\ m \in S
  <2>1. ASSUME NEW i \in lo .. hi PROVE f(i) \in 0 .. 255
    <3>1. i \in Cols
        BY <1>1
    <3>2. gd_woven[<<i, y>>] \in 0 .. 255 /\ pic[<<i, y>>] \in 0 .. 255
        BY <1>2, <3>1
    <3> QED
        BY <1>3, <3>2
  <2> HIDE DEF f
  <2> QED
      BY <1>5, <2>1
<1>8. Max(S) \in S /\ Max(S) \in 0 .. 255 /\ m <= Max(S) /\ \A e \in S : e <= Max(S)
  <2> HIDE DEF S
  <2> QED
      BY <1>7, MaxIs
<1>9. ASSUME \A i \in Cols : gd_woven[<<i, y>>] = pic[<<i, y>>] PROVE Max(S) = m
  <2>1. \A e \in S : e = 0 \/ e = m
      BY <1>1, <1>2, <1>3, <1>9
  <2> HIDE DEF S
  <2> QED
      BY <1>5, <1>8, <2>1
<1>10. ASSUME Dist(gd_woven[<<x, y>>], pic[<<x, y>>]) >= MOTION_HI PROVE Max(S) = 255
  <2>1. f(x) = 255
    <3> DEFINE a == gd_woven[<<x, y>>]
               b == pic[<<x, y>>]
    <3>1. a \in 0 .. 255 /\ b \in 0 .. 255 /\ Dist(a, b) >= MOTION_HI
        BY <1>2, <1>10
    <3>2. f(x) = Fresh(a, b)
        OBVIOUS
    <3> HIDE DEF a, b
    <3>3. Fresh(a, b) = 255
        BY <1>4, <3>1
    <3> QED
        BY <3>2, <3>3
  <2>2. f(x) \in S
      BY <1>1
  <2> HIDE DEF S, f
  <2> QED
      BY <1>8, <2>1, <2>2
<1> QED
    BY <1>6, <1>8, <1>9, <1>10 DEF m

LEMMA ShownIs ==
    ASSUME NEW par, NEW wv, NEW mo, NEW hs, NEW p \in Pixels
    PROVE  /\ Shown("weave", par, wv, mo, hs)[p] = wv[p]
           /\ Shown("bwdif", par, wv, mo, hs)[p] = IF p[2] % 2 # par THEN wv[p] ELSE bwdif(wv, hs, par, p[1], p[2])
           /\ Shown("yadif", par, wv, mo, hs)[p] = IF p[2] % 2 # par THEN wv[p] ELSE yadif(wv, hs, par, p[1], p[2])
           /\ Shown("bob", par, wv, mo, hs)[p] = IF p[2] % 2 # par THEN Rebuilt(wv, p[1], p[2]) ELSE wv[p]
           /\ Shown("adaptive", par, wv, mo, hs)[p] =
                IF p[2] % 2 # par THEN Mixed(wv, RowMotion(mo, p[1], p[2]), p[1], p[2]) ELSE wv[p]
<1>1. Shown("weave", par, wv, mo, hs)[p] = wv[p]
    BY DEF Shown
<1>2. Shown("bwdif", par, wv, mo, hs)[p] = IF p[2] % 2 # par THEN wv[p] ELSE bwdif(wv, hs, par, p[1], p[2])
    BY DEF Shown
<1>3. Shown("yadif", par, wv, mo, hs)[p] = IF p[2] % 2 # par THEN wv[p] ELSE yadif(wv, hs, par, p[1], p[2])
    BY DEF Shown
<1>4. Shown("bob", par, wv, mo, hs)[p] = IF p[2] % 2 # par THEN Rebuilt(wv, p[1], p[2]) ELSE wv[p]
    BY DEF Shown
<1>5. Shown("adaptive", par, wv, mo, hs)[p] =
          IF p[2] % 2 # par THEN Mixed(wv, RowMotion(mo, p[1], p[2]), p[1], p[2]) ELSE wv[p]
    BY DEF Shown
<1> QED
    BY <1>1, <1>2, <1>3, <1>4, <1>5

(***************************************************************************)
(* What the kept frames hold after so many fields, of the picture and of   *)
(* the mode and size.                                                      *)
(***************************************************************************)
Modes == {"weave", "bob", "blend", "adaptive", "yadif", "bwdif"}
FieldTypes ==
    /\ gd_mode \in Modes /\ gd_field \in {0, 1} /\ gd_run \in 0 .. 4 /\ gd_still \in 0 .. Settled(gd_mode)
    /\ gd_woven \in Frame /\ gd_motion \in Frame /\ gd_history \in [0 .. 1 -> Frame]
    /\ gd_pics \in Seq(Frame) /\ Len(gd_pics) = 4
Counted == \A i \in 1 .. 4 : i <= gd_still => gd_pics[i] = gd_pics[1] /\ i <= gd_run
WovenIs ==
    \A p \in Pixels :
        /\ gd_run >= 1 /\ p[2] % 2 # gd_field => gd_woven[p] = gd_pics[1][p]
        /\ gd_run >= 2 /\ p[2] % 2 = gd_field => gd_woven[p] = gd_pics[2][p]
HistoryIs ==
    gd_mode \in Keeps =>
        \A p \in Pixels :
            /\ gd_run >= 3 /\ p[2] % 2 # gd_field => gd_history[p[2] % 2][p] = gd_pics[3][p]
            /\ gd_run >= 4 /\ p[2] % 2 = gd_field => gd_history[p[2] % 2][p] = gd_pics[4][p]
\* A row's updates since its picture stopped: the first two see the change.
Updates(n) == IF n >= 3 THEN (n - 1) \div 2 ELSE 0
MotionFades ==
    gd_mode = "adaptive" =>
        \A p \in Pixels :
            /\ p[2] % 2 # gd_field => gd_motion[p] <= Level(Updates(gd_still))
            /\ p[2] % 2 = gd_field => gd_motion[p] <= Level(Updates(gd_still - 1))
DisplayInv == FieldTypes /\ Counted /\ WovenIs /\ HistoryIs /\ MotionFades /\ StillIsExact /\ OnlyNewField

\* A field: the picture's rows of its parity are taken.
Taken(pic) ==
    LET par == gd_field
        wv == [p \in Pixels |-> IF p[2] % 2 = par THEN pic[p] ELSE gd_woven[p]]
        mo == IF gd_mode = "adaptive"
              THEN [p \in Pixels |-> IF p[2] % 2 = par THEN Motion(pic, p[2], p[1]) ELSE gd_motion[p]] ELSE gd_motion
        hs == IF gd_mode \in Keeps
              THEN [gd_history EXCEPT ![par] = [p \in Pixels |-> IF p[2] % 2 = par THEN gd_woven[p] ELSE @[p]]] ELSE gd_history
    IN  /\ gd_woven' = wv /\ gd_motion' = mo /\ gd_history' = hs
        /\ gd_out' = Shown(gd_mode, par, wv, mo, hs)
        /\ gd_field' = 1 - gd_field
        /\ gd_pics' = <<pic>> \o SubSeq(gd_pics, 1, 3)
        /\ gd_still' = IF pic = gd_pics[1] THEN Min({gd_still + 1, Settled(gd_mode)}) ELSE 1
        /\ gd_run' = Min({gd_run + 1, 4})
        /\ gd_mode' = gd_mode

LEMMA Shifted ==
    ASSUME NEW S, NEW s \in Seq(S), Len(s) = 4, NEW e \in S
    PROVE  /\ <<e>> \o SubSeq(s, 1, 3) \in Seq(S) /\ Len(<<e>> \o SubSeq(s, 1, 3)) = 4
           /\ (<<e>> \o SubSeq(s, 1, 3))[1] = e /\ (<<e>> \o SubSeq(s, 1, 3))[2] = s[1]
           /\ (<<e>> \o SubSeq(s, 1, 3))[3] = s[2] /\ (<<e>> \o SubSeq(s, 1, 3))[4] = s[3]
<1> DEFINE t == SubSeq(s, 1, 3)
           h == <<e>>
           r == h \o t
<1>1. \A i \in 1 .. 3 : s[i] \in S
    BY ElementOfSeq
<1>2. t \in Seq(S) /\ Len(t) = (IF 1 <= 3 THEN 3 - 1 + 1 ELSE 0) /\ \A i \in 1 .. 3 - 1 + 1 : t[i] = s[1 + i - 1]
    BY <1>1, SubSeqProperties
<1>3. h \in Seq(S) /\ Len(h) = 1 /\ h[1] = e
    OBVIOUS
<1> HIDE DEF t, h
<1>4. Len(t) = 3 /\ t[1] = s[1] /\ t[2] = s[2] /\ t[3] = s[3]
    BY <1>2
<1>5. /\ r \in Seq(S) /\ Len(r) = Len(h) + Len(t)
      /\ \A i \in 1 .. Len(h) + Len(t) : r[i] = IF i <= Len(h) THEN h[i] ELSE t[i - Len(h)]
    BY <1>2, <1>3, ConcatProperties
<1> HIDE DEF r
<1>6. Len(r) = 4 /\ r[1] = h[1] /\ r[2] = t[1] /\ r[3] = t[2] /\ r[4] = t[3]
    BY <1>3, <1>4, <1>5
<1> QED
    BY <1>3, <1>4, <1>5, <1>6 DEF r, h, t

LEMMA TakenTypes ==
    ASSUME DisplayInv, NEW pic \in Frame, Taken(pic)
    PROVE  /\ FieldTypes'
           /\ gd_pics'[1] = pic /\ gd_pics'[2] = gd_pics[1] /\ gd_pics'[3] = gd_pics[2] /\ gd_pics'[4] = gd_pics[3]
           /\ gd_run' = IF gd_run < 4 THEN gd_run + 1 ELSE 4
           /\ gd_still' = IF pic # gd_pics[1] THEN 1 ELSE IF gd_still < Settled(gd_mode) THEN gd_still + 1 ELSE gd_still
           /\ gd_field' = 1 - gd_field /\ gd_mode' = gd_mode
<1>1. FieldTypes
    BY DEF DisplayInv
<1>2. gd_pics' \in Seq(Frame) /\ Len(gd_pics') = 4
      /\ gd_pics'[1] = pic /\ gd_pics'[2] = gd_pics[1] /\ gd_pics'[3] = gd_pics[2] /\ gd_pics'[4] = gd_pics[3]
  <2>1. gd_pics \in Seq(Frame) /\ Len(gd_pics) = 4
      BY <1>1 DEF FieldTypes
  <2>2. gd_pics' = <<pic>> \o SubSeq(gd_pics, 1, 3)
      BY DEF Taken
  <2> QED
      BY <2>1, <2>2, Shifted
<1>3. gd_run' = IF gd_run < 4 THEN gd_run + 1 ELSE 4
  <2>1. \A n \in 0 .. 4 : Min({n + 1, 4}) = IF n < 4 THEN n + 1 ELSE 4
      BY DEF Min
  <2> QED
      BY <1>1, <2>1 DEF FieldTypes, Taken
<1>4. Settled(gd_mode) \in Nat /\ Settled(gd_mode) >= 4 /\ gd_still \in 0 .. Settled(gd_mode)
    BY <1>1 DEF FieldTypes, Settled
<1>5. gd_still' = IF pic # gd_pics[1] THEN 1 ELSE IF gd_still < Settled(gd_mode) THEN gd_still + 1 ELSE gd_still
  <2>1. \A n, m \in Nat : n <= m => Min({n + 1, m}) = IF n < m THEN n + 1 ELSE n
      BY DEF Min
  <2> QED
      BY <1>4, <2>1 DEF Taken
<1>6. gd_field' = 1 - gd_field /\ gd_mode' = gd_mode
    BY DEF Taken
<1>7. gd_woven' \in Frame
  <2>1. gd_woven' = [p \in Pixels |-> IF p[2] % 2 = gd_field THEN pic[p] ELSE gd_woven[p]]
      BY DEF Taken
  <2> QED
      BY <1>1, <2>1 DEF FieldTypes, Frame
<1>8. gd_motion' \in Frame
  <2>1. CASE gd_mode = "adaptive"
    <3>1. gd_motion' = [p \in Pixels |-> IF p[2] % 2 = gd_field THEN Motion(pic, p[2], p[1]) ELSE gd_motion[p]]
        BY <2>1 DEF Taken
    <3>2. \A p \in Pixels : Motion(pic, p[2], p[1]) \in 0 .. 255
      <4>1. ASSUME NEW x \in Cols, NEW y \in Rows PROVE Motion(pic, y, x) \in 0 .. 255
        <5>1. gd_woven \in Frame /\ gd_motion \in Frame
            BY <1>1 DEF FieldTypes
        <5> QED
            BY <5>1, MotionIs
      <4> QED
          BY <4>1, Sizes
    <3> QED
        BY <1>1, <3>1, <3>2 DEF FieldTypes, Frame
  <2>2. CASE gd_mode # "adaptive"
      BY <1>1, <2>2 DEF Taken, FieldTypes
  <2> QED
      BY <2>1, <2>2
<1>9. gd_history' \in [0 .. 1 -> Frame]
  <2>1. CASE gd_mode \in Keeps
    <3> DEFINE new == [p \in Pixels |-> IF p[2] % 2 = gd_field THEN gd_woven[p] ELSE gd_history[gd_field][p]]
    <3>1. gd_history' = [gd_history EXCEPT ![gd_field] = new]
        BY <2>1 DEF Taken
    <3>2. gd_history[gd_field] \in Frame /\ gd_woven \in Frame
        BY <1>1 DEF FieldTypes
    <3>3. new \in Frame
        BY <3>2 DEF Frame
    <3> HIDE DEF new
    <3> QED
        BY <1>1, <3>1, <3>3 DEF FieldTypes
  <2>2. CASE gd_mode \notin Keeps
      BY <1>1, <2>2 DEF Taken, FieldTypes
  <2> QED
      BY <2>1, <2>2
<1>10. gd_field' \in {0, 1} /\ gd_run' \in 0 .. 4 /\ gd_still' \in 0 .. Settled(gd_mode') /\ gd_mode' \in Modes
    BY <1>1, <1>3, <1>4, <1>5, <1>6 DEF FieldTypes
<1>11. FieldTypes'
    BY <1>2, <1>7, <1>8, <1>9, <1>10 DEF FieldTypes, Settled
<1> QED
    BY <1>2, <1>3, <1>5, <1>6, <1>11

LEMMA TakenHolds ==
    ASSUME DisplayInv, NEW pic \in Frame, Taken(pic)
    PROVE  Counted' /\ WovenIs' /\ HistoryIs' /\ MotionFades'
<1>1. /\ FieldTypes /\ FieldTypes'
      /\ gd_pics'[1] = pic /\ gd_pics'[2] = gd_pics[1] /\ gd_pics'[3] = gd_pics[2] /\ gd_pics'[4] = gd_pics[3]
      /\ gd_run' = IF gd_run < 4 THEN gd_run + 1 ELSE 4
      /\ gd_still' = IF pic # gd_pics[1] THEN 1 ELSE IF gd_still < Settled(gd_mode) THEN gd_still + 1 ELSE gd_still
      /\ gd_field' = 1 - gd_field /\ gd_mode' = gd_mode
    BY TakenTypes DEF DisplayInv
<1>2. gd_field \in {0, 1} /\ gd_run \in 0 .. 4 /\ gd_still \in Nat /\ Settled(gd_mode) \in Nat /\ Settled(gd_mode) >= 4
    BY <1>1 DEF FieldTypes, Settled
<1>3. \A p \in Pixels : p[2] % 2 \in {0, 1}
    BY Sizes
<1>4. Counted'
  <2> SUFFICES ASSUME NEW i \in 1 .. 4, i <= gd_still' PROVE gd_pics'[i] = gd_pics'[1] /\ i <= gd_run'
      BY DEF Counted
  <2>1. CASE i = 1
      BY <1>1, <1>2, <2>1
  <2>2. CASE i # 1
    <3>1. pic = gd_pics[1] /\ i - 1 \in 1 .. 4 /\ i - 1 <= gd_still
        BY <1>1, <1>2, <2>2
    <3>2. gd_pics[i - 1] = gd_pics[1] /\ i - 1 <= gd_run
        BY <3>1 DEF DisplayInv, Counted
    <3>3. gd_pics'[i] = gd_pics[i - 1]
        BY <1>1, <2>2
    <3>4. i <= gd_run'
        BY <1>1, <1>2, <3>2
    <3> QED
        BY <1>1, <3>1, <3>2, <3>3, <3>4
  <2> QED
      BY <2>1, <2>2
<1>5. \A p \in Pixels : gd_woven'[p] = IF p[2] % 2 = gd_field THEN pic[p] ELSE gd_woven[p]
    BY DEF Taken
<1>6. WovenIs'
  <2> SUFFICES ASSUME NEW p \in Pixels
               PROVE  /\ gd_run' >= 1 /\ p[2] % 2 # gd_field' => gd_woven'[p] = gd_pics'[1][p]
                      /\ gd_run' >= 2 /\ p[2] % 2 = gd_field' => gd_woven'[p] = gd_pics'[2][p]
      BY DEF WovenIs
  <2>1. gd_run >= 1 /\ p[2] % 2 # gd_field => gd_woven[p] = gd_pics[1][p]
      BY DEF DisplayInv, WovenIs
  <2>2. CASE p[2] % 2 = gd_field
      BY <1>1, <1>2, <1>5, <2>2
  <2>3. CASE p[2] % 2 # gd_field
      BY <1>1, <1>2, <1>3, <1>5, <2>1, <2>3
  <2> QED
      BY <2>2, <2>3
<1>7. HistoryIs'
  <2> SUFFICES ASSUME gd_mode \in Keeps, NEW p \in Pixels
               PROVE  /\ gd_run' >= 3 /\ p[2] % 2 # gd_field' => gd_history'[p[2] % 2][p] = gd_pics'[3][p]
                      /\ gd_run' >= 4 /\ p[2] % 2 = gd_field' => gd_history'[p[2] % 2][p] = gd_pics'[4][p]
      BY <1>1 DEF HistoryIs
  <2> DEFINE new == [q \in Pixels |-> IF q[2] % 2 = gd_field THEN gd_woven[q] ELSE gd_history[gd_field][q]]
  <2>1. gd_history' = [gd_history EXCEPT ![gd_field] = new] /\ DOMAIN gd_history = 0 .. 1
      BY <1>1 DEF Taken, FieldTypes
  <2>2. p[2] % 2 = gd_field => new[p] = gd_woven[p]
      OBVIOUS
  <2> HIDE DEF new
  <2>3. CASE p[2] % 2 = gd_field
    <3>1. gd_run >= 2 => gd_woven[p] = gd_pics[2][p]
        BY <2>3 DEF DisplayInv, WovenIs
    <3>2. gd_history'[p[2] % 2] = new
        BY <1>2, <2>1, <2>3
    <3> QED
        BY <1>1, <1>2, <2>2, <2>3, <3>1, <3>2
  <2>4. CASE p[2] % 2 # gd_field
    <3>1. gd_run >= 3 => gd_history[p[2] % 2][p] = gd_pics[3][p]
        BY <2>4 DEF DisplayInv, HistoryIs
    <3>2. gd_history'[p[2] % 2] = gd_history[p[2] % 2]
        BY <1>2, <1>3, <2>1, <2>4
    <3> QED
        BY <1>1, <1>2, <1>3, <2>4, <3>1, <3>2
  <2> QED
      BY <2>3, <2>4
<1>8. MotionFades'
  <2> SUFFICES ASSUME gd_mode = "adaptive", NEW p \in Pixels
               PROVE  /\ p[2] % 2 # gd_field' => gd_motion'[p] <= Level(Updates(gd_still'))
                      /\ p[2] % 2 = gd_field' => gd_motion'[p] <= Level(Updates(gd_still' - 1))
      BY <1>1 DEF MotionFades
  <2>1. gd_motion'[p] = IF p[2] % 2 = gd_field THEN Motion(pic, p[2], p[1]) ELSE gd_motion[p]
      BY DEF Taken
  <2>2. gd_motion[p] \in 0 .. 255 /\ gd_motion'[p] \in 0 .. 255
      BY <1>1 DEF FieldTypes, Frame
  <2>3. gd_still \in 0 .. 18 /\ Settled(gd_mode) = 18
      BY <1>1 DEF FieldTypes, Settled
  <2>4. CASE p[2] % 2 = gd_field
    <3>1. p[2] % 2 # gd_field'
        BY <1>1, <1>2, <2>4
    <3>2. CASE gd_still' < 3
      <4>1. gd_still' \in Nat
          BY <1>1, <2>3
      <4> DEFINE n == gd_still'
      <4> HIDE DEF n
      <4>3. n \in Nat /\ n < 3
          BY <3>2, <4>1 DEF n
      <4>4. Updates(n) = 0
          BY <4>3 DEF Updates
      <4>2. Updates(gd_still') = 0
          BY <4>4 DEF n
      <4> QED
          BY <2>2, <3>1, <4>2 DEF Level
    <3>3. CASE ~(gd_still' < 3)
      <4>1. pic = gd_pics[1] /\ gd_still >= 2
          BY <1>1, <2>3, <3>3
      <4>2. gd_pics[2] = gd_pics[1] /\ gd_run >= 2
          BY <2>3, <4>1 DEF DisplayInv, Counted
      <4>3. \A i \in Cols : gd_woven[<<i, p[2]>>] = pic[<<i, p[2]>>]
        <5> SUFFICES ASSUME NEW i \in Cols PROVE gd_woven[<<i, p[2]>>] = pic[<<i, p[2]>>]
            OBVIOUS
        <5> DEFINE q == <<i, p[2]>>
        <5>1. q \in Pixels /\ q[2] = p[2]
            BY Sizes
        <5> HIDE DEF q
        <5>2. gd_woven[q] = gd_pics[2][q]
            BY <2>4, <4>2, <5>1 DEF DisplayInv, WovenIs
        <5> QED
            BY <4>1, <4>2, <5>2 DEF q
      <4>4. gd_motion'[p] = gd_motion[p] \div 2
        <5>1. p[1] \in Cols /\ p[2] \in Rows /\ p = <<p[1], p[2]>>
            BY Sizes
        <5> DEFINE x == p[1]
                   y == p[2]
        <5>2. Motion(pic, y, x) = gd_motion[<<x, y>>] \div 2
          <6>1. x \in Cols /\ y \in Rows /\ gd_woven \in Frame /\ gd_motion \in Frame
                /\ \A i \in Cols : gd_woven[<<i, y>>] = pic[<<i, y>>]
              BY <1>1, <4>3, <5>1 DEF FieldTypes
          <6> HIDE DEF x, y
          <6> QED
              BY <6>1, MotionIs
        <5> QED
            BY <2>1, <2>4, <5>1, <5>2
      <4>5. gd_motion[p] <= Level(Updates(gd_still - 1))
          BY <2>4 DEF DisplayInv, MotionFades
      <4> DEFINE k == Updates(gd_still - 1)
      <4>6. k \in Nat /\ (Updates(gd_still') = k + 1 \/ (Updates(gd_still') = 8 /\ k = 8))
        <5>1. gd_still \in 2 .. 18
            BY <2>3, <4>1
        <5>2. gd_still' = gd_still + 1 \/ (gd_still' = 18 /\ gd_still = 18)
            BY <1>1, <2>3, <4>1
        <5>3. ASSUME NEW n \in 2 .. 18 PROVE Updates(n - 1) \in Nat /\ Updates(n + 1) = Updates(n - 1) + 1
          <6>1. CASE n = 2 \/ n = 3
              BY <6>1 DEF Updates
          <6>2. CASE n >= 4
            <7>1. (n - 1) - 1 \in Nat /\ (n + 1) - 1 = ((n - 1) - 1) + 2
                BY <6>2
            <7> QED
                BY <6>2, <7>1 DEF Updates
          <6> QED
              BY <6>1, <6>2
        <5>4. Updates(18) = 8 /\ Updates(18 - 1) = 8
            BY DEF Updates
        <5> QED
            BY <5>1, <5>2, <5>3, <5>4
      <4> HIDE DEF k
      <4>7. gd_motion[p] \div 2 <= Level(k + 1)
          BY <2>2, <4>5, <4>6, Halved DEF k
      <4>8. Level(8 + 1) = Level(8)
          BY DEF Level
      <4> QED
          BY <3>1, <4>4, <4>6, <4>7, <4>8
    <3> QED
        BY <3>2, <3>3
  <2>5. CASE p[2] % 2 # gd_field
    <3>1. p[2] % 2 = gd_field' /\ gd_motion'[p] = gd_motion[p]
        BY <1>1, <1>2, <1>3, <2>1, <2>5
    <3>2. gd_motion[p] <= Level(Updates(gd_still))
        BY <2>5 DEF DisplayInv, MotionFades
    <3>3. CASE gd_still' = 1
      <4>1. Updates(gd_still' - 1) = 0
          BY <3>3 DEF Updates
      <4> QED
          BY <2>2, <3>1, <4>1 DEF Level
    <3>4. CASE gd_still' = gd_still + 1
      <4>1. gd_still' - 1 = gd_still
          BY <1>2, <3>4
      <4> QED
          BY <3>1, <3>2, <4>1
    <3>5. CASE gd_still' = gd_still /\ gd_still = 18
      <4>1. Updates(18) = 8 /\ Updates(18 - 1) = 8
          BY DEF Updates
      <4> QED
          BY <3>1, <3>2, <3>5, <4>1
    <3> QED
        BY <1>1, <2>3, <3>3, <3>4, <3>5
  <2> QED
      BY <2>4, <2>5
<1> QED
    BY <1>4, <1>6, <1>7, <1>8

(***************************************************************************)
(* What is shown of the field just taken.                                  *)
(***************************************************************************)
LEMMA StillStands ==
    ASSUME FieldTypes, Counted, WovenIs, gd_still >= 2
    PROVE  /\ \A p \in Pixels : gd_woven[p] = gd_pics[1][p]
           /\ gd_mode \in Keeps /\ gd_still >= 4 /\ HistoryIs => Stands(gd_woven, gd_history, gd_pics[1])
<1>1. gd_still \in Nat /\ gd_field \in {0, 1} /\ gd_run \in Nat /\ \A p \in Pixels : p[2] % 2 \in {0, 1}
    BY Sizes DEF FieldTypes, Settled
<1>2. gd_pics[2] = gd_pics[1] /\ gd_run >= 2
    BY <1>1 DEF Counted
<1>3. \A p \in Pixels : gd_woven[p] = gd_pics[1][p]
    BY <1>1, <1>2 DEF WovenIs
<1>4. ASSUME gd_mode \in Keeps, gd_still >= 4, HistoryIs PROVE Stands(gd_woven, gd_history, gd_pics[1])
  <2>1. gd_pics[3] = gd_pics[1] /\ gd_pics[4] = gd_pics[1] /\ gd_run >= 4
      BY <1>1, <1>4 DEF Counted
  <2>2. \A p \in Pixels : gd_history[p[2] % 2][p] = gd_pics[1][p]
      BY <1>1, <1>4, <2>1 DEF HistoryIs
  <2>3. gd_woven \in Frame /\ gd_history \in [0 .. 1 -> Frame] /\ gd_pics[1] \in Frame
      BY ElementOfSeq DEF FieldTypes
  <2> QED
      BY <1>3, <2>2, <2>3 DEF Stands
<1> QED
    BY <1>3, <1>4

LEMMA MotionGone ==
    ASSUME FieldTypes, MotionFades, gd_mode = "adaptive", gd_still >= 18
    PROVE  \A p \in Pixels : RowMotion(gd_motion, p[1], p[2]) = 0
<1>1. gd_still = 18 /\ gd_field \in {0, 1} /\ \A p \in Pixels : p[2] % 2 \in {0, 1}
    BY Sizes DEF FieldTypes, Settled
<1>2. Updates(18) = 8 /\ Updates(18 - 1) = 8 /\ Level(8) = 0
    BY DEF Updates, Level
<1>3. ASSUME NEW p \in Pixels PROVE gd_motion[p] = 0
  <2>1. gd_motion[p] \in 0 .. 255
      BY DEF FieldTypes, Frame
  <2>2. gd_motion[p] <= 0
      BY <1>1, <1>2 DEF MotionFades
  <2> QED
      BY <2>1, <2>2
<1>4. ASSUME NEW p \in Pixels PROVE RowMotion(gd_motion, p[1], p[2]) = 0
  <2> DEFINE x == p[1]
             y == p[2]
  <2>1. x \in Cols /\ y \in Rows /\ Above(y) \in Rows /\ Below(y) \in Rows
      BY AboveBelow, Sizes
  <2> HIDE DEF x, y
  <2>2. gd_motion[<<x, Above(y)>>] = 0 /\ gd_motion[<<x, Below(y)>>] = 0 /\ gd_motion[<<x, y>>] = 0
      BY <1>3, <2>1, Sizes
  <2>3. RowMotion(gd_motion, x, y) = Max({0, 0, 0})
      BY <2>2 DEF RowMotion
  <2>4. Max({0, 0, 0}) = 0
      BY DEF Max
  <2> QED
      BY <2>3, <2>4 DEF x, y
<1> QED
    BY <1>4

\* The frame shown, of what is kept: the field just taken is not gd_field.
OutIs == gd_out = Shown(gd_mode, 1 - gd_field, gd_woven, gd_motion, gd_history)
LEMMA StillShown ==
    ASSUME FieldTypes, Counted, WovenIs, HistoryIs, MotionFades, OutIs
    PROVE  StillIsExact
<1> DEFINE par == 1 - gd_field
<1>1. par \in {0, 1} /\ \A p \in Pixels : p[2] % 2 \in {0, 1} /\ p[1] \in Cols /\ p[2] \in Rows /\ p = <<p[1], p[2]>>
    BY Sizes DEF FieldTypes
<1>2. gd_still \in Nat /\ Settled("adaptive") = 18
    BY DEF FieldTypes, Settled
<1> SUFFICES ASSUME NEW p \in Pixels
             PROVE  /\ gd_mode = "weave" /\ gd_still >= 2 => gd_out[p] = Pic[p]
                    /\ gd_mode = "bwdif" /\ gd_still >= 4 => gd_out[p] = Pic[p]
                    /\ gd_mode = "adaptive" /\ gd_still >= Settled(gd_mode) => gd_out[p] = Pic[p]
                    /\ gd_mode = "yadif" /\ gd_still >= 4 /\ Between(p) => gd_out[p] = Pic[p]
    BY DEF StillIsExact
<1>3. gd_still >= 2 => gd_woven[p] = Pic[p]
    BY StillStands DEF Pic
<1>4. gd_mode \in Keeps /\ gd_still >= 4 => Stands(gd_woven, gd_history, Pic)
    BY <1>2, StillStands DEF Pic
<1> HIDE DEF par
<1>5. ASSUME gd_mode = "weave", gd_still >= 2 PROVE gd_out[p] = Pic[p]
    BY <1>3, <1>5, ShownIs DEF OutIs
<1>6. ASSUME gd_mode = "bwdif", gd_still >= 4 PROVE gd_out[p] = Pic[p]
  <2>1. gd_out[p] = IF p[2] % 2 # par THEN gd_woven[p] ELSE bwdif(gd_woven, gd_history, par, p[1], p[2])
      BY <1>6, ShownIs DEF OutIs, par
  <2>2. bwdif(gd_woven, gd_history, p[2] % 2, p[1], p[2]) = Pic[p]
    <3> DEFINE x == p[1]
               y == p[2]
    <3>1. x \in Cols /\ y \in Rows /\ p = <<x, y>> /\ Stands(gd_woven, gd_history, Pic)
        BY <1>1, <1>4, <1>6 DEF Keeps
    <3> HIDE DEF x, y
    <3>2. bwdif(gd_woven, gd_history, y % 2, x, y) = Pic[p]
        BY <3>1, BwdifStill
    <3> QED
        BY <3>2 DEF x, y
  <2> QED
      BY <1>2, <1>3, <1>6, <2>1, <2>2
<1>7. ASSUME gd_mode = "adaptive", gd_still >= 18 PROVE gd_out[p] = Pic[p]
  <2>1. gd_out[p] = IF p[2] % 2 # par THEN Mixed(gd_woven, RowMotion(gd_motion, p[1], p[2]), p[1], p[2]) ELSE gd_woven[p]
      BY <1>7, ShownIs DEF OutIs, par
  <2>2. RowMotion(gd_motion, p[1], p[2]) = 0
      BY <1>7, MotionGone
  <2>3. Mixed(gd_woven, 0, p[1], p[2]) = gd_woven[p]
      BY <1>1, MixedStill DEF FieldTypes
  <2> QED
      BY <1>2, <1>3, <1>7, <2>1, <2>2, <2>3
<1>8. ASSUME gd_mode = "yadif", gd_still >= 4, Between(p) PROVE gd_out[p] = Pic[p]
  <2>1. gd_out[p] = IF p[2] % 2 # par THEN gd_woven[p] ELSE yadif(gd_woven, gd_history, par, p[1], p[2])
      BY <1>8, ShownIs DEF OutIs, par
  <2>2. yadif(gd_woven, gd_history, p[2] % 2, p[1], p[2]) = Pic[p]
    <3> DEFINE x == p[1]
               y == p[2]
               c == Pic[<<x, y - 1>>]
               e == Pic[<<x, y + 1>>]
               d == Pic[<<x, y>>]
    <3>1. x \in Cols /\ y \in 1 .. GdHeight - 2 /\ p = <<x, y>> /\ Stands(gd_woven, gd_history, Pic)
        BY <1>1, <1>4, <1>8 DEF Keeps, Between
    <3>2. Above(y) = y - 1 /\ Below(y) = y + 1
        BY <3>1, Sizes DEF Above, Below
    <3>3. Min({c, e}) <= d /\ d <= Max({c, e})
        BY <1>8, <3>1, <3>2 DEF Between
    <3>4. c \in Int /\ e \in Int /\ d \in Int
      <4>1. y - 1 \in Rows /\ y + 1 \in Rows /\ y \in Rows /\ Pic \in Frame
          BY <3>1, Sizes DEF Rows, Stands
      <4> HIDE DEF x, y
      <4>2. <<x, y - 1>> \in Pixels /\ <<x, y + 1>> \in Pixels /\ <<x, y>> \in Pixels
          BY <3>1, <4>1, Sizes
      <4> QED
          BY <4>1, <4>2 DEF Frame
    <3>5. (c <= d /\ d <= e) \/ (e <= d /\ d <= c)
      <4> HIDE DEF c, d, e
      <4>1. \A a, b \in Int : (Min({a, b}) = IF a <= b THEN a ELSE b) /\ (Max({a, b}) = IF a <= b THEN b ELSE a)
          BY DEF Min, Max
      <4> QED
          BY <3>3, <3>4, <4>1
    <3> DEFINE P == Pic
    <3> HIDE DEF x, y, P
    <3>6. (P[<<x, y - 1>>] <= P[<<x, y>>] /\ P[<<x, y>>] <= P[<<x, y + 1>>])
          \/ (P[<<x, y + 1>>] <= P[<<x, y>>] /\ P[<<x, y>>] <= P[<<x, y - 1>>])
        BY <3>5 DEF P
    <3>7. Stands(gd_woven, gd_history, P)
        BY <3>1 DEF P
    <3>8. yadif(gd_woven, gd_history, y % 2, x, y) = P[<<x, y>>]
        BY <3>1, <3>6, <3>7, YadifStill
    <3> QED
        BY <3>1, <3>8 DEF x, y, P
  <2> QED
      BY <1>2, <1>3, <1>8, <2>1, <2>2
<1> QED
    BY <1>2, <1>5, <1>6, <1>7, <1>8

\* The field just taken has weighed its changes against what it replaced.
MotionSeen ==
    gd_mode = "adaptive" /\ gd_run >= 3 =>
        \A p \in Pixels : p[2] % 2 # gd_field /\ Dist(gd_pics[3][p], gd_pics[1][p]) >= MOTION_HI => gd_motion[p] = 255
LEMMA TakenSeen ==
    ASSUME DisplayInv, NEW pic \in Frame, Taken(pic)
    PROVE  MotionSeen'
<1>1. FieldTypes /\ WovenIs
    BY DEF DisplayInv
<1>2. gd_field \in {0, 1} /\ gd_run \in 0 .. 4 /\ gd_woven \in Frame /\ gd_motion \in Frame
    BY <1>1 DEF FieldTypes
<1>3. /\ gd_pics'[1] = pic /\ gd_pics'[3] = gd_pics[2] /\ gd_field' = 1 - gd_field /\ gd_mode' = gd_mode
      /\ gd_run' = IF gd_run < 4 THEN gd_run + 1 ELSE 4
    BY TakenTypes
<1> SUFFICES ASSUME gd_mode = "adaptive", gd_run' >= 3, NEW p \in Pixels, p[2] % 2 # gd_field',
                    Dist(gd_pics'[3][p], gd_pics'[1][p]) >= MOTION_HI
             PROVE  gd_motion'[p] = 255
    BY <1>3 DEF MotionSeen
<1>4. p[2] % 2 \in {0, 1} /\ p[1] \in Cols /\ p[2] \in Rows /\ p = <<p[1], p[2]>>
    BY Sizes
<1>5. p[2] % 2 = gd_field /\ gd_run >= 2
    BY <1>2, <1>3, <1>4
<1>6. gd_woven[p] = gd_pics[2][p]
    BY <1>1, <1>5 DEF WovenIs
<1>7. gd_motion'[p] = Motion(pic, p[2], p[1])
    BY <1>5 DEF Taken
<1>8. Dist(gd_woven[p], pic[p]) >= MOTION_HI
    BY <1>3, <1>6
<1> DEFINE x == p[1]
           y == p[2]
<1>9. x \in Cols /\ y \in Rows /\ Dist(gd_woven[<<x, y>>], pic[<<x, y>>]) >= MOTION_HI
    BY <1>4, <1>8
<1> HIDE DEF x, y
<1>10. Motion(pic, y, x) = 255
    BY <1>2, <1>9, MotionIs
<1> QED
    BY <1>7, <1>10 DEF x, y

\* Where the adaptive mode sees a change in full it shows what bob does.
LEMMA SeenShown ==
    ASSUME FieldTypes, MotionSeen, gd_mode = "adaptive", NEW p \in Pixels, p[2] % 2 = gd_field, SeenInFull(p)
    PROVE  Mixed(gd_woven, RowMotion(gd_motion, p[1], p[2]), p[1], p[2]) = Rebuilt(gd_woven, p[1], p[2])
<1> DEFINE x == p[1]
           y == p[2]
           u == Above(y)
           w == Below(y)
           a == gd_motion[<<x, u>>]
           b == gd_motion[<<x, w>>]
           c == gd_motion[<<x, y>>]
<1>1. gd_woven \in Frame /\ gd_motion \in Frame /\ gd_field \in {0, 1} /\ x \in Cols /\ y \in Rows /\ y % 2 = gd_field
    BY Sizes DEF FieldTypes
<1>2. u \in Rows /\ w \in Rows /\ u % 2 = 1 - (y % 2) /\ w % 2 = 1 - (y % 2)
    BY <1>1, AboveBelow
<1>3. PICK r \in {u, w} : gd_run >= 3 /\ Dist(gd_pics[3][<<x, r>>], gd_pics[1][<<x, r>>]) >= MOTION_HI
    BY DEF SeenInFull, Pic
<1> HIDE DEF x, y, u, w
<1>4. <<x, u>> \in Pixels /\ <<x, w>> \in Pixels /\ <<x, y>> \in Pixels
    BY <1>1, <1>2, Sizes
<1>5. a \in 0 .. 255 /\ b \in 0 .. 255 /\ c \in 0 .. 255
    BY <1>1, <1>4 DEF Frame
<1>6. gd_motion[<<x, r>>] = 255
  <2> DEFINE q == <<x, r>>
  <2>1. q \in Pixels /\ q[2] = r /\ r % 2 # gd_field
      BY <1>1, <1>2, <1>3, <1>4
  <2> HIDE DEF q
  <2>2. Dist(gd_pics[3][q], gd_pics[1][q]) >= MOTION_HI
      BY <1>3 DEF q
  <2>3. gd_motion[q] = 255
      BY <1>3, <2>1, <2>2 DEF MotionSeen
  <2> QED
      BY <2>3 DEF q
<1>7. a = 255 \/ b = 255
    BY <1>6
<1>8. RowMotion(gd_motion, x, y) = Max({a, b, c})
    BY DEF RowMotion, u, w
<1> HIDE DEF a, b, c
<1>9. Max({a, b, c}) = 255
  <2> DEFINE S == {a, b, c}
  <2>1. S \in SUBSET (0 .. 255) /\ 255 \in S
      BY <1>5, <1>7
  <2> HIDE DEF S
  <2>2. Max(S) \in 0 .. 255 /\ 255 <= Max(S)
      BY <2>1, MaxIs
  <2> QED
      BY <2>2 DEF S
<1>10. Mixed(gd_woven, 255, x, y) = Rebuilt(gd_woven, x, y)
    BY <1>1, MixedFull
<1> QED
    BY <1>8, <1>9, <1>10 DEF x, y

Started == gd_run >= 1
LEMMA NewFieldShown ==
    ASSUME FieldTypes, WovenIs, MotionSeen, Started, OutIs
    PROVE  OnlyNewField
<1> SUFFICES ASSUME NEW p \in Pixels, gd_mode = "bob" \/ (gd_mode = "adaptive" /\ SeenInFull(p))
             PROVE  \E q \in Pixels, r \in Pixels :
                        /\ q[2] % 2 # gd_field /\ r[2] % 2 # gd_field
                        /\ gd_out[p] \in {Pic[q], (Pic[q] + Pic[r]) \div 2, (Pic[q] + Pic[r] + 1) \div 2}
    BY DEF OnlyNewField
<1>1. gd_field \in {0, 1} /\ gd_woven \in Frame /\ p[2] % 2 \in {0, 1} /\ p[1] \in Cols /\ p[2] \in Rows
    BY Sizes DEF FieldTypes
<1>2. \A q \in Pixels : q[2] % 2 # gd_field => gd_woven[q] = Pic[q]
    BY DEF WovenIs, Pic, Started
<1>3. gd_out[p] = IF p[2] % 2 # 1 - gd_field THEN Rebuilt(gd_woven, p[1], p[2]) ELSE gd_woven[p]
  <2>1. CASE gd_mode = "bob"
      BY <2>1, ShownIs DEF OutIs
  <2>2. CASE gd_mode = "adaptive" /\ SeenInFull(p)
    <3>1. gd_out[p] = IF p[2] % 2 # 1 - gd_field THEN Mixed(gd_woven, RowMotion(gd_motion, p[1], p[2]), p[1], p[2])
                      ELSE gd_woven[p]
        BY <2>2, ShownIs DEF OutIs
    <3>2. CASE p[2] % 2 = gd_field
        BY <1>1, <2>2, <3>1, <3>2, SeenShown
    <3>3. CASE p[2] % 2 # gd_field
        BY <1>1, <3>1, <3>3
    <3> QED
        BY <3>2, <3>3
  <2> QED
      BY <2>1, <2>2
<1>4. CASE p[2] % 2 = 1 - gd_field
  <2>1. p[2] % 2 # gd_field /\ gd_out[p] = Pic[p]
      BY <1>1, <1>2, <1>3, <1>4
  <2> QED
      BY <2>1
<1>5. CASE p[2] % 2 # 1 - gd_field
  <2> DEFINE x == p[1]
             y == p[2]
             u == Above(y)
             w == Below(y)
  <2>1. y \in Rows /\ x \in Cols
      BY <1>1
  <2>2. u \in Rows /\ w \in Rows /\ u % 2 = 1 - (y % 2) /\ w % 2 = 1 - (y % 2)
      BY <2>1, AboveBelow
  <2>3. u % 2 # gd_field /\ w % 2 # gd_field
      BY <1>1, <1>5, <2>2
  <2> HIDE DEF x, y
  <2>4. PICK a, b \in Cols : Rebuilt(gd_woven, x, y) = (gd_woven[<<a, u>>] + gd_woven[<<b, w>>] + 1) \div 2
      BY <1>1, <2>1, RebuiltIs
  <2> DEFINE q == <<a, u>>
             r == <<b, w>>
  <2>5. q \in Pixels /\ r \in Pixels /\ q[2] = u /\ r[2] = w
      BY <2>2, Sizes
  <2> HIDE DEF u, w
  <2>6. gd_woven[q] = Pic[q] /\ gd_woven[r] = Pic[r]
      BY <1>2, <2>3, <2>5
  <2>7. gd_out[p] = (Pic[q] + Pic[r] + 1) \div 2
      BY <1>3, <1>5, <2>4, <2>6 DEF x, y
  <2> HIDE DEF q, r
  <2>8. q[2] % 2 # gd_field /\ r[2] % 2 # gd_field
      BY <2>3, <2>5
  <2> QED
      BY <2>5, <2>7, <2>8
<1> QED
    BY <1>4, <1>5

LEMMA TakenKeeps ==
    ASSUME DisplayInv, NEW pic \in Frame, Taken(pic)
    PROVE  DisplayInv'
<1>1. FieldTypes' /\ Started'
  <2>1. gd_run \in Nat
      BY DEF DisplayInv, FieldTypes
  <2> QED
      BY <2>1, TakenTypes DEF Started
<1>2. Counted' /\ WovenIs' /\ HistoryIs' /\ MotionFades'
    BY TakenHolds
<1>3. OutIs'
  <2>1. gd_field \in {0, 1}
      BY DEF DisplayInv, FieldTypes
  <2>2. gd_field' = 1 - gd_field /\ gd_mode' = gd_mode /\ gd_out' = Shown(gd_mode, gd_field, gd_woven', gd_motion', gd_history')
      BY DEF Taken
  <2>3. 1 - gd_field' = gd_field
      BY <2>1, <2>2
  <2> QED
      BY <2>2, <2>3 DEF OutIs
<1>4. StillIsExact'
    BY <1>1, <1>2, <1>3, StillShown, PTL
<1>5. OnlyNewField'
  <2>1. MotionSeen'
      BY TakenSeen
  <2> QED
      BY <1>1, <1>2, <1>3, <2>1, NewFieldShown, PTL
<1> QED
    BY <1>1, <1>2, <1>4, <1>5 DEF DisplayInv

\* Nothing is known of a mode just set or of a frame just resized.
Restarted == gd_still = 0 /\ gd_run = 0
LEMMA Anew ==
    ASSUME FieldTypes, Restarted
    PROVE  DisplayInv
<1>1. Counted /\ WovenIs /\ HistoryIs
    BY DEF Counted, WovenIs, HistoryIs, Restarted
<1>2. MotionFades
  <2>1. Updates(0) = 0 /\ Updates(0 - 1) = 0 /\ Level(0) = 255
      BY DEF Updates, Level
  <2>2. \A p \in Pixels : gd_motion[p] \in 0 .. 255
      BY DEF FieldTypes, Frame
  <2> QED
      BY <2>1, <2>2 DEF MotionFades, Restarted
<1>3. StillIsExact /\ OnlyNewField
    BY DEF StillIsExact, OnlyNewField, Settled, Restarted
<1> QED
    BY <1>1, <1>2, <1>3 DEF DisplayInv

\* Every picture of even height, every mode and every sequence of fields: a picture
\* that stands still is shown as it is once the mode has settled, bob shows the
\* new field only, and yadif and bwdif compare with the fields next in time.
THEOREM FieldsAreShown == GsDisplaySpec => []FieldsShown
<1>1. Black \in Frame
    BY DEF Black, Frame
<1>2. GdPictures \subseteq Frame /\ GdModes \subseteq Modes
    BY DisplayAssumption DEF Frame, Modes
<1>3. GsDisplayInit => DisplayInv
  <2> SUFFICES ASSUME GsDisplayInit PROVE FieldTypes /\ Restarted
      BY Anew
  <2>1. gd_pics \in Seq(Frame) /\ Len(gd_pics) = 4
    <3>1. PICK p \in GdPictures : gd_pics = [i \in 1 .. 4 |-> p]
        BY DEF GsDisplayInit
    <3> QED
        BY <1>2, <3>1
  <2> QED
      BY <1>1, <1>2, <2>1 DEF GsDisplayInit, FieldTypes, Settled, Restarted
<1>4. DisplayInv /\ [GsDisplayNext]_gd_vars => DisplayInv'
  <2> SUFFICES ASSUME DisplayInv, [GsDisplayNext]_gd_vars PROVE DisplayInv'
      OBVIOUS
  <2>1. CASE framebuffer_woven
    <3>1. PICK pic \in GdPictures : Taken(pic)
        BY <2>1 DEF framebuffer_woven, Taken
    <3> QED
        BY <1>2, <3>1, TakenKeeps
  <2>2. CASE SetDeinterlace
    <3>1. FieldTypes' /\ Restarted'
        BY <1>2, <2>2 DEF SetDeinterlace, DisplayInv, FieldTypes, Settled, Restarted
    <3> QED
        BY <3>1, Anew, PTL
  <2>3. CASE Resized
    <3>1. FieldTypes' /\ Restarted'
        BY <1>1, <2>3 DEF Resized, DisplayInv, FieldTypes, Settled, Restarted
    <3> QED
        BY <3>1, Anew, PTL
  <2>4. CASE UNCHANGED gd_vars
    <3>1. FieldTypes' /\ Counted'
        BY <2>4 DEF gd_vars, DisplayInv, FieldTypes, Counted
    <3>2. WovenIs' /\ HistoryIs'
        BY <2>4 DEF gd_vars, DisplayInv, WovenIs, HistoryIs
    <3>3. MotionFades'
        BY <2>4 DEF gd_vars, DisplayInv, MotionFades
    <3>4. StillIsExact'
        BY <2>4 DEF gd_vars, DisplayInv, StillIsExact, Pic, Between
    <3>5. OnlyNewField'
        BY <2>4 DEF gd_vars, DisplayInv, OnlyNewField, SeenInFull, Pic
    <3> QED
        BY <3>1, <3>2, <3>3, <3>4, <3>5 DEF DisplayInv
  <2> QED
      BY <2>1, <2>2, <2>3, <2>4 DEF GsDisplayNext
<1>5. DisplayInv => FieldsShown
  <2> SUFFICES ASSUME DisplayInv PROVE NeighboursInTime
      BY DEF FieldsShown, DisplayInv
  <2>1. gd_run \in Nat
      BY DEF DisplayInv, FieldTypes
  <2> QED
      BY <2>1 DEF NeighboursInTime, DisplayInv, WovenIs, HistoryIs
<1> QED
    BY <1>3, <1>4, <1>5, PTL DEF GsDisplaySpec
=============================================================================
