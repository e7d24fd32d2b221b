----------------------------- MODULE Sif_proofs -----------------------------
(***************************************************************************)
(* Proofs about two ways data moves: the SIF, and the chains of the EE's   *)
(* DMA controller.                                                         *)
(*                                                                         *)
(* The SIF: for any packets, transfers of one packet or of two, DMA        *)
(* lengths, mailbox bits and bound on what waits, what is sent on one side *)
(* is what the other side receives (LinkKept).                             *)
(* The packets sent on a path lie end to end in a stream of frames, a tag, *)
(* the data and its padding.  What waits in a FIFO, with what the EE still *)
(* has to push, is a contiguous tail of that stream (Laid); what has been  *)
(* received is the data before the tail (Taken); the receiver's channel is *)
(* at the tail's place within its packet (Stands1, Stands0), and           *)
(* the interrupts raised, plus the one a channel still owes, are the ends  *)
(* that have landed (Core1, Pumped0).  A turn of a receiver keeps these    *)
(* (TurnKeeps1, TurnKeeps0), so all the turns of a pump do (Pumping1,      *)
(* Pumping0), and what a pump leaves is at rest (Rests1, Rests0).  With    *)
(* the place of the one reset in each stream (MarksHold) that is           *)
(* LinkHolds, which every action keeps.                                    *)
(*                                                                         *)
(* The chains: for any programs the controller can follow and any runs of  *)
(* a destination chain, what moves is what they mean (ChainsKept).  A pump *)
(* is a function of its turn (PumpTurns, SprTurns).  From any tag (AtTag), *)
(* after as many turns as reading n blocks ahead counts, it has moved just *)
(* what that reading means and stands at the chain's end or behind the     *)
(* routine (Walked); that is AllWalk, by induction on n (WalkBlock), from  *)
(* which a whole chain follows (ChainMoves).  A destination chain stands   *)
(* before each run in turn (ToRun, InRun), up to the last (SprMoves).      *)
(***************************************************************************)
EXTENDS Sif, EeChain, SequenceTheorems, FiniteSetTheorems, WellFoundedInduction, TLAPS

(***************************************************************************)
(* Numbers.                                                                *)
(***************************************************************************)
LEMMA Least ==
    ASSUME NEW S \in SUBSET Nat, S # {}
    PROVE  \E n \in S : \A m \in S : n <= m
  <1> DEFINE R == OpToRel(<, Nat)
  <1>1. \A m, n \in Nat : m < n => <<m, n>> \in R
    BY DEF OpToRel
  <1>2. IsWellFoundedOn(R, Nat)
    BY NatLessThanWellFounded
  <1> HIDE DEF R
  <1>3. PICK n \in S : \A m \in S : ~(<<m, n>> \in R)
    BY <1>2, WFMin
  <1>4. \A m \in S : ~(m < n)
    BY <1>1, <1>3
  <1> QED
    BY <1>4

LEMMA Induction ==
    ASSUME NEW S \in SUBSET Nat, 0 \in S, \A n \in S : n + 1 \in S
    PROVE  S = Nat
  <1>1. SUFFICES ASSUME S # Nat PROVE FALSE
    OBVIOUS
  <1>2. PICK n \in Nat \ S : \A m \in Nat \ S : n <= m
    BY <1>1, Least
  <1>3. n - 1 \in S
    BY <1>2
  <1> QED
    BY <1>2, <1>3

LEMMA SplitOf ==
    ASSUME NEW e \in Nat \ {0}, NEW n \in Nat
    PROVE  n \div e \in Nat /\ n % e \in 0 .. (e - 1) /\ n = (n \div e) * e + (n % e)
  BY SMTT(30)

(***************************************************************************)
(* The link between the processors.                                        *)
(***************************************************************************)
SifPacket == [no : Nat, n : Nat \ {0}, end : BOOLEAN, cmd : {"none", "reset"}]
SifWord == [p : SifPacket, i : Nat]

LEMMA FrameFacts ==
    ASSUME NEW p \in SifPacket
    PROVE  /\ Quads(p.n) \in Nat \ {0} /\ FrameLen(p) \in Nat /\ FrameLen(p) = 4 + 4 * Quads(p.n)
           /\ 4 * Quads(p.n) >= p.n /\ 4 * Quads(p.n) < p.n + 4
           /\ Pad4(p.n) \in Nat /\ p.n + Pad4(p.n) = 4 * Quads(p.n)
           /\ p.n \in Nat \ {0} /\ p.end \in BOOLEAN /\ p.no \in Nat
  <1>1. p.n \in Nat \ {0} /\ p.end \in BOOLEAN /\ p.no \in Nat
    BY DEF SifPacket
  <1> DEFINE n == p.n
  <1> HIDE DEF n
  <1>2. Quads(n) \in Nat /\ 4 * Quads(n) >= n /\ 4 * Quads(n) < n + 4 /\ Quads(n) # 0
    <2>1. n + 3 \in Nat /\ 4 \in Nat \ {0} /\ n \in Nat \ {0}
      BY <1>1 DEF n
    <2> DEFINE k == (n + 3) \div 4  r == (n + 3) % 4
    <2>2. k \in Nat /\ r \in 0 .. 3 /\ n + 3 = k * 4 + r
      BY <2>1, SplitOf
    <2> HIDE DEF k, r
    <2>3. 4 * k >= n /\ 4 * k < n + 4 /\ k # 0
      BY <2>1, <2>2
    <2> QED
      BY <2>2, <2>3 DEF Quads, k
  <1>3. Pad4(n) \in Nat /\ n + Pad4(n) = 4 * Quads(n)
    <2>1. n \in Nat \ {0} /\ 4 \in Nat \ {0}
      BY <1>1 DEF n
    <2> DEFINE k == n \div 4  r == n % 4
    <2>2. k \in Nat /\ r \in 0 .. 3 /\ n = k * 4 + r
      BY <2>1, SplitOf
    <2>3. Pad4(n) = (4 - r) % 4
      BY DEF Pad4
    <2> HIDE DEF k, r
    <2>4. (4 - r) % 4 = IF r = 0 THEN 0 ELSE 4 - r
      BY <2>2
    <2> DEFINE q == Quads(n)
    <2>5. q \in Nat /\ 4 * q >= n /\ 4 * q < n + 4
      BY <1>2
    <2> HIDE DEF q
    <2>6. n + (IF r = 0 THEN 0 ELSE 4 - r) = 4 * q
      BY <2>2, <2>5
    <2>7. Pad4(n) = IF r = 0 THEN 0 ELSE 4 - r
      BY <2>3, <2>4
    <2>8. Pad4(n) \in Nat
      BY <2>2, <2>7
    <2>9. n + Pad4(n) = 4 * q
      BY <2>6, <2>7
    <2> QED
      BY <2>8, <2>9 DEF q
  <1> QED
    BY <1>1, <1>2, <1>3 DEF FrameLen, n

LEMMA DropIs ==
    ASSUME NEW S, NEW q \in Seq(S), NEW n \in 0 .. Len(q)
    PROVE  /\ Drop(q, n) \in Seq(S) /\ Len(Drop(q, n)) = Len(q) - n
           /\ \A i \in 1 .. Len(q) - n : Drop(q, n)[i] = q[n + i]
  <1>1. n + 1 \in 1 .. Len(q) + 1 /\ Len(q) \in Nat
    OBVIOUS
  <1>2. \A i \in n + 1 .. Len(q) : q[i] \in S
    BY <1>1
  <1> QED
    BY <1>1, <1>2, SubSeqProperties DEF Drop

LEMMA TakeIs ==
    ASSUME NEW S, NEW q \in Seq(S), NEW n \in 0 .. Len(q)
    PROVE  /\ Take(q, n) \in Seq(S) /\ Len(Take(q, n)) = n
           /\ \A i \in 1 .. n : Take(q, n)[i] = q[i]
  <1>1. Len(q) \in Nat /\ \A i \in 1 .. n : q[i] \in S
    OBVIOUS
  <1> QED
    BY <1>1, SubSeqProperties DEF Take

LEMMA TakeDrop ==
    ASSUME NEW S, NEW q \in Seq(S), NEW n \in 0 .. Len(q)
    PROVE  Take(q, n) \o Drop(q, n) = q
  <1> DEFINE a == Take(q, n)  b == Drop(q, n)
  <1>1. /\ a \in Seq(S) /\ Len(a) = n /\ (\A i \in 1 .. n : a[i] = q[i])
        /\ b \in Seq(S) /\ Len(b) = Len(q) - n /\ (\A i \in 1 .. Len(q) - n : b[i] = q[n + i])
    BY TakeIs, DropIs
  <1> HIDE DEF a, b
  <1>2. /\ a \o b \in Seq(S) /\ Len(a \o b) = Len(a) + Len(b)
        /\ \A i \in 1 .. Len(a) + Len(b) : (a \o b)[i] = IF i =< Len(a) THEN a[i] ELSE b[i - Len(a)]
    BY <1>1, ConcatProperties
  <1>5. Len(q) \in Nat /\ Len(a \o b) = Len(q)
    BY <1>1, <1>2
  <1>3. ASSUME NEW i \in 1 .. Len(q) PROVE (a \o b)[i] = q[i]
    <2>1. CASE i =< n
      BY <1>1, <1>2, <1>5, <2>1
    <2>2. CASE ~(i =< n)
      <3>1. (a \o b)[i] = b[i - n] /\ i - n \in 1 .. Len(q) - n /\ n + (i - n) = i
        BY <1>1, <1>2, <1>5, <2>2
      <3> QED
        BY <1>1, <3>1
    <2> QED
      BY <2>1, <2>2
  <1>4. a \o b = q
    BY <1>2, <1>3, <1>5, SeqEqual
  <1> QED
    BY <1>4 DEF a, b

\* Some of a concatenation's first part is taken off.
LEMMA DropOfConcat ==
    ASSUME NEW S, NEW q \in Seq(S), NEW r \in Seq(S), NEW n \in 0 .. Len(q)
    PROVE  Drop(q, n) \o r = Drop(q \o r, n)
  <1> DEFINE a == Drop(q, n)  c == q \o r  b == Drop(c, n)
  <1>1. a \in Seq(S) /\ Len(a) = Len(q) - n /\ (\A i \in 1 .. Len(q) - n : a[i] = q[n + i])
    BY DropIs
  <1>2. /\ c \in Seq(S) /\ Len(c) = Len(q) + Len(r)
        /\ \A i \in 1 .. Len(q) + Len(r) : c[i] = IF i =< Len(q) THEN q[i] ELSE r[i - Len(q)]
    BY ConcatProperties
  <1> HIDE DEF a, c
  <1>3. n \in 0 .. Len(c) /\ Len(q) \in Nat /\ Len(r) \in Nat
    BY <1>2
  <1>4. b \in Seq(S) /\ Len(b) = Len(c) - n /\ (\A i \in 1 .. Len(c) - n : b[i] = c[n + i])
    BY <1>2, <1>3, DropIs, ZenonT(30)
  <1> HIDE DEF b
  <1>5. /\ a \o r \in Seq(S) /\ Len(a \o r) = Len(c) - n
        /\ \A i \in 1 .. Len(c) - n : (a \o r)[i] = IF i =< Len(a) THEN a[i] ELSE r[i - Len(a)]
    <2>1. Len(a) + Len(r) = Len(c) - n
      BY <1>1, <1>2, <1>3
    <2>2. /\ a \o r \in Seq(S) /\ Len(a \o r) = Len(a) + Len(r)
          /\ \A i \in 1 .. Len(a) + Len(r) : (a \o r)[i] = IF i =< Len(a) THEN a[i] ELSE r[i - Len(a)]
      BY <1>1, ConcatProperties
    <2> QED
      BY <2>1, <2>2
  <1>6. ASSUME NEW i \in 1 .. Len(b) PROVE (a \o r)[i] = b[i]
    <2>1. b[i] = IF n + i =< Len(q) THEN q[n + i] ELSE r[(n + i) - Len(q)]
      <3>1. n + i \in 1 .. Len(q) + Len(r) /\ i \in 1 .. Len(c) - n
        BY <1>2, <1>3, <1>4
      <3> QED
        BY <1>2, <1>4, <3>1
    <2>2. (a \o r)[i] = IF i =< Len(a) THEN a[i] ELSE r[i - Len(a)]
      BY <1>4, <1>5
    <2>3. (i =< Len(a) <=> n + i =< Len(q)) /\ i - Len(a) = (n + i) - Len(q)
      BY <1>1, <1>3
    <2> QED
      BY <1>1, <1>3, <2>1, <2>2, <2>3
  <1>7. a \o r = b
    BY <1>4, <1>5, <1>6, SeqEqual
  <1> QED
    BY <1>7 DEF a, b, c

\* A stream q as it lies on the link when the packets ps have been sent: frames in
\* their order, up to the last one's end, from some word of theirs on.
Numbered(ps) == ps \in Seq(SifPacket) /\ \A k \in 1 .. Len(ps) : ps[k].no = k
Lies(w, ps) == w.p.no \in 1 .. Len(ps) /\ w.p = ps[w.p.no] /\ w.i < FrameLen(w.p)
Laid(q, ps) ==
    /\ q \in Seq(SifWord)
    /\ \A i \in 1 .. Len(q) : Lies(q[i], ps)
    /\ \A i \in 1 .. Len(q), d \in Nat :
          q[i].i + d < FrameLen(q[i].p) => i + d =< Len(q) /\ q[i + d] = Word(q[i].p, q[i].i + d)
    /\ \A i \in 1 .. Len(q) :
          q[i].i + 1 = FrameLen(q[i].p) =>
              IF i = Len(q) THEN q[i].p.no = Len(ps)
              ELSE q[i].p.no < Len(ps) /\ q[i + 1] = Word(ps[q[i].p.no + 1], 0)
    /\ \A j \in 1 .. Len(q) : \A i \in 1 .. j - 1 : Before(q[i], q[j])

LEMMA LaidDrop ==
    ASSUME NEW ps, NEW q, Laid(q, ps), NEW n \in 0 .. Len(q)
    PROVE  Laid(Drop(q, n), ps)
  <1> DEFINE r == Drop(q, n)
  <1>1. q \in Seq(SifWord) /\ Len(q) \in Nat
    BY DEF Laid
  <1>2. r \in Seq(SifWord) /\ Len(r) = Len(q) - n /\ \A i \in 1 .. Len(q) - n : r[i] = q[n + i]
    BY <1>1, DropIs
  <1> HIDE DEF r
  <1>3. ASSUME NEW i \in 1 .. Len(r) PROVE n + i \in 1 .. Len(q) /\ r[i] = q[n + i]
    BY <1>1, <1>2
  <1>4. ASSUME NEW i \in 1 .. Len(r) PROVE Lies(r[i], ps)
    BY <1>3 DEF Laid
  <1>5. ASSUME NEW i \in 1 .. Len(r), NEW d \in Nat, r[i].i + d < FrameLen(r[i].p)
        PROVE  i + d =< Len(r) /\ r[i + d] = Word(r[i].p, r[i].i + d)
    <2>1. (n + i) + d =< Len(q) /\ q[(n + i) + d] = Word(r[i].p, r[i].i + d)
      <3>1. n + i \in 1 .. Len(q) /\ q[n + i].i + d < FrameLen(q[n + i].p) /\ r[i] = q[n + i]
        BY <1>3, <1>5
      <3>2. (n + i) + d =< Len(q) /\ q[(n + i) + d] = Word(q[n + i].p, q[n + i].i + d)
        BY <3>1 DEF Laid
      <3> QED
        BY <3>1, <3>2
    <2>2. i + d \in 1 .. Len(r) /\ n + (i + d) = (n + i) + d
      BY <1>1, <1>2, <2>1
    <2>3. r[i + d] = q[n + (i + d)]
      BY <1>3, <2>2
    <2> QED
      BY <1>2, <2>1, <2>2, <2>3
  <1>6. ASSUME NEW i \in 1 .. Len(r), r[i].i + 1 = FrameLen(r[i].p)
        PROVE  IF i = Len(r) THEN r[i].p.no = Len(ps)
               ELSE r[i].p.no < Len(ps) /\ r[i + 1] = Word(ps[r[i].p.no + 1], 0)
    <2>1. IF n + i = Len(q) THEN r[i].p.no = Len(ps)
          ELSE r[i].p.no < Len(ps) /\ q[(n + i) + 1] = Word(ps[r[i].p.no + 1], 0)
      BY <1>3, <1>6 DEF Laid
    <2>2. CASE i = Len(r)
      BY <1>1, <1>2, <2>1, <2>2
    <2>3. CASE i # Len(r)
      <3>1. i + 1 \in 1 .. Len(r) /\ n + (i + 1) = (n + i) + 1 /\ n + i # Len(q)
        <4>1. i \in Nat /\ i < Len(r) /\ Len(r) \in Nat /\ n \in Nat /\ n + Len(r) = Len(q)
          BY <1>1, <1>2, <2>3
        <4> QED
          BY <4>1
      <3>2. r[i + 1] = q[n + (i + 1)]
        BY <1>3, <3>1
      <3> QED
        BY <2>1, <2>3, <3>1, <3>2
    <2> QED
      BY <2>2, <2>3
  <1>7. ASSUME NEW j \in 1 .. Len(r), NEW i \in 1 .. j - 1 PROVE Before(r[i], r[j])
    <2>1. i \in 1 .. Len(r) /\ n + i \in 1 .. (n + j) - 1
      BY <1>1, <1>2
    <2>2. Before(q[n + i], q[n + j])
      BY <1>3, <2>1 DEF Laid
    <2> QED
      BY <1>3, <2>1, <2>2
  <1> QED
    BY <1>2, <1>4, <1>5, <1>6, <1>7 DEF Laid, r

\* The next m words of a stream, if they are of one frame.
LEMMA Onward ==
    ASSUME NEW ps, NEW q, Laid(q, ps), q # <<>>, NEW m \in Nat, q[1].i + m =< FrameLen(q[1].p)
    PROVE  /\ 1 \in 1 .. Len(q) /\ q[1] \in SifWord /\ Lies(q[1], ps)
           /\ m \in 0 .. Len(q) /\ Laid(Drop(q, m), ps)
           /\ \A x \in 0 .. m - 1 : q[1 + x] = Word(q[1].p, q[1].i + x)
           /\ IF q[1].i + m < FrameLen(q[1].p)
              THEN Drop(q, m) # <<>> /\ Drop(q, m)[1] = Word(q[1].p, q[1].i + m)
              ELSE IF Drop(q, m) = <<>> THEN q[1].p.no = Len(ps)
              ELSE q[1].p.no < Len(ps) /\ Drop(q, m)[1] = Word(ps[q[1].p.no + 1], 0)
  <1> DEFINE w == q[1]  r == Drop(q, m)
  <1>1. q \in Seq(SifWord) /\ Len(q) \in Nat \ {0}
    BY DEF Laid
  <1>2. 1 \in 1 .. Len(q) /\ w \in SifWord /\ Lies(w, ps)
    BY <1>1 DEF Laid
  <1>3. w.i \in Nat /\ w.p \in SifPacket /\ FrameLen(w.p) \in Nat /\ w.i < FrameLen(w.p)
    BY <1>2, FrameFacts DEF SifWord, Lies
  <1>4. \A d \in Nat : w.i + d < FrameLen(w.p) => 1 + d =< Len(q) /\ q[1 + d] = Word(w.p, w.i + d)
    BY <1>2 DEF Laid
  <1>5. \A i \in 1 .. Len(q) : q[i].i + 1 = FrameLen(q[i].p) =>
              IF i = Len(q) THEN q[i].p.no = Len(ps)
              ELSE q[i].p.no < Len(ps) /\ q[i + 1] = Word(ps[q[i].p.no + 1], 0)
    BY DEF Laid
  <1> HIDE DEF w
  <1>6. ASSUME NEW x \in 0 .. m - 1 PROVE 1 + x =< Len(q) /\ q[1 + x] = Word(w.p, w.i + x)
    <2>1. x \in Nat /\ w.i + x < FrameLen(w.p)
      BY <1>3 DEF w
    <2> QED
      BY <1>4, <2>1
  <1>7. m \in 0 .. Len(q)
    <2>1. CASE m = 0
      BY <1>1, <2>1
    <2>2. CASE m # 0
      <3>1. m - 1 \in 0 .. m - 1 /\ 1 + (m - 1) = m
        BY <2>2
      <3> QED
        BY <1>1, <1>6, <3>1
    <2> QED
      BY <2>1, <2>2
  <1>8. r \in Seq(SifWord) /\ Len(r) = Len(q) - m /\ \A i \in 1 .. Len(q) - m : r[i] = q[m + i]
    BY <1>1, <1>7, DropIs
  <1>9. Laid(r, ps)
    BY <1>7, LaidDrop
  <1> HIDE DEF r
  <1>10. CASE w.i + m < FrameLen(w.p)
    <2>1. 1 + m =< Len(q) /\ q[1 + m] = Word(w.p, w.i + m)
      BY <1>4, <1>10
    <2>2. 1 \in 1 .. Len(q) - m /\ m + 1 = 1 + m /\ Len(r) # 0
      BY <1>1, <1>8, <2>1
    <2>3. r # <<>> /\ r[1] = q[1 + m]
      BY <1>8, <2>2
    <2> QED
      BY <1>2, <1>6, <1>7, <1>9, <1>10, <2>1, <2>3 DEF w, r
  <1>11. CASE ~(w.i + m < FrameLen(w.p))
    <2>1. w.i + m = FrameLen(w.p) /\ m # 0 /\ m \in 1 .. Len(q) /\ m - 1 \in 0 .. m - 1 /\ 1 + (m - 1) = m
      <3>1. w.i + m =< FrameLen(w.p)
        BY DEF w
      <3>2. w.i + m = FrameLen(w.p) /\ m # 0
        BY <1>3, <1>11, <3>1
      <3> QED
        BY <1>1, <1>7, <3>2
    <2>2. q[m] = Word(w.p, w.i + (m - 1))
      BY <1>6, <2>1
    <2>3. q[m].p = w.p /\ q[m].i + 1 = FrameLen(w.p)
      BY <1>3, <2>1, <2>2 DEF Word
    <2>4. IF m = Len(q) THEN w.p.no = Len(ps)
          ELSE w.p.no < Len(ps) /\ q[m + 1] = Word(ps[w.p.no + 1], 0)
      BY <1>5, <2>1, <2>3
    <2>5. r = <<>> <=> m = Len(q)
      BY <1>1, <1>8, <2>1
    <2>6. m # Len(q) => r[1] = q[m + 1]
      BY <1>1, <1>8, <2>1
    <2> QED
      BY <1>2, <1>6, <1>7, <1>9, <1>11, <2>4, <2>5, <2>6 DEF w, r
  <1> QED
    BY <1>10, <1>11

LEMMA DataIs ==
    ASSUME NEW ps, Numbered(ps)
    PROVE  /\ \A v \in DataSent(ps) : /\ v \in SifWord /\ Lies(v, ps) /\ v = Word(v.p, v.i)
                                      /\ v.i >= 4 /\ v.i < 4 + v.p.n
           /\ \A k \in 1 .. Len(ps), i \in Nat :
                  i >= 4 /\ i < 4 + ps[k].n => Word(ps[k], i) \in DataSent(ps)
  <1>1. ASSUME NEW k \in 1 .. Len(ps) PROVE ps[k] \in SifPacket /\ ps[k].no = k /\ k \in DOMAIN ps
    BY DEF Numbered
  <1>2. ASSUME NEW v \in DataSent(ps)
        PROVE  v \in SifWord /\ Lies(v, ps) /\ v = Word(v.p, v.i) /\ v.i >= 4 /\ v.i < 4 + v.p.n
    <2>1. PICK k \in 1 .. Len(ps) : v \in DataOf(ps[k])
      BY DEF DataSent, Numbered
    <2>2. PICK i \in 4 .. 3 + ps[k].n : v = Word(ps[k], i)
      BY <2>1 DEF DataOf
    <2>3. ps[k].n \in Nat \ {0} /\ i < FrameLen(ps[k]) /\ i \in Nat /\ i >= 4 /\ i < 4 + ps[k].n
      BY <1>1, <2>2, FrameFacts, SMTT(30)
    <2>4. v.p = ps[k] /\ v.i = i
      BY <2>2 DEF Word
    <2>5. v \in SifWord /\ v = Word(v.p, v.i)
      BY <1>1, <2>2, <2>3, <2>4 DEF Word, SifWord
    <2>6. Lies(v, ps)
      BY <1>1, <2>3, <2>4 DEF Lies
    <2> QED
      BY <2>3, <2>4, <2>5, <2>6
  <1>3. ASSUME NEW k \in 1 .. Len(ps), NEW i \in Nat, i >= 4, i < 4 + ps[k].n
        PROVE  Word(ps[k], i) \in DataSent(ps)
    <2>1. ps[k].n \in Nat /\ i \in 4 .. 3 + ps[k].n
      <3>1. ps[k].n \in Nat
        BY <1>1, FrameFacts
      <3> QED
        BY <1>3, <3>1
    <2>2. Word(ps[k], i) \in DataOf(ps[k])
      BY <2>1 DEF DataOf
    <2> QED
      BY <1>1, <2>2 DEF DataSent
  <1> QED
    BY <1>2, <1>3

\* What has been received, g, when the stream is at q: in order, all of it from
\* before q, and with whole, all of that.
Passed(v, q) == q = <<>> \/ Before(v, q[1])
Taken(g, q, ps, whole) ==
    /\ g \in Seq(SifWord)
    /\ \A i \in 1 .. Len(g) : g[i] \in DataSent(ps) /\ Passed(g[i], q)
    /\ \A j \in 1 .. Len(g) : \A i \in 1 .. j - 1 : Before(g[i], g[j])
    /\ whole => \A v \in DataSent(ps) : Passed(v, q) => \E i \in 1 .. Len(g) : g[i] = v

\* Word w of a frame and the words that follow it in the same frame.
Within(v, w, m) == v.p = w.p /\ w.i =< v.i /\ v.i < w.i + m
LEMMA PassedOn ==
    ASSUME NEW ps, Numbered(ps), NEW q, Laid(q, ps), q # <<>>,
           NEW m \in Nat, q[1].i + m =< FrameLen(q[1].p), NEW v \in DataSent(ps)
    PROVE  Passed(v, Drop(q, m)) <=> Passed(v, q) \/ Within(v, q[1], m)
  <1> DEFINE w == q[1]  r == Drop(q, m)
  <1>1. /\ w \in SifWord /\ Lies(w, ps)
        /\ IF w.i + m < FrameLen(w.p)
           THEN r # <<>> /\ r[1] = Word(w.p, w.i + m)
           ELSE IF r = <<>> THEN w.p.no = Len(ps)
           ELSE w.p.no < Len(ps) /\ r[1] = Word(ps[w.p.no + 1], 0)
    BY Onward
  <1>2. v \in SifWord /\ Lies(v, ps)
    BY DataIs
  <1>3. w.i + m =< FrameLen(w.p)
    OBVIOUS
  <1>4. Passed(v, q) <=> Before(v, w)
    BY DEF Passed
  <1> HIDE DEF w, r
  <1>5. /\ w.i \in Nat /\ w.p.no \in 1 .. Len(ps) /\ FrameLen(w.p) \in Nat /\ w.p = ps[w.p.no]
        /\ v.i \in Nat /\ v.p.no \in 1 .. Len(ps) /\ v.i < FrameLen(v.p) /\ v.p = ps[v.p.no]
        /\ w.p \in SifPacket /\ v.p \in SifPacket /\ Len(ps) \in Nat
    BY <1>1, <1>2, FrameFacts DEF SifWord, Lies, Numbered
  <1>6. v.p = w.p <=> v.p.no = w.p.no
    BY <1>5
  <1>7. CASE w.i + m < FrameLen(w.p)
    <2>1. r # <<>> /\ r[1].p = w.p /\ r[1].i = w.i + m
      BY <1>1, <1>7 DEF Word
    <2>2. Passed(v, r) <=> v.p.no < w.p.no \/ (v.p.no = w.p.no /\ v.i < w.i + m)
      BY <2>1 DEF Passed, Before
    <2> QED
      BY <1>4, <1>5, <1>6, <2>2 DEF Before, Within, w, r
  <1>8. CASE ~(w.i + m < FrameLen(w.p)) /\ r = <<>>
    <2>1. Passed(v, r) /\ w.p.no = Len(ps) /\ w.i + m = FrameLen(w.p)
      BY <1>1, <1>3, <1>5, <1>8 DEF Passed
    <2>2. v.p.no < w.p.no \/ v.p.no = w.p.no
      BY <1>5, <2>1
    <2>3. v.p.no = w.p.no => v.i < w.i + m
      BY <1>5, <1>6, <2>1
    <2> QED
      BY <1>4, <1>5, <1>6, <2>1, <2>2, <2>3 DEF Before, Within, w, r
  <1>9. CASE ~(w.i + m < FrameLen(w.p)) /\ r # <<>>
    <2>5. r[1] = Word(ps[w.p.no + 1], 0) /\ w.p.no < Len(ps)
      BY <1>1, <1>9
    <2>6. w.i + m = FrameLen(w.p)
      BY <1>3, <1>5, <1>9
    <2>1. r[1] = Word(ps[w.p.no + 1], 0) /\ w.i + m = FrameLen(w.p) /\ w.p.no + 1 \in 1 .. Len(ps)
      BY <1>5, <2>5, <2>6, SMTT(30)
    <2>2. r[1].p.no = w.p.no + 1 /\ r[1].i = 0
      BY <2>1 DEF Word, Numbered
    <2>3. Passed(v, r) <=> v.p.no < w.p.no + 1 \/ (v.p.no = w.p.no + 1 /\ v.i < 0)
      BY <1>9, <2>2 DEF Passed, Before
    <2>4. v.p.no = w.p.no => v.i < w.i + m
      BY <1>5, <1>6, <2>1
    <2> QED
      BY <1>4, <1>5, <1>6, <2>3, <2>4 DEF Before, Within, w, r
  <1> QED
    BY <1>7, <1>8, <1>9

\* The next m words are taken off the stream, and those that are data, the first d
\* of them, are received.
Lands(q, m, d) ==
    /\ m \in Nat /\ d \in 0 .. m /\ q[1].i + m =< FrameLen(q[1].p)
    /\ \A x \in 0 .. m - 1 : x < d <=> q[1].i + x >= 4 /\ q[1].i + x < 4 + q[1].p.n

\* What is received is then h.
JoinedOn(h, g, w, d) ==
    /\ h \in Seq(SifWord) /\ Len(h) = Len(g) + d
    /\ \A i \in 1 .. Len(g) : h[i] = g[i]
    /\ \A x \in 0 .. d - 1 : h[Len(g) + 1 + x] = Word(w.p, w.i + x)
    /\ \A i \in 1 .. Len(g) + d : i > Len(g) =>
          i - Len(g) - 1 \in 0 .. d - 1 /\ h[i] = Word(w.p, w.i + (i - Len(g) - 1))

LEMMA LandedIs ==
    ASSUME NEW ps, NEW q, Laid(q, ps), q # <<>>, NEW m, NEW d, Lands(q, m, d), NEW g \in Seq(SifWord)
    PROVE  JoinedOn(g \o Take(q, d), g, q[1], d)
  <1> DEFINE t == Take(q, d)
  <1>1. m \in Nat /\ d \in 0 .. m /\ q[1].i + m =< FrameLen(q[1].p)
    BY DEF Lands
  <1>2. m \in 0 .. Len(q) /\ (\A x \in 0 .. m - 1 : q[1 + x] = Word(q[1].p, q[1].i + x)) /\ q \in Seq(SifWord)
    <2>1. q \in Seq(SifWord)
      BY DEF Laid
    <2>2. m \in 0 .. Len(q) /\ (\A x \in 0 .. m - 1 : q[1 + x] = Word(q[1].p, q[1].i + x))
      BY <1>1, Onward
    <2> QED
      BY <2>1, <2>2
  <1>3. d \in 0 .. Len(q) /\ d \in Nat /\ Len(g) \in Nat
    BY <1>1, <1>2
  <1>4. t \in Seq(SifWord) /\ Len(t) = d /\ \A i \in 1 .. d : t[i] = q[i]
    BY <1>2, <1>3, TakeIs
  <1> HIDE DEF t
  <1>5. /\ g \o t \in Seq(SifWord) /\ Len(g \o t) = Len(g) + d
        /\ \A i \in 1 .. Len(g) + d : (g \o t)[i] = IF i =< Len(g) THEN g[i] ELSE t[i - Len(g)]
    BY <1>4, ConcatProperties
  <1>6. \A i \in 1 .. Len(g) : (g \o t)[i] = g[i]
    BY <1>3, <1>5
  <1>7. ASSUME NEW x \in 0 .. d - 1 PROVE (g \o t)[Len(g) + 1 + x] = Word(q[1].p, q[1].i + x)
    <2>1. /\ Len(g) + 1 + x \in 1 .. Len(g) + d /\ ~(Len(g) + 1 + x =< Len(g))
          /\ (Len(g) + 1 + x) - Len(g) = 1 + x /\ 1 + x \in 1 .. d /\ x \in 0 .. m - 1
      BY <1>1, <1>3
    <2>2. (g \o t)[Len(g) + 1 + x] = t[(Len(g) + 1 + x) - Len(g)]
      BY <1>5, <2>1
    <2> QED
      BY <1>2, <1>4, <2>1, <2>2
  <1>8. ASSUME NEW i \in 1 .. Len(g) + d, i > Len(g)
        PROVE  i - Len(g) - 1 \in 0 .. d - 1 /\ (g \o t)[i] = Word(q[1].p, q[1].i + (i - Len(g) - 1))
    <2>1. i - Len(g) - 1 \in 0 .. d - 1 /\ Len(g) + 1 + (i - Len(g) - 1) = i
      BY <1>3, <1>8
    <2> QED
      BY <1>7, <2>1
  <1> QED
    BY <1>5, <1>6, <1>7, <1>8 DEF t, JoinedOn

LEMMA LandedTaken ==
    ASSUME NEW ps, Numbered(ps), NEW q, Laid(q, ps), q # <<>>, NEW m, NEW d, Lands(q, m, d),
           NEW g, NEW whole, Taken(g, q, ps, whole)
    PROVE  Taken(g \o Take(q, d), Drop(q, m), ps, whole)
  <1> DEFINE h == g \o Take(q, d)  r == Drop(q, m)  w == q[1]
  <1>1. /\ m \in Nat /\ d \in 0 .. m /\ w.i + m =< FrameLen(w.p)
        /\ \A x \in 0 .. m - 1 : x < d <=> w.i + x >= 4 /\ w.i + x < 4 + w.p.n
    BY DEF Lands
  <1>2. g \in Seq(SifWord) /\ Len(g) \in Nat
    BY DEF Taken
  <1>3. /\ h \in Seq(SifWord) /\ Len(h) = Len(g) + d
        /\ \A i \in 1 .. Len(g) : h[i] = g[i]
        /\ \A x \in 0 .. d - 1 : h[Len(g) + 1 + x] = Word(w.p, w.i + x)
        /\ \A i \in 1 .. Len(g) + d : i > Len(g) =>
              i - Len(g) - 1 \in 0 .. d - 1 /\ h[i] = Word(w.p, w.i + (i - Len(g) - 1))
    <2>1. JoinedOn(h, g, w, d)
      BY <1>2, LandedIs
    <2> QED
      BY <2>1 DEF JoinedOn
  <1>4. w \in SifWord /\ Lies(w, ps)
    BY <1>1, Onward
  <1>5. \A v \in DataSent(ps) : Passed(v, r) <=> Passed(v, q) \/ Within(v, w, m)
    BY <1>1, PassedOn
  <1>6. \A v : Passed(v, q) <=> Before(v, w)
    BY DEF Passed
  <1> HIDE DEF h, r, w
  <1>7. /\ w.i \in Nat /\ w.p.no \in 1 .. Len(ps) /\ w.p = ps[w.p.no] /\ w.p \in SifPacket
        /\ w.p.n \in Nat /\ w.p.no \in Nat /\ d \in Nat
    BY <1>1, <1>4, FrameFacts DEF SifWord, Lies
  <1>8. ASSUME NEW x \in 0 .. d - 1
        PROVE  /\ Word(w.p, w.i + x) \in DataSent(ps)
               /\ Within(Word(w.p, w.i + x), w, m)
    <2>1. x \in 0 .. m - 1 /\ x < d
      BY <1>1
    <2>2. w.i + x >= 4 /\ w.i + x < 4 + w.p.n /\ w.i + x \in Nat
      BY <1>1, <1>7, <2>1
    <2>3. Word(w.p, w.i + x) \in DataSent(ps)
      BY <1>7, <2>2, DataIs
    <2>4. Word(w.p, w.i + x).p = w.p /\ Word(w.p, w.i + x).i = w.i + x
      BY DEF Word
    <2>5. w.i =< w.i + x /\ w.i + x < w.i + m
      BY <1>1, <1>7, <2>1
    <2> QED
      BY <2>3, <2>4, <2>5 DEF Within
  <1>9. ASSUME NEW i \in 1 .. Len(h) PROVE h[i] \in DataSent(ps) /\ Passed(h[i], r)
    <2>1. CASE i =< Len(g)
      BY <1>2, <1>3, <1>5, <2>1 DEF Taken
    <2>2. CASE i > Len(g)
      BY <1>3, <1>5, <1>8, <2>2
    <2> QED
      BY <1>2, <1>3, <2>1, <2>2
  <1>10. ASSUME NEW j \in 1 .. Len(h), NEW i \in 1 .. j - 1 PROVE Before(h[i], h[j])
    <2>1. CASE j =< Len(g)
      <3>1. j \in 1 .. Len(g) /\ i \in 1 .. Len(g) /\ h[i] = g[i] /\ h[j] = g[j]
        BY <1>2, <1>3, <2>1
      <3> QED
        BY <3>1 DEF Taken
    <2>2. CASE j > Len(g) /\ i =< Len(g)
      <3>1. i \in 1 .. Len(g) /\ h[i] = g[i] /\ j \in 1 .. Len(g) + d
        BY <1>2, <1>3, <2>2
      <3>2. g[i] \in DataSent(ps) /\ Before(g[i], w)
        BY <1>6, <3>1 DEF Taken
      <3>3. PICK x \in 0 .. d - 1 : h[j] = Word(w.p, w.i + x)
        BY <1>3, <2>2, <3>1
      <3>4. g[i].i \in Nat /\ g[i].p.no \in Nat /\ h[j].p = w.p /\ h[j].i = w.i + x
        BY <3>2, <3>3, DataIs, FrameFacts DEF Word, SifWord
      <3> QED
        BY <1>7, <3>1, <3>2, <3>4, SMTT(30) DEF Before
    <2>3. CASE j > Len(g) /\ i > Len(g)
      <3>1. i \in 1 .. Len(g) + d /\ j \in 1 .. Len(g) + d
        BY <1>2, <1>3
      <3>2. h[i] = Word(w.p, w.i + (i - Len(g) - 1)) /\ h[j] = Word(w.p, w.i + (j - Len(g) - 1))
        BY <1>3, <2>3, <3>1
      <3>3. w.i + (i - Len(g) - 1) < w.i + (j - Len(g) - 1)
        BY <1>2, <1>7, <3>1
      <3>4. h[i].p = w.p /\ h[j].p = w.p /\ h[i].i = w.i + (i - Len(g) - 1) /\ h[j].i = w.i + (j - Len(g) - 1)
        BY <3>2 DEF Word
      <3> QED
        BY <3>3, <3>4 DEF Before
    <2> QED
      BY <1>2, <1>3, <2>1, <2>2, <2>3
  <1>11. ASSUME whole, NEW v \in DataSent(ps), Passed(v, r) PROVE \E i \in 1 .. Len(h) : h[i] = v
    <2>1. CASE Passed(v, q)
      <3>1. PICK i \in 1 .. Len(g) : g[i] = v
        BY <1>11, <2>1 DEF Taken
      <3>2. i \in 1 .. Len(h) /\ h[i] = v
        BY <1>2, <1>3, <1>7, <3>1
      <3> QED
        BY <3>2
    <2>2. CASE Within(v, w, m)
      <3>1. v.i \in Nat /\ v.p = w.p /\ v.i >= 4 /\ v.i < 4 + w.p.n /\ v = Word(v.p, v.i)
            /\ w.i =< v.i /\ v.i < w.i + m
        BY <2>2, DataIs DEF SifWord, Within
      <3>2. PICK x \in 0 .. m - 1 : v.i = w.i + x
        <4>1. v.i - w.i \in 0 .. m - 1 /\ v.i = w.i + (v.i - w.i)
          BY <1>1, <1>7, <3>1
        <4> QED
          BY <4>1
      <3>3. x < d
        BY <1>1, <3>1, <3>2
      <3>4. x \in 0 .. d - 1 /\ Len(g) + 1 + x \in 1 .. Len(h)
        BY <1>2, <1>3, <1>7, <3>2, <3>3
      <3>5. h[Len(g) + 1 + x] = v
        BY <1>3, <3>1, <3>2, <3>4
      <3> QED
        BY <3>4, <3>5
    <2> QED
      BY <1>5, <1>11, <2>1, <2>2
  <1>12. Taken(h, r, ps, whole)
    BY <1>3, <1>9, <1>10, <1>11 DEF Taken
  <1> QED
    BY <1>12 DEF h, r

LEMMA EndsIs ==
    ASSUME NEW ps, Numbered(ps), NEW g \in Seq(SifWord)
    PROVE  /\ \A k : k \in LandedEnds(ps, g) <=>
                  /\ k \in 1 .. Len(ps) /\ ps[k].end
                  /\ \E i \in 1 .. Len(g) : g[i] = Word(ps[k], 3 + ps[k].n)
           /\ IsFiniteSet(LandedEnds(ps, g)) /\ Cardinality(LandedEnds(ps, g)) \in Nat
  <1>1. DOMAIN ps = 1 .. Len(ps) /\ Len(ps) \in Nat /\ DOMAIN g = 1 .. Len(g)
    BY DEF Numbered
  <1>2. \A k : k \in LandedEnds(ps, g) <=>
            /\ k \in 1 .. Len(ps) /\ ps[k].end
            /\ \E i \in 1 .. Len(g) : g[i] = Word(ps[k], 3 + ps[k].n)
    BY <1>1 DEF LandedEnds, Received
  <1>3. IsFiniteSet(1 .. Len(ps))
    BY <1>1, FS_Interval
  <1>4. IsFiniteSet(LandedEnds(ps, g))
    BY <1>2, <1>3, FS_Subset
  <1> QED
    BY <1>2, <1>4, FS_CardinalityType

Reaches(w, d) == w.p.end /\ w.i =< 3 + w.p.n /\ 3 + w.p.n < w.i + d
LEMMA LandedEndsAre ==
    ASSUME NEW ps, Numbered(ps), NEW q, Laid(q, ps), q # <<>>, NEW m, NEW d, Lands(q, m, d),
           NEW g, NEW whole, Taken(g, q, ps, whole)
    PROVE  Cardinality(LandedEnds(ps, g \o Take(q, d)))
             = Cardinality(LandedEnds(ps, g)) + (IF Reaches(q[1], d) THEN 1 ELSE 0)
  <1> DEFINE h == g \o Take(q, d)  w == q[1]  A == LandedEnds(ps, g)  B == LandedEnds(ps, h)
  <1>1. m \in Nat /\ d \in 0 .. m /\ w.i + m =< FrameLen(w.p)
    BY DEF Lands
  <1>2. g \in Seq(SifWord) /\ Len(g) \in Nat
    BY DEF Taken
  <1>3. JoinedOn(h, g, w, d)
    BY <1>2, LandedIs
  <1>4. w \in SifWord /\ Lies(w, ps)
    BY <1>1, Onward
  <1>5. \A i \in 1 .. Len(g) : g[i] \in DataSent(ps) /\ Before(g[i], w)
    BY DEF Taken, Passed
  <1> HIDE DEF h, w
  <1>6. h \in Seq(SifWord)
    BY <1>3 DEF JoinedOn
  <1>7. /\ \A k : k \in A <=> k \in 1 .. Len(ps) /\ ps[k].end
                                /\ \E i \in 1 .. Len(g) : g[i] = Word(ps[k], 3 + ps[k].n)
        /\ IsFiniteSet(A) /\ Cardinality(A) \in Nat
    BY <1>2, EndsIs
  <1>8. \A k : k \in B <=> k \in 1 .. Len(ps) /\ ps[k].end
                             /\ \E i \in 1 .. Len(h) : h[i] = Word(ps[k], 3 + ps[k].n)
    BY <1>6, EndsIs
  <1> HIDE DEF A, B
  <1>9. /\ w.i \in Nat /\ w.p.no \in 1 .. Len(ps) /\ w.p = ps[w.p.no] /\ w.p \in SifPacket
        /\ w.p.n \in Nat /\ d \in Nat /\ w.p.no \in Nat
    BY <1>1, <1>4, FrameFacts DEF SifWord, Lies
  <1>10. ASSUME NEW k \in A PROVE k \in B
    <2>1. PICK i \in 1 .. Len(g) : g[i] = Word(ps[k], 3 + ps[k].n)
      BY <1>7
    <2>2. i \in 1 .. Len(h) /\ h[i] = g[i]
      BY <1>2, <1>3, <1>9, <2>1 DEF JoinedOn
    <2>3. k \in 1 .. Len(ps) /\ ps[k].end
      BY <1>7
    <2>4. h[i] = Word(ps[k], 3 + ps[k].n)
      BY <2>1, <2>2
    <2> QED
      BY <1>8, <2>2, <2>3, <2>4
  <1>11. ASSUME NEW k \in B, k \notin A PROVE k = w.p.no /\ Reaches(w, d)
    <2>1. k \in 1 .. Len(ps) /\ ps[k].end /\ \E i \in 1 .. Len(h) : h[i] = Word(ps[k], 3 + ps[k].n)
      BY <1>8
    <2>2. PICK i \in 1 .. Len(h) : h[i] = Word(ps[k], 3 + ps[k].n)
      BY <2>1
    <2>3. ~(i \in 1 .. Len(g))
      BY <1>3, <1>7, <1>11, <2>1, <2>2 DEF JoinedOn
    <2>4. i \in 1 .. Len(g) + d /\ i > Len(g)
      BY <1>2, <1>3, <2>3 DEF JoinedOn
    <2>5. PICK x \in 0 .. d - 1 : h[i] = Word(w.p, w.i + x)
      BY <1>3, <2>4 DEF JoinedOn
    <2>6. ps[k] = w.p /\ 3 + ps[k].n = w.i + x
      BY <2>2, <2>5 DEF Word
    <2>7. ps[k].no = k
      BY <2>1 DEF Numbered
    <2> QED
      BY <1>9, <2>1, <2>6, <2>7 DEF Reaches
  <1>12. CASE Reaches(w, d)
    <2>1. w.p.end /\ w.i =< 3 + w.p.n /\ 3 + w.p.n < w.i + d
      BY <1>12 DEF Reaches
    <2>2. w.p.no \notin A
      <3> SUFFICES ASSUME w.p.no \in A PROVE FALSE
        OBVIOUS
      <3>1. PICK i \in 1 .. Len(g) : g[i] = Word(w.p, 3 + w.p.n)
        BY <1>7, <1>9
      <3>2. Before(Word(w.p, 3 + w.p.n), w)
        BY <1>5, <3>1
      <3> QED
        BY <1>9, <2>1, <3>2 DEF Before, Word
    <2>3. w.p.no \in B
      <3>1. PICK x \in 0 .. d - 1 : 3 + w.p.n = w.i + x
        <4> DEFINE a == w.i  b == w.p.n
        <4>1. a \in Nat /\ b \in Nat /\ d \in Nat /\ a =< 3 + b /\ 3 + b < a + d
          BY <1>9, <2>1
        <4> HIDE DEF a, b
        <4>2. (3 + b) - a \in 0 .. d - 1 /\ 3 + b = a + ((3 + b) - a)
          BY <4>1
        <4> QED
          BY <4>2 DEF a, b
      <3>2. Len(g) + 1 + x \in 1 .. Len(h) /\ h[Len(g) + 1 + x] = Word(w.p, 3 + w.p.n)
        <4>1. Len(h) = Len(g) + d /\ h[Len(g) + 1 + x] = Word(w.p, w.i + x)
          BY <1>3 DEF JoinedOn
        <4>2. Len(g) + 1 + x \in 1 .. Len(h)
          BY <1>2, <1>9, <4>1
        <4> QED
          BY <3>1, <4>1, <4>2
      <3> DEFINE y == Len(g) + 1 + x
      <3>3. y \in 1 .. Len(h) /\ h[y] = Word(ps[w.p.no], 3 + ps[w.p.no].n)
        BY <1>9, <3>2
      <3> HIDE DEF y
      <3>4. ps[w.p.no].end
        BY <1>9, <2>1
      <3> QED
        BY <1>8, <1>9, <3>3, <3>4
    <2>4. B = A \cup {w.p.no}
      BY <1>10, <1>11, <2>3
    <2>5. Cardinality(B) = Cardinality(A) + 1
      BY <1>7, <2>2, <2>4, FS_AddElement
    <2> QED
      BY <1>12, <2>5 DEF A, B, h, w
  <1>13. CASE ~Reaches(w, d)
    <2>1. B = A
      BY <1>10, <1>11, <1>13
    <2> QED
      BY <1>7, <1>13, <2>1 DEF A, B, h, w
  <1> QED
    BY <1>12, <1>13

LEMMA FramedIs ==
    ASSUME NEW p \in SifPacket
    PROVE  /\ Framed(p) \in Seq(SifWord) /\ Len(Framed(p)) = FrameLen(p)
           /\ \A i \in 1 .. FrameLen(p) : Framed(p)[i] = Word(p, i - 1)
  <1>1. FrameLen(p) \in Nat
    BY FrameFacts
  <1>2. \A i \in 1 .. FrameLen(p) : Word(p, i - 1) \in SifWord
    BY <1>1 DEF Word, SifWord
  <1> QED
    BY <1>1, <1>2 DEF Framed

\* Another packet is framed behind the stream.
LEMMA Laying ==
    ASSUME NEW ps, Numbered(ps), NEW q, Laid(q, ps),
           NEW p \in SifPacket, p.no = Len(ps) + 1
    PROVE  Numbered(Append(ps, p)) /\ Laid(q \o Framed(p), Append(ps, p))
  <1> DEFINE f == Framed(p)  F == FrameLen(p)  r == q \o f  n == Len(q)  N == Len(ps)  qs == Append(ps, p)
  <1>1. /\ f \in Seq(SifWord) /\ Len(f) = F /\ (\A i \in 1 .. F : f[i] = Word(p, i - 1))
        /\ F \in Nat /\ F >= 4
    BY FramedIs, FrameFacts
  <1>2. q \in Seq(SifWord) /\ n \in Nat /\ ps \in Seq(SifPacket) /\ N \in Nat
    BY DEF Laid, Numbered
  <1>3. /\ qs \in Seq(SifPacket) /\ Len(qs) = N + 1 /\ qs[N + 1] = p
        /\ \A k \in 1 .. N : qs[k] = ps[k]
    BY <1>2
  <1> HIDE DEF f, F
  <1>4. /\ r \in Seq(SifWord) /\ Len(r) = n + F
        /\ \A i \in 1 .. n + F : r[i] = IF i =< n THEN q[i] ELSE f[i - n]
    BY <1>1, <1>2, ConcatProperties
  <1> HIDE DEF r, n, N, qs
  <1>5. Numbered(qs)
    <2>1. ASSUME NEW k \in 1 .. Len(qs) PROVE qs[k].no = k
      <3>1. CASE k = N + 1
        BY <1>3, <3>1 DEF N
      <3>2. CASE k # N + 1
        <4>1. k \in 1 .. N
          BY <1>2, <1>3, <3>2
        <4> QED
          BY <1>3, <4>1 DEF Numbered, N
      <3> QED
        BY <3>1, <3>2
    <2> QED
      BY <1>3, <2>1 DEF Numbered
  <1>6. ASSUME NEW i \in 1 .. n PROVE /\ i \in 1 .. n + F /\ r[i] = q[i] /\ Lies(q[i], ps) /\ Lies(q[i], qs)
                                      /\ q[i] \in SifWord /\ q[i].p.no \in 1 .. N
    <2>1. Lies(q[i], ps) /\ q[i] \in SifWord
      BY <1>2 DEF Laid, n
    <2>2. q[i].p.no \in 1 .. N
      BY <2>1 DEF Lies, N
    <2>3. Lies(q[i], qs)
      BY <1>2, <1>3, <2>1, <2>2 DEF Lies, N
    <2> QED
      BY <1>1, <1>2, <1>4, <2>1, <2>2, <2>3
  <1>7. ASSUME NEW i \in n + 1 .. n + F
        PROVE  /\ i \in 1 .. n + F /\ i - n \in 1 .. F /\ r[i] = Word(p, i - n - 1) /\ i - n - 1 \in Nat
               /\ r[i].p = p /\ r[i].i = i - n - 1
    <2>1. i \in 1 .. n + F /\ i - n \in 1 .. F /\ ~(i =< n) /\ i - n - 1 \in Nat
      BY <1>1, <1>2
    <2>2. r[i] = f[i - n]
      BY <1>4, <2>1
    <2>3. r[i] = Word(p, i - n - 1)
      BY <1>1, <2>1, <2>2
    <2>4. r[i].p = p /\ r[i].i = i - n - 1
      BY <2>3 DEF Word
    <2> QED
      BY <2>1, <2>3, <2>4
  <1>8. ASSUME NEW i \in 1 .. Len(r), ~(i \in 1 .. n) PROVE i \in n + 1 .. n + F
    BY <1>1, <1>2, <1>4, <1>8
  <1>9. p = qs[p.no] /\ p.no \in 1 .. Len(qs) /\ p.no = N + 1 /\ FrameLen(p) = F
    BY <1>2, <1>3 DEF N, F
  <1>10. ASSUME NEW i \in 1 .. Len(r) PROVE Lies(r[i], qs)
    <2>1. CASE i \in 1 .. n
      BY <1>6, <2>1
    <2>2. CASE ~(i \in 1 .. n)
      <3>1. i \in n + 1 .. n + F
        BY <1>8, <2>2
      <3>2. r[i].p = p /\ r[i].i = i - n - 1
        BY <1>7, <3>1
      <3>3. i - n - 1 < F
        BY <1>1, <1>2, <3>1
      <3> QED
        BY <1>9, <3>2, <3>3 DEF Lies
    <2> QED
      BY <2>1, <2>2
  <1>11. ASSUME NEW i \in 1 .. Len(r), NEW d \in Nat, r[i].i + d < FrameLen(r[i].p)
         PROVE  i + d =< Len(r) /\ r[i + d] = Word(r[i].p, r[i].i + d)
    <2>1. CASE i \in 1 .. n
      <3>1. r[i] = q[i] /\ q[i].i + d < FrameLen(q[i].p)
        BY <1>6, <1>11, <2>1
      <3>2. i + d =< n /\ q[i + d] = Word(q[i].p, q[i].i + d)
        BY <2>1, <3>1 DEF Laid, n
      <3>3. i + d \in 1 .. n
        BY <1>2, <2>1, <3>2
      <3> QED
        BY <1>1, <1>2, <1>4, <1>6, <3>1, <3>2, <3>3
    <2>2. CASE ~(i \in 1 .. n)
      <3>1. i \in n + 1 .. n + F
        BY <1>8, <2>2
      <3>2. r[i].p = p /\ r[i].i = i - n - 1
        BY <1>7, <3>1
      <3>5. (i - n - 1) + d < F
        BY <1>11, <3>2 DEF F
      <3>3. i + d \in n + 1 .. n + F /\ (i + d) - n - 1 = (i - n - 1) + d
        <4> HIDE DEF F
        <4> QED
          BY <1>1, <1>2, <3>1, <3>5
      <3>4. r[i + d] = Word(p, (i + d) - n - 1)
        BY <1>7, <3>3
      <3> QED
        BY <1>1, <1>2, <1>4, <3>2, <3>3, <3>4
    <2> QED
      BY <2>1, <2>2
  <1>12. ASSUME NEW i \in 1 .. Len(r), r[i].i + 1 = FrameLen(r[i].p)
         PROVE  IF i = Len(r) THEN r[i].p.no = Len(qs)
                ELSE r[i].p.no < Len(qs) /\ r[i + 1] = Word(qs[r[i].p.no + 1], 0)
    <2>1. CASE i \in 1 .. n
      <3>1. r[i] = q[i] /\ q[i].i + 1 = FrameLen(q[i].p) /\ q[i].p.no \in 1 .. N
        BY <1>6, <1>12, <2>1
      <3>2. IF i = n THEN q[i].p.no = N
            ELSE q[i].p.no < N /\ q[i + 1] = Word(ps[q[i].p.no + 1], 0)
        BY <2>1, <3>1 DEF Laid, n, N
      <3>3. i # Len(r) /\ r[i].p.no < Len(qs)
        <4>1. i # n + F /\ Len(r) = n + F
          BY <1>1, <1>2, <1>4, <2>1
        <4>2. q[i].p.no < N + 1 /\ Len(qs) = N + 1 /\ r[i].p.no = q[i].p.no
          BY <1>2, <1>3, <3>1
        <4> QED
          BY <4>1, <4>2
      <3>4. CASE i = n
        <4>1. n + 1 \in n + 1 .. n + F /\ (n + 1) - n - 1 = 0
          BY <1>1, <1>2
        <4>2. r[n + 1] = Word(p, 0)
          BY <1>7, <4>1
        <4> QED
          BY <1>3, <3>1, <3>2, <3>3, <3>4, <4>2
      <3>5. CASE i # n
        <4>1. i + 1 \in 1 .. n /\ q[i].p.no + 1 \in 1 .. N
          <5> DEFINE k == q[i].p.no
          <5>1. i \in 1 .. n /\ i # n /\ n \in Nat /\ k \in 1 .. N /\ k < N /\ N \in Nat
            BY <1>2, <2>1, <3>1, <3>2, <3>5
          <5> HIDE DEF k
          <5>2. i + 1 \in 1 .. n /\ k + 1 \in 1 .. N
            BY <5>1
          <5> QED
            BY <5>2 DEF k
        <4>2. r[i + 1] = q[i + 1] /\ qs[q[i].p.no + 1] = ps[q[i].p.no + 1]
          BY <1>3, <1>6, <4>1
        <4> QED
          BY <3>1, <3>2, <3>3, <3>5, <4>2
      <3> QED
        BY <3>4, <3>5
    <2>2. CASE ~(i \in 1 .. n)
      <3>1. i \in n + 1 .. n + F
        BY <1>8, <2>2
      <3>2. r[i].p = p /\ r[i].i = i - n - 1
        BY <1>7, <3>1
      <3>3. i = n + F
        <4>1. (i - n - 1) + 1 = F
          BY <1>9, <1>12, <3>2
        <4> QED
          BY <1>1, <1>2, <3>1, <4>1
      <3> QED
        BY <1>3, <1>4, <1>9, <3>2, <3>3
    <2> QED
      BY <2>1, <2>2
  <1>13. ASSUME NEW j \in 1 .. Len(r), NEW i \in 1 .. j - 1 PROVE Before(r[i], r[j])
    <2>1. CASE j \in 1 .. n
      <3>1. i \in 1 .. n /\ Before(q[i], q[j])
        BY <1>2, <2>1 DEF Laid, n
      <3> QED
        BY <1>6, <2>1, <3>1
    <2>2. CASE ~(j \in 1 .. n)
      <3>1. j \in n + 1 .. n + F
        BY <1>8, <2>2
      <3>2. r[j].p = p /\ r[j].i = j - n - 1
        BY <1>7, <3>1
      <3>3. CASE i \in 1 .. n
        BY <1>2, <1>6, <1>9, <3>2, <3>3 DEF Before
      <3>4. CASE ~(i \in 1 .. n)
        <4>1. i \in n + 1 .. n + F /\ i \in 1 .. Len(r)
          BY <1>1, <1>2, <1>4, <3>1, <3>4, SMTT(30)
        <4>2. r[i].p = p /\ r[i].i = i - n - 1
          BY <1>7, <4>1
        <4>3. i - n - 1 < j - n - 1
          BY <1>2, <3>1, <4>1
        <4> QED
          BY <3>2, <4>2, <4>3 DEF Before
      <3> QED
        BY <3>3, <3>4
    <2> QED
      BY <2>1, <2>2
  <1>14. Laid(r, qs)
    BY <1>4, <1>10, <1>11, <1>12, <1>13 DEF Laid
  <1> QED
    BY <1>5, <1>14 DEF r, qs, f

LEMMA LayingTaken ==
    ASSUME NEW ps, Numbered(ps), NEW q, Laid(q, ps),
           NEW p \in SifPacket, p.no = Len(ps) + 1,
           NEW g, NEW whole, Taken(g, q, ps, whole)
    PROVE  /\ Taken(g, q \o Framed(p), Append(ps, p), whole)
           /\ LandedEnds(Append(ps, p), g) = LandedEnds(ps, g)
  <1> DEFINE f == Framed(p)  r == q \o f  qs == Append(ps, p)  N == Len(ps)
  <1>1. /\ f \in Seq(SifWord) /\ Len(f) = FrameLen(p) /\ (\A i \in 1 .. FrameLen(p) : f[i] = Word(p, i - 1))
        /\ FrameLen(p) \in Nat /\ FrameLen(p) >= 4
    BY FramedIs, FrameFacts
  <1>2. q \in Seq(SifWord) /\ Len(q) \in Nat /\ ps \in Seq(SifPacket) /\ N \in Nat
    BY DEF Laid, Numbered
  <1>3. /\ qs \in Seq(SifPacket) /\ Len(qs) = N + 1 /\ qs[N + 1] = p
        /\ \A k \in 1 .. N : qs[k] = ps[k]
    BY <1>2
  <1>4. Numbered(qs)
    BY Laying
  <1> HIDE DEF f
  <1>5. /\ r \in Seq(SifWord) /\ Len(r) = Len(q) + FrameLen(p)
        /\ \A i \in 1 .. Len(q) + FrameLen(p) : r[i] = IF i =< Len(q) THEN q[i] ELSE f[i - Len(q)]
    <2>1. f \in Seq(SifWord) /\ q \in Seq(SifWord) /\ Len(f) = FrameLen(p)
      BY <1>1, <1>2
    <2> DEFINE c == q \o f
    <2>2. /\ c \in Seq(SifWord) /\ Len(c) = Len(q) + Len(f)
          /\ \A i \in 1 .. Len(q) + Len(f) : c[i] = IF i =< Len(q) THEN q[i] ELSE f[i - Len(q)]
      BY <2>1, ConcatProperties
    <2> HIDE DEF c
    <2> QED
      BY <2>1, <2>2 DEF c
  <1> HIDE DEF r, N, qs
  <1>6. r # <<>> /\ r[1] = IF q = <<>> THEN Word(p, 0) ELSE q[1]
    <2>1. 1 \in 1 .. Len(q) + FrameLen(p) /\ 1 \in 1 .. FrameLen(p) /\ Len(r) # 0
      BY <1>1, <1>2, <1>5
    <2>2. CASE q = <<>>
      <3>1. Len(q) = 0 /\ ~(1 =< Len(q)) /\ 1 - Len(q) = 1 /\ 1 - 1 = 0
        BY <2>2
      <3> QED
        BY <1>1, <1>5, <2>1, <2>2, <3>1
    <2>3. CASE q # <<>>
      <3>1. 1 =< Len(q)
        BY <1>2, <2>3
      <3> QED
        BY <1>5, <2>1, <2>3, <3>1
    <2> QED
      BY <2>2, <2>3
  <1>7. ASSUME NEW v \in DataSent(ps) PROVE v \in DataSent(qs) /\ v.p.no \in 1 .. N /\ v.i \in Nat
    <2>1. v.p.no \in 1 .. N /\ v.p = ps[v.p.no] /\ v = Word(v.p, v.i) /\ v.i >= 4 /\ v.i < 4 + v.p.n /\ v.i \in Nat
      BY DataIs DEF Lies, SifWord, N
    <2>2. v.p.no \in 1 .. Len(qs) /\ v.p = qs[v.p.no]
      BY <1>2, <1>3, <2>1
    <2> QED
      BY <1>4, <2>1, <2>2, DataIs
  <1>8. ASSUME NEW v \in DataSent(qs), Passed(v, r) PROVE v \in DataSent(ps) /\ Passed(v, q)
    <2>1. v.p.no \in 1 .. N + 1 /\ v.p = qs[v.p.no] /\ v = Word(v.p, v.i) /\ v.i >= 4 /\ v.i < 4 + v.p.n /\ v.i \in Nat
      BY <1>3, <1>4, DataIs DEF Lies, SifWord
    <2>2. CASE q = <<>>
      <3>1. Before(v, Word(p, 0))
        BY <1>6, <1>8, <2>2 DEF Passed
      <3>2. v.p.no < p.no \/ v.i < 0
        BY <3>1 DEF Before, Word
      <3>3. v.p.no \in 1 .. N
        BY <1>2, <2>1, <3>2 DEF N
      <3> QED
        BY <1>3, <2>1, <2>2, <3>3, DataIs DEF Passed, N
    <2>3. CASE q # <<>>
      <3>1. Before(v, q[1])
        BY <1>6, <1>8, <2>3 DEF Passed
      <3>2. q[1].p.no \in 1 .. N
        BY <1>2, <2>3 DEF Laid, Lies, N
      <3>3. v.p.no \in 1 .. N
        BY <1>2, <2>1, <3>1, <3>2 DEF Before
      <3> QED
        BY <1>3, <2>1, <3>1, <3>3, DataIs DEF Passed, N
    <2> QED
      BY <2>2, <2>3
  <1>9. ASSUME NEW v \in DataSent(ps), Passed(v, q) PROVE Passed(v, r)
    <2>1. CASE q = <<>>
      <3>1. v.p.no < p.no
        BY <1>2, <1>7 DEF N
      <3> QED
        BY <1>6, <2>1, <3>1 DEF Passed, Before, Word
    <2>2. CASE q # <<>>
      BY <1>6, <1>9, <2>2 DEF Passed
    <2> QED
      BY <2>1, <2>2
  <1>10. Taken(g, r, qs, whole)
    <2>1. ASSUME NEW i \in 1 .. Len(g) PROVE g[i] \in DataSent(qs) /\ Passed(g[i], r)
      BY <1>7, <1>9 DEF Taken
    <2>2. ASSUME whole, NEW v \in DataSent(qs), Passed(v, r) PROVE \E i \in 1 .. Len(g) : g[i] = v
      BY <1>8, <2>2 DEF Taken
    <2> QED
      BY <2>1, <2>2 DEF Taken
  <1>11. LandedEnds(qs, g) = LandedEnds(ps, g)
    <2>1. g \in Seq(SifWord) /\ \A i \in 1 .. Len(g) : g[i] \in DataSent(ps)
      BY DEF Taken
    <2>2. \A k : k \in LandedEnds(ps, g) <=>
            k \in 1 .. N /\ ps[k].end /\ \E i \in 1 .. Len(g) : g[i] = Word(ps[k], 3 + ps[k].n)
      BY <2>1, EndsIs DEF N
    <2>3. \A k : k \in LandedEnds(qs, g) <=>
            k \in 1 .. Len(qs) /\ qs[k].end /\ \E i \in 1 .. Len(g) : g[i] = Word(qs[k], 3 + qs[k].n)
      BY <1>4, <2>1, EndsIs
    <2>4. ASSUME NEW k \in LandedEnds(ps, g) PROVE k \in LandedEnds(qs, g)
      <3>1. k \in 1 .. N /\ k \in 1 .. Len(qs) /\ qs[k] = ps[k]
        BY <1>2, <1>3, <2>2
      <3> QED
        BY <2>2, <2>3, <3>1
    <2>5. ASSUME NEW k \in LandedEnds(qs, g) PROVE k \in LandedEnds(ps, g)
      <3>1. k \in 1 .. N + 1 /\ qs[k].end /\ qs[k].no = k
        BY <1>3, <1>4, <2>3 DEF Numbered
      <3>2. PICK i \in 1 .. Len(g) : g[i] = Word(qs[k], 3 + qs[k].n)
        BY <2>3
      <3>3. g[i].p.no \in 1 .. N /\ g[i].p = qs[k]
        BY <1>7, <2>1, <3>2 DEF Word
      <3>4. k \in 1 .. N
        BY <3>1, <3>3
      <3>5. qs[k] = ps[k]
        BY <1>3, <3>4
      <3> QED
        BY <2>2, <3>1, <3>2, <3>4, <3>5
    <2> QED
      BY <2>4, <2>5
  <1> QED
    BY <1>10, <1>11 DEF r, qs, f

(***************************************************************************)
(* A transfer, of one packet or two, behind what was sent before.          *)
(***************************************************************************)
StreamTurns(ps) ==
    LET s[k \in 0 .. Len(ps)] == IF k = 0 THEN <<>> ELSE s[k - 1] \o Framed(ps[k])
    IN s
StreamIs(t, p) == t = [k \in 0 .. Len(p) |-> IF k = 0 THEN <<>> ELSE t[k - 1] \o Framed(p[k])]
LEMMA StreamTurn ==
    ASSUME NEW p, Len(p) \in Nat
    PROVE  StreamIs(StreamTurns(p), p)
  <1> DEFINE J(a, k) == a \o Framed(p[k])  E == <<>>
             G(n, g) == g = [k \in 0 .. n |-> IF k = 0 THEN E ELSE J(g[k - 1], k)]
             S == { n \in Nat : \E g : G(n, g) }
  <1> HIDE DEF J, E
  <1>1. 0 \in S
    <2>1. G(0, [k \in 0 .. 0 |-> E])
      OBVIOUS
    <2> QED
      BY <2>1
  <1>2. ASSUME NEW n \in S PROVE n + 1 \in S
    <2>1. PICK g : G(n, g)
      OBVIOUS
    <2> DEFINE h == [k \in 0 .. n + 1 |-> IF k <= n THEN g[k] ELSE J(g[n], n + 1)]
    <2>2. \A k \in 0 .. n + 1 : h[k] = IF k = 0 THEN E ELSE J(h[k - 1], k)
      BY <2>1
    <2>3. G(n + 1, h)
      BY <2>2
    <2>4. n + 1 \in Nat /\ \E f : G(n + 1, f)
      <3> HIDE DEF h, G
      <3> QED
        BY <2>3
    <2> QED
      BY <2>4
  <1>3. S = Nat
    <2> HIDE DEF S
    <2> QED
      BY <1>1, <1>2, Induction, S \subseteq Nat DEF S
  <1>4. \E g : G(Len(p), g)
    BY <1>3
  <1> QED
    BY <1>4 DEF StreamTurns, StreamIs, J, E

LEMMA StreamsAre ==
    /\ Stream(<<>>) = <<>>
    /\ \A p \in SifPacket : Stream(<<p>>) = Framed(p)
    /\ \A p, r \in SifPacket : Stream(<<p, r>>) = Framed(p) \o Framed(r)
  <1>1. \A s : Stream(s) = StreamTurns(s)[Len(s)]
    BY DEF Stream, StreamTurns
  <1>2. Stream(<<>>) = <<>>
    <2> DEFINE s == <<>>  t == StreamTurns(s)
    <2>1. Len(s) = 0
      OBVIOUS
    <2> HIDE DEF s
    <2>2. StreamIs(t, s)
      BY <2>1, StreamTurn
    <2> HIDE DEF t
    <2>3. t[0] = <<>>
      BY <2>1, <2>2 DEF StreamIs
    <2> QED
      BY <1>1, <2>1, <2>3 DEF t, s
  <1>3. ASSUME NEW p \in SifPacket PROVE Stream(<<p>>) = Framed(p)
    <2> DEFINE s == <<p>>  t == StreamTurns(s)  f == Framed(p)
    <2>1. Len(s) = 1 /\ s[1] = p
      OBVIOUS
    <2>2. f \in Seq(SifWord)
      BY FramedIs
    <2> HIDE DEF s, f
    <2>3. StreamIs(t, s)
      BY <2>1, StreamTurn
    <2> HIDE DEF t
    <2>4. t[0] = <<>> /\ t[1] = t[0] \o f
      BY <2>1, <2>3 DEF f, StreamIs
    <2>5. t[1] = f
      BY <2>2, <2>4, ConcatEmptySeq
    <2> QED
      BY <1>1, <2>1, <2>5 DEF t, s, f
  <1>4. ASSUME NEW p \in SifPacket, NEW r \in SifPacket PROVE Stream(<<p, r>>) = Framed(p) \o Framed(r)
    <2> DEFINE s == <<p, r>>  t == StreamTurns(s)  f == Framed(p)  h == Framed(r)
    <2>1. Len(s) = 2 /\ s[1] = p /\ s[2] = r
      OBVIOUS
    <2>2. f \in Seq(SifWord)
      BY FramedIs
    <2> HIDE DEF s, f, h
    <2>3. StreamIs(t, s)
      BY <2>1, StreamTurn
    <2> HIDE DEF t
    <2>6. \A k \in 0 .. 2 : t[k] = IF k = 0 THEN <<>> ELSE t[k - 1] \o Framed(s[k])
      BY <2>1, <2>3 DEF StreamIs
    <2>4. t[0] = <<>> /\ t[1] = t[0] \o f /\ t[2] = t[1] \o h
      <3>1. Framed(s[1]) = f /\ Framed(s[2]) = h
        BY <2>1 DEF f, h
      <3>2. t[0] = <<>>
        BY <2>6
      <3> DEFINE J(x, k) == x \o Framed(s[k])  E == <<>>
      <3>5. \A k \in 0 .. 2 : t[k] = IF k = 0 THEN E ELSE J(t[k - 1], k)
        BY <2>6
      <3> HIDE DEF J, E
      <3>6. t[1] = J(t[0], 1) /\ t[2] = J(t[1], 2)
        BY <3>5
      <3>3. t[1] = t[0] \o Framed(s[1])
        BY <3>6 DEF J
      <3>4. t[2] = t[1] \o Framed(s[2])
        BY <3>6 DEF J
      <3> QED
        BY <3>1, <3>2, <3>3, <3>4
    <2>5. t[1] = f
      BY <2>2, <2>4, ConcatEmptySeq
    <2> QED
      BY <1>1, <2>1, <2>4, <2>5 DEF t, s, f, h
  <1> QED
    BY <1>2, <1>3, <1>4

Transfer(ts, N) ==
    \/ \E p \in SifPacket : ts = <<p>> /\ p.no = N + 1
    \/ \E p, r \in SifPacket : ts = <<p, r>> /\ p.no = N + 1 /\ r.no = N + 2
LEMMA AppendIs ==
    ASSUME NEW S, NEW s \in Seq(S), NEW p \in S, NEW r \in S
    PROVE  /\ s \o <<p>> = Append(s, p)
           /\ s \o <<p, r>> = Append(Append(s, p), r)
  <1> DEFINE a == <<p, r>>  c == s \o a  e == Append(s, p)  b == Append(e, r)  n == Len(s)
  <1>1. s \o <<p>> = e
    OBVIOUS
  <1>2. a \in Seq(S) /\ Len(a) = 2 /\ a[1] = p /\ a[2] = r
    OBVIOUS
  <1>3. /\ e \in Seq(S) /\ Len(e) = n + 1 /\ e[n + 1] = p /\ (\A i \in 1 .. n : e[i] = s[i])
        /\ n \in Nat
    OBVIOUS
  <1> HIDE DEF a, e
  <1>4. /\ b \in Seq(S) /\ Len(b) = Len(e) + 1 /\ b[Len(e) + 1] = r
        /\ \A i \in 1 .. Len(e) : b[i] = e[i]
    BY <1>3
  <1>5. /\ c \in Seq(S) /\ Len(c) = n + Len(a)
        /\ \A i \in 1 .. n + Len(a) : c[i] = IF i =< n THEN s[i] ELSE a[i - n]
    BY <1>2, ConcatProperties
  <1> HIDE DEF b, c, n
  <1>6. ASSUME NEW i \in 1 .. Len(c) PROVE c[i] = b[i]
    <2>1. CASE i =< n
      BY <1>2, <1>3, <1>4, <1>5, <2>1
    <2>2. CASE i = n + 1
      <3>1. ~(i =< n) /\ i - n = 1 /\ i \in 1 .. Len(e)
        BY <1>3, <2>2
      <3> QED
        BY <1>2, <1>3, <1>4, <1>5, <2>2, <3>1
    <2>3. CASE i = n + 2
      <3>1. ~(i =< n) /\ i - n = 2 /\ i = Len(e) + 1
        BY <1>3, <2>3
      <3> QED
        BY <1>2, <1>3, <1>4, <1>5, <2>3, <3>1
    <2> QED
      BY <1>2, <1>3, <1>5, <2>1, <2>2, <2>3
  <1>7. Len(c) = Len(b)
    BY <1>2, <1>3, <1>4, <1>5
  <1>8. c = b
    BY <1>4, <1>5, <1>6, <1>7, SeqEqual
  <1> QED
    BY <1>1, <1>8 DEF a, b, c, e

LEMMA Sending ==
    ASSUME NEW ps, Numbered(ps), NEW q, Laid(q, ps), NEW ts, Transfer(ts, Len(ps))
    PROVE  /\ Numbered(ps \o ts) /\ Laid(q \o Stream(ts), ps \o ts)
           /\ \A g, whole : Taken(g, q, ps, whole) =>
                 Taken(g, q \o Stream(ts), ps \o ts, whole) /\ LandedEnds(ps \o ts, g) = LandedEnds(ps, g)
  <1>1. ps \in Seq(SifPacket) /\ q \in Seq(SifWord) /\ Len(ps) \in Nat
    BY DEF Numbered, Laid
  <1>2. CASE \E p \in SifPacket : ts = <<p>> /\ p.no = Len(ps) + 1
    <2>1. PICK p \in SifPacket : ts = <<p>> /\ p.no = Len(ps) + 1
      BY <1>2
    <2>2. ps \o ts = Append(ps, p) /\ Stream(ts) = Framed(p)
      BY <1>1, <2>1, AppendIs, StreamsAre
    <2>3. Numbered(Append(ps, p)) /\ Laid(q \o Framed(p), Append(ps, p))
      BY <2>1, Laying
    <2>4. ASSUME NEW g, NEW whole, Taken(g, q, ps, whole)
          PROVE  /\ Taken(g, q \o Framed(p), Append(ps, p), whole)
                 /\ LandedEnds(Append(ps, p), g) = LandedEnds(ps, g)
      BY <2>1, <2>4, LayingTaken
    <2> QED
      BY <2>2, <2>3, <2>4
  <1>3. CASE \E p, r \in SifPacket : ts = <<p, r>> /\ p.no = Len(ps) + 1 /\ r.no = Len(ps) + 2
    <2>1. PICK p, r \in SifPacket : ts = <<p, r>> /\ p.no = Len(ps) + 1 /\ r.no = Len(ps) + 2
      BY <1>3
    <2> DEFINE f == Framed(p)  h == Framed(r)  as == Append(ps, p)  bs == Append(as, r)  a == q \o f  b == a \o h
    <2>2. f \in Seq(SifWord) /\ h \in Seq(SifWord)
      BY FramedIs
    <2>3. ps \o ts = bs /\ Stream(ts) = f \o h
      <3>1. ps \o ts = bs
        BY <1>1, <2>1, AppendIs
      <3>2. Stream(ts) = f \o h
        BY <2>1, StreamsAre
      <3> QED
        BY <3>1, <3>2
    <2>4. q \o (f \o h) = b
      <3>1. q \in Seq(SifWord)
        BY <1>1
      <3> HIDE DEF f, h
      <3> QED
        BY <2>2, <3>1, ConcatAssociative, SMTT(30)
    <2>5. Numbered(as) /\ Laid(a, as)
      BY <2>1, Laying
    <2>6. Len(as) = Len(ps) + 1 /\ r.no = Len(as) + 1
      BY <1>1, <2>1
    <2> HIDE DEF a, as, f
    <2>7. Numbered(bs) /\ Laid(b, bs)
      BY <2>5, <2>6, Laying
    <2>8. ASSUME NEW g, NEW whole, Taken(g, q, ps, whole)
          PROVE  Taken(g, b, bs, whole) /\ LandedEnds(bs, g) = LandedEnds(ps, g)
      <3>1. Taken(g, a, as, whole) /\ LandedEnds(as, g) = LandedEnds(ps, g)
        <4>1. /\ Taken(g, q \o Framed(p), Append(ps, p), whole)
              /\ LandedEnds(Append(ps, p), g) = LandedEnds(ps, g)
          BY <2>1, <2>8, LayingTaken
        <4> QED
          BY <4>1 DEF a, as, f
      <3>2. Taken(g, b, bs, whole) /\ LandedEnds(bs, g) = LandedEnds(as, g)
        BY <2>5, <2>6, <3>1, LayingTaken, ZenonT(30)
      <3> QED
        BY <3>1, <3>2
    <2> HIDE DEF b, bs, h
    <2> QED
      BY <2>3, <2>4, <2>7, <2>8
  <1> QED
    BY <1>2, <1>3 DEF Transfer

\* Quadwords are whole on a stream: the words of a frame are counted from its tag.
Aligned(u) == \A i \in 1 .. Len(u) : u[i].i % 4 = (i - 1) % 4
LEMMA Mod4 ==
    ASSUME NEW a \in Nat, NEW k \in Nat
    PROVE  (a + 4 * k) % 4 = a % 4
  <1> DEFINE d == a \div 4  r == a % 4  n == a + 4 * k
  <1>1. d \in Nat /\ r \in 0 .. 3 /\ a = d * 4 + r
    BY SplitOf
  <1>2. n \in Nat /\ n \div 4 \in Nat /\ n % 4 \in 0 .. 3 /\ n = (n \div 4) * 4 + (n % 4)
    BY SplitOf
  <1> DEFINE e == n \div 4  s == n % 4
  <1> HIDE DEF d, r, e, s
  <1>3. d \in Nat /\ r \in 0 .. 3 /\ e \in Nat /\ s \in 0 .. 3 /\ (d + k) * 4 + r = e * 4 + s
    BY <1>1, <1>2 DEF e, s
  <1>4. s = r
    BY <1>3
  <1> QED
    BY <1>4 DEF s, r

LEMMA TransferStream ==
    ASSUME NEW N \in Nat, NEW ts, Transfer(ts, N)
    PROVE  /\ Stream(ts) \in Seq(SifWord) /\ Stream(ts) # <<>> /\ Stream(ts)[1].i = 0
           /\ Aligned(Stream(ts))
           /\ \A i \in 1 .. Len(Stream(ts)) :
                 /\ Stream(ts)[i].p.no > N
                 /\ \E k \in DOMAIN ts : Stream(ts)[i].p = ts[k]
  <1> DEFINE s == Stream(ts)
  <1>1. CASE \E p \in SifPacket : ts = <<p>> /\ p.no = N + 1
    <2>1. PICK p \in SifPacket : ts = <<p>> /\ p.no = N + 1
      BY <1>1
    <2>2. s = Framed(p)
      BY <2>1, StreamsAre
    <2> HIDE DEF s
    <2>3. /\ s \in Seq(SifWord) /\ Len(s) = FrameLen(p) /\ FrameLen(p) \in Nat /\ FrameLen(p) >= 4
          /\ \A i \in 1 .. FrameLen(p) : s[i] = Word(p, i - 1)
      BY <2>2, FramedIs, FrameFacts
    <2>4. \A i \in 1 .. Len(s) : s[i].p = p /\ s[i].i = i - 1
      BY <2>3 DEF Word
    <2>5. 1 \in 1 .. Len(s) /\ 1 \in DOMAIN ts /\ ts[1] = p /\ s # <<>> /\ 1 - 1 = 0
      BY <2>1, <2>3
    <2>6. Aligned(s) /\ s[1].i = 0
      BY <2>4, <2>5 DEF Aligned
    <2>7. ASSUME NEW i \in 1 .. Len(s) PROVE s[i].p.no > N /\ \E k \in DOMAIN ts : s[i].p = ts[k]
      BY <2>1, <2>4, <2>5
    <2> QED
      BY <2>3, <2>5, <2>6, <2>7 DEF s
  <1>2. CASE \E p, r \in SifPacket : ts = <<p, r>> /\ p.no = N + 1 /\ r.no = N + 2
    <2>1. PICK p, r \in SifPacket : ts = <<p, r>> /\ p.no = N + 1 /\ r.no = N + 2
      BY <1>2
    <2> DEFINE f == Framed(p)  h == Framed(r)
    <2>2. s = f \o h
      BY <2>1, StreamsAre
    <2>3. /\ f \in Seq(SifWord) /\ Len(f) = FrameLen(p) /\ FrameLen(p) \in Nat /\ FrameLen(p) >= 4
          /\ \A i \in 1 .. FrameLen(p) : f[i] = Word(p, i - 1)
      BY FramedIs, FrameFacts
    <2>4. /\ h \in Seq(SifWord) /\ Len(h) = FrameLen(r) /\ FrameLen(r) \in Nat
          /\ \A i \in 1 .. FrameLen(r) : h[i] = Word(r, i - 1)
      BY FramedIs, FrameFacts
    <2>5. PICK k \in Nat : Len(f) = 4 * k
      <3>1. FrameLen(p) = 4 + 4 * Quads(p.n) /\ Quads(p.n) \in Nat
        BY FrameFacts
      <3> DEFINE z == Quads(p.n)
      <3> HIDE DEF z
      <3>2. z + 1 \in Nat /\ 4 + 4 * z = 4 * (z + 1) /\ FrameLen(p) = 4 + 4 * z
        BY <3>1 DEF z
      <3> QED
        BY <2>3, <3>2
    <2> HIDE DEF f, h, s
    <2>6. /\ s \in Seq(SifWord) /\ Len(s) = Len(f) + Len(h)
          /\ \A i \in 1 .. Len(f) + Len(h) : s[i] = IF i =< Len(f) THEN f[i] ELSE h[i - Len(f)]
      BY <2>2, <2>3, <2>4, ConcatProperties
    <2>7. ASSUME NEW i \in 1 .. Len(s), i =< Len(f) PROVE s[i].p = p /\ s[i].i = i - 1
      <3>1. i \in 1 .. FrameLen(p) /\ s[i] = f[i]
        BY <2>3, <2>4, <2>6, <2>7
      <3>2. s[i] = Word(p, i - 1)
        BY <2>3, <3>1
      <3> QED
        BY <3>2 DEF Word
    <2>8. ASSUME NEW i \in 1 .. Len(s), ~(i =< Len(f)) PROVE s[i].p = r /\ s[i].i % 4 = (i - 1) % 4
      <3>1. i - Len(f) \in 1 .. FrameLen(r) /\ s[i] = h[i - Len(f)]
        BY <2>3, <2>4, <2>6, <2>8
      <3>2. s[i] = Word(r, (i - Len(f)) - 1)
        BY <2>4, <3>1
      <3> DEFINE a == (i - Len(f)) - 1
      <3>3. a \in Nat /\ a + 4 * k = i - 1
        BY <2>5, <3>1
      <3>4. s[i].i = a /\ s[i].p = r
        BY <3>2 DEF Word
      <3> HIDE DEF a
      <3>5. (a + 4 * k) % 4 = a % 4
        BY <3>3, Mod4
      <3> QED
        BY <3>3, <3>4, <3>5
    <2>9. 1 \in 1 .. Len(s) /\ 1 =< Len(f) /\ s # <<>> /\ 1 - 1 = 0
      BY <2>3, <2>4, <2>6
    <2>10. 1 \in DOMAIN ts /\ 2 \in DOMAIN ts /\ ts[1] = p /\ ts[2] = r
      BY <2>1
    <2>11. Aligned(s)
      BY <2>7, <2>8 DEF Aligned
    <2>12. s[1].i = 0
      BY <2>7, <2>9
    <2>13. ASSUME NEW i \in 1 .. Len(s) PROVE s[i].p.no > N /\ \E x \in DOMAIN ts : s[i].p = ts[x]
      <3>1. s[i].p = p \/ s[i].p = r
        BY <2>7, <2>8
      <3>2. p.no > N /\ r.no > N
        BY <2>1
      <3> QED
        BY <2>10, <3>1, <3>2
    <2> QED
      BY <2>6, <2>9, <2>11, <2>12, <2>13 DEF s
  <1> QED
    BY <1>1, <1>2 DEF Transfer

(***************************************************************************)
(* The IOP's receiver: where its channel stands on the stream q, and how   *)
(* its interrupts agree with what has landed.                              *)
(***************************************************************************)
Chan1 == [busy : BOOLEAN, left : Nat, pad : Nat, end : BOOLEAN, cmd : {"none", "reset"}]
Stands1(ch, q) ==
    /\ ch.left + ch.pad = 0 /\ q # <<>> => q[1].i = 0
    /\ ch.left + ch.pad > 0 =>
          /\ ch.busy /\ q # <<>> /\ q[1].i >= 4
          /\ q[1].i + ch.left + ch.pad = FrameLen(q[1].p)
          /\ ch.left > 0 => q[1].i + ch.left = 4 + q[1].p.n
          /\ ch.left = 0 => q[1].i >= 4 + q[1].p.n
          /\ ch.end = q[1].p.end /\ ch.cmd = q[1].p.cmd
Pending1(ch) == IF ch.left = 0 /\ ch.end THEN 1 ELSE 0
Core1(ch, q, g, irq, ps, whole) ==
    /\ ch \in Chan1 /\ irq \in Nat
    /\ Laid(q, ps) /\ Stands1(ch, q) /\ Taken(g, q, ps, whole)
    /\ irq + Pending1(ch) = Cardinality(LandedEnds(ps, g))

LEMMA TakeNone ==
    ASSUME NEW q, NEW g \in Seq(SifWord)
    PROVE  g \o Take(q, 0) = g
  <1>1. Take(q, 0) = <<>>
    BY SubSeqEmpty DEF Take
  <1> QED
    BY <1>1, ConcatEmptySeq

LEMMA TagCore ==
    ASSUME NEW ps, Numbered(ps), NEW ch, NEW q, NEW g, NEW irq, NEW whole,
           Core1(ch, q, g, irq, ps, whole), ch.left + ch.pad = 0, ~ch.end, q # <<>>,
           NEW dh, dh = [busy |-> TRUE, left |-> q[1].p.n, pad |-> Pad4(q[1].p.n),
                         end |-> q[1].p.end, cmd |-> q[1].p.cmd]
    PROVE  Core1(dh, Drop(q, 4), g, irq, ps, whole) /\ q[1].i = 0 /\ 4 =< Len(q)
  <1> DEFINE w == q[1]  r == Drop(q, 4)
  <1>1. w.i = 0
    BY DEF Core1, Stands1
  <1>2. 1 \in 1 .. Len(q) /\ w \in SifWord
    <2>1. q \in Seq(SifWord)
      BY DEF Core1, Laid
    <2> QED
      BY <2>1
  <1>3. /\ w.p \in SifPacket /\ w.p.n \in Nat \ {0} /\ Pad4(w.p.n) \in Nat
        /\ FrameLen(w.p) \in Nat /\ 4 + w.p.n + Pad4(w.p.n) = FrameLen(w.p) /\ w.p.end \in BOOLEAN
        /\ w.p.cmd \in {"none", "reset"}
    <2>1. w.p \in SifPacket
      BY <1>2 DEF SifWord
    <2>2. /\ w.p.n \in Nat \ {0} /\ Pad4(w.p.n) \in Nat /\ FrameLen(w.p) \in Nat /\ w.p.end \in BOOLEAN
          /\ FrameLen(w.p) = 4 + 4 * Quads(w.p.n) /\ w.p.n + Pad4(w.p.n) = 4 * Quads(w.p.n)
          /\ Quads(w.p.n) \in Nat
      BY <2>1, FrameFacts
    <2>3. w.p.cmd \in {"none", "reset"}
      BY <2>1 DEF SifPacket
    <2> DEFINE n == w.p.n  d == Pad4(w.p.n)  Q == Quads(w.p.n)  F == FrameLen(w.p)
    <2> HIDE DEF n, d, Q, F
    <2>4. 4 + n + d = F
      <3>1. n \in Nat /\ d \in Nat /\ Q \in Nat /\ F = 4 + 4 * Q /\ n + d = 4 * Q
        BY <2>2 DEF n, d, Q, F
      <3> QED
        BY <3>1
    <2> QED
      BY <2>1, <2>2, <2>3, <2>4 DEF n, d, F
  <1> HIDE DEF w
  <1>4. w.i + 4 < FrameLen(w.p) /\ w.i + 4 =< FrameLen(w.p)
    BY <1>1, <1>3
  <1>5. Laid(q, ps) /\ Taken(g, q, ps, whole) /\ g \in Seq(SifWord) /\ irq \in Nat
    BY DEF Core1, Taken
  <1>6. /\ 4 \in 0 .. Len(q) /\ Laid(r, ps)
        /\ r # <<>> /\ r[1] = Word(w.p, w.i + 4)
    BY <1>4, <1>5, Onward DEF w
  <1>7. Lands(q, 4, 0)
    <2>1. \A x \in 0 .. 4 - 1 : x < 0 <=> w.i + x >= 4 /\ w.i + x < 4 + w.p.n
      BY <1>1
    <2> QED
      BY <1>4, <2>1 DEF Lands, w
  <1>8. Taken(g, r, ps, whole)
    <2>1. Taken(g \o Take(q, 0), r, ps, whole)
      BY <1>5, <1>7, LandedTaken
    <2> QED
      BY <1>5, <2>1, TakeNone
  <1> HIDE DEF r
  <1>9. r[1].p = w.p /\ r[1].i = 4
    BY <1>1, <1>6 DEF Word
  <1>10. dh \in Chan1 /\ dh.left = w.p.n /\ dh.pad = Pad4(w.p.n) /\ dh.busy /\ dh.end = w.p.end /\ dh.cmd = w.p.cmd
    BY <1>3 DEF Chan1, w
  <1>11. dh.left + dh.pad > 0 /\ dh.left > 0 /\ dh.left # 0
    BY <1>3, <1>10
  <1>12. Stands1(dh, r)
    <2>1. r[1].i + dh.left + dh.pad = FrameLen(r[1].p) /\ r[1].i + dh.left = 4 + r[1].p.n
      BY <1>3, <1>9, <1>10
    <2> QED
      BY <1>6, <1>9, <1>10, <1>11, <2>1 DEF Stands1
  <1>13. irq + Pending1(dh) = Cardinality(LandedEnds(ps, g))
    <2>1. Pending1(ch) = 0 /\ Pending1(dh) = 0
      BY <1>11 DEF Pending1
    <2> QED
      BY <2>1 DEF Core1
  <1> QED
    BY <1>1, <1>5, <1>6, <1>8, <1>10, <1>12, <1>13 DEF Core1, r, w

\* Words of the packet at hand come off the stream; those of its data land.
LEMMA WordsCore ==
    ASSUME NEW ps, Numbered(ps), NEW ch, NEW q, NEW g, NEW irq, NEW whole,
           Core1(ch, q, g, irq, ps, whole), ch.left + ch.pad > 0, NEW k \in Nat \ {0},
           NEW dh \in Chan1, NEW d,
           \/ ch.left > 0 /\ k =< ch.left /\ d = k /\ dh.left = ch.left - k /\ dh.pad = ch.pad
           \/ ch.left = 0 /\ k =< ch.pad /\ d = 0 /\ dh.left = 0 /\ dh.pad = ch.pad - k,
           dh.busy = ch.busy, dh.end = ch.end, dh.cmd = ch.cmd
    PROVE  /\ Core1(dh, Drop(q, k), g \o Take(q, d), irq, ps, whole)
           /\ Lands(q, k, d) /\ k \in 0 .. Len(q) /\ q # <<>> /\ ch.cmd = q[1].p.cmd
  <1> DEFINE w == q[1]  r == Drop(q, k)  h == g \o Take(q, d)
  <1>1. /\ ch.busy /\ q # <<>> /\ w.i >= 4 /\ w.i + ch.left + ch.pad = FrameLen(w.p)
        /\ ch.left > 0 => w.i + ch.left = 4 + w.p.n
        /\ ch.left = 0 => w.i >= 4 + w.p.n
        /\ ch.end = w.p.end /\ ch.cmd = w.p.cmd
    BY DEF Core1, Stands1
  <1>2. 1 \in 1 .. Len(q) /\ w \in SifWord /\ w.i \in Nat
    <2>1. q \in Seq(SifWord) /\ q # <<>>
      BY <1>1 DEF Core1, Laid
    <2>2. 1 \in 1 .. Len(q) /\ w \in SifWord
      BY <2>1
    <2> QED
      BY <2>2 DEF SifWord
  <1>3. /\ w.p \in SifPacket /\ w.p.n \in Nat \ {0} /\ FrameLen(w.p) \in Nat /\ w.p.end \in BOOLEAN
        /\ FrameLen(w.p) >= 4 + w.p.n
    <2>1. w.p \in SifPacket
      BY <1>2 DEF SifWord
    <2>2. /\ w.p.n \in Nat \ {0} /\ FrameLen(w.p) \in Nat /\ w.p.end \in BOOLEAN
          /\ FrameLen(w.p) = 4 + 4 * Quads(w.p.n) /\ 4 * Quads(w.p.n) >= w.p.n /\ Quads(w.p.n) \in Nat
      BY <2>1, FrameFacts
    <2> DEFINE Q == Quads(w.p.n)
    <2> HIDE DEF Q
    <2>3. FrameLen(w.p) >= 4 + w.p.n
      BY <2>2 DEF Q
    <2> QED
      BY <2>1, <2>2, <2>3
  <1>4. ch.left \in Nat /\ ch.pad \in Nat /\ dh.left \in Nat /\ dh.pad \in Nat /\ ch.end \in BOOLEAN
    BY DEF Core1, Chan1
  <1>5. Laid(q, ps) /\ Taken(g, q, ps, whole) /\ g \in Seq(SifWord) /\ irq \in Nat
    BY DEF Core1, Taken
  <1> DEFINE a == w.i  n == w.p.n  l == ch.left  p == ch.pad  F == FrameLen(w.p)
  <1> HIDE DEF w
  <1>6. /\ a \in Nat /\ n \in Nat \ {0} /\ l \in Nat /\ p \in Nat /\ F \in Nat /\ a >= 4
        /\ a + l + p = F /\ F >= 4 + n /\ (l > 0 => a + l = 4 + n) /\ (l = 0 => a >= 4 + n) /\ l + p > 0
        /\ \/ l > 0 /\ k =< l /\ d = k /\ dh.left = l - k /\ dh.pad = p
           \/ l = 0 /\ k =< p /\ d = 0 /\ dh.left = 0 /\ dh.pad = p - k
    BY <1>1, <1>2, <1>3, <1>4
  <1> HIDE DEF a, n, l, p, F
  <1>7. a + k =< F /\ d \in 0 .. k
    BY <1>6
  <1>8. \A x \in 0 .. k - 1 : x < d <=> a + x >= 4 /\ a + x < 4 + n
    BY <1>6
  <1>9. Lands(q, k, d)
    BY <1>7, <1>8 DEF Lands, a, n, F, w
  <1>10. /\ k \in 0 .. Len(q) /\ Laid(r, ps)
         /\ IF w.i + k < FrameLen(w.p)
            THEN r # <<>> /\ r[1] = Word(w.p, w.i + k)
            ELSE IF r = <<>> THEN w.p.no = Len(ps)
            ELSE w.p.no < Len(ps) /\ r[1] = Word(ps[w.p.no + 1], 0)
    BY <1>1, <1>5, <1>7, Onward DEF a, F, w
  <1>11. Taken(h, r, ps, whole)
    BY <1>1, <1>5, <1>9, LandedTaken
  <1>12. Cardinality(LandedEnds(ps, h)) = Cardinality(LandedEnds(ps, g)) + (IF Reaches(w, d) THEN 1 ELSE 0)
    BY <1>1, <1>5, <1>9, LandedEndsAre DEF w
  <1> HIDE DEF r, h
  <1>13. Stands1(dh, r)
    <2>1. dh.left + dh.pad > 0 <=> a + k < F
      BY <1>6
    <2>2. CASE a + k < F
      <3>1. r # <<>> /\ r[1].p = w.p /\ r[1].i = a + k
        BY <1>10, <2>2 DEF Word, a, F
      <3>2. /\ a + k >= 4 /\ a + k + dh.left + dh.pad = F
            /\ dh.left > 0 => a + k + dh.left = 4 + n
            /\ dh.left = 0 => a + k >= 4 + n
        BY <1>6
      <3> QED
        BY <1>1, <2>1, <2>2, <3>1, <3>2 DEF Stands1, F, n
    <2>3. CASE ~(a + k < F)
      <3>1. r # <<>> => r[1].i = 0
        BY <1>10, <2>3 DEF Word, a, F
      <3> QED
        BY <2>1, <2>3, <3>1 DEF Stands1
    <2> QED
      BY <2>2, <2>3
  <1>14. irq + Pending1(dh) = Cardinality(LandedEnds(ps, h))
    <2>1. Reaches(w, d) <=> w.p.end /\ a =< 3 + n /\ 3 + n < a + d
      BY DEF Reaches, a, n
    <2>2. irq + Pending1(ch) = Cardinality(LandedEnds(ps, g))
      BY DEF Core1
    <2>3. CASE l > 0
      <3>1. (a =< 3 + n /\ 3 + n < a + d) <=> dh.left = 0
        BY <1>6, <2>3
      <3>2. Pending1(ch) = 0 /\ Pending1(dh) = IF Reaches(w, d) THEN 1 ELSE 0
        BY <1>1, <1>6, <2>1, <2>3, <3>1 DEF Pending1, l
      <3> QED
        BY <1>5, <1>12, <2>2, <3>2
    <2>4. CASE l = 0
      <3>1. ~(a =< 3 + n) /\ dh.left = 0
        BY <1>6, <2>4
      <3>2. Pending1(dh) = Pending1(ch)
        BY <1>6, <2>4, <3>1 DEF Pending1, l
      <3>3. ~Reaches(w, d)
        BY <2>1, <3>1
      <3>4. Pending1(ch) \in Nat
        BY DEF Pending1
      <3> DEFINE c == Cardinality(LandedEnds(ps, g))
      <3> HIDE DEF c
      <3>5. irq + Pending1(ch) = c /\ Cardinality(LandedEnds(ps, h)) = c + 0 /\ c \in Nat
        BY <1>5, <1>12, <2>2, <3>3, <3>4 DEF c
      <3> QED
        BY <3>2, <3>5
    <2> QED
      BY <1>6, <2>3, <2>4
  <1> QED
    BY <1>1, <1>5, <1>9, <1>10, <1>11, <1>13, <1>14 DEF Core1, r, h, w

(***************************************************************************)
(* A turn of the receiver: what each of its parts does to the record.      *)
(***************************************************************************)
Rec1 == [f0 : Seq(SifWord), f1 : Seq(SifWord), ch : Chan1, irq : Nat, got : Seq(SifWord), resets : Nat]

LEMMA ReadTagIs ==
    ASSUME NEW s \in Rec1, NEW w, w = s.f1[1], w.p \in SifPacket, 4 =< Len(s.f1)
    PROVE  /\ ReadTag(s) \in Rec1 /\ ReadTag(s).f0 = s.f0 /\ ReadTag(s).f1 = Drop(s.f1, 4)
           /\ ReadTag(s).ch = [busy |-> TRUE, left |-> w.p.n, pad |-> Pad4(w.p.n),
                               end |-> w.p.end, cmd |-> w.p.cmd]
           /\ ReadTag(s).irq = s.irq /\ ReadTag(s).got = s.got /\ ReadTag(s).resets = s.resets
  <1> DEFINE f == Drop(s.f1, 4)
             c == [busy |-> TRUE, left |-> w.p.n, pad |-> Pad4(w.p.n), end |-> w.p.end, cmd |-> w.p.cmd]
  <1>1. ReadTag(s) = [s EXCEPT !.f1 = f, !.ch = c]
    BY DEF ReadTag, Rec1
  <1>2. f \in Seq(SifWord)
    <2>1. s.f1 \in Seq(SifWord) /\ 4 \in 0 .. Len(s.f1)
      BY DEF Rec1
    <2> QED
      BY <2>1, DropIs
  <1>3. c \in Chan1
    <2>1. w.p.n \in Nat /\ Pad4(w.p.n) \in Nat /\ w.p.end \in BOOLEAN /\ w.p.cmd \in {"none", "reset"}
      BY FrameFacts DEF SifPacket
    <2> QED
      BY <2>1 DEF Chan1
  <1> HIDE DEF f, c
  <1> QED
    BY <1>1, <1>2, <1>3 DEF Rec1, f, c

LEMMA LandIs ==
    ASSUME NEW s \in Rec1, NEW n \in Nat, n =< s.ch.left, n =< Len(s.f1)
    PROVE  /\ Land(s, n) \in Rec1 /\ Land(s, n).f0 = s.f0 /\ Land(s, n).f1 = Drop(s.f1, n)
           /\ Land(s, n).ch \in Chan1 /\ Land(s, n).ch.left = s.ch.left - n /\ Land(s, n).ch.pad = s.ch.pad
           /\ Land(s, n).ch.busy = s.ch.busy /\ Land(s, n).ch.end = s.ch.end /\ Land(s, n).ch.cmd = s.ch.cmd
           /\ Land(s, n).irq = s.irq /\ Land(s, n).got = s.got \o Take(s.f1, n) /\ Land(s, n).resets = s.resets
  <1> DEFINE f == Drop(s.f1, n)  g == s.got \o Take(s.f1, n)  c == [s.ch EXCEPT !.left = @ - n]
  <1>1. Land(s, n) = [s EXCEPT !.f1 = f, !.ch = c, !.got = g]
    BY DEF Land, Rec1
  <1>2. f \in Seq(SifWord) /\ g \in Seq(SifWord)
    <2>1. s.f1 \in Seq(SifWord) /\ n \in 0 .. Len(s.f1) /\ s.got \in Seq(SifWord)
      BY DEF Rec1
    <2>2. f \in Seq(SifWord) /\ Take(s.f1, n) \in Seq(SifWord)
      BY <2>1, DropIs, TakeIs
    <2> QED
      BY <2>1, <2>2, ConcatProperties
  <1>3. /\ c \in Chan1 /\ c.left = s.ch.left - n /\ c.pad = s.ch.pad
        /\ c.busy = s.ch.busy /\ c.end = s.ch.end /\ c.cmd = s.ch.cmd
    <2>1. s.ch \in Chan1
      BY DEF Rec1
    <2>2. s.ch.left - n \in Nat
      BY <2>1 DEF Chan1
    <2> QED
      BY <2>1, <2>2 DEF Chan1
  <1> HIDE DEF f, c, g
  <1> QED
    BY <1>1, <1>2, <1>3 DEF Rec1, f, g

LEMMA SkipPadIs ==
    ASSUME NEW s \in Rec1, NEW n \in Nat, n =< s.ch.pad, n =< Len(s.f1)
    PROVE  /\ SkipPad(s, n) \in Rec1 /\ SkipPad(s, n).f0 = s.f0 /\ SkipPad(s, n).f1 = Drop(s.f1, n)
           /\ SkipPad(s, n).ch \in Chan1 /\ SkipPad(s, n).ch.left = s.ch.left /\ SkipPad(s, n).ch.pad = s.ch.pad - n
           /\ SkipPad(s, n).ch.busy = s.ch.busy /\ SkipPad(s, n).ch.end = s.ch.end
           /\ SkipPad(s, n).ch.cmd = s.ch.cmd
           /\ SkipPad(s, n).irq = s.irq /\ SkipPad(s, n).got = s.got /\ SkipPad(s, n).resets = s.resets
  <1> DEFINE f == Drop(s.f1, n)  c == [s.ch EXCEPT !.pad = @ - n]
  <1>1. SkipPad(s, n) = [s EXCEPT !.f1 = f, !.ch = c]
    BY DEF SkipPad, Rec1
  <1>2. f \in Seq(SifWord)
    <2>1. s.f1 \in Seq(SifWord) /\ n \in 0 .. Len(s.f1)
      BY DEF Rec1
    <2> QED
      BY <2>1, DropIs
  <1>3. /\ c \in Chan1 /\ c.left = s.ch.left /\ c.pad = s.ch.pad - n
        /\ c.busy = s.ch.busy /\ c.end = s.ch.end /\ c.cmd = s.ch.cmd
    <2>1. s.ch \in Chan1
      BY DEF Rec1
    <2>2. s.ch.pad - n \in Nat
      BY <2>1 DEF Chan1
    <2> QED
      BY <2>1, <2>2 DEF Chan1
  <1> HIDE DEF f, c
  <1> QED
    BY <1>1, <1>2, <1>3 DEF Rec1, f

LEMMA FinishIs ==
    ASSUME NEW s \in Rec1
    PROVE  /\ Finish(s) \in Rec1 /\ Finish(s).got = s.got
           /\ IF s.ch.left + s.ch.pad > 0 \/ ~s.ch.end THEN Finish(s) = s
              ELSE /\ Finish(s).irq = s.irq + 1 /\ Finish(s).ch.left = 0 /\ Finish(s).ch.pad = 0
                   /\ ~Finish(s).ch.end /\ ~Finish(s).ch.busy
                   /\ IF s.ch.cmd = "reset"
                      THEN /\ Finish(s).f0 = <<>> /\ Finish(s).f1 = <<>> /\ Finish(s).resets = s.resets + 1
                      ELSE /\ Finish(s).f0 = s.f0 /\ Finish(s).f1 = s.f1 /\ Finish(s).resets = s.resets
  <1>0. /\ s.ch \in Chan1 /\ s.irq \in Nat /\ s.resets \in Nat
        /\ s.ch.left \in Nat /\ s.ch.pad \in Nat /\ s.ch.end \in BOOLEAN
    BY DEF Rec1, Chan1
  <1>1. CASE s.ch.left + s.ch.pad > 0 \/ ~s.ch.end
    BY <1>1 DEF Finish
  <1>2. CASE ~(s.ch.left + s.ch.pad > 0 \/ ~s.ch.end)
    <2> DEFINE c == [s.ch EXCEPT !.busy = FALSE, !.end = FALSE]  i == s.irq + 1
               v == [s EXCEPT !.irq = i, !.ch = c]
    <2>0. s.ch.left = 0 /\ s.ch.pad = 0 /\ s.ch.end
      <3> DEFINE l == s.ch.left  p == s.ch.pad
      <3> HIDE DEF l, p
      <3>1. l \in Nat /\ p \in Nat /\ ~(l + p > 0) /\ s.ch.end
        BY <1>0, <1>2 DEF l, p
      <3>2. l = 0 /\ p = 0
        BY <3>1
      <3> QED
        BY <3>1, <3>2 DEF l, p
    <2>1. /\ c \in Chan1 /\ c.left = 0 /\ c.pad = 0 /\ ~c.end /\ ~c.busy /\ c.cmd = s.ch.cmd
      <3>1. /\ c \in Chan1 /\ c.left = s.ch.left /\ c.pad = s.ch.pad /\ c.end = FALSE /\ c.busy = FALSE /\ c.cmd = s.ch.cmd
        BY <1>0 DEF Chan1
      <3> QED
        BY <2>0, <3>1
    <2>2. [s EXCEPT !.irq = @ + 1, !.ch.busy = FALSE, !.ch.end = FALSE] = v
      BY <1>0 DEF Rec1
    <2>3. Finish(s) = IF s.ch.cmd = "reset" THEN Flush(v) ELSE v
      BY <1>2, <2>2 DEF Finish
    <2>4. i \in Nat
      BY <1>0
    <2> HIDE DEF c, i
    <2>5. /\ v \in Rec1 /\ v.f0 = s.f0 /\ v.f1 = s.f1 /\ v.ch = c /\ v.irq = i /\ v.got = s.got /\ v.resets = s.resets
      BY <2>1, <2>4 DEF Rec1
    <2> HIDE DEF v
    <2>6. /\ Flush(v) \in Rec1 /\ Flush(v).f0 = <<>> /\ Flush(v).f1 = <<>> /\ Flush(v).ch = Idle1(c.busy)
          /\ Flush(v).irq = i /\ Flush(v).got = s.got /\ Flush(v).resets = s.resets + 1
      <3> DEFINE d == Idle1(c.busy)  r == s.resets + 1
      <3>1. Flush(v) = [v EXCEPT !.f0 = <<>>, !.f1 = <<>>, !.ch = d, !.resets = r]
        BY <2>5 DEF Flush, Rec1
      <3>2. d \in Chan1 /\ r \in Nat /\ <<>> \in Seq(SifWord)
        BY <1>0, <2>1 DEF Idle1, Chan1
      <3> HIDE DEF d, r
      <3> QED
        BY <2>5, <3>1, <3>2 DEF Rec1, d, r
    <2>7. Idle1(c.busy).left = 0 /\ Idle1(c.busy).pad = 0 /\ ~Idle1(c.busy).end /\ ~Idle1(c.busy).busy
      BY <2>1 DEF Idle1
    <2>8. CASE s.ch.cmd = "reset"
      BY <1>2, <2>6, <2>7, <2>3, <2>8 DEF i
    <2>9. CASE s.ch.cmd # "reset"
      BY <1>2, <2>1, <2>5, <2>3, <2>9 DEF i
    <2> QED
      BY <2>8, <2>9
  <1> QED
    BY <1>1, <1>2

LEMMA TakeOfConcat ==
    ASSUME NEW S, NEW q \in Seq(S), NEW r \in Seq(S), NEW n \in 0 .. Len(q)
    PROVE  Take(q \o r, n) = Take(q, n)
  <1> DEFINE c == q \o r  a == Take(c, n)  b == Take(q, n)
  <1>1. c \in Seq(S) /\ Len(c) = Len(q) + Len(r) /\ \A i \in 1 .. Len(q) : c[i] = q[i]
    BY ConcatProperties
  <1> HIDE DEF c
  <1>2. n \in 0 .. Len(c) /\ Len(q) \in Nat
    BY <1>1
  <1>3. /\ a \in Seq(S) /\ Len(a) = n /\ \A i \in 1 .. n : a[i] = c[i]
        /\ b \in Seq(S) /\ Len(b) = n /\ \A i \in 1 .. n : b[i] = q[i]
    BY <1>1, <1>2, TakeIs
  <1> HIDE DEF a, b
  <1>4. \A i \in 1 .. n : a[i] = b[i]
    BY <1>1, <1>2, <1>3
  <1>5. a = b
    BY <1>3, <1>4, SeqEqual
  <1> QED
    BY <1>5 DEF a, b, c

\* The first stretch of the stream is thrown away.
LEMMA Flushing ==
    ASSUME NEW ps, NEW f \in Seq(SifWord), f # <<>>, NEW u \in Seq(SifWord), Laid(f \o u, ps),
           NEW g, NEW whole, Taken(g, f \o u, ps, whole)
    PROVE  Laid(u, ps) /\ Taken(g, u, ps, FALSE)
  <1> DEFINE q == f \o u  n == Len(f)  r == Drop(q, n)
  <1>1. /\ q \in Seq(SifWord) /\ Len(q) = n + Len(u)
        /\ \A i \in 1 .. n : q[i] = f[i]
        /\ \A i \in 1 .. Len(u) : q[n + i] = u[i]
    <2>1. /\ q \in Seq(SifWord) /\ Len(q) = n + Len(u)
          /\ \A i \in 1 .. n : q[i] = f[i]
          /\ \A i \in n + 1 .. n + Len(u) : q[i] = u[i - n]
      BY ConcatProperties
    <2> HIDE DEF q
    <2>2. n \in Nat /\ Len(u) \in Nat
      OBVIOUS
    <2> HIDE DEF n
    <2>3. \A i \in 1 .. Len(u) : q[n + i] = u[i]
      <3> SUFFICES ASSUME NEW i \in 1 .. Len(u) PROVE q[n + i] = u[i]
        OBVIOUS
      <3>1. n + i \in n + 1 .. n + Len(u) /\ (n + i) - n = i
        BY <2>2
      <3> QED
        BY <2>1, <3>1
    <2> QED
      BY <2>1, <2>3
  <1>2. n \in Nat \ {0} /\ n \in 0 .. Len(q) /\ Len(u) \in Nat
    BY <1>1, EmptySeq
  <1>3. Laid(q, ps) /\ Taken(g, q, ps, whole)
    OBVIOUS
  <1> HIDE DEF q
  <1>4. Laid(r, ps) /\ r \in Seq(SifWord) /\ Len(r) = Len(q) - n /\ \A i \in 1 .. Len(q) - n : r[i] = q[n + i]
    BY <1>1, <1>2, <1>3, LaidDrop, DropIs
  <1> HIDE DEF n, r
  <1>5. r = u
    <2>1. Len(r) = Len(u) /\ \A i \in 1 .. Len(u) : r[i] = u[i]
      BY <1>1, <1>2, <1>4
    <2> QED
      BY <1>4, <2>1, SeqEqual
  <1>6. \A v \in SifWord : Passed(v, q) => Passed(v, u)
    <2> SUFFICES ASSUME NEW v \in SifWord, Passed(v, q), u # <<>> PROVE Before(v, u[1])
      BY DEF Passed
    <2>1. 1 \in 1 .. Len(u) /\ u[1] \in SifWord /\ 1 \in 1 .. Len(q) /\ q # <<>> /\ q[1] \in SifWord
          /\ n + 1 \in 1 .. Len(q) /\ 1 \in 1 .. (n + 1) - 1
      BY <1>1, <1>2
    <2>2. Before(v, q[1])
      BY <2>1 DEF Passed
    <2>3. q[n + 1] = u[1]
      BY <1>1, <2>1
    <2>4. Before(q[1], u[1])
      BY <1>3, <2>1, <2>3 DEF Laid
    <2> DEFINE a == v.p.no  b == q[1].p.no  c == u[1].p.no  x == v.i  y == q[1].i  z == u[1].i
    <2>5. a \in Nat /\ b \in Nat /\ c \in Nat /\ x \in Nat /\ y \in Nat /\ z \in Nat
      BY <2>1 DEF SifWord, SifPacket
    <2> HIDE DEF a, b, c, x, y, z
    <2>6. (a < b \/ (a = b /\ x < y)) /\ (b < c \/ (b = c /\ y < z))
      BY <2>2, <2>4 DEF Before, a, b, c, x, y, z
    <2>7. a < c \/ (a = c /\ x < z)
      BY <2>5, <2>6
    <2> QED
      BY <2>7 DEF Before, a, c, x, z
  <1>7. Taken(g, u, ps, FALSE)
    <2>1. g \in Seq(SifWord) /\ \A i \in 1 .. Len(g) : g[i] \in DataSent(ps) /\ Passed(g[i], q)
      BY <1>3 DEF Taken
    <2>2. \A i \in 1 .. Len(g) : g[i] \in SifWord
      BY <2>1
    <2>3. \A i \in 1 .. Len(g) : g[i] \in DataSent(ps) /\ Passed(g[i], u)
      BY <1>6, <2>1, <2>2
    <2> QED
      BY <1>3, <2>1, <2>3 DEF Taken
  <1> QED
    BY <1>4, <1>5, <1>7 DEF r, q

\* One reset is sent, and the stream behind it stands at a tag: nothing of the
\* reset is left there.
ResetAlone(ps) ==
    \A j, k \in 1 .. Len(ps) : ps[j].cmd = "reset" /\ ps[k].cmd = "reset" => j = k
LEMMA NoResetLeft ==
    ASSUME NEW ps, ResetAlone(ps), NEW f \in Seq(SifWord), f # <<>>, NEW u \in Seq(SifWord),
           Laid(f \o u, ps), (f \o u)[1].p.cmd = "reset", u = <<>> \/ u[1].i = 0
    PROVE  \A i \in 1 .. Len(u) : u[i].p.cmd # "reset"
  <1> SUFFICES ASSUME NEW i \in 1 .. Len(u), u[i].p.cmd = "reset" PROVE FALSE
    OBVIOUS
  <1> DEFINE q == f \o u  n == Len(f)
  <1>1. /\ q \in Seq(SifWord) /\ Len(q) = n + Len(u)
        /\ \A k \in n + 1 .. n + Len(u) : q[k] = u[k - n]
    BY ConcatProperties
  <1>2. Laid(q, ps) /\ q[1].p.cmd = "reset"
    OBVIOUS
  <1> HIDE DEF q
  <1>3. n \in Nat \ {0} /\ Len(u) \in Nat /\ i \in Nat \ {0} /\ u # <<>>
    BY EmptySeq
  <1> HIDE DEF n
  <1>4. /\ n + i \in n + 1 .. n + Len(u) /\ (n + i) - n = i /\ n + 1 \in n + 1 .. n + Len(u) /\ (n + 1) - n = 1
        /\ 1 \in 1 .. Len(q) /\ n + 1 \in 1 .. Len(q) /\ n + i \in 1 .. Len(q)
        /\ 1 \in 1 .. (n + 1) - 1 /\ 1 \in 1 .. Len(u)
        /\ i = 1 \/ n + 1 \in 1 .. (n + i) - 1
    BY <1>1, <1>3
  <1>5. q[n + i] = u[i] /\ q[n + 1] = u[1]
    BY <1>1, <1>4
  <1>6. /\ Lies(q[1], ps) /\ Lies(u[i], ps)
        /\ Before(q[1], u[1])
        /\ i = 1 \/ Before(u[1], u[i])
    <2>1. Lies(q[1], ps) /\ Lies(q[n + i], ps) /\ Before(q[1], q[n + 1])
      BY <1>2, <1>4 DEF Laid
    <2>2. i = 1 \/ Before(q[n + 1], q[n + i])
      BY <1>2, <1>4 DEF Laid
    <2> QED
      BY <1>5, <2>1, <2>2
  <1>7. q[1] \in SifWord /\ u[1] \in SifWord /\ u[i] \in SifWord
    BY <1>1, <1>4
  <1>8. q[1].p.no = u[i].p.no
    BY <1>2, <1>6 DEF Lies, ResetAlone
  <1> DEFINE a == q[1].p.no  b == u[1].p.no  c == u[i].p.no  x == q[1].i  y == u[1].i  z == u[i].i
  <1>9. a \in Nat /\ b \in Nat /\ c \in Nat /\ x \in Nat /\ y \in Nat /\ z \in Nat /\ a = c /\ y = 0 /\ (i = 1 => b = c)
    BY <1>3, <1>7, <1>8 DEF SifWord, SifPacket
  <1> HIDE DEF a, b, c, x, y, z
  <1>10. (a < b \/ (a = b /\ x < y)) /\ (i = 1 \/ b < c \/ (b = c /\ y < z))
    BY <1>6 DEF Before, a, b, c, x, y, z
  <1> QED
    BY <1>9, <1>10

(***************************************************************************)
(* The receiver between two of its turns, with u still on the EE's side.   *)
(***************************************************************************)
Settled(ch) == ch.left + ch.pad = 0 => ~ch.end
AtReset(q, u, resets) == \A i \in 1 .. Len(q) : q[i].p.cmd = "reset" => resets = 0 /\ (u = <<>> \/ u[1].i = 0)
Pumped1(s, u, ps) ==
    /\ s \in Rec1
    /\ Core1(s.ch, s.f1 \o u, s.got, s.irq, ps, s.resets = 0)
    /\ Settled(s.ch)
    /\ AtReset(s.f1 \o u, u, s.resets)

\* What is on the stream, and what has been received since there were n words, was
\* sent after the first M packets.
Newer(q, M) == \A i \in 1 .. Len(q) : q[i].p.no > M
NewSince(g, n, M) == \A i \in 1 .. Len(g) : i > n => g[i].p.no > M
Flushed(r, s) ==
    \/ s.resets = r.resets /\ s.f0 = r.f0
    \/ s.resets # r.resets /\ s.f0 = <<>> /\ s.f1 = <<>> /\ r.resets = 0

LEMMA NewerDrop ==
    ASSUME NEW q \in Seq(SifWord), NEW M, Newer(q, M), NEW k \in 0 .. Len(q)
    PROVE  Newer(Drop(q, k), M)
  <1> DEFINE r == Drop(q, k)
  <1>1. Len(r) = Len(q) - k /\ \A i \in 1 .. Len(q) - k : r[i] = q[k + i]
    BY DropIs
  <1> HIDE DEF r
  <1>2. \A i \in 1 .. Len(r) : k + i \in 1 .. Len(q) /\ i \in 1 .. Len(q) - k
    BY <1>1
  <1> QED
    BY <1>1, <1>2 DEF Newer, r

LEMMA AtResetDrop ==
    ASSUME NEW q \in Seq(SifWord), NEW u, NEW n, AtReset(q, u, n), NEW k \in 0 .. Len(q)
    PROVE  AtReset(Drop(q, k), u, n)
  <1> DEFINE r == Drop(q, k)
  <1>1. Len(r) = Len(q) - k /\ \A i \in 1 .. Len(q) - k : r[i] = q[k + i]
    BY DropIs
  <1> HIDE DEF r
  <1>2. \A i \in 1 .. Len(r) : k + i \in 1 .. Len(q) /\ i \in 1 .. Len(q) - k
    BY <1>1
  <1> QED
    BY <1>1, <1>2 DEF AtReset, r

\* Words of one packet are received.
LEMMA NewJoined ==
    ASSUME NEW q, q # <<>>, NEW ps, Laid(q, ps), NEW m, NEW d, Lands(q, m, d), NEW g \in Seq(SifWord),
           NEW n, NEW M, Newer(q, M), NewSince(g, n, M)
    PROVE  NewSince(g \o Take(q, d), n, M)
  <1> DEFINE h == g \o Take(q, d)  w == q[1]
  <1>1. JoinedOn(h, g, w, d)
    BY LandedIs
  <1>2. w.p.no > M
    <2>1. q \in Seq(SifWord)
      BY DEF Laid
    <2>2. 1 \in 1 .. Len(q)
      BY <2>1
    <2> QED
      BY <2>2 DEF Newer
  <1>3. d \in Nat
    BY DEF Lands
  <1> HIDE DEF h, w
  <1>4. ASSUME NEW i \in 1 .. Len(h), i > n PROVE h[i].p.no > M
    <2>1. Len(h) = Len(g) + d /\ Len(g) \in Nat /\ i \in 1 .. Len(g) + d
      BY <1>1 DEF JoinedOn
    <2>2. CASE i > Len(g)
      <3>1. h[i].p = w.p
        BY <1>1, <2>1, <2>2 DEF JoinedOn, Word
      <3> QED
        BY <1>2, <3>1
    <2>3. CASE ~(i > Len(g))
      <3>1. i \in 1 .. Len(g)
        BY <2>1, <2>3
      <3>2. h[i] = g[i]
        BY <1>1, <3>1 DEF JoinedOn
      <3> QED
        BY <1>4, <3>1, <3>2 DEF NewSince
    <2> QED
      BY <2>2, <2>3
  <1> QED
    BY <1>4 DEF NewSince, h

NewerAfter(s, u, n, M) == Newer(s.f1 \o u, M) /\ NewSince(s.got, n, M)

\* A turn that takes k words of the packet at hand, before the packet's end is seen to.
Moved1(s, t, k) ==
    /\ t \in Rec1 /\ t.f0 = s.f0 /\ t.irq = s.irq /\ t.resets = s.resets
    /\ k \in Nat \ {0} /\ k =< Len(s.f1) /\ t.f1 = Drop(s.f1, k)
    /\ \/ /\ s.ch.left > 0 /\ k =< s.ch.left /\ t.ch.left = s.ch.left - k /\ t.ch.pad = s.ch.pad
          /\ t.got = s.got \o Take(s.f1, k)
       \/ /\ s.ch.left = 0 /\ k =< s.ch.pad /\ t.ch.left = 0 /\ t.ch.pad = s.ch.pad - k
          /\ t.got = s.got
    /\ t.ch.busy = s.ch.busy /\ t.ch.end = s.ch.end /\ t.ch.cmd = s.ch.cmd

LEMMA WordsTurn ==
    ASSUME NEW ps, Numbered(ps), NEW u \in Seq(SifWord), NEW s, Pumped1(s, u, ps),
           s.ch.left + s.ch.pad > 0, NEW k, NEW t, Moved1(s, t, k)
    PROVE  /\ Core1(t.ch, t.f1 \o u, t.got, t.irq, ps, t.resets = 0)
           /\ AtReset(t.f1 \o u, u, t.resets)
           /\ \A n, M : NewerAfter(s, u, n, M) => NewerAfter(t, u, n, M)
           /\ Len(t.f1) < Len(s.f1) /\ s.f1 # <<>> /\ t.ch.cmd = (s.f1 \o u)[1].p.cmd
  <1> DEFINE q == s.f1 \o u  d == IF s.ch.left > 0 THEN k ELSE 0
  <1>1. /\ s.f1 \in Seq(SifWord) /\ s.got \in Seq(SifWord) /\ s.ch \in Chan1 /\ k \in Nat \ {0} /\ k \in 0 .. Len(s.f1)
        /\ k =< Len(s.f1)
    BY DEF Pumped1, Moved1, Rec1
  <1>2. s.ch.left \in Nat /\ s.ch.pad \in Nat /\ t.ch \in Chan1
    BY <1>1 DEF Chan1, Moved1, Rec1
  <1>3. /\ q \in Seq(SifWord) /\ Len(s.f1) =< Len(q)
    BY <1>1, ConcatProperties
  <1>4. t.f1 \o u = Drop(q, k)
    <2>1. Drop(s.f1, k) \o u = Drop(q, k)
      BY <1>1, DropOfConcat
    <2> QED
      BY <2>1 DEF Moved1
  <1>5. d \in 0 .. Len(s.f1) /\ (d = k \/ d = 0)
    BY <1>1
  <1>6. Take(q, d) = Take(s.f1, d)
    BY <1>1, <1>5, TakeOfConcat
  <1>7. t.got = s.got \o Take(q, d)
    <2>0. \/ s.ch.left > 0 /\ t.got = s.got \o Take(s.f1, k)
          \/ s.ch.left = 0 /\ t.got = s.got
      BY DEF Moved1
    <2>1. CASE s.ch.left > 0
      <3>0. s.ch.left # 0
        BY <1>2, <2>1
      <3>1. t.got = s.got \o Take(s.f1, k) /\ d = k
        BY <2>0, <2>1, <3>0
      <3> QED
        BY <1>6, <3>1
    <2>2. CASE ~(s.ch.left > 0)
      <3>1. t.got = s.got /\ d = 0
        BY <2>0, <2>2
      <3>2. s.got \o Take(q, 0) = s.got
        BY <1>1, TakeNone
      <3> QED
        BY <3>1, <3>2
    <2> QED
      BY <2>1, <2>2
  <1>8. Core1(s.ch, q, s.got, s.irq, ps, s.resets = 0) /\ AtReset(q, u, s.resets)
    BY DEF Pumped1
  <1>9. \/ s.ch.left > 0 /\ k =< s.ch.left /\ d = k /\ t.ch.left = s.ch.left - k /\ t.ch.pad = s.ch.pad
        \/ s.ch.left = 0 /\ k =< s.ch.pad /\ d = 0 /\ t.ch.left = 0 /\ t.ch.pad = s.ch.pad - k
    <2>1. \/ s.ch.left > 0 /\ k =< s.ch.left /\ t.ch.left = s.ch.left - k /\ t.ch.pad = s.ch.pad
          \/ s.ch.left = 0 /\ k =< s.ch.pad /\ t.ch.left = 0 /\ t.ch.pad = s.ch.pad - k
      BY DEF Moved1
    <2> DEFINE l == s.ch.left
    <2>2. CASE l > 0
      <3>1. l # 0 /\ d = k
        BY <1>2, <2>2
      <3> QED
        BY <2>1, <2>2, <3>1
    <2>3. CASE ~(l > 0)
      <3>1. d = 0
        BY <2>3
      <3> QED
        BY <2>1, <2>3, <3>1
    <2> QED
      BY <2>2, <2>3
  <1>10. t.ch.busy = s.ch.busy /\ t.ch.end = s.ch.end /\ t.ch.cmd = s.ch.cmd /\ t.irq = s.irq /\ t.resets = s.resets
    BY DEF Moved1
  <1> HIDE DEF q, d
  <1>11. /\ Core1(t.ch, Drop(q, k), s.got \o Take(q, d), s.irq, ps, s.resets = 0)
         /\ Lands(q, k, d) /\ k \in 0 .. Len(q) /\ q # <<>> /\ s.ch.cmd = q[1].p.cmd
    <2> DEFINE ch == s.ch  dh == t.ch  g == s.got  i == s.irq  wh == (s.resets = 0)
    <2>1. /\ Core1(ch, q, g, i, ps, wh) /\ ch.left + ch.pad > 0 /\ k \in Nat \ {0} /\ dh \in Chan1
          /\ \/ ch.left > 0 /\ k =< ch.left /\ d = k /\ dh.left = ch.left - k /\ dh.pad = ch.pad
             \/ ch.left = 0 /\ k =< ch.pad /\ d = 0 /\ dh.left = 0 /\ dh.pad = ch.pad - k
          /\ dh.busy = ch.busy /\ dh.end = ch.end /\ dh.cmd = ch.cmd
      BY <1>1, <1>2, <1>8, <1>9, <1>10
    <2> HIDE DEF ch, dh, g, i, wh
    <2>2. /\ Core1(dh, Drop(q, k), g \o Take(q, d), i, ps, wh)
          /\ Lands(q, k, d) /\ k \in 0 .. Len(q) /\ q # <<>> /\ ch.cmd = q[1].p.cmd
      BY <2>1, WordsCore
    <2> QED
      BY <2>2 DEF ch, dh, g, i, wh
  <1>12. AtReset(Drop(q, k), u, s.resets)
    BY <1>3, <1>8, <1>11, AtResetDrop
  <1>13. ASSUME NEW n, NEW M, NewerAfter(s, u, n, M) PROVE NewerAfter(t, u, n, M)
    <2>1. Newer(q, M) /\ NewSince(s.got, n, M)
      BY <1>13 DEF NewerAfter, q
    <2>2. Newer(Drop(q, k), M)
      BY <1>3, <1>11, <2>1, NewerDrop
    <2>3. Laid(q, ps)
      BY <1>8 DEF Core1
    <2>4. NewSince(s.got \o Take(q, d), n, M)
      BY <1>1, <1>11, <2>1, <2>3, NewJoined
    <2> QED
      BY <1>4, <1>7, <2>2, <2>4 DEF NewerAfter
  <1>14. Len(t.f1) < Len(s.f1) /\ s.f1 # <<>>
    <2>1. t.f1 = Drop(s.f1, k)
      BY DEF Moved1
    <2> DEFINE f == s.f1
    <2>2. Len(Drop(f, k)) = Len(f) - k /\ Len(f) \in Nat
      <3>1. f \in Seq(SifWord) /\ k \in 0 .. Len(f)
        BY <1>1
      <3> HIDE DEF f
      <3> QED
        BY <3>1, DropIs
    <2> QED
      BY <1>1, <2>1, <2>2
  <1> QED
    BY <1>4, <1>7, <1>10, <1>11, <1>12, <1>13, <1>14 DEF q

\* The end of a packet is seen to: the interrupt, and the flush if it was the reset.
LEMMA FinishKeeps ==
    ASSUME NEW ps, Numbered(ps), ResetAlone(ps), NEW u \in Seq(SifWord), NEW s, Pumped1(s, u, ps),
           s.ch.left + s.ch.pad > 0, NEW k, NEW t, Moved1(s, t, k)
    PROVE  /\ Pumped1(Finish(t), u, ps) /\ Flushed(s, Finish(t))
           /\ \A n, M : NewerAfter(s, u, n, M) => NewerAfter(Finish(t), u, n, M)
           /\ Len(Finish(t).f1) < Len(s.f1)
  <1> DEFINE q == s.f1 \o u  r == t.f1 \o u  z == Finish(t)
  <1>1. /\ Core1(t.ch, r, t.got, t.irq, ps, t.resets = 0) /\ AtReset(r, u, t.resets)
        /\ \A n, M : NewerAfter(s, u, n, M) => NewerAfter(t, u, n, M)
        /\ Len(t.f1) < Len(s.f1) /\ s.f1 # <<>> /\ t.ch.cmd = q[1].p.cmd
    BY WordsTurn
  <1>2. /\ t \in Rec1 /\ s \in Rec1 /\ t.f0 = s.f0 /\ t.resets = s.resets /\ AtReset(q, u, s.resets)
        /\ Core1(s.ch, q, s.got, s.irq, ps, s.resets = 0)
    BY DEF Moved1, Pumped1
  <1>3. /\ z \in Rec1 /\ z.got = t.got
        /\ IF t.ch.left + t.ch.pad > 0 \/ ~t.ch.end THEN z = t
           ELSE /\ z.irq = t.irq + 1 /\ z.ch.left = 0 /\ z.ch.pad = 0
                /\ ~z.ch.end /\ ~z.ch.busy
                /\ IF t.ch.cmd = "reset"
                   THEN /\ z.f0 = <<>> /\ z.f1 = <<>> /\ z.resets = t.resets + 1
                   ELSE /\ z.f0 = t.f0 /\ z.f1 = t.f1 /\ z.resets = t.resets
    BY <1>2, FinishIs
  <1>4. /\ t.ch \in Chan1 /\ t.ch.left \in Nat /\ t.ch.pad \in Nat /\ z.ch \in Chan1 /\ t.irq \in Nat
        /\ s.f1 \in Seq(SifWord) /\ t.f1 \in Seq(SifWord) /\ s.resets \in Nat /\ z.irq \in Nat
    BY <1>2, <1>3 DEF Rec1, Chan1
  <1>5. q \in Seq(SifWord) /\ Laid(q, ps) /\ Laid(r, ps)
    BY <1>1, <1>2 DEF Core1, Laid
  <1> HIDE DEF z, q, r
  <1>6. CASE t.ch.left + t.ch.pad > 0 \/ ~t.ch.end
    <2>1. z = t
      BY <1>3, <1>6
    <2>2. Settled(t.ch)
      BY <1>4, <1>6 DEF Settled
    <2>3. Pumped1(t, u, ps)
      BY <1>1, <1>2, <2>2 DEF Pumped1, r
    <2>4. Flushed(s, t)
      BY <1>2 DEF Flushed
    <2> QED
      BY <1>1, <2>1, <2>3, <2>4 DEF z
  <1>7. CASE ~(t.ch.left + t.ch.pad > 0 \/ ~t.ch.end)
    <2>1. t.ch.left = 0 /\ t.ch.pad = 0 /\ t.ch.end /\ t.ch.left + t.ch.pad = 0
      <3> DEFINE a == t.ch.left  b == t.ch.pad
      <3> HIDE DEF a, b
      <3>1. a \in Nat /\ b \in Nat /\ ~(a + b > 0) /\ t.ch.end
        BY <1>4, <1>7 DEF a, b
      <3>2. a = 0 /\ b = 0 /\ a + b = 0
        BY <3>1
      <3> QED
        BY <3>1, <3>2 DEF a, b
    <2>2. /\ z.irq = t.irq + 1 /\ z.ch.left = 0 /\ z.ch.pad = 0 /\ ~z.ch.end /\ ~z.ch.busy
      BY <1>3, <1>7
    <2>3. z.irq + Pending1(z.ch) = Cardinality(LandedEnds(ps, z.got))
      <3>1. Pending1(t.ch) = 1 /\ Pending1(z.ch) = 0
        BY <2>1, <2>2 DEF Pending1
      <3>2. t.irq + Pending1(t.ch) = Cardinality(LandedEnds(ps, t.got))
        BY <1>1 DEF Core1
      <3> DEFINE c == Cardinality(LandedEnds(ps, t.got))
      <3> HIDE DEF c
      <3>3. t.irq + 1 = c
        BY <3>1, <3>2 DEF c
      <3>4. z.irq + 0 = c
        BY <1>4, <2>2, <3>3
      <3> QED
        BY <1>3, <3>1, <3>4 DEF c
    <2>4. z.ch.left + z.ch.pad = 0 /\ ~(z.ch.left + z.ch.pad > 0) /\ Settled(z.ch)
      BY <2>2 DEF Settled
    <2>5. r # <<>> => r[1].i = 0
      BY <1>1, <2>1 DEF Core1, Stands1
    <2>6. CASE t.ch.cmd # "reset"
      <3>1. z.f0 = t.f0 /\ z.f1 = t.f1 /\ z.resets = t.resets
        BY <1>3, <1>7, <2>6
      <3>2. Stands1(z.ch, r)
        BY <2>4, <2>5 DEF Stands1
      <3>3. Core1(z.ch, r, z.got, z.irq, ps, z.resets = 0)
        BY <1>1, <1>3, <1>4, <2>3, <3>1, <3>2 DEF Core1
      <3>4. Pumped1(z, u, ps)
        BY <1>1, <1>3, <2>4, <3>1, <3>3 DEF Pumped1, r
      <3>5. Flushed(s, z)
        BY <1>2, <3>1 DEF Flushed
      <3>6. \A n, M : NewerAfter(s, u, n, M) => NewerAfter(z, u, n, M)
        BY <1>1, <1>3, <3>1 DEF NewerAfter
      <3> QED
        BY <1>1, <3>1, <3>4, <3>5, <3>6 DEF z
    <2>7. CASE t.ch.cmd = "reset"
      <3>1. z.f0 = <<>> /\ z.f1 = <<>> /\ z.resets = t.resets + 1
        BY <1>3, <1>7, <2>7
      <3>2. s.resets = 0 /\ (u = <<>> \/ u[1].i = 0)
        <4>1. Len(q) # 0 /\ 1 \in 1 .. Len(q) /\ q[1].p.cmd = "reset"
          <5>1. Len(q) = Len(s.f1) + Len(u) /\ Len(s.f1) \in Nat /\ Len(u) \in Nat /\ Len(t.f1) \in Nat
            BY <1>4, ConcatProperties DEF q
          <5>2. Len(s.f1) > 0
            BY <1>1, <5>1
          <5> QED
            BY <1>1, <2>7, <5>1, <5>2
        <4> QED
          BY <1>2, <4>1 DEF AtReset
      <3>3. \A i \in 1 .. Len(u) : u[i].p.cmd # "reset"
        BY <1>1, <1>4, <1>5, <2>7, <3>2, NoResetLeft DEF q
      <3>4. Laid(u, ps) /\ Taken(t.got, u, ps, FALSE)
        <4>1. Taken(t.got, r, ps, t.resets = 0)
          BY <1>1 DEF Core1
        <4>2. CASE t.f1 # <<>>
          BY <1>4, <1>5, <4>1, <4>2, Flushing DEF r
        <4>3. CASE t.f1 = <<>>
          <5>1. r = u
            BY <4>3, ConcatEmptySeq DEF r
          <5> QED
            BY <1>5, <4>1, <5>1 DEF Taken
        <4> QED
          BY <4>2, <4>3
      <3>5. <<>> \o u = u
        BY ConcatEmptySeq
      <3>6. (z.resets = 0) = FALSE
        BY <1>2, <3>1, <3>2
      <3>7. Stands1(z.ch, u)
        BY <2>4, <3>2 DEF Stands1
      <3>8. Core1(z.ch, u, z.got, z.irq, ps, FALSE)
        BY <1>3, <1>4, <2>3, <3>4, <3>7 DEF Core1
      <3>9. AtReset(u, u, z.resets)
        BY <3>3 DEF AtReset
      <3>10. Pumped1(z, u, ps)
        BY <1>3, <2>4, <3>1, <3>5, <3>6, <3>8, <3>9 DEF Pumped1
      <3>11. Flushed(s, z)
        BY <1>2, <3>1, <3>2 DEF Flushed
      <3>12. ASSUME NEW n, NEW M, NewerAfter(s, u, n, M) PROVE NewerAfter(z, u, n, M)
        <4>1. NewSince(z.got, n, M) /\ Newer(q, M)
          BY <1>1, <1>3, <3>12 DEF NewerAfter, q
        <4>2. ASSUME NEW i \in 1 .. Len(u) PROVE u[i].p.no > M
          <5> DEFINE l == Len(s.f1)
          <5>1. Len(q) = l + Len(u) /\ \A j \in l + 1 .. l + Len(u) : q[j] = u[j - l]
            BY <1>4, ConcatProperties DEF q
          <5>2. l \in Nat /\ Len(u) \in Nat
            BY <1>4
          <5> HIDE DEF l
          <5>3. l + i \in l + 1 .. l + Len(u) /\ (l + i) - l = i /\ l + i \in 1 .. Len(q)
            BY <5>1, <5>2
          <5>4. q[l + i] = u[i]
            BY <5>1, <5>3
          <5> QED
            BY <4>1, <5>3, <5>4 DEF Newer
        <4> QED
          BY <3>1, <3>5, <4>1, <4>2 DEF NewerAfter, Newer
      <3>13. Len(z.f1) < Len(s.f1)
        <4>1. Len(z.f1) = 0 /\ Len(t.f1) \in Nat /\ Len(s.f1) \in Nat
          BY <1>4, <3>1
        <4> QED
          BY <1>1, <4>1
      <3> QED
        BY <3>10, <3>11, <3>12, <3>13 DEF z
    <2> QED
      BY <2>6, <2>7
  <1> QED
    BY <1>6, <1>7

LEMMA AtMostIs ==
    ASSUME NEW a \in Nat \ {0}, NEW b \in Nat \ {0}
    PROVE  AtMost(a, b) \in Nat \ {0} /\ AtMost(a, b) =< a /\ AtMost(a, b) =< b
  BY DEF AtMost

LEMMA TagTurn ==
    ASSUME NEW ps, Numbered(ps), NEW u \in Seq(SifWord), NEW s, Pumped1(s, u, ps),
           s.ch.left + s.ch.pad = 0, 4 =< Len(s.f1)
    PROVE  /\ Finish(ReadTag(s)) = ReadTag(s)
           /\ Pumped1(ReadTag(s), u, ps) /\ Flushed(s, ReadTag(s))
           /\ \A n, M : NewerAfter(s, u, n, M) => NewerAfter(ReadTag(s), u, n, M)
           /\ Len(ReadTag(s).f1) < Len(s.f1)
  <1> DEFINE q == s.f1 \o u  w == s.f1[1]  t == ReadTag(s)
             dh == [busy |-> TRUE, left |-> w.p.n, pad |-> Pad4(w.p.n), end |-> w.p.end, cmd |-> w.p.cmd]
  <1>1. /\ s \in Rec1 /\ s.f1 \in Seq(SifWord) /\ s.got \in Seq(SifWord) /\ Core1(s.ch, q, s.got, s.irq, ps, s.resets = 0)
        /\ ~s.ch.end /\ AtReset(q, u, s.resets)
    BY DEF Pumped1, Rec1, Settled
  <1>2. Len(s.f1) \in Nat /\ 4 \in 0 .. Len(s.f1) /\ 1 \in 1 .. Len(s.f1)
    BY <1>1
  <1>3. w \in SifWord
    BY <1>1, <1>2
  <1>4. w.p \in SifPacket /\ w.p.n \in Nat \ {0}
    BY <1>3 DEF SifWord, SifPacket
  <1>5. q \in Seq(SifWord) /\ Len(q) = Len(s.f1) + Len(u) /\ q[1] = w /\ q # <<>> /\ 4 \in 0 .. Len(q)
    <2>1. q \in Seq(SifWord) /\ Len(q) = Len(s.f1) + Len(u) /\ q[1] = w
      BY <1>1, <1>2, ConcatProperties
    <2> HIDE DEF q, w
    <2>2. Len(u) \in Nat /\ Len(q) # 0
      BY <1>2, <2>1
    <2>3. q # <<>> /\ 4 \in 0 .. Len(q)
      BY <1>2, <2>1, <2>2
    <2> QED
      BY <2>1, <2>3
  <1>6. /\ t \in Rec1 /\ t.f0 = s.f0 /\ t.f1 = Drop(s.f1, 4) /\ t.ch = dh
        /\ t.irq = s.irq /\ t.got = s.got /\ t.resets = s.resets
    BY <1>1, <1>4, ReadTagIs
  <1>7. t.f1 \o u = Drop(q, 4)
    <2>1. Drop(s.f1, 4) \o u = Drop(q, 4)
      BY <1>1, <1>2, DropOfConcat
    <2> QED
      BY <1>6, <2>1
  <1>8. dh = [busy |-> TRUE, left |-> q[1].p.n, pad |-> Pad4(q[1].p.n), end |-> q[1].p.end, cmd |-> q[1].p.cmd]
    BY <1>5
  <1>9. dh.left = w.p.n /\ dh.pad = Pad4(w.p.n)
    OBVIOUS
  <1> HIDE DEF q, w, t, dh
  <1>10. Core1(dh, Drop(q, 4), s.got, s.irq, ps, s.resets = 0)
    <2> DEFINE ch == s.ch  g == s.got  i == s.irq  wh == (s.resets = 0)
    <2>1. /\ Core1(ch, q, g, i, ps, wh) /\ ch.left + ch.pad = 0 /\ ~ch.end
      BY <1>1
    <2> HIDE DEF ch, g, i, wh
    <2>2. Core1(dh, Drop(q, 4), g, i, ps, wh)
      BY <1>5, <1>8, <2>1, TagCore
    <2> QED
      BY <2>2 DEF g, i, wh
  <1>11. dh.left + dh.pad > 0
    <2>1. dh.left \in Nat \ {0} /\ dh.pad \in Nat
      BY <1>4, <1>9, FrameFacts
    <2> QED
      BY <2>1
  <1>12. Finish(t) = t /\ Settled(dh)
    <2>1. dh.left + dh.pad # 0
      BY <1>10, <1>11 DEF Core1, Chan1
    <2> QED
      BY <1>6, <1>11, <2>1 DEF Finish, Settled
  <1>13. AtReset(Drop(q, 4), u, s.resets)
    BY <1>1, <1>5, AtResetDrop
  <1>14. Pumped1(t, u, ps)
    BY <1>6, <1>7, <1>10, <1>12, <1>13 DEF Pumped1
  <1>15. ASSUME NEW n, NEW M, NewerAfter(s, u, n, M) PROVE NewerAfter(t, u, n, M)
    <2>1. Newer(q, M) /\ NewSince(s.got, n, M)
      BY <1>15 DEF NewerAfter, q
    <2>2. Newer(Drop(q, 4), M)
      BY <1>5, <2>1, NewerDrop
    <2> QED
      BY <1>6, <1>7, <2>1, <2>2 DEF NewerAfter
  <1>16. Len(t.f1) < Len(s.f1)
    <2> DEFINE f == s.f1
    <2>1. Len(Drop(f, 4)) = Len(f) - 4
      <3>1. f \in Seq(SifWord) /\ 4 \in 0 .. Len(f)
        BY <1>1, <1>2
      <3> HIDE DEF f
      <3> QED
        BY <3>1, DropIs
    <2> QED
      BY <1>2, <1>6, <2>1
  <1>17. Flushed(s, t)
    BY <1>6 DEF Flushed
  <1> QED
    BY <1>12, <1>14, <1>15, <1>16, <1>17 DEF t

\* A turn keeps the channel where it is on the stream and takes something off it.
LEMMA TurnKeeps1 ==
    ASSUME NEW ps, Numbered(ps), ResetAlone(ps), NEW u \in Seq(SifWord), NEW s, Pumped1(s, u, ps)
    PROVE  /\ Pumped1(Turn1(s), u, ps) /\ Flushed(s, Turn1(s))
           /\ \A n, M : NewerAfter(s, u, n, M) => NewerAfter(Turn1(s), u, n, M)
           /\ IF Rests1(s) THEN Turn1(s) = s ELSE Len(Turn1(s).f1) < Len(s.f1)
  <1> DEFINE l == s.ch.left  p == s.ch.pad
  <1>1. s \in Rec1 /\ l \in Nat /\ p \in Nat /\ s.ch.busy \in BOOLEAN /\ s.f1 \in Seq(SifWord) /\ Len(s.f1) \in Nat
    BY DEF Pumped1, Rec1, Chan1
  <1>2. CASE Rests1(s)
    <2>1. Turn1(s) = s
      BY <1>2 DEF Turn1
    <2>2. Flushed(s, s)
      BY DEF Flushed
    <2> QED
      BY <1>2, <2>1, <2>2
  <1>3. CASE ~Rests1(s) /\ l + p = 0
    <2>1. Turn1(s) = Finish(ReadTag(s))
      BY <1>3 DEF Turn1
    <2>2. 4 =< Len(s.f1)
      <3>1. ~(Len(s.f1) < 4)
        BY <1>3 DEF Rests1
      <3> QED
        BY <1>1, <3>1
    <2>3. s.ch.left + s.ch.pad = 0
      BY <1>3
    <2> HIDE DEF l, p
    <2> QED
      BY <1>3, <2>1, <2>2, <2>3, TagTurn
  <1>4. CASE ~Rests1(s) /\ l + p # 0
    <2>1. s.f1 # <<>>
      BY <1>4 DEF Rests1
    <2>2. Len(s.f1) \in Nat \ {0}
      BY <1>1, <2>1, EmptySeq
    <2>3. s.ch.left + s.ch.pad > 0
      <3> HIDE DEF l, p
      <3>1. l + p > 0
        BY <1>1, <1>4
      <3> QED
        BY <3>1 DEF l, p
    <2> DEFINE L == Len(s.f1)
    <2>4. \E t, k : Moved1(s, t, k) /\ Turn1(s) = Finish(t)
      <3>1. CASE l > 0
        <4> DEFINE k == AtMost(l, L)  t == Land(s, k)
        <4>1. k \in Nat \ {0} /\ k =< l /\ k =< L
          <5>1. l \in Nat \ {0} /\ L \in Nat \ {0}
            BY <1>1, <2>2, <3>1
          <5> HIDE DEF l, L
          <5> QED
            BY <5>1, AtMostIs
        <4>2. Turn1(s) = Finish(t)
          BY <1>4, <3>1 DEF Turn1
        <4> HIDE DEF k
        <4>3. /\ t \in Rec1 /\ t.f0 = s.f0 /\ t.f1 = Drop(s.f1, k)
              /\ t.ch.left = s.ch.left - k /\ t.ch.pad = s.ch.pad
              /\ t.ch.busy = s.ch.busy /\ t.ch.end = s.ch.end /\ t.ch.cmd = s.ch.cmd
              /\ t.irq = s.irq /\ t.got = s.got \o Take(s.f1, k) /\ t.resets = s.resets
          BY <1>1, <4>1, LandIs
        <4> HIDE DEF t
        <4>4. Moved1(s, t, k)
          BY <3>1, <4>1, <4>3 DEF Moved1
        <4> QED
          BY <4>2, <4>4
      <3>2. CASE ~(l > 0)
        <4> DEFINE k == AtMost(p, L)  t == SkipPad(s, k)
        <4>0. l = 0 /\ p \in Nat \ {0}
          <5> HIDE DEF l, p
          <5> QED
            BY <1>1, <1>4, <3>2
        <4>1. k \in Nat \ {0} /\ k =< p /\ k =< L
          <5>1. p \in Nat \ {0} /\ L \in Nat \ {0}
            BY <2>2, <4>0
          <5> HIDE DEF p, L
          <5> QED
            BY <5>1, AtMostIs
        <4>2. Turn1(s) = Finish(t)
          BY <1>4, <3>2 DEF Turn1
        <4> HIDE DEF k
        <4>3. /\ t \in Rec1 /\ t.f0 = s.f0 /\ t.f1 = Drop(s.f1, k)
              /\ t.ch.left = s.ch.left /\ t.ch.pad = s.ch.pad - k
              /\ t.ch.busy = s.ch.busy /\ t.ch.end = s.ch.end /\ t.ch.cmd = s.ch.cmd
              /\ t.irq = s.irq /\ t.got = s.got /\ t.resets = s.resets
          BY <1>1, <4>1, SkipPadIs
        <4> HIDE DEF t
        <4>4. Moved1(s, t, k)
          BY <4>0, <4>1, <4>3 DEF Moved1
        <4> QED
          BY <4>2, <4>4
      <3> QED
        BY <3>1, <3>2
    <2>5. PICK t, k : Moved1(s, t, k) /\ Turn1(s) = Finish(t)
      BY <2>4
    <2> QED
      BY <1>4, <2>3, <2>5, FinishKeeps
  <1> QED
    BY <1>2, <1>3, <1>4

(***************************************************************************)
(* All the turns of the receiver.                                          *)
(***************************************************************************)
Turns1(s) ==
    LET t[n \in 0 .. Len(s.f1)] == IF n = 0 THEN s ELSE Turn1(t[n - 1])
    IN t
LEMMA Turns1Are ==
    ASSUME NEW s, Len(s.f1) \in Nat
    PROVE  /\ Turns1(s) = [n \in 0 .. Len(s.f1) |-> IF n = 0 THEN s ELSE Turn1(Turns1(s)[n - 1])]
           /\ PumpSif1Iop(s) = Turns1(s)[Len(s.f1)]
  <1> DEFINE G(n, g) == g = [k \in 0 .. n |-> IF k = 0 THEN s ELSE Turn1(g[k - 1])]
             S == { n \in Nat : \E g : G(n, g) }
  <1>1. 0 \in S
    <2>1. G(0, [k \in 0 .. 0 |-> s])
      OBVIOUS
    <2> QED
      BY <2>1
  <1>2. ASSUME NEW n \in S PROVE n + 1 \in S
    <2>1. PICK g : G(n, g)
      OBVIOUS
    <2> DEFINE h == [k \in 0 .. n + 1 |-> IF k <= n THEN g[k] ELSE Turn1(g[n])]
    <2>2. \A k \in 0 .. n + 1 : h[k] = IF k = 0 THEN s ELSE Turn1(h[k - 1])
      BY <2>1
    <2>3. G(n + 1, h)
      BY <2>2
    <2>4. n + 1 \in Nat /\ \E f : G(n + 1, f)
      <3> HIDE DEF h, G
      <3> QED
        BY <2>3
    <2> QED
      BY <2>4
  <1>3. S = Nat
    <2> HIDE DEF S
    <2> QED
      BY <1>1, <1>2, Induction, S \subseteq Nat DEF S
  <1>4. \E g : G(Len(s.f1), g)
    BY <1>3
  <1>5. PumpSif1Iop(s) = Turns1(s)[Len(s.f1)]
    BY DEF PumpSif1Iop, Turns1
  <1> QED
    BY <1>4, <1>5 DEF Turns1

LEMMA Pumping1 ==
    ASSUME NEW ps, Numbered(ps), ResetAlone(ps), NEW u \in Seq(SifWord), NEW s, Pumped1(s, u, ps)
    PROVE  /\ Pumped1(PumpSif1Iop(s), u, ps) /\ Rests1(PumpSif1Iop(s)) /\ Flushed(s, PumpSif1Iop(s))
           /\ \A n, M : NewerAfter(s, u, n, M) => NewerAfter(PumpSif1Iop(s), u, n, M)
  <1> DEFINE N == Len(s.f1)  f == Turns1(s)
             J(n) == /\ Pumped1(f[n], u, ps) /\ Flushed(s, f[n])
                     /\ \A m, M : NewerAfter(s, u, m, M) => NewerAfter(f[n], u, m, M)
                     /\ Rests1(f[n]) \/ Len(f[n].f1) + n =< N
             S == { n \in Nat : n =< N => J(n) }
  <1>1. N \in Nat
    BY DEF Pumped1, Rec1
  <1>2. /\ \A n \in 0 .. N : f[n] = IF n = 0 THEN s ELSE Turn1(f[n - 1])
        /\ PumpSif1Iop(s) = f[N]
    <2>1. f = [n \in 0 .. N |-> IF n = 0 THEN s ELSE Turn1(f[n - 1])] /\ PumpSif1Iop(s) = f[N]
      BY <1>1, Turns1Are
    <2> HIDE DEF f, N
    <2> QED
      BY <2>1
  <1>3. f[0] = s
    <2> HIDE DEF f, N
    <2> QED
      BY <1>1, <1>2
  <1>4. 0 \in S
    <2>1. Flushed(s, s) /\ Len(s.f1) + 0 =< N
      BY <1>1 DEF Flushed
    <2>2. J(0)
      BY <1>3, <2>1
    <2> QED
      BY <2>2
  <1>5. ASSUME NEW n \in S PROVE n + 1 \in S
    <2> SUFFICES ASSUME n + 1 =< N PROVE J(n + 1)
      <3>1. n + 1 \in Nat
        OBVIOUS
      <3> HIDE DEF J, N
      <3> QED
        BY <3>1
    <2> DEFINE t == f[n]  z == f[n + 1]
    <2>1. n \in Nat /\ J(n) /\ n + 1 \in 0 .. N /\ (n + 1) - 1 = n /\ n + 1 # 0
      <3> HIDE DEF J
      <3> QED
        BY <1>1
    <2>2. z = Turn1(t)
      <3> HIDE DEF f, N, J
      <3> QED
        BY <1>2, <2>1
    <2>3. /\ Pumped1(t, u, ps) /\ Flushed(s, t)
          /\ \A m, M : NewerAfter(s, u, m, M) => NewerAfter(t, u, m, M)
          /\ Rests1(t) \/ Len(t.f1) + n =< N
      BY <2>1
    <2> HIDE DEF t, z, f, N
    <2>4. /\ Pumped1(z, u, ps) /\ Flushed(t, z)
          /\ \A m, M : NewerAfter(t, u, m, M) => NewerAfter(z, u, m, M)
          /\ IF Rests1(t) THEN z = t ELSE Len(z.f1) < Len(t.f1)
      BY <2>2, <2>3, TurnKeeps1
    <2>5. Flushed(s, z) /\ (Rests1(z) \/ Len(z.f1) + (n + 1) =< N)
      <3>1. CASE Rests1(t)
        BY <2>3, <2>4, <3>1
      <3>2. CASE ~Rests1(t)
        <4>1. t.f1 # <<>>
          <5>1. t.f1 = <<>> => Len(t.f1) = 0 /\ 0 < 4
            OBVIOUS
          <5> QED
            BY <3>2, <5>1 DEF Rests1
        <4>2. Flushed(s, z)
          BY <2>3, <2>4, <4>1 DEF Flushed
        <4>3. Len(z.f1) \in Nat /\ Len(t.f1) \in Nat
          <5>1. z.f1 \in Seq(SifWord) /\ t.f1 \in Seq(SifWord)
            BY <2>3, <2>4 DEF Pumped1, Rec1
          <5> QED
            BY <5>1
        <4>4. Len(z.f1) + (n + 1) =< N
          <5> DEFINE a == Len(z.f1)  b == Len(t.f1)
          <5>1. a \in Nat /\ b \in Nat /\ a < b /\ b + n =< N /\ n \in Nat
            BY <2>1, <2>3, <2>4, <3>2, <4>3
          <5> HIDE DEF a, b
          <5>2. a + (n + 1) =< N
            BY <1>1, <5>1
          <5> QED
            BY <5>2 DEF a
        <4> QED
          BY <4>2, <4>4
      <3> QED
        BY <3>1, <3>2
    <2> QED
      BY <2>3, <2>4, <2>5 DEF z, t
  <1>6. S = Nat
    <2> HIDE DEF S
    <2> QED
      BY <1>4, <1>5, Induction, S \subseteq Nat DEF S
  <1>7. J(N)
    <2>1. N \in S
      BY <1>1, <1>6
    <2> HIDE DEF J
    <2> QED
      BY <1>1, <2>1
  <1>8. Rests1(f[N])
    <2>1. Rests1(f[N]) \/ Len(f[N].f1) + N =< N
      BY <1>7
    <2>2. CASE Len(f[N].f1) + N =< N
      <3>1. f[N].f1 \in Seq(SifWord)
        BY <1>7 DEF Pumped1, Rec1
      <3> DEFINE g == f[N].f1
      <3>2. Len(g) \in Nat /\ g \in Seq(SifWord)
        BY <3>1
      <3>3. Len(g) + N =< N
        BY <2>2
      <3> HIDE DEF g, N
      <3>4. Len(g) = 0
        BY <1>1, <3>2, <3>3
      <3>5. g = <<>> /\ Len(g) < 4
        BY <3>2, <3>4, EmptySeq
      <3> QED
        BY <3>5 DEF g, Rests1
    <2> QED
      BY <2>1, <2>2
  <1> QED
    BY <1>2, <1>7, <1>8

(***************************************************************************)
(* The EE's receiver.                                                      *)
(***************************************************************************)
Chan0 == [str : BOOLEAN, qwc : Nat, tag_end : BOOLEAN]
Rec0 == [f0 : Seq(SifWord), ch : Chan0, irq : Nat, got : Seq(SifWord)]
Stands0(ch, q) ==
    /\ ch.qwc = 0 /\ q # <<>> => q[1].i = 0
    /\ ch.qwc > 0 => /\ q # <<>> /\ q[1].i >= 4
                     /\ q[1].i + 4 * ch.qwc = FrameLen(q[1].p)
                     /\ ch.tag_end = q[1].p.end
    /\ ~ch.str => ch.qwc = 0 /\ ~ch.tag_end
Pending0(ch) == IF ch.qwc = 0 /\ ch.tag_end THEN 1 ELSE 0
Pumped0(s, ps, whole) ==
    /\ s \in Rec0
    /\ Laid(s.f0, ps) /\ Stands0(s.ch, s.f0) /\ Taken(s.got, s.f0, ps, whole)
    /\ s.irq + Pending0(s.ch) = Cardinality(LandedEnds(ps, s.got))
NewerAfter0(s, n, M) == Newer(s.f0, M) /\ NewSince(s.got, n, M)

LEMMA EndKeeps ==
    ASSUME NEW ps, NEW whole, NEW s, Pumped0(s, ps, whole), Ends0(s)
    PROVE  /\ Pumped0(EndChain(s), ps, whole)
           /\ EndChain(s).f0 = s.f0 /\ EndChain(s).got = s.got /\ ~EndChain(s).ch.str
  <1> DEFINE c == [s.ch EXCEPT !.str = FALSE, !.tag_end = FALSE]  i == s.irq + 1  t == EndChain(s)
  <1>1. s \in Rec0 /\ s.ch \in Chan0 /\ s.irq \in Nat /\ s.ch.qwc = 0 /\ s.ch.tag_end
    BY DEF Pumped0, Rec0, Ends0
  <1>2. c \in Chan0 /\ c.str = FALSE /\ c.qwc = 0 /\ c.tag_end = FALSE /\ i \in Nat
    <2>1. c \in Chan0 /\ c.str = FALSE /\ c.qwc = s.ch.qwc /\ c.tag_end = FALSE
      BY <1>1 DEF Chan0
    <2>2. i \in Nat
      BY <1>1
    <2> QED
      BY <1>1, <2>1, <2>2
  <1>3. t = [s EXCEPT !.ch = c, !.irq = i]
    BY <1>1 DEF EndChain, Rec0
  <1> HIDE DEF c, i
  <1>4. t \in Rec0 /\ t.f0 = s.f0 /\ t.ch = c /\ t.irq = i /\ t.got = s.got
    BY <1>1, <1>2, <1>3 DEF Rec0
  <1> HIDE DEF t
  <1>5. Stands0(t.ch, t.f0)
    <2>1. s.f0 # <<>> => s.f0[1].i = 0
      BY <1>1 DEF Pumped0, Stands0
    <2> QED
      BY <1>2, <1>4, <2>1 DEF Stands0
  <1>6. t.irq + Pending0(t.ch) = Cardinality(LandedEnds(ps, t.got))
    <2>1. Pending0(s.ch) = 1 /\ Pending0(t.ch) = 0
      BY <1>1, <1>2, <1>4 DEF Pending0
    <2>2. s.irq + Pending0(s.ch) = Cardinality(LandedEnds(ps, s.got))
      BY DEF Pumped0
    <2> DEFINE k == Cardinality(LandedEnds(ps, s.got))  j == s.irq
    <2> HIDE DEF k, j
    <2>3. j + 1 = k /\ j \in Nat /\ t.irq = j + 1
      BY <1>1, <1>4, <2>1, <2>2 DEF k, j, i
    <2>4. t.irq + 0 = k
      BY <2>3
    <2> QED
      BY <1>4, <2>1, <2>4 DEF k
  <1>7. Pumped0(t, ps, whole)
    BY <1>4, <1>5, <1>6 DEF Pumped0
  <1> QED
    BY <1>2, <1>4, <1>7 DEF t

\* A quadword comes off the stream: the tag of a packet, or its data.
Moved0(s, t, d) ==
    /\ t \in Rec0 /\ t.f0 = Drop(s.f0, 4) /\ t.got = s.got \o Take(s.f0, d) /\ t.irq = s.irq
    /\ t.ch.str = s.ch.str
    /\ Lands(s.f0, 4, d)

LEMMA MovedKeeps ==
    ASSUME NEW ps, Numbered(ps), NEW whole, NEW s, Pumped0(s, ps, whole), 4 =< Len(s.f0),
           NEW t, NEW d, Moved0(s, t, d)
    PROVE  /\ Laid(t.f0, ps) /\ Taken(t.got, t.f0, ps, whole)
           /\ Cardinality(LandedEnds(ps, t.got))
                = Cardinality(LandedEnds(ps, s.got)) + (IF Reaches(s.f0[1], d) THEN 1 ELSE 0)
           /\ \A n, M : NewerAfter0(s, n, M) => NewerAfter0(t, n, M)
           /\ Len(t.f0) < Len(s.f0)
  <1> DEFINE q == s.f0  g == s.got
  <1>1. q \in Seq(SifWord) /\ g \in Seq(SifWord) /\ Laid(q, ps) /\ Taken(g, q, ps, whole)
    BY DEF Pumped0, Rec0
  <1>2. 4 =< Len(q) /\ Lands(q, 4, d)
    BY DEF Moved0
  <1>3. t.f0 = Drop(q, 4) /\ t.got = g \o Take(q, d)
    BY DEF Moved0
  <1> HIDE DEF q, g
  <1>4. 4 \in 0 .. Len(q) /\ q # <<>> /\ Len(q) \in Nat
    BY <1>1, <1>2
  <1>5. Laid(Drop(q, 4), ps) /\ Taken(g \o Take(q, d), Drop(q, 4), ps, whole)
    BY <1>1, <1>2, <1>4, LaidDrop, LandedTaken
  <1>6. Cardinality(LandedEnds(ps, g \o Take(q, d)))
          = Cardinality(LandedEnds(ps, g)) + (IF Reaches(q[1], d) THEN 1 ELSE 0)
    BY <1>1, <1>2, <1>4, LandedEndsAre
  <1>7. ASSUME NEW n, NEW M, Newer(q, M), NewSince(g, n, M)
        PROVE  Newer(Drop(q, 4), M) /\ NewSince(g \o Take(q, d), n, M)
    BY <1>1, <1>2, <1>4, <1>7, NewerDrop, NewJoined
  <1>8. \A n, M : NewerAfter0(s, n, M) => NewerAfter0(t, n, M)
    BY <1>3, <1>7 DEF NewerAfter0, q, g
  <1>9. Len(Drop(q, 4)) = Len(q) - 4
    BY <1>1, <1>4, DropIs
  <1>10. Len(t.f0) < Len(q)
    BY <1>3, <1>4, <1>9
  <1> QED
    BY <1>3, <1>5, <1>6, <1>8, <1>10 DEF q, g

LEMMA DestTagKeeps ==
    ASSUME NEW ps, Numbered(ps), NEW whole, NEW s, Pumped0(s, ps, whole), 4 =< Len(s.f0),
           s.ch.qwc = 0, ~s.ch.tag_end, s.ch.str
    PROVE  Moved0(s, ReadDestTag(s), 0) /\ Pumped0(ReadDestTag(s), ps, whole)
  <1> DEFINE q == s.f0  w == q[1]  r == Drop(q, 4)  t == ReadDestTag(s)
             c == [s.ch EXCEPT !.qwc = Quads(w.p.n), !.tag_end = w.p.end]
  <1>1. s \in Rec0 /\ q \in Seq(SifWord) /\ s.got \in Seq(SifWord) /\ s.ch \in Chan0 /\ s.irq \in Nat /\ Laid(q, ps)
    BY DEF Pumped0, Rec0
  <1>2. 4 \in 0 .. Len(q) /\ 1 \in 1 .. Len(q) /\ q # <<>>
    BY <1>1
  <1>3. w \in SifWord /\ w.i = 0
    BY <1>1, <1>2 DEF Pumped0, Stands0
  <1>4. /\ w.p \in SifPacket /\ Quads(w.p.n) \in Nat \ {0} /\ FrameLen(w.p) = 4 + 4 * Quads(w.p.n)
        /\ w.p.end \in BOOLEAN /\ w.p.n \in Nat \ {0} /\ FrameLen(w.p) \in Nat
    <2>1. w.p \in SifPacket
      BY <1>3 DEF SifWord
    <2> QED
      BY <2>1, FrameFacts
  <1>5. r \in Seq(SifWord)
    BY <1>1, <1>2, DropIs
  <1>6. /\ c \in Chan0 /\ c.str = s.ch.str /\ c.qwc = Quads(w.p.n) /\ c.tag_end = w.p.end
    BY <1>1, <1>4 DEF Chan0
  <1>7. t = [s EXCEPT !.f0 = r, !.ch = c]
    BY <1>1 DEF ReadDestTag, Rec0
  <1> HIDE DEF r, c
  <1>8. t \in Rec0 /\ t.f0 = r /\ t.ch = c /\ t.irq = s.irq /\ t.got = s.got
    BY <1>1, <1>5, <1>6, <1>7 DEF Rec0
  <1> HIDE DEF t, w
  <1> DEFINE F == FrameLen(w.p)  Q == Quads(w.p.n)  a == w.i
  <1>9. F \in Nat /\ Q \in Nat \ {0} /\ F = 4 + 4 * Q /\ a = 0
    BY <1>3, <1>4
  <1> HIDE DEF F, Q, a
  <1>10. a + 4 < F /\ a + 4 =< F /\ a + 4 = 4
    BY <1>9
  <1>11. Lands(q, 4, 0)
    <2>1. \A x \in 0 .. 4 - 1 : x < 0 <=> w.i + x >= 4 /\ w.i + x < 4 + w.p.n
      BY <1>3
    <2> QED
      BY <1>10, <2>1 DEF Lands, w, a, F
  <1>12. t.got = s.got \o Take(q, 0)
    BY <1>1, <1>8, TakeNone
  <1>13. Moved0(s, t, 0)
    BY <1>6, <1>8, <1>11, <1>12 DEF Moved0, r
  <1>14. /\ Laid(t.f0, ps) /\ Taken(t.got, t.f0, ps, whole)
    BY <1>13, MovedKeeps
  <1>15. r # <<>> /\ r[1] = Word(w.p, w.i + 4)
    <2> HIDE DEF q
    <2>1. q # <<>> /\ Laid(q, ps) /\ 4 \in Nat /\ q[1].i + 4 =< FrameLen(q[1].p) /\ q[1].i + 4 < FrameLen(q[1].p)
      BY <1>1, <1>2, <1>10 DEF w, a, F
    <2>2. Drop(q, 4) # <<>> /\ Drop(q, 4)[1] = Word(q[1].p, q[1].i + 4)
      BY <2>1, Onward
    <2> QED
      BY <2>2 DEF r, w
  <1>16. r[1].p = w.p /\ r[1].i = 4
    BY <1>10, <1>15 DEF Word, a
  <1>17. Stands0(c, r)
    <2>1. 4 + 4 * c.qwc = F /\ c.qwc > 0 /\ c.qwc # 0
      BY <1>6, <1>9 DEF Q
    <2> QED
      BY <1>6, <1>15, <1>16, <2>1 DEF Stands0, F
  <1>18. t.irq + Pending0(t.ch) = Cardinality(LandedEnds(ps, t.got))
    <2>1. Pending0(s.ch) = 0 /\ Pending0(c) = 0
      BY <1>6, <1>9 DEF Pending0, Q
    <2> QED
      BY <1>8, <2>1 DEF Pumped0
  <1>19. Pumped0(t, ps, whole)
    BY <1>8, <1>14, <1>17, <1>18 DEF Pumped0
  <1> QED
    BY <1>13, <1>19 DEF t

LEMMA QuadKeeps ==
    ASSUME NEW ps, Numbered(ps), NEW whole, NEW s, Pumped0(s, ps, whole), 4 =< Len(s.f0),
           s.ch.qwc # 0, s.ch.str
    PROVE  \E d : Moved0(s, LandQuad(s), d) /\ Pumped0(LandQuad(s), ps, whole)
  <1> DEFINE q == s.f0  w == q[1]  r == Drop(q, 4)  t == LandQuad(s)  d == DataIn(w)
             c == [s.ch EXCEPT !.qwc = @ - 1]  h == s.got \o Take(q, d)
  <1>1. s \in Rec0 /\ q \in Seq(SifWord) /\ s.got \in Seq(SifWord) /\ s.ch \in Chan0 /\ s.irq \in Nat /\ Laid(q, ps)
    BY DEF Pumped0, Rec0
  <1>2. 4 \in 0 .. Len(q) /\ 1 \in 1 .. Len(q) /\ q # <<>> /\ 4 =< Len(q)
    BY <1>1
  <1>3. s.ch.qwc \in Nat \ {0} /\ s.ch.qwc > 0
    BY <1>1 DEF Chan0
  <1>4. w \in SifWord /\ w.i >= 4 /\ w.i + 4 * s.ch.qwc = FrameLen(w.p) /\ s.ch.tag_end = w.p.end
    BY <1>1, <1>2, <1>3 DEF Pumped0, Stands0
  <1>5. /\ w.p \in SifPacket /\ Quads(w.p.n) \in Nat \ {0} /\ FrameLen(w.p) = 4 + 4 * Quads(w.p.n)
        /\ w.p.end \in BOOLEAN /\ w.p.n \in Nat \ {0} /\ FrameLen(w.p) \in Nat /\ w.i \in Nat
        /\ 4 * Quads(w.p.n) >= w.p.n /\ 4 * Quads(w.p.n) < w.p.n + 4
    <2>1. w.p \in SifPacket /\ w.i \in Nat
      BY <1>4 DEF SifWord
    <2> QED
      BY <2>1, FrameFacts
  <1> HIDE DEF w
  <1> DEFINE a == w.i  n == w.p.n  m == s.ch.qwc  Q == Quads(w.p.n)  F == FrameLen(w.p)
  <1>6. /\ a \in Nat /\ n \in Nat \ {0} /\ m \in Nat \ {0} /\ Q \in Nat \ {0} /\ F \in Nat /\ a >= 4
        /\ a + 4 * m = F /\ F = 4 + 4 * Q /\ 4 * Q >= n /\ 4 * Q < n + 4
        /\ d = IF a + 4 =< 4 + n THEN 4 ELSE (4 + n) - a
    BY <1>3, <1>4, <1>5 DEF DataIn
  <1> HIDE DEF a, n, m, Q, F, d
  <1>7. /\ d \in 0 .. 4 /\ d \in Nat /\ a + 4 =< F /\ a < 4 + n /\ m - 1 \in Nat
        /\ \A x \in 0 .. 4 - 1 : x < d <=> a + x >= 4 /\ a + x < 4 + n
    BY <1>6
  <1>8. m = 1 <=> a =< 3 + n /\ 3 + n < a + d
    BY <1>6
  <1>9. m > 1 <=> a + 4 < F
    BY <1>6
  <1>10. a + 4 + 4 * (m - 1) = F
    BY <1>6
  <1>11. r \in Seq(SifWord) /\ h \in Seq(SifWord)
    <2>1. r \in Seq(SifWord) /\ d \in 0 .. Len(q)
      BY <1>1, <1>2, <1>7, DropIs
    <2>2. Take(q, d) \in Seq(SifWord)
      BY <1>1, <2>1, TakeIs
    <2> QED
      BY <1>1, <2>1, <2>2, ConcatProperties
  <1>12. c \in Chan0 /\ c.str = s.ch.str /\ c.qwc = m - 1 /\ c.tag_end = s.ch.tag_end
    <2>1. s.ch.qwc - 1 \in Nat
      BY <1>7 DEF m
    <2> QED
      BY <1>1, <2>1 DEF Chan0, m
  <1>13. t = [s EXCEPT !.f0 = r, !.ch = c, !.got = h]
    BY <1>1 DEF LandQuad, Rec0, w, d
  <1> HIDE DEF r, c, h
  <1>14. t \in Rec0 /\ t.f0 = r /\ t.ch = c /\ t.irq = s.irq /\ t.got = h
    BY <1>1, <1>11, <1>12, <1>13 DEF Rec0
  <1> HIDE DEF t
  <1>15. Lands(q, 4, d)
    BY <1>7 DEF Lands, w, a, n, F
  <1>16. Moved0(s, t, d)
    BY <1>12, <1>14, <1>15 DEF Moved0, r, h
  <1>17. /\ Laid(t.f0, ps) /\ Taken(t.got, t.f0, ps, whole)
         /\ Cardinality(LandedEnds(ps, t.got))
              = Cardinality(LandedEnds(ps, s.got)) + (IF Reaches(w, d) THEN 1 ELSE 0)
    BY <1>16, MovedKeeps DEF w
  <1>18. IF a + 4 < F THEN r # <<>> /\ r[1] = Word(w.p, a + 4)
         ELSE IF r = <<>> THEN w.p.no = Len(ps) ELSE w.p.no < Len(ps) /\ r[1] = Word(ps[w.p.no + 1], 0)
    <2> HIDE DEF q
    <2>1. q # <<>> /\ Laid(q, ps) /\ 4 \in Nat /\ q[1].i + 4 =< FrameLen(q[1].p)
      BY <1>1, <1>2, <1>7 DEF w, a, F
    <2>2. IF q[1].i + 4 < FrameLen(q[1].p)
          THEN Drop(q, 4) # <<>> /\ Drop(q, 4)[1] = Word(q[1].p, q[1].i + 4)
          ELSE IF Drop(q, 4) = <<>> THEN q[1].p.no = Len(ps)
          ELSE q[1].p.no < Len(ps) /\ Drop(q, 4)[1] = Word(ps[q[1].p.no + 1], 0)
      BY <2>1, Onward
    <2> QED
      BY <2>2 DEF r, w, a, F
  <1>19. Stands0(c, r)
    <2>1. CASE m > 1
      <3>1. r # <<>> /\ r[1].p = w.p /\ r[1].i = a + 4
        BY <1>9, <1>18, <2>1 DEF Word
      <3>2. a + 4 >= 4 /\ a + 4 + 4 * c.qwc = F /\ c.qwc # 0
        BY <1>6, <1>10, <1>12, <2>1
      <3> QED
        BY <1>4, <1>12, <3>1, <3>2 DEF Stands0, F
    <2>2. CASE ~(m > 1)
      <3>1. c.qwc = 0
        BY <1>6, <1>12, <2>2
      <3>2. r # <<>> => r[1].i = 0
        BY <1>9, <1>18, <2>2 DEF Word
      <3> QED
        BY <1>12, <3>1, <3>2 DEF Stands0
    <2> QED
      BY <2>1, <2>2
  <1>20. t.irq + Pending0(t.ch) = Cardinality(LandedEnds(ps, t.got))
    <2>1. c.qwc = 0 <=> m = 1
      BY <1>6, <1>12
    <2>2. Reaches(w, d) <=> w.p.end /\ m = 1
      BY <1>8 DEF Reaches, a, n
    <2>3. Pending0(s.ch) = 0 /\ Pending0(c) = IF Reaches(w, d) THEN 1 ELSE 0
      BY <1>3, <1>4, <1>12, <2>1, <2>2 DEF Pending0
    <2>4. s.irq + Pending0(s.ch) = Cardinality(LandedEnds(ps, s.got))
      BY DEF Pumped0
    <2> DEFINE k == Cardinality(LandedEnds(ps, s.got))  e == IF Reaches(w, d) THEN 1 ELSE 0
    <2>5. s.irq + 0 = k /\ Cardinality(LandedEnds(ps, t.got)) = k + e
      BY <1>17, <2>3, <2>4
    <2> HIDE DEF k, e
    <2>6. s.irq = k
      BY <1>1, <2>5
    <2> QED
      BY <1>14, <2>3, <2>5, <2>6 DEF e
  <1>21. Pumped0(t, ps, whole)
    BY <1>14, <1>17, <1>19, <1>20 DEF Pumped0
  <1> QED
    BY <1>16, <1>21 DEF t

\* What a turn takes: a quadword, or the end of the chain.
Fuel0(s) == Len(s.f0) + (IF s.ch.str THEN 1 ELSE 0)
LEMMA TurnKeeps0 ==
    ASSUME NEW ps, Numbered(ps), NEW whole, NEW s, Pumped0(s, ps, whole)
    PROVE  /\ Pumped0(Turn0(s), ps, whole)
           /\ \A n, M : NewerAfter0(s, n, M) => NewerAfter0(Turn0(s), n, M)
           /\ IF Rests0(s) THEN Turn0(s) = s ELSE Fuel0(Turn0(s)) < Fuel0(s)
  <1>1. /\ s \in Rec0 /\ s.f0 \in Seq(SifWord) /\ Len(s.f0) \in Nat /\ s.ch \in Chan0 /\ s.ch.str \in BOOLEAN
        /\ s.ch.tag_end \in BOOLEAN
    BY DEF Pumped0, Rec0, Chan0
  <1>2. CASE Rests0(s)
    <2>1. Turn0(s) = s
      BY <1>2 DEF Turn0
    <2> QED
      BY <1>2, <2>1
  <1>3. CASE ~Rests0(s) /\ Ends0(s)
    <2>1. Turn0(s) = EndChain(s)
      BY <1>3 DEF Turn0
    <2> DEFINE t == EndChain(s)
    <2>2. Pumped0(t, ps, whole) /\ t.f0 = s.f0 /\ t.got = s.got /\ ~t.ch.str
      BY <1>3, EndKeeps
    <2>3. Fuel0(t) < Fuel0(s)
      <3>1. s.ch.str
        BY <1>3 DEF Rests0
      <3> HIDE DEF t
      <3> QED
        BY <1>1, <2>2, <3>1 DEF Fuel0
    <2> HIDE DEF t
    <2>4. \A n, M : NewerAfter0(s, n, M) => NewerAfter0(t, n, M)
      BY <2>2 DEF NewerAfter0
    <2> QED
      BY <1>3, <2>1, <2>2, <2>3, <2>4 DEF t
  <1>4. CASE ~Rests0(s) /\ ~Ends0(s)
    <2>1. s.ch.str /\ 4 =< Len(s.f0)
      <3>1. s.ch.str /\ ~(Len(s.f0) < 4)
        BY <1>4 DEF Rests0
      <3> QED
        BY <1>1, <3>1
    <2>2. \E t, d : Turn0(s) = t /\ Moved0(s, t, d) /\ Pumped0(t, ps, whole)
      <3>1. CASE s.ch.qwc = 0
        <4>1. Turn0(s) = ReadDestTag(s)
          BY <1>4, <3>1 DEF Turn0
        <4>2. ~s.ch.tag_end
          BY <1>4, <3>1 DEF Ends0
        <4>3. Moved0(s, ReadDestTag(s), 0) /\ Pumped0(ReadDestTag(s), ps, whole)
          BY <2>1, <3>1, <4>2, DestTagKeeps
        <4> QED
          BY <4>1, <4>3
      <3>2. CASE s.ch.qwc # 0
        <4>1. Turn0(s) = LandQuad(s)
          BY <1>4, <3>2 DEF Turn0
        <4>2. \E d : Moved0(s, LandQuad(s), d) /\ Pumped0(LandQuad(s), ps, whole)
          BY <2>1, <3>2, QuadKeeps
        <4> QED
          BY <4>1, <4>2
      <3> QED
        BY <3>1, <3>2
    <2>3. PICK t, d : Turn0(s) = t /\ Moved0(s, t, d) /\ Pumped0(t, ps, whole)
      BY <2>2
    <2>4. Len(t.f0) < Len(s.f0) /\ \A n, M : NewerAfter0(s, n, M) => NewerAfter0(t, n, M)
      BY <2>1, <2>3, MovedKeeps
    <2>5. Fuel0(t) < Fuel0(s)
      <3>1. t.ch.str = s.ch.str /\ Len(t.f0) \in Nat
        BY <2>3 DEF Moved0, Pumped0, Rec0
      <3> DEFINE a == Len(t.f0)  b == Len(s.f0)  e == IF s.ch.str THEN 1 ELSE 0
      <3>2. Fuel0(t) = a + e /\ Fuel0(s) = b + e
        BY <3>1 DEF Fuel0
      <3>3. a \in Nat /\ b \in Nat /\ e \in Nat /\ a < b
        BY <1>1, <2>4, <3>1
      <3> HIDE DEF a, b, e
      <3>4. a + e < b + e
        BY <3>3
      <3> QED
        BY <3>2, <3>4
    <2> QED
      BY <1>4, <2>3, <2>4, <2>5
  <1> QED
    BY <1>2, <1>3, <1>4

Turns0(s) ==
    LET t[n \in 0 .. Len(s.f0) + 1] == IF n = 0 THEN s ELSE Turn0(t[n - 1])
    IN t
LEMMA Turns0Are ==
    ASSUME NEW s, Len(s.f0) \in Nat
    PROVE  /\ Turns0(s) = [n \in 0 .. Len(s.f0) + 1 |-> IF n = 0 THEN s ELSE Turn0(Turns0(s)[n - 1])]
           /\ PumpSif0Ee(s) = Turns0(s)[Len(s.f0) + 1]
  <1> DEFINE G(n, g) == g = [k \in 0 .. n |-> IF k = 0 THEN s ELSE Turn0(g[k - 1])]
             S == { n \in Nat : \E g : G(n, g) }
  <1>1. 0 \in S
    <2>1. G(0, [k \in 0 .. 0 |-> s])
      OBVIOUS
    <2> QED
      BY <2>1
  <1>2. ASSUME NEW n \in S PROVE n + 1 \in S
    <2>1. PICK g : G(n, g)
      OBVIOUS
    <2> DEFINE h == [k \in 0 .. n + 1 |-> IF k <= n THEN g[k] ELSE Turn0(g[n])]
    <2>2. \A k \in 0 .. n + 1 : h[k] = IF k = 0 THEN s ELSE Turn0(h[k - 1])
      BY <2>1
    <2>3. G(n + 1, h)
      BY <2>2
    <2>4. n + 1 \in Nat /\ \E f : G(n + 1, f)
      <3> HIDE DEF h, G
      <3> QED
        BY <2>3
    <2> QED
      BY <2>4
  <1>3. S = Nat
    <2> HIDE DEF S
    <2> QED
      BY <1>1, <1>2, Induction, S \subseteq Nat DEF S
  <1>4. \E g : G(Len(s.f0) + 1, g)
    <2>1. Len(s.f0) + 1 \in S
      <3>1. Len(s.f0) + 1 \in Nat
        OBVIOUS
      <3> HIDE DEF S
      <3> QED
        BY <1>3, <3>1
    <2> QED
      BY <2>1
  <1>5. PumpSif0Ee(s) = Turns0(s)[Len(s.f0) + 1]
    BY DEF PumpSif0Ee, Turns0
  <1> QED
    BY <1>4, <1>5 DEF Turns0

LEMMA Pumping0 ==
    ASSUME NEW ps, Numbered(ps), NEW whole, NEW s, Pumped0(s, ps, whole)
    PROVE  /\ Pumped0(PumpSif0Ee(s), ps, whole) /\ Rests0(PumpSif0Ee(s))
           /\ \A n, M : NewerAfter0(s, n, M) => NewerAfter0(PumpSif0Ee(s), n, M)
  <1> DEFINE N == Len(s.f0) + 1  f == Turns0(s)
             J(n) == /\ Pumped0(f[n], ps, whole)
                     /\ \A m, M : NewerAfter0(s, m, M) => NewerAfter0(f[n], m, M)
                     /\ Rests0(f[n]) \/ Fuel0(f[n]) + n =< N
             S == { n \in Nat : n =< N => J(n) }
  <1>1. N \in Nat /\ Len(s.f0) \in Nat
    BY DEF Pumped0, Rec0
  <1>2. /\ \A n \in 0 .. N : f[n] = IF n = 0 THEN s ELSE Turn0(f[n - 1])
        /\ PumpSif0Ee(s) = f[N]
    <2>1. f = [n \in 0 .. N |-> IF n = 0 THEN s ELSE Turn0(f[n - 1])] /\ PumpSif0Ee(s) = f[N]
      BY <1>1, Turns0Are
    <2> HIDE DEF f, N
    <2> QED
      BY <2>1
  <1>3. f[0] = s
    <2> HIDE DEF f, N
    <2> QED
      BY <1>1, <1>2
  <1>4. 0 \in S
    <2>1. Fuel0(s) + 0 =< N
      <3> DEFINE l == Len(s.f0)
      <3> HIDE DEF l
      <3> QED
        BY <1>1 DEF Fuel0, l
    <2>2. J(0)
      BY <1>3, <2>1
    <2> QED
      BY <2>2
  <1>5. ASSUME NEW n \in S PROVE n + 1 \in S
    <2> SUFFICES ASSUME n + 1 =< N PROVE J(n + 1)
      <3>1. n + 1 \in Nat
        OBVIOUS
      <3> HIDE DEF J, N
      <3> QED
        BY <3>1
    <2> DEFINE t == f[n]  z == f[n + 1]
    <2>1. n \in Nat /\ J(n) /\ n + 1 \in 0 .. N /\ (n + 1) - 1 = n /\ n + 1 # 0
      <3> HIDE DEF J
      <3> QED
        BY <1>1
    <2>2. z = Turn0(t)
      <3> HIDE DEF f, N, J
      <3> QED
        BY <1>2, <2>1
    <2>3. /\ Pumped0(t, ps, whole)
          /\ \A m, M : NewerAfter0(s, m, M) => NewerAfter0(t, m, M)
          /\ Rests0(t) \/ Fuel0(t) + n =< N
      BY <2>1
    <2> HIDE DEF t, z, f, N
    <2>4. /\ Pumped0(z, ps, whole)
          /\ \A m, M : NewerAfter0(t, m, M) => NewerAfter0(z, m, M)
          /\ IF Rests0(t) THEN z = t ELSE Fuel0(z) < Fuel0(t)
      BY <2>2, <2>3, TurnKeeps0
    <2>5. Rests0(z) \/ Fuel0(z) + (n + 1) =< N
      <3>1. CASE Rests0(t)
        BY <2>4, <3>1
      <3>2. CASE ~Rests0(t)
        <4> DEFINE a == Fuel0(z)  b == Fuel0(t)
        <4>1. a \in Nat /\ b \in Nat
          BY <2>3, <2>4 DEF Pumped0, Rec0, Chan0, Fuel0
        <4>2. a < b /\ b + n =< N /\ n \in Nat
          BY <2>1, <2>3, <2>4, <3>2
        <4> HIDE DEF a, b
        <4>3. a + (n + 1) =< N
          BY <1>1, <4>1, <4>2
        <4> QED
          BY <4>3 DEF a
      <3> QED
        BY <3>1, <3>2
    <2> QED
      BY <2>3, <2>4, <2>5 DEF z, t
  <1>6. S = Nat
    <2> HIDE DEF S
    <2> QED
      BY <1>4, <1>5, Induction, S \subseteq Nat DEF S
  <1>7. J(N)
    <2>1. N \in S
      BY <1>1, <1>6
    <2> HIDE DEF J
    <2> QED
      BY <1>1, <2>1
  <1>8. Rests0(f[N])
    <2>1. Rests0(f[N]) \/ Fuel0(f[N]) + N =< N
      BY <1>7
    <2>2. CASE Fuel0(f[N]) + N =< N
      <3> DEFINE z == f[N]  l == Len(z.f0)
      <3>1. l \in Nat /\ z.ch.str \in BOOLEAN
        BY <1>7 DEF Pumped0, Rec0, Chan0
      <3>2. Fuel0(z) = l + (IF z.ch.str THEN 1 ELSE 0) /\ Fuel0(z) + N =< N
        BY <2>2 DEF Fuel0
      <3> HIDE DEF l, z, N
      <3>3. ~z.ch.str
        BY <1>1, <3>1, <3>2
      <3> QED
        BY <3>3 DEF z, Rests0
    <2> QED
      BY <2>1, <2>2
  <1> QED
    BY <1>2, <1>7, <1>8

\* At rest the chain is between two packets.
LEMMA RestIs0 ==
    ASSUME NEW ps, NEW whole, NEW s, Pumped0(s, ps, whole), Rests0(s)
    PROVE  s.ch.qwc = 0 /\ ~s.ch.tag_end /\ (s.ch.str => Len(s.f0) < 4)
  <1> DEFINE q == s.f0  w == q[1]  m == s.ch.qwc
  <1>1. q \in Seq(SifWord) /\ Len(q) \in Nat /\ m \in Nat /\ s.ch.str \in BOOLEAN /\ Laid(q, ps)
    BY DEF Pumped0, Rec0, Chan0
  <1>2. m = 0
    <2> SUFFICES ASSUME m # 0 PROVE FALSE
      OBVIOUS
    <2>1. m > 0 /\ m \in Nat \ {0}
      BY <1>1
    <2>2. /\ q # <<>> /\ w.i >= 4 /\ w.i + 4 * m = FrameLen(w.p) /\ s.ch.str
      BY <1>1, <2>1 DEF Pumped0, Stands0
    <2>3. Len(q) < 4
      BY <2>1, <2>2 DEF Rests0, Ends0
    <2>4. 1 \in 1 .. Len(q) /\ w.i \in Nat
      <3>1. 1 \in 1 .. Len(q)
        BY <1>1, <2>2
      <3>2. w \in SifWord
        BY <1>1, <3>1
      <3> QED
        BY <3>1, <3>2 DEF SifWord
    <2> DEFINE a == w.i  d == 4 * m - 1  F == FrameLen(w.p)
    <2> HIDE DEF m
    <2>5. d \in Nat /\ d >= 3
      BY <2>1
    <2>6. a \in Nat /\ a + 4 * m = F
      BY <2>2, <2>4 DEF m
    <2> HIDE DEF a, F
    <2>7. a + d < F
      BY <2>1, <2>6
    <2> HIDE DEF d
    <2>8. 1 + d =< Len(q)
      <3> HIDE DEF q
      <3>1. \A i \in 1 .. Len(q), e \in Nat : q[i].i + e < FrameLen(q[i].p) => i + e =< Len(q)
        BY <1>1 DEF Laid
      <3>2. q[1].i + d < FrameLen(q[1].p)
        BY <2>7 DEF a, F
      <3> QED
        BY <2>4, <2>5, <3>1, <3>2
    <2> HIDE DEF q
    <2> QED
      BY <1>1, <2>3, <2>5, <2>8
  <1>3. ~s.ch.tag_end
    BY <1>2 DEF Rests0, Ends0, Pumped0, Stands0
  <1>4. s.ch.str => Len(s.f0) < 4
    BY DEF Rests0
  <1> QED
    BY <1>2, <1>3, <1>4

(***************************************************************************)
(* A start of a channel: what the two receivers find, and where they leave *)
(* the link.                                                               *)
(***************************************************************************)
NewerConcat(f, r) == \A M : Newer(f, M) /\ Newer(r, M) => Newer(f \o r, M)
LEMMA NewerJoins ==
    ASSUME NEW f \in Seq(SifWord), NEW r \in Seq(SifWord)
    PROVE  NewerConcat(f, r)
  <1> DEFINE q == f \o r
  <1>1. /\ Len(q) = Len(f) + Len(r) /\ \A i \in 1 .. Len(f) : q[i] = f[i]
        /\ \A i \in Len(f) + 1 .. Len(f) + Len(r) : q[i] = r[i - Len(f)]
    BY ConcatProperties
  <1> DEFINE a == Len(f)  b == Len(r)
  <1>2. a \in Nat /\ b \in Nat
    OBVIOUS
  <1> HIDE DEF q, a, b
  <1>3. ASSUME NEW M, Newer(f, M), Newer(r, M), NEW i \in 1 .. Len(q) PROVE q[i].p.no > M
    <2>1. i \in 1 .. a + b
      BY <1>1 DEF a, b
    <2>2. i \in 1 .. a \/ (i \in a + 1 .. a + b /\ i - a \in 1 .. b)
      BY <1>2, <2>1
    <2>3. CASE i \in 1 .. a
      BY <1>1, <1>3, <2>3 DEF Newer, a
    <2>4. CASE i \in a + 1 .. a + b /\ i - a \in 1 .. b
      <3>1. q[i] = r[i - a] /\ r[i - a].p.no > M
        BY <1>1, <1>3, <2>4 DEF Newer, a, b
      <3> QED
        BY <3>1
    <2> QED
      BY <2>2, <2>3, <2>4
  <1> QED
    BY <1>3 DEF NewerConcat, Newer, q

LEMMA NewSinceNow ==
    ASSUME NEW g, NEW M, Len(g) \in Nat
    PROVE  NewSince(g, Len(g), M)
  <1> DEFINE n == Len(g)
  <1>1. \A i \in 1 .. n : ~(i > n)
    <2>1. n \in Nat
      OBVIOUS
    <2> HIDE DEF n
    <2> QED
      BY <2>1
  <1> QED
    BY <1>1 DEF NewSince

LEMMA Sending0 ==
    ASSUME NEW ps, Numbered(ps), NEW f \in Seq(SifWord), Laid(f, ps), NEW g, NEW whole,
           Taken(g, f, ps, whole), f # <<>> => f[1].i = 0, NEW ts, ts = <<>> \/ Transfer(ts, Len(ps))
    PROVE  /\ Numbered(ps \o ts) /\ Laid(f \o Stream(ts), ps \o ts)
           /\ Taken(g, f \o Stream(ts), ps \o ts, whole) /\ LandedEnds(ps \o ts, g) = LandedEnds(ps, g)
           /\ Stream(ts) \in Seq(SifWord)
           /\ f \o Stream(ts) # <<>> => (f \o Stream(ts))[1].i = 0
  <1>1. CASE ts = <<>>
    <2>1. Stream(ts) = <<>> /\ Stream(ts) \in Seq(SifWord)
      <3>1. Stream(ts) = <<>>
        BY <1>1, StreamsAre
      <3>2. <<>> \in Seq(SifWord)
        OBVIOUS
      <3> QED
        BY <3>1, <3>2
    <2>2. f \o Stream(ts) = f
      BY <2>1, ConcatEmptySeq
    <2>3. ps \o ts = ps
      BY <1>1, ConcatEmptySeq DEF Numbered
    <2> QED
      BY <2>1, <2>2, <2>3
  <1>2. CASE Transfer(ts, Len(ps))
    <2> DEFINE r == Stream(ts)
    <2>1. /\ Numbered(ps \o ts) /\ Laid(f \o r, ps \o ts)
          /\ Taken(g, f \o r, ps \o ts, whole) /\ LandedEnds(ps \o ts, g) = LandedEnds(ps, g)
      BY <1>2, Sending
    <2>2. r \in Seq(SifWord) /\ r # <<>> /\ r[1].i = 0
      <3>1. Len(ps) \in Nat
        BY DEF Numbered
      <3> QED
        BY <1>2, <3>1, TransferStream
    <2> HIDE DEF r
    <2>3. (f \o r)[1].i = 0
      <3>1. CASE f = <<>>
        BY <2>2, <3>1, ConcatEmptySeq
      <3>2. CASE f # <<>>
        <4>1. 1 \in 1 .. Len(f)
          BY <3>2
        <4>2. (f \o r)[1] = f[1]
          BY <2>2, <4>1, ConcatProperties
        <4> QED
          BY <3>2, <4>2
      <3> QED
        BY <3>1, <3>2
    <2> QED
      BY <2>1, <2>2, <2>3 DEF r
  <1> QED
    BY <1>1, <1>2

LEMMA Pumps0 ==
    ASSUME NEW ps, Numbered(ps), NEW f \in Seq(SifWord), Laid(f, ps), NEW g, NEW whole,
           Taken(g, f, ps, whole), f # <<>> => f[1].i = 0, NEW ts, ts = <<>> \/ Transfer(ts, Len(ps)),
           NEW s \in Rec0, s.f0 = f \o Stream(ts), s.ch.qwc = 0, ~s.ch.tag_end, s.got = g,
           s.irq = Cardinality(LandedEnds(ps, g))
    PROVE  /\ Numbered(ps \o ts) /\ Pumped0(PumpSif0Ee(s), ps \o ts, whole) /\ Rests0(PumpSif0Ee(s))
           /\ \A M : Newer(f, M) /\ Newer(Stream(ts), M) =>
                 Newer(PumpSif0Ee(s).f0, M) /\ NewSince(PumpSif0Ee(s).got, Len(g), M)
  <1>1. /\ Numbered(ps \o ts) /\ Laid(s.f0, ps \o ts)
        /\ Taken(g, s.f0, ps \o ts, whole) /\ LandedEnds(ps \o ts, g) = LandedEnds(ps, g)
        /\ Stream(ts) \in Seq(SifWord)
        /\ s.f0 # <<>> => s.f0[1].i = 0
    BY Sending0
  <1>2. Stands0(s.ch, s.f0)
    <2>1. ~(s.ch.qwc > 0)
      BY DEF Rec0, Chan0
    <2> QED
      BY <1>1, <2>1 DEF Stands0
  <1>3. s.irq + Pending0(s.ch) = Cardinality(LandedEnds(ps \o ts, s.got))
    <2>1. Pending0(s.ch) = 0
      BY DEF Pending0
    <2> DEFINE j == s.irq
    <2>2. j \in Nat
      BY DEF Rec0
    <2> HIDE DEF j
    <2>3. j + 0 = j
      BY <2>2
    <2> QED
      BY <1>1, <2>1, <2>3 DEF j
  <1>4. Pumped0(s, ps \o ts, whole)
    BY <1>1, <1>2, <1>3 DEF Pumped0
  <1>5. /\ Pumped0(PumpSif0Ee(s), ps \o ts, whole) /\ Rests0(PumpSif0Ee(s))
        /\ \A n, M : NewerAfter0(s, n, M) => NewerAfter0(PumpSif0Ee(s), n, M)
    BY <1>1, <1>4, Pumping0
  <1>6. ASSUME NEW M, Newer(f, M), Newer(Stream(ts), M)
        PROVE  Newer(PumpSif0Ee(s).f0, M) /\ NewSince(PumpSif0Ee(s).got, Len(g), M)
    <2>1. Newer(s.f0, M)
      BY <1>1, <1>6, NewerJoins DEF NewerConcat
    <2>2. NewSince(s.got, Len(g), M)
      <3>1. Len(g) \in Nat
        BY DEF Taken
      <3> QED
        BY <3>1, NewSinceNow
    <2>3. NewerAfter0(s, Len(g), M)
      BY <2>1, <2>2 DEF NewerAfter0
    <2> QED
      BY <1>5, <2>3 DEF NewerAfter0
  <1> QED
    BY <1>1, <1>5, <1>6

\* The promise of path 1 says nothing of the other path's FIFO.
LEMMA Rebased ==
    ASSUME NEW s, NEW t \in Rec1, NEW u, NEW ps, Pumped1(s, u, ps), Rests1(s),
           t.f1 = s.f1, t.ch = s.ch, t.irq = s.irq, t.got = s.got, t.resets = s.resets
    PROVE  /\ Pumped1(t, u, ps) /\ Rests1(t)
           /\ \A n, M : NewerAfter(s, u, n, M) => NewerAfter(t, u, n, M)
  <1>1. Pumped1(t, u, ps)
    BY DEF Pumped1
  <1>2. Rests1(t)
    BY DEF Rests1
  <1>3. \A n, M : NewerAfter(s, u, n, M) => NewerAfter(t, u, n, M)
    BY DEF NewerAfter
  <1> QED
    BY <1>1, <1>2, <1>3

\* The link between two starts.
SifTypes ==
    /\ sif_irqs \in [SifChannel -> Nat] /\ iop_resets \in Nat /\ reset_at \in [Path -> Nat]
    /\ unsent \in Seq(SifWord) /\ sent \in [Path -> Seq(SifPacket)] /\ got \in [Path -> Seq(SifWord)]
Path1Holds == /\ Pumped1(Receiver1, unsent, sent["sif1"]) /\ Rests1(Receiver1)
              /\ Numbered(sent["sif1"]) /\ ResetAlone(sent["sif1"]) /\ Aligned(unsent)
Path0Holds == /\ Pumped0(Receiver0(fifo0), sent["sif0"], iop_resets = 0) /\ Rests0(Receiver0(fifo0))
              /\ Numbered(sent["sif0"])
MarksHold == iop_resets > 0 =>
    /\ Newer(fifo1 \o unsent, reset_at["sif1"]) /\ reset_at["sif1"] =< Len(sent["sif1"])
    /\ Newer(fifo0, reset_at["sif0"]) /\ reset_at["sif0"] =< Len(sent["sif0"])
LinkHolds == SifTypes /\ Path1Holds /\ Path0Holds /\ MarksHold

\* What a start does: path 1 with s, whose FIFO has the new words, and path 0
\* with the packets ts.
Started(s, u, ps, ch0, ts) ==
    /\ Pumped1(s, u, ps) /\ u \in Seq(SifWord) /\ Numbered(ps) /\ ResetAlone(ps)
    /\ s.f0 = fifo0 /\ s.got = got["sif1"] /\ s.resets = iop_resets
    /\ ch0 \in Chan0 /\ ch0.qwc = 0 /\ ~ch0.tag_end
    /\ ts = <<>> \/ Transfer(ts, Len(sent["sif0"]))
LEMMA StartPumps ==
    ASSUME LinkHolds, NEW s1, NEW words, NEW s, s = PumpSif1Ee(s1, words), NEW u, NEW ps, NEW ch0, NEW ts,
           Started(s, u, ps, ch0, ts), PumpSif(s1, words, ch0, ts)
    PROVE  /\ Pumped1(Receiver1', u, ps) /\ Rests1(Receiver1')
           /\ Numbered(sent["sif0"] \o ts)
           /\ Pumped0(Receiver0(fifo0)', sent["sif0"] \o ts, iop_resets' = 0) /\ Rests0(Receiver0(fifo0)')
           /\ \A M : Newer(s.f1 \o u, M) =>
                 Newer(fifo1' \o u, M) /\ NewSince(got'["sif1"], Len(got["sif1"]), M)
           /\ iop_resets' # iop_resets => iop_resets = 0 /\ fifo1' = <<>>
           /\ \A M : (iop_resets' # iop_resets \/ Newer(fifo0, M)) /\ Newer(Stream(ts), M) =>
                 Newer(fifo0', M) /\ NewSince(got'["sif0"], Len(got["sif0"]), M)
           /\ sif_irqs' \in [SifChannel -> Nat] /\ iop_resets' \in Nat /\ got' \in [Path -> Seq(SifWord)]
           /\ UNCHANGED sif_mail
           /\ reset_at' = IF iop_resets' = iop_resets THEN reset_at
                          ELSE [sif0 |-> Len(sent["sif0"]),
                                sif1 |-> IF unsent' = <<>> THEN Len(sent["sif1"]) ELSE unsent'[1].p.no - 1]
  <1> DEFINE t == PumpSif1Iop(s)  f == t.f0
             r == [Receiver0(PumpSif0Iop(f, ts)) EXCEPT !.ch = ch0]  v == PumpSif0Ee(r)
             p0 == sent["sif0"]  g0 == got["sif0"]
  <1>1. /\ fifo0' = v.f0 /\ fifo1' = t.f1 /\ iop_sif1' = t.ch /\ ee_sif0' = v.ch
        /\ sif_irqs' = [sif_irqs EXCEPT ![6] = IF words = <<>> THEN @ ELSE @ + 1, ![10] = t.irq,
                                        ![9] = IF ts = <<>> THEN @ ELSE @ + 1, ![5] = v.irq]
        /\ got' = [sif0 |-> v.got, sif1 |-> t.got] /\ iop_resets' = t.resets
        /\ reset_at' = IF t.resets = iop_resets THEN reset_at
                       ELSE [sif0 |-> Len(sent["sif0"]),
                             sif1 |-> IF unsent' = <<>> THEN Len(sent["sif1"]) ELSE unsent'[1].p.no - 1]
        /\ UNCHANGED sif_mail
    BY DEF PumpSif
  <1>2. /\ Pumped1(s, u, ps) /\ u \in Seq(SifWord) /\ Numbered(ps) /\ ResetAlone(ps)
        /\ s.f0 = fifo0 /\ s.got = got["sif1"] /\ s.resets = iop_resets
        /\ ch0 \in Chan0 /\ ch0.qwc = 0 /\ ~ch0.tag_end
        /\ ts = <<>> \/ Transfer(ts, Len(p0))
    BY DEF Started
  <1>3. /\ Pumped1(t, u, ps) /\ Rests1(t) /\ Flushed(s, t)
        /\ \A n, M : NewerAfter(s, u, n, M) => NewerAfter(t, u, n, M)
    BY <1>2, Pumping1
  <1>4. t \in Rec1 /\ t.f0 \in Seq(SifWord) /\ t.f1 \in Seq(SifWord) /\ t.ch \in Chan1 /\ t.irq \in Nat
        /\ t.got \in Seq(SifWord) /\ t.resets \in Nat
    BY <1>3 DEF Pumped1, Rec1
  <1> HIDE DEF t
  <1>5. /\ Pumped0(Receiver0(fifo0), p0, iop_resets = 0) /\ Rests0(Receiver0(fifo0)) /\ Numbered(p0)
        /\ sif_irqs \in [SifChannel -> Nat] /\ g0 \in Seq(SifWord)
    BY DEF LinkHolds, Path0Holds, SifTypes, Path
  <1>6. /\ fifo0 \in Seq(SifWord) /\ Laid(fifo0, p0) /\ Taken(g0, fifo0, p0, iop_resets = 0)
        /\ Stands0(ee_sif0, fifo0) /\ ee_sif0.qwc = 0 /\ ~ee_sif0.tag_end
        /\ sif_irqs[5] + Pending0(ee_sif0) = Cardinality(LandedEnds(p0, g0))
    <2>1. /\ Receiver0(fifo0).ch.qwc = 0 /\ ~Receiver0(fifo0).ch.tag_end
      BY <1>5, RestIs0
    <2> QED
      BY <1>5, <2>1 DEF Pumped0, Receiver0, Rec0
  <1>7. sif_irqs[5] = Cardinality(LandedEnds(p0, g0)) /\ sif_irqs[5] \in Nat
    <2>1. Pending0(ee_sif0) = 0
      BY <1>6 DEF Pending0
    <2> DEFINE j == sif_irqs[5]
    <2>2. j \in Nat
      BY <1>5 DEF SifChannel
    <2> HIDE DEF j
    <2>3. j + 0 = j
      BY <2>2
    <2> QED
      BY <1>6, <2>1, <2>2, <2>3 DEF j
  <1>8. \/ f = fifo0 /\ t.resets = iop_resets
        \/ f = <<>> /\ t.f1 = <<>> /\ t.resets # iop_resets /\ iop_resets = 0
    BY <1>2, <1>3 DEF Flushed
  <1>9. /\ f \in Seq(SifWord) /\ Laid(f, p0) /\ Taken(g0, f, p0, t.resets = 0) /\ (f # <<>> => f[1].i = 0)
    <2>1. CASE f = fifo0 /\ t.resets = iop_resets
      BY <1>6, <2>1 DEF Stands0
    <2>2. CASE f = <<>> /\ t.resets # iop_resets /\ iop_resets = 0
      <3>1. f \in Seq(SifWord) /\ Len(f) = 0 /\ f = <<>>
        BY <1>4, <2>2
      <3> HIDE DEF f
      <3>2. Laid(f, p0)
        BY <3>1 DEF Laid
      <3>3. Taken(g0, f, p0, FALSE)
        BY <1>6, <3>1 DEF Taken, Passed
      <3>4. (t.resets = 0) = FALSE
        BY <2>2
      <3> QED
        BY <3>1, <3>2, <3>3, <3>4
    <2> QED
      BY <1>8, <2>1, <2>2
  <1>10. r \in Rec0 /\ r.f0 = f \o Stream(ts) /\ r.ch = ch0 /\ r.got = g0 /\ r.irq = sif_irqs[5]
    <2> DEFINE x == PumpSif0Iop(f, ts)
    <2>1. x = f \o Stream(ts)
      BY DEF PumpSif0Iop
    <2>2. f \o Stream(ts) \in Seq(SifWord)
      <3>1. Laid(f \o Stream(ts), p0 \o ts)
        BY <1>2, <1>5, <1>9, Sending0
      <3> QED
        BY <3>1 DEF Laid
    <2>3. x \in Seq(SifWord)
      BY <2>1, <2>2
    <2> HIDE DEF x, f
    <2>4. r = [f0 |-> x, ch |-> ch0, irq |-> sif_irqs[5], got |-> g0]
      BY DEF Receiver0, x
    <2> HIDE DEF r
    <2> QED
      BY <1>2, <1>5, <1>7, <2>1, <2>3, <2>4 DEF Rec0
  <1> HIDE DEF f, r
  <1>11. /\ Numbered(p0 \o ts) /\ Pumped0(v, p0 \o ts, t.resets = 0) /\ Rests0(v)
         /\ \A M : Newer(f, M) /\ Newer(Stream(ts), M) =>
               Newer(v.f0, M) /\ NewSince(v.got, Len(g0), M)
    <2> DEFINE wh == (t.resets = 0)
    <2> HIDE DEF wh, p0, g0, v
    <2>1. /\ Numbered(p0) /\ f \in Seq(SifWord) /\ Laid(f, p0) /\ Taken(g0, f, p0, wh)
          /\ (f # <<>> => f[1].i = 0) /\ (ts = <<>> \/ Transfer(ts, Len(p0)))
          /\ r \in Rec0 /\ r.f0 = f \o Stream(ts) /\ r.ch.qwc = 0 /\ ~r.ch.tag_end /\ r.got = g0
          /\ r.irq = Cardinality(LandedEnds(p0, g0))
      BY <1>2, <1>5, <1>7, <1>9, <1>10 DEF wh
    <2>2. /\ Numbered(p0 \o ts) /\ Pumped0(PumpSif0Ee(r), p0 \o ts, wh) /\ Rests0(PumpSif0Ee(r))
          /\ \A M : Newer(f, M) /\ Newer(Stream(ts), M) =>
               Newer(PumpSif0Ee(r).f0, M) /\ NewSince(PumpSif0Ee(r).got, Len(g0), M)
      BY <2>1, Pumps0
    <2> QED
      BY <2>2 DEF wh, v
  <1>12. v \in Rec0 /\ v.f0 \in Seq(SifWord) /\ v.ch \in Chan0 /\ v.irq \in Nat /\ v.got \in Seq(SifWord)
    BY <1>11 DEF Pumped0, Rec0
  <1> HIDE DEF v, p0, g0
  <1>13. sif_irqs' \in [SifChannel -> Nat] /\ sif_irqs'[10] = t.irq /\ sif_irqs'[5] = v.irq
    <2> DEFINE a == IF words = <<>> THEN sif_irqs[6] ELSE sif_irqs[6] + 1
               b == IF ts = <<>> THEN sif_irqs[9] ELSE sif_irqs[9] + 1
    <2>1. a \in Nat /\ b \in Nat
      BY <1>5 DEF SifChannel
    <2>2. sif_irqs' = [sif_irqs EXCEPT ![6] = a, ![10] = t.irq, ![9] = b, ![5] = v.irq]
      BY <1>1, <1>5 DEF SifChannel
    <2> DEFINE c == t.irq  d == v.irq  f1 == sif_irqs  g1 == sif_irqs'
    <2>3. c \in Nat /\ d \in Nat /\ f1 \in [SifChannel -> Nat]
      BY <1>4, <1>5, <1>12
    <2>4. g1 = [f1 EXCEPT ![6] = a, ![10] = c, ![9] = b, ![5] = d]
      BY <2>2
    <2> HIDE DEF a, b, c, d, f1, g1
    <2>5. g1 \in [SifChannel -> Nat] /\ g1[10] = c /\ g1[5] = d
      BY <2>1, <2>3, <2>4 DEF SifChannel
    <2> QED
      BY <2>5 DEF c, d, g1
  <1>14. got' \in [Path -> Seq(SifWord)] /\ got'["sif0"] = v.got /\ got'["sif1"] = t.got
    BY <1>1, <1>4, <1>12 DEF Path
  <1>15. /\ Receiver1' \in Rec1 /\ Receiver1'.f1 = t.f1 /\ Receiver1'.ch = t.ch /\ Receiver1'.irq = t.irq
         /\ Receiver1'.got = t.got /\ Receiver1'.resets = t.resets
    BY <1>1, <1>4, <1>12, <1>13, <1>14 DEF Receiver1, Rec1
  <1>16. Pumped1(Receiver1', u, ps) /\ Rests1(Receiver1')
    BY <1>3, <1>15, Rebased
  <1>17. Receiver0(fifo0)' \in Rec0 /\ Receiver0(fifo0)'.f0 = v.f0 /\ Receiver0(fifo0)'.ch = v.ch
         /\ Receiver0(fifo0)'.irq = v.irq /\ Receiver0(fifo0)'.got = v.got
    BY <1>1, <1>12, <1>13, <1>14 DEF Receiver0, Rec0
  <1>18. Pumped0(Receiver0(fifo0)', p0 \o ts, iop_resets' = 0) /\ Rests0(Receiver0(fifo0)')
    <2>1. Rests0(Receiver0(fifo0)')
      BY <1>11, <1>17 DEF Rests0, Ends0
    <2> QED
      BY <1>1, <1>11, <1>17, <2>1 DEF Pumped0
  <1>19. ASSUME NEW M, Newer(s.f1 \o u, M)
         PROVE  Newer(fifo1' \o u, M) /\ NewSince(got'["sif1"], Len(got["sif1"]), M)
    <2>1. NewSince(s.got, Len(got["sif1"]), M)
      <3>1. Len(got["sif1"]) \in Nat
        BY DEF LinkHolds, SifTypes, Path
      <3> QED
        BY <1>2, <3>1, NewSinceNow
    <2>2. NewerAfter(t, u, Len(got["sif1"]), M)
      BY <1>3, <1>19, <2>1 DEF NewerAfter
    <2> QED
      BY <1>1, <1>14, <2>2 DEF NewerAfter
  <1>20. iop_resets' # iop_resets => iop_resets = 0 /\ fifo1' = <<>>
    BY <1>1, <1>8
  <1>21. ASSUME NEW M, iop_resets' # iop_resets \/ Newer(fifo0, M), Newer(Stream(ts), M)
         PROVE  Newer(fifo0', M) /\ NewSince(got'["sif0"], Len(g0), M)
    <2>1. Newer(f, M)
      <3>1. CASE f = fifo0 /\ t.resets = iop_resets
        BY <1>1, <1>21, <3>1
      <3>2. CASE f = <<>>
        BY <3>2 DEF Newer
      <3> QED
        BY <1>8, <3>1, <3>2
    <2> QED
      BY <1>1, <1>11, <1>14, <1>21, <2>1
  <1> QED
    BY <1>1, <1>4, <1>11, <1>13, <1>14, <1>16, <1>18, <1>19, <1>20, <1>21 DEF p0, g0

LEMMA PairsAre ==
    ASSUME NEW S, NEW p \in S, NEW r \in S
    PROVE  <<p>> \in Seq(S) /\ <<p, r>> \in Seq(S)
  OBVIOUS

\* The packets of a transfer are newer than those sent before.
LEMMA TransferNewer ==
    ASSUME NEW N \in Nat, NEW ts, ts = <<>> \/ Transfer(ts, N), NEW M \in Nat, M =< N
    PROVE  Newer(Stream(ts), M)
  <1>1. CASE ts = <<>>
    <2>1. Stream(ts) = <<>>
      BY <1>1, StreamsAre
    <2> QED
      BY <2>1 DEF Newer
  <1>2. CASE Transfer(ts, N)
    <2> DEFINE r == Stream(ts)
    <2>1. r \in Seq(SifWord) /\ \A i \in 1 .. Len(r) : r[i].p.no > N
      BY <1>2, TransferStream
    <2> HIDE DEF r
    <2>2. \A i \in 1 .. Len(r) : r[i].p.no \in Nat
      <3>1. \A i \in 1 .. Len(r) : r[i] \in SifWord
        BY <2>1
      <3> QED
        BY <3>1 DEF SifWord, SifPacket
    <2>3. \A i \in 1 .. Len(r) : r[i].p.no > M
      BY <2>1, <2>2
    <2> QED
      BY <2>3 DEF Newer, r
  <1> QED
    BY <1>1, <1>2

\* What a stream has left is newer than the packet before its first.
LEMMA RestNewer ==
    ASSUME NEW ps, NEW q, Laid(q, ps), Numbered(ps), NEW m, m = IF q = <<>> THEN Len(ps) ELSE q[1].p.no - 1
    PROVE  Newer(q, m) /\ m \in Nat /\ m =< Len(ps)
  <1>1. q \in Seq(SifWord) /\ Len(ps) \in Nat
    BY DEF Laid, Numbered
  <1>2. CASE q = <<>>
    BY <1>1, <1>2 DEF Newer
  <1>3. CASE q # <<>>
    <2>1. 1 \in 1 .. Len(q)
      BY <1>1, <1>3
    <2>2. q[1] \in SifWord /\ q[1].p.no \in 1 .. Len(ps)
      BY <1>1, <2>1 DEF Laid, Lies
    <2> DEFINE a == q[1].p.no
    <2>3. m = a - 1 /\ a \in 1 .. Len(ps)
      BY <1>3, <2>2
    <2>4. ASSUME NEW i \in 1 .. Len(q) PROVE q[i].p.no > m
      <3> DEFINE b == q[i].p.no
      <3>1. b \in Nat
        <4>1. q[i] \in SifWord
          BY <1>1
        <4> QED
          BY <4>1 DEF SifWord, SifPacket
      <3>2. a = b \/ a < b
        <4>1. CASE i = 1
          BY <4>1
        <4>2. CASE i # 1
          <5>1. 1 \in 1 .. i - 1
            BY <4>2
          <5>2. Before(q[1], q[i])
            BY <5>1 DEF Laid
          <5> QED
            BY <5>2 DEF Before
        <4> QED
          BY <4>1, <4>2
      <3> HIDE DEF a, b
      <3>3. b > m
        BY <1>1, <2>3, <3>1, <3>2
      <3> QED
        BY <3>3 DEF b
    <2> HIDE DEF a
    <2>5. m \in Nat /\ m =< Len(ps)
      BY <1>1, <2>3
    <2> QED
      BY <2>4, <2>5 DEF Newer
  <1> QED
    BY <1>2, <1>3

\* What ResetFlushes says of a step.
FlushedStep ==
    iop_resets > 0 => \A p \in Path : \A i \in DOMAIN got'[p] \ DOMAIN got[p] : got'[p][i].p.no > reset_at[p]
LEMMA StepFlushes ==
    ASSUME SifTypes, got' \in [Path -> Seq(SifWord)],
           iop_resets > 0 => \A p \in Path : NewSince(got'[p], Len(got[p]), reset_at[p])
    PROVE  FlushedStep
  <1> SUFFICES ASSUME iop_resets > 0, NEW p \in Path, NEW i \in DOMAIN got'[p] \ DOMAIN got[p]
               PROVE  got'[p][i].p.no > reset_at[p]
    BY DEF FlushedStep
  <1> DEFINE h == got'[p]  g == got[p]
  <1>1. h \in Seq(SifWord) /\ g \in Seq(SifWord) /\ i \in DOMAIN h \ DOMAIN g /\ NewSince(h, Len(g), reset_at[p])
    BY DEF SifTypes
  <1> HIDE DEF h, g
  <1>2. i \in 1 .. Len(h) /\ i > Len(g)
    BY <1>1
  <1>3. h[i].p.no > reset_at[p]
    BY <1>1, <1>2 DEF NewSince
  <1> QED
    BY <1>3 DEF h

LEMMA StartHolds ==
    ASSUME LinkHolds, NEW s1, NEW words, NEW s, s = PumpSif1Ee(s1, words), NEW u, NEW ch0, NEW ts,
           Started(s, u, sent["sif1"], ch0, ts), PumpSif(s1, words, ch0, ts),
           s.f1 \o u = fifo1 \o unsent, Aligned(u),
           unsent' = u, sent' \in [Path -> Seq(SifPacket)],
           sent'["sif1"] = sent["sif1"], sent'["sif0"] = sent["sif0"] \o ts
    PROVE  LinkHolds' /\ FlushedStep
  <1> DEFINE p1 == sent["sif1"]  p0 == sent["sif0"]
  <1>1. /\ Pumped1(Receiver1', u, p1) /\ Rests1(Receiver1')
        /\ Numbered(p0 \o ts)
        /\ Pumped0(Receiver0(fifo0)', p0 \o ts, iop_resets' = 0) /\ Rests0(Receiver0(fifo0)')
        /\ \A M : Newer(s.f1 \o u, M) =>
              Newer(fifo1' \o u, M) /\ NewSince(got'["sif1"], Len(got["sif1"]), M)
        /\ iop_resets' # iop_resets => iop_resets = 0 /\ fifo1' = <<>>
        /\ \A M : (iop_resets' # iop_resets \/ Newer(fifo0, M)) /\ Newer(Stream(ts), M) =>
              Newer(fifo0', M) /\ NewSince(got'["sif0"], Len(got["sif0"]), M)
        /\ sif_irqs' \in [SifChannel -> Nat] /\ iop_resets' \in Nat /\ got' \in [Path -> Seq(SifWord)]
        /\ reset_at' = IF iop_resets' = iop_resets THEN reset_at
                       ELSE [sif0 |-> Len(p0),
                             sif1 |-> IF unsent' = <<>> THEN Len(p1) ELSE unsent'[1].p.no - 1]
    BY StartPumps
  <1>2. /\ u \in Seq(SifWord) /\ Numbered(p1) /\ ResetAlone(p1) /\ (ts = <<>> \/ Transfer(ts, Len(p0)))
    BY DEF Started
  <1>3. SifTypes /\ Numbered(p0) /\ MarksHold
    BY DEF LinkHolds, Path0Holds
  <1>4. iop_resets \in Nat /\ reset_at \in [Path -> Nat] /\ p1 \in Seq(SifPacket) /\ p0 \in Seq(SifPacket)
        /\ Len(p0) \in Nat /\ Len(p1) \in Nat /\ reset_at["sif0"] \in Nat /\ reset_at["sif1"] \in Nat
    BY <1>3 DEF SifTypes, Path
  <1>5. Len(sent'["sif0"]) \in Nat /\ Len(p0) =< Len(sent'["sif0"])
    <2>1. ts = <<>> \/ Len(ts) \in Nat
      BY <1>2 DEF Transfer
    <2>2. CASE ts = <<>>
      <3>1. p0 \o ts = p0
        BY <1>4, <2>2, ConcatEmptySeq
      <3> QED
        BY <1>4, <3>1
    <2>3. CASE Transfer(ts, Len(p0))
      <3>1. PICK p, r \in SifPacket : ts = <<p>> \/ ts = <<p, r>>
        BY <2>3 DEF Transfer
      <3>2. ts \in Seq(SifPacket)
        <4>1. <<p>> \in Seq(SifPacket) /\ <<p, r>> \in Seq(SifPacket)
          BY PairsAre
        <4> QED
          BY <3>1, <4>1
      <3>3. Len(p0 \o ts) = Len(p0) + Len(ts) /\ Len(ts) \in Nat
        BY <1>4, <3>2, ConcatProperties
      <3> QED
        BY <1>4, <3>3
    <2> QED
      BY <1>2, <2>2, <2>3
  <1>6. CASE iop_resets' = iop_resets
    <2>1. reset_at' = reset_at
      BY <1>1, <1>6
    <2>2. ASSUME iop_resets > 0
          PROVE  /\ Newer(fifo1' \o u, reset_at["sif1"]) /\ NewSince(got'["sif1"], Len(got["sif1"]), reset_at["sif1"])
                 /\ Newer(fifo0', reset_at["sif0"]) /\ NewSince(got'["sif0"], Len(got["sif0"]), reset_at["sif0"])
                 /\ reset_at["sif1"] =< Len(p1) /\ reset_at["sif0"] =< Len(p0)
      <3>1. /\ Newer(fifo1 \o unsent, reset_at["sif1"]) /\ reset_at["sif1"] =< Len(p1)
            /\ Newer(fifo0, reset_at["sif0"]) /\ reset_at["sif0"] =< Len(p0)
        BY <1>3, <2>2 DEF MarksHold
      <3>2. Newer(Stream(ts), reset_at["sif0"])
        BY <1>2, <1>4, <3>1, TransferNewer
      <3> QED
        BY <1>1, <3>1, <3>2
    <2>3. MarksHold'
      <3>1. iop_resets > 0 => reset_at["sif0"] =< Len(sent'["sif0"])
        <4> SUFFICES ASSUME iop_resets > 0 PROVE reset_at["sif0"] =< Len(sent'["sif0"])
          OBVIOUS
        <4>1. reset_at["sif0"] =< Len(p0)
          BY <2>2
        <4> DEFINE a == reset_at["sif0"]  b == Len(p0)  c == Len(sent'["sif0"])
        <4> HIDE DEF a, b, c
        <4>2. a \in Nat /\ b \in Nat /\ c \in Nat /\ a =< b /\ b =< c
          BY <1>4, <1>5, <4>1 DEF a, b, c
        <4>3. a =< c
          BY <4>2
        <4> QED
          BY <4>3 DEF a, c
      <3> QED
        BY <1>6, <2>1, <2>2, <3>1 DEF MarksHold
    <2>4. iop_resets > 0 => \A p \in Path : NewSince(got'[p], Len(got[p]), reset_at[p])
      BY <2>2 DEF Path
    <2>5. reset_at' \in [Path -> Nat]
      BY <1>4, <2>1
    <2>6. FlushedStep
      BY <1>1, <1>3, <2>4, StepFlushes
    <2> QED
      BY <1>1, <1>2, <2>3, <2>5, <2>6 DEF LinkHolds, SifTypes, Path0Holds, Path1Holds
  <1>7. CASE iop_resets' # iop_resets
    <2> DEFINE m == IF u = <<>> THEN Len(p1) ELSE u[1].p.no - 1
    <2>1. iop_resets = 0 /\ fifo1' = <<>> /\ reset_at' = [sif0 |-> Len(p0), sif1 |-> m]
      BY <1>1, <1>7
    <2>2. fifo1' \o u = u
      BY <1>2, <2>1, ConcatEmptySeq
    <2>3. Laid(u, p1)
      <3>1. Laid(fifo1' \o u, p1)
        BY <1>1 DEF Pumped1, Core1, Receiver1
      <3> QED
        BY <2>2, <3>1
    <2>4. Newer(u, m) /\ m \in Nat /\ m =< Len(p1)
      BY <1>2, <2>3, RestNewer
    <2> HIDE DEF m
    <2>5. reset_at'["sif0"] = Len(p0) /\ reset_at'["sif1"] = m /\ reset_at' \in [Path -> Nat]
      BY <1>4, <2>1, <2>4 DEF Path
    <2>6. Newer(fifo0', Len(p0))
      <3>1. Newer(Stream(ts), Len(p0))
        BY <1>2, <1>4, TransferNewer
      <3> QED
        BY <1>1, <1>7, <3>1
    <2>7. MarksHold'
      BY <1>5, <2>2, <2>4, <2>5, <2>6 DEF MarksHold
    <2>8. FlushedStep
      BY <2>1 DEF FlushedStep
    <2> QED
      BY <1>1, <1>2, <2>5, <2>7, <2>8 DEF LinkHolds, SifTypes, Path0Holds, Path1Holds
  <1> QED
    BY <1>6, <1>7

(***************************************************************************)
(* The actions.                                                            *)
(***************************************************************************)
ResetIn(ts) == \E k \in 1 .. Len(ts) : ts[k].cmd = "reset"
LEMMA PacketsAre ==
    ASSUME SifTypes, NEW p \in Path, NEW ts \in Packets(p)
    PROVE  /\ Transfer(ts, Len(sent[p]))
           /\ ResetIn(ts) => iop_resets = 0 /\ ~ResetSent /\ Len(ts) = 1
  <1> DEFINE N == Len(sent[p])  no == N + 1
             Cmd(c, n) == [no |-> no, n |-> n, end |-> TRUE, cmd |-> c]
  <1>1. N \in Nat
    BY DEF SifTypes
  <1>2. \A n \in Words : n \in Nat \ {0}
    BY SifAssumption
  <1>3. \/ \E n \in Words : ts = <<Cmd("none", n)>>
        \/ ~ResetSent /\ iop_resets = 0 /\ ts = <<Cmd("reset", 1)>>
        \/ \E n, m \in Words : ts = <<[no |-> no, n |-> n, end |-> FALSE, cmd |-> "none"],
                                     [no |-> no + 1, n |-> m, end |-> TRUE, cmd |-> "none"]>>
    <2> HIDE DEF no
    <2> QED
      BY DEF Packets, no
  <1> HIDE DEF N
  <1>4. CASE \E n \in Words : ts = <<Cmd("none", n)>>
    <2>1. PICK n \in Words : ts = <<Cmd("none", n)>>
      BY <1>4
    <2> DEFINE x == Cmd("none", n)
    <2>2. x \in SifPacket /\ x.no = N + 1 /\ x.cmd = "none"
      BY <1>1, <1>2 DEF SifPacket
    <2>3. ts = <<x>>
      BY <2>1
    <2> HIDE DEF x
    <2>4. Len(ts) = 1 /\ ts[1] = x /\ \A k \in 1 .. Len(ts) : k = 1
      BY <2>3
    <2>5. ~ResetIn(ts)
      BY <2>2, <2>4 DEF ResetIn
    <2>6. Transfer(ts, N)
      BY <2>2, <2>3 DEF Transfer
    <2> QED
      BY <2>5, <2>6 DEF N
  <1>5. CASE ~ResetSent /\ iop_resets = 0 /\ ts = <<Cmd("reset", 1)>>
    <2> DEFINE x == Cmd("reset", 1)
    <2>2. x \in SifPacket /\ x.no = N + 1
      BY <1>1 DEF SifPacket
    <2>3. ts = <<x>>
      BY <1>5
    <2> HIDE DEF x
    <2>4. Len(ts) = 1
      BY <2>3
    <2>6. Transfer(ts, N)
      BY <2>2, <2>3 DEF Transfer
    <2> QED
      BY <1>5, <2>4, <2>6 DEF N
  <1>6. CASE \E n, m \in Words : ts = <<[no |-> no, n |-> n, end |-> FALSE, cmd |-> "none"],
                                        [no |-> no + 1, n |-> m, end |-> TRUE, cmd |-> "none"]>>
    <2>1. PICK n \in Words, m \in Words :
              ts = <<[no |-> no, n |-> n, end |-> FALSE, cmd |-> "none"],
                     [no |-> no + 1, n |-> m, end |-> TRUE, cmd |-> "none"]>>
      BY <1>6
    <2> DEFINE x == [no |-> no, n |-> n, end |-> FALSE, cmd |-> "none"]
               y == [no |-> no + 1, n |-> m, end |-> TRUE, cmd |-> "none"]
    <2>2. x \in SifPacket /\ x.no = N + 1 /\ x.cmd = "none" /\ y \in SifPacket /\ y.no = N + 2 /\ y.cmd = "none"
      BY <1>1, <1>2 DEF SifPacket
    <2>3. ts = <<x, y>>
      BY <2>1
    <2> HIDE DEF x, y
    <2>4. Len(ts) = 2 /\ ts[1] = x /\ ts[2] = y /\ \A k \in 1 .. Len(ts) : k = 1 \/ k = 2
      BY <2>3
    <2>5. ~ResetIn(ts)
      BY <2>2, <2>4 DEF ResetIn
    <2>6. Transfer(ts, N)
      BY <2>2, <2>3 DEF Transfer
    <2> QED
      BY <2>5, <2>6 DEF N
  <1> QED
    BY <1>3, <1>4, <1>5, <1>6

LEMMA TransferIs ==
    ASSUME NEW N \in Nat, NEW ts, Transfer(ts, N)
    PROVE  ts \in Seq(SifPacket) /\ ts # <<>> /\ Len(ts) \in Nat
  <1>1. PICK p, r \in SifPacket : ts = <<p>> \/ ts = <<p, r>>
    BY DEF Transfer
  <1>2. <<p>> \in Seq(SifPacket) /\ <<p, r>> \in Seq(SifPacket)
    BY PairsAre
  <1>3. <<p>> # <<>> /\ <<p, r>> # <<>>
    OBVIOUS
  <1>4. ts \in Seq(SifPacket) /\ ts # <<>>
    BY <1>1, <1>2, <1>3
  <1> QED
    BY <1>4

LEMMA ResetsAlone ==
    ASSUME NEW ps \in Seq(SifPacket), ResetAlone(ps), NEW ts \in Seq(SifPacket),
           ResetIn(ts) => ~ResetIn(ps) /\ Len(ts) = 1
    PROVE  ResetAlone(ps \o ts)
  <1> DEFINE q == ps \o ts  n == Len(ps)
  <1>1. /\ Len(q) = n + Len(ts) /\ \A i \in 1 .. n : q[i] = ps[i]
        /\ \A i \in n + 1 .. n + Len(ts) : q[i] = ts[i - n]
    BY ConcatProperties
  <1>2. n \in Nat /\ Len(ts) \in Nat
    OBVIOUS
  <1> HIDE DEF q
  <1> SUFFICES ASSUME NEW j \in 1 .. Len(q), NEW k \in 1 .. Len(q), q[j].cmd = "reset", q[k].cmd = "reset"
               PROVE  j = k
    BY DEF ResetAlone, q
  <1>3. \A i \in 1 .. Len(q) : i \in 1 .. n \/ (i \in n + 1 .. n + Len(ts) /\ i - n \in 1 .. Len(ts))
    <2> HIDE DEF n
    <2> QED
      BY <1>1, <1>2
  <1>4. CASE ResetIn(ts)
    <2>1. ~ResetIn(ps) /\ Len(ts) = 1
      BY <1>4
    <2>2. ASSUME NEW i \in 1 .. n PROVE q[i].cmd # "reset"
      BY <1>1, <2>1 DEF ResetIn
    <2>3. j \notin 1 .. n /\ k \notin 1 .. n
      BY <2>2
    <2> HIDE DEF n
    <2>4. j \in n + 1 .. n + 1 /\ k \in n + 1 .. n + 1
      BY <1>3, <2>1, <2>3
    <2> QED
      BY <1>2, <2>4
  <1>5. CASE ~ResetIn(ts)
    <2>1. ASSUME NEW i \in 1 .. Len(q), q[i].cmd = "reset" PROVE i \in 1 .. n /\ ps[i].cmd = "reset"
      <3>1. CASE i \in 1 .. n
        BY <1>1, <2>1, <3>1
      <3>2. CASE i \in n + 1 .. n + Len(ts) /\ i - n \in 1 .. Len(ts)
        <4>1. ts[i - n].cmd = "reset"
          BY <1>1, <2>1, <3>2
        <4> QED
          BY <1>5, <3>2, <4>1 DEF ResetIn
      <3> QED
        BY <1>3, <3>1, <3>2
    <2>2. j \in 1 .. n /\ k \in 1 .. n /\ ps[j].cmd = "reset" /\ ps[k].cmd = "reset"
      BY <2>1
    <2> QED
      BY <2>2 DEF ResetAlone
  <1> QED
    BY <1>4, <1>5

LEMMA FrameHolds ==
    ASSUME LinkHolds, Frame
    PROVE  LinkHolds' /\ FlushedStep
  <1> DEFINE p1 == sent["sif1"]  p0 == sent["sif0"]  f == fifo1  ch == iop_sif1  g == got["sif1"]
             irq == sif_irqs[10]  wh == (iop_resets = 0)
  <1>1. PICK ts \in Packets("sif1") :
            unsent = <<>> /\ unsent' = Stream(ts) /\ sent' = [sent EXCEPT !["sif1"] = @ \o ts]
    BY DEF Frame
  <1>2. UNCHANGED <<fifos, iop_sif1, ee_sif0, sif_irqs, got, iop_resets, reset_at, sif_mail>>
    BY DEF Frame
  <1>3. /\ fifo0' = fifo0 /\ fifo1' = fifo1 /\ iop_sif1' = iop_sif1 /\ ee_sif0' = ee_sif0 /\ sif_irqs' = sif_irqs
        /\ got' = got /\ iop_resets' = iop_resets /\ reset_at' = reset_at
    BY <1>2 DEF fifos
  <1>4. /\ SifTypes /\ Pumped1(Receiver1, unsent, p1) /\ Rests1(Receiver1)
        /\ Numbered(p1) /\ ResetAlone(p1) /\ Path0Holds /\ MarksHold
    BY DEF LinkHolds, Path1Holds
  <1>5. /\ p1 \in Seq(SifPacket) /\ p0 \in Seq(SifPacket) /\ Len(p1) \in Nat /\ iop_resets \in Nat
        /\ reset_at["sif1"] \in Nat
    BY <1>4 DEF SifTypes, Path
  <1>6. /\ Transfer(ts, Len(p1)) /\ (ResetIn(ts) => iop_resets = 0 /\ ~ResetSent /\ Len(ts) = 1)
    BY <1>4, PacketsAre DEF Path
  <1>7. ts \in Seq(SifPacket)
    BY <1>5, <1>6, TransferIs
  <1>8. sent' \in [Path -> Seq(SifPacket)] /\ sent'["sif1"] = p1 \o ts /\ sent'["sif0"] = p0
    <2>1. p1 \o ts \in Seq(SifPacket)
      BY <1>5, <1>7, ConcatProperties
    <2> DEFINE x == p1 \o ts
    <2>2. sent' = [sent EXCEPT !["sif1"] = x]
      BY <1>1, <1>4 DEF SifTypes, Path
    <2>3. x \in Seq(SifPacket) /\ sent \in [Path -> Seq(SifPacket)]
      BY <1>4, <2>1 DEF SifTypes
    <2> HIDE DEF x
    <2>4. sent' \in [Path -> Seq(SifPacket)] /\ sent'["sif1"] = x /\ sent'["sif0"] = sent["sif0"]
      BY <2>2, <2>3 DEF Path
    <2> QED
      BY <2>4 DEF x
  <1>9. /\ Receiver1 \in Rec1 /\ f \in Seq(SifWord) /\ ch \in Chan1
        /\ Core1(ch, f, g, irq, p1, wh) /\ Settled(ch) /\ AtReset(f, <<>>, iop_resets)
    <2>1. Receiver1 \in Rec1 /\ f \in Seq(SifWord) /\ ch \in Chan1
      BY <1>4 DEF Pumped1, Receiver1, Rec1
    <2>2. f \o unsent = f
      BY <1>1, <2>1, ConcatEmptySeq
    <2>3. /\ Core1(ch, f \o unsent, g, irq, p1, wh) /\ Settled(ch) /\ AtReset(f \o unsent, unsent, iop_resets)
      BY <1>4 DEF Pumped1, Receiver1
    <2> QED
      BY <1>1, <2>1, <2>2, <2>3
  <1>10. Receiver1' = Receiver1
    BY <1>3 DEF Receiver1
  <1>11. ch.left + ch.pad = 0 /\ (f # <<>> => f[1].i = 0)
    <2> DEFINE l == ch.left  p == ch.pad
    <2>1. l \in Nat /\ p \in Nat
      BY <1>9 DEF Chan1
    <2>2. l + p = 0
      <3> SUFFICES ASSUME l + p # 0 PROVE FALSE
        OBVIOUS
      <3>1. l + p > 0
        <4> HIDE DEF l, p
        <4> QED
          BY <2>1
      <3>2. f # <<>> /\ ch.busy
        BY <1>9, <3>1 DEF Core1, Stands1
      <3>3. f = <<>>
        BY <1>4, <3>1, <3>2 DEF Rests1, Receiver1
      <3> QED
        BY <3>2, <3>3
    <2> QED
      BY <1>9, <2>2 DEF Core1, Stands1
  <1> DEFINE r == Stream(ts)  ps == p1 \o ts  q == f \o r
  <1> HIDE DEF wh
  <1>12. /\ Laid(f, p1) /\ Taken(g, f, p1, wh) /\ irq \in Nat
         /\ irq + Pending1(ch) = Cardinality(LandedEnds(p1, g))
    BY <1>9 DEF Core1
  <1>13. /\ r \in Seq(SifWord) /\ r # <<>> /\ r[1].i = 0 /\ Aligned(r)
         /\ \A i \in 1 .. Len(r) : \E k \in DOMAIN ts : r[i].p = ts[k]
    BY <1>5, <1>6, TransferStream
  <1>14. /\ Numbered(ps) /\ Laid(q, ps) /\ Taken(g, q, ps, wh) /\ LandedEnds(ps, g) = LandedEnds(p1, g)
         /\ q # <<>> => q[1].i = 0
    <2> HIDE DEF f, g, p1
    <2> QED
      BY <1>4, <1>6, <1>9, <1>11, <1>12, Sending0 DEF p1
  <1> HIDE DEF r, q, ps
  <1>15. Core1(ch, q, g, irq, ps, wh)
    <2>1. Stands1(ch, q)
      <3>1. ~(ch.left + ch.pad > 0)
        BY <1>11
      <3> QED
        BY <1>11, <1>14, <3>1 DEF Stands1
    <2> QED
      BY <1>9, <1>12, <1>14, <2>1 DEF Core1
  <1>16. AtReset(q, r, iop_resets)
    <2> SUFFICES ASSUME NEW i \in 1 .. Len(q), q[i].p.cmd = "reset" PROVE iop_resets = 0
      BY <1>13 DEF AtReset
    <2>1. /\ Len(q) = Len(f) + Len(r) /\ \A j \in 1 .. Len(f) : q[j] = f[j]
          /\ \A j \in Len(f) + 1 .. Len(f) + Len(r) : q[j] = r[j - Len(f)]
      BY <1>9, <1>13, ConcatProperties DEF q
    <2> DEFINE a == Len(f)  b == Len(r)
    <2>2. a \in Nat /\ b \in Nat
      BY <1>9, <1>13
    <2>3. i \in 1 .. a + b
      BY <2>1
    <2> HIDE DEF a, b
    <2>4. i \in 1 .. a \/ (i \in a + 1 .. a + b /\ i - a \in 1 .. b)
      BY <2>2, <2>3
    <2>5. CASE i \in 1 .. a
      BY <1>9, <2>1, <2>5 DEF AtReset, a
    <2>6. CASE i \in a + 1 .. a + b /\ i - a \in 1 .. b
      <3>1. r[i - a].p.cmd = "reset" /\ i - a \in 1 .. Len(r)
        BY <2>1, <2>6 DEF a, b
      <3>2. PICK k \in DOMAIN ts : r[i - a].p = ts[k]
        BY <1>13, <3>1
      <3>3. k \in 1 .. Len(ts)
        BY <1>7
      <3> QED
        BY <1>6, <3>1, <3>2, <3>3 DEF ResetIn
    <2> QED
      BY <2>4, <2>5, <2>6
  <1>17. Pumped1(Receiver1', unsent', sent'["sif1"])
    <2>1. Pumped1(Receiver1, r, ps)
      BY <1>9, <1>15, <1>16 DEF Pumped1, Receiver1, q, wh
    <2> QED
      BY <1>1, <1>8, <1>10, <2>1 DEF r, ps
  <1>18. ResetAlone(ps)
    <2>1. ResetIn(ts) => ~ResetIn(p1)
      <3>1. p1 \in Seq(SifPacket)
        BY <1>5
      <3>2. ~ResetSent /\ iop_resets = 0 => ~ResetIn(p1)
        BY <3>1 DEF ResetSent, ResetIn
      <3> QED
        BY <1>6, <3>2
    <2> HIDE DEF p1
    <2> QED
      BY <1>4, <1>5, <1>6, <1>7, <2>1, ResetsAlone DEF ps, p1
  <1>19. Path1Holds'
    BY <1>1, <1>4, <1>8, <1>10, <1>13, <1>14, <1>17, <1>18 DEF Path1Holds, r, ps
  <1>20. Path0Holds'
    BY <1>3, <1>4, <1>8 DEF Path0Holds, Receiver0
  <1>21. MarksHold'
    <2> SUFFICES ASSUME iop_resets > 0
                 PROVE  Newer(q, reset_at["sif1"]) /\ reset_at["sif1"] =< Len(ps)
      BY <1>1, <1>3, <1>4, <1>8 DEF MarksHold, q, r, ps
    <2>1. Newer(fifo1 \o unsent, reset_at["sif1"]) /\ reset_at["sif1"] =< Len(p1)
      BY <1>4 DEF MarksHold
    <2>2. f \o unsent = f
      BY <1>1, <1>9, ConcatEmptySeq
    <2>3. Newer(r, reset_at["sif1"])
      BY <1>5, <1>6, <2>1, TransferNewer DEF r
    <2>4. Newer(q, reset_at["sif1"])
      BY <1>9, <1>13, <2>1, <2>2, <2>3, NewerJoins DEF NewerConcat, q
    <2>5. Len(ps) = Len(p1) + Len(ts) /\ Len(ts) \in Nat
      BY <1>5, <1>7, ConcatProperties DEF ps
    <2> DEFINE a == reset_at["sif1"]  b == Len(p1)  c == Len(ts)
    <2>6. a \in Nat /\ b \in Nat /\ c \in Nat /\ a =< b
      BY <1>5, <2>1, <2>5
    <2> HIDE DEF a, b, c
    <2>7. a =< b + c
      BY <2>6
    <2> QED
      BY <2>4, <2>5, <2>7 DEF a, b, c
  <1>22. SifTypes'
    BY <1>1, <1>3, <1>4, <1>8, <1>13 DEF SifTypes, r
  <1>23. FlushedStep
    BY <1>3 DEF FlushedStep
  <1> QED
    BY <1>19, <1>20, <1>21, <1>22, <1>23 DEF LinkHolds

JoinsOn(q, r, t) == \A v : v = r \o t => (q \o r) \o t = q \o v
LEMMA Associates ==
    ASSUME NEW S, NEW q \in Seq(S), NEW r \in Seq(S), NEW t \in Seq(S)
    PROVE  JoinsOn(q, r, t)
  <1>1. (q \o r) \o t = q \o (r \o t)
    BY ConcatAssociative
  <1> QED
    BY <1>1 DEF JoinsOn

\* The words the EE sends are the first of what it has framed.
LEMMA StartReceives ==
    ASSUME LinkHolds, NEW s1 \in Rec1,
           s1.f0 = fifo0, s1.f1 = fifo1, s1.irq = sif_irqs[10], s1.got = got["sif1"], s1.resets = iop_resets,
           s1.ch.left = iop_sif1.left, s1.ch.pad = iop_sif1.pad, s1.ch.end = iop_sif1.end,
           s1.ch.cmd = iop_sif1.cmd, s1.ch.busy \/ s1.ch.busy = iop_sif1.busy,
           NEW words \in Seq(SifWord), NEW u \in Seq(SifWord), words \o u = unsent,
           u = unsent \/ (ResetSent => u = <<>>),
           NEW ch0 \in Chan0, ch0.qwc = 0, ~ch0.tag_end, NEW ts, ts = <<>> \/ Transfer(ts, Len(sent["sif0"]))
    PROVE  /\ Started(PumpSif1Ee(s1, words), u, sent["sif1"], ch0, ts)
           /\ PumpSif1Ee(s1, words).f1 \o u = fifo1 \o unsent
  <1> DEFINE p1 == sent["sif1"]  s == PumpSif1Ee(s1, words)  x == fifo1 \o words  q == fifo1 \o unsent
             wh == (iop_resets = 0)
  <1>1. /\ Pumped1(Receiver1, unsent, p1) /\ Numbered(p1) /\ ResetAlone(p1) /\ SifTypes
    BY DEF LinkHolds, Path1Holds
  <1>2. /\ fifo1 \in Seq(SifWord) /\ iop_sif1 \in Chan1 /\ iop_sif1.busy \in BOOLEAN
        /\ Core1(iop_sif1, q, got["sif1"], sif_irqs[10], p1, wh)
        /\ Settled(iop_sif1) /\ AtReset(q, unsent, iop_resets)
    BY <1>1 DEF Pumped1, Receiver1, Rec1, Chan1
  <1>3. x \in Seq(SifWord)
    BY <1>2, ConcatProperties
  <1>4. s \in Rec1 /\ s.f1 = x /\ s.f0 = s1.f0 /\ s.ch = s1.ch /\ s.irq = s1.irq /\ s.got = s1.got /\ s.resets = s1.resets
    <2>1. s = [s1 EXCEPT !.f1 = x]
      BY DEF PumpSif1Ee, Rec1
    <2> HIDE DEF x, s
    <2> QED
      BY <1>3, <2>1 DEF Rec1
  <1> HIDE DEF s
  <1>5. x \o u = q
    <2>1. JoinsOn(fifo1, words, u)
      BY <1>2, Associates
    <2> QED
      BY <2>1, Zenon DEF JoinsOn
  <1>6. /\ s1.ch \in Chan1 /\ Settled(s1.ch) /\ Pending1(s1.ch) = Pending1(iop_sif1)
    BY <1>2 DEF Rec1, Settled, Pending1
  <1> HIDE DEF x, wh, q
  <1>7. Stands1(s1.ch, q)
    <2>1. Stands1(iop_sif1, q)
      BY <1>2 DEF Core1
    <2>2. iop_sif1.busy => s1.ch.busy
      OBVIOUS
    <2> QED
      BY <2>1, <2>2 DEF Stands1
  <1>8. Core1(s1.ch, q, got["sif1"], sif_irqs[10], p1, wh)
    BY <1>2, <1>6, <1>7 DEF Core1
  <1>9. AtReset(q, u, iop_resets)
    <2> SUFFICES ASSUME NEW i \in 1 .. Len(q), q[i].p.cmd = "reset"
                 PROVE  iop_resets = 0 /\ (u = <<>> \/ u[1].i = 0)
      BY DEF AtReset
    <2>1. iop_resets = 0 /\ (unsent = <<>> \/ unsent[1].i = 0)
      BY <1>2 DEF AtReset
    <2>2. ResetSent
      <3>1. Lies(q[i], p1)
        BY <1>2 DEF Core1, Laid
      <3>2. p1[q[i].p.no].cmd = "reset" /\ q[i].p.no \in DOMAIN p1
        BY <1>1, <3>1 DEF Lies, Numbered
      <3> QED
        BY <2>1, <3>2 DEF ResetSent
    <2> QED
      BY <2>1, <2>2
  <1>10. Pumped1(s, u, p1)
    BY <1>4, <1>5, <1>6, <1>8, <1>9 DEF Pumped1, wh
  <1>11. Started(s, u, p1, ch0, ts)
    BY <1>1, <1>4, <1>10 DEF Started
  <1> QED
    BY <1>4, <1>5, <1>11 DEF s, q

LEMMA LinkAtRest ==
    ASSUME LinkHolds
    PROVE  /\ ee_sif0 \in Chan0 /\ ee_sif0.qwc = 0 /\ ~ee_sif0.tag_end /\ (ee_sif0.str => Len(fifo0) < 4)
           /\ Receiver1 \in Rec1 /\ iop_sif1 \in Chan1 /\ Aligned(unsent) /\ unsent \in Seq(SifWord)
           /\ sent \in [Path -> Seq(SifPacket)] /\ sent["sif0"] \in Seq(SifPacket)
           /\ sent["sif0"] \o <<>> = sent["sif0"]
           /\ Receiver1.f0 = fifo0 /\ Receiver1.f1 = fifo1 /\ Receiver1.irq = sif_irqs[10] /\ Receiver1.ch = iop_sif1
           /\ Receiver1.got = got["sif1"] /\ Receiver1.resets = iop_resets
           /\ <<>> \in Seq(SifWord) /\ <<>> \o unsent = unsent
  <1>1. /\ Pumped0(Receiver0(fifo0), sent["sif0"], iop_resets = 0) /\ Rests0(Receiver0(fifo0))
        /\ Pumped1(Receiver1, unsent, sent["sif1"]) /\ SifTypes /\ Aligned(unsent)
    BY DEF LinkHolds, Path1Holds, Path0Holds
  <1>2. /\ Receiver0(fifo0).ch.qwc = 0 /\ ~Receiver0(fifo0).ch.tag_end
        /\ (Receiver0(fifo0).ch.str => Len(Receiver0(fifo0).f0) < 4)
    BY <1>1, RestIs0
  <1>3. ee_sif0 \in Chan0 /\ ee_sif0.qwc = 0 /\ ~ee_sif0.tag_end /\ (ee_sif0.str => Len(fifo0) < 4)
    BY <1>1, <1>2 DEF Pumped0, Receiver0, Rec0
  <1>4. Receiver1 \in Rec1 /\ iop_sif1 \in Chan1
    BY <1>1 DEF Pumped1, Receiver1, Rec1
  <1>5. unsent \in Seq(SifWord) /\ sent \in [Path -> Seq(SifPacket)] /\ sent["sif0"] \in Seq(SifPacket)
    BY <1>1 DEF SifTypes, Path
  <1>6. sent["sif0"] \o <<>> = sent["sif0"] /\ <<>> \o unsent = unsent
    BY <1>5, ConcatEmptySeq
  <1>7. <<>> \in Seq(SifWord)
    OBVIOUS
  <1> QED
    BY <1>1, <1>3, <1>4, <1>5, <1>6, <1>7 DEF Receiver1

LEMMA EeStartSif1Holds ==
    ASSUME LinkHolds, EeStartSif1
    PROVE  LinkHolds' /\ FlushedStep
  <1>1. PICK k \in 1 .. Len(unsent) \div 4 :
            /\ ResetSent => 4 * k = Len(unsent)
            /\ unsent' = Drop(unsent, 4 * k)
            /\ PumpSif(Receiver1, Take(unsent, 4 * k), ee_sif0, <<>>)
            /\ UNCHANGED sent
    BY DEF EeStartSif1
  <1> DEFINE n == 4 * k  N == Len(unsent)  words == Take(unsent, n)  u == Drop(unsent, n)
  <1>2. N \in Nat /\ unsent \in Seq(SifWord) /\ Aligned(unsent)
    BY LinkAtRest
  <1>3. n \in 0 .. N /\ k \in Nat
    <2> DEFINE d == N \div 4  m == N % 4
    <2>1. d \in Nat /\ m \in 0 .. 4 - 1 /\ N = d * 4 + m
      <3> HIDE DEF N
      <3>1. 4 \in Nat \ {0}
        OBVIOUS
      <3> QED
        BY <1>2, <3>1, SplitOf
    <2>2. k \in 1 .. d
      OBVIOUS
    <2> HIDE DEF N, d, m
    <2> QED
      BY <1>2, <2>1, <2>2
  <1>4. /\ words \in Seq(SifWord) /\ u \in Seq(SifWord) /\ words \o u = unsent
        /\ Len(u) = N - n /\ \A i \in 1 .. N - n : u[i] = unsent[n + i]
    <2> HIDE DEF n
    <2> QED
      BY <1>2, <1>3, TakeIs, DropIs, TakeDrop
  <1>5. ResetSent => u = <<>>
    <2> HIDE DEF u
    <2>1. ResetSent => Len(u) = 0
      BY <1>1, <1>2, <1>4
    <2> QED
      BY <1>4, <2>1, EmptySeq
  <1>6. Aligned(u)
    <2> SUFFICES ASSUME NEW i \in 1 .. Len(u) PROVE u[i].i % 4 = (i - 1) % 4
      BY DEF Aligned
    <2>1. i \in 1 .. N - n /\ n + i \in 1 .. N /\ i - 1 \in Nat /\ (n + i) - 1 = (i - 1) + 4 * k
      <3> HIDE DEF N
      <3> QED
        BY <1>2, <1>3, <1>4
    <2>2. unsent[n + i].i % 4 = ((n + i) - 1) % 4
      BY <1>2, <2>1 DEF Aligned
    <2> DEFINE j == i - 1  e == (n + i) - 1
    <2> HIDE DEF j, e
    <2>3. e % 4 = j % 4
      <3>1. e = j + 4 * k /\ j \in Nat
        BY <2>1 DEF j, e
      <3>2. (j + 4 * k) % 4 = j % 4
        BY <1>3, <3>1, Mod4
      <3> QED
        BY <3>1, <3>2
    <2>4. u[i] = unsent[n + i]
      BY <1>4, <2>1
    <2> HIDE DEF u, n
    <2> QED
      BY <2>2, <2>3, <2>4 DEF j, e
  <1> HIDE DEF words, u, n, N
  <1>7. /\ Started(PumpSif1Ee(Receiver1, words), u, sent["sif1"], ee_sif0, <<>>)
        /\ PumpSif1Ee(Receiver1, words).f1 \o u = fifo1 \o unsent
    BY <1>4, <1>5, LinkAtRest, StartReceives
  <1>8. PumpSif(Receiver1, words, ee_sif0, <<>>) /\ unsent' = u /\ sent' = sent
    BY <1>1 DEF words, u, n
  <1>9. sent' \in [Path -> Seq(SifPacket)] /\ sent'["sif1"] = sent["sif1"] /\ sent'["sif0"] = sent["sif0"] \o <<>>
    BY <1>8, LinkAtRest
  <1> DEFINE s == PumpSif1Ee(Receiver1, words)
  <1>10. s = PumpSif1Ee(Receiver1, words)
    OBVIOUS
  <1> HIDE DEF s
  <1> QED
    BY <1>6, <1>7, <1>8, <1>9, <1>10, StartHolds

\* The other starts send none of the EE's words.
LEMMA OtherStart ==
    ASSUME LinkHolds, NEW s1 \in Rec1,
           s1.f0 = fifo0, s1.f1 = fifo1, s1.irq = sif_irqs[10], s1.got = got["sif1"], s1.resets = iop_resets,
           s1.ch.left = iop_sif1.left, s1.ch.pad = iop_sif1.pad, s1.ch.end = iop_sif1.end,
           s1.ch.cmd = iop_sif1.cmd, s1.ch.busy \/ s1.ch.busy = iop_sif1.busy,
           NEW ch0 \in Chan0, ch0.qwc = 0, ~ch0.tag_end, NEW ts, ts = <<>> \/ Transfer(ts, Len(sent["sif0"])),
           PumpSif(s1, <<>>, ch0, ts), unsent' = unsent,
           sent' \in [Path -> Seq(SifPacket)], sent'["sif1"] = sent["sif1"], sent'["sif0"] = sent["sif0"] \o ts
    PROVE  LinkHolds' /\ FlushedStep
  <1> DEFINE s == PumpSif1Ee(s1, <<>>)
  <1>1. /\ Started(s, unsent, sent["sif1"], ch0, ts) /\ s.f1 \o unsent = fifo1 \o unsent
    BY LinkAtRest, StartReceives
  <1>2. s = PumpSif1Ee(s1, <<>>) /\ Aligned(unsent)
    BY LinkAtRest
  <1> HIDE DEF s
  <1> QED
    BY <1>1, <1>2, StartHolds

LEMMA IopStartSif0Holds ==
    ASSUME LinkHolds, IopStartSif0
    PROVE  LinkHolds' /\ FlushedStep
  <1>1. PICK ts \in Packets("sif0") :
            /\ sent' = [sent EXCEPT !["sif0"] = @ \o ts]
            /\ UNCHANGED unsent
            /\ PumpSif(Receiver1, <<>>, ee_sif0, ts)
    BY DEF IopStartSif0
  <1>2. SifTypes
    BY DEF LinkHolds
  <1>3. Transfer(ts, Len(sent["sif0"]))
    BY <1>2, PacketsAre DEF Path
  <1>4. sent \in [Path -> Seq(SifPacket)] /\ sent["sif0"] \in Seq(SifPacket)
    BY LinkAtRest
  <1>5. sent["sif0"] \o ts \in Seq(SifPacket)
    <2>1. ts \in Seq(SifPacket)
      <3>1. Len(sent["sif0"]) \in Nat
        BY <1>4
      <3> QED
        BY <1>3, <3>1, TransferIs
    <2> QED
      BY <1>4, <2>1, ConcatProperties
  <1> DEFINE x == sent["sif0"] \o ts
  <1>6. sent' = [sent EXCEPT !["sif0"] = x]
    BY <1>1, <1>4 DEF Path
  <1>7. x \in Seq(SifPacket)
    BY <1>5
  <1> HIDE DEF x
  <1>8. sent' \in [Path -> Seq(SifPacket)] /\ sent'["sif1"] = sent["sif1"] /\ sent'["sif0"] = x
    BY <1>4, <1>6, <1>7 DEF Path
  <1> QED
    BY <1>1, <1>3, <1>8, LinkAtRest, OtherStart DEF x

LEMMA IopStartSif1Holds ==
    ASSUME LinkHolds, IopStartSif1
    PROVE  LinkHolds' /\ FlushedStep
  <1> DEFINE s1 == [Receiver1 EXCEPT !.ch.busy = TRUE]  c == [iop_sif1 EXCEPT !.busy = TRUE]
  <1>1. PumpSif(s1, <<>>, ee_sif0, <<>>) /\ unsent' = unsent /\ sent' = sent
    BY DEF IopStartSif1
  <1>2. c \in Chan1 /\ c.busy = TRUE /\ c.left = iop_sif1.left /\ c.pad = iop_sif1.pad /\ c.end = iop_sif1.end /\ c.cmd = iop_sif1.cmd
    BY LinkAtRest DEF Chan1
  <1>3. s1 = [Receiver1 EXCEPT !.ch = c]
    BY DEF Receiver1
  <1> HIDE DEF c, s1
  <1>4. /\ s1 \in Rec1 /\ s1.f0 = fifo0 /\ s1.f1 = fifo1 /\ s1.irq = sif_irqs[10] /\ s1.got = got["sif1"]
        /\ s1.resets = iop_resets /\ s1.ch = c
    BY <1>2, <1>3, LinkAtRest DEF Rec1
  <1>5. sent' \in [Path -> Seq(SifPacket)] /\ sent'["sif1"] = sent["sif1"] /\ sent'["sif0"] = sent["sif0"] \o <<>>
    BY <1>1, LinkAtRest
  <1> QED
    BY <1>1, <1>2, <1>4, <1>5, LinkAtRest, OtherStart

LEMMA EeStartSif0Holds ==
    ASSUME LinkHolds, EeStartSif0
    PROVE  LinkHolds' /\ FlushedStep
  <1> DEFINE c == [ee_sif0 EXCEPT !.str = TRUE]
  <1>1. PumpSif(Receiver1, <<>>, c, <<>>) /\ unsent' = unsent /\ sent' = sent
    BY DEF EeStartSif0
  <1>2. c \in Chan0 /\ c.qwc = 0 /\ ~c.tag_end
    <2>1. c \in Chan0 /\ c.qwc = ee_sif0.qwc /\ c.tag_end = ee_sif0.tag_end
      BY LinkAtRest DEF Chan0
    <2> QED
      BY <2>1, LinkAtRest
  <1> HIDE DEF c
  <1>3. sent' \in [Path -> Seq(SifPacket)] /\ sent'["sif1"] = sent["sif1"] /\ sent'["sif0"] = sent["sif0"] \o <<>>
    BY <1>1, LinkAtRest
  <1> QED
    BY <1>1, <1>2, <1>3, LinkAtRest, OtherStart

LEMMA LinkBegins == SifInit => LinkHolds
  <1> SUFFICES ASSUME SifInit PROVE LinkHolds
    OBVIOUS
  <1> DEFINE n == <<>>
  <1>1. /\ fifo0 = n /\ fifo1 = n /\ unsent = n /\ iop_sif1 = Idle1(FALSE)
        /\ ee_sif0 = [str |-> FALSE, qwc |-> 0, tag_end |-> FALSE]
        /\ sif_irqs = [c \in SifChannel |-> 0] /\ iop_resets = 0
        /\ sent = [p \in Path |-> n] /\ got = [p \in Path |-> n] /\ reset_at = [p \in Path |-> 0]
    BY DEF SifInit
  <1>2. n \in Seq(SifWord) /\ n \in Seq(SifPacket) /\ Len(n) = 0 /\ n \o n = n
    BY ConcatEmptySeq
  <1> HIDE DEF n
  <1> DEFINE c1 == Idle1(FALSE)
  <1>3. /\ sent["sif0"] = n /\ sent["sif1"] = n /\ got["sif0"] = n /\ got["sif1"] = n
        /\ sif_irqs[10] = 0 /\ sif_irqs[5] = 0
        /\ fifo0 = n /\ fifo1 = n /\ unsent = n /\ iop_sif1 = c1 /\ iop_resets = 0
    BY <1>1 DEF Path, SifChannel
  <1>4. SifTypes
    BY <1>1, <1>2 DEF SifTypes
  <1>5. Numbered(n) /\ ResetAlone(n) /\ Laid(n, n) /\ Aligned(n) /\ n = <<>>
    BY <1>2 DEF Numbered, ResetAlone, Laid, Aligned, n
  <1>6. \A wh : Taken(n, n, n, wh)
    <2>1. DataSent(n) = {}
      <3>1. DOMAIN n = {}
        BY <1>2 DEF n
      <3> QED
        BY <3>1 DEF DataSent
    <2> QED
      BY <1>2, <2>1 DEF Taken
  <1>7. Cardinality(LandedEnds(n, n)) = 0
    <2>1. LandedEnds(n, n) = {}
      <3>1. DOMAIN n = {}
        BY <1>2 DEF n
      <3> QED
        BY <3>1 DEF LandedEnds
    <2> QED
      BY <2>1, FS_EmptySet
  <1>9. c1.left = 0 /\ c1.pad = 0 /\ c1.end = FALSE /\ c1.busy = FALSE /\ c1 \in Chan1
    BY DEF Idle1, Chan1
  <1> HIDE DEF c1
  <1>8. /\ Receiver1 \in Rec1 /\ Receiver1.f1 = n /\ Receiver1.ch = c1 /\ Receiver1.irq = 0
        /\ Receiver1.got = n /\ Receiver1.resets = 0
    BY <1>2, <1>3, <1>9 DEF Receiver1, Rec1
  <1>10. Stands1(c1, n) /\ Settled(c1) /\ Pending1(c1) = 0
    BY <1>5, <1>9 DEF Stands1, Settled, Pending1
  <1>11. Core1(c1, n, n, 0, n, iop_resets = 0)
    <2>1. 0 + Pending1(c1) = Cardinality(LandedEnds(n, n))
      BY <1>7, <1>10
    <2> QED
      BY <1>5, <1>6, <1>9, <1>10, <2>1 DEF Core1
  <1>12. Path1Holds
    <2>1. AtReset(n, n, 0)
      BY <1>2 DEF AtReset
    <2>2. Pumped1(Receiver1, unsent, n)
      BY <1>2, <1>3, <1>8, <1>10, <1>11, <2>1 DEF Pumped1
    <2>3. Rests1(Receiver1)
      BY <1>8, <1>9 DEF Rests1
    <2> QED
      BY <1>3, <1>5, <2>2, <2>3 DEF Path1Holds
  <1>13. Path0Holds
    <2> DEFINE c == [str |-> FALSE, qwc |-> 0, tag_end |-> FALSE]
    <2>1. c \in Chan0 /\ c.str = FALSE /\ c.qwc = 0 /\ c.tag_end = FALSE /\ ee_sif0 = c
      BY <1>1 DEF Chan0
    <2> HIDE DEF c
    <2>2. /\ Receiver0(fifo0) \in Rec0 /\ Receiver0(fifo0).f0 = n /\ Receiver0(fifo0).ch = c
          /\ Receiver0(fifo0).irq = 0 /\ Receiver0(fifo0).got = n
      BY <1>2, <1>3, <2>1 DEF Receiver0, Rec0
    <2>3. Stands0(c, n) /\ Pending0(c) = 0
      BY <1>5, <2>1 DEF Stands0, Pending0
    <2>4. Pumped0(Receiver0(fifo0), n, iop_resets = 0)
      BY <1>5, <1>6, <1>7, <2>2, <2>3 DEF Pumped0
    <2>5. Rests0(Receiver0(fifo0))
      BY <2>1, <2>2 DEF Rests0
    <2> QED
      BY <1>3, <1>5, <2>4, <2>5 DEF Path0Holds
  <1>14. MarksHold
    BY <1>1 DEF MarksHold
  <1> QED
    BY <1>4, <1>12, <1>13, <1>14 DEF LinkHolds

LEMMA LinkStutters ==
    ASSUME LinkHolds, UNCHANGED sif_dma
    PROVE  LinkHolds' /\ FlushedStep
  <1>1. /\ fifo0' = fifo0 /\ fifo1' = fifo1 /\ unsent' = unsent /\ iop_sif1' = iop_sif1 /\ ee_sif0' = ee_sif0
        /\ sif_irqs' = sif_irqs /\ sent' = sent /\ got' = got /\ iop_resets' = iop_resets /\ reset_at' = reset_at
    BY DEF sif_dma, fifos
  <1>2. Receiver1' = Receiver1 /\ Receiver0(fifo0)' = Receiver0(fifo0)
    BY <1>1 DEF Receiver1, Receiver0
  <1>3. SifTypes'
    BY <1>1 DEF LinkHolds, SifTypes
  <1>4. Path1Holds'
    BY <1>1, <1>2 DEF LinkHolds, Path1Holds
  <1>5. Path0Holds'
    BY <1>1, <1>2 DEF LinkHolds, Path0Holds
  <1>6. MarksHold'
    BY <1>1 DEF LinkHolds, MarksHold
  <1>7. FlushedStep
    BY <1>1 DEF FlushedStep
  <1> QED
    BY <1>3, <1>4, <1>5, <1>6, <1>7 DEF LinkHolds

(***************************************************************************)
(* What the invariant says of the link.                                    *)
(***************************************************************************)
LEMMA InOrder ==
    ASSUME NEW ps, Numbered(ps), NEW q, Laid(q, ps), NEW g, NEW whole, Taken(g, q, ps, whole)
    PROVE  LET S == DataSent(ps)
               R == Received(g)
           IN /\ R \subseteq S
              /\ \A i \in 2 .. Len(g) : Before(g[i - 1], g[i])
              /\ whole => \A v \in R, w \in S \ R : Before(v, w)
  <1> DEFINE S == DataSent(ps)  R == Received(g)
  <1>1. /\ g \in Seq(SifWord) /\ q \in Seq(SifWord)
        /\ \A i \in 1 .. Len(g) : g[i] \in S /\ Passed(g[i], q)
        /\ \A j \in 1 .. Len(g) : \A i \in 1 .. j - 1 : Before(g[i], g[j])
        /\ whole => \A v \in S : Passed(v, q) => \E i \in 1 .. Len(g) : g[i] = v
    BY DEF Taken, Laid
  <1>2. \A v : v \in R <=> \E i \in 1 .. Len(g) : g[i] = v
    <2>1. DOMAIN g = 1 .. Len(g)
      BY <1>1
    <2> QED
      BY <2>1 DEF Received
  <1>3. \A v \in S : v \in SifWord
    BY DataIs
  <1> HIDE DEF R, S
  <1>4. R \subseteq S
    BY <1>1, <1>2
  <1>5. ASSUME NEW i \in 2 .. Len(g) PROVE Before(g[i - 1], g[i])
    <2>1. i \in 1 .. Len(g) /\ i - 1 \in 1 .. i - 1
      BY <1>1
    <2> QED
      BY <1>1, <2>1
  <1>6. ASSUME whole, NEW v \in R, NEW w \in S \ R PROVE Before(v, w)
    <2>1. Passed(v, q) /\ v \in SifWord /\ w \in SifWord
      BY <1>1, <1>2, <1>3, <1>4
    <2>2. ~Passed(w, q)
      BY <1>1, <1>2, <1>6
    <2>3. q # <<>> /\ ~Before(w, q[1]) /\ Before(v, q[1])
      BY <2>1, <2>2 DEF Passed
    <2>4. q[1] \in SifWord
      <3>1. 1 \in 1 .. Len(q)
        BY <1>1, <2>3
      <3> QED
        BY <1>1, <3>1
    <2> DEFINE a == v.p.no  b == q[1].p.no  c == w.p.no  x == v.i  y == q[1].i  z == w.i
    <2>5. a \in Nat /\ b \in Nat /\ c \in Nat /\ x \in Nat /\ y \in Nat /\ z \in Nat
      BY <2>1, <2>4 DEF SifWord, SifPacket
    <2> HIDE DEF a, b, c, x, y, z
    <2>6. (a < b \/ (a = b /\ x < y)) /\ ~(c < b \/ (c = b /\ z < y))
      BY <2>3 DEF Before, a, b, c, x, y, z
    <2>7. a < c \/ (a = c /\ x < z)
      BY <2>5, <2>6
    <2> QED
      BY <2>7 DEF Before, a, c, x, z
  <1>7. \A v \in R, w \in S \ R : whole => Before(v, w)
    BY <1>6
  <1> QED
    BY <1>4, <1>5, <1>7 DEF R, S

\* With data still to land or none of the packet left: never at rest between a
\* packet's data and its padding, which are of one quadword.
LEMMA RestIs1 ==
    ASSUME NEW s, NEW u, NEW ps, Pumped1(s, u, ps), Rests1(s), Aligned(u), u \in Seq(SifWord)
    PROVE  Pending1(s.ch) = 0 /\ (s.ch.left + s.ch.pad = 0 /\ s.f1 # <<>> => s.f1[1].i = 0)
  <1> DEFINE l == s.ch.left  p == s.ch.pad  q == s.f1 \o u
  <1>1. /\ s.ch \in Chan1 /\ s.f1 \in Seq(SifWord) /\ Stands1(s.ch, q) /\ Settled(s.ch)
        /\ q \in Seq(SifWord)
    BY DEF Pumped1, Rec1, Core1, Laid
  <1>2. l \in Nat /\ p \in Nat
    BY <1>1 DEF Chan1
  <1>3. l + p = 0 /\ s.f1 # <<>> => s.f1[1].i = 0
    <2> SUFFICES ASSUME l + p = 0, s.f1 # <<>> PROVE s.f1[1].i = 0
      OBVIOUS
    <2>1. 1 \in 1 .. Len(s.f1)
      BY <1>1
    <2>2. q[1] = s.f1[1] /\ Len(q) = Len(s.f1) + Len(u) /\ Len(s.f1) \in Nat /\ Len(u) \in Nat
      BY <1>1, <2>1, ConcatProperties
    <2> HIDE DEF q
    <2>3. q # <<>>
      <3>1. Len(q) # 0
        BY <2>1, <2>2
      <3> QED
        BY <3>1
    <2> QED
      BY <1>1, <2>2, <2>3 DEF Stands1
  <1>4. Pending1(s.ch) = 0
    <2>1. CASE l + p = 0
      BY <1>1, <2>1 DEF Settled, Pending1
    <2>2. CASE l + p # 0
      <3>1. l + p > 0
        <4> HIDE DEF l, p
        <4> QED
          BY <1>2, <2>2
      <3>2. /\ s.ch.busy /\ q # <<>>
            /\ q[1].i + l + p = FrameLen(q[1].p) /\ (l = 0 => q[1].i >= 4 + q[1].p.n)
        BY <1>1, <3>1 DEF Stands1
      <3>3. s.f1 = <<>>
        BY <2>2, <3>2 DEF Rests1
      <3>4. q = u
        BY <3>3, ConcatEmptySeq
      <3>5. 1 \in 1 .. Len(u) /\ u[1] \in SifWord
        BY <3>2, <3>4
      <3> DEFINE w == u[1]  a == w.i  n == w.p.n  Q == Quads(w.p.n)  F == FrameLen(w.p)
      <3>6. w.p \in SifPacket /\ a \in Nat
        BY <3>5 DEF SifWord
      <3>7. /\ Q \in Nat /\ F \in Nat /\ F = 4 + 4 * Q /\ 4 * Q >= n /\ 4 * Q < n + 4 /\ n \in Nat
        BY <3>6, FrameFacts
      <3>8. a % 4 = 0
        BY <3>5 DEF Aligned
      <3>9. a + l + p = F /\ (l = 0 => a >= 4 + n)
        BY <3>2, <3>4
      <3> DEFINE d == a \div 4  m == a % 4
      <3>10. d \in Nat /\ a = d * 4 + 0
        <4> HIDE DEF a
        <4>1. 4 \in Nat \ {0}
          OBVIOUS
        <4>2. d \in Nat /\ a = d * 4 + m
          BY <3>6, <4>1, SplitOf
        <4> QED
          BY <3>8, <4>2
      <3> HIDE DEF a, n, Q, F, d, l, p
      <3>11. l # 0
        BY <1>2, <3>1, <3>6, <3>7, <3>9, <3>10
      <3> QED
        BY <3>11 DEF Pending1, l
    <2> QED
      BY <2>1, <2>2
  <1> QED
    BY <1>3, <1>4

LinkKeeps == ReceivedInOrder /\ NothingStuck /\ AtATag /\ EndSignalled
LEMMA LinkSays == LinkHolds => LinkKeeps
  <1> SUFFICES ASSUME LinkHolds PROVE LinkKeeps
    OBVIOUS
  <1> DEFINE p1 == sent["sif1"]  p0 == sent["sif0"]  g1 == got["sif1"]  g0 == got["sif0"]
             r0 == Receiver0(fifo0)
  <1>1. /\ Pumped1(Receiver1, unsent, p1) /\ Rests1(Receiver1) /\ Numbered(p1) /\ Aligned(unsent) /\ unsent \in Seq(SifWord)
        /\ Pumped0(r0, p0, iop_resets = 0) /\ Rests0(r0) /\ Numbered(p0) /\ sif_irqs \in [SifChannel -> Nat]
    BY DEF LinkHolds, Path1Holds, Path0Holds, SifTypes
  <1>2. /\ ee_sif0.qwc = 0 /\ ~ee_sif0.tag_end /\ (ee_sif0.str => Len(fifo0) < 4)
    BY LinkAtRest
  <1>3. Pending1(iop_sif1) = 0 /\ (iop_sif1.left + iop_sif1.pad = 0 /\ fifo1 # <<>> => fifo1[1].i = 0)
    <2>1. /\ Pending1(Receiver1.ch) = 0
          /\ (Receiver1.ch.left + Receiver1.ch.pad = 0 /\ Receiver1.f1 # <<>> => Receiver1.f1[1].i = 0)
      BY <1>1, RestIs1
    <2> QED
      BY <2>1 DEF Receiver1
  <1>4. /\ Laid(fifo1 \o unsent, p1) /\ Taken(g1, fifo1 \o unsent, p1, iop_resets = 0)
        /\ sif_irqs[10] + Pending1(iop_sif1) = Cardinality(LandedEnds(p1, g1))
    BY <1>1 DEF Pumped1, Core1, Receiver1
  <1>5. /\ Laid(fifo0, p0) /\ Taken(g0, fifo0, p0, iop_resets = 0) /\ Stands0(ee_sif0, fifo0)
        /\ sif_irqs[5] + Pending0(ee_sif0) = Cardinality(LandedEnds(p0, g0))
    BY <1>1 DEF Pumped0, Receiver0
  <1>6. ReceivedInOrder
    <2> SUFFICES ASSUME NEW p \in Path
                 PROVE  LET S == DataSent(sent[p])
                            R == Received(got[p])
                        IN /\ R \subseteq S
                           /\ \A i \in 2 .. Len(got[p]) : Before(got[p][i - 1], got[p][i])
                           /\ iop_resets = 0 => \A v \in R, w \in S \ R : Before(v, w)
      BY DEF ReceivedInOrder
    <2>1. CASE p = "sif1"
      <3> DEFINE ps == p1  q == fifo1 \o unsent  g == g1  wh == (iop_resets = 0)
      <3>1. Numbered(ps) /\ Laid(q, ps) /\ Taken(g, q, ps, wh)
        BY <1>1, <1>4
      <3> HIDE DEF ps, q, g, wh
      <3>2. /\ Received(g) \subseteq DataSent(ps)
            /\ \A i \in 2 .. Len(g) : Before(g[i - 1], g[i])
            /\ wh => \A v \in Received(g), w \in DataSent(ps) \ Received(g) : Before(v, w)
        BY <3>1, InOrder
      <3> QED
        BY <2>1, <3>2 DEF ps, g, wh
    <2>2. CASE p = "sif0"
      <3> DEFINE ps == p0  q == fifo0  g == g0  wh == (iop_resets = 0)
      <3>1. Numbered(ps) /\ Laid(q, ps) /\ Taken(g, q, ps, wh)
        BY <1>1, <1>5
      <3> HIDE DEF ps, q, g, wh
      <3>2. /\ Received(g) \subseteq DataSent(ps)
            /\ \A i \in 2 .. Len(g) : Before(g[i - 1], g[i])
            /\ wh => \A v \in Received(g), w \in DataSent(ps) \ Received(g) : Before(v, w)
        BY <3>1, InOrder
      <3> QED
        BY <2>2, <3>2 DEF ps, g, wh
    <2> QED
      BY <2>1, <2>2 DEF Path
  <1>7. NothingStuck
    <2>1. iop_sif1.busy => IF iop_sif1.left + iop_sif1.pad = 0 THEN Len(fifo1) < 4 ELSE fifo1 = <<>>
      BY <1>1 DEF Rests1, Receiver1
    <2> QED
      BY <1>2, <2>1 DEF NothingStuck
  <1>8. AtATag
    BY <1>2, <1>3, <1>5 DEF AtATag, Stands0
  <1>9. EndSignalled
    <2> DEFINE a == sif_irqs[10]  b == sif_irqs[5]
    <2>1. a \in Nat /\ b \in Nat
      BY <1>1 DEF SifChannel
    <2>2. Pending0(ee_sif0) = 0
      BY <1>2 DEF Pending0
    <2>3. a + 0 = Cardinality(LandedEnds(p1, g1)) /\ b + 0 = Cardinality(LandedEnds(p0, g0))
      BY <1>3, <1>4, <1>5, <2>2
    <2> HIDE DEF a, b
    <2>4. a + 0 = a /\ b + 0 = b
      BY <2>1
    <2> QED
      BY <2>3, <2>4 DEF EndSignalled, a, b
  <1> QED
    BY <1>6, <1>7, <1>8, <1>9 DEF LinkKeeps

\* The link of the two processors: what is received was sent, in its order and, up
\* to a reset, all of it; a reset leaves nothing of what it cut on the link; no
\* channel waits with data it could take; each end is signalled once; and a raised
\* flag bit stays until it has been read.
THEOREM LinkKept == SifSpec => SifKept
  <1>1. SifInit => LinkHolds /\ DoorbellKept
    <2>1. SifInit => DoorbellKept
      BY DEF SifInit, DoorbellKept
    <2> QED
      BY <2>1, LinkBegins
  <1>2. LinkHolds /\ [SifDmaNext \/ SifMailNext]_<<sif_dma, sif_mail>> => LinkHolds' /\ [FlushedStep]_sif_dma
    <2> SUFFICES ASSUME LinkHolds, [SifDmaNext \/ SifMailNext]_<<sif_dma, sif_mail>> PROVE LinkHolds' /\ FlushedStep
      OBVIOUS
    <2>1. CASE Frame
      BY <2>1, FrameHolds
    <2>2. CASE EeStartSif1
      BY <2>2, EeStartSif1Holds
    <2>3. CASE IopStartSif0
      BY <2>3, IopStartSif0Holds
    <2>4. CASE IopStartSif1
      BY <2>4, IopStartSif1Holds
    <2>5. CASE EeStartSif0
      BY <2>5, EeStartSif0Holds
    <2>6. CASE SifMailNext \/ UNCHANGED <<sif_dma, sif_mail>>
      <3>1. UNCHANGED sif_dma
        BY <2>6 DEF SifMailNext, IopRaise, EeRead, EeAck
      <3> QED
        BY <3>1, LinkStutters
    <2> QED
      BY <2>1, <2>2, <2>3, <2>4, <2>5, <2>6 DEF SifDmaNext
  <1>3. DoorbellKept /\ [SifDmaNext \/ SifMailNext]_<<sif_dma, sif_mail>> => DoorbellKept'
    <2> SUFFICES ASSUME DoorbellKept, [SifDmaNext \/ SifMailNext]_<<sif_dma, sif_mail>> PROVE DoorbellKept'
      OBVIOUS
    <2>1. CASE IopRaise
      BY <2>1 DEF IopRaise, DoorbellKept
    <2>2. CASE EeRead
      BY <2>2 DEF EeRead, DoorbellKept
    <2>3. CASE EeAck
      BY <2>3 DEF EeAck, EeClear, DoorbellKept
    <2>4. CASE SifDmaNext \/ UNCHANGED <<sif_dma, sif_mail>>
      <3>1. UNCHANGED sif_mail
        BY <2>4 DEF SifDmaNext, Frame, EeStartSif1, IopStartSif0, IopStartSif1, EeStartSif0, PumpSif
      <3> QED
        BY <3>1 DEF sif_mail, DoorbellKept
    <2> QED
      BY <2>1, <2>2, <2>3, <2>4 DEF SifMailNext
  <1>4. LinkHolds => ReceivedInOrder /\ NothingStuck /\ AtATag /\ EndSignalled
    BY LinkSays DEF LinkKeeps
  <1>5. [FlushedStep]_sif_dma =>
          [iop_resets > 0 => \A p \in Path : \A i \in DOMAIN got'[p] \ DOMAIN got[p] :
                                 got'[p][i].p.no > reset_at[p]]_sif_dma
    BY DEF FlushedStep
  <1> QED
    BY <1>1, <1>2, <1>3, <1>4, <1>5, PTL DEF SifSpec, SifKept, ResetFlushes

(***************************************************************************)
(* The chains of the EE's DMA controller: what a program means.            *)
(***************************************************************************)
ChainTags == {"cnt", "ref", "refe", "next", "call", "ret", "end"}
ChainQuad == [at : Nat, upper : BOOLEAN]
ChainBlock(b) ==
    /\ b.id \in ChainTags /\ b.qwc \in Nat /\ b.irq \in BOOLEAN
    /\ IF b.id \in {"next", "call"} THEN b.to \in Routine ELSE b.to \in Nat

\* The sums of a sequence of numbers.
LEMMA SumIs ==
    ASSUME NEW x, Len(x) \in Nat, \A i \in 1 .. Len(x) : x[i] \in Nat
    PROVE  /\ SumTo(x)[0] = 0
           /\ \A i \in 1 .. Len(x) : SumTo(x)[i] = SumTo(x)[i - 1] + x[i]
           /\ \A i \in 0 .. Len(x) : SumTo(x)[i] \in Nat
  <1> DEFINE G(n, g) == g = [k \in 0 .. n |-> IF k = 0 THEN 0 ELSE g[k - 1] + x[k]]
             S == { n \in Nat : \E g : G(n, g) }
             f == SumTo(x)
             m == Len(x)
  <1>1. 0 \in S
    <2>1. G(0, [k \in 0 .. 0 |-> 0])
      OBVIOUS
    <2> QED
      BY <2>1
  <1>2. ASSUME NEW n \in S PROVE n + 1 \in S
    <2>1. PICK g : G(n, g)
      OBVIOUS
    <2> DEFINE h == [k \in 0 .. n + 1 |-> IF k <= n THEN g[k] ELSE g[n] + x[n + 1]]
    <2>2. \A k \in 0 .. n + 1 : h[k] = IF k = 0 THEN 0 ELSE h[k - 1] + x[k]
      BY <2>1
    <2>3. G(n + 1, h)
      BY <2>2
    <2>4. n + 1 \in Nat /\ \E e : G(n + 1, e)
      <3> HIDE DEF h, G
      <3> QED
        BY <2>3
    <2> QED
      BY <2>4
  <1>3. S = Nat
    <2> HIDE DEF S
    <2> QED
      BY <1>1, <1>2, Induction, S \subseteq Nat DEF S
  <1>4. G(m, f)
    <2>1. \E g : G(m, g)
      BY <1>3
    <2>2. f = CHOOSE g : G(m, g)
      BY DEF SumTo
    <2> HIDE DEF f
    <2> QED
      BY <2>1, <2>2
  <1> HIDE DEF f
  <1>5. f[0] = 0 /\ \A i \in 1 .. m : f[i] = f[i - 1] + x[i]
    BY <1>4
  <1> DEFINE T == { n \in Nat : n <= m => f[n] \in Nat }
  <1>6. 0 \in T
    BY <1>5
  <1>7. ASSUME NEW n \in T PROVE n + 1 \in T
    <2> SUFFICES ASSUME n + 1 <= m PROVE f[n + 1] \in Nat
      OBVIOUS
    <2>1. n + 1 \in 1 .. m /\ f[n] \in Nat /\ (n + 1) - 1 = n
      OBVIOUS
    <2> QED
      BY <1>5, <2>1
  <1>8. T = Nat
    <2> HIDE DEF T
    <2> QED
      BY <1>6, <1>7, Induction, T \subseteq Nat DEF T
  <1>9. \A i \in 0 .. m : f[i] \in Nat
    BY <1>8
  <1> QED
    BY <1>5, <1>9 DEF f

\* What Sound says of a program's blocks, and where they lie.
LEMMA BlocksAre ==
    ASSUME NEW p, Sound(p), NEW r \in Routine
    PROVE  /\ Len(p[r]) \in Nat /\ 1 \in 1 .. Len(p[r]) /\ DOMAIN p[r] = 1 .. Len(p[r])
           /\ \A i \in 1 .. Len(p[r]) :
                 /\ ChainBlock(p[r][i]) /\ Size(p[r][i]) \in Nat
                 /\ p[r][i].id \in {"cnt", "ref", "call"} => i + 1 \in 1 .. Len(p[r])
  <1>1. /\ Len(p[r]) \in Nat \ {0} /\ DOMAIN p[r] = 1 .. Len(p[r])
        /\ \A i \in DOMAIN p[r] :
              /\ ChainBlock(p[r][i])
              /\ p[r][i].id \in {"cnt", "ref", "call"} => i < Len(p[r])
    BY DEF Sound, ChainBlock, ChainTags
  <1>2. ASSUME NEW i \in 1 .. Len(p[r]) PROVE Size(p[r][i]) \in Nat
    <2> DEFINE b == p[r][i]
    <2>1. b.qwc \in Nat
      BY <1>1 DEF ChainBlock
    <2> HIDE DEF b
    <2>2. Size(b) \in Nat
      BY <2>1 DEF Size
    <2> QED
      BY <2>2 DEF b
  <1> QED
    BY <1>1, <1>2

LEMMA AtIs ==
    ASSUME NEW p, Sound(p), NEW r \in Routine
    PROVE  /\ At(p, r, 1) = Origin[r]
           /\ \A i \in 1 .. Len(p[r]) : /\ At(p, r, i) \in Nat
                                        /\ At(p, r, i + 1) = At(p, r, i) + Size(p[r][i])
  <1> DEFINE n == Len(p[r])
             x == [k \in 1 .. n |-> Size(p[r][k])]
             f == SumTo(x)
             o == Origin[r]
  <1>1. n \in Nat /\ \A i \in 1 .. n : Size(p[r][i]) \in Nat
    BY BlocksAre
  <1>2. o \in Nat
    BY ChainAssumption
  <1>3. \A i : At(p, r, i) = o + f[i - 1]
    BY DEF At
  <1>4. Len(x) = n /\ \A i \in 1 .. n : x[i] = Size(p[r][i])
    <2> HIDE DEF n
    <2> QED
      BY <1>1
  <1> HIDE DEF x, n, o
  <1>5. f[0] = 0 /\ (\A i \in 1 .. n : f[i] = f[i - 1] + x[i]) /\ \A i \in 0 .. n : f[i] \in Nat
    <2>1. Len(x) \in Nat /\ \A i \in 1 .. Len(x) : x[i] \in Nat
      BY <1>1, <1>4
    <2>2. /\ SumTo(x)[0] = 0 /\ (\A i \in 1 .. Len(x) : SumTo(x)[i] = SumTo(x)[i - 1] + x[i])
          /\ \A i \in 0 .. Len(x) : SumTo(x)[i] \in Nat
      BY <2>1, SumIs
    <2> QED
      BY <1>4, <2>2
  <1> HIDE DEF f
  <1>6. At(p, r, 1) = o
    BY <1>2, <1>3, <1>5
  <1>7. ASSUME NEW i \in 1 .. n
        PROVE  At(p, r, i) \in Nat /\ At(p, r, i + 1) = At(p, r, i) + Size(p[r][i])
    <2>1. i - 1 \in 0 .. n /\ i \in 0 .. n /\ (i + 1) - 1 = i
      BY <1>1
    <2>2. f[i - 1] \in Nat /\ f[i] = f[i - 1] + x[i] /\ x[i] = Size(p[r][i]) /\ x[i] \in Nat
      BY <1>1, <1>4, <1>5, <2>1
    <2>3. At(p, r, i) = o + f[i - 1] /\ At(p, r, i + 1) = o + f[i]
      BY <1>3, <2>1
    <2> QED
      BY <1>2, <2>2, <2>3
  <1> QED
    BY <1>6, <1>7 DEF n, o

\* The controller finds a block's tag where the software laid it.
LEMMA TagFound ==
    ASSUME NEW p, Sound(p), NEW r \in Routine, NEW i \in 1 .. Len(p[r])
    PROVE  TagAt(p, At(p, r, i)) = p[r][i]
  <1> DEFINE a == At(p, r, i)
  <1>1. i \in DOMAIN p[r]
    BY BlocksAre
  <1>2. p[r][i] \in Blocks(p, a)
    BY <1>1 DEF Blocks
  <1>3. ASSUME NEW b \in Blocks(p, a) PROVE b = p[r][i]
    <2>1. PICK s \in Routine : b \in { p[s][k] : k \in { j \in DOMAIN p[s] : At(p, s, j) = a } }
      BY DEF Blocks
    <2>2. PICK k \in DOMAIN p[s] : At(p, s, k) = a /\ b = p[s][k]
      BY <2>1
    <2>3. s = r /\ k = i
      BY <1>1, <2>2 DEF Sound
    <2> QED
      BY <2>2, <2>3
  <1> HIDE DEF a
  <1>4. TagAt(p, a) = CHOOSE b \in Blocks(p, a) : TRUE
    BY <1>2 DEF TagAt
  <1>5. TagAt(p, a) \in Blocks(p, a)
    BY <1>2, <1>4
  <1> QED
    BY <1>3, <1>5 DEF a

\* Any tag the controller can find.
LEMMA TagIs ==
    ASSUME NEW p, Sound(p), NEW a
    PROVE  ChainBlock(TagAt(p, a))
  <1>1. CASE Blocks(p, a) = {}
    <2>1. TagAt(p, a) = [id |-> "end", qwc |-> 0, to |-> 0, irq |-> FALSE]
      BY <1>1 DEF TagAt, Stray
    <2> QED
      BY <2>1 DEF ChainBlock, ChainTags
  <1>2. CASE Blocks(p, a) # {}
    <2> DEFINE b == TagAt(p, a)
    <2>1. b \in Blocks(p, a)
      BY <1>2 DEF TagAt
    <2> HIDE DEF b
    <2>2. PICK s \in Routine : \E k \in DOMAIN p[s] : b = p[s][k]
      BY <2>1 DEF Blocks
    <2> QED
      BY <2>2, BlocksAre DEF b
  <1> QED
    BY <1>1, <1>2

LEMMA ChainConcat ==
    ASSUME NEW x \in Seq(ChainQuad), NEW y \in Seq(ChainQuad)
    PROVE  /\ x \o y \in Seq(ChainQuad) /\ Len(x) \in Nat /\ Len(y) \in Nat /\ Len(x \o y) = Len(x) + Len(y)
           /\ \A k \in 1 .. Len(x) : (x \o y)[k] = x[k]
           /\ \A k \in 1 .. Len(y) : (x \o y)[Len(x) + k] = y[k]
  <1> DEFINE z == x \o y
             a == Len(x)
             b == Len(y)
  <1>1. /\ z \in Seq(ChainQuad) /\ Len(z) = a + b /\ a \in Nat /\ b \in Nat
        /\ \A k \in 1 .. a + b : z[k] = IF k <= a THEN x[k] ELSE y[k - a]
    BY ConcatProperties, LenProperties
  <1> HIDE DEF z, a, b
  <1>2. ASSUME NEW k \in 1 .. a PROVE z[k] = x[k]
    <2>1. k \in 1 .. a + b /\ k <= a
      BY <1>1
    <2> QED
      BY <1>1, <2>1
  <1>3. ASSUME NEW k \in 1 .. b PROVE z[a + k] = y[k]
    <2> DEFINE h == a + k
    <2>1. h \in 1 .. a + b /\ ~(h <= a) /\ h - a = k
      BY <1>1
    <2> HIDE DEF h
    <2>2. z[h] = y[k]
      BY <1>1, <2>1
    <2> QED
      BY <2>2 DEF h
  <1> QED
    BY <1>1, <1>2, <1>3 DEF z, a, b

LEMMA QuadwordsAre ==
    ASSUME NEW a \in Nat, NEW n \in Nat
    PROVE  /\ Quadwords(a, n) \in Seq(ChainQuad) /\ Len(Quadwords(a, n)) = n
           /\ Quadwords(a, n + 1) = Quadwords(a, n) \o Quadwords(a + n, 1)
           /\ Quadwords(a, 0) = << >>
  <1> DEFINE x == Quadwords(a, n)
             y == Quadwords(a + n, 1)
             z == Quadwords(a, n + 1)
  <1>1. x \in Seq(ChainQuad) /\ Len(x) = n /\ \A k \in 1 .. n : x[k] = [at |-> a + k - 1, upper |-> FALSE]
    BY DEF Quadwords, ChainQuad
  <1>2. y \in Seq(ChainQuad) /\ Len(y) = 1 /\ y[1] = [at |-> (a + n) + 1 - 1, upper |-> FALSE]
    BY DEF Quadwords, ChainQuad
  <1>3. z \in Seq(ChainQuad) /\ Len(z) = n + 1 /\ \A k \in 1 .. n + 1 : z[k] = [at |-> a + k - 1, upper |-> FALSE]
    BY DEF Quadwords, ChainQuad
  <1>4. Quadwords(a, 0) = << >>
    BY DEF Quadwords
  <1> HIDE DEF x, y, z
  <1>5. /\ x \o y \in Seq(ChainQuad) /\ Len(x \o y) = n + 1
        /\ (\A k \in 1 .. n : (x \o y)[k] = x[k]) /\ (x \o y)[n + 1] = y[1]
    <2>1. 1 \in 1 .. Len(y) /\ Len(x) = n
      BY <1>1, <1>2
    <2>2. /\ x \o y \in Seq(ChainQuad) /\ Len(x \o y) = Len(x) + Len(y)
          /\ (\A k \in 1 .. Len(x) : (x \o y)[k] = x[k])
          /\ (\A k \in 1 .. Len(y) : (x \o y)[Len(x) + k] = y[k])
      BY <1>1, <1>2, ChainConcat
    <2> QED
      BY <1>2, <2>1, <2>2
  <1>6. \A k \in 1 .. n + 1 : (x \o y)[k] = z[k]
    <2> SUFFICES ASSUME NEW k \in 1 .. n + 1 PROVE (x \o y)[k] = z[k]
      OBVIOUS
    <2>1. CASE k <= n
      <3>1. k \in 1 .. n
        BY <2>1
      <3> QED
        BY <1>1, <1>3, <1>5, <3>1
    <2>2. CASE k = n + 1
      <3>1. a + k - 1 = (a + n) + 1 - 1
        BY <2>2
      <3> QED
        BY <1>2, <1>3, <1>5, <2>2, <3>1
    <2>3. k <= n \/ k = n + 1
      OBVIOUS
    <2> QED
      BY <2>1, <2>2, <2>3
  <1>7. x \o y = z
    <2> DEFINE w == x \o y
    <2> HIDE DEF w
    <2>1. w \in Seq(ChainQuad) /\ Len(w) = Len(z) /\ \A k \in 1 .. Len(w) : w[k] = z[k]
      BY <1>3, <1>5, <1>6 DEF w
    <2>2. w = z
      BY <1>3, <2>1, SeqEqual
    <2> QED
      BY <2>2 DEF w
  <1> QED
    BY <1>1, <1>4, <1>7 DEF x, y, z
\* The readings of a program, by how far they look ahead.
LEMMA ReadingIs ==
    ASSUME NEW p, NEW t, NEW up
    PROVE  /\ \A r \in Routine : \A i \in DOMAIN p[r] : ReadAhead(p, t, up)[0][r][i] = Unread
           /\ \A n \in 1 .. Guard : \A r \in Routine : \A i \in DOMAIN p[r] :
                 ReadAhead(p, t, up)[n][r][i] = MeansAt(p, ReadAhead(p, t, up)[n - 1], r, i, t, up)
  <1> DEFINE Row(n, x) == [r \in Routine |-> [i \in DOMAIN p[r] |->
                               IF n = 0 THEN Unread ELSE MeansAt(p, x, r, i, t, up)]]
             G(n, g) == g = [k \in 0 .. n |-> Row(k, g[k - 1])]
             S == { n \in Nat : \E g : G(n, g) }
             f == ReadAhead(p, t, up)
  <1> HIDE DEF Row
  <1>0. \A x, y : Row(0, x) = Row(0, y)
    BY DEF Row
  <1>1. 0 \in S
    <2> DEFINE h == [k \in 0 .. 0 |-> Row(0, 0)]
    <2>1. \A k \in 0 .. 0 : Row(k, h[k - 1]) = Row(0, 0)
      BY <1>0
    <2>2. h = [k \in 0 .. 0 |-> Row(k, h[k - 1])]
      BY <2>1
    <2>3. \E g : G(0, g)
      <3> HIDE DEF h
      <3> QED
        BY <2>2
    <2> QED
      BY <2>3
  <1>2. ASSUME NEW n \in S PROVE n + 1 \in S
    <2>1. PICK g : G(n, g)
      OBVIOUS
    <2> DEFINE h == [k \in 0 .. n + 1 |-> IF k <= n THEN g[k] ELSE Row(n + 1, g[n])]
    <2>2. \A k \in 0 .. n + 1 : h[k] = Row(k, h[k - 1])
      <3> SUFFICES ASSUME NEW k \in 0 .. n + 1 PROVE h[k] = Row(k, h[k - 1])
        OBVIOUS
      <3>1. CASE k = 0
        <4>1. 0 \in 0 .. n /\ 0 \in 0 .. n + 1 /\ 0 <= n
          OBVIOUS
        <4>2. h[0] = g[0] /\ g[0] = Row(0, g[0 - 1])
          BY <2>1, <4>1
        <4> QED
          BY <1>0, <3>1, <4>2
      <3>2. CASE k \in 1 .. n
        BY <2>1, <3>2
      <3>3. CASE k = n + 1
        BY <2>1, <3>3
      <3> QED
        BY <3>1, <3>2, <3>3
    <2>3. G(n + 1, h)
      BY <2>2
    <2>4. n + 1 \in Nat /\ \E e : G(n + 1, e)
      <3> HIDE DEF h, G
      <3> QED
        BY <2>3
    <2> QED
      BY <2>4
  <1>3. S = Nat
    <2> HIDE DEF S
    <2> QED
      BY <1>1, <1>2, Induction, S \subseteq Nat DEF S
  <1>4. G(Guard, f)
    <2>1. \E g : G(Guard, g)
      BY <1>3, ChainAssumption
    <2>2. f = CHOOSE g : G(Guard, g)
      BY DEF ReadAhead, Row
    <2> HIDE DEF f
    <2> QED
      BY <2>1, <2>2
  <1> HIDE DEF f
  <1>5. \A n \in 0 .. Guard : f[n] = Row(n, f[n - 1])
    BY <1>4
  <1>6. ASSUME NEW r \in Routine, NEW i \in DOMAIN p[r] PROVE f[0][r][i] = Unread
    <2>1. f[0] = Row(0, f[0 - 1])
      BY <1>5, ChainAssumption
    <2> QED
      BY <2>1 DEF Row
  <1>7. ASSUME NEW n \in 1 .. Guard, NEW r \in Routine, NEW i \in DOMAIN p[r]
        PROVE  f[n][r][i] = MeansAt(p, f[n - 1], r, i, t, up)
    <2>1. f[n] = Row(n, f[n - 1]) /\ n # 0
      BY <1>5
    <2> QED
      BY <2>1 DEF Row
  <1> QED
    BY <1>6, <1>7 DEF f

ChainReading == [data : Seq(ChainQuad), stop : BOOLEAN, turns : Nat, nest : Nat]

LEMMA DataAtIs ==
    ASSUME NEW p, Sound(p), NEW r \in Routine, NEW i \in 1 .. Len(p[r]), NEW up
    PROVE  /\ DataAt(p, r, i, up) = (IF up THEN Upper(At(p, r, i)) ELSE << >>)
                  \o Quadwords(IF Inline(p[r][i]) THEN At(p, r, i) + 1 ELSE p[r][i].to, p[r][i].qwc)
           /\ (IF up THEN Upper(At(p, r, i)) ELSE << >>) \in Seq(ChainQuad)
           /\ Quadwords(IF Inline(p[r][i]) THEN At(p, r, i) + 1 ELSE p[r][i].to, p[r][i].qwc) \in Seq(ChainQuad)
           /\ (IF Inline(p[r][i]) THEN At(p, r, i) + 1 ELSE p[r][i].to) \in Nat
           /\ DataAt(p, r, i, up) \in Seq(ChainQuad)
  <1> DEFINE b == p[r][i]
             a == At(p, r, i)
             x == IF up THEN Upper(a) ELSE << >>
             s == IF Inline(b) THEN a + 1 ELSE b.to
  <1>1. a \in Nat /\ ChainBlock(b)
    BY AtIs, BlocksAre
  <1> HIDE DEF a, b
  <1>2. x \in Seq(ChainQuad)
    <2>1. Upper(a) \in Seq(ChainQuad)
      BY <1>1 DEF Upper, ChainQuad
    <2>2. << >> \in Seq(ChainQuad)
      BY EmptySeq
    <2>3. CASE up
      BY <2>1, <2>3
    <2>4. CASE ~up
      BY <2>2, <2>4
    <2> QED
      BY <2>3, <2>4
  <1>3. s \in Nat /\ b.qwc \in Nat
    BY <1>1 DEF ChainBlock, Inline
  <1> HIDE DEF s, x
  <1>4. Quadwords(s, b.qwc) \in Seq(ChainQuad)
    BY <1>3, QuadwordsAre
  <1>5. x \o Quadwords(s, b.qwc) \in Seq(ChainQuad)
    BY <1>2, <1>4, ChainConcat
  <1>6. DataAt(p, r, i, up) = x \o Quadwords(s, b.qwc)
    BY DEF DataAt, x, s, a, b
  <1> QED
    BY <1>2, <1>3, <1>4, <1>5, <1>6 DEF a, b, x, s

\* What a reading is made of, by the block it begins with.
MeansNow(p, r, i, t, up, m) ==
    LET b == p[r][i]
    IN m = [data |-> DataAt(p, r, i, up), stop |-> b.id # "ret" \/ (t /\ b.irq), turns |-> 1 + b.qwc, nest |-> 0]
MeansOn(p, r, i, up, x, m) ==
    /\ m.data = DataAt(p, r, i, up) \o x.data /\ m.stop = x.stop
    /\ m.turns = 1 + p[r][i].qwc + x.turns

MeansSo(p, f, r, i, t, up, m) ==
    LET b == p[r][i]
        h == f[b.to][1]
        x == f[r][i + 1]
    IN /\ m \in ChainReading
       /\ (t /\ b.irq) \/ b.id \in {"refe", "ret", "end"} => MeansNow(p, r, i, t, up, m)
       /\ ~(t /\ b.irq) /\ b.id \in {"cnt", "ref"} =>
             /\ i + 1 \in 1 .. Len(p[r]) /\ x \in ChainReading
             /\ MeansOn(p, r, i, up, x, m) /\ m.nest = x.nest
       /\ ~(t /\ b.irq) /\ b.id = "next" =>
             /\ b.to \in Routine /\ h \in ChainReading
             /\ MeansOn(p, r, i, up, h, m) /\ m.nest = h.nest
       /\ ~(t /\ b.irq) /\ b.id = "call" =>
             /\ b.to \in Routine /\ i + 1 \in 1 .. Len(p[r]) /\ h \in ChainReading /\ x \in ChainReading
             /\ h.stop => MeansOn(p, r, i, up, h, m) /\ m.nest = 1 + h.nest
             /\ ~h.stop => /\ m.data = DataAt(p, r, i, up) \o (h.data \o x.data) /\ m.stop = x.stop
                           /\ m.turns = 1 + b.qwc + (h.turns + x.turns)
                           /\ m.nest >= 1 + h.nest /\ m.nest >= x.nest

LEMMA MeansIs ==
    ASSUME NEW p, Sound(p), NEW r \in Routine, NEW i \in 1 .. Len(p[r]), NEW t \in BOOLEAN, NEW up, NEW f,
           \A s \in Routine : \A k \in DOMAIN p[s] : f[s][k] \in ChainReading
    PROVE  MeansSo(p, f, r, i, t, up, MeansAt(p, f, r, i, t, up))
  <1> DEFINE b == p[r][i]
             m == MeansAt(p, f, r, i, t, up)
             h == f[b.to][1]
             x == f[r][i + 1]
             d == DataAt(p, r, i, up)
             q == b.qwc
             ends == (t /\ b.irq) \/ b.id \in {"refe", "ret", "end"}
             now == [data |-> d, stop |-> b.id # "ret" \/ (t /\ b.irq), turns |-> 1 + b.qwc, nest |-> 0]
             onto(y) == [y EXCEPT !.data = d \o @, !.turns = 1 + b.qwc + @]
  <1> SUFFICES
       /\ m \in ChainReading
       /\ (t /\ b.irq) \/ b.id \in {"refe", "ret", "end"} => MeansNow(p, r, i, t, up, m)
       /\ ~(t /\ b.irq) /\ b.id \in {"cnt", "ref"} =>
             /\ i + 1 \in 1 .. Len(p[r]) /\ x \in ChainReading
             /\ MeansOn(p, r, i, up, x, m) /\ m.nest = x.nest
       /\ ~(t /\ b.irq) /\ b.id = "next" =>
             /\ b.to \in Routine /\ h \in ChainReading
             /\ MeansOn(p, r, i, up, h, m) /\ m.nest = h.nest
       /\ ~(t /\ b.irq) /\ b.id = "call" =>
             /\ b.to \in Routine /\ i + 1 \in 1 .. Len(p[r]) /\ h \in ChainReading /\ x \in ChainReading
             /\ h.stop => MeansOn(p, r, i, up, h, m) /\ m.nest = 1 + h.nest
             /\ ~h.stop => /\ m.data = DataAt(p, r, i, up) \o (h.data \o x.data) /\ m.stop = x.stop
                           /\ m.turns = 1 + b.qwc + (h.turns + x.turns)
                           /\ m.nest >= 1 + h.nest /\ m.nest >= x.nest
    BY DEF MeansSo
  <1>1. d \in Seq(ChainQuad)
    BY DataAtIs
  <1>2. ChainBlock(b)
    BY BlocksAre
  <1>3. b.id \in {"cnt", "ref", "call"} => i + 1 \in 1 .. Len(p[r]) /\ x \in ChainReading
    BY BlocksAre
  <1>4. b.id \in {"next", "call"} => b.to \in Routine /\ h \in ChainReading
    <2>1. b.id \in {"next", "call"} => b.to \in Routine
      BY <1>2 DEF ChainBlock
    <2>2. \A s \in Routine : 1 \in DOMAIN p[s]
      BY BlocksAre
    <2> QED
      BY <2>1, <2>2
  <1>5. /\ ends => m = now
        /\ ~(t /\ b.irq) /\ b.id \in {"cnt", "ref"} => m = onto(x)
        /\ ~(t /\ b.irq) /\ b.id = "next" => m = onto(h)
        /\ ~(t /\ b.irq) /\ b.id = "call" =>
              m = IF h.stop THEN [onto(h) EXCEPT !.nest = 1 + @]
                  ELSE [data |-> d \o (h.data \o x.data), stop |-> x.stop,
                        turns |-> 1 + b.qwc + (h.turns + x.turns), nest |-> Larger(1 + h.nest, x.nest)]
    <2>1. ends => m = now
      BY DEF MeansAt
    <2>2. ~(t /\ b.irq) /\ b.id \in {"cnt", "ref"} => m = onto(x)
      BY DEF MeansAt
    <2>3. ~(t /\ b.irq) /\ b.id = "next" => m = onto(h)
      BY DEF MeansAt
    <2>4. ~(t /\ b.irq) /\ b.id = "call" =>
              m = IF h.stop THEN [onto(h) EXCEPT !.nest = 1 + @]
                  ELSE [data |-> d \o (h.data \o x.data), stop |-> x.stop,
                        turns |-> 1 + b.qwc + (h.turns + x.turns), nest |-> Larger(1 + h.nest, x.nest)]
      BY DEF MeansAt
    <2> QED
      BY <2>1, <2>2, <2>3, <2>4
  <1>6. q \in Nat /\ b.id \in ChainTags /\ b.irq \in BOOLEAN
    BY <1>2 DEF ChainBlock
  <1> HIDE DEF m, h, x, d, q
  <1>7. ASSUME NEW y \in ChainReading
        PROVE  /\ onto(y) \in ChainReading
               /\ onto(y).data = d \o y.data /\ onto(y).stop = y.stop
               /\ onto(y).turns = 1 + q + y.turns /\ onto(y).nest = y.nest
    <2>1. y.data \in Seq(ChainQuad) /\ y.stop \in BOOLEAN /\ y.turns \in Nat /\ y.nest \in Nat
      BY DEF ChainReading
    <2>2. d \o y.data \in Seq(ChainQuad)
      BY <1>1, <2>1, ChainConcat
    <2>3. 1 + q + y.turns \in Nat
      BY <1>6, <2>1
    <2>4. onto(y).data = d \o y.data /\ onto(y).stop = y.stop /\ onto(y).turns = 1 + q + y.turns /\ onto(y).nest = y.nest
      BY DEF q, ChainReading
    <2>5. onto(y) \in ChainReading
      <3> DEFINE e == d \o y.data
                 k == 1 + q + y.turns
      <3>1. onto(y) = [y EXCEPT !.data = e, !.turns = k] /\ e \in Seq(ChainQuad) /\ k \in Nat
        BY <2>2, <2>3 DEF q
      <3> HIDE DEF e, k
      <3> QED
        BY <3>1 DEF ChainReading
    <2> QED
      BY <2>4, <2>5
  <1>8. CASE ends
    <2>1. m = now /\ MeansNow(p, r, i, t, up, m)
      BY <1>5, <1>8 DEF MeansNow, d
    <2>2. 1 + b.qwc \in Nat /\ (b.id # "ret" \/ (t /\ b.irq)) \in BOOLEAN
      BY <1>6 DEF q
    <2>3. m \in ChainReading
      BY <1>1, <2>1, <2>2 DEF ChainReading
    <2>4. ~(~(t /\ b.irq) /\ b.id \in {"cnt", "ref"}) /\ ~(~(t /\ b.irq) /\ b.id = "next") /\ ~(~(t /\ b.irq) /\ b.id = "call")
      BY <1>8
    <2> QED
      BY <2>1, <2>3, <2>4 DEF m
  <1>9. CASE ~(t /\ b.irq) /\ b.id \in {"cnt", "ref"}
    <2>1. m = onto(x) /\ x \in ChainReading /\ i + 1 \in 1 .. Len(p[r]) /\ ~ends /\ b.id # "next" /\ b.id # "call"
      BY <1>3, <1>5, <1>9
    <2>2. /\ m \in ChainReading /\ m.data = d \o x.data /\ m.stop = x.stop
          /\ m.turns = 1 + q + x.turns /\ m.nest = x.nest
      BY <1>7, <2>1
    <2>3. MeansOn(p, r, i, up, x, m) /\ m.nest = x.nest
      BY <2>2 DEF MeansOn, d, q
    <2> QED
      BY <1>9, <2>1, <2>2, <2>3 DEF m, x
  <1>10. CASE ~(t /\ b.irq) /\ b.id = "next"
    <2>1. m = onto(h) /\ h \in ChainReading /\ b.to \in Routine /\ ~ends /\ b.id \notin {"cnt", "ref"} /\ b.id # "call"
      BY <1>4, <1>5, <1>10
    <2>2. /\ m \in ChainReading /\ m.data = d \o h.data /\ m.stop = h.stop
          /\ m.turns = 1 + q + h.turns /\ m.nest = h.nest
      BY <1>7, <2>1
    <2>3. MeansOn(p, r, i, up, h, m) /\ m.nest = h.nest
      BY <2>2 DEF MeansOn, d, q
    <2> QED
      BY <1>10, <2>1, <2>2, <2>3 DEF m, h
  <1>11. CASE ~(t /\ b.irq) /\ b.id = "call"
    <2>1. /\ h \in ChainReading /\ x \in ChainReading /\ b.to \in Routine /\ i + 1 \in 1 .. Len(p[r])
          /\ ~ends /\ b.id \notin {"cnt", "ref"} /\ b.id # "next"
      BY <1>3, <1>4, <1>11
    <2>2. CASE h.stop
      <3>1. m = [onto(h) EXCEPT !.nest = 1 + @]
        BY <1>5, <1>11, <2>2
      <3> DEFINE z == onto(h)
      <3>2. /\ z \in ChainReading /\ z.data = d \o h.data /\ z.stop = h.stop
            /\ z.turns = 1 + q + h.turns /\ z.nest = h.nest
        BY <1>7, <2>1
      <3>3. m = [z EXCEPT !.nest = 1 + @]
        BY <3>1
      <3> HIDE DEF z
      <3>4. m \in ChainReading
        <4> DEFINE k == 1 + z.nest
        <4>1. m = [z EXCEPT !.nest = k]
          BY <3>3
        <4>2. k \in Nat
          BY <3>2 DEF ChainReading
        <4> HIDE DEF k
        <4> QED
          BY <3>2, <4>1, <4>2 DEF ChainReading
      <3>5. m.data = z.data /\ m.stop = z.stop /\ m.turns = z.turns /\ m.nest = 1 + z.nest
        BY <3>2, <3>3 DEF ChainReading
      <3>6. MeansOn(p, r, i, up, h, m) /\ m.nest = 1 + h.nest
        BY <3>2, <3>5 DEF MeansOn, d, q
      <3> QED
        BY <1>11, <2>1, <2>2, <3>4, <3>6 DEF m, h, x
    <2>3. CASE ~h.stop
      <3>1. m = [data |-> d \o (h.data \o x.data), stop |-> x.stop,
                 turns |-> 1 + q + (h.turns + x.turns), nest |-> Larger(1 + h.nest, x.nest)]
        BY <1>5, <1>11, <2>3 DEF q
      <3>2. /\ h.data \in Seq(ChainQuad) /\ x.data \in Seq(ChainQuad) /\ x.stop \in BOOLEAN
            /\ h.turns \in Nat /\ x.turns \in Nat /\ h.nest \in Nat /\ x.nest \in Nat
        BY <2>1 DEF ChainReading
      <3>3. d \o (h.data \o x.data) \in Seq(ChainQuad)
        <4>1. h.data \o x.data \in Seq(ChainQuad)
          BY <3>2, ChainConcat
        <4> QED
          BY <1>1, <4>1, ChainConcat
      <3>4. /\ Larger(1 + h.nest, x.nest) \in Nat /\ Larger(1 + h.nest, x.nest) >= 1 + h.nest
            /\ Larger(1 + h.nest, x.nest) >= x.nest /\ 1 + q + (h.turns + x.turns) \in Nat
        <4>1. \A u, v \in Nat : Larger(1 + u, v) \in Nat /\ Larger(1 + u, v) >= 1 + u /\ Larger(1 + u, v) >= v
          BY DEF Larger
        <4>2. 1 + q + (h.turns + x.turns) \in Nat
          BY <1>6, <3>2
        <4> QED
          BY <3>2, <4>1, <4>2
      <3>5. m \in ChainReading
        BY <3>1, <3>2, <3>3, <3>4 DEF ChainReading
      <3>6. /\ m.data = d \o (h.data \o x.data) /\ m.stop = x.stop /\ m.turns = 1 + q + (h.turns + x.turns)
            /\ m.nest >= 1 + h.nest /\ m.nest >= x.nest
        BY <3>1, <3>4
      <3> QED
        BY <1>11, <2>1, <2>3, <3>5, <3>6 DEF m, h, x, d, q
    <2> QED
      BY <2>2, <2>3
  <1>12. ends \/ (~(t /\ b.irq) /\ b.id \in {"cnt", "ref"}) \/ (~(t /\ b.irq) /\ b.id = "next")
         \/ (~(t /\ b.irq) /\ b.id = "call")
    BY <1>6 DEF ChainTags
  <1> QED
    BY <1>8, <1>9, <1>10, <1>11, <1>12

LEMMA ReadingsAre ==
    ASSUME NEW p, Sound(p), NEW t \in BOOLEAN, NEW up
    PROVE  \A n \in 0 .. Guard : \A r \in Routine : \A i \in DOMAIN p[r] : ReadAhead(p, t, up)[n][r][i] \in ChainReading
  <1> DEFINE f == ReadAhead(p, t, up)
             All(n) == \A r \in Routine : \A i \in DOMAIN p[r] : f[n][r][i] \in ChainReading
             S == { n \in Nat : n <= Guard => All(n) }
  <1>0. Guard \in Nat
    BY ChainAssumption
  <1>1. 0 \in S
    <2>1. Unread \in ChainReading
      <3>1. << >> \in Seq(ChainQuad)
        BY EmptySeq
      <3> QED
        BY <1>0, <3>1 DEF Unread, ChainReading
    <2>2. All(0)
      BY <2>1, ReadingIs
    <2> QED
      BY <2>2
  <1>2. ASSUME NEW n \in S PROVE n + 1 \in S
    <2>0. n \in Nat /\ (n <= Guard => All(n))
      OBVIOUS
    <2>1. ASSUME n + 1 <= Guard PROVE All(n + 1)
      <3>1. n + 1 \in 1 .. Guard /\ (n + 1) - 1 = n /\ All(n)
        BY <1>0, <2>0, <2>1
      <3> SUFFICES ASSUME NEW r \in Routine, NEW i \in DOMAIN p[r] PROVE f[n + 1][r][i] \in ChainReading
        OBVIOUS
      <3>2. f[n + 1][r][i] = MeansAt(p, f[n], r, i, t, up)
        BY <3>1, ReadingIs
      <3>3. i \in 1 .. Len(p[r])
        BY BlocksAre
      <3> DEFINE g == f[n]
      <3>4. \A s \in Routine : \A k \in DOMAIN p[s] : g[s][k] \in ChainReading
        BY <3>1
      <3> HIDE DEF g
      <3>5. MeansAt(p, g, r, i, t, up) \in ChainReading
        BY <3>3, <3>4, MeansIs DEF MeansSo
      <3> QED
        BY <3>2, <3>5 DEF g
    <2> HIDE DEF All
    <2> QED
      BY <2>0, <2>1
  <1>3. S = Nat
    <2> HIDE DEF S
    <2> QED
      BY <1>1, <1>2, Induction, S \subseteq Nat DEF S
  <1>4. ASSUME NEW n \in 0 .. Guard PROVE All(n)
    <2> HIDE DEF All
    <2>1. n \in S /\ n <= Guard
      BY <1>0, <1>3
    <2> QED
      BY <2>1
  <1> QED
    BY <1>4

(***************************************************************************)
(* The pump of a source channel.                                           *)
(***************************************************************************)
ChainDma == [name : SourceChannel, madr : Nat, qwc : Nat, tadr : Nat, sadr : Nat, tag_end : BOOLEAN, asr : Seq(Nat)]
PumpState == [c : ChainDma, out : Seq(ChainQuad), over : BOOLEAN]

\* What following a tag does, by its kind.
Followed(c, b, d) ==
    /\ d \in ChainDma /\ d.qwc = b.qwc
    /\ d.madr = IF Inline(b) THEN c.tadr + 1 ELSE b.to
    /\ b.id \in {"ref", "cnt", "next"} => d.tag_end = c.tag_end /\ d.asr = c.asr
    /\ b.id \in {"refe", "end"} => d.tag_end /\ d.asr = c.asr
    /\ b.id = "ref" => d.tadr = c.tadr + 1
    /\ b.id = "cnt" => d.tadr = c.tadr + 1 + b.qwc
    /\ b.id = "next" => d.tadr = Origin[b.to]
    /\ b.id = "call" => /\ d.tag_end = c.tag_end /\ d.tadr = Origin[b.to]
                        /\ d.asr = PushAsr(c.asr, c.tadr + 1 + b.qwc)
    /\ b.id = "ret" /\ c.asr = << >> => d.tag_end
    /\ b.id = "ret" /\ c.asr # << >> => /\ d.tag_end = c.tag_end /\ d.tadr = Last(c.asr)
                                        /\ d.asr = Front(c.asr)

LEMMA FollowIs ==
    ASSUME NEW c \in ChainDma, NEW b, ChainBlock(b)
    PROVE  Followed(c, b, Follow(c, b))
  <1> DEFINE d == Follow(c, b)
             a == c.tadr + 1
             e == a + b.qwc
             in == [c EXCEPT !.madr = a, !.qwc = b.qwc]
             far == [c EXCEPT !.madr = b.to, !.qwc = b.qwc, !.tadr = @ + 1]
  <1> SUFFICES
       /\ d \in ChainDma /\ d.qwc = b.qwc
       /\ d.madr = IF Inline(b) THEN c.tadr + 1 ELSE b.to
       /\ b.id \in {"ref", "cnt", "next"} => d.tag_end = c.tag_end /\ d.asr = c.asr
       /\ b.id \in {"refe", "end"} => d.tag_end /\ d.asr = c.asr
       /\ b.id = "ref" => d.tadr = c.tadr + 1
       /\ b.id = "cnt" => d.tadr = c.tadr + 1 + b.qwc
       /\ b.id = "next" => d.tadr = Origin[b.to]
       /\ b.id = "call" => /\ d.tag_end = c.tag_end /\ d.tadr = Origin[b.to]
                           /\ d.asr = PushAsr(c.asr, c.tadr + 1 + b.qwc)
       /\ b.id = "ret" /\ c.asr = << >> => d.tag_end
       /\ b.id = "ret" /\ c.asr # << >> => /\ d.tag_end = c.tag_end /\ d.tadr = Last(c.asr)
                                           /\ d.asr = Front(c.asr)
    BY DEF Followed
  <1>1. /\ c.tadr \in Nat /\ c.asr \in Seq(Nat) /\ c.tag_end \in BOOLEAN
    BY DEF ChainDma
  <1>2. b.id \in ChainTags /\ b.qwc \in Nat
    BY DEF ChainBlock
  <1>3. a \in Nat /\ e \in Nat /\ c.tadr + 1 = a /\ c.tadr + 1 + b.qwc = e
    BY <1>1, <1>2
  <1>4. in \in ChainDma /\ in.madr = a /\ in.qwc = b.qwc /\ in.tadr = c.tadr /\ in.asr = c.asr /\ in.tag_end = c.tag_end
    <2> HIDE DEF a
    <2> QED
      BY <1>2, <1>3 DEF ChainDma
  <1>5. CASE b.id \in {"ref", "refe"}
    <2>1. b.to \in Nat /\ ~Inline(b)
      BY <1>5 DEF ChainBlock, Inline
    <2>2. /\ far \in ChainDma /\ far.madr = b.to /\ far.qwc = b.qwc /\ far.tadr = c.tadr + 1
          /\ far.asr = c.asr /\ far.tag_end = c.tag_end
      <3>1. far = [c EXCEPT !.madr = b.to, !.qwc = b.qwc, !.tadr = a]
        BY <1>3
      <3> HIDE DEF a
      <3> QED
        BY <1>2, <1>3, <2>1, <3>1 DEF ChainDma
    <2>3. CASE b.id = "ref"
      <3>1. d = far
        BY <2>3 DEF Follow
      <3> HIDE DEF far, d
      <3> QED
        BY <2>1, <2>2, <2>3, <3>1 DEF d
    <2>4. CASE b.id = "refe"
      <3>1. d = [far EXCEPT !.tag_end = TRUE]
        BY <2>4 DEF Follow
      <3> HIDE DEF far, d
      <3>2. d \in ChainDma /\ d.madr = far.madr /\ d.qwc = far.qwc /\ d.asr = far.asr /\ d.tag_end
        BY <2>2, <3>1 DEF ChainDma
      <3> QED
        BY <2>1, <2>2, <2>4, <3>2 DEF d
    <2> QED
      BY <1>5, <2>3, <2>4
  <1>6. CASE b.id \notin {"ref", "refe"}
    <2>0. Inline(b)
      BY <1>6 DEF Inline
    <2>1. CASE b.id = "cnt"
      <3>1. d = [in EXCEPT !.tadr = e]
        BY <1>3, <2>1 DEF Follow
      <3> HIDE DEF in, d, a, e
      <3>2. d \in ChainDma /\ d.madr = in.madr /\ d.qwc = in.qwc /\ d.asr = in.asr /\ d.tag_end = in.tag_end /\ d.tadr = e
        BY <1>3, <1>4, <3>1 DEF ChainDma
      <3> QED
        BY <1>3, <1>4, <2>0, <2>1, <3>2 DEF d
    <2>2. CASE b.id = "next"
      <3>1. d = [in EXCEPT !.tadr = Origin[b.to]] /\ Origin[b.to] \in Nat
        BY <2>2, ChainAssumption DEF Follow, Target, ChainBlock
      <3> HIDE DEF in, d, a, e
      <3>2. /\ d \in ChainDma /\ d.madr = in.madr /\ d.qwc = in.qwc /\ d.asr = in.asr /\ d.tag_end = in.tag_end
            /\ d.tadr = Origin[b.to]
        BY <1>4, <3>1 DEF ChainDma
      <3> QED
        BY <1>3, <1>4, <2>0, <2>2, <3>2 DEF d
    <2>3. CASE b.id = "call"
      <3> DEFINE s == PushAsr(c.asr, e)
      <3>1. s \in Seq(Nat)
        <4> HIDE DEF e
        <4> QED
          BY <1>1, <1>3 DEF PushAsr
      <3>2. d = [in EXCEPT !.asr = s, !.tadr = Origin[b.to]] /\ Origin[b.to] \in Nat
        BY <1>3, <1>4, <2>3, ChainAssumption DEF Follow, Target, ChainBlock, Back
      <3> HIDE DEF in, d, a, e, s
      <3>3. /\ d \in ChainDma /\ d.madr = in.madr /\ d.qwc = in.qwc /\ d.asr = s /\ d.tag_end = in.tag_end
            /\ d.tadr = Origin[b.to]
        BY <1>4, <3>1, <3>2 DEF ChainDma
      <3> QED
        BY <1>3, <1>4, <2>0, <2>3, <3>3 DEF d, s
    <2>4. CASE b.id = "ret" /\ c.asr # << >>
      <3> DEFINE s == Front(c.asr)
                 l == Last(c.asr)
      <3>1. s \in Seq(Nat) /\ l \in Nat
        BY <1>1, <2>4 DEF Front, Last
      <3>2. d = [in EXCEPT !.tadr = l, !.asr = s]
        BY <1>4, <2>4 DEF Follow
      <3> HIDE DEF in, d, a, e, s, l
      <3>3. /\ d \in ChainDma /\ d.madr = in.madr /\ d.qwc = in.qwc /\ d.asr = s /\ d.tag_end = in.tag_end
            /\ d.tadr = l
        BY <1>4, <3>1, <3>2 DEF ChainDma
      <3> QED
        BY <1>3, <1>4, <2>0, <2>4, <3>3 DEF d, s, l
    <2>5. CASE b.id = "end" \/ (b.id = "ret" /\ c.asr = << >>)
      <3>1. d = [in EXCEPT !.tag_end = TRUE]
        BY <2>5 DEF Follow
      <3> HIDE DEF in, d, a, e
      <3>2. d \in ChainDma /\ d.madr = in.madr /\ d.qwc = in.qwc /\ d.asr = in.asr /\ d.tag_end
        BY <1>4, <3>1 DEF ChainDma
      <3> QED
        BY <1>3, <1>4, <2>0, <2>5, <3>2 DEF d
    <2> QED
      BY <1>2, <1>6, <2>1, <2>2, <2>3, <2>4, <2>5 DEF ChainTags
  <1> QED
    BY <1>5, <1>6

\* The turns of the loop, by what they find.
LEMMA QuadTurn ==
    ASSUME NEW s \in PumpState, NEW mode, NEW up, ~s.over, s.c.qwc > 0
    PROVE  LET z == PumpTurn(mode, up, s)
           IN /\ z \in PumpState /\ ~z.over /\ z.out = s.out \o Quadwords(s.c.madr, 1)
              /\ z.c.madr = s.c.madr + 1 /\ z.c.qwc = s.c.qwc - 1
              /\ z.c.tadr = s.c.tadr /\ z.c.tag_end = s.c.tag_end /\ z.c.asr = s.c.asr
  <1> DEFINE c == s.c
             a == c.madr + 1
             q == c.qwc - 1
             d == [c EXCEPT !.madr = a, !.qwc = q]
             o == s.out \o Quadwords(c.madr, 1)
  <1>1. c \in ChainDma /\ s.out \in Seq(ChainQuad) /\ s.over \in BOOLEAN
    BY DEF PumpState
  <1>2. c.madr \in Nat /\ c.qwc \in Nat
    BY <1>1 DEF ChainDma
  <1>3. a \in Nat /\ q \in Nat
    BY <1>2
  <1>4. o \in Seq(ChainQuad)
    <2>1. Quadwords(c.madr, 1) \in Seq(ChainQuad)
      BY <1>2, QuadwordsAre
    <2> QED
      BY <1>1, <2>1, ChainConcat
  <1>5. PumpTurn(mode, up, s) = [s EXCEPT !.c = d, !.out = o]
    BY <1>1 DEF PumpTurn
  <1> HIDE DEF c, a, q, o
  <1>6. d \in ChainDma /\ d.madr = a /\ d.qwc = q /\ d.tadr = c.tadr /\ d.tag_end = c.tag_end /\ d.asr = c.asr
    BY <1>1, <1>3 DEF ChainDma
  <1> HIDE DEF d
  <1> DEFINE z == PumpTurn(mode, up, s)
  <1>7. z = [s EXCEPT !.c = d, !.out = o]
    BY <1>5
  <1> HIDE DEF z
  <1>8. z \in PumpState /\ z.over = s.over /\ z.out = o /\ z.c = d
    BY <1>4, <1>6, <1>7 DEF PumpState
  <1> QED
    BY <1>6, <1>8 DEF z, c, a, q, o

LEMMA EndTurn ==
    ASSUME NEW s \in PumpState, NEW mode, NEW up, ~s.over, s.c.qwc = 0, s.c.tag_end \/ mode = "normal"
    PROVE  LET z == PumpTurn(mode, up, s)
           IN z \in PumpState /\ z.over /\ z.out = s.out /\ ~z.c.tag_end
  <1> DEFINE c == s.c
             d == [c EXCEPT !.tag_end = FALSE]
  <1>1. c \in ChainDma /\ s.out \in Seq(ChainQuad)
    BY DEF PumpState
  <1>2. PumpTurn(mode, up, s) = [s EXCEPT !.c = d, !.over = TRUE]
    BY DEF PumpTurn
  <1> HIDE DEF c
  <1>3. d \in ChainDma /\ ~d.tag_end
    BY <1>1 DEF ChainDma
  <1> HIDE DEF d
  <1> DEFINE z == PumpTurn(mode, up, s)
  <1>4. z = [s EXCEPT !.c = d, !.over = TRUE]
    BY <1>2
  <1> HIDE DEF z
  <1>5. z \in PumpState /\ z.over /\ z.out = s.out /\ z.c = d
    BY <1>3, <1>4 DEF PumpState
  <1> QED
    BY <1>3, <1>5 DEF z

LEMMA TagTurned ==
    ASSUME Sound(program), tie \in BOOLEAN, NEW s \in PumpState, NEW up, NEW mode,
           ~s.over, s.c.qwc = 0, ~s.c.tag_end, mode # "normal"
    PROVE  LET z == PumpTurn(mode, up, s)
               b == TagAt(program, s.c.tadr)
               d == Follow(s.c, b)
           IN /\ z \in PumpState /\ ~z.over
              /\ z.out = s.out \o (IF up THEN Upper(s.c.tadr) ELSE << >>)
              /\ z.c.madr = d.madr /\ z.c.qwc = d.qwc /\ z.c.tadr = d.tadr /\ z.c.asr = d.asr
              /\ z.c.tag_end = (d.tag_end \/ (b.irq /\ tie))
  <1> DEFINE c == s.c
             b == TagAt(program, c.tadr)
             d == Follow(c, b)
             g == d.tag_end \/ (b.irq /\ tie)
             e == [d EXCEPT !.tag_end = g]
             x == IF up THEN Upper(c.tadr) ELSE << >>
             o == s.out \o x
             z == PumpTurn(mode, up, s)
  <1>1. c \in ChainDma /\ s.out \in Seq(ChainQuad) /\ s.over \in BOOLEAN
    BY DEF PumpState
  <1>2. ChainBlock(b)
    BY TagIs
  <1>3. d \in ChainDma
    BY <1>1, <1>2, FollowIs DEF Followed
  <1>4. c.tadr \in Nat
    BY <1>1 DEF ChainDma
  <1>5. x \in Seq(ChainQuad)
    <2> DEFINE a == c.tadr
    <2>0. a \in Nat
      BY <1>4
    <2> HIDE DEF a
    <2>1. Upper(a) \in Seq(ChainQuad)
      BY <2>0 DEF Upper, ChainQuad
    <2>2. << >> \in Seq(ChainQuad)
      BY EmptySeq
    <2>3. CASE up
      BY <2>1, <2>3 DEF a
    <2>4. CASE ~up
      BY <2>2, <2>4
    <2> QED
      BY <2>3, <2>4
  <1>6. (IF up THEN s.out \o Upper(c.tadr) ELSE s.out) = o
    <2>1. s.out \o << >> = s.out
      BY <1>1, ConcatEmptySeq
    <2>2. CASE up
      BY <2>2
    <2>3. CASE ~up
      BY <2>1, <2>3
    <2> QED
      BY <2>2, <2>3
  <1>7. z = [s EXCEPT !.c = e, !.out = o]
    <2>1. z = [s EXCEPT !.c = e, !.out = IF up THEN s.out \o Upper(c.tadr) ELSE s.out]
      BY <1>1 DEF PumpTurn
    <2> HIDE DEF e, o, c, z
    <2> QED
      BY <1>6, <2>1
  <1>8. o \in Seq(ChainQuad)
    <2> HIDE DEF x
    <2> QED
      BY <1>1, <1>5, ChainConcat
  <1>9. g \in BOOLEAN
    BY <1>2, <1>3 DEF ChainBlock, ChainDma
  <1> HIDE DEF g, d, o, z, x, b, c
  <1>10. /\ e \in ChainDma /\ e.madr = d.madr /\ e.qwc = d.qwc /\ e.tadr = d.tadr /\ e.asr = d.asr
         /\ e.tag_end = g
    BY <1>3, <1>9 DEF ChainDma
  <1> HIDE DEF e
  <1>11. z \in PumpState /\ z.over = s.over /\ z.out = o /\ z.c = e
    BY <1>7, <1>8, <1>10 DEF PumpState
  <1> QED
    BY <1>10, <1>11 DEF g, d, o, z, x, b, c

LEMMA TurnTyped ==
    ASSUME Sound(program), tie \in BOOLEAN, NEW s \in PumpState, NEW up, NEW mode
    PROVE  PumpTurn(mode, up, s) \in PumpState
  <1>1. s.over \in BOOLEAN /\ s.c.qwc \in Nat /\ s.c.tag_end \in BOOLEAN
    BY DEF PumpState, ChainDma
  <1>2. CASE s.over
    BY <1>2 DEF PumpTurn
  <1>3. CASE ~s.over /\ s.c.qwc > 0
    BY <1>3, QuadTurn
  <1>4. CASE ~s.over /\ s.c.qwc = 0 /\ (s.c.tag_end \/ mode = "normal")
    BY <1>4, EndTurn
  <1>5. CASE ~s.over /\ s.c.qwc = 0 /\ ~s.c.tag_end /\ mode # "normal"
    BY <1>5, TagTurned
  <1> QED
    BY <1>1, <1>2, <1>3, <1>4, <1>5

\* The turns of a pump, one after the other.
PumpTurns(c, mode, up) ==
    LET f[n \in 0 .. Guard] == IF n = 0 THEN [c |-> c, out |-> <<>>, over |-> FALSE]
                               ELSE PumpTurn(mode, up, f[n - 1])
    IN f

LEMMA TurnsAre ==
    ASSUME NEW c, NEW mode, NEW up
    PROVE  /\ PumpTurns(c, mode, up)[0] = [c |-> c, out |-> <<>>, over |-> FALSE]
           /\ \A n \in 1 .. Guard : PumpTurns(c, mode, up)[n] = PumpTurn(mode, up, PumpTurns(c, mode, up)[n - 1])
           /\ Pump(c, mode, up) = PumpTurns(c, mode, up)[Guard]
  <1> DEFINE Z == [c |-> c, out |-> <<>>, over |-> FALSE]
             T(x) == PumpTurn(mode, up, x)
             G(n, g) == g = [k \in 0 .. n |-> IF k = 0 THEN Z ELSE T(g[k - 1])]
             S == { n \in Nat : \E g : G(n, g) }
             f == PumpTurns(c, mode, up)
  <1>0. Pump(c, mode, up) = f[Guard]
    BY DEF Pump, PumpTurns
  <1> HIDE DEF Z, T
  <1>1. 0 \in S
    <2>1. G(0, [k \in 0 .. 0 |-> Z])
      OBVIOUS
    <2> QED
      BY <2>1
  <1>2. ASSUME NEW n \in S PROVE n + 1 \in S
    <2>1. PICK g : G(n, g)
      OBVIOUS
    <2> DEFINE h == [k \in 0 .. n + 1 |-> IF k <= n THEN g[k] ELSE T(g[n])]
    <2>2. \A k \in 0 .. n + 1 : h[k] = IF k = 0 THEN Z ELSE T(h[k - 1])
      BY <2>1
    <2>3. G(n + 1, h)
      BY <2>2
    <2>4. n + 1 \in Nat /\ \E e : G(n + 1, e)
      <3> HIDE DEF h, G
      <3> QED
        BY <2>3
    <2> QED
      BY <2>4
  <1>3. S = Nat
    <2> HIDE DEF S
    <2> QED
      BY <1>1, <1>2, Induction, S \subseteq Nat DEF S
  <1>4. G(Guard, f)
    <2>1. \E g : G(Guard, g)
      BY <1>3, ChainAssumption
    <2>2. f = CHOOSE g : G(Guard, g)
      BY DEF PumpTurns, Z, T
    <2> HIDE DEF f
    <2> QED
      BY <2>1, <2>2
  <1> HIDE DEF f
  <1>5. f[0] = Z /\ \A n \in 1 .. Guard : f[n] = T(f[n - 1])
    BY <1>4, ChainAssumption
  <1> QED
    BY <1>0, <1>5 DEF f, Z, T

Turning(f, mode, up) == \A n \in 1 .. Guard : f[n] = PumpTurn(mode, up, f[n - 1])
LEMMA TurnsGo ==
    ASSUME NEW c, NEW mode, NEW up
    PROVE  Turning(PumpTurns(c, mode, up), mode, up)
  BY TurnsAre DEF Turning

\* They keep the channel's registers in their range, and the pump's end is for good.
LEMMA TurnsTyped ==
    ASSUME Sound(program), tie \in BOOLEAN, NEW c \in ChainDma, NEW mode, NEW up
    PROVE  \A n \in 0 .. Guard : PumpTurns(c, mode, up)[n] \in PumpState
  <1> DEFINE f == PumpTurns(c, mode, up)
             S == { n \in Nat : n <= Guard => f[n] \in PumpState }
  <1>0. Guard \in Nat
    BY ChainAssumption
  <1>1. f[0] \in PumpState
    <2>1. << >> \in Seq(ChainQuad)
      BY EmptySeq
    <2>2. f[0] = [c |-> c, out |-> <<>>, over |-> FALSE]
      BY TurnsAre
    <2> HIDE DEF f
    <2> QED
      BY <2>1, <2>2 DEF PumpState
  <1>2. ASSUME NEW n \in S PROVE n + 1 \in S
    <2>0. n \in Nat /\ (n <= Guard => f[n] \in PumpState)
      OBVIOUS
    <2>1. ASSUME n + 1 <= Guard PROVE f[n + 1] \in PumpState
      <3>1. n + 1 \in 1 .. Guard /\ (n + 1) - 1 = n /\ f[n] \in PumpState
        BY <1>0, <2>0, <2>1
      <3>2. f[n + 1] = PumpTurn(mode, up, f[n])
        BY <3>1, TurnsAre
      <3> HIDE DEF f
      <3> QED
        BY <3>1, <3>2, TurnTyped
    <2> HIDE DEF f
    <2> QED
      BY <2>0, <2>1
  <1>3. S = Nat
    <2>1. 0 \in S
      BY <1>1
    <2> HIDE DEF S
    <2> QED
      BY <2>1, <1>2, Induction, S \subseteq Nat DEF S
  <1> HIDE DEF f
  <1>4. ASSUME NEW n \in 0 .. Guard PROVE f[n] \in PumpState
    <2>1. n \in S /\ n <= Guard
      BY <1>0, <1>3
    <2> QED
      BY <2>1
  <1> QED
    BY <1>4 DEF f

LEMMA TurnsStay ==
    ASSUME NEW c, NEW mode, NEW up, NEW k \in 0 .. Guard, PumpTurns(c, mode, up)[k].over
    PROVE  Pump(c, mode, up) = PumpTurns(c, mode, up)[k]
  <1> DEFINE f == PumpTurns(c, mode, up)
             S == { n \in Nat : k + n <= Guard => f[k + n] = f[k] }
  <1>0. Guard \in Nat /\ k \in Nat /\ k <= Guard
    BY ChainAssumption
  <1>1. \A n \in 1 .. Guard : f[n] = PumpTurn(mode, up, f[n - 1])
    BY TurnsAre
  <1>2. f[k].over /\ Pump(c, mode, up) = f[Guard]
    BY TurnsAre
  <1> HIDE DEF f
  <1>3. 0 \in S
    BY <1>0
  <1>4. ASSUME NEW n \in S PROVE n + 1 \in S
    <2>0. n \in Nat /\ (k + n <= Guard => f[k + n] = f[k])
      OBVIOUS
    <2>1. ASSUME k + (n + 1) <= Guard PROVE f[k + (n + 1)] = f[k]
      <3> DEFINE j == k + (n + 1)
      <3>1. j \in 1 .. Guard /\ j - 1 = k + n /\ f[k + n] = f[k]
        BY <1>0, <2>0, <2>1
      <3> HIDE DEF j
      <3>2. f[j] = PumpTurn(mode, up, f[k])
        BY <1>1, <3>1
      <3>3. f[j] = f[k]
        BY <1>2, <3>2 DEF PumpTurn
      <3> QED
        BY <3>3 DEF j
    <2> QED
      BY <2>0, <2>1
  <1>5. S = Nat
    <2> HIDE DEF S
    <2> QED
      BY <1>3, <1>4, Induction, S \subseteq Nat DEF S
  <1>6. f[Guard] = f[k]
    <2> DEFINE n == Guard - k
    <2>1. n \in S
      <3>1. n \in Nat
        BY <1>0
      <3> HIDE DEF S
      <3> QED
        BY <1>5, <3>1
    <2>2. k + n = Guard
      BY <1>0
    <2> QED
      BY <1>0, <2>1, <2>2
  <1> QED
    BY <1>2, <1>6 DEF f

\* The state of the pump at a turn, as far as the walk of a chain needs it: at a tag
\* to take, with the call stack as, having put out o.
AtTag(s, a, as, o) ==
    /\ s \in PumpState /\ ~s.over /\ s.c.qwc = 0 /\ ~s.c.tag_end
    /\ s.c.tadr = a /\ s.c.asr = as /\ s.out = o
\* ... or with nothing left but its end.
AtEnd(s, o) == s \in PumpState /\ ~s.over /\ s.c.qwc = 0 /\ s.c.tag_end /\ s.out = o

\* A run of quadwords.
RunMoved(s, z, q) ==
    /\ z \in PumpState /\ ~z.over /\ z.c.qwc = 0 /\ z.out = s.out \o Quadwords(s.c.madr, q)
    /\ z.c.tadr = s.c.tadr /\ z.c.tag_end = s.c.tag_end /\ z.c.asr = s.c.asr

LEMMA QuadTurns ==
    ASSUME Sound(program), tie \in BOOLEAN, NEW c \in ChainDma, NEW mode, NEW up, NEW k \in Nat, NEW q \in Nat,
           k + q <= Guard, ~PumpTurns(c, mode, up)[k].over, PumpTurns(c, mode, up)[k].c.qwc = q
    PROVE  RunMoved(PumpTurns(c, mode, up)[k], PumpTurns(c, mode, up)[k + q], q)
  <1> DEFINE f == PumpTurns(c, mode, up)
             s == f[k]
             a == s.c.madr
             Ran(z, n) == /\ z \in PumpState /\ ~z.over /\ z.c.qwc = q - n /\ z.c.madr = a + n
                          /\ z.out = s.out \o Quadwords(a, n)
                          /\ z.c.tadr = s.c.tadr /\ z.c.tag_end = s.c.tag_end /\ z.c.asr = s.c.asr
             S == { n \in Nat : n <= q => Ran(f[k + n], n) }
  <1>0. Guard \in Nat /\ k \in 0 .. Guard
    BY ChainAssumption
  <1>1. \A n \in 1 .. Guard : f[n] = PumpTurn(mode, up, f[n - 1])
    BY TurnsAre
  <1>2. s \in PumpState /\ ~s.over /\ s.c.qwc = q
    BY <1>0, TurnsTyped
  <1>3. a \in Nat /\ s.out \in Seq(ChainQuad)
    BY <1>2 DEF PumpState, ChainDma
  <1> HIDE DEF f, a
  <1>4. 0 \in S
    <2>1. Quadwords(a, 0) = << >> /\ s.out \o << >> = s.out
      BY <1>3, QuadwordsAre, ConcatEmptySeq
    <2>2. k + 0 = k /\ q - 0 = q /\ a + 0 = a
      BY <1>3
    <2> HIDE DEF s
    <2>3. Ran(s, 0)
      BY <1>2, <2>1, <2>2 DEF a
    <2>4. Ran(f[k + 0], 0)
      BY <2>2, <2>3 DEF s
    <2> HIDE DEF Ran
    <2> QED
      BY <2>4
  <1>5. ASSUME NEW n \in S PROVE n + 1 \in S
    <2>0. n \in Nat /\ (n <= q => Ran(f[k + n], n))
      BY DEF S
    <2>1. ASSUME n + 1 <= q PROVE Ran(f[k + (n + 1)], n + 1)
      <3> DEFINE j == k + (n + 1)
                 y == f[k + n]
                 z == f[j]
      <3>0. Ran(y, n)
        <4> HIDE DEF Ran
        <4> QED
          BY <2>0, <2>1
      <3>1. j \in 1 .. Guard /\ j - 1 = k + n /\ q - n > 0
        <4> HIDE DEF Ran
        <4> QED
          BY <1>0, <2>0, <2>1
      <3> HIDE DEF j, s
      <3>2. z = PumpTurn(mode, up, y)
        BY <1>1, <3>1
      <3> HIDE DEF y, z
      <3>3. /\ z \in PumpState /\ ~z.over /\ z.out = y.out \o Quadwords(a + n, 1)
            /\ z.c.madr = (a + n) + 1 /\ z.c.qwc = (q - n) - 1
            /\ z.c.tadr = s.c.tadr /\ z.c.tag_end = s.c.tag_end /\ z.c.asr = s.c.asr
        BY <3>0, <3>1, <3>2, QuadTurn
      <3>4. y.out = s.out \o Quadwords(a, n)
        BY <3>0
      <3>5. z.out = s.out \o Quadwords(a, n + 1)
        <4>1. Quadwords(a, n) \in Seq(ChainQuad) /\ Quadwords(a + n, 1) \in Seq(ChainQuad)
              /\ Quadwords(a, n + 1) = Quadwords(a, n) \o Quadwords(a + n, 1)
          <5>1. a + n \in Nat /\ 1 \in Nat
            BY <1>3, <2>0
          <5>2. Quadwords(a + n, 1) \in Seq(ChainQuad)
            <6> DEFINE e == a + n
            <6>1. e \in Nat
              BY <5>1
            <6> HIDE DEF e
            <6>2. Quadwords(e, 1) \in Seq(ChainQuad)
              BY <6>1, QuadwordsAre
            <6> QED
              BY <6>2 DEF e
          <5>3. Quadwords(a, n) \in Seq(ChainQuad) /\ Quadwords(a, n + 1) = Quadwords(a, n) \o Quadwords(a + n, 1)
            BY <1>3, <2>0, QuadwordsAre
          <5> QED
            BY <5>2, <5>3
        <4>2. (s.out \o Quadwords(a, n)) \o Quadwords(a + n, 1) = s.out \o (Quadwords(a, n) \o Quadwords(a + n, 1))
          <5> DEFINE u == Quadwords(a, n)
                     v == Quadwords(a + n, 1)
                     w == s.out
          <5>1. u \in Seq(ChainQuad) /\ v \in Seq(ChainQuad) /\ w \in Seq(ChainQuad)
            BY <1>3, <4>1
          <5> HIDE DEF u, v, w
          <5>2. (w \o u) \o v = w \o (u \o v)
            BY <5>1, ConcatAssociative
          <5> QED
            BY <5>2 DEF u, v, w
        <4> QED
          BY <3>3, <3>4, <4>1, <4>2
      <3>6. (a + n) + 1 = a + (n + 1) /\ (q - n) - 1 = q - (n + 1)
        BY <1>3, <2>0
      <3> QED
        BY <3>3, <3>5, <3>6 DEF j, z
    <2> HIDE DEF Ran
    <2> QED
      BY <2>0, <2>1 DEF S
  <1>6. S = Nat
    <2> HIDE DEF S
    <2> QED
      BY <1>4, <1>5, Induction, S \subseteq Nat DEF S
  <1>7. Ran(f[k + q], q)
    <2>1. q \in S
      <3> HIDE DEF S
      <3> QED
        BY <1>6
    <2> HIDE DEF Ran
    <2> QED
      BY <2>1
  <1>8. q - q = 0
    OBVIOUS
  <1> HIDE DEF s
  <1>9. RunMoved(s, f[k + q], q)
    BY <1>7, <1>8 DEF RunMoved, a
  <1> QED
    BY <1>9 DEF f, s

\* A block: its tag and its quadwords.  Where it leaves the pump, having put out e.
BlockLeft(r, i, as, z, e) ==
    LET b == program[r][i]
    IN /\ (tie /\ b.irq) \/ b.id \in {"refe", "end"} \/ (b.id = "ret" /\ as = << >>) => AtEnd(z, e)
       /\ ~(tie /\ b.irq) =>
             /\ b.id = "ret" /\ as # << >> => AtTag(z, Last(as), Front(as), e)
             /\ b.id \in {"cnt", "ref"} => AtTag(z, At(program, r, i + 1), as, e)
             /\ b.id = "next" => AtTag(z, At(program, b.to, 1), as, e)
             /\ b.id = "call" => AtTag(z, At(program, b.to, 1), PushAsr(as, At(program, r, i + 1)), e)

LEMMA BlockTurns ==
    ASSUME Sound(program), tie \in BOOLEAN, NEW c \in ChainDma, NEW mode, mode # "normal", NEW up,
           NEW r \in Routine, NEW i \in 1 .. Len(program[r]), NEW as \in Seq(Nat), NEW o, NEW k \in Nat,
           k + (1 + program[r][i].qwc) <= Guard,
           AtTag(PumpTurns(c, mode, up)[k], At(program, r, i), as, o)
    PROVE  BlockLeft(r, i, as, PumpTurns(c, mode, up)[k + (1 + program[r][i].qwc)], o \o DataAt(program, r, i, up))
  <1> DEFINE b == program[r][i]
             f == PumpTurns(c, mode, up)
             a == At(program, r, i)
             q == b.qwc
             s == f[k]
             d == Follow(s.c, b)
             y == f[k + 1]
             z == f[k + (1 + q)]
             u == IF up THEN Upper(a) ELSE << >>
             v == Quadwords(IF Inline(b) THEN a + 1 ELSE b.to, q)
             e == o \o DataAt(program, r, i, up)
  <1>0. Guard \in Nat /\ ChainBlock(b) /\ a \in Nat /\ k + (1 + q) <= Guard
        /\ At(program, r, i + 1) = a + Size(b)
    BY ChainAssumption, BlocksAre, AtIs
  <1>1. TagAt(program, a) = b
    BY TagFound
  <1>2. /\ s \in PumpState /\ ~s.over /\ s.c.qwc = 0 /\ ~s.c.tag_end
        /\ s.c.tadr = a /\ s.c.asr = as /\ s.out = o
    BY DEF AtTag
  <1>3. s.c \in ChainDma /\ o \in Seq(ChainQuad)
    BY <1>2 DEF PumpState
  <1>4. q \in Nat /\ b.id \in ChainTags /\ b.irq \in BOOLEAN
        /\ (b.id \in {"next", "call"} => b.to \in Routine /\ At(program, b.to, 1) = Origin[b.to])
    BY <1>0, AtIs DEF ChainBlock
  <1>5. /\ DataAt(program, r, i, up) = u \o v /\ u \in Seq(ChainQuad) /\ v \in Seq(ChainQuad)
    BY DataAtIs
  <1>6. y = PumpTurn(mode, up, s)
    <2>1. k + 1 \in 1 .. Guard /\ (k + 1) - 1 = k
      <3>1. Guard \in Nat /\ q \in Nat /\ k + (1 + q) <= Guard
        BY <1>0, <1>4
      <3> HIDE DEF q
      <3> QED
        BY <3>1
    <2> QED
      BY <2>1, TurnsAre
  <1>7. /\ d \in ChainDma /\ d.qwc = q
        /\ d.madr = IF Inline(b) THEN a + 1 ELSE b.to
        /\ b.id \in {"ref", "cnt", "next"} => ~d.tag_end /\ d.asr = as
        /\ b.id \in {"refe", "end"} => d.tag_end /\ d.asr = as
        /\ b.id = "ref" => d.tadr = a + 1
        /\ b.id = "cnt" => d.tadr = a + 1 + q
        /\ b.id = "next" => d.tadr = Origin[b.to]
        /\ b.id = "call" => ~d.tag_end /\ d.tadr = Origin[b.to] /\ d.asr = PushAsr(as, a + 1 + q)
        /\ b.id = "ret" /\ as = << >> => d.tag_end
        /\ b.id = "ret" /\ as # << >> => ~d.tag_end /\ d.tadr = Last(as) /\ d.asr = Front(as)
    <2> DEFINE x == s.c
               g == Follow(x, b)
    <2>1. x \in ChainDma /\ x.tadr = a /\ x.asr = as /\ ~x.tag_end /\ b.qwc = q /\ ChainBlock(b)
      BY <1>0, <1>2, <1>3
    <2> HIDE DEF b, x, a, q
    <2>2. /\ g \in ChainDma /\ g.qwc = b.qwc
          /\ g.madr = IF Inline(b) THEN x.tadr + 1 ELSE b.to
          /\ b.id \in {"ref", "cnt", "next"} => g.tag_end = x.tag_end /\ g.asr = x.asr
          /\ b.id \in {"refe", "end"} => g.tag_end /\ g.asr = x.asr
          /\ b.id = "ref" => g.tadr = x.tadr + 1
          /\ b.id = "cnt" => g.tadr = x.tadr + 1 + b.qwc
          /\ b.id = "next" => g.tadr = Origin[b.to]
          /\ b.id = "call" => /\ g.tag_end = x.tag_end /\ g.tadr = Origin[b.to]
                              /\ g.asr = PushAsr(x.asr, x.tadr + 1 + b.qwc)
          /\ b.id = "ret" /\ x.asr = << >> => g.tag_end
          /\ b.id = "ret" /\ x.asr # << >> => /\ g.tag_end = x.tag_end /\ g.tadr = Last(x.asr)
                                              /\ g.asr = Front(x.asr)
      <3>1. Followed(x, b, g)
        BY <2>1, FollowIs
      <3> HIDE DEF g
      <3> QED
        BY <3>1 DEF Followed
    <2>3. d = g
      BY DEF x
    <2> HIDE DEF g, d
    <2> QED
      BY <2>1, <2>2, <2>3
  <1> HIDE DEF s, z, v, a
  <1>8. /\ y \in PumpState /\ ~y.over /\ y.out = o \o u
        /\ y.c.madr = d.madr /\ y.c.qwc = d.qwc /\ y.c.tadr = d.tadr /\ y.c.asr = d.asr
        /\ y.c.tag_end = (d.tag_end \/ (b.irq /\ tie))
    <2>1. TagAt(program, s.c.tadr) = b
      BY <1>1, <1>2
    <2> DEFINE w == PumpTurn(mode, up, s)
               x == TagAt(program, s.c.tadr)
               g == Follow(s.c, x)
    <2>2. /\ w \in PumpState /\ ~w.over
          /\ w.out = s.out \o (IF up THEN Upper(s.c.tadr) ELSE << >>)
          /\ w.c.madr = g.madr /\ w.c.qwc = g.qwc /\ w.c.tadr = g.tadr /\ w.c.asr = g.asr
          /\ w.c.tag_end = (g.tag_end \/ (x.irq /\ tie))
      BY <1>2, TagTurned
    <2> HIDE DEF x, b
    <2>3. x = b /\ w = y
      BY <1>6, <2>1 DEF x
    <2>4. g = d
      BY <2>3
    <2>5. s.out \o (IF up THEN Upper(s.c.tadr) ELSE << >>) = o \o u
      BY <1>2 DEF u
    <2> HIDE DEF g, d, w, y, u
    <2> QED
      BY <2>2, <2>3, <2>4, <2>5
  <1> HIDE DEF b, y, d, q
  <1>9. /\ z \in PumpState /\ ~z.over /\ z.c.qwc = 0 /\ z.out = y.out \o Quadwords(y.c.madr, q)
        /\ z.c.tadr = y.c.tadr /\ z.c.tag_end = y.c.tag_end /\ z.c.asr = y.c.asr
    <2> DEFINE h == k + 1
    <2>1. h \in Nat /\ h + q <= Guard /\ k + (1 + q) = h + q
      BY <1>0, <1>4
    <2>2. f[h] = y
      BY DEF y
    <2>3. z = f[h + q]
      BY <2>1 DEF z, q
    <2> HIDE DEF h
    <2>4. ~f[h].over /\ f[h].c.qwc = q
      BY <1>7, <1>8, <2>2
    <2>5. /\ f[h + q] \in PumpState /\ ~f[h + q].over /\ f[h + q].c.qwc = 0
          /\ f[h + q].out = f[h].out \o Quadwords(f[h].c.madr, q)
          /\ f[h + q].c.tadr = f[h].c.tadr /\ f[h + q].c.tag_end = f[h].c.tag_end /\ f[h + q].c.asr = f[h].c.asr
      <3>1. ~PumpTurns(c, mode, up)[h].over /\ PumpTurns(c, mode, up)[h].c.qwc = q
        BY <2>4
      <3>2. h \in Nat /\ q \in Nat /\ h + q <= Guard
        BY <1>4, <2>1
      <3>3. RunMoved(f[h], f[h + q], q)
        BY <3>1, <3>2, QuadTurns
      <3> HIDE DEF f
      <3> QED
        BY <3>3 DEF RunMoved
    <2> HIDE DEF f
    <2> QED
      BY <2>2, <2>3, <2>5
  <1>10. z.out = e
    <2>1. z.out = (o \o u) \o v
      BY <1>7, <1>8, <1>9 DEF v
    <2> HIDE DEF u
    <2>2. (o \o u) \o v = o \o (u \o v)
      BY <1>3, <1>5, ConcatAssociative
    <2> QED
      BY <1>5, <2>1, <2>2
  <1> HIDE DEF e, f, u
  <1>11. z.c.tadr = d.tadr /\ z.c.asr = d.asr /\ z.c.tag_end = (d.tag_end \/ (b.irq /\ tie))
    BY <1>8, <1>9
  <1>12. ASSUME (tie /\ b.irq) \/ b.id \in {"refe", "end"} \/ (b.id = "ret" /\ as = << >>) PROVE AtEnd(z, e)
    BY <1>7, <1>9, <1>10, <1>11, <1>12 DEF AtEnd
  <1>13. ASSUME ~(tie /\ b.irq), b.id = "ret", as # << >> PROVE AtTag(z, Last(as), Front(as), e)
    BY <1>7, <1>9, <1>10, <1>11, <1>13 DEF AtTag
  <1>14. ASSUME ~(tie /\ b.irq), b.id \in {"cnt", "ref"} PROVE AtTag(z, At(program, r, i + 1), as, e)
    <2>1. d.tadr = At(program, r, i + 1)
      <3>1. CASE b.id = "cnt"
        <4>1. Size(b) = 1 + q
          BY <3>1 DEF Size, Inline, q
        <4>2. d.tadr = a + 1 + q /\ a + (1 + q) = a + 1 + q
          BY <1>0, <1>4, <1>7, <3>1
        <4> QED
          BY <1>0, <4>1, <4>2
      <3>2. CASE b.id = "ref"
        <4>1. Size(b) = 1
          BY <3>2 DEF Size, Inline
        <4> QED
          BY <1>0, <1>7, <3>2, <4>1
      <3> QED
        BY <1>14, <3>1, <3>2
    <2>2. ~d.tag_end /\ d.asr = as
      BY <1>7, <1>14
    <2> QED
      BY <1>9, <1>10, <1>11, <1>14, <2>1, <2>2 DEF AtTag
  <1>15. ASSUME ~(tie /\ b.irq), b.id = "next" PROVE AtTag(z, At(program, b.to, 1), as, e)
    BY <1>4, <1>7, <1>9, <1>10, <1>11, <1>15 DEF AtTag
  <1>16. ASSUME ~(tie /\ b.irq), b.id = "call"
         PROVE  AtTag(z, At(program, b.to, 1), PushAsr(as, At(program, r, i + 1)), e)
    <2>1. Size(b) = 1 + q
      BY <1>16 DEF Size, Inline, q
    <2>2. At(program, r, i + 1) = a + 1 + q
      BY <1>0, <1>4, <2>1
    <2>3. d.tadr = At(program, b.to, 1) /\ d.asr = PushAsr(as, At(program, r, i + 1)) /\ ~d.tag_end
      BY <1>4, <1>7, <1>16, <2>2
    <2> QED
      BY <1>9, <1>10, <1>11, <1>16, <2>3 DEF AtTag
  <1>17. /\ (tie /\ b.irq) \/ b.id \in {"refe", "end"} \/ (b.id = "ret" /\ as = << >>) => AtEnd(z, e)
         /\ ~(tie /\ b.irq) =>
               /\ b.id = "ret" /\ as # << >> => AtTag(z, Last(as), Front(as), e)
               /\ b.id \in {"cnt", "ref"} => AtTag(z, At(program, r, i + 1), as, e)
               /\ b.id = "next" => AtTag(z, At(program, b.to, 1), as, e)
               /\ b.id = "call" => AtTag(z, At(program, b.to, 1), PushAsr(as, At(program, r, i + 1)), e)
    BY <1>12, <1>13, <1>14, <1>15, <1>16
  <1>18. BlockLeft(r, i, as, z, e)
    BY <1>17 DEF BlockLeft, b
  <1> QED
    BY <1>18 DEF b, z, e, f, q

LEMMA QuadsAssociate ==
    ASSUME NEW x \in Seq(ChainQuad), NEW y \in Seq(ChainQuad), NEW z \in Seq(ChainQuad)
    PROVE  (x \o y) \o z = x \o (y \o z)
  BY ConcatAssociative

LEMMA Pushed ==
    ASSUME NEW S, NEW s \in Seq(S), NEW a \in S
    PROVE  /\ Append(s, a) \in Seq(S) /\ Len(Append(s, a)) = Len(s) + 1 /\ Append(s, a) # << >>
           /\ Last(Append(s, a)) = a /\ Front(Append(s, a)) = s
  <1> DEFINE e == Append(s, a)
             n == Len(s)
  <1>1. /\ e \in Seq(S) /\ Len(e) = n + 1 /\ e[n + 1] = a /\ (\A k \in 1 .. n : e[k] = s[k])
        /\ n \in Nat
    OBVIOUS
  <1> HIDE DEF e
  <1>2. Last(e) = a
    BY <1>1 DEF Last
  <1>3. Front(e) = s
    <2> DEFINE g == Front(e)
    <2> HIDE DEF n
    <2>1. Len(e) - 1 = n /\ \A k \in 1 .. n : s[k] \in S /\ e[k] \in S
      BY <1>1 DEF n
    <2>2. g = SubSeq(e, 1, n)
      BY <2>1 DEF Front
    <2>3. g \in Seq(S) /\ Len(g) = n /\ \A k \in 1 .. n : g[k] = s[k]
      BY <1>1, <2>1, <2>2, SubSeqProperties
    <2> HIDE DEF g
    <2>4. g = s
      BY <2>3, SeqEqual DEF n
    <2> QED
      BY <2>4 DEF g
  <1>4. e # << >>
    <2>1. Len(e) # 0
      BY <1>1
    <2> QED
      BY <2>1
  <1> QED
    BY <1>1, <1>2, <1>3, <1>4 DEF e

LEMMA CallStack ==
    ASSUME NEW as \in Seq(Nat), NEW a \in Nat, Len(as) < ASRS
    PROVE  LET s == PushAsr(as, a)
           IN s \in Seq(Nat) /\ Len(s) = Len(as) + 1 /\ s # << >> /\ Last(s) = a /\ Front(s) = as
  <1>1. PushAsr(as, a) = Append(as, a)
    BY DEF PushAsr
  <1> QED
    BY <1>1, Pushed

\* Where a walk that put out o leaves the pump: at the end, or at the place on top of
\* the call stack.
WalkLeft(z, stop, as, o) ==
    IF stop \/ as = << >> THEN AtEnd(z, o) ELSE AtTag(z, Last(as), Front(as), o)

\* From block tag a on the turns f do what the reading m says.
Walked(f, m, a) ==
    \A k \in Nat, as \in Seq(Nat), o \in Seq(ChainQuad) :
        k + m.turns < Guard /\ Len(as) + m.nest <= ASRS /\ AtTag(f[k], a, as, o)
            => WalkLeft(f[k + m.turns], m.stop, as, o \o m.data)

AllWalked(f, g) ==
    \A s \in Routine : \A j \in DOMAIN program[s] :
        g[s][j] \in ChainReading /\ Walked(f, g[s][j], At(program, s, j))

LEMMA WalkBlock ==
    ASSUME Sound(program), tie \in BOOLEAN, NEW c \in ChainDma, NEW mode, mode # "normal", NEW up, NEW g,
           AllWalked(PumpTurns(c, mode, up), g), NEW r \in Routine, NEW i \in 1 .. Len(program[r])
    PROVE  Walked(PumpTurns(c, mode, up), MeansAt(program, g, r, i, tie, up), At(program, r, i))
  <1> DEFINE f == PumpTurns(c, mode, up)
             b == program[r][i]
             m == MeansAt(program, g, r, i, tie, up)
             h == g[b.to][1]
             x == g[r][i + 1]
             d == DataAt(program, r, i, up)
             q == 1 + b.qwc
             a == At(program, r, i)
             nexta == At(program, r, i + 1)
             toa == At(program, b.to, 1)
  <1>1. ChainBlock(b) /\ b.qwc \in Nat /\ b.id \in ChainTags /\ b.irq \in BOOLEAN /\ q \in Nat /\ q >= 1
        /\ Guard \in Nat
    BY BlocksAre, ChainAssumption DEF ChainBlock
  <1>2. d \in Seq(ChainQuad) /\ nexta \in Nat
    <2>1. nexta = a + Size(b) /\ a \in Nat /\ Size(b) \in Nat
      BY AtIs, BlocksAre
    <2>2. a + Size(b) \in Nat
      BY <2>1
    <2>3. d \in Seq(ChainQuad)
      BY DataAtIs
    <2> QED
      BY <2>1, <2>2, <2>3
  <1>3. MeansSo(program, g, r, i, tie, up, m)
    <2>1. \A s \in Routine : \A j \in DOMAIN program[s] : g[s][j] \in ChainReading
      BY DEF AllWalked
    <2> QED
      BY <2>1, MeansIs
  <1>4. /\ i + 1 \in 1 .. Len(program[r]) => x \in ChainReading /\ Walked(f, x, nexta)
        /\ b.to \in Routine => h \in ChainReading /\ Walked(f, h, toa)
    <2>1. i + 1 \in 1 .. Len(program[r]) => i + 1 \in DOMAIN program[r]
      BY BlocksAre
    <2>2. b.to \in Routine => 1 \in DOMAIN program[b.to]
      BY BlocksAre
    <2> QED
      BY <2>1, <2>2 DEF AllWalked
  <1>5. ASSUME NEW k \in Nat, NEW as \in Seq(Nat), NEW o, k + q <= Guard, AtTag(f[k], a, as, o)
        PROVE  BlockLeft(r, i, as, f[k + q], o \o d)
    BY <1>5, BlockTurns
  <1>6. ASSUME NEW y, NEW w, NEW k \in Nat, NEW as \in Seq(Nat), NEW o \in Seq(ChainQuad), Walked(f, y, w),
               k + y.turns < Guard, Len(as) + y.nest <= ASRS, AtTag(f[k], w, as, o)
        PROVE  WalkLeft(f[k + y.turns], y.stop, as, o \o y.data)
    <2> HIDE DEF f
    <2> QED
      BY <1>6 DEF Walked
  <1> HIDE DEF f, m, h, x, d, nexta, toa, a, q
  <1>7. ASSUME NEW k \in Nat, NEW as \in Seq(Nat), NEW o \in Seq(ChainQuad),
               k + m.turns < Guard, Len(as) + m.nest <= ASRS, AtTag(f[k], a, as, o)
        PROVE  WalkLeft(f[k + m.turns], m.stop, as, o \o m.data)
    <2> DEFINE e == o \o d
               irq == tie /\ b.irq
    <2>0. Len(as) \in Nat /\ e \in Seq(ChainQuad)
      BY <1>2, ChainConcat, LenProperties
    <2>1. CASE irq \/ b.id \in {"refe", "ret", "end"}
      <3>1. m.data = d /\ m.stop = (b.id # "ret" \/ irq) /\ m.turns = q
        <4>1. MeansNow(program, r, i, tie, up, m)
          BY <1>3, <2>1 DEF MeansSo
        <4>2. m = [data |-> d, stop |-> b.id # "ret" \/ irq, turns |-> q, nest |-> 0]
          BY <4>1 DEF MeansNow, d, q
        <4> HIDE DEF irq, q
        <4> QED
          BY <4>2
      <3>2. BlockLeft(r, i, as, f[k + q], e)
        <4>1. k + q <= Guard
          BY <1>1, <1>7, <3>1
        <4> QED
          BY <1>5, <1>7, <4>1
      <3> DEFINE z == f[k + q]
      <3> HIDE DEF z
      <3>3. WalkLeft(z, m.stop, as, e)
        <4>1. BlockLeft(r, i, as, z, e)
          BY <3>2 DEF z
        <4>2. CASE m.stop \/ as = << >>
          <5>1. AtEnd(z, e)
            BY <2>1, <3>1, <4>1, <4>2 DEF BlockLeft
          <5> QED
            BY <4>2, <5>1 DEF WalkLeft
        <4>3. CASE ~(m.stop \/ as = << >>)
          <5>1. AtTag(z, Last(as), Front(as), e)
            BY <2>1, <3>1, <4>1, <4>3 DEF BlockLeft
          <5> QED
            BY <4>3, <5>1 DEF WalkLeft
        <4> QED
          BY <4>2, <4>3
      <3> QED
        BY <3>1, <3>3 DEF z
    <2>2. ASSUME NEW y \in ChainReading, NEW w, Walked(f, y, w), ~irq, MeansOn(program, r, i, up, y, m),
                 NEW ar \in Seq(Nat), Len(ar) + y.nest <= ASRS,
                 BlockLeft(r, i, as, f[k + q], e) => AtTag(f[k + q], w, ar, e)
          PROVE  WalkLeft(f[k + m.turns], m.stop, ar, o \o m.data)
      <3>1. m.data = d \o y.data /\ m.stop = y.stop /\ m.turns = q + y.turns
        BY <2>2 DEF MeansOn, d, q
      <3>2. y.turns \in Nat /\ y.data \in Seq(ChainQuad)
        BY <2>2 DEF ChainReading
      <3> DEFINE j == k + q
      <3>3. j \in Nat /\ j <= Guard /\ j + y.turns < Guard /\ k + m.turns = j + y.turns
        BY <1>1, <1>7, <3>1, <3>2
      <3> HIDE DEF q, irq
      <3>4. AtTag(f[j], w, ar, e)
        <4>1. BlockLeft(r, i, as, f[k + q], e)
          BY <1>5, <1>7, <3>3
        <4> QED
          BY <2>2, <4>1
      <3> HIDE DEF j, e
      <3>5. WalkLeft(f[j + y.turns], y.stop, ar, e \o y.data)
        BY <1>6, <2>0, <2>2, <3>3, <3>4
      <3>6. e \o y.data = o \o m.data
        <4>1. (o \o d) \o y.data = o \o (d \o y.data)
          <5> DEFINE yd == y.data
          <5> HIDE DEF yd
          <5>1. yd \in Seq(ChainQuad)
            BY <3>2 DEF yd
          <5>2. (o \o d) \o yd = o \o (d \o yd)
            <6> HIDE DEF e
            <6>1. o \in Seq(ChainQuad)
              BY <1>7
            <6> QED
              BY <1>2, <5>1, <6>1, QuadsAssociate, Zenon
          <5> QED
            BY <5>2 DEF yd
        <4> QED
          BY <3>1, <4>1 DEF e
      <3> QED
        BY <3>1, <3>3, <3>5, <3>6
    <2>3. CASE ~irq /\ b.id \in {"cnt", "ref"}
      <3>1. i + 1 \in 1 .. Len(program[r]) /\ MeansOn(program, r, i, up, x, m) /\ m.nest = x.nest
        BY <1>3, <2>3 DEF MeansSo, x
      <3>2. x \in ChainReading /\ Walked(f, x, nexta)
        BY <1>4, <3>1
      <3>3. BlockLeft(r, i, as, f[k + q], e) => AtTag(f[k + q], nexta, as, e)
        <4> HIDE DEF e, q
        <4> QED
          BY <2>3 DEF BlockLeft, nexta
      <3> HIDE DEF e, q, irq
      <3> QED
        BY <1>7, <2>2, <2>3, <3>1, <3>2, <3>3
    <2>4. CASE ~irq /\ b.id = "next"
      <3>1. b.to \in Routine /\ MeansOn(program, r, i, up, h, m) /\ m.nest = h.nest
        BY <1>3, <2>4 DEF MeansSo, h
      <3>2. h \in ChainReading /\ Walked(f, h, toa)
        BY <1>4, <3>1
      <3>3. BlockLeft(r, i, as, f[k + q], e) => AtTag(f[k + q], toa, as, e)
        <4> HIDE DEF e, q
        <4> QED
          BY <2>4 DEF BlockLeft, toa
      <3> HIDE DEF e, q, irq
      <3> QED
        BY <1>7, <2>2, <2>4, <3>1, <3>2, <3>3
    <2>5. CASE ~irq /\ b.id = "call"
      <3>1. /\ b.to \in Routine /\ i + 1 \in 1 .. Len(program[r]) /\ h \in ChainReading /\ x \in ChainReading
            /\ h.stop => MeansOn(program, r, i, up, h, m) /\ m.nest = 1 + h.nest
            /\ ~h.stop => /\ m.data = d \o (h.data \o x.data) /\ m.stop = x.stop
                          /\ m.turns = q + (h.turns + x.turns)
                          /\ m.nest >= 1 + h.nest /\ m.nest >= x.nest
            /\ m \in ChainReading
        BY <1>3, <2>5 DEF MeansSo, h, x, d, q
      <3>2. Walked(f, h, toa) /\ Walked(f, x, nexta)
        BY <1>4, <3>1
      <3>3. /\ h.nest \in Nat /\ x.nest \in Nat /\ h.turns \in Nat /\ x.turns \in Nat /\ m.nest \in Nat
            /\ h.data \in Seq(ChainQuad) /\ x.data \in Seq(ChainQuad) /\ h.stop \in BOOLEAN
        BY <3>1 DEF ChainReading
      <3> DEFINE ar == PushAsr(as, nexta)
      <3> DEFINE n == Len(as)
      <3>n. n \in Nat /\ n + m.nest <= ASRS
        BY <1>7, <2>0
      <3> HIDE DEF n
      <3>h. h.nest \in Nat /\ x.nest \in Nat /\ m.nest \in Nat
        BY <3>3
      <3>m. m.nest >= 1 + h.nest
        <4>1. CASE h.stop
          BY <3>1, <3>h, <4>1
        <4>2. CASE ~h.stop
          BY <3>1, <4>2
        <4> QED
          BY <4>1, <4>2
      <3>4. n + (1 + h.nest) <= ASRS /\ n + 1 <= ASRS
        BY <3>n, <3>h, <3>m DEF ASRS
      <3>5. /\ ar \in Seq(Nat) /\ Len(ar) = Len(as) + 1 /\ ar # << >> /\ Last(ar) = nexta /\ Front(ar) = as
        <4>1. Len(as) < ASRS
          <5>1. n < ASRS
            BY <3>n, <3>4 DEF ASRS
          <5> QED
            BY <5>1 DEF n
        <4> QED
          BY <1>2, <4>1, CallStack
      <3> HIDE DEF ar
      <3>6. Len(ar) + h.nest <= ASRS
        <4>1. Len(ar) = n + 1
          BY <3>5 DEF n
        <4> QED
          BY <3>n, <3>h, <3>4, <4>1 DEF ASRS
      <3>7. BlockLeft(r, i, as, f[k + q], e) => AtTag(f[k + q], toa, ar, e)
        <4> HIDE DEF e, q
        <4> QED
          BY <2>5 DEF BlockLeft, toa, ar, nexta
      <3>8. CASE h.stop
        <4>1. WalkLeft(f[k + m.turns], m.stop, ar, o \o m.data)
          <5> HIDE DEF e, q, irq
          <5> QED
            BY <2>2, <2>5, <3>1, <3>2, <3>5, <3>6, <3>7, <3>8
        <4>2. m.stop
          BY <3>1, <3>8 DEF MeansOn
        <4> QED
          BY <4>1, <4>2 DEF WalkLeft
      <3>9. CASE ~h.stop
        <4> DEFINE j == k + q
                   l == j + h.turns
        <4>1. /\ m.data = d \o (h.data \o x.data) /\ m.stop = x.stop
              /\ m.turns = q + (h.turns + x.turns) /\ m.nest >= x.nest
          BY <3>1, <3>9
        <4>2. /\ j \in Nat /\ j <= Guard /\ j + h.turns < Guard /\ l \in Nat /\ l + x.turns < Guard
              /\ k + m.turns = l + x.turns
          <5>1. k + m.turns < Guard /\ q \in Nat /\ h.turns \in Nat /\ x.turns \in Nat /\ Guard \in Nat
            BY <1>1, <1>7, <3>3
          <5>2. m.turns = q + (h.turns + x.turns)
            BY <4>1
          <5> QED
            BY <5>1, <5>2
        <4>n. Len(as) + x.nest <= ASRS
          <5>1. n + x.nest <= ASRS
            BY <3>n, <3>h, <4>1 DEF ASRS
          <5> QED
            BY <5>1 DEF n
        <4> HIDE DEF q, irq
        <4>3. AtTag(f[j], toa, ar, e)
          <5>1. BlockLeft(r, i, as, f[k + q], e)
            BY <1>5, <1>7, <4>2
          <5> QED
            BY <3>7, <5>1
        <4> HIDE DEF j, e
        <4>4. WalkLeft(f[l], h.stop, ar, e \o h.data)
          BY <1>6, <2>0, <3>2, <3>5, <3>6, <4>2, <4>3
        <4>5. AtTag(f[l], nexta, as, e \o h.data)
          BY <3>5, <3>9, <4>4 DEF WalkLeft
        <4>6. e \o h.data \in Seq(ChainQuad)
          BY <2>0, <3>3, ChainConcat
        <4> HIDE DEF l
        <4>7. WalkLeft(f[l + x.turns], x.stop, as, (e \o h.data) \o x.data)
          BY <1>6, <3>2, <4>2, <4>n, <4>5, <4>6
        <4>8. (e \o h.data) \o x.data = o \o m.data
          <5>1. (e \o h.data) \o x.data = e \o (h.data \o x.data)
            <6> DEFINE hd == h.data
                       xd == x.data
            <6>1. hd \in Seq(ChainQuad) /\ xd \in Seq(ChainQuad)
              BY <3>3
            <6> HIDE DEF hd, xd, e
            <6>2. (e \o hd) \o xd = e \o (hd \o xd)
              BY <2>0, <6>1, ConcatAssociative
            <6> QED
              BY <6>2 DEF hd, xd
          <5> DEFINE u == h.data \o x.data
          <5>2. u \in Seq(ChainQuad)
            BY <3>3, ChainConcat
          <5> HIDE DEF u
          <5>3. (o \o d) \o u = o \o (d \o u)
            BY <1>2, <5>2, ConcatAssociative
          <5> QED
            BY <4>1, <5>1, <5>3 DEF e, u
        <4> QED
          BY <4>1, <4>2, <4>7, <4>8
      <3> QED
        BY <3>3, <3>8, <3>9
    <2> QED
      BY <1>1, <2>1, <2>3, <2>4, <2>5 DEF ChainTags
  <1>8. Walked(f, m, a)
    BY <1>7 DEF Walked
  <1> QED
    BY <1>8 DEF f, m, a

\* The walk of a chain is what its program means.
LEMMA AllWalk ==
    ASSUME Sound(program), tie \in BOOLEAN, NEW c \in ChainDma, NEW mode, mode # "normal", NEW up
    PROVE  AllWalked(PumpTurns(c, mode, up), ReadAhead(program, tie, up)[Guard])
  <1> DEFINE f == PumpTurns(c, mode, up)
             R == ReadAhead(program, tie, up)
             S == { n \in Nat : n <= Guard => AllWalked(f, R[n]) }
  <1>0. Guard \in Nat
    BY ChainAssumption
  <1>1. \A n \in 0 .. Guard : \A s \in Routine : \A j \in DOMAIN program[s] : R[n][s][j] \in ChainReading
    BY ReadingsAre
  <1>2. ASSUME NEW g, AllWalked(f, g), NEW s \in Routine, NEW j \in DOMAIN program[s]
        PROVE  Walked(f, MeansAt(program, g, s, j, tie, up), At(program, s, j))
    <2>1. j \in 1 .. Len(program[s])
      BY BlocksAre
    <2> QED
      BY <1>2, <2>1, WalkBlock
  <1>3. /\ \A s \in Routine : \A j \in DOMAIN program[s] : R[0][s][j] = Unread
        /\ \A n \in 1 .. Guard : \A s \in Routine : \A j \in DOMAIN program[s] :
              R[n][s][j] = MeansAt(program, R[n - 1], s, j, tie, up)
    BY ReadingIs
  <1> HIDE DEF f, R
  <1>4. AllWalked(f, R[0])
    <2>1. ASSUME NEW s \in Routine, NEW j \in DOMAIN program[s] PROVE Walked(f, R[0][s][j], At(program, s, j))
      <3> DEFINE m == R[0][s][j]
      <3>1. m.turns = Guard
        <4>1. m = Unread
          BY <1>3
        <4> QED
          BY <4>1 DEF Unread
      <3> HIDE DEF m
      <3>2. \A k \in Nat : ~(k + m.turns < Guard)
        BY <1>0, <3>1
      <3>3. Walked(f, m, At(program, s, j))
        BY <3>2 DEF Walked
      <3> QED
        BY <3>3 DEF m
    <2> QED
      BY <1>0, <1>1, <2>1 DEF AllWalked
  <1>5. ASSUME NEW n \in S PROVE n + 1 \in S
    <2>0. n \in Nat /\ (n <= Guard => AllWalked(f, R[n]))
      OBVIOUS
    <2>1. ASSUME n + 1 <= Guard PROVE AllWalked(f, R[n + 1])
      <3>1. n + 1 \in 1 .. Guard /\ n + 1 \in 0 .. Guard /\ (n + 1) - 1 = n /\ AllWalked(f, R[n])
        BY <1>0, <2>0, <2>1
      <3> DEFINE g == R[n]
                 h == R[n + 1]
      <3>2. ASSUME NEW s \in Routine, NEW j \in DOMAIN program[s]
            PROVE  h[s][j] \in ChainReading /\ h[s][j] = MeansAt(program, g, s, j, tie, up)
        BY <1>1, <1>3, <3>1
      <3>3. AllWalked(f, g)
        BY <3>1
      <3> HIDE DEF g, h
      <3>4. AllWalked(f, h)
        <4>1. ASSUME NEW s \in Routine, NEW j \in DOMAIN program[s]
              PROVE  Walked(f, h[s][j], At(program, s, j))
          <5>1. Walked(f, MeansAt(program, g, s, j, tie, up), At(program, s, j))
            BY <1>2, <3>3
          <5> QED
            BY <3>2, <5>1
        <4> QED
          BY <3>2, <4>1 DEF AllWalked
      <3> QED
        BY <3>4 DEF h
    <2> QED
      BY <2>0, <2>1
  <1>6. S = Nat
    <2>1. 0 \in S
      BY <1>4
    <2> HIDE DEF S
    <2> QED
      BY <1>5, <2>1, Induction, S \subseteq Nat DEF S
  <1>7. AllWalked(f, R[Guard])
    <2>1. Guard \in S
      <3> HIDE DEF S
      <3> QED
        BY <1>0, <1>6
    <2> QED
      BY <1>0, <2>1
  <1> QED
    BY <1>7 DEF f, R

\* The pump at its end has put out what it had.
LEMMA PumpEnds ==
    ASSUME Sound(program), tie \in BOOLEAN, NEW c \in ChainDma, NEW mode, NEW up, NEW k \in Nat, k < Guard,
           ~PumpTurns(c, mode, up)[k].over, PumpTurns(c, mode, up)[k].c.qwc = 0,
           PumpTurns(c, mode, up)[k].c.tag_end \/ mode = "normal"
    PROVE  Pump(c, mode, up).out = PumpTurns(c, mode, up)[k].out
  <1> DEFINE f == PumpTurns(c, mode, up)
             j == k + 1
  <1>1. k \in 0 .. Guard /\ j \in 0 .. Guard /\ j \in 1 .. Guard /\ j - 1 = k
    BY ChainAssumption
  <1>2. f[k] \in PumpState
    BY <1>1, TurnsTyped
  <1> HIDE DEF j
  <1>3. f[j] = PumpTurn(mode, up, f[k])
    <2>1. \A n \in 1 .. Guard : f[n] = PumpTurn(mode, up, f[n - 1])
      BY TurnsGo DEF Turning
    <2> HIDE DEF f
    <2> QED
      BY <1>1, <2>1
  <1>4. f[j].over /\ f[j].out = f[k].out
    <2> DEFINE s == f[k]
    <2>1. s \in PumpState /\ ~s.over /\ s.c.qwc = 0 /\ (s.c.tag_end \/ mode = "normal")
      BY <1>2
    <2> HIDE DEF s
    <2> DEFINE z == PumpTurn(mode, up, s)
    <2>2. z.over /\ z.out = s.out
      BY <2>1, EndTurn
    <2> HIDE DEF z
    <2>3. f[j] = z
      BY <1>3 DEF s, z
    <2> QED
      BY <2>2, <2>3 DEF s
  <1>5. Pump(c, mode, up) = f[j]
    BY <1>1, <1>4, TurnsStay
  <1> QED
    BY <1>4, <1>5

\* A transfer of a source channel with an empty call stack and no tag taken.
LEMMA ChainMoves ==
    ASSUME Sound(program), tie \in BOOLEAN, NEW c \in ChainDma, NEW mode \in {"normal", "chain"}, NEW up \in BOOLEAN,
           c.asr = << >>, ~c.tag_end, c.tadr = Origin[Main], NEW l \in Leads, c.madr = l.madr, c.qwc = l.qwc
    PROVE  Pump(c, mode, up).out =
               Quadwords(l.madr, l.qwc) \o (IF mode = "normal" THEN <<>> ELSE Meaning(program, tie, up).data)
  <1> DEFINE f == PumpTurns(c, mode, up)
             m == Meaning(program, tie, up)
             q == l.qwc
             Q == Quadwords(l.madr, q)
  <1>1. /\ Guard \in Nat /\ q \in Nat /\ l.madr \in Nat /\ Main \in Routine
        /\ m.nest <= ASRS /\ q + m.turns < Guard
    BY ChainAssumption DEF Sound
  <1>2. m \in ChainReading /\ m.turns \in Nat /\ m.nest \in Nat /\ m.data \in Seq(ChainQuad)
    <2>1. Guard \in 0 .. Guard /\ 1 \in DOMAIN program[Main]
      BY <1>1, BlocksAre
    <2>2. m \in ChainReading
      BY <1>1, <2>1, ReadingsAre DEF Meaning
    <2> HIDE DEF m
    <2> QED
      BY <2>2 DEF ChainReading
  <1>3. Q \in Seq(ChainQuad)
    BY <1>1, QuadwordsAre
  <1>4. f[0].c = c /\ f[0].out = << >> /\ ~f[0].over
    <2>1. f[0] = [c |-> c, out |-> <<>>, over |-> FALSE]
      BY TurnsAre
    <2> QED
      BY <2>1
  <1>5. RunMoved(f[0], f[q], q)
    <2>1. 0 + q <= Guard /\ 0 + q = q
      BY <1>1, <1>2
    <2> QED
      BY <1>1, <1>4, <2>1, QuadTurns
  <1>6. /\ f[q] \in PumpState /\ ~f[q].over /\ f[q].c.qwc = 0 /\ f[q].out = Q
        /\ f[q].c.tadr = c.tadr /\ ~f[q].c.tag_end /\ f[q].c.asr = << >>
    <2>1. << >> \o Q = Q
      BY <1>3, ConcatEmptySeq
    <2> HIDE DEF f, q
    <2>2. /\ f[q] \in PumpState /\ ~f[q].over /\ f[q].c.qwc = 0 /\ f[q].out = f[0].out \o Quadwords(f[0].c.madr, q)
          /\ f[q].c.tadr = f[0].c.tadr /\ f[q].c.tag_end = f[0].c.tag_end /\ f[q].c.asr = f[0].c.asr
      BY <1>5 DEF RunMoved
    <2> QED
      BY <1>4, <2>1, <2>2
  <1>7. CASE mode = "normal"
    <2>1. Q \o << >> = Q
      BY <1>3, ConcatEmptySeq
    <2>2. q < Guard
      BY <1>1, <1>2
    <2>3. Pump(c, mode, up).out = f[q].out
      BY <1>1, <1>6, <1>7, <2>2, PumpEnds
    <2> QED
      BY <1>6, <1>7, <2>1, <2>3
  <1>8. CASE mode # "normal"
    <2> DEFINE k == q + m.turns
               a == At(program, Main, 1)
    <2>1. Walked(f, m, a)
      <3>1. AllWalked(f, ReadAhead(program, tie, up)[Guard])
        BY <1>8, AllWalk
      <3>2. 1 \in DOMAIN program[Main]
        BY <1>1, BlocksAre
      <3> QED
        BY <1>1, <3>1, <3>2 DEF AllWalked, Meaning
    <2>2. AtTag(f[q], a, << >>, Q)
      <3>1. a = Origin[Main]
        BY <1>1, AtIs
      <3> HIDE DEF f, q, Q
      <3> QED
        BY <1>6, <3>1 DEF AtTag
    <2>3. << >> \in Seq(Nat) /\ Len(<< >>) = 0 /\ 0 + m.nest <= ASRS
      <3>1. 0 + m.nest = m.nest
        BY <1>2
      <3> HIDE DEF m
      <3> QED
        BY <1>1, <3>1
    <2>4. k \in Nat /\ k < Guard
      BY <1>1, <1>2
    <2>5. WalkLeft(f[k], m.stop, << >>, Q \o m.data)
      <3> HIDE DEF f, m, q, Q, a
      <3> QED
        BY <1>1, <1>3, <2>1, <2>2, <2>3 DEF Walked
    <2> HIDE DEF k
    <2>6. ~f[k].over /\ f[k].c.qwc = 0 /\ f[k].c.tag_end /\ f[k].out = Q \o m.data
      <3> HIDE DEF f, m, Q
      <3> QED
        BY <2>5 DEF WalkLeft, AtEnd
    <2>7. Pump(c, mode, up).out = f[k].out
      BY <2>4, <2>6, PumpEnds
    <2> QED
      BY <1>8, <2>6, <2>7
  <1> QED
    BY <1>7, <1>8

\* Whatever it starts with, the channel's registers stay in their range.
LEMMA PumpTyped ==
    ASSUME Sound(program), tie \in BOOLEAN, NEW c \in ChainDma, NEW mode, NEW up
    PROVE  Pump(c, mode, up).c \in ChainDma
  <1>1. Guard \in 0 .. Guard
    BY ChainAssumption
  <1>2. Pump(c, mode, up) \in PumpState
    <2>1. Pump(c, mode, up) = PumpTurns(c, mode, up)[Guard]
      BY TurnsAre
    <2>2. PumpTurns(c, mode, up)[Guard] \in PumpState
      BY <1>1, TurnsTyped
    <2> QED
      BY <2>1, <2>2
  <1> QED
    BY <1>2 DEF PumpState

(***************************************************************************)
(* The pump of fromSPR.                                                    *)
(***************************************************************************)
SprTag == [qwc : Nat, madr : Nat]
SprDma == [name : {"spr_from"}, madr : Nat, qwc : Nat, tadr : Nat, sadr : Nat, tag_end : BOOLEAN, asr : Seq(Nat)]
SprState == [c : SprDma, tags : Seq(SprTag), out : Seq(Nat \X Nat), over : BOOLEAN]

LEMMA RestOf ==
    ASSUME NEW e \in Nat \ {0}, NEW q \in Nat, NEW r \in 0 .. (e - 1)
    PROVE  (q * e + r) % e = r
  BY SMTT(30)

LEMMA WrapOn ==
    ASSUME NEW e \in Nat \ {0}, NEW x \in Nat
    PROVE  ((x % e) + 1) % e = (x + 1) % e /\ x % e \in Nat /\ (x < e => x % e = x)
  <1> DEFINE q == x \div e
             r == x % e
  <1>1. q \in Nat /\ r \in 0 .. (e - 1) /\ x = q * e + r
    BY SplitOf
  <1> HIDE DEF q, r
  <1>2. CASE r + 1 < e
    <2>1. x + 1 = q * e + (r + 1) /\ r + 1 \in 0 .. (e - 1) /\ q * e \in Nat
      BY <1>1, <1>2
    <2>2. (q * e + (r + 1)) % e = r + 1 /\ (r + 1) % e = r + 1
      <3>1. (q * e + (r + 1)) % e = r + 1
        BY <1>1, <2>1, RestOf
      <3>2. (r + 1) % e = r + 1
        BY <2>1
      <3> QED
        BY <3>1, <3>2
    <2> QED
      BY <1>1, <2>1, <2>2 DEF r
  <1>3. CASE r + 1 = e
    <2>1. x + 1 = (q + 1) * e + 0 /\ q + 1 \in Nat /\ 0 \in 0 .. (e - 1)
      BY <1>1, <1>3
    <2>2. ((q + 1) * e + 0) % e = 0 /\ e % e = 0
      <3>1. ((q + 1) * e + 0) % e = 0
        BY <2>1, RestOf
      <3>2. e % e = 0
        OBVIOUS
      <3> QED
        BY <3>1, <3>2
    <2> QED
      BY <1>1, <1>3, <2>1, <2>2 DEF r
  <1>4. r + 1 < e \/ r + 1 = e
    BY <1>1
  <1>5. x < e => x % e = x
    OBVIOUS
  <1> QED
    BY <1>1, <1>2, <1>3, <1>4, <1>5 DEF r

LEMMA SetAppended ==
    ASSUME NEW S, NEW s \in Seq(S), NEW a \in S
    PROVE  ToSet(Append(s, a)) = ToSet(s) \cup {a} /\ Append(s, a) \in Seq(S)
  <1> DEFINE e == Append(s, a)
             n == Len(s)
  <1>1. /\ e \in Seq(S) /\ Len(e) = n + 1 /\ e[n + 1] = a /\ (\A k \in 1 .. n : e[k] = s[k])
        /\ n \in Nat /\ DOMAIN e = 1 .. n + 1 /\ DOMAIN s = 1 .. n
    OBVIOUS
  <1> HIDE DEF e, n
  <1>2. ToSet(e) \subseteq ToSet(s) \cup {a}
    <2> SUFFICES ASSUME NEW k \in 1 .. n + 1 PROVE e[k] \in ToSet(s) \cup {a}
      BY <1>1 DEF ToSet
    <2>1. k \in 1 .. n \/ k = n + 1
      BY <1>1
    <2> QED
      BY <1>1, <2>1 DEF ToSet
  <1>3. ToSet(s) \subseteq ToSet(e) /\ a \in ToSet(e)
    <2>1. n + 1 \in 1 .. n + 1 /\ \A k \in 1 .. n : k \in 1 .. n + 1
      BY <1>1
    <2> QED
      BY <1>1, <2>1 DEF ToSet
  <1> QED
    BY <1>1, <1>2, <1>3 DEF e

\* The turns of the loop.
SprMoved(s, z) ==
    /\ z \in SprState /\ ~z.over /\ z.out = Append(s.out, <<s.c.sadr, s.c.madr>>) /\ z.tags = s.tags
    /\ z.c.sadr = Wrap(s.c.sadr + 1) /\ z.c.madr = s.c.madr + 1 /\ z.c.qwc = s.c.qwc - 1
    /\ z.c.tag_end = s.c.tag_end
SprTagged(s, z) ==
    /\ z \in SprState /\ ~z.over /\ z.out = s.out /\ z.tags = Tail(s.tags)
    /\ z.c.sadr = Wrap(s.c.sadr + 1) /\ z.c.madr = Head(s.tags).madr /\ z.c.qwc = Head(s.tags).qwc
    /\ z.c.tag_end = (Len(s.tags) = 1)

LEMMA WrapIs ==
    ASSUME NEW a \in Nat
    PROVE  Wrap(a + 1) \in Nat
  BY ChainAssumption, WrapOn DEF Wrap

LEMMA SprQuadTurn ==
    ASSUME NEW s \in SprState, ~s.over, s.c.qwc > 0
    PROVE  SprMoved(s, SprTurn(s))
  <1> DEFINE c == s.c
             w == Wrap(c.sadr + 1)
             a == c.madr + 1
             q == c.qwc - 1
             d == [c EXCEPT !.sadr = w, !.madr = a, !.qwc = q]
             p == <<c.sadr, c.madr>>
             o == Append(s.out, p)
             z == SprTurn(s)
  <1>1. c \in SprDma /\ s.out \in Seq(Nat \X Nat) /\ s.over \in BOOLEAN
    BY DEF SprState
  <1>2. c.madr \in Nat /\ c.qwc \in Nat /\ c.sadr \in Nat
    BY <1>1 DEF SprDma
  <1>3. a \in Nat /\ q \in Nat
    BY <1>2
  <1>4. w \in Nat
    BY <1>2, WrapIs
  <1>5. o \in Seq(Nat \X Nat)
    <2>1. p \in Nat \X Nat
      BY <1>2
    <2> HIDE DEF p
    <2> QED
      BY <1>1, <2>1, SetAppended
  <1>6. z = [s EXCEPT !.c = d, !.out = o]
    BY <1>1 DEF SprTurn
  <1> HIDE DEF c, a, q, o, w, z
  <1>7. d \in SprDma /\ d.madr = a /\ d.qwc = q /\ d.sadr = w /\ d.tag_end = c.tag_end
    BY <1>1, <1>3, <1>4 DEF SprDma
  <1> HIDE DEF d
  <1>8. z \in SprState /\ z.over = s.over /\ z.out = o /\ z.c = d /\ z.tags = s.tags
    BY <1>5, <1>6, <1>7 DEF SprState
  <1>9. SprMoved(s, z)
    BY <1>7, <1>8 DEF SprMoved, c, a, q, o, w
  <1> QED
    BY <1>9 DEF z

LEMMA SprTagTurn ==
    ASSUME NEW s \in SprState, ~s.over, s.c.qwc = 0, ~s.c.tag_end, s.tags # << >>
    PROVE  SprTagged(s, SprTurn(s))
  <1> DEFINE c == s.c
             t == Head(s.tags)
             w == Wrap(c.sadr + 1)
             g == Len(s.tags) = 1
             a == t.madr
             q == t.qwc
             d == [c EXCEPT !.sadr = w, !.madr = a, !.qwc = q, !.tag_end = g]
             r == Tail(s.tags)
             z == SprTurn(s)
  <1>1. c \in SprDma /\ s.tags \in Seq(SprTag) /\ s.over \in BOOLEAN
    BY DEF SprState
  <1>2. c.sadr \in Nat
    BY <1>1 DEF SprDma
  <1>3. t \in SprTag /\ r \in Seq(SprTag)
    BY <1>1, HeadTailProperties
  <1>4. w \in Nat
    BY <1>2, WrapIs
  <1>5. z = [s EXCEPT !.c = d, !.tags = r]
    BY <1>1 DEF SprTurn
  <1>6. g \in BOOLEAN
    OBVIOUS
  <1>a. a \in Nat /\ q \in Nat
    BY <1>3 DEF SprTag
  <1> HIDE DEF c, w, z, g, r, t, a, q
  <1>7. d \in SprDma /\ d.madr = a /\ d.qwc = q /\ d.sadr = w /\ d.tag_end = g
    BY <1>1, <1>4, <1>6, <1>a DEF SprDma
  <1> HIDE DEF d
  <1>8. z \in SprState /\ z.over = s.over /\ z.out = s.out /\ z.c = d /\ z.tags = r
    BY <1>3, <1>5, <1>7 DEF SprState
  <1>9. SprTagged(s, z)
    BY <1>7, <1>8 DEF SprTagged, c, w, g, r, t, a, q
  <1> QED
    BY <1>9 DEF z

LEMMA SprEndTurn ==
    ASSUME NEW s \in SprState, ~s.over, s.c.qwc = 0, s.c.tag_end
    PROVE  LET z == SprTurn(s)
           IN z \in SprState /\ z.over /\ z.out = s.out /\ ~z.c.tag_end
  <1> DEFINE c == s.c
             d == [c EXCEPT !.tag_end = FALSE]
             z == SprTurn(s)
  <1>1. c \in SprDma
    BY DEF SprState
  <1>2. z = [s EXCEPT !.c = d, !.over = TRUE]
    BY DEF SprTurn
  <1> HIDE DEF c, z
  <1>3. d \in SprDma /\ ~d.tag_end
    BY <1>1 DEF SprDma
  <1> HIDE DEF d
  <1>4. z \in SprState /\ z.over /\ z.out = s.out /\ z.c = d
    BY <1>2, <1>3 DEF SprState
  <1> QED
    BY <1>3, <1>4 DEF z

\* Runs of a destination chain ts read from scratchpad quadword from on: the first n
\* quadwords of run k, all the runs before k, and the tags left after k of them.
RunSet(ts, from, k, n) == { <<(from + AheadOf(ts, k) + 1 + j) % SprSize, ts[k].madr + j>> : j \in 0 .. n - 1 }
RunsBefore(ts, from, k) == UNION { RunSet(ts, from, i, ts[i].qwc) : i \in 1 .. k - 1 }
RunsRest(tags, ts, k) ==
    /\ tags \in Seq(SprTag) /\ Len(tags) = Len(ts) - k
    /\ \A i \in 1 .. Len(ts) - k : tags[i] = ts[k + i]

\* After k runs, and in run k after m of its quadwords.
ToRun(s, ts, from, k) ==
    /\ s \in SprState /\ ~s.over /\ s.c.qwc = 0 /\ s.c.tag_end = (k = Len(ts))
    /\ s.c.sadr = (from + AheadOf(ts, k + 1)) % SprSize
    /\ RunsRest(s.tags, ts, k) /\ ToSet(s.out) = RunsBefore(ts, from, k + 1)
InRun(s, ts, from, k, m) ==
    /\ s \in SprState /\ ~s.over /\ s.c.qwc = ts[k].qwc - m /\ s.c.madr = ts[k].madr + m
    /\ s.c.tag_end = (k = Len(ts))
    /\ s.c.sadr = (from + AheadOf(ts, k) + 1 + m) % SprSize
    /\ RunsRest(s.tags, ts, k)
    /\ ToSet(s.out) = RunsBefore(ts, from, k) \cup RunSet(ts, from, k, m)

LEMMA AheadIs ==
    ASSUME NEW ts \in Seq(SprTag)
    PROVE  /\ AheadOf(ts, 1) = 0
           /\ \A k \in 1 .. Len(ts) : /\ AheadOf(ts, k) \in Nat /\ ts[k].qwc \in Nat /\ ts[k].madr \in Nat
                                      /\ AheadOf(ts, k + 1) = AheadOf(ts, k) + (1 + ts[k].qwc)
  <1> DEFINE n == Len(ts)
             x == [i \in 1 .. n |-> 1 + ts[i].qwc]
             f == SumTo(x)
  <1>1. n \in Nat /\ \A i \in 1 .. n : ts[i] \in SprTag
    BY ElementOfSeq, LenProperties
  <1>2. \A i \in 1 .. n : ts[i].qwc \in Nat /\ ts[i].madr \in Nat
    <2> HIDE DEF n
    <2> QED
      BY <1>1 DEF SprTag
  <1>3. \A k : AheadOf(ts, k) = f[k - 1]
    BY DEF AheadOf
  <1> HIDE DEF n
  <1>4. Len(x) = n /\ \A i \in 1 .. n : x[i] = 1 + ts[i].qwc /\ x[i] \in Nat
    <2>1. \A i \in 1 .. n : x[i] = 1 + ts[i].qwc /\ x[i] \in Nat
      BY <1>2
    <2>2. Len(x) = n
      BY <1>1
    <2> QED
      BY <2>1, <2>2
  <1> HIDE DEF x
  <1>5. f[0] = 0 /\ (\A i \in 1 .. n : f[i] = f[i - 1] + x[i]) /\ \A i \in 0 .. n : f[i] \in Nat
    <2>1. Len(x) \in Nat /\ \A i \in 1 .. Len(x) : x[i] \in Nat
      BY <1>1, <1>4
    <2>2. /\ SumTo(x)[0] = 0 /\ (\A i \in 1 .. Len(x) : SumTo(x)[i] = SumTo(x)[i - 1] + x[i])
          /\ \A i \in 0 .. Len(x) : SumTo(x)[i] \in Nat
      BY <2>1, SumIs
    <2> QED
      BY <1>4, <2>2
  <1> HIDE DEF f
  <1>6. AheadOf(ts, 1) = 0
    BY <1>3, <1>5
  <1>7. ASSUME NEW k \in 1 .. n
        PROVE  AheadOf(ts, k) \in Nat /\ AheadOf(ts, k + 1) = AheadOf(ts, k) + (1 + ts[k].qwc)
    <2>1. k - 1 \in 0 .. n /\ (k + 1) - 1 = k
      BY <1>1
    <2>2. f[k - 1] \in Nat /\ f[k] = f[k - 1] + x[k] /\ x[k] = 1 + ts[k].qwc
      BY <1>4, <1>5, <2>1
    <2>3. AheadOf(ts, k) = f[k - 1] /\ AheadOf(ts, k + 1) = f[k]
      BY <1>3, <2>1
    <2> QED
      BY <2>2, <2>3
  <1> QED
    BY <1>2, <1>6, <1>7 DEF n

LEMMA RunBegins ==
    ASSUME NEW ts \in Seq(SprTag), NEW from \in Nat, NEW k \in 1 .. Len(ts), NEW s, ToRun(s, ts, from, k - 1)
    PROVE  InRun(SprTurn(s), ts, from, k, 0)
  <1> DEFINE n == Len(ts)
             A == AheadOf(ts, k)
             z == SprTurn(s)
             t == s.tags
  <1>1. n \in Nat /\ k \in 1 .. n /\ k - 1 # n /\ (k - 1) + 1 = k
    BY LenProperties
  <1>2. A \in Nat /\ ts[k].qwc \in Nat /\ ts[k].madr \in Nat
    BY AheadIs
  <1>3. /\ s \in SprState /\ ~s.over /\ s.c.qwc = 0 /\ s.c.tag_end = (k - 1 = n)
        /\ s.c.sadr = (from + AheadOf(ts, (k - 1) + 1)) % SprSize
        /\ RunsRest(t, ts, k - 1) /\ ToSet(s.out) = RunsBefore(ts, from, (k - 1) + 1)
    BY DEF ToRun
  <1> HIDE DEF n, A, z, t
  <1>4. ~s.c.tag_end /\ s.c.sadr = (from + A) % SprSize /\ ToSet(s.out) = RunsBefore(ts, from, k)
    BY <1>1, <1>3 DEF A
  <1>5. t \in Seq(SprTag) /\ Len(t) = n - (k - 1) /\ \A i \in 1 .. n - (k - 1) : t[i] = ts[(k - 1) + i]
    BY <1>3 DEF RunsRest, n
  <1>6. t # << >> /\ Len(t) \in Nat /\ (Len(t) = 1 <=> k = n)
    <2>1. Len(t) >= 1
      BY <1>1, <1>5
    <2>2. t # << >>
      BY <2>1
    <2> QED
      BY <1>1, <1>5, <2>2
  <1>7. Head(t) = ts[k] /\ RunsRest(Tail(t), ts, k)
    <2> DEFINE u == Tail(t)
    <2>1. u \in Seq(SprTag) /\ Len(u) = Len(t) - 1 /\ \A i \in 1 .. Len(u) : u[i] = t[i + 1]
      BY <1>5, <1>6, HeadTailProperties
    <2>2. Head(t) = t[1]
      BY <1>5, <1>6
    <2>3. t[1] = ts[k]
      <3>1. 1 \in 1 .. n - (k - 1) /\ (k - 1) + 1 = k
        BY <1>1
      <3> QED
        BY <1>5, <3>1
    <2> HIDE DEF u
    <2>4. Len(u) = n - k
      BY <1>1, <1>5, <2>1
    <2>5. ASSUME NEW i \in 1 .. n - k PROVE u[i] = ts[k + i]
      <3>1. i \in 1 .. Len(u) /\ i + 1 \in 1 .. n - (k - 1) /\ (k - 1) + (i + 1) = k + i
        BY <1>1, <2>4
      <3> DEFINE j == i + 1
      <3>2. u[i] = t[j] /\ j \in 1 .. n - (k - 1) /\ (k - 1) + j = k + i
        BY <2>1, <3>1
      <3> HIDE DEF j
      <3> QED
        BY <1>5, <3>2
    <2> QED
      BY <2>1, <2>2, <2>3, <2>4, <2>5 DEF RunsRest, n, u
  <1>8. SprTagged(s, z)
    BY <1>3, <1>4, <1>6, SprTagTurn DEF t, z
  <1>9. /\ z \in SprState /\ ~z.over /\ z.out = s.out /\ z.tags = Tail(t)
        /\ z.c.sadr = Wrap(s.c.sadr + 1) /\ z.c.madr = ts[k].madr /\ z.c.qwc = ts[k].qwc
        /\ z.c.tag_end = (Len(t) = 1)
    BY <1>7, <1>8 DEF SprTagged, t
  <1>10. z.c.sadr = (from + A + 1 + 0) % SprSize
    <2>1. (((from + A) % SprSize) + 1) % SprSize = ((from + A) + 1) % SprSize
      <3> DEFINE x == from + A
      <3>1. x \in Nat
        BY <1>2
      <3> HIDE DEF x
      <3>2. ((x % SprSize) + 1) % SprSize = (x + 1) % SprSize
        BY <3>1, ChainAssumption, WrapOn
      <3> QED
        BY <3>2 DEF x
    <2>2. (from + A) + 1 = from + A + 1 + 0
      BY <1>2
    <2> QED
      BY <1>4, <1>9, <2>1, <2>2 DEF Wrap
  <1>11. RunSet(ts, from, k, 0) = {}
    <2>1. 0 .. 0 - 1 = {}
      OBVIOUS
    <2> QED
      BY <2>1 DEF RunSet
  <1>12. ts[k].qwc = ts[k].qwc - 0 /\ ts[k].madr = ts[k].madr + 0
    BY <1>2
  <1>13. z.c.tag_end = (k = n)
    BY <1>6, <1>9
  <1>14. InRun(z, ts, from, k, 0)
    BY <1>4, <1>7, <1>9, <1>10, <1>11, <1>12, <1>13 DEF InRun, A, n
  <1> QED
    BY <1>14 DEF z

LEMMA RunGoesOn ==
    ASSUME NEW ts \in Seq(SprTag), NEW from \in Nat, NEW k \in 1 .. Len(ts), NEW m \in Nat, m < ts[k].qwc,
           NEW s, InRun(s, ts, from, k, m)
    PROVE  InRun(SprTurn(s), ts, from, k, m + 1)
  <1> DEFINE A == AheadOf(ts, k)
             q == ts[k].qwc
             a == ts[k].madr
             z == SprTurn(s)
  <1>1. A \in Nat /\ q \in Nat /\ a \in Nat /\ m < q
    BY AheadIs
  <1>2. /\ s \in SprState /\ ~s.over /\ s.c.qwc = q - m /\ s.c.madr = a + m
        /\ s.c.tag_end = (k = Len(ts))
        /\ s.c.sadr = (from + A + 1 + m) % SprSize
        /\ RunsRest(s.tags, ts, k)
        /\ ToSet(s.out) = RunsBefore(ts, from, k) \cup RunSet(ts, from, k, m)
    BY DEF InRun
  <1> HIDE DEF A, q, a, z
  <1>3. s.c.qwc > 0
    BY <1>1, <1>2
  <1>4. /\ z \in SprState /\ ~z.over /\ z.out = Append(s.out, <<s.c.sadr, s.c.madr>>) /\ z.tags = s.tags
        /\ z.c.sadr = Wrap(s.c.sadr + 1) /\ z.c.madr = s.c.madr + 1 /\ z.c.qwc = s.c.qwc - 1
        /\ z.c.tag_end = s.c.tag_end
    <2>1. SprMoved(s, z)
      BY <1>2, <1>3, SprQuadTurn DEF z
    <2> QED
      BY <2>1 DEF SprMoved
  <1>5. z.c.sadr = (from + A + 1 + (m + 1)) % SprSize
    <2> DEFINE x == from + A + 1 + m
    <2>1. x \in Nat /\ x + 1 = from + A + 1 + (m + 1)
      BY <1>1
    <2>2. z.c.sadr = ((x % SprSize) + 1) % SprSize
      BY <1>2, <1>4 DEF Wrap
    <2> HIDE DEF x
    <2>3. z.c.sadr = (x + 1) % SprSize
      BY <2>1, <2>2, ChainAssumption, WrapOn
    <2> QED
      BY <2>1, <2>3
  <1>6. z.c.madr = a + (m + 1) /\ z.c.qwc = q - (m + 1)
    <2>1. (a + m) + 1 = a + (m + 1) /\ (q - m) - 1 = q - (m + 1)
      BY <1>1
    <2> QED
      BY <1>2, <1>4, <2>1
  <1>7. ToSet(z.out) = RunsBefore(ts, from, k) \cup RunSet(ts, from, k, m + 1)
    <2> DEFINE p == <<(from + A + 1 + m) % SprSize, a + m>>
    <2>1. ToSet(z.out) = ToSet(s.out) \cup {p}
      <3>1. s.out \in Seq(Nat \X Nat) /\ z.out = Append(s.out, p)
        BY <1>2, <1>4 DEF SprState
      <3>2. p \in Nat \X Nat
        <4>1. from + A + 1 + m \in Nat /\ a + m \in Nat
          BY <1>1
        <4>2. (from + A + 1 + m) % SprSize \in Nat
          <5> DEFINE x == from + A + 1 + m
          <5>1. x \in Nat
            BY <4>1
          <5> HIDE DEF x
          <5>2. x % SprSize \in Nat
            BY <5>1, ChainAssumption, WrapOn
          <5> QED
            BY <5>2 DEF x
        <4> QED
          BY <4>1, <4>2
      <3> DEFINE P == Nat \X Nat
                 u == s.out
      <3>3. u \in Seq(P) /\ p \in P /\ z.out = Append(u, p)
        BY <3>1, <3>2
      <3> HIDE DEF p, P, u
      <3>4. ToSet(Append(u, p)) = ToSet(u) \cup {p}
        BY <3>3, SetAppended
      <3> QED
        BY <3>3, <3>4 DEF u
    <2>2. RunSet(ts, from, k, m + 1) = RunSet(ts, from, k, m) \cup {p}
      <3> DEFINE g(j) == <<(from + A + 1 + j) % SprSize, a + j>>
      <3>1. \A n : RunSet(ts, from, k, n) = { g(j) : j \in 0 .. n - 1 }
        BY DEF RunSet, A, a
      <3>2. 0 .. (m + 1) - 1 = (0 .. m - 1) \cup {m}
        OBVIOUS
      <3>3. p = g(m)
        OBVIOUS
      <3> HIDE DEF g
      <3>4. { g(j) : j \in 0 .. (m + 1) - 1 } = { g(j) : j \in 0 .. m - 1 } \cup {g(m)}
        BY <3>2
      <3> QED
        BY <3>1, <3>3, <3>4
    <2> HIDE DEF p
    <2> QED
      BY <1>2, <2>1, <2>2
  <1>8. InRun(z, ts, from, k, m + 1)
    BY <1>2, <1>4, <1>5, <1>6, <1>7 DEF InRun, A, q, a
  <1> QED
    BY <1>8 DEF z

LEMMA RunDone ==
    ASSUME NEW ts \in Seq(SprTag), NEW from \in Nat, NEW k \in 1 .. Len(ts), NEW s,
           InRun(s, ts, from, k, ts[k].qwc)
    PROVE  ToRun(s, ts, from, k)
  <1> DEFINE A == AheadOf(ts, k)
             q == ts[k].qwc
  <1>1. A \in Nat /\ q \in Nat /\ AheadOf(ts, k + 1) = A + (1 + q)
    BY AheadIs
  <1>2. /\ s \in SprState /\ ~s.over /\ s.c.qwc = q - q
        /\ s.c.tag_end = (k = Len(ts))
        /\ s.c.sadr = (from + A + 1 + q) % SprSize
        /\ RunsRest(s.tags, ts, k)
        /\ ToSet(s.out) = RunsBefore(ts, from, k) \cup RunSet(ts, from, k, q)
    BY DEF InRun
  <1>3. RunsBefore(ts, from, k + 1) = RunsBefore(ts, from, k) \cup RunSet(ts, from, k, q)
    <2> DEFINE g(i) == RunSet(ts, from, i, ts[i].qwc)
    <2>1. \A n : RunsBefore(ts, from, n) = UNION { g(i) : i \in 1 .. n - 1 }
      BY DEF RunsBefore
    <2>2. 1 .. (k + 1) - 1 = (1 .. k - 1) \cup {k}
      OBVIOUS
    <2>3. g(k) = RunSet(ts, from, k, q)
      OBVIOUS
    <2> HIDE DEF g
    <2>4. UNION { g(i) : i \in 1 .. (k + 1) - 1 } = (UNION { g(i) : i \in 1 .. k - 1 }) \cup g(k)
      BY <2>2
    <2> QED
      BY <2>1, <2>3, <2>4
  <1> HIDE DEF A, q
  <1>4. q - q = 0 /\ from + A + 1 + q = from + AheadOf(ts, k + 1)
    BY <1>1
  <1> QED
    BY <1>2, <1>3, <1>4 DEF ToRun

\* The turns of the pump of fromSPR, one after the other.
SprTurns(c, tags) ==
    LET f[n \in 0 .. Guard] == IF n = 0 THEN [c |-> c, tags |-> tags, out |-> <<>>, over |-> FALSE]
                               ELSE SprTurn(f[n - 1])
    IN f
SprTurning(f) == \A n \in 1 .. Guard : f[n] = SprTurn(f[n - 1])

LEMMA SprTurnsAre ==
    ASSUME NEW c, NEW tags
    PROVE  /\ SprTurns(c, tags)[0] = [c |-> c, tags |-> tags, out |-> <<>>, over |-> FALSE]
           /\ SprTurning(SprTurns(c, tags))
           /\ PumpFromSpr(c, tags) = SprTurns(c, tags)[Guard]
  <1> DEFINE Z == [c |-> c, tags |-> tags, out |-> <<>>, over |-> FALSE]
             G(n, g) == g = [k \in 0 .. n |-> IF k = 0 THEN Z ELSE SprTurn(g[k - 1])]
             S == { n \in Nat : \E g : G(n, g) }
             f == SprTurns(c, tags)
  <1>0. PumpFromSpr(c, tags) = f[Guard]
    BY DEF PumpFromSpr, SprTurns
  <1> HIDE DEF Z
  <1>1. 0 \in S
    <2>1. G(0, [k \in 0 .. 0 |-> Z])
      OBVIOUS
    <2> QED
      BY <2>1
  <1>2. ASSUME NEW n \in S PROVE n + 1 \in S
    <2>1. PICK g : G(n, g)
      OBVIOUS
    <2> DEFINE h == [k \in 0 .. n + 1 |-> IF k <= n THEN g[k] ELSE SprTurn(g[n])]
    <2>2. \A k \in 0 .. n + 1 : h[k] = IF k = 0 THEN Z ELSE SprTurn(h[k - 1])
      BY <2>1
    <2>3. G(n + 1, h)
      BY <2>2
    <2>4. n + 1 \in Nat /\ \E e : G(n + 1, e)
      <3> HIDE DEF h, G
      <3> QED
        BY <2>3
    <2> QED
      BY <2>4
  <1>3. S = Nat
    <2> HIDE DEF S
    <2> QED
      BY <1>1, <1>2, Induction, S \subseteq Nat DEF S
  <1>4. G(Guard, f)
    <2>1. \E g : G(Guard, g)
      BY <1>3, ChainAssumption
    <2>2. f = CHOOSE g : G(Guard, g)
      BY DEF SprTurns, Z
    <2> HIDE DEF f
    <2> QED
      BY <2>1, <2>2
  <1> HIDE DEF f
  <1>5. f[0] = Z /\ \A n \in 1 .. Guard : f[n] = SprTurn(f[n - 1])
    BY <1>4, ChainAssumption
  <1> QED
    BY <1>0, <1>5 DEF f, Z, SprTurning

LEMMA SprStays ==
    ASSUME NEW f, SprTurning(f), NEW k \in 0 .. Guard, f[k].over
    PROVE  f[Guard] = f[k]
  <1> DEFINE S == { n \in Nat : k + n <= Guard => f[k + n] = f[k] }
  <1>0. Guard \in Nat /\ k \in Nat /\ k <= Guard
    BY ChainAssumption
  <1>1. \A n \in 1 .. Guard : f[n] = SprTurn(f[n - 1])
    BY DEF SprTurning
  <1>3. 0 \in S
    BY <1>0
  <1>4. ASSUME NEW n \in S PROVE n + 1 \in S
    <2>0. n \in Nat /\ (k + n <= Guard => f[k + n] = f[k])
      OBVIOUS
    <2>1. ASSUME k + (n + 1) <= Guard PROVE f[k + (n + 1)] = f[k]
      <3> DEFINE j == k + (n + 1)
      <3>1. j \in 1 .. Guard /\ j - 1 = k + n /\ f[k + n] = f[k]
        BY <1>0, <2>0, <2>1
      <3> HIDE DEF j
      <3>2. f[j] = SprTurn(f[k])
        BY <1>1, <3>1
      <3>3. f[j] = f[k]
        BY <3>2 DEF SprTurn
      <3> QED
        BY <3>3 DEF j
    <2> QED
      BY <2>0, <2>1
  <1>5. S = Nat
    <2> HIDE DEF S
    <2> QED
      BY <1>3, <1>4, Induction, S \subseteq Nat DEF S
  <1> DEFINE n == Guard - k
  <1>6. n \in S
    <2>1. n \in Nat
      BY <1>0
    <2> HIDE DEF S
    <2> QED
      BY <1>5, <2>1
  <1>7. k + n = Guard
    BY <1>0
  <1> QED
    BY <1>0, <1>6, <1>7

\* A run: its tag and its quadwords.
LEMMA RunTurns ==
    ASSUME NEW f, SprTurning(f), NEW ts \in Seq(SprTag), NEW from \in Nat, NEW k \in 1 .. Len(ts),
           NEW n \in Nat, n + (1 + ts[k].qwc) <= Guard, ToRun(f[n], ts, from, k - 1)
    PROVE  ToRun(f[n + (1 + ts[k].qwc)], ts, from, k)
  <1> DEFINE q == ts[k].qwc
             l == n + 1
             S == { m \in Nat : m <= q => InRun(f[l + m], ts, from, k, m) }
  <1>0. Guard \in Nat /\ q \in Nat /\ n + (1 + q) <= Guard
    BY ChainAssumption, AheadIs
  <1>1. \A j \in 1 .. Guard : f[j] = SprTurn(f[j - 1])
    BY DEF SprTurning
  <1>2. l \in Nat /\ l + q <= Guard /\ l \in 1 .. Guard /\ l - 1 = n /\ n + (1 + q) = l + q
    <2> HIDE DEF q
    <2> QED
      BY <1>0
  <1> HIDE DEF l, q
  <1>3. 0 \in S
    <2>1. f[l] = SprTurn(f[n])
      BY <1>1, <1>2
    <2>2. InRun(f[l], ts, from, k, 0)
      BY <2>1, RunBegins
    <2>3. l + 0 = l
      BY <1>2
    <2> QED
      BY <2>2, <2>3
  <1>4. ASSUME NEW m \in S PROVE m + 1 \in S
    <2>0. m \in Nat /\ (m <= q => InRun(f[l + m], ts, from, k, m))
      OBVIOUS
    <2>1. ASSUME m + 1 <= q PROVE InRun(f[l + (m + 1)], ts, from, k, m + 1)
      <3> DEFINE j == l + (m + 1)
      <3>1. j \in 1 .. Guard /\ j - 1 = l + m /\ m < q /\ m <= q
        BY <1>0, <1>2, <2>0, <2>1
      <3> HIDE DEF j
      <3>2. f[j] = SprTurn(f[l + m])
        BY <1>1, <3>1
      <3>3. InRun(f[l + m], ts, from, k, m) /\ m < ts[k].qwc
        BY <2>0, <3>1 DEF q
      <3>4. InRun(f[j], ts, from, k, m + 1)
        BY <2>0, <3>2, <3>3, RunGoesOn
      <3> QED
        BY <3>4 DEF j
    <2> QED
      BY <2>0, <2>1
  <1>5. S = Nat
    <2> HIDE DEF S
    <2> QED
      BY <1>3, <1>4, Induction, S \subseteq Nat DEF S
  <1>6. InRun(f[l + q], ts, from, k, q)
    <2>1. q \in S
      <3> HIDE DEF S
      <3> QED
        BY <1>0, <1>5
    <2> QED
      BY <1>0, <2>1
  <1>7. ToRun(f[l + q], ts, from, k)
    BY <1>6, RunDone DEF q
  <1> QED
    BY <1>2, <1>7 DEF q

\* A destination chain.
LEMMA SprMoves ==
    ASSUME NEW c \in SprDma, NEW ts \in SprRuns, NEW from \in 0 .. SprSize - 1,
           c.qwc = 0, ~c.tag_end, c.sadr = from
    PROVE  /\ PumpFromSpr(c, ts).c \in SprDma /\ ~PumpFromSpr(c, ts).c.tag_end
           /\ ToSet(PumpFromSpr(c, ts).out) = UNION { RunSet(ts, from, k, ts[k].qwc) : k \in DOMAIN ts }
  <1> DEFINE f == SprTurns(c, ts)
             N == Len(ts)
             A(k) == AheadOf(ts, k)
             S == { k \in Nat : k <= N /\ A(k + 1) <= Guard => ToRun(f[A(k + 1)], ts, from, k) }
  <1>0. /\ ts \in Seq(SprTag) /\ ts # << >> /\ A(N + 1) < Guard /\ Guard \in Nat /\ SprSize \in Nat \ {0}
        /\ from \in Nat
    BY ChainAssumption DEF SprTag
  <1>1. N \in Nat /\ N # 0 /\ DOMAIN ts = 1 .. N
    <2> HIDE DEF A
    <2> QED
      BY <1>0
  <1>2. /\ A(1) = 0
        /\ \A k \in 1 .. N : A(k) \in Nat /\ ts[k].qwc \in Nat /\ A(k + 1) = A(k) + (1 + ts[k].qwc)
    BY <1>0, AheadIs
  <1>3. SprTurning(f) /\ PumpFromSpr(c, ts) = f[Guard]
        /\ f[0] = [c |-> c, tags |-> ts, out |-> <<>>, over |-> FALSE]
    BY SprTurnsAre
  <1> HIDE DEF f, A, N
  <1>4. ToRun(f[0], ts, from, 0)
    <2> DEFINE s == f[0]
    <2>1. s.c = c /\ s.tags = ts /\ s.out = << >> /\ s.over = FALSE /\ s \in SprState
      <3>1. << >> \in Seq(Nat \X Nat)
        BY EmptySeq
      <3> QED
        BY <1>0, <1>3, <3>1 DEF SprState
    <2> HIDE DEF s
    <2>2. from = (from + AheadOf(ts, 0 + 1)) % SprSize
      <3>1. from + A(0 + 1) = from
        BY <1>0, <1>2
      <3>2. from % SprSize = from
        <4>1. from < SprSize
          BY <1>0
        <4> QED
          BY <1>0, <4>1, WrapOn
      <3> QED
        BY <3>1, <3>2 DEF A
    <2>3. RunsRest(ts, ts, 0)
      <3>1. Len(ts) = Len(ts) - 0 /\ \A i \in 1 .. Len(ts) - 0 : 0 + i = i
        BY <1>1 DEF N
      <3> QED
        BY <1>0, <3>1 DEF RunsRest
    <2>4. ToSet(<< >>) = {}
      BY DEF ToSet
    <2>5. RunsBefore(ts, from, 0 + 1) = {}
      <3>1. 1 .. (0 + 1) - 1 = {}
        OBVIOUS
      <3> QED
        BY <3>1 DEF RunsBefore
    <2>6. s.c.tag_end = (0 = Len(ts))
      BY <1>1, <2>1 DEF N, SprDma
    <2>7. ToRun(s, ts, from, 0)
      BY <2>1, <2>2, <2>3, <2>4, <2>5, <2>6 DEF ToRun
    <2> QED
      BY <2>7 DEF s
  <1>5. 0 \in S
    <2>1. A(0 + 1) = 0
      BY <1>2
    <2> QED
      BY <1>4, <2>1
  <1>6. ASSUME NEW k \in S PROVE k + 1 \in S
    <2>0. k \in Nat /\ (k <= N /\ A(k + 1) <= Guard => ToRun(f[A(k + 1)], ts, from, k))
      OBVIOUS
    <2>1. ASSUME k + 1 <= N, A((k + 1) + 1) <= Guard PROVE ToRun(f[A((k + 1) + 1)], ts, from, k + 1)
      <3> DEFINE j == k + 1
                 q == ts[j].qwc
      <3>1. j \in 1 .. N /\ k <= N /\ j - 1 = k
        BY <1>1, <2>0, <2>1
      <3> HIDE DEF j
      <3>2. A(j) \in Nat /\ q \in Nat /\ A(j + 1) = A(j) + (1 + q)
        BY <1>2, <3>1
      <3> HIDE DEF q
      <3>3. A(j) <= Guard /\ A(j) + (1 + q) <= Guard
        <4>1. A(j + 1) <= Guard
          BY <2>1 DEF j
        <4> QED
          BY <1>0, <3>2, <4>1
      <3>4. ToRun(f[A(j)], ts, from, j - 1)
        <4>1. ToRun(f[A(k + 1)], ts, from, k)
          BY <2>0, <3>1, <3>3 DEF j
        <4> QED
          BY <3>1, <4>1 DEF j
      <3> DEFINE n == A(j)
      <3>5. ToRun(f[n + (1 + q)], ts, from, j)
        <4>1. n \in Nat /\ n + (1 + ts[j].qwc) <= Guard /\ ToRun(f[n], ts, from, j - 1)
          BY <3>2, <3>3, <3>4 DEF q
        <4> HIDE DEF n
        <4>2. j \in 1 .. Len(ts)
          BY <3>1 DEF N
        <4> QED
          BY <1>0, <1>3, <4>1, <4>2, RunTurns DEF q
      <3> QED
        BY <3>2, <3>5 DEF j
    <2> QED
      BY <2>0, <2>1
  <1>7. S = Nat
    <2> HIDE DEF S
    <2> QED
      BY <1>5, <1>6, Induction, S \subseteq Nat DEF S
  <1> DEFINE T == A(N + 1)
  <1>8. T \in Nat /\ T < Guard /\ T <= Guard
    <2>1. N \in 1 .. N
      BY <1>1
    <2>2. A(N) \in Nat /\ ts[N].qwc \in Nat /\ A(N + 1) = A(N) + (1 + ts[N].qwc)
      BY <1>2, <2>1
    <2> DEFINE q == ts[N].qwc
    <2> HIDE DEF q
    <2>3. A(N) \in Nat /\ q \in Nat /\ T = A(N) + (1 + q)
      BY <2>2 DEF q
    <2> QED
      BY <1>0, <2>3
  <1>9. ToRun(f[T], ts, from, N)
    <2>1. N \in S
      <3> HIDE DEF S
      <3> QED
        BY <1>1, <1>7
    <2> QED
      BY <1>1, <1>8, <2>1
  <1> HIDE DEF T, S
  <1> DEFINE s == f[T]
             z == f[T + 1]
  <1>10. s \in SprState /\ ~s.over /\ s.c.qwc = 0 /\ s.c.tag_end /\ ToSet(s.out) = RunsBefore(ts, from, N + 1)
    BY <1>9 DEF ToRun, N
  <1>11. T + 1 \in 1 .. Guard /\ T + 1 \in 0 .. Guard /\ (T + 1) - 1 = T
    BY <1>0, <1>8
  <1>12. z = SprTurn(s)
    BY <1>3, <1>11 DEF SprTurning
  <1> HIDE DEF s
  <1>13. z \in SprState /\ z.over /\ z.out = s.out /\ ~z.c.tag_end
    BY <1>10, <1>12, SprEndTurn
  <1>14. PumpFromSpr(c, ts) = z
    BY <1>3, <1>11, <1>13, SprStays
  <1>15. RunsBefore(ts, from, N + 1) = UNION { RunSet(ts, from, k, ts[k].qwc) : k \in DOMAIN ts }
    <2>1. 1 .. (N + 1) - 1 = DOMAIN ts
      BY <1>1
    <2> QED
      BY <2>1 DEF RunsBefore
  <1>16. z.c \in SprDma
    BY <1>13 DEF SprState
  <1> QED
    BY <1>10, <1>13, <1>14, <1>15, <1>16

(***************************************************************************)
(* The theorem.                                                            *)
(***************************************************************************)
ChainHolds ==
    /\ dma \in ChainDma \/ (dma \in SprDma /\ ~dma.tag_end)
    /\ program \in Program /\ tie \in BOOLEAN /\ tte \in BOOLEAN
    /\ ChainsExact

LEMMA ChainBegins == ChainInit => ChainHolds
  <1> SUFFICES ASSUME ChainInit PROVE ChainHolds
    OBVIOUS
  <1>1. program \in Program /\ tie \in BOOLEAN /\ tte \in BOOLEAN /\ transfer.channel = "none"
    BY DEF ChainInit, None
  <1>2. dma \in ChainDma \/ (dma \in SprDma /\ ~dma.tag_end)
    <2>1. PICK ch \in Channel :
            dma = [name |-> ch, madr |-> 0, qwc |-> 0, tadr |-> 0, sadr |-> 0, tag_end |-> FALSE, asr |-> <<>>]
      BY DEF ChainInit, Idle
    <2>2. << >> \in Seq(Nat)
      BY EmptySeq
    <2>3. CASE ch \in SourceChannel
      BY <2>1, <2>2, <2>3 DEF ChainDma
    <2>4. CASE ch = "spr_from"
      <3>1. dma \in SprDma
        BY <2>1, <2>2, <2>4 DEF SprDma
      <3>2. ~dma.tag_end
        BY <2>1
      <3> QED
        BY <3>1, <3>2
    <2> QED
      BY <2>3, <2>4 DEF Channel
  <1>3. ChainsExact
    BY <1>1 DEF ChainsExact, ChainRunsProgram, RunsLand, SourceChannel
  <1> QED
    BY <1>1, <1>2, <1>3 DEF ChainHolds

\* A transfer of a source channel.
LEMMA StartKeeps ==
    ASSUME ChainHolds, NEW ch \in SourceChannel, NEW up \in BOOLEAN, Start(ch, up)
    PROVE  ChainHolds'
  <1>1. PICK mode \in {"normal", "chain"}, lead \in Leads :
           LET r == Pump([dma EXCEPT !.tadr = Origin[Main], !.madr = lead.madr, !.qwc = lead.qwc], mode, up)
           IN /\ transfer = None /\ dma.name = ch
              /\ dma' = r.c
              /\ transfer' = [channel |-> ch, mode |-> mode, lead |-> lead, up |-> up,
                              fresh |-> dma.asr = <<>> /\ ~dma.tag_end, moved |-> r.out]
              /\ UNCHANGED <<program, tie, tte>>
    BY DEF Start
  <1> DEFINE o == Origin[Main]
             a == lead.madr
             q == lead.qwc
             c == [dma EXCEPT !.tadr = o, !.madr = a, !.qwc = q]
             r == Pump(c, mode, up)
             fresh == dma.asr = <<>> /\ ~dma.tag_end
  <1>2. o \in Nat /\ a \in Nat /\ q \in Nat
    BY ChainAssumption
  <1>3. program \in Program /\ tie \in BOOLEAN /\ tte \in BOOLEAN /\ Sound(program)
    BY ChainAssumption DEF ChainHolds
  <1>4. dma \in ChainDma
    <2>1. dma.name # "spr_from"
      BY <1>1 DEF SourceChannel
    <2>2. dma \in SprDma => dma.name = "spr_from"
      BY DEF SprDma
    <2> QED
      BY <2>1, <2>2 DEF ChainHolds
  <1>5. /\ dma' = r.c /\ program' = program /\ tie' = tie /\ tte' = tte
        /\ transfer' = [channel |-> ch, mode |-> mode, lead |-> lead, up |-> up, fresh |-> fresh, moved |-> r.out]
    BY <1>1
  <1> HIDE DEF o, a, q
  <1>6. c \in ChainDma /\ c.tadr = o /\ c.madr = a /\ c.qwc = q /\ c.asr = dma.asr /\ c.tag_end = dma.tag_end
    BY <1>2, <1>4 DEF ChainDma
  <1> HIDE DEF c
  <1>7. r.c \in ChainDma
    BY <1>3, <1>6, PumpTyped
  <1>8. fresh => r.out = Quadwords(a, q) \o (IF mode = "normal" THEN <<>> ELSE Meaning(program, tie, up).data)
    BY <1>3, <1>6, ChainMoves DEF o, a, q
  <1> HIDE DEF r, fresh
  <1>9. ChainRunsProgram'
    <2>1. /\ transfer'.fresh = fresh /\ transfer'.moved = r.out /\ transfer'.lead = lead
          /\ transfer'.mode = mode /\ transfer'.up = up
      BY <1>5
    <2>2. Meaning(program', tie', transfer'.up) = Meaning(program, tie, up)
      BY <1>5, <2>1
    <2> HIDE DEF Meaning
    <2> QED
      BY <1>8, <2>1, <2>2 DEF ChainRunsProgram, a, q
  <1>10. RunsLand'
    <2>1. transfer'.channel = ch
      BY <1>5
    <2> QED
      BY <2>1 DEF RunsLand, SourceChannel
  <1> QED
    BY <1>3, <1>5, <1>7, <1>9, <1>10 DEF ChainHolds, ChainsExact

\* A transfer of fromSPR.
LEMMA PumpSprFromKeeps ==
    ASSUME ChainHolds, PumpSprFrom
    PROVE  ChainHolds'
  <1>1. PICK ts \in SprRuns, from \in 0 .. SprSize - 1 :
           LET r == PumpFromSpr([dma EXCEPT !.sadr = from, !.qwc = 0], ts)
           IN /\ transfer = None /\ dma.name = "spr_from"
              /\ dma' = r.c
              /\ transfer' = [channel |-> "spr_from", runs |-> ts, from |-> from, moved |-> r.out]
              /\ UNCHANGED <<program, tie, tte>>
    BY DEF PumpSprFrom
  <1> DEFINE c == [dma EXCEPT !.sadr = from, !.qwc = 0]
             r == PumpFromSpr(c, ts)
  <1>2. dma \in SprDma /\ ~dma.tag_end
    <2>1. dma \in ChainDma => dma.name # "spr_from"
      BY DEF ChainDma, SourceChannel
    <2> QED
      BY <1>1, <2>1 DEF ChainHolds
  <1>3. /\ dma' = r.c /\ program' = program /\ tie' = tie /\ tte' = tte
        /\ transfer' = [channel |-> "spr_from", runs |-> ts, from |-> from, moved |-> r.out]
    BY <1>1
  <1>4. c \in SprDma /\ c.sadr = from /\ c.qwc = 0 /\ ~c.tag_end
    <2>1. from \in Nat
      BY ChainAssumption
    <2> QED
      BY <1>2, <2>1 DEF SprDma
  <1> HIDE DEF c
  <1>5. /\ r.c \in SprDma /\ ~r.c.tag_end
        /\ ToSet(r.out) = UNION { RunSet(ts, from, k, ts[k].qwc) : k \in DOMAIN ts }
    <2>1. PumpFromSpr(c, ts).c \in SprDma /\ ~PumpFromSpr(c, ts).c.tag_end
      BY <1>4, SprMoves
    <2>2. ToSet(PumpFromSpr(c, ts).out) = UNION { RunSet(ts, from, k, ts[k].qwc) : k \in DOMAIN ts }
      BY <1>4, SprMoves, Zenon
    <2> QED
      BY <2>1, <2>2
  <1> HIDE DEF r
  <1>6. transfer'.channel = "spr_from" /\ transfer'.runs = ts /\ transfer'.from = from /\ transfer'.moved = r.out
    BY <1>3
  <1>7. RunsLand'
    BY <1>5, <1>6 DEF RunsLand, RunSet
  <1>8. ChainRunsProgram'
    BY <1>6 DEF ChainRunsProgram, SourceChannel
  <1>9. dma' \in SprDma /\ ~dma'.tag_end
    BY <1>3, <1>5
  <1> QED
    BY <1>3, <1>7, <1>8, <1>9 DEF ChainHolds, ChainsExact

LEMMA ChainSteps == ChainHolds /\ [ChainNext]_chain => ChainHolds'
  <1> SUFFICES ASSUME ChainHolds, [ChainNext]_chain PROVE ChainHolds'
    OBVIOUS
  <1>0. tte \in BOOLEAN /\ FALSE \in BOOLEAN
    BY DEF ChainHolds
  <1>1. CASE PumpVif0
    BY <1>0, <1>1, StartKeeps DEF PumpVif0, SourceChannel
  <1>2. CASE PumpVif1
    BY <1>0, <1>2, StartKeeps DEF PumpVif1, SourceChannel
  <1>3. CASE PumpGif
    BY <1>0, <1>3, StartKeeps DEF PumpGif, SourceChannel
  <1>4. CASE PumpSprTo
    BY <1>0, <1>4, StartKeeps DEF PumpSprTo, SourceChannel
  <1>5. CASE PumpSprFrom
    BY <1>5, PumpSprFromKeeps
  <1>6. CASE Prepare
    <2>1. transfer'.channel = "none" /\ dma' = dma /\ program' = program /\ tie' \in BOOLEAN /\ tte' \in BOOLEAN
      BY <1>6 DEF Prepare, None
    <2>2. ChainsExact'
      BY <2>1 DEF ChainsExact, ChainRunsProgram, RunsLand, SourceChannel
    <2> QED
      BY <2>1, <2>2 DEF ChainHolds
  <1>7. CASE UNCHANGED chain
    <2>1. dma' = dma /\ program' = program /\ tie' = tie /\ tte' = tte /\ transfer' = transfer
      BY <1>7 DEF chain
    <2>2. ChainRunsProgram' /\ RunsLand'
      <3>1. ChainRunsProgram /\ RunsLand
        BY DEF ChainHolds, ChainsExact
      <3>2. ChainRunsProgram'
        BY <2>1, <3>1 DEF ChainRunsProgram
      <3>3. RunsLand'
        BY <2>1, <3>1 DEF RunsLand
      <3> QED
        BY <3>2, <3>3
    <2> QED
      BY <2>1, <2>2 DEF ChainHolds, ChainsExact
  <1> QED
    BY <1>1, <1>2, <1>3, <1>4, <1>5, <1>6, <1>7 DEF ChainNext

\* For any programs, runs and memory layout: a source channel moves what its program
\* means, in that order, and a destination chain puts every run where its tag says.
THEOREM ChainsKept == ChainSpec => []ChainsExact
  <1>1. ChainHolds => ChainsExact
    BY DEF ChainHolds
  <1> QED
    BY <1>1, ChainBegins, ChainSteps, PTL DEF ChainSpec
=============================================================================
