----------------------------- MODULE GsTransfer -----------------------------
(***************************************************************************)
(* HOST -> LOCAL transfers.  TRXDIR starts one; the words of the stream    *)
(* arrive one by one through HWREG or as runs through image, which walks   *)
(* the rectangle a row at a time; three-byte pixels straddle words and are *)
(* carried from one to the next.  A word is PPW pixels, or eight bytes of  *)
(* the packed format.  Pixel values are their places in the stream.  The   *)
(* state of a loop after k turns is its function's value at k.  The stream *)
(* also carries the register writes, GsVertex.                             *)
(***************************************************************************)
EXTENDS Integers, Sequences, FiniteSetsExt, GsVertex

CONSTANTS TrxWidths, TrxHeights,   \* rectangles
          TrxPpw,                  \* pixels per word of the plain formats
          TrxRun                   \* words of the longest run
ASSUME TrxAssumption ==
    TrxWidths \subseteq Nat /\ TrxHeights \subseteq Nat /\ TrxPpw \subseteq Nat \ {0} /\ TrxRun \in Nat

VARIABLES trx_fmt,      \* [ppw, packed]
          trx_dir, trx_rect, trx_cur, trx_carry, trx_mem, trx_sent
trx_vars == <<trx_fmt, trx_dir, trx_rect, trx_cur, trx_carry, trx_mem, trx_sent>>

rrw == trx_rect[1]
rrh == trx_rect[2]
Advance(c) == IF c.x + 1 >= rrw THEN [x |-> 0, y |-> c.y + 1] ELSE [x |-> c.x + 1, y |-> c.y]
Over(f, m) == [p \in DOMAIN f \cup DOMAIN m |-> IF p \in DOMAIN f THEN f[p] ELSE m[p]]
PutPx(s, px) == [s EXCEPT !.mem = Over([p \in {<<s.cur.x, s.cur.y>>} |-> px], @), !.cur = Advance(@)]
\* Pixels past the rectangle go nowhere.
PutInside(s, px) == IF s.cur.y >= rrh THEN s ELSE PutPx(s, px)
\* The pixels of word w, the stream numbered from 0.
Px(w, k) == w * trx_fmt.ppw + k

(***************************************************************************)
(* hwreg: push, or the packed format's carry.                              *)
(***************************************************************************)
push(s, w) ==
    LET p[k \in 0 .. trx_fmt.ppw] ==
            IF k = 0 THEN s ELSE PutInside(p[k - 1], Px(w, k - 1))
    IN  p[trx_fmt.ppw]
PushByte(s, b) ==
    IF Len(s.carry) < 2 THEN [s EXCEPT !.carry = Append(@, b)]
    ELSE LET px == Append(s.carry, b)
         IN  PutInside([s EXCEPT !.carry = <<>>], px)
push24(s, w) ==
    LET p[k \in 0 .. 8] == IF k = 0 THEN s ELSE PushByte(p[k - 1], 8 * w + k - 1)
    IN  p[8]
Hwreg(s, w) == IF rrw = 0 THEN s ELSE IF trx_fmt.packed THEN push24(s, w) ELSE push(s, w)

(***************************************************************************)
(* image: image_rows over the run, a piece of a destination row at a time. *)
(* s carries the word within the run and the pixel within the word.        *)
(***************************************************************************)
\* What is left of the word and of the row, whichever is less.
Piece(s) == Min({trx_fmt.ppw - s.sub, rrw - s.cur.x})
RowRun(s) ==
    LET count == Piece(s)
        row == { <<s.cur.x + k, s.cur.y>> : k \in 0 .. count - 1 }
        put == Over([p \in row |-> Px(s.first + s.wi, s.sub + p[1] - s.cur.x)], s.mem)
        full == s.sub + count = trx_fmt.ppw
    IN  [s EXCEPT !.mem = put,
                  !.cur = IF @.x + count >= rrw THEN [x |-> 0, y |-> @.y + 1] ELSE [x |-> @.x + count, y |-> @.y],
                  !.sub = IF full THEN 0 ELSE @ + count, !.wi = IF full THEN @ + 1 ELSE @]
NextRun(s, n) == IF s.cur.y >= rrh \/ s.wi >= n THEN s ELSE RowRun(s)
\* A piece is a pixel at least, so the run is through after as many.
image_rows(s, n) ==
    LET p[k \in 0 .. n * trx_fmt.ppw] ==
            IF k = 0 THEN s ELSE NextRun(p[k - 1], n)
    IN  p[n * trx_fmt.ppw]
Words(s, first, n) ==
    LET p[k \in 0 .. n] == IF k = 0 THEN s ELSE Hwreg(p[k - 1], first + k - 1)
    IN  p[n]
Image(s, first, n) ==
    IF trx_fmt.packed THEN Words(s, first, n)
    ELSE IF rrw = 0 THEN s
    ELSE image_rows([mem |-> s.mem, cur |-> s.cur, carry |-> s.carry, first |-> first, wi |-> 0, sub |-> 0], n)

(***************************************************************************)
(* Actions.                                                                *)
(***************************************************************************)
TrxState == [mem |-> trx_mem, cur |-> trx_cur, carry |-> trx_carry]
Land(s, n) ==
    /\ trx_mem' = s.mem /\ trx_cur' = s.cur /\ trx_carry' = s.carry
    /\ trx_sent' = trx_sent + n
    /\ UNCHANGED <<trx_fmt, trx_dir, trx_rect>>
\* TRXDIR rewinds the cursor and drops a partial pixel; the words of the old
\* transfer are history.
WriteTrxdir ==
    \E d \in {"in", "off"}, w \in TrxWidths, h \in TrxHeights, f \in { [ppw |-> n, packed |-> FALSE] : n \in TrxPpw } \cup { [ppw |-> 1, packed |-> TRUE] } :
        /\ trx_dir' = d /\ trx_rect' = <<w, h>> /\ trx_fmt' = f
        /\ trx_cur' = [x |-> 0, y |-> 0] /\ trx_carry' = <<>>
        /\ trx_mem' = <<>> /\ trx_sent' = 0
HwregWord ==
    /\ trx_sent < TrxRun
    /\ Land(IF trx_dir = "in" THEN Hwreg(TrxState, trx_sent) ELSE TrxState, 1)
ImageRun ==
    \E n \in 1 .. TrxRun :
        /\ trx_sent + n <= TrxRun
        /\ Land(IF trx_dir = "in" THEN Image(TrxState, trx_sent, n) ELSE TrxState, n)
GsTransferInit ==
    /\ trx_dir = "off" /\ trx_rect = <<0, 0>> /\ trx_fmt = [ppw |-> 1, packed |-> TRUE]
    /\ trx_cur = [x |-> 0, y |-> 0] /\ trx_carry = <<>> /\ trx_mem = <<>> /\ trx_sent = 0
GsTransferNext == WriteTrxdir \/ HwregWord \/ ImageRun
GsTransferSpec == GsTransferInit /\ [][GsTransferNext]_trx_vars

(***************************************************************************)
(* Properties.                                                             *)
(***************************************************************************)
\* However the stream is cut into words and runs, its pixels land in raster
\* order from the rectangle's corner, one each, and what is past the rectangle
\* lands nowhere.
StreamPx == IF trx_fmt.packed THEN (8 * trx_sent) \div 3 ELSE trx_sent * trx_fmt.ppw
PixelsInRasterOrder ==
    LET n == IF trx_dir = "off" THEN 0 ELSE Min({StreamPx, rrw * rrh})
        value(i) == IF trx_fmt.packed THEN <<3 * i, 3 * i + 1, 3 * i + 2>> ELSE i
    IN  /\ DOMAIN trx_mem = { <<i % rrw, i \div rrw>> : i \in 0 .. n - 1 }
        /\ \A i \in 0 .. n - 1 : trx_mem[<<i % rrw, i \div rrw>>] = value(i)
\* Register and transfer streams: kicks make the primitives PRIM names, pixels
\* of a transfer land in raster order, whatever the cut of the stream.
StreamsInPlace == PrimitiveOfKicks /\ PixelsInRasterOrder
=============================================================================
