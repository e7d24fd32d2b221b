------------------------------ MODULE GsLayout ------------------------------
(***************************************************************************)
(* Addresses in local memory: 8 KiB pages of 32 blocks of 256 bytes, a     *)
(* block order per pixel format, a column order within a block.  Each      *)
(* format has a direct address function and a row form (a base per         *)
(* scanline, a table over x) that the transfers and the rasterizer use.    *)
(* A format is its bits per pixel, the S block order and the Z one.        *)
(* Addresses count pixels of the format, so a page has 65536 \div bits.    *)
(* On top of that, where the levels of a texture lie and which blocks a    *)
(* draw says it reads.                                                     *)
(***************************************************************************)
EXTENDS GsTexel, Bitwise

BLOCK32 == << <<0, 1, 4, 5, 16, 17, 20, 21>>, <<2, 3, 6, 7, 18, 19, 22, 23>>,
              <<8, 9, 12, 13, 24, 25, 28, 29>>, <<10, 11, 14, 15, 26, 27, 30, 31>> >>
BLOCK16 == << <<0, 2, 8, 10>>, <<1, 3, 9, 11>>, <<4, 6, 12, 14>>, <<5, 7, 13, 15>>,
              <<16, 18, 24, 26>>, <<17, 19, 25, 27>>, <<20, 22, 28, 30>>, <<21, 23, 29, 31>> >>
BLOCK16S == << <<0, 2, 16, 18>>, <<1, 3, 17, 19>>, <<8, 10, 24, 26>>, <<9, 11, 25, 27>>,
               <<4, 6, 20, 22>>, <<5, 7, 21, 23>>, <<12, 14, 28, 30>>, <<13, 15, 29, 31>> >>
Z_FLIP == 24

Format == { [bits |-> b, s |-> s, z |-> z] : b \in {32, 16}, s \in BOOLEAN, z \in BOOLEAN }
          \cup { [bits |-> b, s |-> FALSE, z |-> FALSE] : b \in {8, 4} }
PageW(f) == IF f.bits >= 16 THEN 64 ELSE 128
PageH(f) == CASE f.bits = 32 -> 32 [] f.bits = 4 -> 128 [] OTHER -> 64
BlockPx(f) == 2048 \div f.bits
AtLeast1(n) == IF n = 0 THEN 1 ELSE n
\* Pages in a row of pages: the narrow formats use half the declared width.
PagesWide(f, bw) == IF f.bits >= 16 THEN AtLeast1(bw) ELSE AtLeast1(bw) \div 2
\* The block of a page a pixel is in, by the format's table.
Tabled(f, row, colm) ==
    LET t == CASE f.bits \in {32, 8} -> BLOCK32 [] f.bits = 16 /\ f.s -> BLOCK16S [] OTHER -> BLOCK16
        n == t[row + 1][colm + 1]
    IN  IF f.z THEN n ^^ Z_FLIP ELSE n
BlockOf(f, x, y) ==
    CASE f.bits = 32 -> Tabled(f, (y \div 8) % 4, (x \div 8) % 8)
      [] f.bits = 16 -> Tabled(f, (y \div 8) % 8, (x \div 16) % 4)
      [] f.bits = 8 -> Tabled(f, (y \div 16) % 4, (x \div 16) % 8)
      [] f.bits = 4 -> Tabled(f, (y \div 16) % 8, (x \div 32) % 4)

\* Odd pairs of rows swap the halves of a column in the narrow formats.
Swap(y) == ((((y % 4) \div 2) + ((y % 16) \div 4)) % 2)
Xs(f, x, y) == IF f.bits = 8 THEN (x % 16) ^^ (4 * Swap(y)) ELSE (x % 32) ^^ (4 * Swap(y))
addr32(bp, bw, x, y, f) ==
    (bp + ((y \div 32) * AtLeast1(bw) + x \div 64) * 32 + BlockOf(f, x, y)) * 64
    + ((y % 8) \div 2) * 16 + ((x % 8) \div 2) * 4 + (y % 2) * 2 + (x % 2)
addr16(bp, bw, x, y, f) ==
    (bp + ((y \div 64) * AtLeast1(bw) + x \div 64) * 32 + BlockOf(f, x, y)) * 128
    + ((y % 8) \div 2) * 32 + (y % 2) * 4 + ((x % 8) \div 2) * 8 + (x % 2) * 2 + (x % 16) \div 8
addr8(bp, bw, x, y, f) ==
    LET xs == Xs(f, x, y)
    IN  (bp + ((y \div 64) * (AtLeast1(bw) \div 2) + x \div 128) * 32 + BlockOf(f, x, y)) * 256
        + ((y % 16) \div 4) * 64 + (y % 2) * 8 + (y % 4) \div 2 + ((xs \div 2) % 4) * 16 + (xs % 2) * 4 + (xs \div 8) * 2
addr4(bp, bw, x, y, f) ==
    LET xs == Xs(f, x, y)
    IN  (bp + ((y \div 128) * (AtLeast1(bw) \div 2) + x \div 128) * 32 + BlockOf(f, x, y)) * 512
        + ((y % 16) \div 4) * 128 + (y % 2) * 16 + (y % 4) \div 2 + ((xs \div 2) % 4) * 32 + (xs % 2) * 8 + ((xs \div 8) % 4) * 2
Address(bp, bw, x, y, f) ==
    CASE f.bits = 32 -> addr32(bp, bw, x, y, f) [] f.bits = 16 -> addr16(bp, bw, x, y, f)
      [] f.bits = 8 -> addr8(bp, bw, x, y, f) [] f.bits = 4 -> addr4(bp, bw, x, y, f)

(***************************************************************************)
(* The row forms.                                                          *)
(***************************************************************************)
row_base32(bp, bw, y) == (bp + (y \div 32) * AtLeast1(bw) * 32) * 64 + ((y % 8) \div 2) * 16 + (y % 2) * 2
row_base16(bp, bw, y) == (bp + (y \div 64) * AtLeast1(bw) * 32) * 128 + ((y % 8) \div 2) * 32 + (y % 2) * 4
row_base8(bp, bw, y) == (bp + (y \div 64) * (AtLeast1(bw) \div 2) * 32) * 256 + ((y % 16) \div 4) * 64 + (y % 2) * 8 + (y % 4) \div 2
row_base4(bp, bw, y) == (bp + (y \div 128) * (AtLeast1(bw) \div 2) * 32) * 512 + ((y % 16) \div 4) * 128 + (y % 2) * 16 + (y % 4) \div 2
RowBase(bp, bw, y, f) ==
    CASE f.bits = 32 -> row_base32(bp, bw, y) [] f.bits = 16 -> row_base16(bp, bw, y)
      [] f.bits = 8 -> row_base8(bp, bw, y) [] f.bits = 4 -> row_base4(bp, bw, y)
\* The table entries, and the horizontal page step.
col_off32(y, x, f) == Tabled(f, (y \div 8) % 4, (x % 64) \div 8) * 64 + ((x % 8) \div 2) * 4 + (x % 2)
col_off16(y, x, f) == Tabled(f, (y \div 8) % 8, (x % 64) \div 16) * 128 + ((x % 8) \div 2) * 8 + (x % 2) * 2 + (x % 16) \div 8
col_off8(y, x, f) ==
    LET xs == Xs(f, x, y % 64) IN Tabled(f, (y % 64) \div 16, (x % 128) \div 16) * 256 + ((xs \div 2) % 4) * 16 + (xs % 2) * 4 + (xs \div 8) * 2
\* PSMT4's table has a row per block row and half-swap, picked by col_row4.
COL_OFF4(k, x, f) ==
    LET xs == (x % 32) ^^ (4 * (k % 2))
    IN  Tabled(f, k \div 2, x \div 32) * 512 + ((xs \div 2) % 4) * 32 + (xs % 2) * 8 + ((xs \div 8) % 4) * 2
col_row4(y, x, f) == COL_OFF4(2 * ((y \div 16) % 8) + (((y \div 2) + (y \div 4)) % 2), x % 128, f)
RowAddress(bp, bw, x, y, f) ==
    RowBase(bp, bw, y, f) + (x \div PageW(f)) * 32 * BlockPx(f)
    + CASE f.bits = 32 -> col_off32(y, x, f) [] f.bits = 16 -> col_off16(y, x, f)
        [] f.bits = 8 -> col_off8(y, x, f) [] f.bits = 4 -> col_row4(y, x, f)

(***************************************************************************)
(* Properties of a format, of a page and of a scanline.                    *)
(***************************************************************************)
\* A page of a format is exactly its 8 KiB: every pixel has a place of its own.
PageIsFilled(f) ==
    { Address(0, 2, x, y, f) : x \in 0 .. PageW(f) - 1, y \in 0 .. PageH(f) - 1 } = 0 .. (32 * BlockPx(f) - 1)
\* The row form and the direct form name the same pixel on every scanline, into
\* the next page across and down.
RowIsDirect(f, y) ==
    \A bw \in {0, 2}, x \in 0 .. PageW(f) + 8 : RowAddress(3, bw, x, y, f) = Address(3, bw, x, y, f)

(***************************************************************************)
(* The texture of a level: the levels lie end to end after level 0.        *)
(***************************************************************************)
mip_blocks(f, w, h) == AtLeast1((w * h * f.bits) \div 2048)
TexInfo(f, t, level) ==
    LET w(l) == Max({t.tw \div 2^l, 1})
        h(l) == Max({t.th \div 2^l, 1})
        at[l \in 0 .. level] == IF l = 0 THEN t.tbp ELSE at[l - 1] + mip_blocks(f, w(l - 1), h(l - 1))
    IN  [tbp |-> at[level], tbw |-> IF level = 0 THEN t.tbw ELSE AtLeast1(t.tbw \div 2^level), tw |-> w(level), th |-> h(level)]
Blocks(f, t) == { Address(t.tbp, t.tbw, x, y, f) \div BlockPx(f) : x \in 0 .. t.tw - 1, y \in 0 .. t.th - 1 }
\* The levels of a square texture do not overlap (each stays where the next
\* begins), so no level of a chain reads texels of another.
LevelsApart(f, t) ==
    \A l \in 0 .. 3 : \A b \in Blocks(f, TexInfo(f, t, l)) : b >= TexInfo(f, t, l).tbp /\ b < TexInfo(f, t, l + 1).tbp

(***************************************************************************)
(* tex_blocks: the blocks a draw is taken to read.  ti is the texture with *)
(* tbp and tbw, lo and hi the rows it samples in 1/WEIGHTS texel.          *)
(***************************************************************************)
tex_page_geom(f, bw) == [rows |-> PageH(f), stride |-> PagesWide(f, bw) * 32]
tex_blocks(f, ti, lo, hi) ==
    LET v == CASE ti.wm \in {0, 1} -> IF lo >= 0 /\ hi + WEIGHTS < ti.th * WEIGHTS
                                      THEN <<lo \div WEIGHTS, hi \div WEIGHTS + 1>> ELSE <<0, ti.th>>
               [] ti.wm = 2 -> <<0, Max({ti.th, Max({ti.max, ti.min}) + 1})>>
               [] ti.wm = 3 -> <<0, Max({ti.th, OrBits(ti.min, ti.max) + 1})>>
        g == tex_page_geom(f, ti.tbw)
    IN  ti.tbp + (v[1] \div g.rows) * g.stride .. ti.tbp + (v[2] \div g.rows) * g.stride + Max({g.stride, 32}) - 1
\* "Conservative": every block a sample of the rows lo to hi reads is among
\* them, for a texture no wider than its buffer.
ReadsDeclared(f, ti, bilinear, lo, hi) ==
    \A v \in {lo, (lo + hi) \div 2, hi} :
        \A y \in IF bilinear THEN {Tap(v), Tap(v) + (IF Weight(v) = 0 THEN 0 ELSE 1)} ELSE {v \div WEIGHTS} :
        \A x \in {0, ti.tw \div 2, ti.tw - 1} :
            Address(ti.tbp, ti.tbw, x, wrap(y, ti, ti.th), f) \div BlockPx(f) \in tex_blocks(f, ti, lo, hi)
=============================================================================
