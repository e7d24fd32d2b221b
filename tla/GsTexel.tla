------------------------------ MODULE GsTexel ------------------------------
(***************************************************************************)
(* Texture sampling: the mipmap level of a primitive, wrapping, the row    *)
(* cache of a painter, and the filters.                                    *)
(* A texel is the place it is read from, <<column, row>> after wrapping;   *)
(* a coordinate is in 1/WEIGHTS of a texel.                                *)
(***************************************************************************)
EXTENDS Integers, Sequences, FiniteSetsExt

CONSTANTS WEIGHTS,                  \* steps of a coordinate in a texel
          CHUNK_BACK, CHUNK_AHEAD,  \* texels decoded around a miss
          GtTextures,               \* textures [tw, th, wm, min, max]
          GtColumns, GtRows         \* coordinates sampled
ASSUME TexelAssumption ==
    /\ WEIGHTS \in Nat \ {0} /\ CHUNK_BACK \in Nat /\ CHUNK_AHEAD \in Nat
    /\ GtTextures \subseteq [tw : Nat \ {0}, th : Nat \ {0}, wm : 0 .. 3, min : Int, max : Int]
    /\ GtColumns \subseteq Int /\ GtRows \subseteq Int

VARIABLES gt_tex, gt_rows,
          gt_same                   \* the samples just taken are the direct ones
gt_vars == <<gt_tex, gt_rows, gt_same>>

Limit(n, lo, hi) == IF n < lo THEN lo ELSE IF n > hi THEN hi ELSE n

(***************************************************************************)
(* Wrapping.  The sizes are powers of two; REGION_REPEAT is a mask and an  *)
(* or.  A bit of a number is that of its two's complement.                 *)
(***************************************************************************)
Bits(n) == { i \in 0 .. 15 : (n \div 2^i) % 2 = 1 }
OfBits(bs) == MapThenSumSet(LAMBDA i : 2^i, bs)
AndBits(m, n) == OfBits(Bits(m) \cap Bits(n))
OrBits(m, n) == OfBits(Bits(m) \cup Bits(n))
wrap(n, ti, size) ==
    CASE ti.wm = 0 -> n % size
      [] ti.wm = 1 -> Limit(n, 0, size - 1)
      [] ti.wm = 2 -> Limit(n, ti.min, Max({ti.max, ti.min}))
      [] ti.wm = 3 -> OrBits(AndBits(n, ti.min), ti.max)
wrap_identity(lo, hi, ti) ==
    CASE ti.wm \in {0, 1} -> lo >= 0 /\ hi < ti.tw
      [] ti.wm = 2 -> ti.min <= ti.max /\ lo >= ti.min /\ hi <= ti.max
      [] OTHER -> FALSE
texel(ti, u, v) == <<wrap(u, ti, ti.tw), wrap(v, ti, ti.th)>>

(***************************************************************************)
(* Filters.  A sample is the taps and their weights; a tap of weight 0 is  *)
(* not told apart from no tap.                                             *)
(***************************************************************************)
Tap(n) == (n - WEIGHTS \div 2) \div WEIGHTS
Weight(n) == (n - WEIGHTS \div 2) % WEIGHTS
Blended(t00, t10, t01, t11, wx, wy) ==
    [t \in {t00, t10, t01, t11} |->
        (IF t = t00 THEN (WEIGHTS - wx) * (WEIGHTS - wy) ELSE 0) + (IF t = t10 THEN wx * (WEIGHTS - wy) ELSE 0)
        + (IF t = t01 THEN (WEIGHTS - wx) * wy ELSE 0) + (IF t = t11 THEN wx * wy ELSE 0)]
Single(t) == Blended(t, t, t, t, 0, 0)
sample_bilinear_direct(ti, u, v) ==
    LET x == Tap(u)
        y == Tap(v)
    IN  IF Weight(u) = 0 /\ Weight(v) = 0 THEN Single(texel(ti, x, y))
        ELSE Blended(texel(ti, x, y), texel(ti, x + 1, y), texel(ti, x, y + 1), texel(ti, x + 1, y + 1), Weight(u), Weight(v))
sample(ti, bilinear, u, v) ==
    IF bilinear THEN sample_bilinear_direct(ti, u, v) ELSE Single(texel(ti, u \div WEIGHTS, v \div WEIGHTS))

(***************************************************************************)
(* The row cache: two decoded rows [known, y, lo, data]; a row that is not *)
(* known to be of the primitive's texture matches nothing.                 *)
(***************************************************************************)
NoRow == [known |-> FALSE, y |-> 0, lo |-> 0, data |-> <<>>]
Holds(row, y, u) == row.known /\ row.y = y /\ u >= row.lo /\ u < row.lo + Len(row.data)
At(row, u) == row.data[u - row.lo + 1]
\* Mutant: a row that was decoded from elsewhere on matches.
BadCovers(row, y, lo, hi) == row.known /\ row.y = y /\ row.lo + Len(row.data) > hi
Covers(row, y, lo, hi) == row.known /\ row.y = y /\ row.lo = lo /\ row.lo + Len(row.data) > hi
fill_tex_row(ti, rows, slot, y, lo, hi) ==
    IF Covers(rows[slot], y, lo, hi) THEN rows
    ELSE IF Covers(rows[3 - slot], y, lo, hi) THEN <<rows[2], rows[1]>>
    ELSE [rows EXCEPT ![slot] =
             [known |-> TRUE, y |-> y, lo |-> lo,
              data |-> [k \in 1 .. hi - lo + 1 |->
                           <<IF wrap_identity(lo, hi, ti) THEN lo + k - 1 ELSE wrap(lo + k - 1, ti, ti.tw), wrap(y, ti, ti.th)>>]]]
cached_texel(ti, rows, slot, u, y) ==
    IF Holds(rows[slot], y, u) THEN [rows |-> rows, t |-> At(rows[slot], u)]
    ELSE LET r == fill_tex_row(ti, rows, slot, y, u - CHUNK_BACK, u + CHUNK_AHEAD)
         IN  [rows |-> r, t |-> r[slot].data[CHUNK_BACK + 1]]
sample_bilinear_cached(ti, rows, u, v) ==
    LET x == Tap(u)
        y == Tap(v)
        both == \A s \in 1 .. 2 : Holds(rows[s], y + s - 1, x) /\ Holds(rows[s], y + s - 1, x + 1)
        a == cached_texel(ti, rows, 1, x, y)
        b == cached_texel(ti, a.rows, 1, x + 1, y)
        c == cached_texel(ti, b.rows, 2, x, y + 1)
        d == cached_texel(ti, c.rows, 2, x + 1, y + 1)
    IN  IF Weight(u) = 0 /\ Weight(v) = 0 THEN [rows |-> a.rows, s |-> Single(a.t)]
        ELSE IF both
        THEN [rows |-> rows, s |-> Blended(At(rows[1], x), At(rows[1], x + 1), At(rows[2], x), At(rows[2], x + 1), Weight(u), Weight(v))]
        ELSE [rows |-> d.rows, s |-> Blended(a.t, b.t, c.t, d.t, Weight(u), Weight(v))]
sample_cached(ti, rows, bilinear, u, v) ==
    IF bilinear THEN sample_bilinear_cached(ti, rows, u, v)
    ELSE LET a == cached_texel(ti, rows, 1, u \div WEIGHTS, v \div WEIGHTS) IN [rows |-> a.rows, s |-> Single(a.t)]

\* The sprite and sprite-like rows: one or two rows decoded over the whole run,
\* then read without a test.
RunRows(ti, rows, bilinear, ua, ub, v) ==
    IF bilinear
    THEN LET r == fill_tex_row(ti, rows, 1, Tap(v), Tap(ua), Tap(ub) + 1)
         IN  fill_tex_row(ti, r, 2, Tap(v) + 1, Tap(ua), Tap(ub) + 1)
    ELSE fill_tex_row(ti, rows, 1, v \div WEIGHTS, ua \div WEIGHTS, ub \div WEIGHTS)
RunSample(rows, bilinear, ua, u, v) ==
    IF ~bilinear THEN Single(rows[1].data[(u \div WEIGHTS) - (ua \div WEIGHTS) + 1])
    ELSE LET i == Tap(u) - Tap(ua) + 1
         IN  IF Weight(u) = 0 /\ Weight(v) = 0 THEN Single(rows[1].data[i])
             ELSE Blended(rows[1].data[i], rows[1].data[i + 1], rows[2].data[i], rows[2].data[i + 1], Weight(u), Weight(v))

(***************************************************************************)
(* Actions: a primitive forgets the rows (its texture may have been drawn  *)
(* over, and the keys do not hold CLAMP); triangles sample as they go, a   *)
(* sprite a run at a time.                                                 *)
(***************************************************************************)
Primitive ==
    \E ti \in GtTextures :
        /\ gt_tex' = ti
        /\ gt_rows' = [s \in 1 .. 2 |-> [gt_rows[s] EXCEPT !.known = FALSE]]
        /\ gt_same' = TRUE
SamplePixel ==
    \E bilinear \in BOOLEAN, u \in GtColumns, v \in GtRows :
        LET r == sample_cached(gt_tex, gt_rows, bilinear, u, v)
        IN  /\ gt_rows' = r.rows
            /\ gt_same' = (r.s = sample(gt_tex, bilinear, u, v))
            /\ UNCHANGED gt_tex
SampleRun ==
    \E bilinear \in BOOLEAN, ua \in GtColumns, v \in GtRows :
        LET us == [k \in 1 .. 3 |-> ua + (k - 1) * (WEIGHTS - 1)]
            r == RunRows(gt_tex, gt_rows, bilinear, us[1], us[3], v)
        IN  /\ gt_rows' = r
            /\ gt_same' = (\A k \in 1 .. 3 : RunSample(r, bilinear, us[1], us[k], v) = sample(gt_tex, bilinear, us[k], v))
            /\ UNCHANGED gt_tex
GsTexelInit == gt_tex \in GtTextures /\ gt_rows = <<NoRow, NoRow>> /\ gt_same = TRUE
GsTexelNext == Primitive \/ SamplePixel \/ SampleRun
GsTexelSpec == GsTexelInit /\ [][GsTexelNext]_gt_vars

\* "Same texels and weights as the direct path": whatever was sampled before
\* and however the rows were filled, every sample is the direct one.
CacheIsDirect == gt_same

(***************************************************************************)
(* prefilter_const: a bilinear run whose step is a whole number of texels, *)
(* filtered once; the middle of a step-one run is not clamped.  a is the   *)
(* run: last (the last first-tap index), i0, step, n pixels.               *)
(***************************************************************************)
PixelIndex(a, k) == Limit(a.i0 + a.step * k, 0, a.last)
prefilter_const(a) ==
    LET lo == Limit(-a.i0, 0, a.n)
        hi == Limit(a.last - a.i0 + 1, lo, a.n)
    IN  [k \in 0 .. a.n - 1 |-> IF a.step = 1 /\ k >= lo /\ k < hi THEN a.i0 + k ELSE PixelIndex(a, k)]
\* The vectors' loads stay in the row, and each pixel has the taps the
\* per-pixel loop gives it.
PrefilterIsPerPixel(a) == \A k \in 0 .. a.n - 1 : prefilter_const(a)[k] = PixelIndex(a, k)

(***************************************************************************)
(* Eight-bit arithmetic in 16-bit lanes, and 16-bit texels under TEXA.     *)
(***************************************************************************)
Lane16(l, r, w) == ((((l * (256 - w)) % 65536) + ((r * w) % 65536)) % 65536) \div 256
bilerp(t, wx, wy) == Lane16(Lane16(t[1], t[2], wx), Lane16(t[3], t[4], wx), wy)
expand16(px, texa) ==
    [c |-> (px % 32) * 8,
     a |-> IF px \div 32768 = 1 THEN texa.ta1 ELSE IF texa.aem /\ px % 32768 = 0 THEN 0 ELSE texa.ta0]
bilerp16(p, texa, wx, wy) ==
    LET msb(i) == IF p[i] >= 32768 THEN 65535 ELSE 0
        a(i) == IF texa.aem /\ p[i] = 0 THEN 0 ELSE OrBits(AndBits(msb(i), texa.ta1), AndBits(65535 - msb(i), texa.ta0))
    IN  [c |-> bilerp([i \in 1 .. 4 |-> AndBits(p[i], 31) * 8], wx, wy), a |-> bilerp([i \in 1 .. 4 |-> a(i)], wx, wy)]
\* The lanes never carry: a blend lies between its taps, and "same output as
\* expand16 + bilerp" for 16-bit texels.
FilterExact(p, texa, wx, wy) ==
    LET e == [i \in 1 .. 4 |-> expand16(p[i], texa)]
        cs == [i \in 1 .. 4 |-> e[i].c]
    IN  /\ bilerp16(p, texa, wx, wy) = [c |-> bilerp(cs, wx, wy), a |-> bilerp([i \in 1 .. 4 |-> e[i].a], wx, wy)]
        /\ bilerp(cs, wx, wy) <= Max({ cs[i] : i \in 1 .. 4 })
        /\ (\A i \in 1 .. 4 : cs[i] = cs[1]) => bilerp(cs, wx, wy) = cs[1]

(***************************************************************************)
(* The mipmap level.  m is TEX1: [mxl, lcm, mtba, mmag, mmin, k].          *)
(***************************************************************************)
mip_select(m) ==
    IF m.mxl = 0 \/ m.mmin < 2 \/ ~m.lcm \/ ~m.mtba THEN [level |-> 0, bilinear |-> m.mmag]
    ELSE LET level == Limit(IF m.mmin \in {2, 4} THEN (m.k + 8) \div 16 ELSE m.k \div 16, 0, m.mxl)
         IN  [level |-> level, bilinear |-> IF level = 0 THEN m.mmag ELSE m.mmin \in {1, 4, 5}]
\* A fixed LOD picks a level of the chain, and one further away never a finer.
LevelOfLod(m) ==
    /\ mip_select(m).level \in 0 .. m.mxl
    /\ mip_select(m).level <= mip_select([m EXCEPT !.k = @ + 1]).level

=============================================================================
