------------------------------ MODULE GsRaster ------------------------------
(***************************************************************************)
(* The rasterizer's arithmetic: which pixels a primitive covers, what its  *)
(* attributes are there, and what the end of the pixel pipeline makes of   *)
(* a fragment.                                                             *)
(*                                                                         *)
(* Coordinates are 12.4: sixteen to a pixel.  A scissor is [x0, x1, y0,    *)
(* y1], inclusive.  A point is <<x, y>>.                                   *)
(***************************************************************************)
EXTENDS Integers, FiniteSetsExt

CONSTANT FRAC            \* fraction bits of a plane

Lim(n, lo, hi) == IF n < lo THEN lo ELSE IF n > hi THEN hi ELSE n
PxDown(n) == n \div 16
PxUp(n) == (n + 15) \div 16
Edge(p, q, x, y) == (q[1] - p[1]) * (y - p[2]) - (q[2] - p[2]) * (x - p[1])
Abs(n) == IF n < 0 THEN -n ELSE n

(***************************************************************************)
(* Triangles: tri_prim winds positive, clips the bounding box and takes    *)
(* the edge functions at its corner sample; tri_rows steps them and solves *)
(* each for the span of the row.                                           *)
(***************************************************************************)
Wound(t) == IF Edge(t[1], t[2], t[3][1], t[3][2]) < 0 THEN <<t[1], t[3], t[2]>> ELSE t
Box(t, sc) ==
    LET xs == { t[i][1] : i \in 1 .. 3 }
        ys == { t[i][2] : i \in 1 .. 3 }
    IN  [x0 |-> Max({PxDown(Min(xs)), 0, sc.x0}), x1 |-> Min({PxUp(Max(xs)), 4095, sc.x1}),
         y0 |-> Max({PxDown(Min(ys)), 0, sc.y0}), y1 |-> Min({PxUp(Max(ys)), 4095, sc.y1})]
Corner(t, b) == <<Edge(t[2], t[3], 16 * b.x0 + 8, 16 * b.y0 + 8), Edge(t[3], t[1], 16 * b.x0 + 8, 16 * b.y0 + 8),
                  Edge(t[1], t[2], 16 * b.x0 + 8, 16 * b.y0 + 8)>>
StepX(t) == <<-16 * (t[3][2] - t[2][2]), -16 * (t[1][2] - t[3][2]), -16 * (t[2][2] - t[1][2])>>
StepY(t) == <<16 * (t[3][1] - t[2][1]), 16 * (t[1][1] - t[3][1]), 16 * (t[2][1] - t[1][1])>>
Span(t, b, y) ==
    LET w(i) == Corner(t, b)[i] + StepY(t)[i] * (y - b.y0)
        wide == b.x1 - b.x0 + 1
        from(i) == IF StepX(t)[i] > 0 THEN b.x0 + Lim(-(w(i) \div StepX(t)[i]), 0, wide) ELSE b.x0
        to(i) == IF StepX(t)[i] > 0 THEN b.x1
                 ELSE IF w(i) < 0 THEN b.x0 - 1
                 ELSE IF StepX(t)[i] = 0 THEN b.x1
                 ELSE Min({b.x1, b.x0 + Min({w(i) \div (-StepX(t)[i]), wide})})
    IN  Max({ from(i) : i \in 1 .. 3 }) .. Min({ to(i) : i \in 1 .. 3 })
\* "The same set the per-pixel test would accept": a row's span is the pixels
\* whose centre no edge has on its far side.
SpanIsPixelTest(tri, sc) ==
    LET t == Wound(tri)
        b == Box(t, sc)
        inside(x, y) == /\ Edge(t[2], t[3], 16 * x + 8, 16 * y + 8) >= 0
                        /\ Edge(t[3], t[1], 16 * x + 8, 16 * y + 8) >= 0
                        /\ Edge(t[1], t[2], 16 * x + 8, 16 * y + 8) >= 0
    IN  Edge(t[1], t[2], t[3][1], t[3][2]) # 0 =>
        \A y \in b.y0 .. b.y1 : Span(t, b, y) = { x \in sc.x0 .. sc.x1 : inside(x, y) /\ x \in b.x0 .. b.x1 }
\* The clipped box loses no pixel of the scissor the test would accept.
BoxHoldsTriangle(tri, sc) ==
    LET t == Wound(tri)
        b == Box(t, sc)
    IN  Edge(t[1], t[2], t[3][1], t[3][2]) # 0 =>
        \A x \in sc.x0 .. sc.x1, y \in sc.y0 .. sc.y1 :
           (\A e \in {<<t[2], t[3]>>, <<t[3], t[1]>>, <<t[1], t[2]>>} : Edge(e[1], e[2], 16 * x + 8, 16 * y + 8) >= 0)
           => x \in b.x0 .. b.x1 /\ y \in b.y0 .. b.y1

(***************************************************************************)
(* Attribute planes in fixed point, every term rounded up.                 *)
(***************************************************************************)
CeilDiv(n, d) == -((-n) \div d)
fixed_div(n, d) == CeilDiv(n * 2^FRAC, d)
Dot(k, va) == k[1] * va[1] + k[2] * va[2] + k[3] * va[3]
PlaneAt(t, b, va, x, y) ==
    LET area == Edge(t[1], t[2], t[3][1], t[3][2])
    IN  fixed_div(Dot(Corner(t, b), va), area) + fixed_div(Dot(StepY(t), va), area) * (y - b.y0)
        + fixed_div(Dot(StepX(t), va), area) * (x - b.x0)
\* At a covered pixel a plane is at or above the exact value, by no more than a
\* unit for each rounded term: an attribute that is a whole number there comes
\* out as that number, a flat one stays flat.
PlanesTrackExact(tri, sc, v) ==
    LET t == Wound(tri)
        va == IF t = tri THEN v ELSE <<v[1], v[3], v[2]>>
        b == Box(t, sc)
        area == Edge(t[1], t[2], t[3][1], t[3][2])
    IN  area # 0 =>
        \A y \in b.y0 .. b.y1 : \A x \in Span(t, b, y) :
           LET w == <<Edge(t[2], t[3], 16 * x + 8, 16 * y + 8), Edge(t[3], t[1], 16 * x + 8, 16 * y + 8),
                      Edge(t[1], t[2], 16 * x + 8, 16 * y + 8)>>
               over == PlaneAt(t, b, va, x, y) - CeilDiv(Dot(w, va) * 2^FRAC, area)
           IN  /\ over >= 0 /\ over <= 1 + (x - b.x0) + (y - b.y0)
               /\ Dot(w, va) % area = 0 => PlaneAt(t, b, va, x, y) \div 2^FRAC = Dot(w, va) \div area

(***************************************************************************)
(* Sprites: [x0, x1) rounding up, the texture left to right and top to     *)
(* bottom whatever the order of the vertices.                              *)
(***************************************************************************)
SpriteSpan(a, b, lo, hi) == Max({PxUp(Min({a, b})), lo}) .. (Min({Lim(PxUp(Max({a, b})), 0, 4096), hi + 1}) - 1)
SpriteU(a, b, ua, ub, px) ==
    LET x0 == Min({a, b})
        wid == Max({Abs(b - a), 1})
        u0 == IF a <= b THEN ua ELSE ub
        u1 == IF a <= b THEN ub ELSE ua
    IN  fixed_div(16 * (u0 * wid - (u1 - u0) * x0), wid) + fixed_div(256 * (u1 - u0), wid) * px
\* Sprites that share an edge cover every pixel between their outer edges once,
\* whatever the edge's fraction; a sprite drawn from either corner reads the
\* same texels, and one texel per pixel comes out as exactly that texel.
SpritesTile(a, b, c, sc) ==
    a <= b /\ b <= c =>
        /\ SpriteSpan(a, b, sc.x0, sc.x1) \cup SpriteSpan(b, c, sc.x0, sc.x1) = SpriteSpan(a, c, sc.x0, sc.x1)
        /\ SpriteSpan(a, b, sc.x0, sc.x1) \cap SpriteSpan(b, c, sc.x0, sc.x1) = {}
SpriteTexels(a, b, sc) ==
    \A px \in SpriteSpan(a, b, sc.x0, sc.x1) :
       /\ SpriteU(a, b, 0, b - a, px) = SpriteU(b, a, b - a, 0, px)
       /\ a < b => SpriteU(a, b, 0, b - a, px) \div 2^FRAC = 16 * (16 * px - a)

(***************************************************************************)
(* Lines: a DDA over the major axis, the end point's pixel left out.       *)
(***************************************************************************)
RoundDiv(n, d) == IF n < 0 THEN -((-n + d \div 2) \div d) ELSE (n + d \div 2) \div d
LineSteps(a, b) == (Max({Abs(b[1] - a[1]), Abs(b[2] - a[2])}) + 8) \div 16
LinePixel(a, b, i) ==
    LET n == LineSteps(a, b)
        at(k) == RoundDiv(a[k] * n + (b[k] - a[k]) * i, 16 * n)
    IN  <<at(1), at(2)>>
LineRows(a, b, sc) == Max({PxDown(Min({a[2], b[2]})), sc.y0}) .. (Max({Min({PxUp(Max({a[2], b[2]})) + 1, sc.y1 + 1}), Max({PxDown(Min({a[2], b[2]})), sc.y0})}) - 1)
Line(a, b) == [i \in 0 .. LineSteps(a, b) - 1 |-> LinePixel(a, b, i)]
\* The joint of a strip between pixels lands exactly once, a line never plots a
\* pixel twice, and its rows (what the queue's dependences are taken from) hold
\* every pixel of it the scissor lets through.
JointOnce(a, b, c) ==
    LET joint == <<b[1] \div 16, b[2] \div 16>>
        l == Line(a, b)
        m == Line(b, c)
    IN  /\ \A i, j \in DOMAIN l : l[i] = l[j] => i = j
        /\ joint \notin { l[i] : i \in DOMAIN l }
        /\ b # c => joint = m[0]
RowsHoldLine(a, b, sc) ==
    \A i \in DOMAIN Line(a, b) : Line(a, b)[i][2] \in sc.y0 .. sc.y1 => Line(a, b)[i][2] \in LineRows(a, b, sc)

(***************************************************************************)
(* The end of the pixel pipeline: texture function, fog, alpha test, depth *)
(* test, blending, frame write.  shade_row_px does all of it; sprite rows, *)
(* triangle spans and flat fills have loops of their own that leave out    *)
(* what pixel_pipe has ruled out.  One colour channel stands for the three *)
(* (they never mix), with alpha beside it; Z is the bits the format keeps. *)
(*                                                                         *)
(* A pipe p, a fragment f [c, a, z, fog], a texel t [c, a] and the         *)
(* destination d [c, a, z] give the destination after the pixel.           *)
(***************************************************************************)
Low(n) == IF n < 0 THEN 0 ELSE n
Sat(n) == IF n > 255 THEN 255 ELSE Low(n)

(***************************************************************************)
(* pixel_pipe: which loops may run.                                        *)
(***************************************************************************)
ZTouched(p) == p.zte /\ ~(p.ztst = 1 /\ p.zmsk)
Loops(p) == ~p.fbmsk /\ ~p.fge
Fast(p) == Loops(p) /\ p.tme /\ p.tfx = 0
FastDecal(p) == Loops(p) /\ p.tme /\ p.tfx = 1
FlatFill(p) == Loops(p) /\ ~p.tme /\ (~ZTouched(p) \/ p.ztst = 1)

(***************************************************************************)
(* Tests.                                                                  *)
(***************************************************************************)
AlphaPass(p, a) ==
    CASE p.atst = 0 -> FALSE [] p.atst = 1 -> TRUE
      [] p.atst = 2 -> a < p.aref [] p.atst = 3 -> a <= p.aref
      [] p.atst = 4 -> a = p.aref [] p.atst = 5 -> a >= p.aref
      [] p.atst = 6 -> a > p.aref [] p.atst = 7 -> a # p.aref
DepthPass(p, z, d) ==
    CASE p.ztst = 0 -> FALSE [] p.ztst = 1 -> TRUE [] p.ztst = 2 -> z >= d.z [] p.ztst = 3 -> z > d.z
\* ZTest::pass: the update comes with the test.
ZTestPass(p, z, d) ==
    LET ok == DepthPass(p, z, d)
    IN  [ok |-> ok, d |-> IF ok /\ p.zte /\ ~p.zmsk THEN [d EXCEPT !.z = z] ELSE d]

(***************************************************************************)
(* Blending: the 21-bit lanes of the generic path, biased by 2^16 to stay  *)
(* positive, and the multiply-add of the fast loops.                       *)
(***************************************************************************)
Operand(k, s, d) == CASE k = 0 -> s [] k = 1 -> d [] OTHER -> 0
BlendAlpha(p, a, d) == CASE p.blend[3] = 0 -> a [] p.blend[3] = 1 -> d.a [] OTHER -> p.fix
\* Mutant: the lane is not biased, and a negative sum wraps.
BadBlendLanes(p, c, a, d) ==
    LET alpha == BlendAlpha(p, a, d)
        x == Operand(p.blend[1], c, d.c) * alpha + Operand(p.blend[4], c, d.c) * 128 - Operand(p.blend[2], c, d.c) * alpha
    IN  Sat((x % 2097152) \div 128)
BlendLanes(p, c, a, d) ==
    LET alpha == BlendAlpha(p, a, d)
        x == Operand(p.blend[1], c, d.c) * alpha + Operand(p.blend[4], c, d.c) * 128 + 65536 - Operand(p.blend[2], c, d.c) * alpha
    IN  Sat(((x % 2097152) \div 128) - 512)
BlendFast(p, c, a, d) ==
    LET acc == (Operand(p.blend[1], c, d.c) - Operand(p.blend[2], c, d.c)) * BlendAlpha(p, a, d) + 128 * Operand(p.blend[4], c, d.c)
    IN  Sat(acc \div 128)

(***************************************************************************)
(* The generic pixel.                                                      *)
(***************************************************************************)
Textured(p, f, t) ==
    IF ~p.tme THEN [c |-> f.c, a |-> f.a]
    ELSE CASE p.tfx = 0 -> [c |-> Sat((t.c * f.c) \div 128), a |-> IF p.tcc THEN Sat((t.a * f.a) \div 128) ELSE f.a]
           [] p.tfx = 1 -> [c |-> t.c, a |-> IF p.tcc THEN t.a ELSE f.a]
           [] OTHER -> [c |-> Sat((t.c * f.c) \div 128 + f.a), a |-> IF p.tcc THEN t.a ELSE f.a]
Fogged(p, f, c) == IF p.fge THEN (c * f.fog + p.fogcol * (255 - f.fog)) \div 256 ELSE c
shade_row_px(p, f, t, d) ==
    LET src == Textured(p, f, t)
        c == Fogged(p, f, src.c)
        fail == p.ate /\ ~AlphaPass(p, src.a)
        rgb_only == fail /\ p.afail = 3
        deep == ZTouched(p)
        zd == IF deep /\ ~p.zmsk /\ ~(fail /\ p.afail \in {1, 3}) THEN [d EXCEPT !.z = f.z] ELSE d
        out == IF p.abe THEN BlendLanes(p, c, src.a, d) ELSE c
    IN  IF fail /\ p.afail = 0 THEN d
        ELSE IF deep /\ ~DepthPass(p, f.z, d) THEN d
        ELSE IF fail /\ p.afail = 2 THEN zd
        ELSE [zd EXCEPT !.c = IF p.fbmsk THEN @ ELSE out,
                        !.a = IF p.fbmsk \/ rgb_only \/ p.fb24 THEN @ ELSE Sat(src.a)]

(***************************************************************************)
(* The fast loops.                                                         *)
(***************************************************************************)
Neutral(f) == f.c = 128 /\ f.a = 128
Modulate(f, tcc, t) ==
    LET ta == IF tcc THEN t.a ELSE 128
    IN  IF Neutral(f) THEN [c |-> t.c, a |-> ta] ELSE [c |-> Sat((t.c * f.c) \div 128), a |-> Sat((ta * f.a) \div 128)]
\* The loop of sprite rows (decal or modulate) and of triangle spans.
sprite_row_px(p, dec, f, t, d) ==
    LET a8 == IF dec THEN IF p.tcc THEN t.a ELSE f.a ELSE IF p.tcc THEN Sat((t.a * f.a) \div 128) ELSE f.a
        fail == p.ate /\ ~AlphaPass(p, a8)
        keep == fail /\ p.afail = 3
        ok == IF fail THEN DepthPass(p, f.z, d) ELSE ZTestPass(p, f.z, d).ok
        zd == IF fail \/ ~ZTouched(p) THEN d ELSE ZTestPass(p, f.z, d).d
        col == IF dec THEN [c |-> t.c, a |-> a8] ELSE Modulate(f, p.tcc, t)
        out == IF p.abe THEN [col EXCEPT !.c = BlendFast(p, col.c, a8, d)] ELSE col
    IN  IF fail /\ p.afail = 0 THEN d
        ELSE IF fail /\ p.afail = 2 THEN ZTestPass(p, f.z, d).d
        ELSE IF ZTouched(p) /\ ~ok THEN d
        ELSE [zd EXCEPT !.c = out.c, !.a = IF p.fb24 \/ keep THEN @ ELSE out.a]
\* Constant colour: the alpha test decides the whole row, Z is never tested.
flat_sprite_row(p, f, d) ==
    LET fail == p.ate /\ ~AlphaPass(p, f.a)
        zd == IF p.zte /\ ~p.zmsk /\ ~(fail /\ p.afail \in {1, 3}) THEN [d EXCEPT !.z = f.z] ELSE d
        keep == fail /\ p.afail = 3
    IN  IF fail /\ p.afail = 0 THEN d
        ELSE IF fail /\ p.afail = 2 THEN zd
        ELSE [zd EXCEPT !.c = IF p.abe THEN BlendFast(p, f.c, f.a, d) ELSE f.c, !.a = IF p.fb24 \/ keep THEN @ ELSE f.a]

(***************************************************************************)
(* Properties of a pixel.                                                  *)
(***************************************************************************)
\* Whatever loop pixel_pipe picks for a setup, the pixel it leaves is the one
\* shade_row_px would leave: "same results as shade_row_px".
LoopIsGeneric(p, f, t, d) ==
    /\ Fast(p) => sprite_row_px(p, FALSE, f, t, d) = shade_row_px(p, f, t, d)
    /\ FastDecal(p) => sprite_row_px(p, TRUE, f, t, d) = shade_row_px(p, f, t, d)
    /\ FlatFill(p) => flat_sprite_row(p, f, d) = shade_row_px(p, f, t, d)
\* ALPHA's formula, ((A - B) * C >> 7) + D clamped to a byte, in both forms.
BlendIsFormula(p, c, a, d) ==
    LET want == Sat((((Operand(p.blend[1], c, d.c) - Operand(p.blend[2], c, d.c)) * BlendAlpha(p, a, d)) \div 128)
                    + Operand(p.blend[4], c, d.c))
    IN  BlendLanes(p, c, a, d) = want /\ BlendFast(p, c, a, d) = want
\* A failing alpha test updates only what AFAIL leaves it, and a masked or
\* failing depth test never lets Z through.
FailUpdatesOnly(p, f, t, d) ==
    LET fail == p.ate /\ ~AlphaPass(p, Textured(p, f, t).a)
        n == shade_row_px(p, f, t, d)
    IN  /\ fail /\ p.afail \in {0, 1, 3} => n.z = d.z
        /\ fail /\ p.afail \in {0, 2} => n.c = d.c /\ n.a = d.a
        /\ fail /\ p.afail = 3 => n.a = d.a
        /\ p.zmsk \/ ~p.zte \/ ~DepthPass(p, f.z, d) => n.z = d.z
=============================================================================
