------------------------------ MODULE MCGsCore ------------------------------
(***************************************************************************)
(* The instances of the drawing side: the workloads of the queue of        *)
(* primitives, and one case for each unit (vertices, transfers, texels,    *)
(* shading, coverage, display).  A behaviour is about one part.            *)
(***************************************************************************)
EXTENDS GsBatch, GsVertex, GsTransfer, GsLayout, GsRaster, GsDisplay, TLC

CONSTANT Parts         \* what a behaviour is about: a workload of the queue or a unit
VARIABLES part, case
vars == <<gs_vars, gv_vars, trx_vars, gt_vars, gd_vars, part, case>>

(***************************************************************************)
(* Painting: frames that overlap, a Z buffer written, tested and tested    *)
(* under its write mask, blending, textures of written memory, a target    *)
(* that is sampled, points, transfers.                                     *)
(***************************************************************************)
P(col, fbp, rows) ==
    [col |-> col, fbp |-> fbp, fbw |-> 1, zbp |-> -1, z |-> 0, ztst |-> 1, zmsk |-> FALSE, abe |-> FALSE,
     tex |-> 0, texn |-> 0, rows |-> rows, px |-> 2, view |-> NoView]
\* Drawn where depth z is at least that of the Z buffer at zbp, written or masked.
Tested(p, zbp, z, masked) == [p EXCEPT !.zbp = zbp, !.z = z, !.ztst = 2, !.zmsk = masked]
Tex(p, at, n) == [p EXCEPT !.tex = at, !.texn = n]
Draw(p) == [op |-> "draw", prim |-> p]

Paint ==
    { Draw(P("a", 0, 0 .. 1)), Draw(Tested(P("b", 0, 0 .. 1), 4, 2, FALSE)), Draw(Tested(P("h", 0, 0 .. 1), 4, 1, TRUE)),
      Draw(P("c", 1, 0 .. 1)), Draw([P("d", 0, {1}) EXCEPT !.px = 1, !.abe = TRUE]),
      Draw(Tex(P("e", 4, 0 .. 1), 0, 2)), Draw(Tex(P("f", 0, 0 .. 1), 4, 1)), Draw(Tex(P("g", 0, 0 .. 1), 1, 1)),
      [op |-> "point", prim |-> P("p", 0, {1})], [op |-> "image", at |-> 4, col |-> "i"], [op |-> "scanout"] }

(***************************************************************************)
(* Palettes: loads from memory that is drawn and transferred to, windows   *)
(* that match, contain and straddle them, a pool of CLUT_SLOTS blocks.     *)
(***************************************************************************)
Load(cbp, w, first, n) == [cbp |-> cbp, w |-> w, first |-> first, n |-> n]
Tex0(cld, l) == [op |-> "tex0", cld |-> cld, load |-> l]
View(col, v) == Draw([Tex(P(col, 0, 0 .. 1), 2, 1) EXCEPT !.view = v])
Palette ==
    { Tex0(1, Load(4, 1, 0, 2)), Tex0(4, Load(4, 1, 2, 2)), Tex0(2, Load(6, 2, 0, 2)),
      View("a", [w |-> 1, first |-> 0, n |-> 2]), View("b", [w |-> 1, first |-> 1, n |-> 2]), View("c", [w |-> 2, first |-> 0, n |-> 1]),
      Draw([P("d", 4, 0 .. 1) EXCEPT !.px = 1]), [op |-> "image", at |-> 6, col |-> "i"] }

\* A transfer, then triangles whose palettes are looked up and which the
\* scissor then leaves nothing of.
Clipped == { [op |-> "image", at |-> 6, col |-> "i"] }
           \cup { Draw([Tex(P("a", 0, {}), 2, 1) EXCEPT !.view = [w |-> 1, first |-> f, n |-> 1]]) : f \in 0 .. 2 }
\* A frame, then the Z buffer at the frame's own address.
Cleared == { Draw(P("a", 0, 0 .. 1)), Draw([P("b", 4, 0 .. 1) EXCEPT !.zbp = 0]) }
\* A draw, then one the depth test lets through by what the draw left: its Z
\* buffer, masked and so not named, lies where the frame is, or the frame goes
\* over a Z buffer that a queued primitive has yet to read.
Masked == { Draw(P("a", 0, 0 .. 1)), Draw(Tested(P("b", 4, 0 .. 1), 0, 1, TRUE)) }
\* Palettes of one load, a frame over the memory it reads, and a last palette
\* that finds the pool full; its primitive is large enough to end the batch.
Drained == { Tex0(1, Load(4, 1, 0, 4)), Draw([P("d", 4, 0 .. 1) EXCEPT !.px = 1]) }
           \cup { Draw([Tex(P("a", 0, 0 .. 1), 2, 1) EXCEPT !.view = [w |-> 1, first |-> x[1], n |-> 1], !.px = x[2]]) :
                  x \in {<<0, 2>>, <<1, 2>>, <<2, 6>>} }

Ops == [paint |-> Paint, palette |-> Palette, clipped |-> Clipped, cleared |-> Cleared, masked |-> Masked, drained |-> Drained]

(***************************************************************************)
(* Textures and their coordinates; pictures to display.                    *)
(***************************************************************************)
MCTextures == { [tw |-> 8, th |-> 4, wm |-> m, min |-> 3, max |-> 4] : m \in {0, 2, 3} }
MCColumns == {-5, 6}
MCRows == {1, 6}
MCPictures == { [p \in Pixels |-> 20 * p[2] + 30 * p[1]], [p \in Pixels |-> IF p[2] % 2 = p[1] THEN 200 ELSE 10] }

(***************************************************************************)
(* Setups of the units that keep no state, each with its check.            *)
(***************************************************************************)
Fmt(b) == [bits |-> b, s |-> FALSE, z |-> FALSE]
PageCases == { [kind |-> "page", f |-> f] : f \in Format } \cup { [kind |-> "line", f |-> f, y |-> y] : f \in Format, y \in 0 .. 129 }
Points == { <<x, y>> : x \in {-20, 0, 9, 40}, y \in {0, 24, 57} }
Scissor == [x0 |-> 0, x1 |-> 3, y0 |-> 1, y1 |-> 3]
TriCases == { [kind |-> "tri", t |-> <<a, b, d>>] : a, b, d \in Points }
SpriteCases == { [kind |-> "sprite", s |-> <<a, b, d>>] : a, b, d \in {-9, 0, 5, 16, 24, 47, 70} }
LineCases ==
    { [kind |-> "strip", l |-> <<a, b, d>>] : a, b, d \in { <<16 * x[1], 16 * x[2]>> : x \in { <<0, 0>>, <<3, 1>>, <<1, 4>>, <<5, 5>>, <<2, 0>> } } }
    \cup { [kind |-> "rows", l |-> <<a, b>>] : a, b \in { <<3, 7>>, <<40, 9>>, <<17, 70>>, <<90, 41>> } }
Pipe == [tme |-> TRUE, tfx |-> 0, tcc |-> TRUE, fge |-> FALSE, fogcol |-> 90, ate |-> FALSE, atst |-> 1, aref |-> 64, afail |-> 0,
         zte |-> TRUE, ztst |-> 2, zmsk |-> FALSE, abe |-> FALSE, blend |-> <<0, 1, 0, 1>>, fix |-> 200, fb24 |-> FALSE, fbmsk |-> FALSE]
Pixel == [f |-> [c |-> 100, a |-> 90, z |-> 5, fog |-> 30], t |-> [c |-> 220, a |-> 60], d |-> [c |-> 40, a |-> 128, z |-> 5]]
ShadeCases ==
    { [kind |-> "pixel", px |-> [Pixel EXCEPT !.f.z = z, !.f.c = fc, !.f.a = fa],
       p |-> [Pipe EXCEPT !.tme = e[1], !.tfx = e[2], !.tcc = e[3], !.ate = ate, !.atst = atst, !.afail = afail, !.ztst = ztst, !.zmsk = zm, !.zte = ~zm]] :
      z \in {4, 5}, fc \in {128, 255}, fa \in {128}, ate \in BOOLEAN, atst \in {0, 4, 5}, afail \in 0 .. 3, ztst \in 0 .. 3, zm \in BOOLEAN,
      e \in {<<TRUE, 0, TRUE>>, <<TRUE, 0, FALSE>>, <<TRUE, 1, TRUE>>, <<TRUE, 1, FALSE>>, <<FALSE, 0, FALSE>>} }
    \cup { [kind |-> "pixel", px |-> Pixel,
            p |-> [Pipe EXCEPT !.tfx = x, !.ate = ate, !.atst = 6, !.afail = afail, !.abe = abe, !.fge = fge, !.fb24 = fb, !.fbmsk = fm, !.zmsk = zm, !.blend = bl]] :
           x \in {0, 1, 2}, ate, abe, fge, fb, fm, zm \in BOOLEAN, afail \in 0 .. 3, bl \in {<<0, 1, 0, 1>>, <<1, 0, 2, 2>>, <<0, 2, 1, 1>>} }
BlendCases ==
    { [kind |-> "blend", p |-> [Pipe EXCEPT !.blend = <<i, j, k, l>>, !.fix = x], c |-> n, a |-> a, d |-> [c |-> m, a |-> da, z |-> 0]] :
      i, j, k, l \in 0 .. 2, x \in {0, 255}, n \in {37, 255}, m \in {0, 200}, a \in {0, 129}, da \in {1, 255} }
TexCases ==
    { [kind |-> "run", i0 |-> i, last |-> l, step |-> s, n |-> n] : i \in -3 .. 3, l \in 0 .. 3, s \in -1 .. 2, n \in 0 .. 6 }
    \cup { [kind |-> "filter", q |-> <<a, b, d, e>>, w |-> w, x |-> [ta0 |-> 128, ta1 |-> 77, aem |-> m]] :
           a, b, d, e \in {0, 31, 32768, 65535}, w \in {<<0, 0>>, <<255, 1>>, <<128, 77>>}, m \in BOOLEAN }
    \cup { [kind |-> "chain", f |-> Fmt(b), t |-> [tbp |-> 64, tbw |-> 1, tw |-> 64, th |-> 64]] : b \in {32, 16} }
    \cup { [kind |-> "chain", f |-> Fmt(b), t |-> [tbp |-> 64, tbw |-> 2, tw |-> 128, th |-> 128]] : b \in {8, 4} }
    \cup { [kind |-> "lod", m |-> [mxl |-> x, lcm |-> lc, mtba |-> mt, mmag |-> TRUE, mmin |-> mm, k |-> k]] :
           x \in 0 .. 3, lc, mt \in BOOLEAN, mm \in 0 .. 5, k \in {-20, -8, 0, 7, 8, 15, 24, 47, 60} }
Sampled(bilinear) ==
    { [kind |-> "reads", bilinear |-> bilinear, f |-> Fmt(b), lo |-> lo, hi |-> hi,
       t |-> [tbp |-> 40, tbw |-> 2, tw |-> 128, th |-> 256, wm |-> m, min |-> 5, max |-> 70]] :
      b \in {32, 16, 8, 4}, m \in 0 .. 3, lo, hi \in {-3, 0, 130, 255, 257, 512, 600, 1016} }
Cases == <<PageCases, TriCases, SpriteCases, LineCases, ShadeCases, BlendCases, TexCases, Sampled(FALSE)>>
NoCase == [kind |-> "none"]
CaseHolds(s) ==
    CASE s.kind = "page" -> PageIsFilled(s.f)
      [] s.kind = "line" -> RowIsDirect(s.f, s.y)
      [] s.kind = "tri" -> SpanIsPixelTest(s.t, Scissor) /\ BoxHoldsTriangle(s.t, Scissor) /\ PlanesTrackExact(s.t, Scissor, <<0, 200, 37>>)
      [] s.kind = "sprite" -> SpritesTile(s.s[1], s.s[2], s.s[3], Scissor) /\ SpriteTexels(s.s[1], s.s[2], Scissor)
      [] s.kind = "strip" -> JointOnce(s.l[1], s.l[2], s.l[3])
      [] s.kind = "rows" -> RowsHoldLine(s.l[1], s.l[2], Scissor)
      [] s.kind = "pixel" -> LoopIsGeneric(s.p, s.px.f, s.px.t, s.px.d) /\ FailUpdatesOnly(s.p, s.px.f, s.px.t, s.px.d)
      [] s.kind = "blend" -> BlendIsFormula(s.p, s.c, s.a, s.d)
      [] s.kind = "run" -> PrefilterIsPerPixel(s)
      [] s.kind = "filter" -> FilterExact(s.q, s.x, s.w[1], s.w[2])
      [] s.kind = "chain" -> LevelsApart(s.f, s.t)
      [] s.kind = "lod" -> LevelOfLod(s.m)
      [] s.kind = "reads" -> s.lo <= s.hi => ReadsDeclared(s.f, s.t, s.bilinear, s.lo, s.hi)
      [] s.kind = "none" -> TRUE
Setup == case.kind = "none" /\ \E i \in DOMAIN Cases : \E s \in Cases[i] : case' = s

Init ==
    /\ part \in Parts /\ case = NoCase
    /\ GsBatchInit /\ GsVertexInit /\ GsTransferInit
    /\ GsTexelInit
    /\ part # "texel" => gt_tex = (CHOOSE ti \in GtTextures : TRUE)
    /\ GsDisplayInit
    /\ part # "display" => gd_mode = (CHOOSE m \in GdModes : TRUE) /\ gd_pics[1] = (CHOOSE p \in GdPictures : TRUE)
Next ==
    /\ UNCHANGED part
    /\ \/ /\ part \in DOMAIN Ops
          /\ (\E o \in Ops[part] : Issue(o)) \/ GsBatchStep
          /\ UNCHANGED <<gv_vars, trx_vars, gt_vars, gd_vars, case>>
       \/ part = "vertex" /\ GsVertexNext /\ UNCHANGED <<gs_vars, trx_vars, gt_vars, gd_vars, case>>
       \/ part = "transfer" /\ GsTransferNext /\ UNCHANGED <<gs_vars, gv_vars, gt_vars, gd_vars, case>>
       \/ part = "texel" /\ GsTexelNext /\ UNCHANGED <<gs_vars, gv_vars, trx_vars, gd_vars, case>>
       \/ part = "display" /\ GsDisplayNext /\ UNCHANGED <<gs_vars, gv_vars, trx_vars, gt_vars, case>>
       \/ part = "setup" /\ Setup /\ UNCHANGED <<gs_vars, gv_vars, trx_vars, gt_vars, gd_vars>>
Spec == Init /\ [][Next]_vars

(***************************************************************************)
(* The properties of the run.                                              *)
(***************************************************************************)
\* A queued primitive's palette is the one loaded for it, and the pool of
\* palettes never runs out.
PaletteSafe == PaletteAsLoaded /\ PoolLasts
\* Each unit of the pixel pipeline does what its reference form does: addresses,
\* coverage, interpolation, shading loops, filters, levels, declared reads.
SetupHolds == CaseHolds(case)
=============================================================================
