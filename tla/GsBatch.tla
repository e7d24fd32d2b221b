------------------------------ MODULE GsBatch ------------------------------
(***************************************************************************)
(* The software rasterizer's queue.  A primitive is not drawn when it is   *)
(* kicked: it joins a batch, and a flush has every lane of the worker pool *)
(* replay the whole batch on the rows of its own band.  Palettes are lazy  *)
(* too: a TEX0 write records a load of the CLUT buffer, whose memory is    *)
(* read when somebody could tell the difference, and a queued primitive    *)
(* names a block of decoded entries in a pool.                             *)
(*                                                                         *)
(* gs_mem is what the rasterizer has done to local memory so far; gs_ref   *)
(* and gs_ref_clut are what a machine that does everything at once, in     *)
(* program order, would hold.  Memory is a row of 256-byte blocks; a row   *)
(* of a buffer is one block and a page two rows.                           *)
(***************************************************************************)
EXTENDS Integers, Sequences, FiniteSets, SequencesExt

CONSTANTS GsBlocks,      \* blocks of local memory
          GsOpsMax,      \* bound on the operations of a behaviour
          PARALLEL_LANES, PARALLEL_MIN_PIXELS, BATCH_MAX_PIXELS, CLUT_SLOTS, MAX_LOADS

VARIABLES gs_mem, gs_queue, gs_px, gs_writes, gs_reads, gs_pool, gs_clut, gs_pend, gs_lanes,
          gs_ref, gs_ref_clut, gs_issued
gs_batch == <<gs_queue, gs_px, gs_writes, gs_reads>>
gs_vars == <<gs_mem, gs_batch, gs_pool, gs_clut, gs_pend, gs_lanes, gs_ref, gs_ref_clut, gs_issued>>

Block == 0 .. GsBlocks - 1
Idle == [op |-> "idle"]

(***************************************************************************)
(* What a primitive reads and writes, row by row and as the queue sees it. *)
(* Z buffers use the colour block order with bits flipped: here the two    *)
(* rows of a page change places.                                           *)
(***************************************************************************)
PageRows == 2
FbAt(p, r) == p.fbp + PageRows * p.fbw * (r \div PageRows) + (r % PageRows)
ZAt(p, r) == p.zbp + PageRows * p.fbw * (r \div PageRows) + (PageRows - 1 - (r % PageRows))
TexAt(p, r) == p.tex + (r % p.texn)
Prim(p) == p.rows # {}
TexBlocks(p) == IF p.texn = 0 THEN {} ELSE p.tex .. (p.tex + p.texn - 1)
WrittenFrom(p, base) ==
    IF base = -1 \/ p.rows = {} THEN {}
    ELSE LET end == 1 + CHOOSE r \in p.rows : \A s \in p.rows : s <= r
             pages == ((end + PageRows - 1) \div PageRows) * p.fbw
         IN  base .. (base + pages * PageRows - 1)
\* A Z buffer under a write mask is read by the depth test and named nowhere.
ZWritten(p) == IF p.zmsk THEN -1 ELSE p.zbp
Targets(p) == { <<b, p.fbw, WrittenFrom(p, b)>> : b \in {p.fbp, ZWritten(p)} }
Written(p) == WrittenFrom(p, p.fbp) \cup WrittenFrom(p, ZWritten(p))

\* The depth a word of memory is taken for: what a Z write left, a small number
\* in memory nobody wrote, a large one in a colour.
Depth(word) == IF word = <<>> THEN 0 ELSE IF Len(word) = 2 THEN word[1] ELSE 9
PassesDepth(m, p, r) ==
    CASE p.zbp = -1 \/ p.ztst = 1 -> TRUE
      [] p.ztst = 0 -> FALSE
      [] p.ztst = 2 -> p.z >= Depth(m[ZAt(p, r)])
      [] OTHER -> p.z > Depth(m[ZAt(p, r)])
\* A row: the texel, the depth test, the Z write, and the pixel, which blending
\* makes of the one it covers.
PaintRow(m, p, r, palette) ==
    LET texel == IF p.texn = 0 THEN <<>> ELSE m[TexAt(p, r)]
        z == IF ZWritten(p) = -1 THEN m ELSE [m EXCEPT ![ZAt(p, r)] = <<p.z, "z">>]
        dst == IF p.abe THEN z[FbAt(p, r)] ELSE <<>>
    IN  IF PassesDepth(m, p, r) THEN [z EXCEPT ![FbAt(p, r)] = <<p.col, texel, palette, dst>>] ELSE m
RunPrim(m, p, palette) == FoldLeft(LAMBDA n, r : PaintRow(n, p, r, palette), m, SetToSortSeq(p.rows, <))

(***************************************************************************)
(* The CLUT buffer: four slots, a 32-bit window is two of them and a       *)
(* 16-bit one a single slot.  Loads and views are windows.                 *)
(***************************************************************************)
ClutSlot == 0 .. 3
SlotsOf(l) == { s \in ClutSlot : s \div l.w \in l.first .. (l.first + l.n - 1) }
LoadBlocks(l) == l.cbp .. (l.cbp + 1)
ClutRaw(m, l, s) == <<m[l.cbp + s \div 2], l.w, s>>
Request(c, t) ==
    LET k == t.cld % 2
        load == t.cld \in {1, 2, 3} \/ (t.cld \in {4, 5} /\ c.cbp[k] # t.load.cbp)
    IN  [load |-> load, cbp |-> IF load /\ t.cld # 1 THEN [c.cbp EXCEPT ![k] = t.load.cbp] ELSE c.cbp]
\* Mutant: a load drops the recorded loads it only overlaps.
BadRecord(c, l) ==
    IF c.loads # <<>> /\ Last(c.loads) = l THEN c
    ELSE [c EXCEPT !.loads = Append(SelectSeq(@, LAMBDA o : SlotsOf(o) \cap SlotsOf(l) = {}), l)]
Record(c, l) ==
    IF c.loads # <<>> /\ Last(c.loads) = l THEN c
    ELSE [c EXCEPT !.loads = Append(SelectSeq(@, LAMBDA o : ~(SlotsOf(o) \subseteq SlotsOf(l))), l)]
PendingIn(c, blocks) == \E i \in DOMAIN c.loads : LoadBlocks(c.loads[i]) \cap blocks # {}
ClutSource(c, v) ==
    LET hit == { i \in DOMAIN c.loads : SlotsOf(c.loads[i]) \cap SlotsOf(v) # {} }
    IN  IF hit = {} THEN <<"buffer">>
        ELSE LET l == c.loads[CHOOSE i \in hit : \A j \in hit : j <= i]
             IN  IF SlotsOf(v) \subseteq SlotsOf(l) /\ l.w = v.w THEN <<"load", l>> ELSE <<"mixed">>
ReadLoads(m, c) ==
    FoldLeft(LAMBDA b, l : [s \in ClutSlot |-> IF s \in SlotsOf(l) THEN ClutRaw(m, l, s) ELSE b[s]], c.buf, c.loads)
Materialise(m, c) ==
    IF c.loads = <<>> THEN c
    ELSE [c EXCEPT !.buf = ReadLoads(m, c), !.loads = <<>>, !.epoch = @ + 1]
NewClut(m) == [buf |-> [s \in ClutSlot |-> <<>>], loads |-> <<>>, epoch |-> 0, cbp |-> [k \in 0 .. 1 |-> -1]]

(***************************************************************************)
(* Decoded palettes.                                                       *)
(***************************************************************************)
NoView == [w |-> 1, first |-> 0, n |-> 0]
NewPool == [data |-> [i \in 1 .. CLUT_SLOTS |-> <<>>], keys |-> [i \in 1 .. CLUT_SLOTS |-> <<>>], used |-> 0]
ResetPool(pl) == [pl EXCEPT !.used = 0, !.keys = [i \in 1 .. CLUT_SLOTS |-> <<>>]]
ForgetKeys(pl) == [pl EXCEPT !.keys = [i \in 1 .. CLUT_SLOTS |-> <<>>]]
ClutKey(c, v) == LET s == ClutSource(c, v) IN IF s[1] = "load" THEN <<s[2], -1, v>> ELSE <<NoView, c.epoch, v>>
Found(pl, key) == { i \in 1 .. pl.used : pl.keys[i] = key }
Decode(from, v) == [i \in SlotsOf(v) |-> IF from[1] = "load" THEN ClutRaw(gs_mem, from[2], i) ELSE gs_clut'.buf[i]]
\* The unit as a lookup leaves it: one that straddles loads reads them first.
Looked(m, c, v) == IF ClutSource(c, v)[1] = "mixed" THEN Materialise(m, c) ELSE c

(***************************************************************************)
(* The dependences enqueue flushes for.                                    *)
(***************************************************************************)
Aliases(base, bw, blocks) == \E w \in gs_writes : w[3] \in blocks /\ (w[1] # base \/ w[2] # bw)
AfterWrite(blocks) == \E w \in gs_writes : w[3] \in blocks
BeforeRead(blocks) == gs_reads \cap blocks # {}
SamplesItself(p) == TexBlocks(p) \cap Written(p) # {}
\* Mutant: a write over texels a queued primitive reads does not flush it.
BadConflicts(p) == (\E t \in Targets(p) : Aliases(t[1], t[2], t[3])) \/ AfterWrite(TexBlocks(p)) \/ SamplesItself(p)
Conflicts(p) ==
    \/ \E t \in Targets(p) : Aliases(t[1], t[2], t[3])
    \/ AfterWrite(TexBlocks(p))
    \/ SamplesItself(p)
    \/ BeforeRead(Written(p))

\* Whether the operation under way has to have the batch drawn first.
NeedsFlush(q) ==
    CASE q.op = "palette" -> FALSE
      [] q.op = "enqueue" -> Prim(q.prim) /\ Conflicts(q.prim)
      [] q.op = "point" -> Prim(q.prim)
      [] q.op = "record" -> AfterWrite(LoadBlocks(q.load))
      [] OTHER -> TRUE
MustFlush == gs_pend.op \notin {"idle", "panic"} /\ gs_queue # <<>> /\ NeedsFlush(gs_pend)
Ready(op) == gs_pend.op = op /\ ~MustFlush /\ gs_lanes = <<>>

(***************************************************************************)
(* A flush: settle the loads the batch would write under, cut the rows     *)
(* into lanes when there is enough to draw, join them, free the palettes.  *)
(***************************************************************************)
FlushBegin ==
    /\ MustFlush /\ gs_lanes = <<>>
    /\ gs_clut' = IF PendingIn(gs_clut, { w[3] : w \in gs_writes }) THEN Materialise(gs_mem, gs_clut) ELSE gs_clut
    /\ LET n == IF gs_px >= PARALLEL_MIN_PIXELS THEN PARALLEL_LANES ELSE 1
           all == UNION { { <<i, r>> : r \in gs_queue[i].prim.rows } : i \in DOMAIN gs_queue }
       IN  gs_lanes' = [l \in 1 .. n |-> { x \in all : x[2] % n = l - 1 }]
    /\ gs_writes' = {} /\ gs_reads' = {} /\ gs_px' = 0
    /\ UNCHANGED <<gs_mem, gs_queue, gs_pool, gs_pend, gs_ref, gs_ref_clut, gs_issued>>
LaneStep(l) ==
    /\ gs_lanes # <<>> /\ gs_lanes[l] # {}
    /\ LET x == CHOOSE o \in gs_lanes[l] : \A y \in gs_lanes[l] : o[1] < y[1] \/ (o[1] = y[1] /\ o[2] <= y[2])
           q == gs_queue[x[1]]
       IN  /\ gs_mem' = PaintRow(gs_mem, q.prim, x[2], IF q.off = 0 THEN <<>> ELSE gs_pool.data[q.off])
           /\ gs_lanes' = [gs_lanes EXCEPT ![l] = @ \ {x}]
    /\ UNCHANGED <<gs_batch, gs_pool, gs_clut, gs_pend, gs_ref, gs_ref_clut, gs_issued>>
FlushJoin ==
    /\ gs_lanes # <<>> /\ \A l \in DOMAIN gs_lanes : gs_lanes[l] = {}
    /\ gs_lanes' = <<>> /\ gs_queue' = <<>>
    /\ gs_pool' = ResetPool(gs_pool)
    /\ UNCHANGED <<gs_mem, gs_px, gs_writes, gs_reads, gs_clut, gs_pend, gs_ref, gs_ref_clut, gs_issued>>

(***************************************************************************)
(* Operations.  Issue notes the request, and what the in-order machine     *)
(* makes of it; the rest follows once the batch is out of the way.         *)
(***************************************************************************)
RefPalette(p) == [s \in SlotsOf(p.view) |-> gs_ref_clut[s]]
Issue(o) ==
    /\ gs_pend = Idle /\ gs_issued < GsOpsMax
    /\ gs_issued' = gs_issued + 1
    /\ CASE o.op \in {"draw", "point"} ->
              /\ gs_pend' = [op |-> IF o.prim.view = NoView THEN IF o.op = "draw" THEN "enqueue" ELSE "point" ELSE "palette",
                             then |-> IF o.op = "draw" THEN "enqueue" ELSE "point", prim |-> o.prim, off |-> 0]
              /\ gs_ref' = RunPrim(gs_ref, o.prim, IF o.prim.view = NoView THEN <<>> ELSE RefPalette(o.prim))
              /\ UNCHANGED <<gs_clut, gs_ref_clut>>
         [] o.op = "tex0" ->
              LET rq == Request(gs_clut, o)
              IN  /\ gs_clut' = [gs_clut EXCEPT !.cbp = rq.cbp]
                  /\ gs_pend' = IF rq.load THEN [op |-> "record", load |-> o.load] ELSE Idle
                  /\ gs_ref_clut' = [s \in ClutSlot |-> IF rq.load /\ s \in SlotsOf(o.load) THEN ClutRaw(gs_ref, o.load, s)
                                                        ELSE gs_ref_clut[s]]
                  /\ UNCHANGED gs_ref
         [] o.op = "image" ->
              /\ gs_pend' = [op |-> "image", at |-> o.at, col |-> o.col]
              /\ gs_ref' = [gs_ref EXCEPT ![o.at] = <<o.col>>]
              /\ UNCHANGED <<gs_clut, gs_ref_clut>>
         [] o.op = "scanout" -> gs_pend' = [op |-> "scanout"] /\ UNCHANGED <<gs_ref, gs_clut, gs_ref_clut>>
    /\ UNCHANGED <<gs_mem, gs_batch, gs_pool, gs_lanes>>

\* The block and its entries, decoded from the source found before any flush.
Decoded(slot, key, from) ==
    /\ gs_pool' = [gs_pool EXCEPT !.used = slot, !.keys[slot] = key, !.data[slot] = Decode(from, gs_pend.prim.view)]
    /\ gs_pend' = [gs_pend EXCEPT !.op = gs_pend.then, !.off = slot]
RefreshClut ==
    /\ Ready("palette")
    /\ LET v == gs_pend.prim.view
           c == Looked(gs_mem, gs_clut, v)
           key == ClutKey(c, v)
           hit == Found(gs_pool, key)
       IN  /\ gs_clut' = c
           /\ IF hit # {} THEN gs_pend' = [gs_pend EXCEPT !.op = gs_pend.then, !.off = Min(hit)] /\ UNCHANGED gs_pool
              ELSE IF gs_pool.used < CLUT_SLOTS THEN Decoded(gs_pool.used + 1, key, ClutSource(c, v))
              ELSE gs_pend' = [gs_pend EXCEPT !.op = "drain", !.off = <<key, ClutSource(c, v)>>] /\ UNCHANGED gs_pool
    /\ UNCHANGED <<gs_mem, gs_batch, gs_lanes, gs_ref, gs_ref_clut, gs_issued>>
\* Out of blocks: the batch has been drawn, and should have freed every one.
AllocAgain ==
    /\ Ready("drain") /\ UNCHANGED gs_clut
    /\ IF gs_pool.used < CLUT_SLOTS THEN Decoded(gs_pool.used + 1, gs_pend.off[1], gs_pend.off[2])
       ELSE gs_pend' = [op |-> "panic"] /\ UNCHANGED gs_pool
    /\ UNCHANGED <<gs_mem, gs_batch, gs_lanes, gs_ref, gs_ref_clut, gs_issued>>
\* A primitive that samples its own target, and every point, is drawn in place.
DrawInline ==
    /\ \/ Ready("point")
       \/ Ready("enqueue") /\ SamplesItself(gs_pend.prim)
    /\ gs_mem' = RunPrim(gs_mem, gs_pend.prim, IF gs_pend.off = 0 THEN <<>> ELSE gs_pool.data[gs_pend.off])
    /\ gs_pend' = Idle
    /\ UNCHANGED <<gs_batch, gs_pool, gs_clut, gs_lanes, gs_ref, gs_ref_clut, gs_issued>>
Enqueue ==
    /\ Ready("enqueue") /\ ~SamplesItself(gs_pend.prim)
    /\ LET p == gs_pend.prim
       IN  IF ~Prim(p) THEN gs_pend' = Idle /\ UNCHANGED gs_batch
           ELSE /\ gs_reads' = gs_reads \cup TexBlocks(p)
                /\ gs_writes' = gs_writes \cup UNION { { <<t[1], t[2], b>> : b \in t[3] } : t \in Targets(p) }
                /\ gs_px' = gs_px + p.px
                /\ gs_queue' = Append(gs_queue, [prim |-> p, off |-> gs_pend.off])
                /\ gs_pend' = IF gs_px + p.px >= BATCH_MAX_PIXELS THEN [op |-> "scanout"] ELSE Idle
    /\ UNCHANGED <<gs_mem, gs_pool, gs_clut, gs_lanes, gs_ref, gs_ref_clut, gs_issued>>
ClutWrite ==
    /\ Ready("record")
    /\ gs_clut' = Record(IF Len(gs_clut.loads) >= MAX_LOADS THEN Materialise(gs_mem, gs_clut) ELSE gs_clut, gs_pend.load)
    /\ gs_pend' = Idle
    /\ UNCHANGED <<gs_mem, gs_batch, gs_pool, gs_lanes, gs_ref, gs_ref_clut, gs_issued>>
\* An IMAGE transfer or a local copy: local memory is about to change.
Transfer ==
    /\ Ready("image")
    /\ gs_clut' = Materialise(gs_mem, gs_clut)
    /\ gs_pool' = ForgetKeys(gs_pool)
    /\ gs_mem' = [gs_mem EXCEPT ![gs_pend.at] = <<gs_pend.col>>]
    /\ gs_pend' = Idle
    /\ UNCHANGED <<gs_batch, gs_lanes, gs_ref, gs_ref_clut, gs_issued>>
Scanout ==
    /\ Ready("scanout") /\ gs_pend' = Idle
    /\ UNCHANGED <<gs_mem, gs_batch, gs_pool, gs_clut, gs_lanes, gs_ref, gs_ref_clut, gs_issued>>

GsBatchInit ==
    /\ gs_mem = [b \in Block |-> <<>>] /\ gs_ref = gs_mem
    /\ gs_queue = <<>> /\ gs_px = 0 /\ gs_writes = {} /\ gs_reads = {}
    /\ gs_pool = NewPool /\ gs_clut = NewClut(gs_mem) /\ gs_ref_clut = gs_clut.buf
    /\ gs_pend = Idle /\ gs_lanes = <<>> /\ gs_issued = 0
GsBatchStep ==
    \/ FlushBegin \/ (\E l \in DOMAIN gs_lanes : LaneStep(l)) \/ FlushJoin
    \/ RefreshClut \/ AllocAgain \/ DrawInline \/ Enqueue \/ ClutWrite \/ Transfer \/ Scanout

(***************************************************************************)
(* Properties.                                                             *)
(***************************************************************************)
\* "Results are bit-identical to a serial pass": with nothing queued, memory
\* holds what drawing everything in program order would leave, whatever order
\* the lanes ran in.
DrawsInOrder == gs_pend = Idle /\ gs_queue = <<>> => gs_mem = gs_ref
\* A recorded load still reads the entries its TEX0 write should have taken:
\* nothing writes its memory before the load is settled.
PaletteAsLoaded == gs_pend = Idle => ReadLoads(gs_mem, gs_clut) = gs_ref_clut
\* "A drawn batch frees the pool": a primitive always finds a palette block.
PoolLasts == gs_pend.op # "panic"
=============================================================================
