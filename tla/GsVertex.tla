------------------------------ MODULE GsVertex ------------------------------
(***************************************************************************)
(* The GS general registers and the vertex queue: writes latch attributes, *)
(* a write to one of the XYZ registers kicks a vertex, and the queue turns *)
(* kicked vertices into primitives of the kind PRIM names.                 *)
(*                                                                         *)
(* A vertex is the number of its kick with the attributes latched then: FOG *)
(* stands for the latches, and the context for the offset it is placed by.  *)
(* gv_hist is every vertex kicked since PRIM; gv_drawn what the last write *)
(* drew.                                                                   *)
(***************************************************************************)
EXTENDS Integers, Sequences

CONSTANTS GvKicksMax,    \* bound on the kicks since PRIM
          GvWritesMax    \* bound on the attribute writes since PRIM

VARIABLES gv_prim, gv_prmode, gv_cont, gv_q, gv_fog, gv_hist, gv_drawn, gv_last, gv_writes
gv_regs == <<gv_prim, gv_prmode, gv_cont, gv_fog>>
gv_vars == <<gv_regs, gv_q, gv_hist, gv_drawn, gv_last, gv_writes>>

Kind == 0 .. 7
Ctxs == {0, 1}
QLEN == 4
NoPrim == [vs |-> <<>>, ctx |-> 0]

\* PRMODECONT picks where the attributes come from; the kind is always PRIM's.
GvCtx == IF gv_cont THEN gv_prim.ctx ELSE gv_prmode

GvVertex(fog) == [n |-> Len(gv_hist) + 1, fog |-> fog, ctx |-> GvCtx]
Pushed(v) == IF Len(gv_q) < QLEN THEN Append(gv_q, v) ELSE gv_q
Full(q) == CASE gv_prim.kind = 0 -> TRUE
             [] gv_prim.kind \in {1, 2, 6} -> Len(q) = 2
             [] gv_prim.kind \in {3, 4, 5} -> Len(q) = 3
             [] OTHER -> FALSE
\* Mutant: a fan moves on like a strip.
BadKept(q) == IF gv_prim.kind = 7 THEN <<>> ELSE IF ~Full(q) THEN q
              ELSE CASE gv_prim.kind = 2 -> <<q[2]>> [] gv_prim.kind \in {4, 5} -> <<q[2], q[3]>> [] OTHER -> <<>>
Kept(q) == IF gv_prim.kind = 7 THEN <<>>
           ELSE IF ~Full(q) THEN q
           ELSE CASE gv_prim.kind = 2 -> <<q[2]>>
                  [] gv_prim.kind = 4 -> <<q[2], q[3]>>
                  [] gv_prim.kind = 5 -> <<q[1], q[3]>>
                  [] OTHER -> <<>>
vertex_kick(fog, draw) ==
    LET v == GvVertex(fog)
        q == Pushed(v)
    IN  /\ gv_q' = Kept(q)
        /\ gv_hist' = Append(gv_hist, v)
        /\ gv_drawn' = IF draw /\ Full(q) THEN [vs |-> q, ctx |-> GvCtx] ELSE NoPrim

(***************************************************************************)
(* write_reg, one action per group of registers.                           *)
(***************************************************************************)
Quiet(kind) == gv_drawn' = NoPrim /\ gv_last' = kind
WritePrim ==
    \E k \in Kind, c \in Ctxs :
        /\ gv_prim' = [kind |-> k, ctx |-> c]
        /\ gv_q' = <<>> /\ gv_hist' = <<>> /\ gv_writes' = 0
        /\ Quiet("prim") /\ UNCHANGED <<gv_prmode, gv_cont, gv_fog>>
\* XYZF carries the fog value and latches it; XYZ uses what is latched.
WriteXyz ==
    \E f \in {-1, 1 - gv_fog}, draw \in BOOLEAN :
        LET fog == IF f = -1 THEN gv_fog ELSE f
        IN  /\ Len(gv_hist) < GvKicksMax
            /\ gv_fog' = fog
            /\ vertex_kick(fog, draw)
            /\ gv_last' = IF draw THEN "kick" ELSE "pass"
            /\ UNCHANGED <<gv_prim, gv_prmode, gv_cont, gv_writes>>
WriteAttributes ==
    /\ gv_writes < GvWritesMax /\ gv_writes' = gv_writes + 1
    /\ \/ gv_fog' = 1 - gv_fog /\ UNCHANGED <<gv_prmode, gv_cont>>
       \/ gv_prmode' = 1 - gv_prmode /\ UNCHANGED <<gv_fog, gv_cont>>
       \/ gv_cont' = ~gv_cont /\ UNCHANGED <<gv_fog, gv_prmode>>
    /\ Quiet("attr") /\ UNCHANGED <<gv_prim, gv_q, gv_hist>>
GsVertexInit ==
    /\ gv_prim = [kind |-> 0, ctx |-> 0] /\ gv_prmode = 0 /\ gv_cont = TRUE
    /\ gv_q = <<>> /\ gv_fog = 0
    /\ gv_hist = <<>> /\ gv_drawn = NoPrim /\ gv_last = "prim" /\ gv_writes = 0
GsVertexNext == WritePrim \/ WriteXyz \/ WriteAttributes
GsVertexSpec == GsVertexInit /\ [][GsVertexNext]_gv_vars

(***************************************************************************)
(* Properties.                                                             *)
(***************************************************************************)
\* The kicks since PRIM that make up the primitive the last one completes.
Completes(n) ==
    CASE gv_prim.kind = 0 -> <<n>>
      [] gv_prim.kind \in {1, 6} -> IF n % 2 = 0 THEN <<n - 1, n>> ELSE <<>>
      [] gv_prim.kind = 2 -> IF n >= 2 THEN <<n - 1, n>> ELSE <<>>
      [] gv_prim.kind = 3 -> IF n % 3 = 0 THEN <<n - 2, n - 1, n>> ELSE <<>>
      [] gv_prim.kind = 4 -> IF n >= 3 THEN <<n - 2, n - 1, n>> ELSE <<>>
      [] gv_prim.kind = 5 -> IF n >= 3 THEN <<1, n - 1, n>> ELSE <<>>
      [] OTHER -> <<>>
\* A drawing kick draws exactly the primitive PRIM's kind makes of all the
\* vertices kicked since PRIM, those kicked without drawing included, each with
\* the attributes it was kicked under; nothing else draws.
PrimitiveOfKicks ==
    LET n == Len(gv_hist)
        want == IF gv_last = "kick" THEN Completes(n) ELSE <<>>
    IN  gv_drawn.vs = [i \in DOMAIN want |-> gv_hist[want[i]]]
=============================================================================
