------------------------------ MODULE GsRenderer ------------------------------
(***************************************************************************)
(* The renderer behind the GS front (gs/front.rs, run_cmd) and the         *)
(* EE-visible registers both fronts share.  The rasterizer is abstracted   *)
(* to a log: what has been drawn is the sequence of register writes since  *)
(* the renderer was blank, so two renderers are equal only if they         *)
(* executed the same writes in the same order.                             *)
(***************************************************************************)
EXTENDS Naturals, Sequences

CONSTANTS
    Word,          \* values of drawing registers and of HWREG words
    Disp, Disp0,   \* values of the display registers, and their reset value
    Corrupt        \* a renderer blob that does not decode

Flag == {"SIGNAL", "FINISH", "VSINT"}

\* The renderer: VRAM and the drawing state, the display registers, whether
\* the internal-2x overlay is on.
RendererType == [drawn : Seq(Word), disp : Disp, twox : BOOLEAN]
Blank == [drawn |-> <<>>, disp |-> Disp0, twox |-> FALSE]

NoFrame == [none |-> TRUE]

\* A blob that does not decode is not the state of a renderer.
ASSUME RendererAssumption == Disp0 \in Disp /\ Corrupt \notin RendererType

\* With the frame slot it publishes composites to.
ScreenType == [gs : RendererType,
               latest : {NoFrame} \cup [view : RendererType, odd : BOOLEAN]]
BlankScreen == [gs |-> Blank, latest |-> NoFrame]

Reg(w)        == [kind |-> "reg", word |-> w]
Image(ws)     == [kind |-> "image", words |-> ws]
Priv(d)       == [kind |-> "priv", disp |-> d]
Vblank(odd)   == [kind |-> "vblank", odd |-> odd]
Reply         == [kind |-> "reply"]
Internal2x(b) == [kind |-> "2x", on |-> b]
Restore(s)    == [kind |-> "restore", state |-> s]
ResetCmd      == [kind |-> "reset"]

\* Execute one command; a reply leaves the renderer alone, a blob that does
\* not decode is dropped.
run_cmd(s, c) ==
    CASE c.kind = "reg"     -> [s EXCEPT !.gs.drawn = Append(@, c.word)]
      [] c.kind = "image"   -> [s EXCEPT !.gs.drawn = @ \o c.words]
      [] c.kind = "priv"    -> [s EXCEPT !.gs.disp = c.disp]
      [] c.kind = "2x"      -> [s EXCEPT !.gs.twox = c.on]
      [] c.kind = "vblank"  -> [s EXCEPT !.latest = [view |-> s.gs, odd |-> c.odd]]
      [] c.kind = "reset"   -> [s EXCEPT !.gs = Blank]
      [] c.kind = "restore" -> IF c.state = Corrupt THEN s ELSE [s EXCEPT !.gs = c.state]
      [] c.kind = "reply"   -> s

-----------------------------------------------------------------------------
(***************************************************************************)
(* The registers the EE reads: CSR flags and field, IMR (the masked        *)
(* flags), the display registers, and the edge into INTC.                  *)
(***************************************************************************)
RegsType == [csr : SUBSET Flag, field : BOOLEAN, imr : SUBSET Flag, disp : Disp,
             intc_pending : BOOLEAN]

ResetRegs == [csr |-> {}, field |-> FALSE, imr |-> Flag, disp |-> Disp0,
              intc_pending |-> FALSE]

raise_int(r, f) ==
    [r EXCEPT !.csr = @ \cup {f}, !.intc_pending = @ \/ (f \notin r.csr \cup r.imr)]

csr_write(r, fs)  == [r EXCEPT !.csr = @ \ fs]
csr_reset(r)      == [r EXCEPT !.csr = {}, !.field = FALSE]
imr_write(r, fs)  == [r EXCEPT !.imr = fs]
vblank_regs(r)    == raise_int([r EXCEPT !.field = ~@], "VSINT")

\* Which rows the field lands on (swap_fields off).
OddRows(r) == ~r.field
=============================================================================
