------------------------------- MODULE GsInline -------------------------------
(***************************************************************************)
(* The GS front with the renderer on the calling thread: every call takes  *)
(* effect at once.  This is what the threaded front promises.              *)
(***************************************************************************)
EXTENDS GsRenderer

\* How the front is used: the calls the machine and the host make, the values
\* they draw with, whether frames are published (set_publish_frames, made once
\* before the machine runs), and a bound on the writes in the renderer's log.
CONSTANT Uses

VARIABLES
    use,              \* the one of this behaviour
    screen,           \* the renderer and the frame slot
    regs,             \* EE-visible registers
    internal_2x,      \* the front's copy of the switch
    answer,           \* what the last synchronous read returned
    saved             \* the last snapshot

inline == <<use, screen, regs, internal_2x, answer, saved>>

NoAnswer == [none |-> TRUE]

Init ==
    /\ use \in Uses
    /\ screen = BlankScreen /\ regs = ResetRegs
    /\ internal_2x = FALSE /\ answer = NoAnswer /\ saved = NoAnswer

\* The log of the renderer stays within the bound.
Room(n) == Len(screen.gs.drawn) + n =< use.writes

\* Drawing registers and HWREG words.
WriteReg ==
    /\ "draw" \in use.calls /\ Room(1)
    /\ \E w \in use.words : screen' = run_cmd(screen, Reg(w))
    /\ UNCHANGED <<use, regs, internal_2x, answer, saved>>

\* SIGNAL and FINISH are resolved in the front.
RaiseInt ==
    /\ "signal" \in use.calls
    /\ \E f \in {"SIGNAL", "FINISH"} : regs' = raise_int(regs, f)
    /\ UNCHANGED <<use, screen, internal_2x, answer, saved>>

PrivWrite ==
    /\ "display" \in use.calls
    /\ \E d \in Disp : /\ screen' = run_cmd(screen, Priv(d))
                       /\ regs' = [regs EXCEPT !.disp = d]
    /\ UNCHANGED <<use, internal_2x, answer, saved>>

\* CSR and IMR never reach the renderer.
CsrImrWrite ==
    /\ "csr" \in use.calls
    /\ \/ \E fs \in SUBSET Flag : regs' = csr_write(regs, fs) \/ regs' = imr_write(regs, fs)
       \/ regs' = csr_reset(regs)
    /\ UNCHANGED <<use, screen, internal_2x, answer, saved>>

\* The bus folds the edge into INTC (gs_sync_int).
TakeInt ==
    /\ regs.intc_pending
    /\ regs' = [regs EXCEPT !.intc_pending = FALSE]
    /\ UNCHANGED <<use, screen, internal_2x, answer, saved>>

VerticalBlank ==
    /\ "vblank" \in use.calls
    /\ regs' = vblank_regs(regs)
    /\ screen' = IF use.publish THEN run_cmd(screen, Vblank(OddRows(regs'))) ELSE screen
    /\ UNCHANGED <<use, internal_2x, answer, saved>>

SetInternal2x ==
    /\ "2x" \in use.calls
    /\ internal_2x' = ~internal_2x
    /\ screen' = run_cmd(screen, Internal2x(internal_2x'))
    /\ UNCHANGED <<use, regs, answer, saved>>

\* framebuffer, vram, stats
Read ==
    /\ "read" \in use.calls
    /\ answer' = screen.gs
    /\ UNCHANGED <<use, screen, regs, internal_2x, saved>>

Snapshot ==
    /\ "snapshot" \in use.calls
    /\ saved' = [renderer |-> screen.gs, regs |-> regs, internal_2x |-> internal_2x]
    /\ UNCHANGED <<use, screen, regs, internal_2x, answer>>

\* A state file: the last snapshot, or that snapshot with a renderer blob that
\* does not decode.  The decode comes first.
RestoreState ==
    /\ "restore" \in use.calls /\ saved # NoAnswer
    /\ screen' = run_cmd(screen, Restore(saved.renderer))
    /\ regs' = saved.regs
    /\ internal_2x' = saved.internal_2x
    /\ UNCHANGED <<use, answer, saved>>

RejectState == "reject" \in use.calls /\ saved # NoAnswer /\ UNCHANGED inline

\* Power cycle: a fresh renderer, told about the overlay again.
Reset ==
    /\ "reset" \in use.calls
    /\ regs' = ResetRegs
    /\ screen' = IF internal_2x THEN run_cmd(run_cmd(screen, ResetCmd), Internal2x(TRUE))
                 ELSE run_cmd(screen, ResetCmd)
    /\ UNCHANGED <<use, internal_2x, answer, saved>>

Next ==
    \/ WriteReg \/ RaiseInt \/ PrivWrite \/ CsrImrWrite \/ TakeInt
    \/ VerticalBlank \/ SetInternal2x
    \/ Read \/ Snapshot \/ RestoreState \/ RejectState \/ Reset

Spec == Init /\ [][Next]_inline
=============================================================================
