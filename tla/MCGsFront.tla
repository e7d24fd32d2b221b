------------------------------ MODULE MCGsFront ------------------------------
(***************************************************************************)
(* Small instances of GsFront: batches, runs and a channel of one or two   *)
(* entries, so that each fills while the others hold something.  A use     *)
(* puts together the calls whose orders matter to each other.              *)
(***************************************************************************)
EXTENDS GsFront

MCUse(cs, ws, n, p) == [calls |-> cs, words |-> ws, writes |-> n, publish |-> p]

\* The order of the pipeline, with frames and reads; states and power cycles,
\* against the 2x switch and against the display registers; the EE-visible
\* registers with publishing off.
SafetyUses ==
    { MCUse({"draw", "vblank", "read", "drop"}, Word, 2, TRUE),
      MCUse({"draw", "2x", "snapshot", "restore", "reset"}, {"a"}, 2, TRUE),
      MCUse({"draw", "display", "snapshot", "restore", "reset"}, {"a"}, 1, TRUE),
      MCUse({"draw", "signal", "csr", "vblank"}, {"a"}, 1, FALSE) }

\* Calls that block or defer, with vertical blanks among them.
ProgressUses ==
    { MCUse({"draw", "vblank", "read", "2x", "drop"}, {"a"}, 2, FALSE),
      MCUse({"draw", "vblank", "snapshot", "reject", "reset", "drop"}, {"a"}, 1, FALSE) }

AllUses == SafetyUses \cup ProgressUses

\* A load of a state whose renderer does not decode.
RejectUses == { MCUse({"draw", "display", "snapshot", "reject"}, Word, 3, TRUE) }
=============================================================================
