----------------------------- MODULE EagerCounter -----------------------------
(***************************************************************************)
(* What a timer promises to software that reads it: a counter with a       *)
(* prescaler, as the hardware builds it.  It steps when the prescaler runs *)
(* out; a load or a change of rate restarts the prescaler.                 *)
(***************************************************************************)
EXTENDS Integers

CONSTANTS Width,      \* the counter counts modulo Width
          Rates       \* the prescaler lengths it may be given

VARIABLES now, value, phase, period

counter == <<now, value, phase, period>>

Init == now = 0 /\ value \in 0 .. (Width - 1) /\ phase = 0 /\ period \in Rates

\* One cycle passes.
Step ==
    /\ IF phase + 1 = period
       THEN value' = (value + 1) % Width /\ phase' = 0
       ELSE phase' = phase + 1 /\ UNCHANGED value
    /\ now' = now + 1 /\ UNCHANGED period

\* Between two cycles software loads a count (MODE writes and the zero return
\* load zero) or the rate changes under it.
Load == /\ value' \in 0 .. (Width - 1) /\ phase' = 0 /\ period' \in Rates
        /\ UNCHANGED now

Next == Step \/ Load

Spec == Init /\ [][Next]_counter
=============================================================================
