------------------------------- MODULE EeTimer -------------------------------
(***************************************************************************)
(* One EE timer (timers.rs): a 16-bit count that is never ticked but       *)
(* reconstructed from the cycle at which it was last written.  HOLD is not *)
(* modelled: it is stored and read back.                                   *)
(***************************************************************************)
EXTENDS Integers

CONSTANTS
    Size,        \* COUNT wraps at Size (2^16)
    Clock,       \* values of MODE.CLKS
    EePeriod     \* EePeriod[r][k]: EE cycles per count under clock k

Count16 == 0 .. (Size - 1)

EeMode == [clk : Clock, cue : BOOLEAN, cmpe : BOOLEAN, zret : BOOLEAN, equf : BOOLEAN]

EeTimerType == [base : Count16, base_cycle : Nat, mode : EeMode, comp : Count16,
                last_check : Nat]

EeReset(k) == [base |-> 0, base_cycle |-> 0, comp |-> 0, last_check |-> 0,
               mode |-> [clk |-> k, cue |-> FALSE, cmpe |-> FALSE, zret |-> FALSE,
                         equf |-> FALSE]]

cycles_per_tick(tm, r) == EePeriod[r][tm.mode.clk]

\* saturating_sub
Since(a, b) == IF a >= b THEN a - b ELSE 0

BadCountEarly(tm, now, r) ==
    (tm.base + (Since(now, tm.base_cycle) + 1) \div cycles_per_tick(tm, r)) % Size
count(tm, now, r) ==
    (tm.base + Since(now, tm.base_cycle) \div cycles_per_tick(tm, r)) % Size

\* Writes: COUNT restarts the count, MODE zeroes it and clears the equal flag
\* where the written bit is set, COMP moves the compare value.
write_count(tm, v, now) == [tm EXCEPT !.base = v, !.base_cycle = now]
write_mode(tm, m, now) ==
    [tm EXCEPT !.mode = [m EXCEPT !.equf = tm.mode.equf /\ ~m.equf],
               !.base = 0, !.base_cycle = now, !.last_check = now]
write_comp(tm, v) == [tm EXCEPT !.comp = v]

BadRebase(tm, now, r) == [tm EXCEPT !.base_cycle = now]
BadRebaseWide(tm, now, r) ==
    [tm EXCEPT !.base = @ + Since(now, tm.base_cycle) \div cycles_per_tick(tm, r),
               !.base_cycle = now]
rebase(tm, now, r) == [tm EXCEPT !.base = count(tm, now, r), !.base_cycle = now]

Live(tm) == tm.mode.cue /\ ~tm.mode.equf

\* The cycles, none or one, at which the timer can next reach COMP.
BadDue(tm, now, r) ==
    IF ~Live(tm) THEN {}
    ELSE LET p     == cycles_per_tick(tm, r)
             ticks == (tm.comp - count(tm, now, r)) % Size
         IN {now + (IF ticks = 0 THEN Size ELSE ticks) * p}
due_at(tm, now, r) ==
    IF ~Live(tm) THEN {}
    ELSE LET p     == cycles_per_tick(tm, r)
             ticks == (tm.comp - count(tm, now, r)) % Size
             phase == Since(now, tm.base_cycle) % p
         IN {now + (IF ticks = 0 THEN Size ELSE ticks) * p - phase}

\* check_irqs: did COUNT pass COMP since the last check?
BadCrossed(tm, now, r) ==
    LET before == count(tm, tm.last_check, r)
        after  == count(tm, now, r)
    IN Live(tm) /\ before < tm.comp /\ tm.comp =< after
crossed(tm, now, r) ==
    LET before == count(tm, tm.last_check, r)
        after  == count(tm, now, r)
    IN Live(tm) /\ (IF before =< after THEN before < tm.comp /\ tm.comp =< after
                    ELSE tm.comp > before \/ tm.comp =< after)

check(tm, now, r) ==
    IF ~Live(tm) THEN tm
    ELSE IF ~crossed(tm, now, r) THEN [tm EXCEPT !.last_check = now]
    ELSE [tm EXCEPT !.last_check = now, !.mode.equf = TRUE,
                    !.base = IF tm.mode.zret THEN 0 ELSE @,
                    !.base_cycle = IF tm.mode.zret THEN now ELSE @]
=============================================================================
