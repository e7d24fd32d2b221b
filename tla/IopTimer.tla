------------------------------- MODULE IopTimer -------------------------------
(***************************************************************************)
(* One IOP root counter (bus.rs, IopTimer and its part of tick_timers).    *)
(* Unlike the EE's it has no latch: every pass of the target raises the    *)
(* reached-target flag again, and a wrap raises a flag of its own.         *)
(***************************************************************************)
EXTENDS Integers

CONSTANTS
    IopSize,      \* the count wraps here (2^16 or 2^32)
    IopClock,     \* clock selections in MODE
    IopPeriod     \* IopPeriod[r][k]: EE cycles per count under clock k

IopCount == 0 .. (IopSize - 1)

\* on: MODE is not 0; zret: zero return; tirq, oirq: the interrupt on target
\* and on overflow; target_hit, wrapped: the flags.
IopMode == [clk : IopClock, on : BOOLEAN, zret : BOOLEAN, tirq : BOOLEAN, oirq : BOOLEAN,
            target_hit : BOOLEAN, wrapped : BOOLEAN]

IopTimerType == [base : IopCount, base_cycle : Nat, mode : IopMode, target : IopCount,
                 last_check : Nat]

IopReset(k) == [base |-> 0, base_cycle |-> 0, target |-> 0, last_check |-> 0,
                mode |-> [clk |-> k, on |-> FALSE, zret |-> FALSE, tirq |-> FALSE,
                          oirq |-> FALSE, target_hit |-> FALSE, wrapped |-> FALSE]]

iop_cycles_per_tick(tm, r) == IopPeriod[r][tm.mode.clk]

Elapsed(a, b) == IF a >= b THEN a - b ELSE 0     \* saturating_sub

iop_count(tm, now, r) ==
    (tm.base + Elapsed(now, tm.base_cycle) \div iop_cycles_per_tick(tm, r)) % IopSize

iop_write_count(tm, v, now) == [tm EXCEPT !.base = v, !.base_cycle = now]
iop_write_mode(tm, m, now)  == [tm EXCEPT !.mode = m, !.base = 0, !.base_cycle = now,
                                          !.last_check = now]
iop_write_target(tm, v)     == [tm EXCEPT !.target = v]
iop_read_mode(tm)           == [tm EXCEPT !.mode.target_hit = FALSE, !.mode.wrapped = FALSE]

iop_rebase(tm, now, r) == [tm EXCEPT !.base = iop_count(tm, now, r), !.base_cycle = now]

\* The next cycle at which the timer reaches its target or wraps.
BadIopDue(tm, now, r) ==
    LET p        == iop_cycles_per_tick(tm, r)
        c        == iop_count(tm, now, r)
        to_target == IF tm.target = c THEN IopSize ELSE (tm.target - c) % IopSize
    IN now + to_target * p - (Elapsed(now, tm.base_cycle) % p)
BadIopDueWhole(tm, now, r) ==
    LET p         == iop_cycles_per_tick(tm, r)
        c         == iop_count(tm, now, r)
        to_target == IF tm.target = c THEN IopSize ELSE (tm.target - c) % IopSize
        to_wrap   == IopSize - c
    IN now + (IF to_target =< to_wrap THEN to_target ELSE to_wrap) * p
iop_due_at(tm, now, r) ==
    LET p         == iop_cycles_per_tick(tm, r)
        c         == iop_count(tm, now, r)
        to_target == IF tm.target = c THEN IopSize ELSE (tm.target - c) % IopSize
        to_wrap   == IopSize - c
        ticks     == IF to_target =< to_wrap THEN to_target ELSE to_wrap
    IN now + ticks * p - (Elapsed(now, tm.base_cycle) % p)

\* The pass of the target and the wrap since the last check.
BadIopCrossed(tm, now, r) ==
    LET before == iop_count(tm, tm.last_check, r)
        after  == iop_count(tm, now, r)
    IN /\ tm.mode.on /\ before # after
       /\ IF before =< after THEN before =< tm.target /\ tm.target =< after
          ELSE tm.target > before \/ tm.target =< after
iop_crossed(tm, now, r) ==
    LET before == iop_count(tm, tm.last_check, r)
        after  == iop_count(tm, now, r)
    IN /\ tm.mode.on /\ before # after
       /\ IF before =< after THEN before < tm.target /\ tm.target =< after
          ELSE tm.target > before \/ tm.target =< after

iop_wrapped(tm, now, r) ==
    tm.mode.on /\ iop_count(tm, now, r) < iop_count(tm, tm.last_check, r)

iop_fires(tm, now, r) ==
    \/ iop_crossed(tm, now, r) /\ tm.mode.tirq
    \/ iop_wrapped(tm, now, r) /\ tm.mode.oirq

iop_check(tm, now, r) ==
    IF ~tm.mode.on THEN tm
    ELSE LET hit  == iop_crossed(tm, now, r)
             zero == hit /\ tm.mode.zret
         IN [tm EXCEPT !.last_check = now,
                       !.mode.target_hit = @ \/ hit,
                       !.mode.wrapped = @ \/ iop_wrapped(tm, now, r),
                       !.base = IF zero THEN 0 ELSE @,
                       !.base_cycle = IF zero THEN now ELSE @]
=============================================================================
