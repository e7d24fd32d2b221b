-------------------------- MODULE TickTimers_proofs --------------------------
(***************************************************************************)
(* Proofs about the periodic tick, for every width, period, grid and       *)
(* program: no count leaves its width and no time its range; a change of   *)
(* region moves no count; what is due is served at its grid cycle; the     *)
(* flags are those of the values the counters passed.                      *)
(*                                                                         *)
(* Timeliness rests on Awaited: the due time is past no event that waits,  *)
(* and the clock past no grid cycle of one.  Exactness rests on the tick   *)
(* coming round before a counter does.                                     *)
(***************************************************************************)
EXTENDS TickTimers, TLAPS

(***************************************************************************)
(* Arithmetic.                                                             *)
(***************************************************************************)
LEMMA ModRange ==
    ASSUME NEW a \in Nat, NEW b \in Nat \ {0}
    PROVE  a % b \in 0 .. (b - 1) /\ a % b =< a
  OBVIOUS

LEMMA DivNat ==
    ASSUME NEW a \in Nat, NEW b \in Nat \ {0}
    PROVE  a \div b \in Nat
  OBVIOUS

\* A value inside the width is its own remainder.
LEMMA ModSmall ==
    ASSUME NEW b \in Nat \ {0}, NEW a \in 0 .. (b - 1)
    PROVE  a % b = a
  OBVIOUS

LEMMA ZeroDiv ==
    ASSUME NEW b \in Nat \ {0}
    PROVE  0 \div b = 0
  OBVIOUS

(***************************************************************************)
(* One EE timer.                                                           *)
(***************************************************************************)
\* The count is inside its width whatever has elapsed.
LEMMA EeCountRange ==
    ASSUME NEW tm \in EeTimerType, NEW c \in Nat, NEW r \in Region
    PROVE  count(tm, c, r) \in Count16
  <1>1. cycles_per_tick(tm, r) \in Nat \ {0}
    BY TimerAssumption DEF cycles_per_tick, EeTimerType, EeMode
  <1>2. Since(c, tm.base_cycle) \in Nat /\ tm.base \in Nat
    BY DEF Since, EeTimerType, Count16
  <1>3. Since(c, tm.base_cycle) \div cycles_per_tick(tm, r) \in Nat
    BY <1>1, <1>2, DivNat
  <1>4. tm.base + Since(c, tm.base_cycle) \div cycles_per_tick(tm, r) \in Nat
    BY <1>2, <1>3
  <1> QED
    BY <1>4, TimerAssumption, ModRange DEF count, Count16

\* Restarting a count where it stands shows the same count, at any rate.
LEMMA EeRebase ==
    ASSUME NEW tm \in EeTimerType, NEW c \in Nat, NEW r \in Region, NEW s \in Region
    PROVE  /\ rebase(tm, c, r) \in EeTimerType
           /\ count(rebase(tm, c, r), c, s) = count(tm, c, r)
  <1> DEFINE new == rebase(tm, c, r)
  <1>1. count(tm, c, r) \in Count16
    BY EeCountRange
  <1>2. new \in EeTimerType
    BY <1>1 DEF rebase, EeTimerType
  <1>3. new.base = count(tm, c, r) /\ new.base_cycle = c
    BY DEF rebase, EeTimerType
  <1>4. cycles_per_tick(new, s) \in Nat \ {0}
    BY <1>2, TimerAssumption DEF cycles_per_tick, EeTimerType, EeMode
  <1>5. Since(c, new.base_cycle) = 0
    BY <1>3 DEF Since
  <1>6. count(new, c, s) = (new.base + 0 \div cycles_per_tick(new, s)) % Size
    BY <1>5 DEF count
  <1>7. count(new, c, s) = count(tm, c, r) % Size
    BY <1>1, <1>3, <1>4, <1>6, ZeroDiv DEF Count16
  <1> QED
    BY <1>1, <1>2, <1>7, TimerAssumption, ModSmall DEF Count16

\* Writes and the check keep the shape of a timer.
LEMMA EeWriteTypes ==
    ASSUME NEW tm \in EeTimerType, NEW c \in Nat, NEW r \in Region
    PROVE  /\ \A v \in Count16 : write_count(tm, v, c) \in EeTimerType
           /\ \A v \in Count16 : write_comp(tm, v) \in EeTimerType
           /\ \A m \in EeMode : write_mode(tm, m, c) \in EeTimerType
           /\ check(tm, c, r) \in EeTimerType
  <1>0. 0 \in Count16
    BY TimerAssumption DEF Count16
  <1>1. \A v \in Count16 : write_count(tm, v, c) \in EeTimerType
    BY DEF write_count, EeTimerType
  <1>2. \A v \in Count16 : write_comp(tm, v) \in EeTimerType
    BY DEF write_comp, EeTimerType
  <1>3. ASSUME NEW m \in EeMode PROVE write_mode(tm, m, c) \in EeTimerType
    <2>1. [m EXCEPT !.equf = tm.mode.equf /\ ~m.equf] \in EeMode
      BY DEF EeMode
    <2> QED
      BY <1>0, <2>1 DEF write_mode, EeTimerType
  <1>4. check(tm, c, r) \in EeTimerType
    <2>1. [tm.mode EXCEPT !.equf = TRUE] \in EeMode
      BY DEF EeTimerType, EeMode
    <2> QED
      BY <1>0, <2>1 DEF check, EeTimerType
  <1> QED
    BY <1>1, <1>2, <1>3, <1>4

\* The time of the next compare, if there is one, is a number.
LEMMA EeDue ==
    ASSUME NEW tm \in EeTimerType, NEW c \in Nat, NEW r \in Region
    PROVE  due_at(tm, c, r) \subseteq Int
  <1>1. cycles_per_tick(tm, r) \in Nat \ {0} /\ tm.comp \in Int
    BY TimerAssumption DEF cycles_per_tick, EeTimerType, EeMode, Count16
  <1>2. count(tm, c, r) \in Int /\ Since(c, tm.base_cycle) \in Nat
    BY EeCountRange DEF Count16, Since, EeTimerType
  <1>3. Since(c, tm.base_cycle) % cycles_per_tick(tm, r) \in Int
    BY <1>1, <1>2, ModRange
  <1>4. (tm.comp - count(tm, c, r)) % Size \in Int
    <2>1. \A a \in Int : a % Size \in Int
      BY TimerAssumption
    <2> QED
      BY <1>1, <1>2, <2>1
  <1>5. \A a, b \in Int : a * b \in Int
    OBVIOUS
  <1>6. \A x, p, f \in Int : c + (IF x = 0 THEN Size ELSE x) * p - f \in Int
    BY <1>5, TimerAssumption
  <1>7. CASE Live(tm)
    <2> DEFINE x == (tm.comp - count(tm, c, r)) % Size
               p == cycles_per_tick(tm, r)
               f == Since(c, tm.base_cycle) % p
    <2>1. due_at(tm, c, r) = {c + (IF x = 0 THEN Size ELSE x) * p - f}
      BY <1>7 DEF due_at
    <2>2. x \in Int /\ p \in Int /\ f \in Int
      BY <1>1, <1>3, <1>4
    <2> HIDE DEF x, p, f
    <2> QED
      BY <1>6, <2>1, <2>2
  <1>8. CASE ~Live(tm)
    BY <1>8 DEF due_at
  <1> QED
    BY <1>7, <1>8

(***************************************************************************)
(* One IOP timer.                                                          *)
(***************************************************************************)
LEMMA IopCountRange ==
    ASSUME NEW tm \in IopTimerType, NEW c \in Nat, NEW r \in Region
    PROVE  iop_count(tm, c, r) \in IopCount
  <1>1. iop_cycles_per_tick(tm, r) \in Nat \ {0}
    BY TimerAssumption DEF iop_cycles_per_tick, IopTimerType, IopMode
  <1>2. Elapsed(c, tm.base_cycle) \in Nat /\ tm.base \in Nat
    BY DEF Elapsed, IopTimerType, IopCount
  <1>3. Elapsed(c, tm.base_cycle) \div iop_cycles_per_tick(tm, r) \in Nat
    BY <1>1, <1>2, DivNat
  <1>4. tm.base + Elapsed(c, tm.base_cycle) \div iop_cycles_per_tick(tm, r) \in Nat
    BY <1>2, <1>3
  <1> QED
    BY <1>4, TimerAssumption, ModRange DEF iop_count, IopCount

LEMMA IopRebase ==
    ASSUME NEW tm \in IopTimerType, NEW c \in Nat, NEW r \in Region, NEW s \in Region
    PROVE  /\ iop_rebase(tm, c, r) \in IopTimerType
           /\ iop_count(iop_rebase(tm, c, r), c, s) = iop_count(tm, c, r)
  <1> DEFINE new == iop_rebase(tm, c, r)
  <1>1. iop_count(tm, c, r) \in IopCount
    BY IopCountRange
  <1>2. new \in IopTimerType
    BY <1>1 DEF iop_rebase, IopTimerType
  <1>3. new.base = iop_count(tm, c, r) /\ new.base_cycle = c
    BY DEF iop_rebase, IopTimerType
  <1>4. iop_cycles_per_tick(new, s) \in Nat \ {0}
    BY <1>2, TimerAssumption DEF iop_cycles_per_tick, IopTimerType, IopMode
  <1>5. Elapsed(c, new.base_cycle) = 0
    BY <1>3 DEF Elapsed
  <1>6. iop_count(new, c, s) = (new.base + 0 \div iop_cycles_per_tick(new, s)) % IopSize
    BY <1>5 DEF iop_count
  <1>7. iop_count(new, c, s) = iop_count(tm, c, r) % IopSize
    BY <1>1, <1>3, <1>4, <1>6, ZeroDiv DEF IopCount
  <1> QED
    BY <1>1, <1>2, <1>7, TimerAssumption, ModSmall DEF IopCount

LEMMA IopWriteTypes ==
    ASSUME NEW tm \in IopTimerType, NEW c \in Nat, NEW r \in Region
    PROVE  /\ \A v \in IopCount : iop_write_count(tm, v, c) \in IopTimerType
           /\ \A v \in IopCount : iop_write_target(tm, v) \in IopTimerType
           /\ \A m \in IopMode : iop_write_mode(tm, m, c) \in IopTimerType
           /\ iop_read_mode(tm) \in IopTimerType
           /\ iop_check(tm, c, r) \in IopTimerType
  <1>0. 0 \in IopCount
    BY TimerAssumption DEF IopCount
  <1>1. \A v \in IopCount : iop_write_count(tm, v, c) \in IopTimerType
    BY DEF iop_write_count, IopTimerType
  <1>2. \A v \in IopCount : iop_write_target(tm, v) \in IopTimerType
    BY DEF iop_write_target, IopTimerType
  <1>3. \A m \in IopMode : iop_write_mode(tm, m, c) \in IopTimerType
    BY <1>0 DEF iop_write_mode, IopTimerType
  <1>4. iop_read_mode(tm) \in IopTimerType
    BY DEF iop_read_mode, IopTimerType, IopMode
  <1>5. iop_check(tm, c, r) \in IopTimerType
    <2> DEFINE hit  == iop_crossed(tm, c, r)
               wrap == iop_wrapped(tm, c, r)
               hits == tm.mode.target_hit \/ hit
               wraps == tm.mode.wrapped \/ wrap
               mode == [tm.mode EXCEPT !.target_hit = hits, !.wrapped = wraps]
               zero == hit /\ tm.mode.zret
    <2>1. hits \in BOOLEAN /\ wraps \in BOOLEAN
      OBVIOUS
    <2>2. mode \in IopMode
      <3> HIDE DEF hits, wraps
      <3> QED  BY <2>1 DEF IopTimerType, IopMode
    <2>3. CASE tm.mode.on
      <3>1. iop_check(tm, c, r) =
              [tm EXCEPT !.last_check = c, !.mode = mode,
                         !.base = IF zero THEN 0 ELSE tm.base,
                         !.base_cycle = IF zero THEN c ELSE tm.base_cycle]
        BY <2>3 DEF iop_check, IopTimerType, IopMode
      <3> HIDE DEF mode, zero
      <3> QED
        BY <1>0, <2>2, <3>1 DEF IopTimerType
    <2>4. CASE ~tm.mode.on
      BY <2>4 DEF iop_check
    <2> QED
      BY <2>3, <2>4
  <1> QED
    BY <1>1, <1>2, <1>3, <1>4, <1>5

LEMMA IopDue ==
    ASSUME NEW tm \in IopTimerType, NEW c \in Nat, NEW r \in Region
    PROVE  iop_due_at(tm, c, r) \in Int
  <1> DEFINE p         == iop_cycles_per_tick(tm, r)
             n         == iop_count(tm, c, r)
             to_target == IF tm.target = n THEN IopSize ELSE (tm.target - n) % IopSize
             to_wrap   == IopSize - n
             ticks     == IF to_target =< to_wrap THEN to_target ELSE to_wrap
             f         == Elapsed(c, tm.base_cycle) % p
  <1>1. p \in Nat \ {0} /\ tm.target \in Int
    BY TimerAssumption DEF iop_cycles_per_tick, IopTimerType, IopMode, IopCount
  <1>2. n \in Int /\ Elapsed(c, tm.base_cycle) \in Nat
    BY IopCountRange DEF IopCount, Elapsed, IopTimerType
  <1>3. f \in Int
    BY <1>1, <1>2, ModRange
  <1>4. \A a \in Int : a % IopSize \in Int
    BY TimerAssumption
  <1>5. to_target \in Int /\ to_wrap \in Int
    BY <1>1, <1>2, <1>4, TimerAssumption
  <1>6. \A a, b, d \in Int : c + a * b - d \in Int
    OBVIOUS
  <1>7. iop_due_at(tm, c, r) = c + ticks * p - f
    BY DEF iop_due_at
  <1>8. ticks \in Int
    <2> HIDE DEF to_target, to_wrap
    <2> QED  BY <1>5
  <1> HIDE DEF p, f, ticks
  <1> QED
    BY <1>1, <1>3, <1>6, <1>7, <1>8

(***************************************************************************)
(* The invariant.                                                          *)
(***************************************************************************)
LEMMA UseFacts ==
    ASSUME TypeOK
    PROVE  /\ EeTimers = Does.ee_timers /\ IopTimers = Does.iop_timers
           /\ Does.ee_modes \subseteq EeMode /\ Does.iop_modes \subseteq IopMode
           /\ Does.values \subseteq Count16 \cap IopCount /\ Does.until \in Nat
  BY TimerAssumption DEF TypeOK, TimeOK, TimersOK, Does, EeTimers, IopTimers

\* The next due time is taken among numbers.
LEMMA EventsAreTimes ==
    ASSUME NEW c \in Nat, NEW r \in Region, c = now, r = region,
           iop_timers \in [Does.iop_timers -> IopTimerType],
           NEW ees \in [EeTimers -> EeTimerType],
           NEW queue, queue \subseteq Channel \X Nat,
           NEW drive \in Times, NEW sample \in Nat, NEW spu \in [Core -> Times]
    PROVE  NextEvents(ees, queue, drive, sample, spu) \subseteq Int
  <1>1. \A t \in EeTimers : due_at(ees[t], now, region) \subseteq Int
    BY EeDue
  <1>2. \A t \in IopTimers : iop_due_at(iop_timers[t], now, region) \in Int
    BY IopDue DEF IopTimers
  <1>3. {q[2] : q \in queue} \subseteq Int
    <2>1. \A q \in Channel \X Nat : q[2] \in Int
      OBVIOUS
    <2> QED
      BY <2>1
  <1>4. Times \subseteq Int
    BY DEF Times, Never
  <1>5. now + MAX_TICK_GAP \in Int /\ sample + SAMPLE_CYCLES \in Int
    BY TimerAssumption
  <1> DEFINE A == UNION {due_at(ees[t], now, region) : t \in EeTimers}
             B == {iop_due_at(iop_timers[t], now, region) :
                     t \in {u \in IopTimers : iop_timers[u].mode.on}}
             C == {q[2] : q \in queue}
             D == {d \in {drive} : d # Never}
             E == {d \in {spu[x] : x \in Core} : d # Never}
             F == {now + MAX_TICK_GAP, sample + SAMPLE_CYCLES}
  <1>6. A \subseteq Int
    BY <1>1
  <1>7. B \subseteq Int
    BY <1>2
  <1>8. C \subseteq Int /\ D \subseteq Int /\ E \subseteq Int /\ F \subseteq Int
    BY <1>3, <1>4, <1>5
  <1>9. NextEvents(ees, queue, drive, sample, spu) = A \cup B \cup C \cup D \cup E \cup F
    BY DEF NextEvents
  <1> HIDE DEF A, B, C, D, E, F
  <1> QED
    BY <1>6, <1>7, <1>8, <1>9

LEMMA InitTypes == Init => TypeOK
  <1> SUFFICES ASSUME Init PROVE TypeOK
    OBVIOUS
  <1>1. 0 \in Count16 /\ 0 \in IopCount /\ 0 \in Nat
    BY TimerAssumption DEF Count16, IopCount
  <1>2. EeReset(ResetClock) \in EeTimerType
    BY <1>1, TimerAssumption DEF EeReset, EeTimerType, EeMode
  <1>3. IopReset(IopResetClock) \in IopTimerType
    BY <1>1, TimerAssumption DEF IopReset, IopTimerType, IopMode
  <1>4. Never \in Times
    BY DEF Times
  <1>5. TimeOK /\ TimersOK
    BY <1>1, <1>2, <1>3 DEF Init, TimeOK, TimersOK
  <1>6. PendingOK /\ RaisedOK /\ HistoryOK
    BY <1>1, <1>4 DEF Init, PendingOK, RaisedOK, HistoryOK
  <1> QED
    BY <1>5, <1>6 DEF TypeOK

LEMMA EeWriteOK ==
    ASSUME TypeOK, NEW t \in EeTimers, EeWrite(t)
    PROVE  TypeOK'
  <1>1. t \in Does.ee_timers /\ ee_timers[t] \in EeTimerType /\ now \in Nat
    BY UseFacts DEF TypeOK, TimeOK, TimersOK
  <1>2. Does' = Does /\ use' = use
    BY DEF EeWrite, Software, Does
  <1>3. TimeOK'
    BY <1>2 DEF EeWrite, Software, time, reschedule, TypeOK, TimeOK
  <1>4. \A x \in EeTimerType :
           [ee_timers EXCEPT ![t] = x] \in [Does.ee_timers -> EeTimerType]
    BY <1>1 DEF TypeOK, TimersOK
  <1>5. ee_timers' \in [Does.ee_timers -> EeTimerType]
    <2>0. region \in Region
      BY DEF TypeOK, TimeOK
    <2>1. ASSUME NEW v \in Does.values,
                 \/ ee_timers' = [ee_timers EXCEPT ![t] = write_count(@, v, now)]
                 \/ ee_timers' = [ee_timers EXCEPT ![t] = write_comp(@, v)]
          PROVE  ee_timers' \in [Does.ee_timers -> EeTimerType]
      <3>1. write_count(ee_timers[t], v, now) \in EeTimerType
            /\ write_comp(ee_timers[t], v) \in EeTimerType
        BY <1>1, <2>0, UseFacts, EeWriteTypes
      <3> QED
        BY <1>4, <2>1, <3>1
    <2>2. ASSUME NEW m \in Does.ee_modes,
                 ee_timers' = [ee_timers EXCEPT ![t] = write_mode(@, m, now)]
          PROVE  ee_timers' \in [Does.ee_timers -> EeTimerType]
      <3>1. write_mode(ee_timers[t], m, now) \in EeTimerType
        BY <1>1, <2>0, UseFacts, EeWriteTypes
      <3> QED
        BY <1>4, <2>2, <3>1
    <2> QED
      BY <2>1, <2>2 DEF EeWrite
  <1>6. TimersOK'
    BY <1>2, <1>5 DEF EeWrite, TypeOK, TimersOK
  <1>7. PendingOK' /\ RaisedOK'
    BY <1>2 DEF EeWrite, pending, raised, TypeOK, PendingOK, RaisedOK
  <1>8. HistoryOK'
    BY <1>2 DEF EeWrite, TypeOK, HistoryOK, Times
  <1> QED
    BY <1>3, <1>6, <1>7, <1>8 DEF TypeOK

LEMMA IopWriteOK ==
    ASSUME TypeOK, NEW t \in IopTimers, IopWrite(t) \/ IopReadMode(t)
    PROVE  TypeOK'
  <1>1. t \in Does.iop_timers /\ iop_timers[t] \in IopTimerType /\ now \in Nat
    BY UseFacts DEF TypeOK, TimeOK, TimersOK
  <1>2. Does' = Does /\ use' = use
    BY DEF IopWrite, IopReadMode, Software, Does
  <1>3. TimeOK'
    BY <1>2 DEF IopWrite, IopReadMode, Software, time, reschedule, TypeOK, TimeOK
  <1>4. \A x \in IopTimerType :
           [iop_timers EXCEPT ![t] = x] \in [Does.iop_timers -> IopTimerType]
    BY <1>1 DEF TypeOK, TimersOK
  <1>5. iop_timers' \in [Does.iop_timers -> IopTimerType]
    <2>0. region \in Region
      BY DEF TypeOK, TimeOK
    <2>1. ASSUME NEW v \in Does.values,
                 \/ iop_timers' = [iop_timers EXCEPT ![t] = iop_write_count(@, v, now)]
                 \/ iop_timers' = [iop_timers EXCEPT ![t] = iop_write_target(@, v)]
          PROVE  iop_timers' \in [Does.iop_timers -> IopTimerType]
      <3>1. iop_write_count(iop_timers[t], v, now) \in IopTimerType
            /\ iop_write_target(iop_timers[t], v) \in IopTimerType
        BY <1>1, <2>0, UseFacts, IopWriteTypes
      <3> QED
        BY <1>4, <2>1, <3>1
    <2>2. ASSUME NEW m \in Does.iop_modes,
                 iop_timers' = [iop_timers EXCEPT ![t] = iop_write_mode(@, m, now)]
          PROVE  iop_timers' \in [Does.iop_timers -> IopTimerType]
      <3>1. iop_write_mode(iop_timers[t], m, now) \in IopTimerType
        BY <1>1, <2>0, UseFacts, IopWriteTypes
      <3> QED
        BY <1>4, <2>2, <3>1
    <2>3. ASSUME IopReadMode(t)
          PROVE  iop_timers' \in [Does.iop_timers -> IopTimerType]
      <3>1. iop_read_mode(iop_timers[t]) \in IopTimerType
        BY <1>1, <2>0, IopWriteTypes
      <3> QED
        BY <1>4, <2>3, <3>1 DEF IopReadMode
    <2> QED
      BY <2>1, <2>2, <2>3 DEF IopWrite
  <1>6. TimersOK'
    BY <1>2, <1>5 DEF IopWrite, IopReadMode, TypeOK, TimersOK
  <1>7. PendingOK' /\ RaisedOK'
    BY <1>2 DEF IopWrite, IopReadMode, pending, raised, TypeOK, PendingOK, RaisedOK
  <1>8. HistoryOK'
    BY <1>2 DEF IopWrite, IopReadMode, history, TypeOK, HistoryOK, Times
  <1> QED
    BY <1>3, <1>6, <1>7, <1>8 DEF TypeOK

LEMMA SetRegionOK ==
    ASSUME TypeOK, SetRegion
    PROVE  TypeOK'
  <1>1. Does' = Does /\ use' = use
    BY DEF SetRegion, Software, Does
  <1>2. TimeOK'
    BY <1>1 DEF SetRegion, Software, time, TypeOK, TimeOK
  <1>3. now \in Nat /\ region \in Region
    BY DEF TypeOK, TimeOK
  <1>4. \A t \in EeTimers : rebase(ee_timers[t], now, region) \in EeTimerType
    BY <1>3, UseFacts, EeRebase DEF TypeOK, TimersOK
  <1>5. \A t \in IopTimers : iop_rebase(iop_timers[t], now, region) \in IopTimerType
    BY <1>3, UseFacts, IopRebase DEF TypeOK, TimersOK
  <1>6. TimersOK'
    BY <1>1, <1>4, <1>5, UseFacts DEF SetRegion, TimersOK
  <1>7. PendingOK' /\ RaisedOK' /\ HistoryOK'
    BY <1>1 DEF SetRegion, pending, raised, history, TypeOK, PendingOK, RaisedOK, HistoryOK
  <1> QED
    BY <1>2, <1>6, <1>7 DEF TypeOK

\* The rest of the bus: what software starts and acknowledges.
LEMMA BusOK ==
    ASSUME TypeOK,
           \/ \E ch \in Channel : DmaComplete(ch)
           \/ DriveCommand
           \/ \E c \in Core : SpuTransfer(c)
           \/ Acknowledge
    PROVE  TypeOK'
  <1>1. Does' = Does /\ use' = use
    BY DEF DmaComplete, DriveCommand, SpuTransfer, Acknowledge, Software, Does
  <1>2. TimeOK'
    BY <1>1 DEF DmaComplete, DriveCommand, SpuTransfer, Acknowledge, Software, time,
                reschedule, TypeOK, TimeOK
  <1>3. TimersOK' /\ HistoryOK'
    BY <1>1 DEF DmaComplete, DriveCommand, SpuTransfer, Acknowledge, timers, history,
                TypeOK, TimersOK, HistoryOK
  <1>4. RaisedOK'
    BY <1>1 DEF DmaComplete, DriveCommand, SpuTransfer, Acknowledge, raised,
                TypeOK, RaisedOK
  <1>5. now \in Nat
    BY DEF TypeOK, TimeOK
  <1>6. PendingOK'
    <2>1. CASE \E ch \in Channel : DmaComplete(ch)
      <3>1. now + DMA_LATENCY \in Nat
        BY <1>5, TimerAssumption
      <3> QED
        BY <2>1, <3>1 DEF DmaComplete, TypeOK, PendingOK
    <2>2. CASE DriveCommand
      <3>1. \A latency \in DriveLatencies : now + latency \in Nat
        BY <1>5, TimerAssumption
      <3> QED
        BY <2>2, <3>1 DEF DriveCommand, TypeOK, PendingOK, Times
    <2>3. ASSUME NEW c \in Core, SpuTransfer(c)
          PROVE  PendingOK'
      <3>1. PICK latency \in SpuLatencies :
               spu_due' = [spu_due EXCEPT ![c] = (IF @ > now THEN @ ELSE now) + latency]
        BY <2>3 DEF SpuTransfer
      <3>2. (IF spu_due[c] > now THEN spu_due[c] ELSE now) + latency \in Nat
        BY <1>5, TimerAssumption DEF TypeOK, PendingOK, Times, Never
      <3>3. spu_due' \in [Core -> Times]
        BY <3>1, <3>2 DEF TypeOK, PendingOK, Times
      <3> QED
        BY <2>3, <3>3 DEF SpuTransfer, TypeOK, PendingOK
    <2>4. CASE Acknowledge
      BY <2>4 DEF Acknowledge, pending, TypeOK, PendingOK
    <2> QED
      BY <2>1, <2>2, <2>3, <2>4
  <1> QED
    BY <1>2, <1>3, <1>4, <1>6 DEF TypeOK

LEMMA TickOK ==
    ASSUME TypeOK, TickTimers
    PROVE  TypeOK'
  <1>1. Does' = Does /\ use' = use
    BY DEF TickTimers, Does
  <1>2. now \in Nat /\ region \in Region /\ now' = now /\ region' = region
    BY DEF TypeOK, TimeOK, TickTimers
  <1>3. EeTimers = Does.ee_timers /\ IopTimers = Does.iop_timers
    BY UseFacts
  <1>4. ee_timers' \in [EeTimers -> EeTimerType]
    <2>1. \A t \in EeTimers : check(ee_timers[t], now, region) \in EeTimerType
      BY <1>2, <1>3, EeWriteTypes DEF TypeOK, TimersOK
    <2> QED
      BY <2>1 DEF TickTimers
  <1>5. iop_timers' \in [IopTimers -> IopTimerType]
    <2>1. \A t \in IopTimers : iop_check(iop_timers[t], now, region) \in IopTimerType
      BY <1>2, <1>3, IopWriteTypes DEF TypeOK, TimersOK
    <2> QED
      BY <2>1 DEF TickTimers
  <1>6. PendingOK'
    <2>1. now - (now % SAMPLE_CYCLES) \in Nat
      <3>1. now % SAMPLE_CYCLES \in Nat /\ now % SAMPLE_CYCLES =< now
        <4>1. SAMPLE_CYCLES \in Nat \ {0}
          BY TimerAssumption
        <4>2. now % SAMPLE_CYCLES \in 0 .. (SAMPLE_CYCLES - 1)
              /\ now % SAMPLE_CYCLES =< now
          BY <1>2, <4>1, ModRange
        <4> QED
          BY <4>1, <4>2
      <3>2. \A a \in Nat : a =< now => now - a \in Nat
        BY <1>2
      <3> QED
        BY <3>1, <3>2
    <2>2. last_sample' \in Nat
      BY <2>1 DEF TickTimers, TypeOK, PendingOK
    <2>3. spu_due' \in [Core -> Times]
      BY DEF TickTimers, TypeOK, PendingOK, Times
    <2>4. cdvd_done_at' \in Times /\ dma_irq_queue' \subseteq Channel \X Nat
      BY DEF TickTimers, TypeOK, PendingOK, Times
    <2> QED
      BY <2>2, <2>3, <2>4 DEF PendingOK
  <1>7. timers_due' \in Nat
    <2> DEFINE events == NextEvents(ee_timers', dma_irq_queue', cdvd_done_at',
                                    last_sample', spu_due')
    <2>1. events \subseteq Int
      <3>1. iop_timers \in [Does.iop_timers -> IopTimerType]
        BY DEF TypeOK, TimersOK
      <3> QED
        BY <1>2, <1>4, <1>6, <3>1, EventsAreTimes DEF PendingOK
    <2>2. \E due \in events : timers_due' = IF due > now THEN due ELSE now + 1
      BY DEF TickTimers
    <2> HIDE DEF events
    <2> QED
      BY <1>2, <2>1, <2>2
  <1>8. TimeOK'
    BY <1>1, <1>2, <1>7 DEF TickTimers, TypeOK, TimeOK
  <1>9. TimersOK'
    BY <1>1, <1>3, <1>4, <1>5 DEF TimersOK
  <1>10. RaisedOK'
    <2>1. intc_stat' \subseteq Does.ee_timers /\ iop_i_stat' \subseteq Does.iop_timers
      BY <1>3 DEF TickTimers, TypeOK, RaisedOK
    <2>2. d_stat' \subseteq Channel
      <3>1. \A q \in dma_irq_queue : q[1] \in Channel
        BY DEF TypeOK, PendingOK
      <3> QED
        BY <3>1 DEF TickTimers, DueDma, TypeOK, RaisedOK
    <2>3. drive_done' \in BOOLEAN
      BY DEF TickTimers, TypeOK, RaisedOK
    <2> QED
      BY <1>1, <2>1, <2>2, <2>3 DEF RaisedOK
  <1>11. HistoryOK'
    BY <1>1, <1>3 DEF TickTimers, HistoryOK, Times
  <1> QED
    BY <1>6, <1>8, <1>9, <1>10, <1>11 DEF TypeOK

LEMMA ElapseOK ==
    ASSUME TypeOK, Elapse
    PROVE  TypeOK'
  <1>1. Does' = Does /\ use' = use
    BY DEF Elapse, Does
  <1>2. TimeOK'
    BY <1>1 DEF Elapse, TypeOK, TimeOK
  <1>3. TimersOK' /\ PendingOK' /\ RaisedOK'
    BY <1>1 DEF Elapse, timers, pending, raised, TypeOK, TimersOK, PendingOK, RaisedOK
  <1>4. HistoryOK'
    <2>1. now + 1 \in Times
      BY DEF TypeOK, TimeOK, Times
    <2>2. EeTimers = Does.ee_timers /\ IopTimers = Does.iop_timers
      BY UseFacts
    <2>3. ee_match' \in [EeTimers -> Times]
      BY <2>1, <2>2 DEF Elapse, TypeOK, HistoryOK
    <2>4. iop_match' \in [IopTimers -> Times]
      BY <2>1, <2>2 DEF Elapse, TypeOK, HistoryOK
    <2>5. iop_wrap' \in [IopTimers -> Times]
      BY <2>1, <2>2 DEF Elapse, TypeOK, HistoryOK
    <2> QED
      BY <1>1, <2>2, <2>3, <2>4, <2>5 DEF HistoryOK
  <1> QED
    BY <1>2, <1>3, <1>4 DEF TypeOK

LEMMA StutterOK == TypeOK /\ UNCHANGED vars => TypeOK'
  <1> SUFFICES ASSUME TypeOK, UNCHANGED vars PROVE TypeOK'
    OBVIOUS
  <1>1. Does' = Does
    BY DEF vars, Does
  <1>2. TimeOK' /\ TimersOK'
    BY <1>1 DEF vars, time, timers, TypeOK, TimeOK, TimersOK
  <1>3. PendingOK' /\ RaisedOK' /\ HistoryOK'
    BY <1>1 DEF vars, pending, raised, history, TypeOK, PendingOK, RaisedOK, HistoryOK
  <1> QED
    BY <1>2, <1>3 DEF TypeOK

LEMMA TypesKept == TypeOK /\ [Next]_vars => TypeOK'
  <1> SUFFICES ASSUME TypeOK, [Next]_vars PROVE TypeOK'
    OBVIOUS
  <1>1. CASE \E t \in EeTimers : EeWrite(t)
    BY <1>1, EeWriteOK
  <1>2. CASE \E t \in IopTimers : IopWrite(t) \/ IopReadMode(t)
    BY <1>2, IopWriteOK
  <1>3. CASE SetRegion
    BY <1>3, SetRegionOK
  <1>4. CASE \/ \E ch \in Channel : DmaComplete(ch)
             \/ DriveCommand
             \/ \E c \in Core : SpuTransfer(c)
             \/ Acknowledge
    BY <1>4, BusOK
  <1>5. CASE TickTimers
    BY <1>5, TickOK
  <1>6. CASE Elapse
    BY <1>6, ElapseOK
  <1>7. CASE AtBound \/ UNCHANGED vars
    BY <1>7, StutterOK DEF AtBound
  <1> QED
    BY <1>1, <1>2, <1>3, <1>4, <1>5, <1>6, <1>7 DEF Next

\* No count leaves its width and no time its range, whatever the widths, the
\* periods and the program (timers.rs, and Bus::tick_timers with the register
\* writes it depends on).
THEOREM TimerTypes == Spec => []TypeOK
  BY InitTypes, TypesKept, PTL DEF Spec

\* A change of region moves no count that software can read, at any width and
\* with any two sets of periods (set_region_from_smode1 and the two rebase).
THEOREM TimerRebase == Spec => RebaseKeepsCounts
  <1> DEFINE Keeps == region' # region =>
                        /\ \A t \in EeTimers : EeCount(t)' = EeCount(t)
                        /\ \A t \in IopTimers : IopCountOf(t)' = IopCountOf(t)
  <1>1. TypeOK /\ TypeOK' /\ [Next]_vars => [Keeps]_vars
    <2> SUFFICES ASSUME TypeOK, TypeOK', Next, region' # region
                 PROVE  /\ \A t \in EeTimers : EeCount(t)' = EeCount(t)
                        /\ \A t \in IopTimers : IopCountOf(t)' = IopCountOf(t)
      OBVIOUS
    <2>1. SetRegion
      BY DEF Next, EeWrite, IopWrite, IopReadMode, DmaComplete, DriveCommand,
             SpuTransfer, Acknowledge, TickTimers, Elapse, AtBound, vars
    <2>2. now \in Nat /\ now' = now /\ region \in Region /\ region' \in Region
      BY <2>1 DEF TypeOK, TimeOK, SetRegion, Software, time
    <2>3. ASSUME NEW t \in EeTimers PROVE EeCount(t)' = EeCount(t)
      <3>1. ee_timers'[t] = rebase(ee_timers[t], now, region)
        BY <2>1 DEF SetRegion
      <3>2. EeCount(t)' = count(ee_timers'[t], now', region')
        BY DEF EeCount
      <3>3. ee_timers[t] \in EeTimerType
        BY UseFacts DEF TypeOK, TimersOK
      <3> QED
        BY <2>2, <3>1, <3>2, <3>3, EeRebase DEF EeCount
    <2>4. ASSUME NEW t \in IopTimers PROVE IopCountOf(t)' = IopCountOf(t)
      <3>1. iop_timers'[t] = iop_rebase(iop_timers[t], now, region)
        BY <2>1 DEF SetRegion
      <3>2. IopCountOf(t)' = iop_count(iop_timers'[t], now', region')
        BY DEF IopCountOf
      <3>3. iop_timers[t] \in IopTimerType
        BY UseFacts DEF TypeOK, TimersOK
      <3> QED
        BY <2>2, <3>1, <3>2, <3>3, IopRebase DEF IopCountOf
    <2> QED
      BY <2>3, <2>4
  <1> QED
    BY <1>1, TimerTypes, PTL DEF Spec, RebaseKeepsCounts

(***************************************************************************)
(* Counting.  A counter that was b and has run for s cycles at p cycles    *)
(* per count shows (b + s \div p) % w.                                     *)
(***************************************************************************)
LEMMA DivMod ==
    ASSUME NEW a \in Nat, NEW b \in Nat \ {0}
    PROVE  a \div b \in Nat /\ a % b \in 0 .. (b - 1) /\ a = (b * (a \div b)) + (a % b)
  OBVIOUS

LEMMA DivUnique ==
    ASSUME NEW b \in Nat \ {0}, NEW q \in Nat, NEW r \in 0 .. (b - 1), NEW a \in Nat,
           a = (b * q) + r
    PROVE  a \div b = q /\ a % b = r
  OBVIOUS

LEMMA MulMod ==
    ASSUME NEW b \in Nat \ {0}, NEW q \in Nat
    PROVE  (q * b) % b = 0
  OBVIOUS

LEMMA MulLeast ==
    ASSUME NEW p \in Nat \ {0}, NEW a \in Nat, NEW b \in Nat, a =< b
    PROVE  p * a =< p * b
  BY SMTT(30)

LEMMA DivStep ==
    ASSUME NEW s \in Nat, NEW p \in Nat \ {0}
    PROVE  \/ (s + 1) \div p = s \div p /\ (s + 1) % p = (s % p) + 1
           \/ (s + 1) \div p = s \div p + 1 /\ s % p = p - 1 /\ (s + 1) % p = 0
  OBVIOUS

LEMMA ModAdd ==
    ASSUME NEW a \in Nat, NEW w \in Nat \ {0}, NEW k \in 0 .. (w - 1)
    PROVE  (a + k) % w = IF (a % w) + k < w THEN (a % w) + k ELSE (a % w) + k - w
  <1> DEFINE q == a \div w
             m == a % w
  <1>1. q \in Nat /\ m \in 0 .. (w - 1) /\ a = (w * q) + m
    BY DivMod
  <1> HIDE DEF q, m
  <1>2. w * (q + 1) = (w * q) + w /\ w * q \in Nat /\ m + k \in Nat
    BY <1>1
  <1>3. CASE m + k < w
    <2>1. m + k \in 0 .. (w - 1) /\ a + k = (w * q) + (m + k) /\ a + k \in Nat
      BY <1>1, <1>2, <1>3
    <2>2. (a + k) % w = m + k
      BY <1>1, <2>1, DivUnique
    <2> QED
      BY <1>3, <2>2 DEF m
  <1>4. CASE ~(m + k < w)
    <2>1. m + k - w \in 0 .. (w - 1) /\ a + k = (w * (q + 1)) + (m + k - w)
          /\ a + k \in Nat /\ q + 1 \in Nat
      BY <1>1, <1>2, <1>4
    <2>2. (a + k) % w = m + k - w
      <3> DEFINE x == a + k
                 r == m + k - w
                 s == q + 1
      <3>1. x \in Nat /\ r \in 0 .. (w - 1) /\ s \in Nat /\ x = (w * s) + r
        BY <2>1
      <3> HIDE DEF x, r, s
      <3>2. x % w = r
        BY <3>1, DivUnique
      <3> QED
        BY <3>2 DEF x, r
    <2> QED
      BY <1>4, <2>2 DEF m
  <1> QED
    BY <1>3, <1>4

\* The first grid cycle is at hand, and on the grid.
LEMMA GridFacts ==
    ASSUME NEW c \in Nat
    PROVE  /\ ToGrid(c) \in Nat /\ c =< ToGrid(c) /\ ToGrid(c) =< c + TIMER_TICK_CYCLES - 1
           /\ OnGrid(ToGrid(c))
  <1> DEFINE T == TIMER_TICK_CYCLES
  <1>0. T \in Nat \ {0}
    BY TimerAssumption
  <1> DEFINE q == (c + T - 1) \div T
             m == (c + T - 1) % T
  <1> HIDE DEF T
  <1>1. c + T - 1 \in Nat
    BY <1>0
  <1>2. q \in Nat /\ m \in 0 .. (T - 1) /\ c + T - 1 = (T * q) + m
    BY <1>0, <1>1, DivMod
  <1> HIDE DEF q, m
  <1>3. (q * T) % T = 0
    BY <1>0, <1>2, MulMod
  <1>4. q * T \in Nat /\ c =< q * T /\ q * T =< c + T - 1
    <2> DEFINE x == T * q
    <2>1. q * T = x /\ x \in Nat /\ c + T - 1 = x + m
      BY <1>0, <1>2
    <2> HIDE DEF x
    <2> QED
      BY <1>0, <1>2, <2>1
  <1>5. ToGrid(c) = q * T
    BY DEF ToGrid, q, T
  <1> QED
    BY <1>3, <1>4, <1>5 DEF OnGrid, T

\* How many counts from n until v shows next.
Ahead(n, v, w) == IF v > n THEN v - n ELSE v - n + w

LEMMA AheadFacts ==
    ASSUME NEW w \in Nat \ {0}, NEW n \in 0 .. (w - 1), NEW v \in 0 .. (w - 1)
    PROVE  /\ Ahead(n, v, w) \in 1 .. w
           /\ (IF (v - n) % w = 0 THEN w ELSE (v - n) % w) = Ahead(n, v, w)
           /\ (IF v = n THEN w ELSE (v - n) % w) = Ahead(n, v, w)
           /\ w - n = Ahead(n, 0, w)
  <1>1. (v - n) % w = IF v >= n THEN v - n ELSE v - n + w
    OBVIOUS
  <1> QED
    BY <1>1 DEF Ahead

\* What the counter shows, and the cycle at which v shows next.
Shown(b, s, p, w) == (b + (s \div p)) % w
Soonest(c, b, s, p, v, w) == c + Ahead(Shown(b, s, p, w), v, w) * p - (s % p)

LEMMA ShownRange ==
    ASSUME NEW w \in Nat \ {0}, NEW p \in Nat \ {0}, NEW b \in Nat, NEW s \in Nat
    PROVE  Shown(b, s, p, w) \in 0 .. (w - 1)
  <1>1. s \div p \in Nat
    BY DivMod
  <1>2. b + (s \div p) \in Nat
    BY <1>1
  <1> QED
    BY <1>2, DivMod DEF Shown

\* One cycle later: the value shows next no sooner, and if it comes up it was
\* due then.
LEMMA CountStep ==
    ASSUME NEW w \in Nat \ {0}, NEW p \in Nat \ {0}, NEW b \in Nat, NEW s \in Nat, NEW c \in Nat,
           NEW v \in 0 .. (w - 1)
    PROVE  /\ Soonest(c, b, s, p, v, w) > c
           /\ Soonest(c, b, s, p, v, w) =< Soonest(c + 1, b, s + 1, p, v, w)
           /\ Reaches(Shown(b, s, p, w), Shown(b, s + 1, p, w), v)
                => Soonest(c, b, s, p, v, w) =< c + 1
           /\ Soonest(c, b, s, p, v, w) \in Int /\ Soonest(c + 1, b, s + 1, p, v, w) \in Int
  <1> DEFINE n == Shown(b, s, p, w)
             m == Shown(b, s + 1, p, w)
  <1>n. n = (b + (s \div p)) % w /\ m = (b + ((s + 1) \div p)) % w
    BY DEF Shown
  <1> HIDE DEF n, m
  <1> DEFINE q == s \div p
             f == s % p
             g == (s + 1) % p
             d == Ahead(n, v, w)
             e == Ahead(m, v, w)
  <1>0. s + 1 \in Nat
    OBVIOUS
  <1>1. q \in Nat /\ f \in 0 .. (p - 1) /\ s + 1 \in Nat /\ g \in 0 .. (p - 1)
    BY <1>0, DivMod
  <1>2. n \in 0 .. (w - 1) /\ m \in 0 .. (w - 1)
    <2>1. (s + 1) \div p \in Nat
      BY <1>1, DivMod
    <2>2. b + q \in Nat /\ b + ((s + 1) \div p) \in Nat
      BY <1>1, <2>1
    <2> QED
      BY <1>n, <2>2, DivMod
  <1>3. d \in 1 .. w /\ e \in 1 .. w
    BY <1>2, AheadFacts
  <1>4. \A x \in Nat \ {0} : x * p >= p /\ (x - 1) * p = x * p - p /\ x * p \in Nat
    BY SMTT(30)
  <1> DEFINE Good == /\ c + d * p - f > c
                     /\ c + d * p - f =< (c + 1) + e * p - g
                     /\ n # m /\ m = v => c + d * p - f = c + 1
  <1>5. ASSUME (s + 1) \div p = q, g = f + 1
        PROVE  Good
    <2>1. n = m
      BY <1>n, <1>5
    <2> HIDE DEF q, f, g, d
    <2>2. e = d
      BY <2>1 DEF d
    <2>3. d * p \in Nat /\ d * p >= p
      BY <1>3, <1>4
    <2> HIDE DEF e
    <2> QED
      BY <1>1, <1>5, <2>1, <2>2, <2>3 DEF d, e, f, g
  <1>6. ASSUME (s + 1) \div p = q + 1, f = p - 1, g = 0
        PROVE  Good
    <2>1. m = IF n = w - 1 THEN 0 ELSE n + 1
      <3>1. CASE w = 1
        BY <1>2, <3>1
      <3>2. CASE w # 1
        <4>1. b + (q + 1) = (b + q) + 1 /\ b + q \in Nat /\ 1 \in 0 .. (w - 1)
          BY <1>1, <3>2
        <4>2. ((b + q) + 1) % w = IF ((b + q) % w) + 1 < w THEN ((b + q) % w) + 1
                                  ELSE ((b + q) % w) + 1 - w
          BY <4>1, ModAdd
        <4> QED
          BY <1>n, <1>2, <1>6, <4>1, <4>2
      <3> QED
        BY <3>1, <3>2
    <2>2. \/ m = v /\ d = 1 /\ e = w
          \/ m # v /\ d # 1 /\ e = d - 1
      BY <1>2, <2>1 DEF Ahead
    <2> HIDE DEF d, e, f, g
    <2>3. d * p \in Nat /\ e * p \in Nat /\ d * p >= p /\ e * p >= p /\ (d = 1 => d * p = p)
      BY <1>3, <1>4
    <2>4. m # v => e * p = d * p - p
      BY <1>3, <1>4, <2>2
    <2> DEFINE dp == d * p
               ep == e * p
    <2> HIDE DEF dp, ep
    <2>5. c + dp - f > c /\ c + dp - f =< (c + 1) + ep - g /\ (n # m /\ m = v => c + dp - f = c + 1)
      <3>1. f = p - 1 /\ g = 0 /\ dp \in Nat /\ ep \in Nat /\ dp >= p /\ ep >= p
        BY <1>6, <2>3 DEF dp, ep
      <3>2. \/ m = v /\ dp = p
            \/ m # v /\ ep = dp - p
        BY <2>2, <2>3, <2>4 DEF dp, ep
      <3> QED
        BY <3>1, <3>2
    <2> QED
      BY <2>5 DEF dp, ep, d, e, f, g
  <1>7. Good
    <2>1. \/ (s + 1) \div p = q /\ g = f + 1
          \/ (s + 1) \div p = q + 1 /\ f = p - 1 /\ g = 0
      BY DivStep
    <2> HIDE DEF Good, q, f, g
    <2> QED
      BY <1>5, <1>6, <2>1
  <1>8. Soonest(c, b, s, p, v, w) = c + d * p - f /\ Soonest(c + 1, b, s + 1, p, v, w) = (c + 1) + e * p - g
    BY DEF Soonest, n, m
  <1>9. c + d * p - f \in Int /\ (c + 1) + e * p - g \in Int
    <2>1. d * p \in Nat /\ e * p \in Nat
      BY <1>3, <1>4
    <2> DEFINE dp == d * p
               ep == e * p
    <2>2. dp \in Nat /\ ep \in Nat
      BY <2>1
    <2> HIDE DEF dp, ep, f, g
    <2>3. c + dp - f \in Int /\ (c + 1) + ep - g \in Int
      BY <1>1, <2>2
    <2> QED
      BY <2>3 DEF dp, ep
  <1> HIDE DEF d, e, f, g
  <1> QED
    BY <1>2, <1>7, <1>8, <1>9 DEF n, m, Reaches

\* Looking back k counts, fewer than a wrap: the two ways to tell whether the
\* value was passed, and whether the counter wrapped.
Between(n, m, v) == IF n =< m THEN n < v /\ v =< m ELSE v > n \/ v =< m

LEMMA Passing ==
    ASSUME NEW w \in Nat \ {0}, NEW n \in 0 .. (w - 1), NEW v \in 0 .. (w - 1),
           NEW k \in 0 .. (w - 1), NEW m, m = IF n + k < w THEN n + k ELSE n + k - w
    PROVE  /\ Between(n, m, v) <=> Ahead(n, v, w) =< k
           /\ n # m <=> k # 0
           /\ m < n <=> Ahead(n, 0, w) =< k
           /\ m = v /\ k # 0 <=> Ahead(n, v, w) = k
  BY DEF Ahead, Between

\* The counts between two looks are fewer than a wrap.
LEMMA FewCounts ==
    ASSUME NEW w \in Nat \ {0}, NEW p \in Nat \ {0}, NEW r \in Nat, NEW s \in Nat, r =< s,
           s - r < (w - 1) * p
    PROVE  (s \div p) - (r \div p) \in 0 .. (w - 1)
  <1> DEFINE q == s \div p
             f == s % p
             o == r \div p
             g == r % p
  <1>1. q \in Nat /\ f \in 0 .. (p - 1) /\ s = (p * q) + f
    BY DivMod
  <1>2. o \in Nat /\ g \in 0 .. (p - 1) /\ r = (p * o) + g
    BY DivMod
  <1> HIDE DEF q, f, o, g
  <1>3. q >= o
    <2> SUFFICES ASSUME q + 1 =< o PROVE FALSE
      BY <1>1, <1>2
    <2>1. p * (q + 1) =< p * o
      BY <1>1, <1>2, MulLeast
    <2>2. p * (q + 1) = (p * q) + p
      BY <1>1
    <2> DEFINE x == p * q
               y == p * o
    <2>3. x \in Nat /\ y \in Nat /\ x + p =< y /\ s = x + f /\ r = y + g
      BY <1>1, <1>2, <2>1, <2>2
    <2> HIDE DEF x, y
    <2> QED
      BY <1>1, <1>2, <2>3
  <1>4. q - o < w
    <2> SUFFICES ASSUME o + w =< q PROVE FALSE
      BY <1>1, <1>2
    <2>1. p * (o + w) =< p * q
      BY <1>1, <1>2, MulLeast
    <2>2. p * (o + w) = (p * o) + (p * w) /\ (w - 1) * p = (p * w) - p
      BY <1>2, SMTT(30)
    <2> DEFINE x == p * q
               y == p * o
               z == p * w
    <2>3. x \in Nat /\ y \in Nat /\ z \in Nat /\ y + z =< x /\ s = x + f /\ r = y + g
          /\ s - r < z - p
      BY <1>1, <1>2, <2>1, <2>2
    <2> HIDE DEF x, y, z
    <2> QED
      BY <1>1, <1>2, <2>3
  <1> QED
    BY <1>1, <1>2, <1>3, <1>4 DEF q, o

(***************************************************************************)
(* One timer, one cycle.                                                   *)
(***************************************************************************)
LEMMA EeCovers ==
    ASSUME NEW tm \in EeTimerType, NEW c \in Nat, NEW r \in Region, Live(tm), tm.base_cycle =< c
    PROVE  \E d, e \in Int :
              /\ due_at(tm, c, r) = {d} /\ due_at(tm, c + 1, r) = {e}
              /\ c < d /\ d =< e
              /\ Reaches(count(tm, c, r), count(tm, c + 1, r), tm.comp) => d =< c + 1
  <1> DEFINE p == cycles_per_tick(tm, r)
             s == c - tm.base_cycle
             b == tm.base
             v == tm.comp
             d == Soonest(c, b, s, p, v, Size)
             e == Soonest(c + 1, b, s + 1, p, v, Size)
  <1>1. /\ p \in Nat \ {0} /\ Size \in Nat \ {0} /\ v \in 0 .. (Size - 1) /\ b \in Nat
        /\ tm.base_cycle \in Nat
    BY TimerAssumption DEF cycles_per_tick, EeTimerType, EeMode, Count16
  <1>2. c + 1 \in Nat /\ s \in Nat /\ Since(c, tm.base_cycle) = s
        /\ Since(c + 1, tm.base_cycle) = s + 1
    BY <1>1 DEF Since
  <1>3. count(tm, c, r) = Shown(b, s, p, Size) /\ count(tm, c + 1, r) = Shown(b, s + 1, p, Size)
    BY <1>2 DEF count, Shown
  <1> HIDE DEF b, v, s, p
  <1>4. /\ d > c /\ d =< e /\ d \in Int /\ e \in Int
        /\ Reaches(Shown(b, s, p, Size), Shown(b, s + 1, p, Size), v) => d =< c + 1
        /\ Shown(b, s, p, Size) \in 0 .. (Size - 1) /\ Shown(b, s + 1, p, Size) \in 0 .. (Size - 1)
    <2>1. s + 1 \in Nat
      BY <1>2
    <2>2. d > c /\ d =< e /\ d \in Int /\ e \in Int
      BY <1>1, <1>2, CountStep, Zenon
    <2>3. ASSUME Reaches(Shown(b, s, p, Size), Shown(b, s + 1, p, Size), v)
          PROVE  d =< c + 1
      BY <1>1, <1>2, <2>3, CountStep, Zenon
    <2>4. Shown(b, s, p, Size) \in 0 .. (Size - 1)
      BY <1>1, <1>2, ShownRange, Zenon
    <2>5. Shown(b, s + 1, p, Size) \in 0 .. (Size - 1)
      BY <1>1, <2>1, ShownRange, Zenon
    <2> HIDE DEF d, e
    <2> QED
      BY <2>2, <2>3, <2>4, <2>5
  <1> DEFINE n == Shown(b, s, p, Size)
             m == Shown(b, s + 1, p, Size)
  <1>5. due_at(tm, c, r) = {d} /\ due_at(tm, c + 1, r) = {e}
    <2>1. /\ (IF (v - n) % Size = 0 THEN Size ELSE (v - n) % Size) = Ahead(n, v, Size)
          /\ (IF (v - m) % Size = 0 THEN Size ELSE (v - m) % Size) = Ahead(m, v, Size)
      BY <1>1, <1>4, AheadFacts
    <2>2. /\ d = c + Ahead(n, v, Size) * p - (s % p)
          /\ e = (c + 1) + Ahead(m, v, Size) * p - ((s + 1) % p)
      BY DEF Soonest
    <2>3. /\ due_at(tm, c, r) =
               {c + (IF (v - n) % Size = 0 THEN Size ELSE (v - n) % Size) * p - (s % p)}
          /\ due_at(tm, c + 1, r) =
               {(c + 1) + (IF (v - m) % Size = 0 THEN Size ELSE (v - m) % Size) * p - ((s + 1) % p)}
      BY <1>2, <1>3 DEF due_at, v, p
    <2> QED
      BY <2>1, <2>2, <2>3
  <1> HIDE DEF d, e
  <1> QED
    BY <1>3, <1>4, <1>5 DEF v

LEMMA IopCovers ==
    ASSUME NEW tm \in IopTimerType, NEW c \in Nat, NEW r \in Region, tm.base_cycle =< c
    PROVE  /\ iop_due_at(tm, c, r) \in Int /\ iop_due_at(tm, c + 1, r) \in Int
           /\ c < iop_due_at(tm, c, r) /\ iop_due_at(tm, c, r) =< iop_due_at(tm, c + 1, r)
           /\ \A v \in {tm.target, 0} :
                 Reaches(iop_count(tm, c, r), iop_count(tm, c + 1, r), v)
                   => iop_due_at(tm, c, r) =< c + 1
  <1> DEFINE p == iop_cycles_per_tick(tm, r)
             s == c - tm.base_cycle
             b == tm.base
             a == tm.target
             n == Shown(b, s, p, IopSize)
             m == Shown(b, s + 1, p, IopSize)
             d(v) == Soonest(c, b, s, p, v, IopSize)
             e(v) == Soonest(c + 1, b, s + 1, p, v, IopSize)
             old == iop_due_at(tm, c, r)
             new == iop_due_at(tm, c + 1, r)
  <1>1. /\ p \in Nat \ {0} /\ IopSize \in Nat \ {0} /\ a \in 0 .. (IopSize - 1)
        /\ b \in Nat /\ tm.base_cycle \in Nat /\ 0 \in 0 .. (IopSize - 1)
    BY TimerAssumption DEF iop_cycles_per_tick, IopTimerType, IopMode, IopCount
  <1>2. c + 1 \in Nat /\ s \in Nat /\ s + 1 \in Nat /\ Elapsed(c, tm.base_cycle) = s
        /\ Elapsed(c + 1, tm.base_cycle) = s + 1
    BY <1>1 DEF Elapsed
  <1>3. iop_count(tm, c, r) = n /\ iop_count(tm, c + 1, r) = m
    BY <1>2 DEF iop_count, Shown
  <1> HIDE DEF b, a, s, p
  <1>4. \A v \in 0 .. (IopSize - 1) :
           /\ c < d(v) /\ d(v) =< e(v) /\ d(v) \in Int /\ e(v) \in Int
           /\ Reaches(n, m, v) => d(v) =< c + 1
           /\ n \in 0 .. (IopSize - 1) /\ m \in 0 .. (IopSize - 1)
    <2> SUFFICES ASSUME NEW v \in 0 .. (IopSize - 1)
                 PROVE  /\ c < d(v) /\ d(v) =< e(v) /\ d(v) \in Int /\ e(v) \in Int
                        /\ Reaches(n, m, v) => d(v) =< c + 1
                        /\ n \in 0 .. (IopSize - 1) /\ m \in 0 .. (IopSize - 1)
      OBVIOUS
    <2>1. d(v) > c /\ d(v) =< e(v) /\ d(v) \in Int /\ e(v) \in Int
      BY <1>1, <1>2, CountStep, Zenon
    <2>2. ASSUME Reaches(n, m, v)
          PROVE  d(v) =< c + 1
      BY <1>1, <1>2, <2>2, CountStep, Zenon
    <2>3. n \in 0 .. (IopSize - 1) /\ m \in 0 .. (IopSize - 1)
      BY <1>1, <1>2, ShownRange, Zenon
    <2> HIDE DEF d, e, n, m
    <2> QED
      BY <2>1, <2>2, <2>3
  <1>5. old \in Int /\ new \in Int
    BY <1>2, IopDue
  <1> HIDE DEF n, m
  <1>6. /\ (IF a = n THEN IopSize ELSE (a - n) % IopSize) = Ahead(n, a, IopSize)
        /\ IopSize - n = Ahead(n, 0, IopSize)
        /\ (IF a = m THEN IopSize ELSE (a - m) % IopSize) = Ahead(m, a, IopSize)
        /\ IopSize - m = Ahead(m, 0, IopSize)
    BY <1>1, <1>4, AheadFacts
  <1> DEFINE x == Ahead(n, a, IopSize)
             y == Ahead(n, 0, IopSize)
             f == s % p
             i == Ahead(m, a, IopSize)
             j == Ahead(m, 0, IopSize)
             g == (s + 1) % p
  <1>7. /\ old = c + (IF x =< y THEN x ELSE y) * p - f
        /\ new = (c + 1) + (IF i =< j THEN i ELSE j) * p - g
    BY <1>2, <1>3, <1>6 DEF iop_due_at, a, p
  <1>8. /\ d(a) = c + x * p - f /\ d(0) = c + y * p - f
        /\ e(a) = (c + 1) + i * p - g /\ e(0) = (c + 1) + j * p - g
    BY DEF Soonest, n, m
  <1> HIDE DEF old, new, d, e
  <1>9. old \in {d(a), d(0)} /\ new \in {e(a), e(0)}
    BY <1>7, <1>8
  <1>10. old =< d(a) /\ old =< d(0)
    <2>1. x \in Nat /\ y \in Nat
      BY <1>1, <1>4, AheadFacts
    <2>2. f \in Nat
      <3>1. (s % p) \in 0 .. (p - 1)
        BY <1>1, <1>2, DivMod
      <3> QED
        BY <1>1, <3>1
    <2> HIDE DEF x, y, f
    <2>3. ASSUME NEW k \in Nat, NEW l \in Nat, k =< l
          PROVE  c + k * p - f =< c + l * p - f
      <3>1. p * k =< p * l /\ p * k = k * p /\ p * l = l * p /\ k * p \in Nat /\ l * p \in Nat
        BY <1>1, <2>3, MulLeast
      <3> DEFINE kp == k * p
                 lp == l * p
      <3>2. kp =< lp /\ kp \in Nat /\ lp \in Nat
        BY <3>1
      <3> HIDE DEF kp, lp
      <3>3. c + kp - f =< c + lp - f
        BY <2>2, <3>2
      <3> QED
        BY <3>3 DEF kp, lp
    <2>4. x =< y \/ y =< x
      BY <2>1
    <2>5. x * p \in Int /\ y * p \in Int
      <3>1. \A k, l \in Int : k * l \in Int
        OBVIOUS
      <3> QED
        BY <1>1, <2>1, <3>1
    <2>6. CASE x =< y
      BY <1>7, <1>8, <2>1, <2>3, <2>6
    <2>7. CASE ~(x =< y)
      <3>1. y =< x
        BY <2>4, <2>7
      <3> QED
        BY <1>7, <1>8, <2>1, <2>3, <2>7, <3>1
    <2> QED
      BY <2>6, <2>7
  <1>11. c < old /\ old =< new
    BY <1>1, <1>4, <1>5, <1>9, <1>10
  <1>12. \A v \in {a, 0} : Reaches(n, m, v) => old =< c + 1
    BY <1>1, <1>4, <1>10
  <1> QED
    BY <1>3, <1>5, <1>11, <1>12 DEF a, old, new

\* A change of region restarts the period, or makes it longer than the
\* look-ahead.
LEMMA LongPeriod ==
    ASSUME NEW c \in Nat, NEW x \in Nat \ {0}, NEW p \in Nat \ {0}, NEW f \in Nat, NEW q \in Nat \ {0},
           p = q \/ p > MAX_TICK_GAP
    PROVE  c + x * p > c + MAX_TICK_GAP \/ c + x * p >= c + x * q - f
  <1>1. x * p >= p /\ x * p \in Nat /\ MAX_TICK_GAP \in Nat
    BY TimerAssumption, SMTT(30)
  <1>2. CASE p = q
    <2> DEFINE y == x * p
    <2>1. y \in Nat /\ x * q = y
      BY <1>1, <1>2
    <2> HIDE DEF y
    <2>2. c + y >= c + y - f
      BY <2>1
    <2> QED
      BY <1>2, <2>1, <2>2 DEF y
  <1>3. CASE p > MAX_TICK_GAP
    <2> DEFINE y == x * p
    <2>1. y >= p /\ y \in Nat
      BY <1>1
    <2> HIDE DEF y
    <2>2. c + y > c + MAX_TICK_GAP
      BY <1>1, <1>3, <2>1
    <2> QED
      BY <2>2 DEF y
  <1> QED
    BY <1>2, <1>3

LEMMA EeRebaseCovers ==
    ASSUME NEW tm \in EeTimerType, NEW c \in Nat, NEW r \in Region, NEW s \in Region,
           tm.base_cycle =< c
    PROVE  \A e \in due_at(rebase(tm, c, r), c, s) :
              /\ e \in Int
              /\ c + MAX_TICK_GAP =< e \/ \E d \in due_at(tm, c, r) : d \in Int /\ d =< e
  <1> DEFINE p == cycles_per_tick(tm, r)
             q == cycles_per_tick(tm, s)
             f == (c - tm.base_cycle) % p
             n == count(tm, c, r)
             x == Ahead(n, tm.comp, Size)
             new == rebase(tm, c, r)
  <1>0. SUFFICES ASSUME Live(tm)
                 PROVE  \A e \in due_at(new, c, s) :
                           /\ e \in Int
                           /\ c + MAX_TICK_GAP =< e \/ \E d \in due_at(tm, c, r) : d \in Int /\ d =< e
    BY DEF rebase, EeTimerType, due_at, Live
  <1>1. /\ p \in Nat \ {0} /\ q \in Nat \ {0} /\ Size \in Nat \ {0}
        /\ tm.comp \in 0 .. (Size - 1) /\ tm.base_cycle \in Nat /\ MAX_TICK_GAP \in Nat
    BY TimerAssumption DEF cycles_per_tick, EeTimerType, EeMode, Count16
  <1>2. c - tm.base_cycle \in Nat /\ Since(c, tm.base_cycle) = c - tm.base_cycle
    BY <1>1 DEF Since
  <1>3. f \in Nat
    <2> DEFINE a == c - tm.base_cycle
    <2> HIDE DEF a, p, q, n, x, new
    <2>1. (a % p) \in 0 .. (p - 1)
      BY <1>1, <1>2, DivMod DEF a
    <2> QED
      BY <1>1, <2>1 DEF a
  <1>4. n \in 0 .. (Size - 1) /\ x \in Nat \ {0}
        /\ (IF (tm.comp - n) % Size = 0 THEN Size ELSE (tm.comp - n) % Size) = x
    <2>1. n \in 0 .. (Size - 1)
      BY EeCountRange DEF Count16
    <2>2. x \in 1 .. Size
          /\ (IF (tm.comp - n) % Size = 0 THEN Size ELSE (tm.comp - n) % Size) = x
      BY <1>1, <2>1, AheadFacts
    <2> QED
      BY <1>1, <2>1, <2>2
  <1>5. due_at(tm, c, r) = {c + x * p - f}
    BY <1>0, <1>2, <1>4 DEF due_at
  <1>6. /\ new.mode = tm.mode /\ new.comp = tm.comp /\ new.base_cycle = c
        /\ count(new, c, s) = n
    <2>1. new.mode = tm.mode /\ new.comp = tm.comp /\ new.base_cycle = c
      BY DEF rebase, EeTimerType
    <2>2. count(new, c, s) = n
      BY EeRebase
    <2> QED
      BY <2>1, <2>2
  <1>7. due_at(new, c, s) = {c + x * q - 0}
    <2>1. Since(c, new.base_cycle) % cycles_per_tick(new, s) = 0
      <3>1. Since(c, new.base_cycle) = 0
        BY <1>6 DEF Since
      <3>2. 0 % q = 0
        BY <1>1
      <3> QED
        BY <1>6, <3>1, <3>2 DEF cycles_per_tick
    <2> QED
      BY <1>0, <1>4, <1>6, <2>1 DEF due_at, Live, cycles_per_tick
  <1>8. q = p \/ q > MAX_TICK_GAP
    BY LineAssumption DEF cycles_per_tick, EeTimerType, EeMode
  <1> HIDE DEF p, q, f, x
  <1>9. c + x * q > c + MAX_TICK_GAP \/ c + x * q >= c + x * p - f
    BY <1>1, <1>3, <1>4, <1>8, LongPeriod
  <1>10. \A a, b \in Int : a * b \in Int
    OBVIOUS
  <1>11. x * p \in Int /\ x * q \in Int
    BY <1>1, <1>4, <1>10
  <1> DEFINE xp == x * p
             xq == x * q
  <1>12. /\ c + xp - f \in Int /\ c + xq \in Int /\ c + xq - 0 = c + xq
         /\ c + xp - f =< c + xq \/ c + MAX_TICK_GAP =< c + xq
    <2>1. xp \in Int /\ xq \in Int /\ (c + xq > c + MAX_TICK_GAP \/ c + xq >= c + xp - f)
      BY <1>9, <1>11
    <2> HIDE DEF xp, xq
    <2> QED
      BY <1>1, <1>3, <2>1
  <1>13. due_at(tm, c, r) = {c + xp - f} /\ due_at(new, c, s) = {c + xq - 0}
    BY <1>5, <1>7
  <1> HIDE DEF xp, xq, new
  <1> QED
    BY <1>12, <1>13 DEF new

LEMMA IopRebaseCovers ==
    ASSUME NEW tm \in IopTimerType, NEW c \in Nat, NEW r \in Region, NEW s \in Region,
           tm.base_cycle =< c
    PROVE  \/ iop_due_at(tm, c, r) =< iop_due_at(iop_rebase(tm, c, r), c, s)
           \/ c + MAX_TICK_GAP =< iop_due_at(iop_rebase(tm, c, r), c, s)
  <1> DEFINE p == iop_cycles_per_tick(tm, r)
             q == iop_cycles_per_tick(tm, s)
             f == (c - tm.base_cycle) % p
             n == iop_count(tm, c, r)
             y == IF tm.target = n THEN IopSize ELSE (tm.target - n) % IopSize
             x == IF y =< IopSize - n THEN y ELSE IopSize - n
             new == iop_rebase(tm, c, r)
  <1>1. /\ p \in Nat \ {0} /\ q \in Nat \ {0} /\ IopSize \in Nat \ {0}
        /\ tm.target \in 0 .. (IopSize - 1) /\ tm.base_cycle \in Nat /\ MAX_TICK_GAP \in Nat
    BY TimerAssumption DEF iop_cycles_per_tick, IopTimerType, IopMode, IopCount
  <1>2. c - tm.base_cycle \in Nat /\ Elapsed(c, tm.base_cycle) = c - tm.base_cycle
    BY <1>1 DEF Elapsed
  <1>3. f \in Nat
    <2> DEFINE a == c - tm.base_cycle
    <2> HIDE DEF a, p, q, n, x, new
    <2>1. (a % p) \in 0 .. (p - 1)
      BY <1>1, <1>2, DivMod DEF a
    <2> QED
      BY <1>1, <2>1 DEF a
  <1>4. x \in Nat \ {0}
    <2>1. n \in 0 .. (IopSize - 1)
      BY IopCountRange DEF IopCount
    <2>2. y \in 1 .. IopSize
      <3>1. y = Ahead(n, tm.target, IopSize)
        BY <1>1, <2>1, AheadFacts
      <3> QED
        BY <1>1, <2>1, <3>1, AheadFacts
    <2> HIDE DEF y
    <2> QED
      BY <1>1, <2>1, <2>2
  <1>5. iop_due_at(tm, c, r) = c + x * p - f
    BY <1>2 DEF iop_due_at
  <1>6. /\ new.mode = tm.mode /\ new.target = tm.target /\ new.base_cycle = c
        /\ iop_count(new, c, s) = n
    <2>1. new.mode = tm.mode /\ new.target = tm.target /\ new.base_cycle = c
      BY DEF iop_rebase, IopTimerType
    <2>2. iop_count(new, c, s) = n
      BY IopRebase
    <2> QED
      BY <2>1, <2>2
  <1>7. iop_due_at(new, c, s) = c + x * q - 0
    <2>1. Elapsed(c, new.base_cycle) % iop_cycles_per_tick(new, s) = 0
      <3>1. Elapsed(c, new.base_cycle) = 0
        BY <1>6 DEF Elapsed
      <3>2. 0 % q = 0
        BY <1>1
      <3> QED
        BY <1>6, <3>1, <3>2 DEF iop_cycles_per_tick
    <2> QED
      BY <1>6, <2>1 DEF iop_due_at, iop_cycles_per_tick
  <1>8. q = p \/ q > MAX_TICK_GAP
    BY LineAssumption DEF iop_cycles_per_tick, IopTimerType, IopMode
  <1> HIDE DEF p, q, f, x, new
  <1>9. c + x * q > c + MAX_TICK_GAP \/ c + x * q >= c + x * p - f
    BY <1>1, <1>3, <1>4, <1>8, LongPeriod
  <1>10. \A a, b \in Int : a * b \in Int
    OBVIOUS
  <1>11. x * p \in Int /\ x * q \in Int
    BY <1>1, <1>4, <1>10
  <1> DEFINE xp == x * p
             xq == x * q
  <1>12. c + xp - f =< c + xq - 0 \/ c + MAX_TICK_GAP =< c + xq - 0
    <2>1. xp \in Int /\ xq \in Int /\ (c + xq > c + MAX_TICK_GAP \/ c + xq >= c + xp - f)
      BY <1>9, <1>11
    <2> HIDE DEF xp, xq
    <2> QED
      BY <1>1, <1>3, <2>1
  <1> QED
    BY <1>5, <1>7, <1>12 DEF new

(***************************************************************************)
(* The invariant that keeps the tick on time.  Whatever waits for the tick *)
(* is awaited: the due time is not past it, the clock is not past its grid *)
(* cycle, and once the tick of this cycle has run it lies in the future.   *)
(***************************************************************************)
Awaited(e) == /\ timers_due =< e /\ now =< ToGrid(e)
              /\ turn = "clock" => now < e

\* The same of the next state, for a cycle noted in this one.
AwaitedNext(e) == /\ timers_due' =< e /\ now' =< ToGrid(e)
                  /\ turn' = "clock" => now' < e

\* A clock step cannot leave the grid cycle of an awaited event behind, since
\* the tick is due there; nor does software, which can only move the tick up.
LEMMA StillAwaited ==
    ASSUME TypeOK, NEW e \in Nat, Awaited(e),
           \/ Software /\ timers_due' \in {0, timers_due}
           \/ Elapse
           \/ UNCHANGED vars
    PROVE  AwaitedNext(e)
  <1>0. now \in Nat /\ timers_due \in Nat
    BY DEF TypeOK, TimeOK
  <1>1. ToGrid(e) \in Nat /\ e =< ToGrid(e) /\ OnGrid(ToGrid(e))
    BY GridFacts
  <1>2. CASE Software /\ timers_due' \in {0, timers_due}
    BY <1>0, <1>2 DEF Software, time, Awaited, AwaitedNext
  <1>3. CASE Elapse
    <2>1. now' = now + 1 /\ turn' = "software" /\ timers_due' = timers_due
          /\ (turn = "clock" \/ ~Due)
      BY <1>3 DEF Elapse
    <2>2. now < ToGrid(e)
      <3>1. CASE turn = "clock"
        BY <1>0, <1>1, <3>1 DEF Awaited
      <3>2. CASE ~Due
        <4>1. now # ToGrid(e)
          BY <1>0, <1>1, <3>2 DEF Due, Awaited
        <4> QED
          BY <1>0, <1>1, <4>1 DEF Awaited
      <3> QED
        BY <2>1, <3>1, <3>2
    <2> QED
      BY <1>0, <1>1, <2>1, <2>2 DEF Awaited, AwaitedNext
  <1>4. CASE UNCHANGED vars
    BY <1>4 DEF vars, time, Awaited, AwaitedNext
  <1> QED
    BY <1>2, <1>3, <1>4

\* What software schedules is awaited, once it has reset the due time.
LEMMA NewlyAwaited ==
    ASSUME TypeOK, NEW e \in Nat, now =< e, Software, reschedule
    PROVE  AwaitedNext(e)
  <1>1. ToGrid(e) \in Nat /\ e =< ToGrid(e)
    BY GridFacts
  <1> QED
    BY <1>1 DEF TypeOK, TimeOK, Software, time, reschedule, AwaitedNext

\* The tick looks at every event left, and no further than the look-ahead.
TickEvents == NextEvents(ee_timers', dma_irq_queue', cdvd_done_at', last_sample', spu_due')

LEMMA TickDue ==
    ASSUME TypeOK, TypeOK', TickTimers
    PROVE  /\ \A e \in TickEvents : e \in Int /\ (e > now => timers_due' =< e)
           /\ timers_due' =< now + MAX_TICK_GAP
  <1>1. now \in Nat /\ region \in Region /\ MAX_TICK_GAP \in Nat \ {0}
    BY TimerAssumption DEF TypeOK, TimeOK
  <1>2. TickEvents \subseteq Int
    <2>1. Does' = Does /\ EeTimers = Does.ee_timers
      BY UseFacts DEF TickTimers, Does
    <2>2. iop_timers \in [Does.iop_timers -> IopTimerType]
          /\ ee_timers' \in [EeTimers -> EeTimerType]
      BY <2>1 DEF TypeOK, TimersOK
    <2>3. /\ dma_irq_queue' \subseteq Channel \X Nat /\ cdvd_done_at' \in Times
          /\ last_sample' \in Nat /\ spu_due' \in [Core -> Times]
      BY DEF TypeOK, PendingOK
    <2> QED
      BY <1>1, <2>2, <2>3, EventsAreTimes DEF TickEvents
  <1>3. PICK due \in TickEvents : /\ \A e \in TickEvents : due =< e
                                  /\ timers_due' = IF due > now THEN due ELSE now + 1
    BY DEF TickTimers, TickEvents
  <1>4. now + MAX_TICK_GAP \in TickEvents
    BY DEF TickEvents, NextEvents
  <1> HIDE DEF TickEvents
  <1>5. \A e \in TickEvents : e \in Int /\ (e > now => timers_due' =< e)
    BY <1>1, <1>2, <1>3
  <1> QED
    BY <1>1, <1>4, <1>5

LEMMA AfterTick ==
    ASSUME TypeOK, TickTimers, NEW e \in Nat, now < e, timers_due' =< e
    PROVE  AwaitedNext(e)
  <1>1. ToGrid(e) \in Nat /\ e =< ToGrid(e)
    BY GridFacts
  <1> QED
    BY <1>1 DEF TypeOK, TimeOK, TickTimers, AwaitedNext

(***************************************************************************)
(* Deferred completions.                                                   *)
(***************************************************************************)
DeferredInv == /\ \A q \in dma_irq_queue : Awaited(q[2])
               /\ cdvd_done_at # Never => Awaited(cdvd_done_at)
               /\ \A c \in Core : spu_due[c] # Never => Awaited(spu_due[c])

LEMMA DeferredNext ==
    DeferredInv' <=> /\ \A q \in dma_irq_queue' : AwaitedNext(q[2])
                     /\ cdvd_done_at' # Never => AwaitedNext(cdvd_done_at')
                     /\ \A c \in Core : spu_due'[c] # Never => AwaitedNext(spu_due'[c])
  BY DEF DeferredInv, Awaited, AwaitedNext, ToGrid

LEMMA PendingTimes ==
    ASSUME TypeOK
    PROVE  /\ \A q \in dma_irq_queue : q[2] \in Nat
           /\ cdvd_done_at # Never => cdvd_done_at \in Nat
           /\ \A c \in Core : spu_due[c] # Never => spu_due[c] \in Nat
  <1>1. \A q \in Channel \X Nat : q[2] \in Nat
    OBVIOUS
  <1> QED
    BY <1>1 DEF TypeOK, PendingOK, Times

LEMMA DeferredStep ==
    ASSUME TypeOK, TypeOK', DeferredInv, [Next]_vars
    PROVE  DeferredInv'
  <1>0. now \in Nat
    BY DEF TypeOK, TimeOK
  <1>1. ASSUME UNCHANGED pending,
               \/ Software /\ timers_due' \in {0, timers_due}
               \/ Elapse
               \/ UNCHANGED vars
        PROVE  DeferredInv'
    <2>1. \A e \in Nat : Awaited(e) => AwaitedNext(e)
      BY <1>1, StillAwaited
    <2> QED
      BY <1>1, <2>1, PendingTimes, DeferredNext DEF DeferredInv, pending
  <1>2. ASSUME NEW ch \in Channel, DmaComplete(ch)
        PROVE  DeferredInv'
    <2>1. now + DMA_LATENCY \in Nat /\ now =< now + DMA_LATENCY
      BY <1>0, TimerAssumption
    <2>2. AwaitedNext(now + DMA_LATENCY)
      BY <1>2, <2>1, NewlyAwaited DEF DmaComplete
    <2>3. \A e \in Nat : Awaited(e) => AwaitedNext(e)
      BY <1>2, StillAwaited DEF DmaComplete, reschedule
    <2>4. \A q \in dma_irq_queue' : AwaitedNext(q[2])
      <3>1. dma_irq_queue' = dma_irq_queue \cup {<<ch, now + DMA_LATENCY>>}
        BY <1>2 DEF DmaComplete
      <3>2. \A q \in dma_irq_queue : AwaitedNext(q[2])
        BY <2>3, PendingTimes DEF DeferredInv
      <3> QED
        BY <2>2, <3>1, <3>2
    <2> QED
      BY <1>2, <2>3, <2>4, PendingTimes, DeferredNext DEF DmaComplete, DeferredInv
  <1>3. CASE DriveCommand
    <2>1. PICK latency \in DriveLatencies : cdvd_done_at' = now + latency
      BY <1>3 DEF DriveCommand
    <2>2. now + latency \in Nat /\ now =< now + latency
      BY <1>0, TimerAssumption
    <2>3. AwaitedNext(cdvd_done_at')
      BY <1>3, <2>1, <2>2, NewlyAwaited DEF DriveCommand
    <2>4. \A e \in Nat : Awaited(e) => AwaitedNext(e)
      BY <1>3, StillAwaited DEF DriveCommand, reschedule
    <2> QED
      BY <1>3, <2>3, <2>4, PendingTimes, DeferredNext DEF DriveCommand, DeferredInv
  <1>4. ASSUME NEW c \in Core, SpuTransfer(c)
        PROVE  DeferredInv'
    <2>1. PICK latency \in SpuLatencies :
             spu_due' = [spu_due EXCEPT ![c] = (IF @ > now THEN @ ELSE now) + latency]
      BY <1>4 DEF SpuTransfer
    <2> DEFINE e == (IF spu_due[c] > now THEN spu_due[c] ELSE now) + latency
    <2>2. e \in Nat /\ now =< e
      BY <1>0, TimerAssumption DEF TypeOK, PendingOK, Times, Never
    <2>3. AwaitedNext(e)
      <3> HIDE DEF e
      <3> QED
        BY <1>4, <2>2, NewlyAwaited DEF SpuTransfer
    <2>4. \A x \in Nat : Awaited(x) => AwaitedNext(x)
      BY <1>4, StillAwaited DEF SpuTransfer, reschedule
    <2>5. \A x \in Core : spu_due'[x] = IF x = c THEN e ELSE spu_due[x]
      BY <2>1 DEF TypeOK, PendingOK
    <2> HIDE DEF e
    <2>6. \A x \in Core : spu_due'[x] # Never => AwaitedNext(spu_due'[x])
      BY <2>3, <2>4, <2>5, PendingTimes DEF DeferredInv
    <2> QED
      BY <1>4, <2>4, <2>6, PendingTimes, DeferredNext DEF SpuTransfer, DeferredInv
  <1>5. CASE TickTimers
    <2>1. \A e \in Nat : e \in TickEvents /\ now < e => AwaitedNext(e)
      BY <1>0, <1>5, TickDue, AfterTick
    <2>2. \A q \in dma_irq_queue' : AwaitedNext(q[2])
      <3> SUFFICES ASSUME NEW q \in dma_irq_queue' PROVE AwaitedNext(q[2])
        OBVIOUS
      <3>1. q \in dma_irq_queue /\ ~(q[2] =< now)
        BY <1>5 DEF TickTimers, DueDma
      <3>2. q[2] \in TickEvents
        BY DEF TickEvents, NextEvents
      <3> QED
        BY <1>0, <2>1, <3>1, <3>2, PendingTimes
    <2>3. cdvd_done_at' # Never => AwaitedNext(cdvd_done_at')
      <3> SUFFICES ASSUME cdvd_done_at' # Never PROVE AwaitedNext(cdvd_done_at')
        OBVIOUS
      <3>1. cdvd_done_at' = cdvd_done_at /\ ~(cdvd_done_at =< now)
        BY <1>5 DEF TickTimers, DriveDue
      <3>2. cdvd_done_at' \in TickEvents
        BY DEF TickEvents, NextEvents
      <3> QED
        BY <1>0, <2>1, <3>1, <3>2, PendingTimes
    <2>4. \A c \in Core : spu_due'[c] # Never => AwaitedNext(spu_due'[c])
      <3> SUFFICES ASSUME NEW c \in Core, spu_due'[c] # Never PROVE AwaitedNext(spu_due'[c])
        OBVIOUS
      <3>1. spu_due'[c] = spu_due[c] /\ ~(spu_due[c] =< now)
        BY <1>5 DEF TickTimers, SpuDone
      <3>2. spu_due'[c] \in TickEvents
        BY DEF TickEvents, NextEvents
      <3> QED
        BY <1>0, <2>1, <3>1, <3>2, PendingTimes
    <2> QED
      BY <2>2, <2>3, <2>4, DeferredNext
  <1>6. CASE \E t \in EeTimers : EeWrite(t)
    BY <1>1, <1>6 DEF EeWrite, reschedule
  <1>7. CASE \E t \in IopTimers : IopWrite(t) \/ IopReadMode(t)
    BY <1>1, <1>7 DEF IopWrite, IopReadMode, reschedule
  <1>8. CASE SetRegion \/ Acknowledge
    BY <1>1, <1>8 DEF SetRegion, Acknowledge
  <1>9. CASE Elapse
    BY <1>1, <1>9 DEF Elapse
  <1>10. CASE AtBound \/ UNCHANGED vars
    BY <1>1, <1>10 DEF AtBound, vars
  <1> QED
    BY <1>2, <1>3, <1>4, <1>5, <1>6, <1>7, <1>8, <1>9, <1>10 DEF Next

\* The completion of a DMA transfer, of a drive command or of an SPU2 transfer
\* is delivered at the first grid cycle after it is due, whatever the latencies,
\* the grid and the program (every deferral resets timers_due, and tick_timers
\* leaves nothing out of the due time it computes).
THEOREM DeferredInTime == Spec => []DeferredOnTime
  <1>1. Init => TypeOK /\ DeferredInv
    BY InitTypes DEF Init, DeferredInv
  <1>2. TypeOK /\ DeferredInv /\ [Next]_vars => (TypeOK /\ DeferredInv)'
    BY TypesKept, DeferredStep
  <1>3. DeferredInv => DeferredOnTime
    BY DEF DeferredInv, DeferredOnTime, OnTime, Awaited
  <1> QED
    BY <1>1, <1>2, <1>3, PTL DEF Spec

(***************************************************************************)
(* The compare of the EE timers.                                           *)
(***************************************************************************)
EeTimerInv(t) ==
    /\ ee_timers[t].base_cycle =< now
    /\ \A d \in due_at(ee_timers[t], now, region) : timers_due =< d
    /\ ee_match[t] # Never => Awaited(ee_match[t])

\* The tick is never due later than the look-ahead.
GapInv == timers_due =< now + MAX_TICK_GAP

EeInv == GapInv /\ \A t \in EeTimers : EeTimerInv(t)

\* The same of the next state, in terms of the next timers and histories.
EeNext(tm, match) ==
    /\ tm.base_cycle =< now'
    /\ \A d \in due_at(tm, now', region') : timers_due' =< d
    /\ match # Never => AwaitedNext(match)

LEMMA EeNextInv ==
    ASSUME GapInv', \A t \in EeTimers' : EeNext(ee_timers'[t], ee_match'[t])
    PROVE  EeInv'
  <1>1. \A t \in EeTimers' : EeNext(ee_timers'[t], ee_match'[t]) => EeTimerInv(t)'
    BY DEF EeTimerInv, EeNext, Awaited, AwaitedNext, ToGrid, due_at, Live, count, Since,
           cycles_per_tick
  <1> QED
    BY <1>1 DEF EeInv

\* The next compare lies ahead.
LEMMA EeDueAhead ==
    ASSUME NEW tm \in EeTimerType, NEW c \in Nat, NEW r \in Region, tm.base_cycle =< c
    PROVE  \A d \in due_at(tm, c, r) : d \in Int /\ c < d
  <1>1. CASE Live(tm)
    BY <1>1, EeCovers
  <1>2. CASE ~Live(tm)
    BY <1>2 DEF due_at
  <1> QED
    BY <1>1, <1>2

LEMMA EeShape ==
    ASSUME TypeOK
    PROVE  /\ now \in Nat /\ region \in Region /\ timers_due \in Nat
           /\ \A t \in EeTimers : ee_timers[t] \in EeTimerType /\ ee_match[t] \in Times
                                  /\ ee_timers[t].base_cycle \in Nat
  BY UseFacts DEF TypeOK, TimeOK, TimersOK, HistoryOK, EeTimerType

LEMMA SameEeTimers ==
    ASSUME TypeOK, TypeOK', [Next]_vars
    PROVE  EeTimers' = EeTimers /\ IopTimers' = IopTimers /\ Does' = Does
  <1>1. use' = use
    BY DEF Next, EeWrite, IopWrite, IopReadMode, SetRegion, DmaComplete, DriveCommand, SpuTransfer,
           Acknowledge, TickTimers, Elapse, AtBound, Software, vars
  <1>2. Does' = Does
    BY <1>1 DEF Does
  <1> QED
    BY <1>2, UseFacts DEF TypeOK, TimersOK, EeTimers, IopTimers

\* Software that resets the due time: a timer may be restarted now, and its
\* history forgotten.
LEMMA EeRescheduled ==
    ASSUME TypeOK, TypeOK', EeInv, [Next]_vars, Software, reschedule, region' = region,
           \A t \in EeTimers : /\ ee_timers'[t].base_cycle \in {ee_timers[t].base_cycle, now}
                               /\ ee_match'[t] \in {ee_match[t], Never}
    PROVE  EeInv'
  <1>1. now' = now /\ timers_due' = 0 /\ now \in Nat /\ region \in Region /\ MAX_TICK_GAP \in Nat
    BY EeShape, TimerAssumption DEF Software, time, reschedule
  <1>2. GapInv'
    BY <1>1 DEF GapInv
  <1>3. ASSUME NEW t \in EeTimers PROVE EeNext(ee_timers'[t], ee_match'[t])
    <2>1. ee_timers'[t] \in EeTimerType
      BY SameEeTimers, EeShape, UseFacts DEF TypeOK, TimersOK
    <2>2. ee_timers'[t].base_cycle =< now
      BY <1>1, EeShape DEF EeInv, EeTimerInv
    <2>3. \A d \in due_at(ee_timers'[t], now', region') : timers_due' =< d
      BY <1>1, <2>1, <2>2, EeDueAhead
    <2>4. ee_match'[t] # Never => AwaitedNext(ee_match'[t])
      <3> SUFFICES ASSUME ee_match'[t] # Never PROVE AwaitedNext(ee_match[t])
        OBVIOUS
      <3>1. ee_match[t] \in Nat /\ Awaited(ee_match[t])
        BY EeShape DEF Times, EeInv, EeTimerInv
      <3> QED
        BY <3>1, StillAwaited DEF reschedule
    <2> QED
      BY <1>1, <2>2, <2>3, <2>4 DEF EeNext
  <1> QED
    BY <1>2, <1>3, SameEeTimers, EeNextInv

LEMMA EeStep ==
    ASSUME TypeOK, TypeOK', EeInv, [Next]_vars
    PROVE  EeInv'
  <1>0. now \in Nat /\ region \in Region /\ MAX_TICK_GAP \in Nat /\ timers_due \in Nat
    BY EeShape, TimerAssumption
  <1>1. CASE \E t \in EeTimers : EeWrite(t)
    <2>1. PICK t \in EeTimers : EeWrite(t)
      BY <1>1
    <2>2. \/ \E v \in Does.values : ee_timers' = [ee_timers EXCEPT ![t] = write_count(@, v, now)]
          \/ \E v \in Does.values : ee_timers' = [ee_timers EXCEPT ![t] = write_comp(@, v)]
          \/ \E m \in Does.ee_modes : ee_timers' = [ee_timers EXCEPT ![t] = write_mode(@, m, now)]
      BY <2>1 DEF EeWrite
    <2>3. ASSUME NEW u \in EeTimers
          PROVE  ee_timers'[u].base_cycle \in {ee_timers[u].base_cycle, now}
      <3>1. ee_timers[t] \in EeTimerType /\ ee_timers[u] \in EeTimerType
        BY EeShape
      <3>2. \A v \in Does.values : /\ write_count(ee_timers[t], v, now).base_cycle = now
                                   /\ write_comp(ee_timers[t], v).base_cycle = ee_timers[t].base_cycle
        BY <3>1 DEF write_count, write_comp, EeTimerType
      <3>3. \A m \in Does.ee_modes : write_mode(ee_timers[t], m, now).base_cycle = now
        BY <3>1 DEF write_mode, EeTimerType
      <3> QED
        BY <2>2, <3>2, <3>3 DEF EeTimers
    <2>4. \A u \in EeTimers : ee_match'[u] \in {ee_match[u], Never}
      BY <2>1, UseFacts DEF EeWrite, TypeOK, HistoryOK
    <2> QED
      BY <2>1, <2>3, <2>4, EeRescheduled DEF EeWrite
  <1>2. CASE \/ \E t \in IopTimers : IopWrite(t)
             \/ \E ch \in Channel : DmaComplete(ch)
             \/ DriveCommand
             \/ \E c \in Core : SpuTransfer(c)
    <2>1. /\ Software /\ reschedule /\ region' = region
          /\ ee_timers' = ee_timers /\ ee_match' = ee_match
      BY <1>2 DEF IopWrite, DmaComplete, DriveCommand, SpuTransfer, timers, history
    <2> QED
      BY <2>1, EeRescheduled
  <1>3. CASE (\E t \in IopTimers : IopReadMode(t)) \/ Acknowledge \/ AtBound \/ UNCHANGED vars
    <2>1. /\ turn' = turn /\ now' = now /\ region' = region /\ timers_due' = timers_due
          /\ ee_timers' = ee_timers /\ ee_match' = ee_match
      BY <1>3 DEF IopReadMode, Acknowledge, AtBound, Software, time, timers, history, vars
    <2>2. \A t \in EeTimers : EeNext(ee_timers'[t], ee_match'[t])
      BY <2>1 DEF EeInv, EeTimerInv, EeNext, Awaited, AwaitedNext
    <2> QED
      BY <2>1, <2>2, SameEeTimers, EeNextInv DEF EeInv, GapInv
  <1>4. CASE SetRegion
    <2>1. /\ Software /\ now' = now /\ timers_due' = timers_due /\ ee_match' = ee_match
          /\ region' \in Region
          /\ \A t \in EeTimers : ee_timers'[t] = rebase(ee_timers[t], now, region)
      BY <1>4 DEF SetRegion, Software, time, history
    <2>2. ASSUME NEW t \in EeTimers PROVE EeNext(ee_timers'[t], ee_match'[t])
      <3> DEFINE tm == ee_timers[t]
                 new == ee_timers'[t]
      <3>1. tm \in EeTimerType /\ tm.base_cycle =< now
            /\ \A d \in due_at(tm, now, region) : timers_due =< d
        BY EeShape DEF EeInv, EeTimerInv
      <3>2. new = rebase(tm, now, region) /\ new.base_cycle = now /\ (Live(new) <=> Live(tm))
        BY <2>1, <3>1 DEF rebase, EeTimerType, Live
      <3>3. \A d \in due_at(new, now, region') : timers_due =< d
        <4>1. \A e \in due_at(rebase(tm, now, region), now, region') :
                /\ e \in Int
                /\ now + MAX_TICK_GAP =< e \/ \E d \in due_at(tm, now, region) : d \in Int /\ d =< e
          BY <1>0, <2>1, <3>1, EeRebaseCovers
        <4> QED
          BY <1>0, <3>1, <3>2, <4>1 DEF EeInv, GapInv
      <3>4. ee_match'[t] # Never => AwaitedNext(ee_match'[t])
        <4>1. ee_match[t] # Never => ee_match[t] \in Nat /\ Awaited(ee_match[t])
          BY EeShape DEF Times, EeInv, EeTimerInv
        <4> QED
          BY <2>1, <4>1, StillAwaited
      <3> QED
        BY <1>0, <2>1, <3>2, <3>3, <3>4 DEF EeNext
    <2> QED
      BY <2>1, <2>2, SameEeTimers, EeNextInv DEF EeInv, GapInv
  <1>5. CASE TickTimers
    <2>1. /\ now' = now /\ region' = region
          /\ \A t \in EeTimers : ee_timers'[t] = check(ee_timers[t], now, region)
          /\ \A t \in EeTimers : ee_match'[t] = Never
      BY <1>5 DEF TickTimers
    <2>2. ASSUME NEW t \in EeTimers PROVE EeNext(ee_timers'[t], ee_match'[t])
      <3>1. ee_timers'[t] \in EeTimerType
        BY SameEeTimers, UseFacts DEF TypeOK, TimersOK
      <3>2. ee_timers'[t].base_cycle =< now
        <4>1. ee_timers[t] \in EeTimerType /\ ee_timers[t].base_cycle =< now
          BY EeShape DEF EeInv, EeTimerInv
        <4>2. check(ee_timers[t], now, region).base_cycle \in {ee_timers[t].base_cycle, now}
          BY <4>1 DEF check, EeTimerType
        <4> QED
          BY <1>0, <2>1, <4>1, <4>2
      <3>3. \A d \in due_at(ee_timers'[t], now, region) : d \in TickEvents
        BY DEF TickEvents, NextEvents
      <3>4. \A d \in due_at(ee_timers'[t], now, region) : timers_due' =< d
        BY <1>0, <1>5, <3>1, <3>2, <3>3, EeDueAhead, TickDue
      <3> QED
        BY <2>1, <3>2, <3>4 DEF EeNext
    <2> QED
      BY <1>5, <2>1, <2>2, SameEeTimers, EeNextInv, TickDue DEF GapInv
  <1>6. CASE Elapse
    <2>1. /\ now' = now + 1 /\ region' = region /\ timers_due' = timers_due /\ turn' = "software"
          /\ ee_timers' = ee_timers
          /\ \A t \in EeTimers : ee_match'[t] =
                IF ee_match[t] = Never /\ Live(ee_timers[t])
                     /\ Reaches(count(ee_timers[t], now, region),
                                count(ee_timers[t], now + 1, region), ee_timers[t].comp)
                THEN now + 1 ELSE ee_match[t]
      BY <1>6 DEF Elapse, timers, EeCount
    <2>2. ASSUME NEW t \in EeTimers PROVE EeNext(ee_timers'[t], ee_match'[t])
      <3> DEFINE tm == ee_timers[t]
                 reached == Reaches(count(tm, now, region), count(tm, now + 1, region), tm.comp)
      <3>1. tm \in EeTimerType /\ tm.base_cycle \in Nat /\ tm.base_cycle =< now
            /\ \A d \in due_at(tm, now, region) : timers_due =< d
        BY EeShape DEF EeInv, EeTimerInv
      <3>2. /\ \A d \in due_at(tm, now + 1, region) : timers_due =< d
            /\ Live(tm) /\ reached => timers_due =< now + 1
        <4>1. CASE Live(tm)
          <5>1. PICK d \in Int, e \in Int :
                   /\ due_at(tm, now, region) = {d} /\ due_at(tm, now + 1, region) = {e}
                   /\ now < d /\ d =< e /\ (reached => d =< now + 1)
            BY <1>0, <3>1, <4>1, EeCovers
          <5>2. timers_due =< d
            BY <3>1, <5>1
          <5> HIDE DEF reached
          <5> QED
            BY <1>0, <5>1, <5>2
        <4>2. CASE ~Live(tm)
          BY <4>2 DEF due_at
        <4> QED
          BY <4>1, <4>2
      <3>3. ee_match'[t] # Never => AwaitedNext(ee_match'[t])
        <4>1. CASE ee_match'[t] = ee_match[t]
          <5>1. ee_match[t] # Never => ee_match[t] \in Nat /\ Awaited(ee_match[t])
            BY EeShape DEF Times, EeInv, EeTimerInv
          <5> QED
            BY <1>6, <4>1, <5>1, StillAwaited
        <4>2. CASE Live(tm) /\ reached /\ ee_match'[t] = now + 1
          <5>1. now + 1 \in Nat /\ timers_due =< now + 1
            BY <1>0, <3>2, <4>2
          <5>2. ToGrid(now + 1) \in Nat /\ now + 1 =< ToGrid(now + 1)
            BY <5>1, GridFacts
          <5> QED
            BY <2>1, <4>2, <5>1, <5>2 DEF AwaitedNext
        <4> QED
          BY <2>1, <4>1, <4>2
      <3> QED
        BY <1>0, <2>1, <3>1, <3>2, <3>3 DEF EeNext
    <2>3. GapInv'
      BY <1>0, <2>1 DEF EeInv, GapInv
    <2> QED
      BY <2>2, <2>3, SameEeTimers, EeNextInv
  <1> QED
    BY <1>1, <1>2, <1>3, <1>4, <1>5, <1>6 DEF Next

(***************************************************************************)
(* The target and the wrap of the IOP timers.  The tick takes their next   *)
(* event before it resets the count of a zero-return timer, which is right *)
(* only where no timer is one.                                             *)
(***************************************************************************)
NoZeroReturn == \A u \in DOMAIN Uses : \A m \in Uses[u].iop_modes : ~m.zret

IopTimerInv(t) ==
    /\ iop_timers[t].base_cycle =< now
    /\ ~iop_timers[t].mode.zret
    /\ iop_timers[t].mode.on => timers_due =< iop_due_at(iop_timers[t], now, region)
    /\ iop_match[t] # Never => Awaited(iop_match[t])
    /\ iop_wrap[t] # Never => Awaited(iop_wrap[t])

IopInv == GapInv /\ \A t \in IopTimers : IopTimerInv(t)

\* The same of the next state, in terms of the next timers and histories.
IopNext(tm, match, wrap) ==
    /\ tm.base_cycle =< now'
    /\ ~tm.mode.zret
    /\ tm.mode.on => timers_due' =< iop_due_at(tm, now', region')
    /\ match # Never => AwaitedNext(match)
    /\ wrap # Never => AwaitedNext(wrap)

LEMMA IopNextInv ==
    ASSUME GapInv', \A t \in IopTimers' : IopNext(iop_timers'[t], iop_match'[t], iop_wrap'[t])
    PROVE  IopInv'
  <1>1. \A t \in IopTimers' :
           IopNext(iop_timers'[t], iop_match'[t], iop_wrap'[t]) => IopTimerInv(t)'
    BY DEF IopTimerInv, IopNext, Awaited, AwaitedNext, ToGrid, iop_due_at, iop_count, Elapsed,
           iop_cycles_per_tick
  <1> QED
    BY <1>1 DEF IopInv

LEMMA IopShape ==
    ASSUME TypeOK
    PROVE  /\ now \in Nat /\ region \in Region /\ timers_due \in Nat
           /\ \A t \in IopTimers : /\ iop_timers[t] \in IopTimerType
                                   /\ iop_match[t] \in Times /\ iop_wrap[t] \in Times
                                   /\ iop_timers[t].base_cycle \in Nat
  BY UseFacts DEF TypeOK, TimeOK, TimersOK, HistoryOK, IopTimerType

\* What is noted of an IOP timer stays awaited as time and software go on.
LEMMA IopStillAwaited ==
    ASSUME TypeOK, IopInv, NEW t \in IopTimers,
           \/ Software /\ timers_due' \in {0, timers_due}
           \/ Elapse
           \/ UNCHANGED vars
    PROVE  /\ iop_match[t] # Never => AwaitedNext(iop_match[t])
           /\ iop_wrap[t] # Never => AwaitedNext(iop_wrap[t])
  <1>1. /\ iop_match[t] # Never => iop_match[t] \in Nat /\ Awaited(iop_match[t])
        /\ iop_wrap[t] # Never => iop_wrap[t] \in Nat /\ Awaited(iop_wrap[t])
    BY IopShape DEF Times, IopInv, IopTimerInv
  <1>2. \A e \in Nat : Awaited(e) => AwaitedNext(e)
    BY StillAwaited
  <1> QED
    BY <1>1, <1>2

LEMMA IopRescheduled ==
    ASSUME TypeOK, TypeOK', IopInv, [Next]_vars, Software, reschedule, region' = region,
           \A t \in IopTimers : /\ iop_timers'[t].base_cycle \in {iop_timers[t].base_cycle, now}
                                /\ ~iop_timers'[t].mode.zret
                                /\ iop_match'[t] \in {iop_match[t], Never}
                                /\ iop_wrap'[t] \in {iop_wrap[t], Never}
    PROVE  IopInv'
  <1>1. now' = now /\ timers_due' = 0 /\ now \in Nat /\ region \in Region /\ MAX_TICK_GAP \in Nat
    BY IopShape, TimerAssumption DEF Software, time, reschedule
  <1>2. GapInv'
    BY <1>1 DEF GapInv
  <1>3. ASSUME NEW t \in IopTimers PROVE IopNext(iop_timers'[t], iop_match'[t], iop_wrap'[t])
    <2>1. iop_timers'[t] \in IopTimerType
      BY SameEeTimers, UseFacts DEF TypeOK, TimersOK
    <2>2. iop_timers'[t].base_cycle =< now
      BY <1>1, IopShape DEF IopInv, IopTimerInv
    <2>3. timers_due' =< iop_due_at(iop_timers'[t], now', region')
      <3>1. now < iop_due_at(iop_timers'[t], now, region)
            /\ iop_due_at(iop_timers'[t], now, region) \in Int
        BY <1>1, <2>1, <2>2, IopCovers
      <3> QED
        BY <1>1, <3>1
    <2>4. /\ iop_match'[t] # Never => AwaitedNext(iop_match'[t])
          /\ iop_wrap'[t] # Never => AwaitedNext(iop_wrap'[t])
      BY IopStillAwaited DEF reschedule
    <2> QED
      BY <1>1, <2>2, <2>3, <2>4 DEF IopNext
  <1> QED
    BY <1>2, <1>3, SameEeTimers, IopNextInv

LEMMA IopStep ==
    ASSUME NoZeroReturn, TypeOK, TypeOK', IopInv, [Next]_vars
    PROVE  IopInv'
  <1>0. now \in Nat /\ region \in Region /\ MAX_TICK_GAP \in Nat /\ timers_due \in Nat
    BY IopShape, TimerAssumption
  <1>1. CASE \E t \in IopTimers : IopWrite(t)
    <2>1. PICK t \in IopTimers : IopWrite(t)
      BY <1>1
    <2>2. \/ \E v \in Does.values : iop_timers' = [iop_timers EXCEPT ![t] = iop_write_count(@, v, now)]
          \/ \E v \in Does.values : iop_timers' = [iop_timers EXCEPT ![t] = iop_write_target(@, v)]
          \/ \E m \in Does.iop_modes :
                iop_timers' = [iop_timers EXCEPT ![t] = iop_write_mode(@, m, now)]
      BY <2>1 DEF IopWrite
    <2>3. ASSUME NEW u \in IopTimers
          PROVE  /\ iop_timers'[u].base_cycle \in {iop_timers[u].base_cycle, now}
                 /\ ~iop_timers'[u].mode.zret
      <3>1. /\ iop_timers[t] \in IopTimerType /\ iop_timers[u] \in IopTimerType
            /\ ~iop_timers[t].mode.zret /\ ~iop_timers[u].mode.zret
        BY IopShape DEF IopInv, IopTimerInv
      <3>2. \A v \in Does.values :
               /\ iop_write_count(iop_timers[t], v, now).base_cycle = now
               /\ iop_write_count(iop_timers[t], v, now).mode = iop_timers[t].mode
               /\ iop_write_target(iop_timers[t], v).base_cycle = iop_timers[t].base_cycle
               /\ iop_write_target(iop_timers[t], v).mode = iop_timers[t].mode
        BY <3>1 DEF iop_write_count, iop_write_target, IopTimerType
      <3>3. \A m \in Does.iop_modes :
               /\ iop_write_mode(iop_timers[t], m, now).base_cycle = now
               /\ iop_write_mode(iop_timers[t], m, now).mode = m
        BY <3>1 DEF iop_write_mode, IopTimerType
      <3>4. \A m \in Does.iop_modes : ~m.zret
        BY DEF NoZeroReturn, Does, TypeOK, TimeOK
      <3> QED
        BY <2>2, <3>1, <3>2, <3>3, <3>4 DEF IopTimers
    <2>4. \A u \in IopTimers : /\ iop_match'[u] \in {iop_match[u], Never}
                               /\ iop_wrap'[u] \in {iop_wrap[u], Never}
      BY <2>1, UseFacts DEF IopWrite, TypeOK, HistoryOK
    <2> QED
      BY <2>1, <2>3, <2>4, IopRescheduled DEF IopWrite
  <1>2. CASE \/ \E t \in EeTimers : EeWrite(t)
             \/ \E ch \in Channel : DmaComplete(ch)
             \/ DriveCommand
             \/ \E c \in Core : SpuTransfer(c)
    <2>1. /\ Software /\ reschedule /\ region' = region
          /\ iop_timers' = iop_timers /\ iop_match' = iop_match /\ iop_wrap' = iop_wrap
      BY <1>2 DEF EeWrite, DmaComplete, DriveCommand, SpuTransfer, timers, history
    <2>2. \A t \in IopTimers : ~iop_timers[t].mode.zret
      BY DEF IopInv, IopTimerInv
    <2> QED
      BY <2>1, <2>2, IopRescheduled
  <1>3. CASE Acknowledge \/ AtBound \/ UNCHANGED vars
    <2>1. /\ turn' = turn /\ now' = now /\ region' = region /\ timers_due' = timers_due
          /\ iop_timers' = iop_timers /\ iop_match' = iop_match /\ iop_wrap' = iop_wrap
      BY <1>3 DEF Acknowledge, AtBound, Software, time, timers, history, vars
    <2>2. \A t \in IopTimers : IopNext(iop_timers'[t], iop_match'[t], iop_wrap'[t])
      BY <2>1 DEF IopInv, IopTimerInv, IopNext, Awaited, AwaitedNext
    <2> QED
      BY <2>1, <2>2, SameEeTimers, IopNextInv DEF IopInv, GapInv
  <1>4. ASSUME NEW u \in IopTimers, IopReadMode(u)
        PROVE  IopInv'
    <2>1. /\ turn' = turn /\ now' = now /\ region' = region /\ timers_due' = timers_due
          /\ iop_timers' = [iop_timers EXCEPT ![u] = iop_read_mode(@)]
          /\ iop_match' = iop_match /\ iop_wrap' = iop_wrap
      BY <1>4 DEF IopReadMode, Software, time, history
    <2>2. ASSUME NEW t \in IopTimers
          PROVE  IopNext(iop_timers'[t], iop_match'[t], iop_wrap'[t])
      <3> DEFINE tm == iop_timers[t]
                 new == iop_timers'[t]
      <3>1. tm \in IopTimerType /\ (new = tm \/ new = iop_read_mode(tm))
        BY <2>1, IopShape DEF IopTimers
      <3>2. /\ new.base = tm.base /\ new.base_cycle = tm.base_cycle /\ new.target = tm.target
            /\ new.mode.on = tm.mode.on /\ new.mode.zret = tm.mode.zret /\ new.mode.clk = tm.mode.clk
        <4>1. CASE new = tm
          BY <4>1
        <4>2. CASE new = iop_read_mode(tm)
          <5> HIDE DEF new
          <5>1. iop_read_mode(tm) = [tm EXCEPT !.mode = [tm.mode EXCEPT !.target_hit = FALSE,
                                                                       !.wrapped = FALSE]]
            BY <3>1 DEF iop_read_mode, IopTimerType, IopMode
          <5> QED
            BY <3>1, <4>2, <5>1 DEF IopTimerType, IopMode
        <4> QED
          BY <3>1, <4>1, <4>2
      <3>3. iop_due_at(new, now, region) = iop_due_at(tm, now, region)
        BY <3>2 DEF iop_due_at, iop_count, iop_cycles_per_tick
      <3> HIDE DEF new
      <3> QED
        BY <2>1, <3>2, <3>3 DEF IopInv, IopTimerInv, IopNext, Awaited, AwaitedNext, new
    <2> QED
      BY <2>1, <2>2, SameEeTimers, IopNextInv DEF IopInv, GapInv
  <1>5. CASE SetRegion
    <2>1. /\ Software /\ now' = now /\ timers_due' = timers_due
          /\ iop_match' = iop_match /\ iop_wrap' = iop_wrap
          /\ region' \in Region
          /\ \A t \in IopTimers : iop_timers'[t] = iop_rebase(iop_timers[t], now, region)
      BY <1>5 DEF SetRegion, Software, time, history
    <2>2. ASSUME NEW t \in IopTimers
          PROVE  IopNext(iop_timers'[t], iop_match'[t], iop_wrap'[t])
      <3> DEFINE tm == iop_timers[t]
                 new == iop_rebase(tm, now, region)
      <3>1. /\ tm \in IopTimerType /\ tm.base_cycle =< now /\ ~tm.mode.zret
            /\ tm.mode.on => timers_due =< iop_due_at(tm, now, region)
        BY IopShape DEF IopInv, IopTimerInv
      <3>2. new.base_cycle = now /\ new.mode = tm.mode /\ new \in IopTimerType
        <4>1. new.base_cycle = now /\ new.mode = tm.mode
          BY <3>1 DEF iop_rebase, IopTimerType
        <4>2. new \in IopTimerType
          BY <1>0, <3>1, IopRebase
        <4> QED
          BY <4>1, <4>2
      <3>3. \/ iop_due_at(tm, now, region) =< iop_due_at(new, now, region')
            \/ now + MAX_TICK_GAP =< iop_due_at(new, now, region')
        BY <1>0, <2>1, <3>1, IopRebaseCovers
      <3>4. iop_due_at(tm, now, region) \in Int /\ iop_due_at(new, now, region') \in Int
        BY <1>0, <2>1, <3>1, <3>2, IopDue
      <3> HIDE DEF new
      <3>5. new.mode.on => timers_due =< iop_due_at(new, now, region')
        BY <1>0, <3>1, <3>2, <3>3, <3>4 DEF IopInv, GapInv
      <3>6. /\ iop_match'[t] # Never => AwaitedNext(iop_match'[t])
            /\ iop_wrap'[t] # Never => AwaitedNext(iop_wrap'[t])
        BY <2>1, IopStillAwaited
      <3>7. iop_timers'[t] = new
        BY <2>1 DEF new
      <3> QED
        BY <1>0, <2>1, <3>1, <3>2, <3>5, <3>6, <3>7 DEF IopNext
    <2> QED
      BY <2>1, <2>2, SameEeTimers, IopNextInv DEF IopInv, GapInv
  <1>6. CASE TickTimers
    <2>1. /\ now' = now /\ region' = region
          /\ \A t \in IopTimers : /\ iop_timers'[t] = iop_check(iop_timers[t], now, region)
                                  /\ iop_match'[t] = Never /\ iop_wrap'[t] = Never
      BY <1>6 DEF TickTimers
    <2>2. ASSUME NEW t \in IopTimers
          PROVE  IopNext(iop_timers'[t], iop_match'[t], iop_wrap'[t])
      <3> DEFINE tm == iop_timers[t]
                 new == iop_check(tm, now, region)
      <3>1. tm \in IopTimerType /\ tm.base_cycle =< now /\ ~tm.mode.zret
        BY IopShape DEF IopInv, IopTimerInv
      <3>2. /\ new.base = tm.base /\ new.base_cycle = tm.base_cycle /\ new.target = tm.target
            /\ new.mode.on = tm.mode.on /\ new.mode.zret = tm.mode.zret /\ new.mode.clk = tm.mode.clk
        BY <3>1 DEF iop_check, IopTimerType, IopMode
      <3>3. iop_due_at(new, now, region) = iop_due_at(tm, now, region)
        BY <3>2 DEF iop_due_at, iop_count, iop_cycles_per_tick
      <3>4. now < iop_due_at(tm, now, region) /\ iop_due_at(tm, now, region) \in Int
        BY <1>0, <3>1, IopCovers
      <3>5. tm.mode.on => iop_due_at(tm, now, region) \in TickEvents
        BY DEF TickEvents, NextEvents
      <3>6. tm.mode.on => timers_due' =< iop_due_at(tm, now, region)
        BY <1>6, <3>4, <3>5, TickDue
      <3>7. iop_timers'[t] = new
        BY <2>1
      <3> HIDE DEF new
      <3> QED
        BY <2>1, <3>1, <3>2, <3>3, <3>6, <3>7 DEF IopNext
    <2> QED
      BY <1>6, <2>1, <2>2, SameEeTimers, IopNextInv, TickDue DEF GapInv
  <1>7. CASE Elapse
    <2>1. /\ now' = now + 1 /\ region' = region /\ timers_due' = timers_due /\ turn' = "software"
          /\ iop_timers' = iop_timers
          /\ \A t \in IopTimers : iop_match'[t] =
                IF iop_match[t] = Never /\ iop_timers[t].mode.on
                     /\ Reaches(iop_count(iop_timers[t], now, region),
                                iop_count(iop_timers[t], now + 1, region), iop_timers[t].target)
                THEN now + 1 ELSE iop_match[t]
          /\ \A t \in IopTimers : iop_wrap'[t] =
                IF iop_wrap[t] = Never /\ iop_timers[t].mode.on
                     /\ Reaches(iop_count(iop_timers[t], now, region),
                                iop_count(iop_timers[t], now + 1, region), 0)
                THEN now + 1 ELSE iop_wrap[t]
      BY <1>7 DEF Elapse, timers, IopCountOf
    <2>2. ASSUME NEW t \in IopTimers
          PROVE  IopNext(iop_timers'[t], iop_match'[t], iop_wrap'[t])
      <3> DEFINE tm == iop_timers[t]
                 d == iop_due_at(tm, now, region)
                 e == iop_due_at(tm, now + 1, region)
                 reached(v) == Reaches(iop_count(tm, now, region), iop_count(tm, now + 1, region), v)
      <3>1. /\ tm \in IopTimerType /\ tm.base_cycle \in Nat /\ tm.base_cycle =< now /\ ~tm.mode.zret
            /\ tm.mode.on => timers_due =< d
        BY IopShape DEF IopInv, IopTimerInv
      <3>2. d \in Int /\ e \in Int /\ d =< e /\ (\A v \in {tm.target, 0} : reached(v) => d =< now + 1)
        BY <1>0, <3>1, IopCovers
      <3> HIDE DEF d, e, reached
      <3>3. tm.mode.on => timers_due =< e
        BY <1>0, <3>1, <3>2
      <3>4. tm.mode.on /\ (reached(tm.target) \/ reached(0)) => AwaitedNext(now + 1)
        <4> SUFFICES ASSUME tm.mode.on, reached(tm.target) \/ reached(0)
                     PROVE  AwaitedNext(now + 1)
          OBVIOUS
        <4>1. now + 1 \in Nat /\ timers_due =< now + 1
          BY <1>0, <3>1, <3>2
        <4>2. ToGrid(now + 1) \in Nat /\ now + 1 =< ToGrid(now + 1)
          BY <4>1, GridFacts
        <4> QED
          BY <2>1, <4>1, <4>2 DEF AwaitedNext
      <3>5. /\ iop_match[t] # Never => AwaitedNext(iop_match[t])
            /\ iop_wrap[t] # Never => AwaitedNext(iop_wrap[t])
        BY <1>7, IopStillAwaited
      <3>6. iop_match'[t] # Never => AwaitedNext(iop_match'[t])
        BY <2>1, <3>4, <3>5 DEF reached
      <3>7. iop_wrap'[t] # Never => AwaitedNext(iop_wrap'[t])
        BY <2>1, <3>4, <3>5 DEF reached
      <3>8. tm.base_cycle =< now + 1
        BY <1>0, <3>1
      <3> QED
        BY <2>1, <3>1, <3>3, <3>6, <3>7, <3>8 DEF IopNext, e
    <2>3. GapInv'
      BY <1>0, <2>1 DEF IopInv, GapInv
    <2> QED
      BY <2>2, <2>3, SameEeTimers, IopNextInv
  <1> QED
    BY <1>1, <1>2, <1>3, <1>4, <1>5, <1>6, <1>7 DEF Next

LEMMA InitAwaited == Init => EeInv /\ IopInv
  <1> SUFFICES ASSUME Init PROVE EeInv /\ IopInv
    OBVIOUS
  <1>1. /\ now = 0 /\ timers_due = 0 /\ MAX_TICK_GAP \in Nat
        /\ \A t \in EeTimers : ee_timers[t] = EeReset(ResetClock) /\ ee_match[t] = Never
        /\ \A t \in IopTimers : /\ iop_timers[t] = IopReset(IopResetClock)
                                /\ iop_match[t] = Never /\ iop_wrap[t] = Never
    BY TimerAssumption DEF Init, EeTimers, IopTimers
  <1>2. GapInv
    BY <1>1 DEF GapInv
  <1>3. \A t \in EeTimers : EeTimerInv(t)
    BY <1>1 DEF EeTimerInv, EeReset, due_at, Live
  <1>4. \A t \in IopTimers : IopTimerInv(t)
    BY <1>1 DEF IopTimerInv, IopReset
  <1> QED
    BY <1>2, <1>3, <1>4 DEF EeInv, IopInv

\* The tick runs at the first grid cycle at which COUNT of an EE timer has
\* reached COMP, with every program, width, rate and grid (next_event, the
\* reschedule of every register write, and the change of region that needs
\* none).
THEOREM EeComparesInTime == Spec => []EeCompareOnTime
  <1>1. Init => TypeOK /\ EeInv
    BY InitTypes, InitAwaited
  <1>2. TypeOK /\ EeInv /\ [Next]_vars => (TypeOK /\ EeInv)'
    BY TypesKept, EeStep
  <1>3. EeInv => EeCompareOnTime
    BY DEF EeInv, EeTimerInv, EeCompareOnTime, OnTime, Awaited
  <1> QED
    BY <1>1, <1>2, <1>3, PTL DEF Spec

\* So it does for the target and the wrap of the IOP timers where none is in
\* zero-return mode; with one it does not, as run timer_zero_return shows.
THEOREM ComparesInTime ==
    ASSUME NoZeroReturn
    PROVE  Spec => []ComparesOnTime
  <1>1. Init => TypeOK /\ EeInv /\ IopInv
    BY InitTypes, InitAwaited
  <1>2. TypeOK /\ EeInv /\ IopInv /\ [Next]_vars => (TypeOK /\ EeInv /\ IopInv)'
    BY TypesKept, EeStep, IopStep
  <1>3. EeInv /\ IopInv => ComparesOnTime
    BY DEF EeInv, EeTimerInv, IopInv, IopTimerInv, ComparesOnTime, EeCompareOnTime, IopOnTime,
           OnTime, Awaited
  <1> QED
    BY <1>1, <1>2, <1>3, PTL DEF Spec

(***************************************************************************)
(* The flags.  Between two looks at a counter it counts fewer than a wrap, *)
(* so comparing what it shows at both tells what it passed.                *)
(***************************************************************************)
Counts(r, s, p) == (s \div p) - (r \div p)

LEMMA ShownBetween ==
    ASSUME NEW w \in Nat \ {0}, NEW p \in Nat \ {0}, NEW b \in Nat, NEW r \in Nat, NEW s \in Nat,
           r =< s, s - r < (w - 1) * p
    PROVE  /\ Counts(r, s, p) \in 0 .. (w - 1)
           /\ Shown(b, s, p, w) = IF Shown(b, r, p, w) + Counts(r, s, p) < w
                                  THEN Shown(b, r, p, w) + Counts(r, s, p)
                                  ELSE Shown(b, r, p, w) + Counts(r, s, p) - w
  <1> DEFINE q == s \div p
             o == r \div p
             k == q - o
  <1>1. q \in Nat /\ o \in Nat /\ k \in 0 .. (w - 1)
    BY DivMod, FewCounts
  <1> HIDE DEF q, o
  <1> DEFINE a == b + o
  <1>2. a \in Nat /\ b + q = a + k
    BY <1>1
  <1> HIDE DEF a, k
  <1>3. (a + k) % w = IF (a % w) + k < w THEN (a % w) + k ELSE (a % w) + k - w
    BY <1>1, <1>2, ModAdd
  <1>4. Shown(b, s, p, w) = (a + k) % w /\ Shown(b, r, p, w) = a % w /\ Counts(r, s, p) = k
    BY <1>2 DEF Shown, Counts, a, k, q, o
  <1> QED
    BY <1>1, <1>3, <1>4

\* The value was passed between the two looks.
Past(b, r, s, p, v, w) == Ahead(Shown(b, r, p, w), v, w) =< Counts(r, s, p)

LEMMA PastFacts ==
    ASSUME NEW w \in Nat \ {0}, NEW p \in Nat \ {0}, NEW b \in Nat, NEW r \in Nat, NEW s \in Nat,
           r =< s, s - r < (w - 1) * p, NEW v \in 0 .. (w - 1)
    PROVE  /\ Between(Shown(b, r, p, w), Shown(b, s, p, w), v) <=> Past(b, r, s, p, v, w)
           /\ Past(b, r, s, p, v, w) => Shown(b, r, p, w) # Shown(b, s, p, w)
           /\ Shown(b, s, p, w) < Shown(b, r, p, w) <=> Past(b, r, s, p, 0, w)
           /\ r = s => ~Past(b, r, s, p, v, w)
  <1> DEFINE k == Counts(r, s, p)
             n == Shown(b, r, p, w)
             m == Shown(b, s, p, w)
  <1>1. n \in 0 .. (w - 1) /\ m \in 0 .. (w - 1)
    BY ShownRange
  <1>2. k \in 0 .. (w - 1) /\ m = IF n + k < w THEN n + k ELSE n + k - w
    BY ShownBetween
  <1>3. r = s => k = 0
    <2>1. s \div p \in Nat
      BY DivMod
    <2> QED
      BY <2>1 DEF Counts
  <1>4. \A u : Past(b, r, s, p, u, w) <=> Ahead(n, u, w) =< k
    BY DEF Past
  <1> HIDE DEF k, n, m
  <1>5. /\ Between(n, m, v) <=> Ahead(n, v, w) =< k
        /\ n # m <=> k # 0
        /\ m < n <=> Ahead(n, 0, w) =< k
    BY <1>1, <1>2, Passing
  <1>6. Ahead(n, v, w) \in 1 .. w
    BY <1>1, AheadFacts
  <1>7. k = 0 => ~(Ahead(n, v, w) =< k)
    BY <1>6
  <1> QED
    BY <1>2, <1>3, <1>4, <1>5, <1>7 DEF n, m

\* One cycle later the value was passed if it was already, or comes up now.
LEMMA PastStep ==
    ASSUME NEW w \in Nat \ {0}, NEW p \in Nat \ {0}, NEW b \in Nat, NEW r \in Nat, NEW s \in Nat,
           r =< s, (s + 1) - r < (w - 1) * p, NEW v \in 0 .. (w - 1)
    PROVE  Past(b, r, s + 1, p, v, w) <=>
              \/ Past(b, r, s, p, v, w)
              \/ Reaches(Shown(b, s, p, w), Shown(b, s + 1, p, w), v)
  <1> DEFINE n == Shown(b, r, p, w)
             m == Shown(b, s, p, w)
             o == Shown(b, s + 1, p, w)
             k == Counts(r, s, p)
             l == Counts(r, s + 1, p)
             z == s + 1
             y == (w - 1) * p
  <1>0. y \in Int /\ s - r < y /\ z \in Nat /\ r =< z /\ z - r < y
    <2>1. \A i, j \in Int : i * j \in Int
      OBVIOUS
    <2>2. y \in Int
      BY <2>1
    <2> HIDE DEF y
    <2>3. z - r < y
      BY DEF y
    <2> QED
      BY <2>2, <2>3
  <1>1. n \in 0 .. (w - 1) /\ m \in 0 .. (w - 1) /\ o \in 0 .. (w - 1)
    BY <1>0, ShownRange
  <1>2. k \in 0 .. (w - 1) /\ m = IF n + k < w THEN n + k ELSE n + k - w
    BY <1>0, ShownBetween
  <1>3. l \in 0 .. (w - 1) /\ o = IF n + l < w THEN n + l ELSE n + l - w
    <2> HIDE DEF z
    <2>1. /\ Counts(r, z, p) \in 0 .. (w - 1)
          /\ Shown(b, z, p, w) = IF Shown(b, r, p, w) + Counts(r, z, p) < w
                                 THEN Shown(b, r, p, w) + Counts(r, z, p)
                                 ELSE Shown(b, r, p, w) + Counts(r, z, p) - w
      BY <1>0, ShownBetween
    <2> QED
      BY <2>1 DEF z
  <1>4. l = k \/ l = k + 1
    <2> DEFINE q == s \div p
               i == r \div p
               j == z \div p
    <2>1. q \in Nat /\ i \in Nat /\ j \in Nat
      BY <1>0, DivMod
    <2>2. j = q \/ j = q + 1
      BY DivStep
    <2>3. k = q - i /\ l = j - i
      BY DEF Counts
    <2> HIDE DEF q, i, j, k, l
    <2> QED
      BY <2>1, <2>2, <2>3
  <1>5. /\ Past(b, r, s + 1, p, v, w) <=> Ahead(n, v, w) =< l
        /\ Past(b, r, s, p, v, w) <=> Ahead(n, v, w) =< k
        /\ Reaches(Shown(b, s, p, w), Shown(b, s + 1, p, w), v) <=> m # o /\ o = v
    BY DEF Past, Reaches
  <1> HIDE DEF n, m, o, k, l
  <1>6. Ahead(n, v, w) \in 1 .. w
    BY <1>1, AheadFacts
  <1>7. o = v /\ l # 0 <=> Ahead(n, v, w) = l
    BY <1>1, <1>3, Passing
  <1>8. m # o <=> l = k + 1
    BY <1>1, <1>2, <1>3, <1>4
  <1>9. Ahead(n, v, w) =< l <=> Ahead(n, v, w) =< k \/ (m # o /\ o = v)
    BY <1>2, <1>3, <1>4, <1>6, <1>7, <1>8
  <1> QED
    BY <1>5, <1>9

(***************************************************************************)
(* The same of one timer.                                                  *)
(***************************************************************************)
EePast(tm, c, r) == Past(tm.base, tm.last_check - tm.base_cycle, c - tm.base_cycle,
                         cycles_per_tick(tm, r), tm.comp, Size)

LEMMA EePastFacts ==
    ASSUME NEW tm \in EeTimerType, NEW c \in Nat, NEW r \in Region,
           tm.base_cycle =< tm.last_check, tm.last_check =< c,
           c - tm.last_check < MAX_TICK_GAP + TIMER_TICK_CYCLES
    PROVE  /\ crossed(tm, c, r) <=> Live(tm) /\ EePast(tm, c, r)
           /\ tm.last_check = c => ~EePast(tm, c, r)
           /\ (c + 1) - tm.last_check < MAX_TICK_GAP + TIMER_TICK_CYCLES =>
                 (EePast(tm, c + 1, r) <=> \/ EePast(tm, c, r)
                                           \/ Reaches(count(tm, c, r), count(tm, c + 1, r), tm.comp))
  <1> DEFINE p == cycles_per_tick(tm, r)
             b == tm.base
             v == tm.comp
             x == tm.last_check - tm.base_cycle
             s == c - tm.base_cycle
             y == (Size - 1) * p
  <1>1. /\ p \in Nat \ {0} /\ Size \in Nat \ {0} /\ v \in 0 .. (Size - 1) /\ b \in Nat
        /\ tm.base_cycle \in Nat /\ tm.last_check \in Nat
    BY TimerAssumption DEF cycles_per_tick, EeTimerType, EeMode, Count16
  <1>2. /\ x \in Nat /\ s \in Nat /\ x =< s
        /\ Since(c, tm.base_cycle) = s /\ Since(c + 1, tm.base_cycle) = s + 1
        /\ Since(tm.last_check, tm.base_cycle) = x
        /\ s - x = c - tm.last_check /\ (s + 1) - x = (c + 1) - tm.last_check
    BY <1>1 DEF Since
  <1>3. MAX_TICK_GAP + TIMER_TICK_CYCLES =< y /\ y \in Int
    <2>1. tm.mode.clk \in Clock
      BY DEF EeTimerType, EeMode
    <2>2. MAX_TICK_GAP + TIMER_TICK_CYCLES =< (Size - 1) * EePeriod[r][tm.mode.clk]
      BY <2>1, WrapAssumption
    <2>3. \A i, j \in Int : i * j \in Int
      OBVIOUS
    <2> QED
      BY <1>1, <2>2, <2>3 DEF cycles_per_tick
  <1>4. MAX_TICK_GAP \in Nat /\ TIMER_TICK_CYCLES \in Nat
    BY TimerAssumption
  <1>5. /\ count(tm, tm.last_check, r) = Shown(b, x, p, Size)
        /\ count(tm, c, r) = Shown(b, s, p, Size)
        /\ count(tm, c + 1, r) = Shown(b, s + 1, p, Size)
    BY <1>2 DEF count, Shown
  <1>6. (c + 1) - tm.base_cycle = s + 1
    BY <1>1
  <1>7. /\ EePast(tm, c, r) <=> Past(b, x, s, p, v, Size)
        /\ EePast(tm, c + 1, r) <=> Past(b, x, s + 1, p, v, Size)
    BY <1>6 DEF EePast
  <1>8. s - x < y
    <2> HIDE DEF s, x, y
    <2> QED
      BY <1>1, <1>2, <1>3, <1>4
  <1> HIDE DEF p, b, v, x, s
  <1>9. /\ Between(Shown(b, x, p, Size), Shown(b, s, p, Size), v) <=> Past(b, x, s, p, v, Size)
        /\ x = s => ~Past(b, x, s, p, v, Size)
    <2>1. Between(Shown(b, x, p, Size), Shown(b, s, p, Size), v) <=> Past(b, x, s, p, v, Size)
      BY <1>1, <1>2, <1>8, PastFacts
    <2>2. x = s => ~Past(b, x, s, p, v, Size)
      BY <1>1, <1>2, <1>8, PastFacts
    <2> QED
      BY <2>1, <2>2
  <1>10. crossed(tm, c, r) <=> Live(tm) /\ EePast(tm, c, r)
    BY <1>5, <1>7, <1>9 DEF crossed, Between, v
  <1>11. tm.last_check = c => ~EePast(tm, c, r)
    BY <1>7, <1>9 DEF x, s
  <1>12. ASSUME (c + 1) - tm.last_check < MAX_TICK_GAP + TIMER_TICK_CYCLES
         PROVE  EePast(tm, c + 1, r) <=> \/ EePast(tm, c, r)
                                         \/ Reaches(count(tm, c, r), count(tm, c + 1, r), tm.comp)
    <2>1. (s + 1) - x < y
      <3> HIDE DEF y
      <3> QED
        BY <1>1, <1>2, <1>3, <1>4, <1>12
    <2>2. Past(b, x, s + 1, p, v, Size) <=>
             \/ Past(b, x, s, p, v, Size)
             \/ Reaches(Shown(b, s, p, Size), Shown(b, s + 1, p, Size), v)
      BY <1>1, <1>2, <2>1, PastStep
    <2> QED
      BY <1>5, <1>7, <2>2 DEF v
  <1> QED
    BY <1>10, <1>11, <1>12

IopPast(tm, v, c, r) == Past(tm.base, tm.last_check - tm.base_cycle, c - tm.base_cycle,
                             iop_cycles_per_tick(tm, r), v, IopSize)

LEMMA IopPastFacts ==
    ASSUME NEW tm \in IopTimerType, NEW c \in Nat, NEW r \in Region,
           tm.base_cycle =< tm.last_check, tm.last_check =< c,
           c - tm.last_check < MAX_TICK_GAP + TIMER_TICK_CYCLES
    PROVE  /\ iop_crossed(tm, c, r) <=> tm.mode.on /\ IopPast(tm, tm.target, c, r)
           /\ iop_wrapped(tm, c, r) <=> tm.mode.on /\ IopPast(tm, 0, c, r)
           /\ \A v \in {tm.target, 0} :
                 /\ tm.last_check = c => ~IopPast(tm, v, c, r)
                 /\ (c + 1) - tm.last_check < MAX_TICK_GAP + TIMER_TICK_CYCLES =>
                       (IopPast(tm, v, c + 1, r) <=>
                          \/ IopPast(tm, v, c, r)
                          \/ Reaches(iop_count(tm, c, r), iop_count(tm, c + 1, r), v))
  <1> DEFINE p == iop_cycles_per_tick(tm, r)
             b == tm.base
             a == tm.target
             x == tm.last_check - tm.base_cycle
             s == c - tm.base_cycle
             y == (IopSize - 1) * p
  <1>1. /\ p \in Nat \ {0} /\ IopSize \in Nat \ {0} /\ a \in 0 .. (IopSize - 1) /\ b \in Nat
        /\ 0 \in 0 .. (IopSize - 1) /\ tm.base_cycle \in Nat /\ tm.last_check \in Nat
    BY TimerAssumption DEF iop_cycles_per_tick, IopTimerType, IopMode, IopCount
  <1>2. /\ x \in Nat /\ s \in Nat /\ x =< s
        /\ Elapsed(c, tm.base_cycle) = s /\ Elapsed(c + 1, tm.base_cycle) = s + 1
        /\ Elapsed(tm.last_check, tm.base_cycle) = x
        /\ s - x = c - tm.last_check /\ (s + 1) - x = (c + 1) - tm.last_check
    BY <1>1 DEF Elapsed
  <1>3. MAX_TICK_GAP + TIMER_TICK_CYCLES =< y /\ y \in Int
    <2>1. tm.mode.clk \in IopClock
      BY DEF IopTimerType, IopMode
    <2>2. MAX_TICK_GAP + TIMER_TICK_CYCLES =< (IopSize - 1) * IopPeriod[r][tm.mode.clk]
      BY <2>1, WrapAssumption
    <2>3. \A i, j \in Int : i * j \in Int
      OBVIOUS
    <2> QED
      BY <1>1, <2>2, <2>3 DEF iop_cycles_per_tick
  <1>4. MAX_TICK_GAP \in Nat /\ TIMER_TICK_CYCLES \in Nat
    BY TimerAssumption
  <1>5. /\ iop_count(tm, tm.last_check, r) = Shown(b, x, p, IopSize)
        /\ iop_count(tm, c, r) = Shown(b, s, p, IopSize)
        /\ iop_count(tm, c + 1, r) = Shown(b, s + 1, p, IopSize)
    BY <1>2 DEF iop_count, Shown
  <1>6. (c + 1) - tm.base_cycle = s + 1
    BY <1>1
  <1>7. \A v : /\ IopPast(tm, v, c, r) <=> Past(b, x, s, p, v, IopSize)
               /\ IopPast(tm, v, c + 1, r) <=> Past(b, x, s + 1, p, v, IopSize)
    BY <1>6 DEF IopPast
  <1>8. s - x < y
    <2> HIDE DEF s, x, y
    <2> QED
      BY <1>1, <1>2, <1>3, <1>4
  <1> HIDE DEF p, b, a, x, s
  <1>9. ASSUME NEW v \in 0 .. (IopSize - 1)
        PROVE  /\ Between(Shown(b, x, p, IopSize), Shown(b, s, p, IopSize), v)
                    <=> Past(b, x, s, p, v, IopSize)
               /\ Past(b, x, s, p, v, IopSize) => Shown(b, x, p, IopSize) # Shown(b, s, p, IopSize)
               /\ Shown(b, s, p, IopSize) < Shown(b, x, p, IopSize) <=> Past(b, x, s, p, 0, IopSize)
               /\ x = s => ~Past(b, x, s, p, v, IopSize)
    <2>1. Between(Shown(b, x, p, IopSize), Shown(b, s, p, IopSize), v)
            <=> Past(b, x, s, p, v, IopSize)
      BY <1>1, <1>2, <1>8, PastFacts
    <2>2. Past(b, x, s, p, v, IopSize) => Shown(b, x, p, IopSize) # Shown(b, s, p, IopSize)
      BY <1>1, <1>2, <1>8, PastFacts
    <2>3. Shown(b, s, p, IopSize) < Shown(b, x, p, IopSize) <=> Past(b, x, s, p, 0, IopSize)
      BY <1>1, <1>2, <1>8, PastFacts
    <2>4. x = s => ~Past(b, x, s, p, v, IopSize)
      BY <1>1, <1>2, <1>8, PastFacts
    <2> QED
      BY <2>1, <2>2, <2>3, <2>4
  <1>10. iop_crossed(tm, c, r) <=> tm.mode.on /\ IopPast(tm, tm.target, c, r)
    <2>1. iop_crossed(tm, c, r) <=>
            /\ tm.mode.on /\ Shown(b, x, p, IopSize) # Shown(b, s, p, IopSize)
            /\ Between(Shown(b, x, p, IopSize), Shown(b, s, p, IopSize), a)
      BY <1>5 DEF iop_crossed, Between, a
    <2> QED
      BY <1>1, <1>7, <1>9, <2>1 DEF a
  <1>11. iop_wrapped(tm, c, r) <=> tm.mode.on /\ IopPast(tm, 0, c, r)
    BY <1>1, <1>5, <1>7, <1>9 DEF iop_wrapped
  <1>12. ASSUME NEW v \in {tm.target, 0}, tm.last_check = c
         PROVE  ~IopPast(tm, v, c, r)
    <2>1. x = s /\ v \in 0 .. (IopSize - 1)
      BY <1>1, <1>12 DEF x, s, a
    <2> QED
      BY <1>7, <1>9, <2>1
  <1>13. ASSUME NEW v \in {tm.target, 0},
                (c + 1) - tm.last_check < MAX_TICK_GAP + TIMER_TICK_CYCLES
         PROVE  IopPast(tm, v, c + 1, r) <=>
                   \/ IopPast(tm, v, c, r)
                   \/ Reaches(iop_count(tm, c, r), iop_count(tm, c + 1, r), v)
    <2>1. (s + 1) - x < y
      <3> HIDE DEF y
      <3> QED
        BY <1>1, <1>2, <1>3, <1>4, <1>13
    <2>2. v \in 0 .. (IopSize - 1)
      BY <1>1 DEF a
    <2>3. Past(b, x, s + 1, p, v, IopSize) <=>
             \/ Past(b, x, s, p, v, IopSize)
             \/ Reaches(Shown(b, s, p, IopSize), Shown(b, s + 1, p, IopSize), v)
      BY <1>1, <1>2, <2>1, <2>2, PastStep
    <2> QED
      BY <1>5, <1>7, <2>3
  <1> QED
    BY <1>10, <1>11, <1>12, <1>13

(***************************************************************************)
(* The invariant of the flags: the history notes a value since the last    *)
(* look just where the look back finds it.                                 *)
(***************************************************************************)
EeFlag(t) ==
    LET tm == ee_timers[t]
    IN IF Live(tm)
       THEN /\ tm.base_cycle =< tm.last_check /\ tm.last_check =< now
            /\ Awaited(tm.last_check + MAX_TICK_GAP)
            /\ ee_match[t] # Never <=> EePast(tm, now, region)
       ELSE ee_match[t] = Never

EeFlagNext(tm, match) ==
    IF Live(tm)
    THEN /\ tm.base_cycle =< tm.last_check /\ tm.last_check =< now'
         /\ AwaitedNext(tm.last_check + MAX_TICK_GAP)
         /\ match # Never <=> EePast(tm, now', region')
    ELSE match = Never

EeFlagInv == \A t \in EeTimers : EeFlag(t)

LEMMA EeFlagNextInv ==
    ASSUME \A t \in EeTimers' : EeFlagNext(ee_timers'[t], ee_match'[t])
    PROVE  EeFlagInv'
  <1>1. \A t \in EeTimers' : EeFlagNext(ee_timers'[t], ee_match'[t]) => EeFlag(t)'
    BY DEF EeFlag, EeFlagNext, Awaited, AwaitedNext, ToGrid, EePast, Past, Ahead, Shown, Counts,
           Live, cycles_per_tick
  <1> QED
    BY <1>1 DEF EeFlagInv

\* The look back is short of a wrap.
LEMMA ShortLook ==
    ASSUME NEW l \in Nat, NEW c \in Nat, c =< ToGrid(l + MAX_TICK_GAP)
    PROVE  c - l < MAX_TICK_GAP + TIMER_TICK_CYCLES
  <1>1. MAX_TICK_GAP \in Nat /\ TIMER_TICK_CYCLES \in Nat
    BY TimerAssumption
  <1>2. l + MAX_TICK_GAP \in Nat
    BY <1>1
  <1>3. ToGrid(l + MAX_TICK_GAP) \in Nat
        /\ ToGrid(l + MAX_TICK_GAP) =< l + MAX_TICK_GAP + TIMER_TICK_CYCLES - 1
    BY <1>2, GridFacts
  <1> QED
    BY <1>1, <1>3

\* What the invariant says of a timer that runs.
LEMMA EeFlagFacts ==
    ASSUME TypeOK, EeFlagInv, NEW t \in EeTimers, Live(ee_timers[t])
    PROVE  LET tm == ee_timers[t]
           IN /\ tm \in EeTimerType /\ tm.last_check \in Nat /\ tm.base_cycle \in Nat
              /\ tm.base_cycle =< tm.last_check /\ tm.last_check =< now
              /\ tm.last_check + MAX_TICK_GAP \in Nat
              /\ Awaited(tm.last_check + MAX_TICK_GAP)
              /\ now - tm.last_check < MAX_TICK_GAP + TIMER_TICK_CYCLES
              /\ ee_match[t] # Never <=> EePast(tm, now, region)
              /\ crossed(tm, now, region) <=> ee_match[t] # Never
  <1> DEFINE tm == ee_timers[t]
  <1>1. tm \in EeTimerType /\ tm.last_check \in Nat /\ tm.base_cycle \in Nat
    BY EeShape DEF EeTimerType
  <1>2. /\ tm.base_cycle =< tm.last_check /\ tm.last_check =< now
        /\ Awaited(tm.last_check + MAX_TICK_GAP)
        /\ ee_match[t] # Never <=> EePast(tm, now, region)
    BY DEF EeFlagInv, EeFlag
  <1>3. now - tm.last_check < MAX_TICK_GAP + TIMER_TICK_CYCLES
    BY <1>1, <1>2, EeShape, ShortLook DEF Awaited
  <1>4. crossed(tm, now, region) <=> Live(tm) /\ EePast(tm, now, region)
    BY <1>1, <1>2, <1>3, EeShape, EePastFacts
  <1>5. tm.last_check + MAX_TICK_GAP \in Nat
    BY <1>1, TimerAssumption
  <1> QED
    BY <1>1, <1>2, <1>3, <1>4, <1>5

\* A timer that software leaves alone.
LEMMA EeFlagSame ==
    ASSUME TypeOK, EeFlagInv, NEW t \in EeTimers,
           ee_timers'[t] = ee_timers[t], ee_match'[t] = ee_match[t], now' = now, region' = region,
           \/ Software /\ timers_due' \in {0, timers_due}
           \/ UNCHANGED vars
    PROVE  EeFlagNext(ee_timers'[t], ee_match'[t])
  <1>1. CASE Live(ee_timers[t])
    <2>1. AwaitedNext(ee_timers[t].last_check + MAX_TICK_GAP)
      BY <1>1, EeFlagFacts, StillAwaited
    <2> QED
      BY <1>1, <2>1, EeFlagFacts DEF EeFlagNext
  <1>2. CASE ~Live(ee_timers[t])
    BY <1>2 DEF EeFlagInv, EeFlag, EeFlagNext
  <1> QED
    BY <1>1, <1>2

LEMMA EeFlagStep ==
    ASSUME TypeOK, TypeOK', Steady, EeFlagInv, [Next]_vars
    PROVE  EeFlagInv'
  <1>0. now \in Nat /\ region \in Region /\ MAX_TICK_GAP \in Nat \ {0} /\ timers_due \in Nat
    BY EeShape, TimerAssumption
  <1>1. ASSUME NEW t \in EeTimers, EeWrite(t)
        PROVE  EeFlagInv'
    <2>1. /\ Software /\ reschedule /\ now' = now /\ region' = region
          /\ "running" \notin Does.ee
      BY <1>1 DEF EeWrite, Software, time, Steady
    <2>2. ASSUME NEW u \in EeTimers, u # t
          PROVE  EeFlagNext(ee_timers'[u], ee_match'[u])
      <3>1. ee_timers'[u] = ee_timers[u] /\ ee_match'[u] = ee_match[u]
        BY <1>1, <2>2, UseFacts DEF EeWrite, TypeOK, TimersOK, HistoryOK
      <3> QED
        BY <2>1, <3>1, EeFlagSame DEF reschedule
    <2>3. EeFlagNext(ee_timers'[t], ee_match'[t])
      <3> DEFINE tm == ee_timers[t]
      <3>1. tm \in EeTimerType
        BY EeShape
      <3>2. ASSUME NEW v \in Does.values, ~tm.mode.cue, ee_match' = ee_match,
                   \/ ee_timers' = [ee_timers EXCEPT ![t] = write_count(@, v, now)]
                   \/ ee_timers' = [ee_timers EXCEPT ![t] = write_comp(@, v)]
            PROVE  EeFlagNext(ee_timers'[t], ee_match'[t])
        <4>1. write_count(tm, v, now).mode = tm.mode /\ write_comp(tm, v).mode = tm.mode
          BY <3>1 DEF write_count, write_comp, EeTimerType
        <4>2. ee_timers'[t].mode = tm.mode
          BY <3>2, <4>1 DEF EeTimers
        <4> QED
          BY <3>2, <4>2 DEF EeFlagNext, EeFlagInv, EeFlag, Live
      <3>3. ASSUME NEW m \in Does.ee_modes,
                   ee_timers' = [ee_timers EXCEPT ![t] = write_mode(@, m, now)],
                   ee_match' = [ee_match EXCEPT ![t] = Never]
            PROVE  EeFlagNext(ee_timers'[t], ee_match'[t])
        <4> DEFINE new == write_mode(tm, m, now)
        <4>1. ee_timers'[t] = new /\ ee_match'[t] = Never
          BY <3>3, UseFacts DEF EeTimers, TypeOK, HistoryOK
        <4>2. new.base_cycle = now /\ new.last_check = now
          BY <3>1 DEF write_mode, EeTimerType
        <4>3. new \in EeTimerType
          BY <1>0, <3>1, UseFacts, EeWriteTypes
        <4> HIDE DEF new
        <4>4. now - now < MAX_TICK_GAP + TIMER_TICK_CYCLES
          BY <1>0, TimerAssumption
        <4>5. ~EePast(new, now, region)
          BY <1>0, <4>2, <4>3, <4>4, EePastFacts
        <4>6. now + MAX_TICK_GAP \in Nat /\ now =< now + MAX_TICK_GAP
          BY <1>0
        <4>7. AwaitedNext(now + MAX_TICK_GAP)
          BY <2>1, <4>6, NewlyAwaited
        <4> QED
          BY <1>0, <2>1, <4>1, <4>2, <4>5, <4>7 DEF EeFlagNext
      <3> QED
        BY <1>1, <2>1, <3>2, <3>3 DEF EeWrite, MayMove
    <2> QED
      BY <2>2, <2>3, SameEeTimers, EeFlagNextInv
  <1>2. CASE \/ \E t \in IopTimers : IopWrite(t) \/ IopReadMode(t)
             \/ \E ch \in Channel : DmaComplete(ch)
             \/ DriveCommand
             \/ \E c \in Core : SpuTransfer(c)
             \/ Acknowledge \/ AtBound \/ UNCHANGED vars
    <2>1. /\ (Software /\ timers_due' \in {0, timers_due}) \/ UNCHANGED vars
          /\ ee_timers' = ee_timers /\ ee_match' = ee_match /\ now' = now /\ region' = region
      BY <1>2 DEF IopWrite, IopReadMode, DmaComplete, DriveCommand, SpuTransfer, Acknowledge,
                  AtBound, Software, time, timers, history, vars, reschedule
    <2>2. \A t \in EeTimers : EeFlagNext(ee_timers'[t], ee_match'[t])
      BY <2>1, EeFlagSame
    <2> QED
      BY <2>2, SameEeTimers, EeFlagNextInv
  <1>3. CASE SetRegion
    BY <1>3 DEF SetRegion, Steady
  <1>4. CASE TickTimers
    <2>1. /\ now' = now /\ region' = region
          /\ \A t \in EeTimers : ee_timers'[t] = check(ee_timers[t], now, region)
                                 /\ ee_match'[t] = Never
      BY <1>4 DEF TickTimers
    <2>2. now + MAX_TICK_GAP \in Nat /\ now < now + MAX_TICK_GAP
      BY <1>0
    <2>3. AwaitedNext(now + MAX_TICK_GAP)
      BY <1>4, <2>2, TickDue, AfterTick
    <2>4. ASSUME NEW t \in EeTimers PROVE EeFlagNext(ee_timers'[t], ee_match'[t])
      <3> DEFINE tm == ee_timers[t]
                 new == check(tm, now, region)
      <3>1. tm \in EeTimerType
        BY EeShape
      <3>2. CASE Live(tm) /\ ~crossed(tm, now, region)
        <4>1. new = [tm EXCEPT !.last_check = now]
          BY <3>2 DEF check
        <4>2. new \in EeTimerType /\ new.last_check = now /\ new.base_cycle = tm.base_cycle
          BY <1>0, <3>1, <4>1 DEF EeTimerType
        <4>3. tm.base_cycle =< now
          BY <1>0, <3>2, EeFlagFacts
        <4> HIDE DEF new
        <4>4. now - now < MAX_TICK_GAP + TIMER_TICK_CYCLES
          BY <1>0, TimerAssumption
        <4>5. ~EePast(new, now, region)
          BY <1>0, <4>2, <4>3, <4>4, EePastFacts
        <4> QED
          BY <1>0, <2>1, <2>3, <4>2, <4>3, <4>5 DEF EeFlagNext, new
      <3>3. CASE Live(tm) /\ crossed(tm, now, region)
        <4>1. new.mode.equf
          BY <3>1, <3>3 DEF check, EeTimerType, EeMode
        <4> QED
          BY <2>1, <4>1 DEF EeFlagNext, Live
      <3>4. CASE ~Live(tm)
        BY <2>1, <3>4 DEF check, EeFlagNext
      <3> QED
        BY <3>2, <3>3, <3>4
    <2> QED
      BY <2>4, SameEeTimers, EeFlagNextInv
  <1>5. CASE Elapse
    <2>1. /\ now' = now + 1 /\ region' = region /\ timers_due' = timers_due /\ turn' = "software"
          /\ ee_timers' = ee_timers
          /\ \A t \in EeTimers : ee_match'[t] =
                IF ee_match[t] = Never /\ Live(ee_timers[t])
                     /\ Reaches(count(ee_timers[t], now, region),
                                count(ee_timers[t], now + 1, region), ee_timers[t].comp)
                THEN now + 1 ELSE ee_match[t]
      BY <1>5 DEF Elapse, timers, EeCount
    <2>2. ASSUME NEW t \in EeTimers PROVE EeFlagNext(ee_timers'[t], ee_match'[t])
      <3> DEFINE tm == ee_timers[t]
                 reached == Reaches(count(tm, now, region), count(tm, now + 1, region), tm.comp)
      <3>1. CASE Live(tm)
        <4>1. /\ tm \in EeTimerType /\ tm.last_check \in Nat /\ tm.base_cycle \in Nat
              /\ tm.base_cycle =< tm.last_check /\ tm.last_check =< now
              /\ tm.last_check + MAX_TICK_GAP \in Nat
              /\ Awaited(tm.last_check + MAX_TICK_GAP)
              /\ now - tm.last_check < MAX_TICK_GAP + TIMER_TICK_CYCLES
              /\ ee_match[t] # Never <=> EePast(tm, now, region)
          BY <3>1, EeFlagFacts
        <4>2. AwaitedNext(tm.last_check + MAX_TICK_GAP)
          BY <1>5, <4>1, StillAwaited
        <4>3. now + 1 \in Nat /\ now + 1 =< ToGrid(tm.last_check + MAX_TICK_GAP)
          BY <1>0, <2>1, <4>2 DEF AwaitedNext
        <4>4. (now + 1) - tm.last_check < MAX_TICK_GAP + TIMER_TICK_CYCLES
          BY <4>1, <4>3, ShortLook
        <4>5. EePast(tm, now + 1, region) <=> EePast(tm, now, region) \/ reached
          BY <1>0, <4>1, <4>4, EePastFacts
        <4>6. now + 1 # Never /\ tm.last_check =< now + 1
          BY <1>0, <4>1 DEF Never
        <4>7. ee_match'[t] # Never <=> (ee_match[t] # Never \/ reached)
          BY <2>1, <3>1, <4>6
        <4> HIDE DEF reached
        <4> QED
          BY <2>1, <3>1, <4>1, <4>2, <4>5, <4>6, <4>7 DEF EeFlagNext
      <3>2. CASE ~Live(tm)
        <4>1. ee_match[t] = Never
          BY <3>2 DEF EeFlagInv, EeFlag
        <4> QED
          BY <2>1, <3>2, <4>1 DEF EeFlagNext
      <3> QED
        BY <3>1, <3>2
    <2> QED
      BY <2>2, SameEeTimers, EeFlagNextInv
  <1> QED
    BY <1>1, <1>2, <1>3, <1>4, <1>5 DEF Next

IopFlag(t) ==
    LET tm == iop_timers[t]
    IN IF tm.mode.on
       THEN /\ tm.base_cycle =< tm.last_check /\ tm.last_check =< now
            /\ Awaited(tm.last_check + MAX_TICK_GAP)
            /\ iop_match[t] # Never <=> IopPast(tm, tm.target, now, region)
            /\ iop_wrap[t] # Never <=> IopPast(tm, 0, now, region)
       ELSE iop_match[t] = Never /\ iop_wrap[t] = Never

IopFlagNext(tm, match, wrap) ==
    IF tm.mode.on
    THEN /\ tm.base_cycle =< tm.last_check /\ tm.last_check =< now'
         /\ AwaitedNext(tm.last_check + MAX_TICK_GAP)
         /\ match # Never <=> IopPast(tm, tm.target, now', region')
         /\ wrap # Never <=> IopPast(tm, 0, now', region')
    ELSE match = Never /\ wrap = Never

IopFlagInv == \A t \in IopTimers : IopFlag(t)

LEMMA IopFlagNextInv ==
    ASSUME \A t \in IopTimers' : IopFlagNext(iop_timers'[t], iop_match'[t], iop_wrap'[t])
    PROVE  IopFlagInv'
  <1>1. \A t \in IopTimers' :
           IopFlagNext(iop_timers'[t], iop_match'[t], iop_wrap'[t]) => IopFlag(t)'
    BY DEF IopFlag, IopFlagNext, Awaited, AwaitedNext, ToGrid, IopPast, Past, Ahead, Shown, Counts,
           iop_cycles_per_tick
  <1> QED
    BY <1>1 DEF IopFlagInv

LEMMA IopFlagFacts ==
    ASSUME TypeOK, IopFlagInv, NEW t \in IopTimers, iop_timers[t].mode.on
    PROVE  LET tm == iop_timers[t]
           IN /\ tm \in IopTimerType /\ tm.last_check \in Nat /\ tm.base_cycle \in Nat
              /\ tm.base_cycle =< tm.last_check /\ tm.last_check =< now
              /\ tm.last_check + MAX_TICK_GAP \in Nat
              /\ Awaited(tm.last_check + MAX_TICK_GAP)
              /\ now - tm.last_check < MAX_TICK_GAP + TIMER_TICK_CYCLES
              /\ iop_match[t] # Never <=> IopPast(tm, tm.target, now, region)
              /\ iop_wrap[t] # Never <=> IopPast(tm, 0, now, region)
              /\ iop_crossed(tm, now, region) <=> iop_match[t] # Never
              /\ iop_wrapped(tm, now, region) <=> iop_wrap[t] # Never
  <1> DEFINE tm == iop_timers[t]
  <1>1. tm \in IopTimerType /\ tm.last_check \in Nat /\ tm.base_cycle \in Nat
    BY IopShape DEF IopTimerType
  <1>2. /\ tm.base_cycle =< tm.last_check /\ tm.last_check =< now
        /\ Awaited(tm.last_check + MAX_TICK_GAP)
        /\ iop_match[t] # Never <=> IopPast(tm, tm.target, now, region)
        /\ iop_wrap[t] # Never <=> IopPast(tm, 0, now, region)
    BY DEF IopFlagInv, IopFlag
  <1>3. now - tm.last_check < MAX_TICK_GAP + TIMER_TICK_CYCLES
    BY <1>1, <1>2, IopShape, ShortLook DEF Awaited
  <1>4. /\ iop_crossed(tm, now, region) <=> tm.mode.on /\ IopPast(tm, tm.target, now, region)
        /\ iop_wrapped(tm, now, region) <=> tm.mode.on /\ IopPast(tm, 0, now, region)
    BY <1>1, <1>2, <1>3, IopShape, IopPastFacts
  <1>5. tm.last_check + MAX_TICK_GAP \in Nat
    BY <1>1, TimerAssumption
  <1> QED
    BY <1>1, <1>2, <1>3, <1>4, <1>5

\* A timer of which software changes at most the flags it has read.
LEMMA IopFlagSame ==
    ASSUME TypeOK, IopFlagInv, NEW t \in IopTimers,
           iop_timers'[t] \in {iop_timers[t], iop_read_mode(iop_timers[t])},
           iop_match'[t] = iop_match[t], iop_wrap'[t] = iop_wrap[t],
           now' = now, region' = region,
           \/ Software /\ timers_due' \in {0, timers_due}
           \/ UNCHANGED vars
    PROVE  IopFlagNext(iop_timers'[t], iop_match'[t], iop_wrap'[t])
  <1> DEFINE tm == iop_timers[t]
             new == iop_timers'[t]
  <1>1. /\ new.base = tm.base /\ new.base_cycle = tm.base_cycle /\ new.target = tm.target
        /\ new.last_check = tm.last_check /\ new.mode.on = tm.mode.on /\ new.mode.clk = tm.mode.clk
    <2>1. tm \in IopTimerType
      BY IopShape
    <2>2. CASE new = tm
      BY <2>2
    <2>3. CASE new = iop_read_mode(tm)
      <3> HIDE DEF new
      <3>1. iop_read_mode(tm) = [tm EXCEPT !.mode = [tm.mode EXCEPT !.target_hit = FALSE,
                                                                   !.wrapped = FALSE]]
        BY <2>1 DEF iop_read_mode, IopTimerType, IopMode
      <3> QED
        BY <2>1, <2>3, <3>1 DEF IopTimerType, IopMode
    <2> QED
      BY <2>2, <2>3
  <1> HIDE DEF new
  <1>2. \A v : IopPast(new, v, now, region) <=> IopPast(tm, v, now, region)
    BY <1>1 DEF IopPast, iop_cycles_per_tick
  <1>3. CASE tm.mode.on
    <2>1. AwaitedNext(tm.last_check + MAX_TICK_GAP)
      BY <1>3, IopFlagFacts, StillAwaited
    <2>2. IopFlagNext(new, iop_match'[t], iop_wrap'[t])
      BY <1>1, <1>2, <1>3, <2>1, IopFlagFacts DEF IopFlagNext
    <2> QED
      BY <2>2 DEF new
  <1>4. CASE ~tm.mode.on
    <2>1. IopFlagNext(new, iop_match'[t], iop_wrap'[t])
      BY <1>1, <1>4 DEF IopFlagInv, IopFlag, IopFlagNext
    <2> QED
      BY <2>1 DEF new
  <1> QED
    BY <1>3, <1>4

LEMMA IopFlagStep ==
    ASSUME TypeOK, TypeOK', Steady, IopFlagInv, [Next]_vars
    PROVE  IopFlagInv'
  <1>0. now \in Nat /\ region \in Region /\ MAX_TICK_GAP \in Nat \ {0} /\ timers_due \in Nat
    BY IopShape, TimerAssumption
  <1>1. ASSUME NEW t \in IopTimers, IopWrite(t)
        PROVE  IopFlagInv'
    <2>1. /\ Software /\ reschedule /\ now' = now /\ region' = region
          /\ "running" \notin Does.iop
      BY <1>1 DEF IopWrite, Software, time, Steady
    <2>2. ASSUME NEW u \in IopTimers, u # t
          PROVE  IopFlagNext(iop_timers'[u], iop_match'[u], iop_wrap'[u])
      <3>1. /\ iop_timers'[u] = iop_timers[u] /\ iop_match'[u] = iop_match[u]
            /\ iop_wrap'[u] = iop_wrap[u]
        BY <1>1, <2>2, UseFacts DEF IopWrite, TypeOK, TimersOK, HistoryOK
      <3> QED
        BY <2>1, <3>1, IopFlagSame DEF reschedule
    <2>3. IopFlagNext(iop_timers'[t], iop_match'[t], iop_wrap'[t])
      <3> DEFINE tm == iop_timers[t]
      <3>1. tm \in IopTimerType
        BY IopShape
      <3>2. ASSUME NEW v \in Does.values, ~tm.mode.on, iop_match' = iop_match, iop_wrap' = iop_wrap,
                   \/ iop_timers' = [iop_timers EXCEPT ![t] = iop_write_count(@, v, now)]
                   \/ iop_timers' = [iop_timers EXCEPT ![t] = iop_write_target(@, v)]
            PROVE  IopFlagNext(iop_timers'[t], iop_match'[t], iop_wrap'[t])
        <4>1. iop_write_count(tm, v, now).mode = tm.mode /\ iop_write_target(tm, v).mode = tm.mode
          BY <3>1 DEF iop_write_count, iop_write_target, IopTimerType
        <4>2. iop_timers'[t].mode = tm.mode
          BY <3>2, <4>1 DEF IopTimers
        <4> QED
          BY <3>2, <4>2 DEF IopFlagNext, IopFlagInv, IopFlag
      <3>3. ASSUME NEW m \in Does.iop_modes,
                   iop_timers' = [iop_timers EXCEPT ![t] = iop_write_mode(@, m, now)],
                   iop_match' = [iop_match EXCEPT ![t] = Never],
                   iop_wrap' = [iop_wrap EXCEPT ![t] = Never]
            PROVE  IopFlagNext(iop_timers'[t], iop_match'[t], iop_wrap'[t])
        <4> DEFINE new == iop_write_mode(tm, m, now)
        <4>1. iop_timers'[t] = new /\ iop_match'[t] = Never /\ iop_wrap'[t] = Never
          BY <3>3, UseFacts DEF IopTimers, TypeOK, HistoryOK
        <4>2. new.base_cycle = now /\ new.last_check = now
          BY <3>1 DEF iop_write_mode, IopTimerType
        <4>3. new \in IopTimerType
          BY <1>0, <3>1, UseFacts, IopWriteTypes
        <4> HIDE DEF new
        <4>4. /\ now - new.last_check < MAX_TICK_GAP + TIMER_TICK_CYCLES
              /\ new.base_cycle =< new.last_check /\ new.last_check =< now
          BY <1>0, <4>2, TimerAssumption
        <4>5. ~IopPast(new, new.target, now, region) /\ ~IopPast(new, 0, now, region)
          BY <1>0, <4>2, <4>3, <4>4, IopPastFacts
        <4>6. now + MAX_TICK_GAP \in Nat /\ now =< now + MAX_TICK_GAP
          BY <1>0
        <4>7. AwaitedNext(now + MAX_TICK_GAP)
          BY <2>1, <4>6, NewlyAwaited
        <4> QED
          BY <1>0, <2>1, <4>1, <4>2, <4>5, <4>7 DEF IopFlagNext
      <3> QED
        BY <1>1, <2>1, <3>2, <3>3 DEF IopWrite, MayMove
    <2> QED
      BY <2>2, <2>3, SameEeTimers, IopFlagNextInv
  <1>2. ASSUME NEW u \in IopTimers, IopReadMode(u)
        PROVE  IopFlagInv'
    <2>1. /\ Software /\ timers_due' = timers_due /\ now' = now /\ region' = region
          /\ iop_match' = iop_match /\ iop_wrap' = iop_wrap
      BY <1>2 DEF IopReadMode, Software, time, history
    <2>2. \A t \in IopTimers : iop_timers'[t] \in {iop_timers[t], iop_read_mode(iop_timers[t])}
      BY <1>2 DEF IopReadMode, IopTimers
    <2>3. \A t \in IopTimers : IopFlagNext(iop_timers'[t], iop_match'[t], iop_wrap'[t])
      BY <2>1, <2>2, IopFlagSame
    <2> QED
      BY <2>3, SameEeTimers, IopFlagNextInv
  <1>3. CASE \/ \E t \in EeTimers : EeWrite(t)
             \/ \E ch \in Channel : DmaComplete(ch)
             \/ DriveCommand
             \/ \E c \in Core : SpuTransfer(c)
             \/ Acknowledge \/ AtBound \/ UNCHANGED vars
    <2>1. /\ (Software /\ timers_due' \in {0, timers_due}) \/ UNCHANGED vars
          /\ iop_timers' = iop_timers /\ iop_match' = iop_match /\ iop_wrap' = iop_wrap
          /\ now' = now /\ region' = region
      BY <1>3 DEF EeWrite, DmaComplete, DriveCommand, SpuTransfer, Acknowledge,
                  AtBound, Software, time, timers, history, vars, reschedule
    <2>2. \A t \in IopTimers : IopFlagNext(iop_timers'[t], iop_match'[t], iop_wrap'[t])
      BY <2>1, IopFlagSame
    <2> QED
      BY <2>2, SameEeTimers, IopFlagNextInv
  <1>4. CASE SetRegion
    BY <1>4 DEF SetRegion, Steady
  <1>5. CASE TickTimers
    <2>1. /\ now' = now /\ region' = region
          /\ \A t \in IopTimers : /\ iop_timers'[t] = iop_check(iop_timers[t], now, region)
                                  /\ iop_match'[t] = Never /\ iop_wrap'[t] = Never
      BY <1>5 DEF TickTimers
    <2>2. now + MAX_TICK_GAP \in Nat /\ now < now + MAX_TICK_GAP
      BY <1>0
    <2>3. AwaitedNext(now + MAX_TICK_GAP)
      BY <1>5, <2>2, TickDue, AfterTick
    <2>4. ASSUME NEW t \in IopTimers
          PROVE  IopFlagNext(iop_timers'[t], iop_match'[t], iop_wrap'[t])
      <3> DEFINE tm == iop_timers[t]
                 new == iop_check(tm, now, region)
      <3>1. tm \in IopTimerType
        BY IopShape
      <3>2. CASE tm.mode.on
        <4>1. /\ new.last_check = now /\ new.base_cycle \in {tm.base_cycle, now}
              /\ new.mode.on
          BY <3>1, <3>2 DEF iop_check, IopTimerType, IopMode
        <4>2. new \in IopTimerType
          BY <1>0, <3>1, IopWriteTypes
        <4>3. tm.base_cycle =< now
          BY <1>0, <3>2, IopFlagFacts
        <4> HIDE DEF new
        <4>4. /\ now - new.last_check < MAX_TICK_GAP + TIMER_TICK_CYCLES
              /\ new.base_cycle =< new.last_check /\ new.last_check =< now
          <5>1. now - now < MAX_TICK_GAP + TIMER_TICK_CYCLES
            BY <1>0, TimerAssumption
          <5>2. \A x \in {tm.base_cycle, now} : x =< now
            BY <1>0, <4>3
          <5> QED
            BY <1>0, <4>1, <5>1, <5>2
        <4>5. ~IopPast(new, new.target, now, region) /\ ~IopPast(new, 0, now, region)
          BY <1>0, <4>1, <4>2, <4>4, IopPastFacts
        <4> QED
          BY <1>0, <2>1, <2>3, <4>1, <4>4, <4>5 DEF IopFlagNext, new
      <3>3. CASE ~tm.mode.on
        BY <2>1, <3>3 DEF iop_check, IopFlagNext
      <3> QED
        BY <3>2, <3>3
    <2> QED
      BY <2>4, SameEeTimers, IopFlagNextInv
  <1>6. CASE Elapse
    <2>1. /\ now' = now + 1 /\ region' = region /\ timers_due' = timers_due /\ turn' = "software"
          /\ iop_timers' = iop_timers
          /\ \A t \in IopTimers : iop_match'[t] =
                IF iop_match[t] = Never /\ iop_timers[t].mode.on
                     /\ Reaches(iop_count(iop_timers[t], now, region),
                                iop_count(iop_timers[t], now + 1, region), iop_timers[t].target)
                THEN now + 1 ELSE iop_match[t]
          /\ \A t \in IopTimers : iop_wrap'[t] =
                IF iop_wrap[t] = Never /\ iop_timers[t].mode.on
                     /\ Reaches(iop_count(iop_timers[t], now, region),
                                iop_count(iop_timers[t], now + 1, region), 0)
                THEN now + 1 ELSE iop_wrap[t]
      BY <1>6 DEF Elapse, timers, IopCountOf
    <2>2. ASSUME NEW t \in IopTimers
          PROVE  IopFlagNext(iop_timers'[t], iop_match'[t], iop_wrap'[t])
      <3> DEFINE tm == iop_timers[t]
                 reached(v) == Reaches(iop_count(tm, now, region), iop_count(tm, now + 1, region), v)
      <3>1. CASE tm.mode.on
        <4>1. /\ tm \in IopTimerType /\ tm.last_check \in Nat /\ tm.base_cycle \in Nat
              /\ tm.base_cycle =< tm.last_check /\ tm.last_check =< now
              /\ tm.last_check + MAX_TICK_GAP \in Nat
              /\ Awaited(tm.last_check + MAX_TICK_GAP)
              /\ now - tm.last_check < MAX_TICK_GAP + TIMER_TICK_CYCLES
              /\ iop_match[t] # Never <=> IopPast(tm, tm.target, now, region)
              /\ iop_wrap[t] # Never <=> IopPast(tm, 0, now, region)
          BY <3>1, IopFlagFacts
        <4>2. AwaitedNext(tm.last_check + MAX_TICK_GAP)
          BY <1>6, <4>1, StillAwaited
        <4>3. now + 1 \in Nat /\ now + 1 =< ToGrid(tm.last_check + MAX_TICK_GAP)
          BY <1>0, <2>1, <4>2 DEF AwaitedNext
        <4>4. (now + 1) - tm.last_check < MAX_TICK_GAP + TIMER_TICK_CYCLES
          BY <4>1, <4>3, ShortLook
        <4>5. \A v \in {tm.target, 0} :
                 IopPast(tm, v, now + 1, region) <=> IopPast(tm, v, now, region) \/ reached(v)
          BY <1>0, <4>1, <4>4, IopPastFacts
        <4>6. now + 1 # Never /\ tm.last_check =< now + 1
          BY <1>0, <4>1 DEF Never
        <4>7. /\ iop_match'[t] # Never <=> (iop_match[t] # Never \/ reached(tm.target))
              /\ iop_wrap'[t] # Never <=> (iop_wrap[t] # Never \/ reached(0))
          BY <2>1, <3>1, <4>6
        <4> HIDE DEF reached
        <4> QED
          BY <2>1, <3>1, <4>1, <4>2, <4>5, <4>6, <4>7 DEF IopFlagNext
      <3>2. CASE ~tm.mode.on
        <4>1. iop_match[t] = Never /\ iop_wrap[t] = Never
          BY <3>2 DEF IopFlagInv, IopFlag
        <4> QED
          BY <2>1, <3>2, <4>1 DEF IopFlagNext
      <3> QED
        BY <3>1, <3>2
    <2> QED
      BY <2>2, SameEeTimers, IopFlagNextInv
  <1> QED
    BY <1>1, <1>2, <1>3, <1>4, <1>5, <1>6 DEF Next

FlagInv == Steady => EeFlagInv /\ IopFlagInv

LEMMA FlagStep ==
    ASSUME TypeOK, TypeOK', FlagInv, [Next]_vars
    PROVE  FlagInv'
  <1>1. Steady' <=> Steady
    BY SameEeTimers DEF Steady
  <1> QED
    BY <1>1, EeFlagStep, IopFlagStep DEF FlagInv

LEMMA InitFlags == Init => FlagInv
  <1> SUFFICES ASSUME Init PROVE EeFlagInv /\ IopFlagInv
    BY DEF FlagInv
  <1>1. \A t \in EeTimers : ee_timers[t] = EeReset(ResetClock) /\ ee_match[t] = Never
    BY DEF Init, EeTimers
  <1>2. \A t \in IopTimers : /\ iop_timers[t] = IopReset(IopResetClock)
                             /\ iop_match[t] = Never /\ iop_wrap[t] = Never
    BY DEF Init, IopTimers
  <1>3. EeFlagInv
    BY <1>1 DEF EeFlagInv, EeFlag, EeReset, Live
  <1>4. IopFlagInv
    BY <1>2 DEF IopFlagInv, IopFlag, IopReset
  <1> QED
    BY <1>3, <1>4

LEMMA EeTickExact ==
    ASSUME TypeOK, FlagInv, Steady, TickTimers, NEW t \in EeTimers
    PROVE  LET hit == Live(ee_timers[t]) /\ ee_timers'[t].mode.equf
           IN /\ hit <=> (ee_match[t] # Never)
              /\ t \in intc_stat' \ intc_stat => hit
              /\ hit /\ ee_timers[t].mode.cmpe => t \in intc_stat'
  <1> DEFINE tm == ee_timers[t]
  <1>1. /\ ee_timers'[t] = check(tm, now, region)
        /\ intc_stat' = intc_stat \cup
              {u \in EeTimers : crossed(ee_timers[u], now, region) /\ ee_timers[u].mode.cmpe}
    BY DEF TickTimers
  <1>2. tm \in EeTimerType
    BY EeShape
  <1>3. CASE Live(tm)
    <2>1. crossed(tm, now, region) <=> ee_match[t] # Never
      BY <1>3, EeFlagFacts DEF FlagInv
    <2>2. check(tm, now, region).mode.equf <=> crossed(tm, now, region)
      BY <1>2, <1>3 DEF check, Live, EeTimerType, EeMode
    <2> QED
      BY <1>1, <1>3, <2>1, <2>2
  <1>4. CASE ~Live(tm)
    <2>1. ~crossed(tm, now, region)
      BY <1>4 DEF crossed
    <2>2. ee_match[t] = Never
      BY <1>4 DEF FlagInv, EeFlagInv, EeFlag
    <2> QED
      BY <1>1, <1>4, <2>1, <2>2
  <1> QED
    BY <1>3, <1>4

LEMMA IopTickExact ==
    ASSUME TypeOK, FlagInv, Steady, TickTimers, NEW t \in IopTimers
    PROVE  LET old == iop_timers[t].mode   new == iop_timers'[t].mode
               target == iop_match[t] # Never   wrap == iop_wrap[t] # Never
           IN /\ new.target_hit <=> (old.target_hit \/ target)
              /\ new.wrapped <=> (old.wrapped \/ wrap)
              /\ t \in iop_i_stat' <=> \/ t \in iop_i_stat
                                       \/ target /\ old.tirq
                                       \/ wrap /\ old.oirq
  <1> DEFINE tm == iop_timers[t]
  <1>1. /\ iop_timers'[t] = iop_check(tm, now, region)
        /\ t \in iop_i_stat' <=> t \in iop_i_stat \/ iop_fires(tm, now, region)
    BY DEF TickTimers
  <1>2. tm \in IopTimerType
    BY IopShape
  <1>3. CASE tm.mode.on
    <2>1. /\ iop_crossed(tm, now, region) <=> iop_match[t] # Never
          /\ iop_wrapped(tm, now, region) <=> iop_wrap[t] # Never
      BY <1>3, IopFlagFacts DEF FlagInv
    <2>2. /\ iop_check(tm, now, region).mode.target_hit <=>
                (tm.mode.target_hit \/ iop_crossed(tm, now, region))
          /\ iop_check(tm, now, region).mode.wrapped <=>
                (tm.mode.wrapped \/ iop_wrapped(tm, now, region))
      BY <1>2, <1>3 DEF iop_check, IopTimerType, IopMode
    <2> QED
      BY <1>1, <2>1, <2>2 DEF iop_fires
  <1>4. CASE ~tm.mode.on
    <2>1. ~iop_crossed(tm, now, region) /\ ~iop_wrapped(tm, now, region)
      BY <1>4 DEF iop_crossed, iop_wrapped
    <2>2. iop_match[t] = Never /\ iop_wrap[t] = Never
      BY <1>4 DEF FlagInv, IopFlagInv, IopFlag
    <2>3. iop_check(tm, now, region) = tm
      BY <1>4 DEF iop_check
    <2> QED
      BY <1>1, <2>1, <2>2, <2>3 DEF iop_fires
  <1> QED
    BY <1>3, <1>4

\* The tick sets a flag, and interrupts, for exactly the timers of both
\* processors that reached the value since the tick before, at every width,
\* rate and grid for which no counter goes around between two ticks (check_irqs
\* and the IOP half of tick_timers, which look only at what the counters show).
THEOREM FlagsInTick == Spec => FlagsExact
  <1>1. Init => TypeOK /\ FlagInv
    BY InitTypes, InitFlags
  <1>2. TypeOK /\ FlagInv /\ [Next]_vars => (TypeOK /\ FlagInv)'
    BY TypesKept, FlagStep
  <1> DEFINE
      EeExact ==
        Ticks /\ Steady => \A t \in EeTimers :
          LET hit == Live(ee_timers[t]) /\ ee_timers'[t].mode.equf
          IN /\ hit <=> (ee_match[t] # Never)
             /\ t \in intc_stat' \ intc_stat => hit
             /\ hit /\ ee_timers[t].mode.cmpe => t \in intc_stat'
      IopExact ==
        Ticks /\ Steady => \A t \in IopTimers :
          LET old == iop_timers[t].mode   new == iop_timers'[t].mode
              target == iop_match[t] # Never   wrap == iop_wrap[t] # Never
          IN /\ new.target_hit <=> (old.target_hit \/ target)
             /\ new.wrapped <=> (old.wrapped \/ wrap)
             /\ t \in iop_i_stat' <=> \/ t \in iop_i_stat
                                      \/ target /\ old.tirq
                                      \/ wrap /\ old.oirq
  <1>3. TypeOK /\ FlagInv /\ [Next]_vars => [EeExact /\ IopExact]_vars
    <2> SUFFICES ASSUME TypeOK, FlagInv, Next, ~UNCHANGED vars, Ticks, Steady
                 PROVE  EeExact /\ IopExact
      OBVIOUS
    <2>1. TickTimers
      BY DEF Ticks, Next, EeWrite, IopWrite, IopReadMode, SetRegion, DmaComplete, DriveCommand,
             SpuTransfer, Acknowledge, Elapse, AtBound, Software, time
    <2> QED
      BY <2>1, EeTickExact, IopTickExact
  <1> QED
    BY <1>1, <1>2, <1>3, PTL DEF Spec, FlagsExact, EeCompareExact, IopFlagsExact

(***************************************************************************)
(* The counts are those of counters that tick.                             *)
(***************************************************************************)
LEMMA ModNext ==
    ASSUME NEW a \in Nat, NEW w \in Nat \ {0}
    PROVE  (a + 1) % w = ((a % w) + 1) % w
  <1>1. CASE w = 1
    BY <1>1
  <1>2. CASE w # 1
    <2> DEFINE m == a % w
    <2>1. m \in 0 .. (w - 1) /\ 1 \in 0 .. (w - 1)
      BY <1>2
    <2>2. (a + 1) % w = IF m + 1 < w THEN m + 1 ELSE m + 1 - w
      BY <2>1, ModAdd
    <2> HIDE DEF m
    <2>3. CASE m + 1 < w
      <3>1. m + 1 \in 0 .. (w - 1)
        BY <2>1, <2>3
      <3>2. (m + 1) % w = m + 1
        BY <3>1, ModSmall
      <3> QED
        BY <2>2, <2>3, <3>2 DEF m
    <2>4. CASE ~(m + 1 < w)
      <3>1. m + 1 = w
        BY <2>1, <2>4
      <3>2. (m + 1) % w = 0
        BY <3>1
      <3> QED
        BY <2>2, <2>4, <3>1, <3>2 DEF m
    <2> QED
      BY <2>3, <2>4
  <1> QED
    BY <1>1, <1>2

\* What a counter with a prescaler does in a cycle.
Prescaled(n, f, m, g, p, w) == IF f + 1 = p THEN m = (n + 1) % w /\ g = 0
                               ELSE m = n /\ g = f + 1

\* A count with the cycle of its last write shows what a prescaler does.
LEMMA ShownStep ==
    ASSUME NEW w \in Nat \ {0}, NEW p \in Nat \ {0}, NEW b \in Nat, NEW s \in Nat
    PROVE  Prescaled(Shown(b, s, p, w), s % p, Shown(b, s + 1, p, w), (s + 1) % p, p, w)
  <1> DEFINE q == s \div p
             r == (s + 1) \div p
  <1>1. q \in Nat /\ r \in Nat /\ s % p \in 0 .. (p - 1) /\ (s + 1) % p \in 0 .. (p - 1)
    <2> DEFINE n == s + 1
    <2>1. n \in Nat
      OBVIOUS
    <2> HIDE DEF n
    <2>2. n \div p \in Nat /\ n % p \in 0 .. (p - 1)
      BY <2>1, DivMod
    <2> QED
      BY <2>2, DivMod DEF n
  <1>2. \/ r = q /\ (s + 1) % p = (s % p) + 1
        \/ r = q + 1 /\ s % p = p - 1 /\ (s + 1) % p = 0
    BY DivStep
  <1>3. Shown(b, s, p, w) = (b + q) % w /\ Shown(b, s + 1, p, w) = (b + r) % w
    BY DEF Shown
  <1> HIDE DEF q, r
  <1>4. CASE r = q /\ (s + 1) % p = (s % p) + 1
    <2>1. (s % p) + 1 # p
      BY <1>1, <1>4
    <2> QED
      BY <1>3, <1>4, <2>1 DEF Prescaled
  <1>5. CASE r = q + 1 /\ s % p = p - 1 /\ (s + 1) % p = 0
    <2> DEFINE a == b + q
    <2>1. a \in Nat /\ b + r = a + 1
      BY <1>1, <1>5
    <2> HIDE DEF a
    <2>2. (a + 1) % w = ((a % w) + 1) % w
      BY <2>1, ModNext
    <2>3. Shown(b, s + 1, p, w) = (Shown(b, s, p, w) + 1) % w
      BY <1>3, <2>1, <2>2 DEF a
    <2>4. (s % p) + 1 = p
      BY <1>5
    <2> QED
      BY <1>5, <2>3, <2>4 DEF Prescaled
  <1> QED
    BY <1>2, <1>4, <1>5

\* What a step makes of one timer's count: it stands, it restarts, or a cycle
\* passes under it.
EeStands(t)  == /\ now' = now /\ region' = region
                /\ ee_timers'[t].base = ee_timers[t].base
                /\ ee_timers'[t].base_cycle = ee_timers[t].base_cycle
                /\ ee_timers'[t].mode.clk = ee_timers[t].mode.clk
EeRestarts(t) == now' = now /\ ee_timers'[t].base_cycle = now
EeRuns(t)    == now' = now + 1 /\ region' = region /\ ee_timers'[t] = ee_timers[t]

IopStands(t)  == /\ now' = now /\ region' = region
                 /\ iop_timers'[t].base = iop_timers[t].base
                 /\ iop_timers'[t].base_cycle = iop_timers[t].base_cycle
                 /\ iop_timers'[t].mode.clk = iop_timers[t].mode.clk
IopRestarts(t) == now' = now /\ iop_timers'[t].base_cycle = now
IopRuns(t)    == now' = now + 1 /\ region' = region /\ iop_timers'[t] = iop_timers[t]

LEMMA EeOperations ==
    ASSUME NEW tm \in EeTimerType, NEW c \in Nat, NEW r \in Region
    PROVE  /\ \A v : write_count(tm, v, c).base_cycle = c
           /\ \A v : /\ write_comp(tm, v).base = tm.base
                     /\ write_comp(tm, v).base_cycle = tm.base_cycle
                     /\ write_comp(tm, v).mode = tm.mode
           /\ \A m : write_mode(tm, m, c).base_cycle = c
           /\ rebase(tm, c, r).base_cycle = c
           /\ \/ check(tm, c, r).base_cycle = c
              \/ /\ check(tm, c, r).base = tm.base
                 /\ check(tm, c, r).base_cycle = tm.base_cycle
                 /\ check(tm, c, r).mode.clk = tm.mode.clk
  <1>1. tm.mode \in EeMode
    BY DEF EeTimerType
  <1>2. \A v : write_count(tm, v, c).base_cycle = c
    BY DEF write_count, EeTimerType
  <1>3. \A v : /\ write_comp(tm, v).base = tm.base
               /\ write_comp(tm, v).base_cycle = tm.base_cycle
               /\ write_comp(tm, v).mode = tm.mode
    BY DEF write_comp, EeTimerType
  <1>4. \A m : write_mode(tm, m, c).base_cycle = c
    BY DEF write_mode, EeTimerType
  <1>5. rebase(tm, c, r).base_cycle = c
    BY DEF rebase, EeTimerType
  <1>6. \/ check(tm, c, r).base_cycle = c
        \/ /\ check(tm, c, r).base = tm.base
           /\ check(tm, c, r).base_cycle = tm.base_cycle
           /\ check(tm, c, r).mode.clk = tm.mode.clk
    BY <1>1 DEF check, EeTimerType, EeMode
  <1> QED
    BY <1>2, <1>3, <1>4, <1>5, <1>6

LEMMA IopOperations ==
    ASSUME NEW tm \in IopTimerType, NEW c \in Nat, NEW r \in Region
    PROVE  /\ \A v : iop_write_count(tm, v, c).base_cycle = c
           /\ \A v : /\ iop_write_target(tm, v).base = tm.base
                     /\ iop_write_target(tm, v).base_cycle = tm.base_cycle
                     /\ iop_write_target(tm, v).mode = tm.mode
           /\ \A m : iop_write_mode(tm, m, c).base_cycle = c
           /\ /\ iop_read_mode(tm).base = tm.base
              /\ iop_read_mode(tm).base_cycle = tm.base_cycle
              /\ iop_read_mode(tm).mode.clk = tm.mode.clk
           /\ iop_rebase(tm, c, r).base_cycle = c
           /\ \/ iop_check(tm, c, r).base_cycle = c
              \/ /\ iop_check(tm, c, r).base = tm.base
                 /\ iop_check(tm, c, r).base_cycle = tm.base_cycle
                 /\ iop_check(tm, c, r).mode.clk = tm.mode.clk
  <1>1. tm.mode \in IopMode
    BY DEF IopTimerType
  <1>2. \A v : iop_write_count(tm, v, c).base_cycle = c
    BY DEF iop_write_count, IopTimerType
  <1>3. \A v : /\ iop_write_target(tm, v).base = tm.base
               /\ iop_write_target(tm, v).base_cycle = tm.base_cycle
               /\ iop_write_target(tm, v).mode = tm.mode
    BY DEF iop_write_target, IopTimerType
  <1>4. \A m : iop_write_mode(tm, m, c).base_cycle = c
    BY DEF iop_write_mode, IopTimerType
  <1>5. /\ iop_read_mode(tm).base = tm.base
        /\ iop_read_mode(tm).base_cycle = tm.base_cycle
        /\ iop_read_mode(tm).mode.clk = tm.mode.clk
    BY <1>1 DEF iop_read_mode, IopTimerType, IopMode
  <1>6. iop_rebase(tm, c, r).base_cycle = c
    BY DEF iop_rebase, IopTimerType
  <1>7. \/ iop_check(tm, c, r).base_cycle = c
        \/ /\ iop_check(tm, c, r).base = tm.base
           /\ iop_check(tm, c, r).base_cycle = tm.base_cycle
           /\ iop_check(tm, c, r).mode.clk = tm.mode.clk
    <2>1. CASE ~tm.mode.on
      BY <2>1 DEF iop_check
    <2>2. CASE tm.mode.on
      <3> DEFINE hit == iop_crossed(tm, c, r)
                 hits == tm.mode.target_hit \/ hit
                 wraps == tm.mode.wrapped \/ iop_wrapped(tm, c, r)
                 mode == [tm.mode EXCEPT !.target_hit = hits, !.wrapped = wraps]
                 zero == hit /\ tm.mode.zret
      <3>1. iop_check(tm, c, r) =
              [tm EXCEPT !.last_check = c, !.mode = mode,
                         !.base = IF zero THEN 0 ELSE tm.base,
                         !.base_cycle = IF zero THEN c ELSE tm.base_cycle]
        BY <2>2 DEF iop_check, IopTimerType, IopMode
      <3>2. mode.clk = tm.mode.clk
        <4> HIDE DEF hits, wraps
        <4> QED  BY <1>1 DEF IopMode
      <3> HIDE DEF mode, zero
      <3> QED
        BY <3>1, <3>2 DEF IopTimerType
    <2> QED
      BY <2>1, <2>2
  <1> QED
    BY <1>2, <1>3, <1>4, <1>5, <1>6, <1>7

LEMMA EeCases ==
    ASSUME TypeOK, [Next]_vars, NEW t \in EeTimers
    PROVE  EeStands(t) \/ EeRestarts(t) \/ EeRuns(t)
  <1> DEFINE tm == ee_timers[t]
  <1>0. tm \in EeTimerType /\ now \in Nat /\ region \in Region
    BY UseFacts DEF TypeOK, TimeOK, TimersOK
  <1>1. t \in DOMAIN ee_timers
    BY DEF EeTimers
  <1>2. ASSUME NEW u \in EeTimers, EeWrite(u)
        PROVE  EeStands(t) \/ EeRestarts(t)
    <2>1. now' = now /\ region' = region
      BY <1>2 DEF EeWrite, Software, time
    <2>2. CASE u # t
      <3>1. ee_timers'[t] = ee_timers[t]
        BY <1>1, <1>2, <2>2 DEF EeWrite
      <3> QED
        BY <2>1, <3>1 DEF EeStands
    <2>3. CASE u = t
      <3>1. \/ \E v : ee_timers'[t] = write_count(tm, v, now)
            \/ \E v : ee_timers'[t] = write_comp(tm, v)
            \/ \E m : ee_timers'[t] = write_mode(tm, m, now)
        BY <1>1, <1>2, <2>3 DEF EeWrite
      <3> QED
        BY <1>0, <2>1, <3>1, EeOperations DEF EeStands, EeRestarts
    <2> QED
      BY <2>2, <2>3
  <1>3. CASE SetRegion
    <2>1. ee_timers'[t] = rebase(tm, now, region) /\ now' = now
      BY <1>3 DEF SetRegion, Software, time
    <2> QED
      BY <1>0, <2>1, EeOperations DEF EeRestarts
  <1>4. CASE TickTimers
    <2>1. ee_timers'[t] = check(tm, now, region) /\ now' = now /\ region' = region
      BY <1>4 DEF TickTimers
    <2>2. \/ check(tm, now, region).base_cycle = now
          \/ /\ check(tm, now, region).base = tm.base
             /\ check(tm, now, region).base_cycle = tm.base_cycle
             /\ check(tm, now, region).mode.clk = tm.mode.clk
      BY <1>0, EeOperations
    <2> QED
      BY <2>1, <2>2 DEF EeStands, EeRestarts
  <1>5. CASE Elapse
    BY <1>5 DEF Elapse, timers, EeRuns
  <1>6. ASSUME \/ \E u \in IopTimers : IopWrite(u) \/ IopReadMode(u)
               \/ \E ch \in Channel : DmaComplete(ch)
               \/ DriveCommand
               \/ \E c \in Core : SpuTransfer(c)
               \/ Acknowledge
               \/ AtBound
               \/ UNCHANGED vars
        PROVE  EeStands(t)
    <2>1. now' = now /\ region' = region /\ ee_timers' = ee_timers
      BY <1>6 DEF IopWrite, IopReadMode, DmaComplete, DriveCommand, SpuTransfer, Acknowledge,
                  AtBound, Software, vars, time, timers
    <2> QED
      BY <2>1 DEF EeStands
  <1> QED
    BY <1>2, <1>3, <1>4, <1>5, <1>6 DEF Next

LEMMA IopCases ==
    ASSUME TypeOK, [Next]_vars, NEW t \in IopTimers
    PROVE  IopStands(t) \/ IopRestarts(t) \/ IopRuns(t)
  <1> DEFINE tm == iop_timers[t]
  <1>0. tm \in IopTimerType /\ now \in Nat /\ region \in Region
    BY UseFacts DEF TypeOK, TimeOK, TimersOK
  <1>1. t \in DOMAIN iop_timers
    BY DEF IopTimers
  <1>2. ASSUME NEW u \in IopTimers, IopWrite(u) \/ IopReadMode(u)
        PROVE  IopStands(t) \/ IopRestarts(t)
    <2>1. now' = now /\ region' = region
      BY <1>2 DEF IopWrite, IopReadMode, Software, time
    <2>2. CASE u # t
      <3>1. iop_timers'[t] = iop_timers[t]
        BY <1>1, <1>2, <2>2 DEF IopWrite, IopReadMode
      <3> QED
        BY <2>1, <3>1 DEF IopStands
    <2>3. CASE u = t
      <3>1. \/ \E v : iop_timers'[t] = iop_write_count(tm, v, now)
            \/ \E v : iop_timers'[t] = iop_write_target(tm, v)
            \/ \E m : iop_timers'[t] = iop_write_mode(tm, m, now)
            \/ iop_timers'[t] = iop_read_mode(tm)
        BY <1>1, <1>2, <2>3 DEF IopWrite, IopReadMode
      <3> QED
        BY <1>0, <2>1, <3>1, IopOperations DEF IopStands, IopRestarts
    <2> QED
      BY <2>2, <2>3
  <1>3. CASE SetRegion
    <2>1. iop_timers'[t] = iop_rebase(tm, now, region) /\ now' = now
      BY <1>3 DEF SetRegion, Software, time
    <2> QED
      BY <1>0, <2>1, IopOperations DEF IopRestarts
  <1>4. CASE TickTimers
    <2>1. iop_timers'[t] = iop_check(tm, now, region) /\ now' = now /\ region' = region
      BY <1>4 DEF TickTimers
    <2>2. \/ iop_check(tm, now, region).base_cycle = now
          \/ /\ iop_check(tm, now, region).base = tm.base
             /\ iop_check(tm, now, region).base_cycle = tm.base_cycle
             /\ iop_check(tm, now, region).mode.clk = tm.mode.clk
      BY <1>0, IopOperations
    <2> QED
      BY <2>1, <2>2 DEF IopStands, IopRestarts
  <1>5. CASE Elapse
    BY <1>5 DEF Elapse, timers, IopRuns
  <1>6. ASSUME \/ \E u \in EeTimers : EeWrite(u)
               \/ \E ch \in Channel : DmaComplete(ch)
               \/ DriveCommand
               \/ \E c \in Core : SpuTransfer(c)
               \/ Acknowledge
               \/ AtBound
               \/ UNCHANGED vars
        PROVE  IopStands(t)
    <2>1. now' = now /\ region' = region /\ iop_timers' = iop_timers
      BY <1>6 DEF EeWrite, DmaComplete, DriveCommand, SpuTransfer, Acknowledge,
                  AtBound, Software, vars, time, timers
    <2> QED
      BY <2>1 DEF IopStands
  <1> QED
    BY <1>2, <1>3, <1>4, <1>5, <1>6 DEF Next

\* No count was written in the future.
Started == /\ \A t \in EeTimers : ee_timers[t].base_cycle =< now
           /\ \A t \in IopTimers : iop_timers[t].base_cycle =< now

LEMMA SameTimers ==
    ASSUME TypeOK, TypeOK', [Next]_vars
    PROVE  EeTimers' = EeTimers /\ IopTimers' = IopTimers
  <1>1. use' = use
    BY DEF Next, EeWrite, IopWrite, IopReadMode, SetRegion, DmaComplete, DriveCommand,
           SpuTransfer, Acknowledge, TickTimers, Elapse, AtBound, Software, vars
  <1>2. Does' = Does
    BY <1>1 DEF Does
  <1>3. EeTimers = Does.ee_timers /\ IopTimers = Does.iop_timers
    BY UseFacts
  <1>4. EeTimers' = Does'.ee_timers /\ IopTimers' = Does'.iop_timers
    BY DEF TypeOK, TimersOK, EeTimers, IopTimers
  <1> QED
    BY <1>2, <1>3, <1>4

LEMMA StartedStep == TypeOK /\ TypeOK' /\ Started /\ [Next]_vars => Started'
  <1> SUFFICES ASSUME TypeOK, TypeOK', Started, [Next]_vars PROVE Started'
    OBVIOUS
  <1>1. now \in Nat
    BY DEF TypeOK, TimeOK
  <1>2. ASSUME NEW t \in EeTimers PROVE ee_timers'[t].base_cycle =< now'
    <2>1. ee_timers[t].base_cycle \in Nat /\ ee_timers[t].base_cycle =< now
      BY UseFacts DEF TypeOK, TimersOK, EeTimerType, Started
    <2> QED
      BY <1>1, <2>1, EeCases DEF EeStands, EeRestarts, EeRuns
  <1>3. ASSUME NEW t \in IopTimers PROVE iop_timers'[t].base_cycle =< now'
    <2>1. iop_timers[t].base_cycle \in Nat /\ iop_timers[t].base_cycle =< now
      BY UseFacts DEF TypeOK, TimersOK, IopTimerType, Started
    <2> QED
      BY <1>1, <2>1, IopCases DEF IopStands, IopRestarts, IopRuns
  <1> QED
    BY <1>2, <1>3, SameTimers DEF Started

\* What the abstract counter is given: a count in its width, a rate it may have.
LEMMA EeGiven ==
    ASSUME NEW tm \in EeTimerType, NEW c \in Nat, NEW r \in Region
    PROVE  /\ count(tm, c, r) \in 0 .. (Size - 1)
           /\ cycles_per_tick(tm, r) \in EeRates /\ cycles_per_tick(tm, r) \in Nat \ {0}
  <1>1. count(tm, c, r) \in 0 .. (Size - 1)
    BY EeCountRange DEF Count16
  <1>2. cycles_per_tick(tm, r) \in EeRates
    BY DEF EeRates, cycles_per_tick, EeTimerType, EeMode
  <1>3. cycles_per_tick(tm, r) \in Nat \ {0}
    BY TimerAssumption DEF cycles_per_tick, EeTimerType, EeMode
  <1> QED
    BY <1>1, <1>2, <1>3

LEMMA IopGiven ==
    ASSUME NEW tm \in IopTimerType, NEW c \in Nat, NEW r \in Region
    PROVE  /\ iop_count(tm, c, r) \in 0 .. (IopSize - 1)
           /\ iop_cycles_per_tick(tm, r) \in IopRates /\ iop_cycles_per_tick(tm, r) \in Nat \ {0}
  <1>1. iop_count(tm, c, r) \in 0 .. (IopSize - 1)
    BY IopCountRange DEF IopCount
  <1>2. iop_cycles_per_tick(tm, r) \in IopRates
    BY DEF IopRates, iop_cycles_per_tick, IopTimerType, IopMode
  <1>3. iop_cycles_per_tick(tm, r) \in Nat \ {0}
    BY TimerAssumption DEF iop_cycles_per_tick, IopTimerType, IopMode
  <1> QED
    BY <1>1, <1>2, <1>3

\* Every step is a step of the eager counter of each timer, or none.
LEMMA EeCounts ==
    ASSUME TypeOK, TypeOK', Started, [Next]_vars, NEW t \in EeTimers
    PROVE  [EeEager(t)!Next]_(EeEager(t)!counter)
  <1> DEFINE tm == ee_timers[t]
             p  == cycles_per_tick(tm, region)
  <1>1. tm \in EeTimerType /\ now \in Nat /\ region \in Region /\ tm.base_cycle =< now
    BY UseFacts DEF TypeOK, TimeOK, TimersOK, Started
  <1>2. ee_timers'[t] \in EeTimerType /\ now' \in Nat /\ region' \in Region
    <2>1. t \in EeTimers'
      BY SameTimers
    <2> QED
      BY <2>1 DEF TypeOK, TimeOK, TimersOK, EeTimers
  <1>3. EeCount(t)' = count(ee_timers'[t], now', region')
        /\ EeRate(t)' = cycles_per_tick(ee_timers'[t], region')
        /\ EePhase(t)' = Since(now', ee_timers'[t].base_cycle) % EeRate(t)'
    BY DEF EeCount, EeRate, EePhase
  <1>4. EeCount(t)' \in 0 .. (Size - 1) /\ EeRate(t)' \in EeRates /\ EeRate(t)' \in Nat \ {0}
    BY <1>2, <1>3, EeGiven
  <1>5. CASE EeStands(t)
    <2>1. EeCount(t)' = EeCount(t) /\ EePhase(t)' = EePhase(t) /\ EeRate(t)' = EeRate(t)
      BY <1>5 DEF EeStands, EeCount, EePhase, EeRate, count, Since, cycles_per_tick
    <2> QED
      BY <1>5, <2>1 DEF EeStands, EeEager!counter
  <1>6. CASE EeRestarts(t)
    <2>1. Since(now', ee_timers'[t].base_cycle) = 0
      BY <1>1, <1>6 DEF EeRestarts, Since
    <2>2. EePhase(t)' = 0
      BY <1>3, <1>4, <2>1
    <2> QED
      BY <1>4, <1>6, <2>2 DEF EeRestarts, EeEager!Next, EeEager!Load
  <1>7. CASE EeRuns(t)
    <2> DEFINE s == now - tm.base_cycle
               b == tm.base
    <2>1. p \in Nat \ {0} /\ Size \in Nat \ {0} /\ b \in Nat /\ s \in Nat
      BY <1>1, EeGiven, TimerAssumption DEF EeTimerType, Count16
    <2>2. Since(now, tm.base_cycle) = s /\ Since(now', tm.base_cycle) = s + 1
      BY <1>1, <1>7 DEF EeRuns, Since, EeTimerType
    <2>3. EeCount(t) = Shown(b, s, p, Size) /\ EeCount(t)' = Shown(b, s + 1, p, Size)
      BY <1>7, <2>2 DEF EeRuns, EeCount, count, Shown
    <2>4. EePhase(t) = s % p /\ EePhase(t)' = (s + 1) % p /\ EeRate(t) = p /\ EeRate(t)' = p
      BY <1>7, <2>2 DEF EeRuns, EePhase, EeRate
    <2> HIDE DEF s, b, p
    <2>5. Prescaled(Shown(b, s, p, Size), s % p, Shown(b, s + 1, p, Size), (s + 1) % p, p, Size)
      BY <2>1, ShownStep
    <2>6. Prescaled(EeCount(t), EePhase(t), EeCount(t)', EePhase(t)', EeRate(t), Size)
      BY <2>3, <2>4, <2>5
    <2> QED
      BY <1>7, <2>4, <2>6 DEF Prescaled, EeRuns, EeEager!Next, EeEager!Step
  <1> QED
    BY <1>5, <1>6, <1>7, EeCases

LEMMA IopCounts ==
    ASSUME TypeOK, TypeOK', Started, [Next]_vars, NEW t \in IopTimers
    PROVE  [IopEager(t)!Next]_(IopEager(t)!counter)
  <1> DEFINE tm == iop_timers[t]
             p  == iop_cycles_per_tick(tm, region)
  <1>1. tm \in IopTimerType /\ now \in Nat /\ region \in Region /\ tm.base_cycle =< now
    BY UseFacts DEF TypeOK, TimeOK, TimersOK, Started
  <1>2. iop_timers'[t] \in IopTimerType /\ now' \in Nat /\ region' \in Region
    <2>1. t \in IopTimers'
      BY SameTimers
    <2> QED
      BY <2>1 DEF TypeOK, TimeOK, TimersOK, IopTimers
  <1>3. IopCountOf(t)' = iop_count(iop_timers'[t], now', region')
        /\ IopRate(t)' = iop_cycles_per_tick(iop_timers'[t], region')
        /\ IopPhase(t)' = Elapsed(now', iop_timers'[t].base_cycle) % IopRate(t)'
    BY DEF IopCountOf, IopRate, IopPhase
  <1>4. IopCountOf(t)' \in 0 .. (IopSize - 1) /\ IopRate(t)' \in IopRates /\ IopRate(t)' \in Nat \ {0}
    BY <1>2, <1>3, IopGiven
  <1>5. CASE IopStands(t)
    <2>1. IopCountOf(t)' = IopCountOf(t) /\ IopPhase(t)' = IopPhase(t) /\ IopRate(t)' = IopRate(t)
      BY <1>5 DEF IopStands, IopCountOf, IopPhase, IopRate, iop_count, Elapsed, iop_cycles_per_tick
    <2> QED
      BY <1>5, <2>1 DEF IopStands, IopEager!counter
  <1>6. CASE IopRestarts(t)
    <2>1. Elapsed(now', iop_timers'[t].base_cycle) = 0
      BY <1>1, <1>6 DEF IopRestarts, Elapsed
    <2>2. IopPhase(t)' = 0
      BY <1>3, <1>4, <2>1
    <2> QED
      BY <1>4, <1>6, <2>2 DEF IopRestarts, IopEager!Next, IopEager!Load
  <1>7. CASE IopRuns(t)
    <2> DEFINE s == now - tm.base_cycle
               b == tm.base
    <2>1. p \in Nat \ {0} /\ IopSize \in Nat \ {0} /\ b \in Nat /\ s \in Nat
      BY <1>1, IopGiven, TimerAssumption DEF IopTimerType, IopCount
    <2>2. Elapsed(now, tm.base_cycle) = s /\ Elapsed(now', tm.base_cycle) = s + 1
      BY <1>1, <1>7 DEF IopRuns, Elapsed, IopTimerType
    <2>3. IopCountOf(t) = Shown(b, s, p, IopSize) /\ IopCountOf(t)' = Shown(b, s + 1, p, IopSize)
      BY <1>7, <2>2 DEF IopRuns, IopCountOf, iop_count, Shown
    <2>4. IopPhase(t) = s % p /\ IopPhase(t)' = (s + 1) % p /\ IopRate(t) = p /\ IopRate(t)' = p
      BY <1>7, <2>2 DEF IopRuns, IopPhase, IopRate
    <2> HIDE DEF s, b, p
    <2>5. Prescaled(Shown(b, s, p, IopSize), s % p, Shown(b, s + 1, p, IopSize), (s + 1) % p, p, IopSize)
      BY <2>1, ShownStep
    <2>6. Prescaled(IopCountOf(t), IopPhase(t), IopCountOf(t)', IopPhase(t)', IopRate(t), IopSize)
      BY <2>3, <2>4, <2>5
    <2> QED
      BY <1>7, <2>4, <2>6 DEF Prescaled, IopRuns, IopEager!Next, IopEager!Step
  <1> QED
    BY <1>5, <1>6, <1>7, IopCases

LEMMA InitCounts ==
    ASSUME Init, TypeOK
    PROVE  /\ Started
           /\ \A t \in EeTimers : EeEager(t)!Init
           /\ \A t \in IopTimers : IopEager(t)!Init
  <1>1. now = 0 /\ region \in Region
        /\ (\A t \in EeTimers : ee_timers[t] \in EeTimerType /\ ee_timers[t].base_cycle = 0)
        /\ (\A t \in IopTimers : iop_timers[t] \in IopTimerType /\ iop_timers[t].base_cycle = 0)
    BY UseFacts DEF Init, TypeOK, TimersOK, EeReset, IopReset
  <1>2. Started
    BY <1>1 DEF Started
  <1>3. ASSUME NEW t \in EeTimers PROVE EeEager(t)!Init
    <2>1. EeCount(t) \in 0 .. (Size - 1) /\ EeRate(t) \in EeRates /\ EeRate(t) \in Nat \ {0}
      BY <1>1, EeGiven DEF EeCount, EeRate
    <2>2. EePhase(t) = 0
      BY <1>1, <2>1 DEF EePhase, Since
    <2> QED
      BY <1>1, <2>1, <2>2 DEF EeEager!Init
  <1>4. ASSUME NEW t \in IopTimers PROVE IopEager(t)!Init
    <2>1. IopCountOf(t) \in 0 .. (IopSize - 1) /\ IopRate(t) \in IopRates /\ IopRate(t) \in Nat \ {0}
      BY <1>1, IopGiven DEF IopCountOf, IopRate
    <2>2. IopPhase(t) = 0
      BY <1>1, <2>1 DEF IopPhase, Elapsed
    <2> QED
      BY <1>1, <2>1, <2>2 DEF IopEager!Init
  <1> QED
    BY <1>2, <1>3, <1>4

\* The count software reads of any timer, at any width, periods and region, is
\* that of a counter with a prescaler (Timer::count and the IOP's count).
THEOREM TimersImplement == Spec => CountIsEager
  <1> DEFINE Begins == /\ \A t \in EeTimers : EeEager(t)!Init
                       /\ \A t \in IopTimers : IopEager(t)!Init
             Moves  == /\ \A t \in EeTimers : [EeEager(t)!Next]_(EeEager(t)!counter)
                       /\ \A t \in IopTimers : [IopEager(t)!Next]_(IopEager(t)!counter)
  <1>1. Init => Begins /\ Started
    BY InitTypes, InitCounts
  <1>2. TypeOK /\ TypeOK' /\ Started /\ [Next]_vars => Started'
    BY StartedStep
  <1>3. TypeOK /\ TypeOK' /\ Started /\ [Next]_vars => [Moves]_vars
    BY EeCounts, IopCounts
  <1>4. CountIsEager <=> Begins /\ [][Moves]_vars
    BY DEF CountIsEager
  <1> HIDE DEF Begins, Moves
  <1> QED
    BY <1>1, <1>2, <1>3, <1>4, TimerTypes, PTL DEF Spec
=============================================================================
