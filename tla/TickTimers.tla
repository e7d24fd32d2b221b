------------------------------ MODULE TickTimers ------------------------------
(***************************************************************************)
(* The periodic tick of the bus: Bus::tick_timers and the due time that    *)
(* decides when it runs.  Everything that happens at a time is polled      *)
(* here: the compare of the EE timers, the target and the wrap of the IOP  *)
(* timers, deferred DMA completions, the end of a drive command, the next  *)
(* SPU2 sample.  The tick runs on a grid of TIMER_TICK_CYCLES, once it is  *)
(* due; whatever can make something happen sooner has to reset timers_due. *)
(*                                                                         *)
(* A cycle is software first (turn = "software": any number of register    *)
(* accesses at one now), then the tick if it is due, then the next cycle.  *)
(*                                                                         *)
(* ee_match, iop_match and iop_wrap are history: the first cycle, since    *)
(* the timer's MODE was written or the tick looked at it, at which a       *)
(* counter that ticks would have reached its compare value, its target, or *)
(* wrapped.                                                                *)
(***************************************************************************)
EXTENDS EeTimer, IopTimer, FiniteSets

CONSTANTS
    Region,
    Channel,                  \* EE DMA channels
    TIMER_TICK_CYCLES, MAX_TICK_GAP,
    DMA_LATENCY,              \* from the end of a transfer to its D_STAT bit
    Core,                     \* SPU2 cores
    DriveLatencies,           \* what Cdvd::write may answer
    SpuLatencies,             \* the time an SPU2 transfer takes
    SAMPLE_CYCLES,            \* EE cycles per SPU2 sample
    ResetClock, IopResetClock, \* the clock MODE selects when it is 0
    Uses,                     \* what software does, by name (below)
    MaxQueue                  \* bound on the completions waiting at once

(***************************************************************************)
(* A use is what the software of one behaviour does: the timers it touches *)
(* (the others stay off and are left out), the operations on them and on   *)
(* the rest of the bus, the MODE values and the COUNT, COMP and target     *)
(* values it writes, and the bound of the exploration.  With "running" it  *)
(* also writes COUNT, COMP and the target of a timer that is running.      *)
(***************************************************************************)

Never == -1

ASSUME TimerAssumption ==
    /\ Size \in Nat \ {0} /\ IopSize \in Nat \ {0}
    /\ TIMER_TICK_CYCLES \in Nat \ {0} /\ MAX_TICK_GAP \in Nat \ {0}
    /\ DMA_LATENCY \in Nat /\ SAMPLE_CYCLES \in Nat \ {0}
    /\ DriveLatencies \subseteq Nat /\ SpuLatencies \subseteq Nat
    /\ EePeriod \in [Region -> [Clock -> Nat \ {0}]]
    /\ IopPeriod \in [Region -> [IopClock -> Nat \ {0}]]
    /\ ResetClock \in Clock /\ IopResetClock \in IopClock
    /\ \A u \in DOMAIN Uses :
          /\ Uses[u].ee_modes \subseteq EeMode /\ Uses[u].iop_modes \subseteq IopMode
          /\ Uses[u].values \subseteq Count16 \cap IopCount /\ Uses[u].until \in Nat
    /\ MaxQueue \in Nat

\* No counter can go around between two ticks, wherever in its period the first
\* of them finds it.
ASSUME WrapAssumption ==
    \A r \in Region :
       /\ \A k \in Clock : MAX_TICK_GAP + TIMER_TICK_CYCLES =< (Size - 1) * EePeriod[r][k]
       /\ \A k \in IopClock :
             MAX_TICK_GAP + TIMER_TICK_CYCLES =< (IopSize - 1) * IopPeriod[r][k]

\* The clocks a region sets the rate of are the horizontal blanks, and a line
\* is longer than the look-ahead.
ASSUME LineAssumption ==
    \A r, s \in Region :
       /\ \A k \in Clock : EePeriod[r][k] # EePeriod[s][k] => EePeriod[r][k] > MAX_TICK_GAP
       /\ \A k \in IopClock :
             IopPeriod[r][k] # IopPeriod[s][k] => IopPeriod[r][k] > MAX_TICK_GAP

VARIABLES
    use,                      \* the use of this behaviour
    now, turn, region,
    timers_due,
    ee_timers, iop_timers,
    dma_irq_queue,            \* set of <<channel, due cycle>>
    cdvd_done_at,             \* due cycle or Never
    last_sample, spu_due,
    intc_stat, iop_i_stat,    \* timers whose interrupt is raised
    d_stat,                   \* channels whose completion is raised
    drive_done,               \* the drive's interrupt line is raised
    ee_match, iop_match, iop_wrap

time    == <<now, turn>>
timers  == <<ee_timers, iop_timers>>
pending == <<dma_irq_queue, cdvd_done_at, last_sample, spu_due>>
raised  == <<intc_stat, iop_i_stat, d_stat, drive_done>>
history == <<ee_match, iop_match, iop_wrap>>
vars    == <<use, time, region, timers_due, timers, pending, raised, history>>

-----------------------------------------------------------------------------
Does == Uses[use]

EeTimers  == DOMAIN ee_timers
IopTimers == DOMAIN iop_timers

OnGrid(c) == c % TIMER_TICK_CYCLES = 0
ToGrid(c) == ((c + TIMER_TICK_CYCLES - 1) \div TIMER_TICK_CYCLES) * TIMER_TICK_CYCLES

Due == OnGrid(now) /\ now >= timers_due

\* The count each timer shows now.
EeCount(t)  == count(ee_timers[t], now, region)
IopCountOf(t) == iop_count(iop_timers[t], now, region)

Init ==
    /\ use \in DOMAIN Uses
    /\ now = 0 /\ turn = "software" /\ region \in Region
    /\ timers_due = 0
    /\ ee_timers = [t \in Does.ee_timers |-> EeReset(ResetClock)]
    /\ iop_timers = [t \in Does.iop_timers |-> IopReset(IopResetClock)]
    /\ dma_irq_queue = {} /\ cdvd_done_at = Never /\ last_sample = 0
    /\ spu_due = [c \in Core |-> Never]
    /\ intc_stat = {} /\ iop_i_stat = {} /\ d_stat = {} /\ drive_done = FALSE
    /\ ee_match = [t \in Does.ee_timers |-> Never]
    /\ iop_match = [t \in Does.iop_timers |-> Never]
    /\ iop_wrap = [t \in Does.iop_timers |-> Never]

reschedule == timers_due' = 0

(***************************************************************************)
(* Software.                                                               *)
(***************************************************************************)
Software == turn = "software" /\ UNCHANGED <<use, time>>

MayMove(runs, ops) == "running" \in ops \/ ~runs

\* A write to an EE timer register.  COUNT and COMP leave last_check where it
\* was, so the next check looks back past the write.
BadEeWrite(t) ==
    /\ Software
    /\ \/ /\ "count" \in Does.ee /\ MayMove(ee_timers[t].mode.cue, Does.ee)
          /\ \E v \in Does.values : ee_timers' = [ee_timers EXCEPT ![t] = write_count(@, v, now)]
          /\ UNCHANGED ee_match
       \/ /\ "comp" \in Does.ee /\ MayMove(ee_timers[t].mode.cue, Does.ee)
          /\ \E v \in Does.values : ee_timers' = [ee_timers EXCEPT ![t] = write_comp(@, v)]
          /\ UNCHANGED ee_match
       \/ /\ "mode" \in Does.ee
          /\ \E m \in Does.ee_modes : ee_timers' = [ee_timers EXCEPT ![t] = write_mode(@, m, now)]
          /\ ee_match' = [ee_match EXCEPT ![t] = Never]
    /\ UNCHANGED <<region, timers_due, iop_timers, pending, raised, iop_match, iop_wrap>>
EeWrite(t) ==
    /\ Software
    /\ \/ /\ "count" \in Does.ee /\ MayMove(ee_timers[t].mode.cue, Does.ee)
          /\ \E v \in Does.values : ee_timers' = [ee_timers EXCEPT ![t] = write_count(@, v, now)]
          /\ UNCHANGED ee_match
       \/ /\ "comp" \in Does.ee /\ MayMove(ee_timers[t].mode.cue, Does.ee)
          /\ \E v \in Does.values : ee_timers' = [ee_timers EXCEPT ![t] = write_comp(@, v)]
          /\ UNCHANGED ee_match
       \/ /\ "mode" \in Does.ee
          /\ \E m \in Does.ee_modes : ee_timers' = [ee_timers EXCEPT ![t] = write_mode(@, m, now)]
          /\ ee_match' = [ee_match EXCEPT ![t] = Never]
    /\ reschedule
    /\ UNCHANGED <<region, iop_timers, pending, raised, iop_match, iop_wrap>>

IopWrite(t) ==
    /\ Software
    /\ \/ /\ "count" \in Does.iop /\ MayMove(iop_timers[t].mode.on, Does.iop)
          /\ \E v \in Does.values :
                iop_timers' = [iop_timers EXCEPT ![t] = iop_write_count(@, v, now)]
          /\ UNCHANGED <<iop_match, iop_wrap>>
       \/ /\ "target" \in Does.iop /\ MayMove(iop_timers[t].mode.on, Does.iop)
          /\ \E v \in Does.values : iop_timers' = [iop_timers EXCEPT ![t] = iop_write_target(@, v)]
          /\ UNCHANGED <<iop_match, iop_wrap>>
       \/ /\ "mode" \in Does.iop
          /\ \E m \in Does.iop_modes :
                iop_timers' = [iop_timers EXCEPT ![t] = iop_write_mode(@, m, now)]
          /\ iop_match' = [iop_match EXCEPT ![t] = Never]
          /\ iop_wrap' = [iop_wrap EXCEPT ![t] = Never]
    /\ reschedule
    /\ UNCHANGED <<region, ee_timers, pending, raised, ee_match>>

\* Reading MODE clears the two flags.
IopReadMode(t) ==
    /\ Software /\ "read" \in Does.iop
    /\ iop_timers' = [iop_timers EXCEPT ![t] = iop_read_mode(@)]
    /\ UNCHANGED <<region, timers_due, ee_timers, pending, raised, history>>

\* set_region_from_smode1: every count is restarted where it stands, under
\* the old region; timers_due is left alone.
SetRegion ==
    /\ Software /\ "region" \in Does.bus
    /\ \E r \in Region \ {region} : region' = r
    /\ ee_timers' = [t \in EeTimers |-> rebase(ee_timers[t], now, region)]
    /\ iop_timers' = [t \in IopTimers |-> iop_rebase(iop_timers[t], now, region)]
    /\ UNCHANGED <<timers_due, pending, raised, history>>

\* ee_dma_irq: the completion of a transfer is deferred.
BadDmaComplete(ch) ==
    /\ Software /\ "dma" \in Does.bus /\ Cardinality(dma_irq_queue) < MaxQueue
    /\ dma_irq_queue' = dma_irq_queue \cup {<<ch, now + DMA_LATENCY>>}
    /\ UNCHANGED <<region, timers_due, timers, cdvd_done_at, last_sample, spu_due, raised, history>>
DmaComplete(ch) ==
    /\ Software /\ "dma" \in Does.bus /\ Cardinality(dma_irq_queue) < MaxQueue
    /\ dma_irq_queue' = dma_irq_queue \cup {<<ch, now + DMA_LATENCY>>}
    /\ reschedule
    /\ UNCHANGED <<region, timers, cdvd_done_at, last_sample, spu_due, raised, history>>

\* An N command starts; one that is still in flight is superseded.
DriveCommand ==
    /\ Software /\ "drive" \in Does.bus
    /\ \E latency \in DriveLatencies : cdvd_done_at' = now + latency
    /\ reschedule
    /\ UNCHANGED <<region, timers, dma_irq_queue, last_sample, spu_due, raised, history>>

\* An SPU2 transfer: the data moves now, the channel stays busy until the
\* transfer, queued behind one still in flight, would have ended.
SpuTransfer(c) ==
    /\ Software /\ "spu" \in Does.bus /\ spu_due[c] =< Does.until
    /\ \E latency \in SpuLatencies :
          spu_due' = [spu_due EXCEPT ![c] = (IF @ > now THEN @ ELSE now) + latency]
    /\ reschedule
    /\ UNCHANGED <<region, timers, dma_irq_queue, cdvd_done_at, last_sample, raised, history>>

\* Software acknowledges what was raised.
Acknowledge ==
    /\ Software /\ "ack" \in Does.bus
    /\ intc_stat' = {} /\ iop_i_stat' = {} /\ d_stat' = {} /\ drive_done' = FALSE
    /\ UNCHANGED <<region, timers_due, timers, pending, history>>

(***************************************************************************)
(* The tick.                                                               *)
(***************************************************************************)
DueDma    == {q \in dma_irq_queue : q[2] =< now}
DriveDue  == cdvd_done_at # Never /\ cdvd_done_at =< now
SpuDone   == {c \in Core : spu_due[c] # Never /\ spu_due[c] =< now}
Samples   == (now - last_sample) \div SAMPLE_CYCLES

\* Where the tick looks for its next due time: the EE timers, the drive, the
\* deferred completions and SPU2 after it has served them, the IOP timers
\* before it has.
NextEvents(ees, queue, drive, sample, spu) ==
    (UNION {due_at(ees[t], now, region) : t \in EeTimers})
      \cup {iop_due_at(iop_timers[t], now, region) :
              t \in {u \in IopTimers : iop_timers[u].mode.on}}
      \cup {q[2] : q \in queue} \cup {d \in {drive} : d # Never}
      \cup {d \in {spu[c] : c \in Core} : d # Never}
      \cup {now + MAX_TICK_GAP, sample + SAMPLE_CYCLES}

TickTimers ==
    /\ turn = "software" /\ Due
    /\ turn' = "clock"
    \* the drive (its line waits for the drain if a channel is armed), the
    \* deferred completions, SPU2
    /\ cdvd_done_at' = IF DriveDue THEN Never ELSE cdvd_done_at
    /\ drive_done' \in IF DriveDue THEN {drive_done, TRUE} ELSE {drive_done}
    /\ d_stat' = d_stat \cup {q[1] : q \in DueDma}
    /\ dma_irq_queue' = dma_irq_queue \ DueDma
    /\ last_sample' = IF Samples > 0 THEN now - (now % SAMPLE_CYCLES) ELSE last_sample
    /\ spu_due' = [c \in Core |-> IF c \in SpuDone THEN Never ELSE spu_due[c]]
    \* the EE timers
    /\ ee_timers' = [t \in EeTimers |-> check(ee_timers[t], now, region)]
    /\ intc_stat' = intc_stat \cup
          {t \in EeTimers : crossed(ee_timers[t], now, region) /\ ee_timers[t].mode.cmpe}
    \* the IOP timers
    /\ iop_timers' = [t \in IopTimers |-> iop_check(iop_timers[t], now, region)]
    /\ iop_i_stat' = iop_i_stat \cup
          {t \in IopTimers : iop_fires(iop_timers[t], now, region)}
    /\ LET events == NextEvents(ee_timers', dma_irq_queue', cdvd_done_at', last_sample', spu_due')
       IN \E due \in events :
             /\ \A e \in events : due =< e
             /\ timers_due' = IF due > now THEN due ELSE now + 1
    \* what the counters passed has been looked at
    /\ ee_match' = [t \in EeTimers |-> Never]
    /\ iop_match' = [t \in IopTimers |-> Never]
    /\ iop_wrap' = [t \in IopTimers |-> Never]
    /\ UNCHANGED <<use, now, region>>

\* One cycle passes.  The history notes the counters that reach their value.
Reaches(before, after, v) == before # after /\ after = v

Elapse ==
    /\ turn = "clock" \/ ~Due
    /\ now < Does.until
    /\ now' = now + 1 /\ turn' = "software"
    /\ ee_match' = [t \in EeTimers |->
          IF ee_match[t] = Never /\ Live(ee_timers[t])
               /\ Reaches(EeCount(t), count(ee_timers[t], now + 1, region), ee_timers[t].comp)
          THEN now + 1 ELSE ee_match[t]]
    /\ iop_match' = [t \in IopTimers |->
          IF iop_match[t] = Never /\ iop_timers[t].mode.on
               /\ Reaches(IopCountOf(t), iop_count(iop_timers[t], now + 1, region), iop_timers[t].target)
          THEN now + 1 ELSE iop_match[t]]
    /\ iop_wrap' = [t \in IopTimers |->
          IF iop_wrap[t] = Never /\ iop_timers[t].mode.on
               /\ Reaches(IopCountOf(t), iop_count(iop_timers[t], now + 1, region), 0)
          THEN now + 1 ELSE iop_wrap[t]]
    /\ UNCHANGED <<use, region, timers_due, timers, pending, raised>>

\* The exploration ends at its bound.
AtBound == now = Does.until /\ UNCHANGED vars

Next ==
    \/ \E t \in EeTimers : EeWrite(t)
    \/ \E t \in IopTimers : IopWrite(t) \/ IopReadMode(t)
    \/ SetRegion
    \/ \E ch \in Channel : DmaComplete(ch)
    \/ DriveCommand
    \/ \E c \in Core : SpuTransfer(c)
    \/ Acknowledge
    \/ TickTimers
    \/ Elapse
    \/ AtBound

Spec == Init /\ [][Next]_vars

-----------------------------------------------------------------------------
(***************************************************************************)
(* Properties.                                                             *)
(***************************************************************************)
Times == Nat \cup {Never}

\* The shape of the state: no count leaves its width, no time its range.
TimeOK    == /\ use \in DOMAIN Uses /\ region \in Region
             /\ now \in Nat /\ turn \in {"software", "clock"} /\ timers_due \in Nat
TimersOK  == /\ ee_timers \in [Does.ee_timers -> EeTimerType]
             /\ iop_timers \in [Does.iop_timers -> IopTimerType]
PendingOK == /\ dma_irq_queue \subseteq Channel \X Nat
             /\ cdvd_done_at \in Times /\ last_sample \in Nat /\ spu_due \in [Core -> Times]
RaisedOK  == /\ intc_stat \subseteq Does.ee_timers /\ iop_i_stat \subseteq Does.iop_timers
             /\ d_stat \subseteq Channel /\ drive_done \in BOOLEAN
HistoryOK == /\ ee_match \in [Does.ee_timers -> Times]
             /\ iop_match \in [Does.iop_timers -> Times]
             /\ iop_wrap \in [Does.iop_timers -> Times]

TypeOK == TimeOK /\ TimersOK /\ PendingOK /\ RaisedOK /\ HistoryOK

\* An event at cycle c has not been left waiting past the first grid cycle.
OnTime(c) == c # Never => now =< ToGrid(c)

\* The tick runs at the first grid cycle at which COUNT has reached COMP.
EeCompareOnTime == \A t \in EeTimers : OnTime(ee_match[t])

\* The tick runs at the first grid cycle at which an IOP timer has reached its
\* target, or wrapped.
IopOnTime == \A t \in IopTimers : OnTime(iop_match[t]) /\ OnTime(iop_wrap[t])

\* The compares of both processors.
ComparesOnTime == EeCompareOnTime /\ IopOnTime

\* The completion of a DMA transfer, of a drive command or of an SPU2
\* transfer is delivered at the first grid cycle after it is due.
DeferredOnTime == /\ \A q \in dma_irq_queue : OnTime(q[2])
                  /\ OnTime(cdvd_done_at)
                  /\ \A c \in Core : OnTime(spu_due[c])

Ticks == turn' = "clock"
\* Software does not write a running timer, nor change the region: `rebase' leaves
\* last_check alone, and the check then looks back no further than the change.
Steady == "running" \notin Does.ee \cup Does.iop /\ "region" \notin Does.bus

\* The tick sets the equal flag of exactly the timers whose COUNT reached COMP
\* since the tick before, and interrupts for those with CMPE.
EeCompareExact ==
    [][Ticks /\ Steady => \A t \in EeTimers :
          LET hit == Live(ee_timers[t]) /\ ee_timers'[t].mode.equf
          IN /\ hit <=> (ee_match[t] # Never)
             /\ t \in intc_stat' \ intc_stat => hit
             /\ hit /\ ee_timers[t].mode.cmpe => t \in intc_stat']_vars

\* The tick sets the reached-target and wrap flags, and interrupts, where an
\* IOP timer reached its target or wrapped, and nowhere else.
IopFlagsExact ==
    [][Ticks /\ Steady => \A t \in IopTimers :
          LET old == iop_timers[t].mode   new == iop_timers'[t].mode
              target == iop_match[t] # Never   wrap == iop_wrap[t] # Never
          IN /\ new.target_hit <=> (old.target_hit \/ target)
             /\ new.wrapped <=> (old.wrapped \/ wrap)
             /\ t \in iop_i_stat' <=> \/ t \in iop_i_stat
                                      \/ target /\ old.tirq
                                      \/ wrap /\ old.oirq]_vars

\* Whatever raises a compare flag of either processor raises it once, for the
\* cycle the count meets the value compared.
FlagsExact == EeCompareExact /\ IopFlagsExact

\* A change of region moves no count.
RebaseKeepsCounts ==
    [][region' # region => /\ \A t \in EeTimers : EeCount(t)' = EeCount(t)
                           /\ \A t \in IopTimers : IopCountOf(t)' = IopCountOf(t)]_vars
-----------------------------------------------------------------------------
(***************************************************************************)
(* What software reads is a counter that ticks.                            *)
(***************************************************************************)
EeRates  == {EePeriod[r][k] : r \in Region, k \in Clock}
IopRates == {IopPeriod[r][k] : r \in Region, k \in IopClock}

EeRate(t)   == cycles_per_tick(ee_timers[t], region)
EePhase(t)  == Since(now, ee_timers[t].base_cycle) % EeRate(t)
IopRate(t)  == iop_cycles_per_tick(iop_timers[t], region)
IopPhase(t) == Elapsed(now, iop_timers[t].base_cycle) % IopRate(t)

EeEager(t) == INSTANCE EagerCounter WITH
    Width <- Size, Rates <- EeRates, value <- EeCount(t), phase <- EePhase(t), period <- EeRate(t)
IopEager(t) == INSTANCE EagerCounter WITH
    Width <- IopSize, Rates <- IopRates, value <- IopCountOf(t), phase <- IopPhase(t), period <- IopRate(t)

\* Every count that software reads is that of a counter that ticks, although
\* the timer keeps only the cycle of its last write.
CountIsEager ==
    /\ \A t \in EeTimers : EeEager(t)!Init
    /\ \A t \in IopTimers : IopEager(t)!Init
    /\ [][/\ \A t \in EeTimers : [EeEager(t)!Next]_(EeEager(t)!counter)
          /\ \A t \in IopTimers : [IopEager(t)!Next]_(IopEager(t)!counter)]_vars
=============================================================================
