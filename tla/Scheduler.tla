------------------------------ MODULE Scheduler ------------------------------
(***************************************************************************)
(* The clock of the machine: Ps2System::run, step, machine_cycle, advance  *)
(* and the two batched loops of lib.rs, with the parts of Bus that decide  *)
(* when something is due (timers_due, the latency of the INTC line, the    *)
(* recogniser of INTC_STAT polling).                                       *)
(*                                                                         *)
(* The reference is one cycle at a time: the EE executes one issue group,  *)
(* the IOP takes a slot every EE_PER_IOP cycles, the periodic tick runs on *)
(* its grid once it is due, the two vertical-blank edges land on their     *)
(* frame positions, and an idle EE is woken by a deliverable interrupt.    *)
(* run() reaches the same machine by jumps, groups and recompiled chains.  *)
(* The properties say what none of the shortcuts may skip.                 *)
(*                                                                         *)
(* One thread runs all of this, so pc is the place in the code and every   *)
(* action is one stretch of it.  did, iop_at and ee_at are history: what   *)
(* the current cycle has been given, and the first cycle whose IOP slot    *)
(* (EE instruction) has not been executed.                                 *)
(***************************************************************************)
EXTENDS Integers

CONSTANTS
    EE_PER_IOP,          \* EE cycles per IOP cycle (8)
    TIMER_TICK_CYCLES,   \* grid of the periodic tick (64)
    MAX_TICK_GAP,        \* the tick never looks further ahead (8192)
    INTC_LATENCY,        \* cycles from a raised INTC line to the EE (32)
    CHAIN_MIN,           \* floor of a recompiled chain's budget (256)
    CHAIN_MAX,           \* its cap (4096)
    BlockOvershoot,      \* cycles a chain may retire past its budget
    Region,              \* video regions
    FrameCycles,         \* Region -> cycles per frame
    VblankStart,         \* Region -> frame position of the start edge
    TickGaps,            \* distances tick_timers may find to the next event
    Uses                 \* how the machine is driven, by name (below)

(***************************************************************************)
(* A use says what drives the machine in one behaviour, and bounds it:     *)
(* jit       whether the EE recompiler is active                           *)
(* regions   the regions the machine may be built for                      *)
(* mask      the INTC sources software has unmasked                        *)
(* ee, iop, tick   what the two programs and the devices may do            *)
(* host      the calls the host makes: "step", "run", "frame"              *)
(* lengths   the arguments it gives to run()                               *)
(* until     the bound of the exploration                                  *)
(***************************************************************************)
Cycle  == Nat
Source == {"gs", "sbus", "vbon", "vboff", "timer"}
NoCycle == -1            \* u64::MAX in intc_ready_at: no line is armed

ASSUME ClockAssumption ==
    /\ EE_PER_IOP \in Nat \ {0}
    /\ TIMER_TICK_CYCLES \in Nat \ {0}
    /\ MAX_TICK_GAP \in Nat \ {0}
    /\ INTC_LATENCY \in Nat
    /\ CHAIN_MIN \in Nat /\ CHAIN_MAX \in Nat /\ BlockOvershoot \in Nat
    /\ TickGaps \subseteq 1 .. MAX_TICK_GAP

ASSUME UseAssumption ==
    \A u \in DOMAIN Uses :
       /\ Uses[u].jit \in BOOLEAN /\ Uses[u].regions \subseteq Region
       /\ Uses[u].mask \subseteq Source
       /\ Uses[u].host \subseteq {"step", "run", "frame"}
       /\ Uses[u].lengths \subseteq Nat \ {0} /\ Uses[u].until \in Nat

\* Frames are whole numbers of ticks, a tick a whole number of IOP slots,
\* and no frame is twice another.
ASSUME FrameAssumption ==
    /\ TIMER_TICK_CYCLES % EE_PER_IOP = 0
    /\ FrameCycles \in [Region -> Nat]
    /\ VblankStart \in [Region -> Nat]
    /\ \A r \in Region :
          /\ 0 < VblankStart[r] /\ VblankStart[r] < FrameCycles[r]
          /\ EE_PER_IOP < FrameCycles[r]
          /\ FrameCycles[r] % EE_PER_IOP = 0
          /\ VblankStart[r] % EE_PER_IOP = 0
          /\ \A s \in Region : FrameCycles[s] < 2 * FrameCycles[r]

VARIABLES
    use,                            \* the use of this behaviour
    cycles, frame_pos, region,      \* the clock
    timers_due,                     \* Bus::timers_due
    intc_stat, intc_ready_at,       \* INTC status, cycle its line delivers
    int1,                           \* the DMAC line into the EE
    ee_masked,                      \* EXL set, or IE/EIE clear
    ee_idle,                        \* EE in the kernel's idle loop
    ee_spinning, intc_poll_stat,    \* recognised INTC_STAT polling
    iop_idle, iop_irq,              \* IOP idle loop, deliverable IOP line
    pc, cont,                       \* place in the code, return label
    target, n, left,                \* locals of run, advance and the loops
    did, iop_at, ee_at,             \* history: see above
    in_handler,                     \* history: inside the exception taken last
    frame_slice, starts             \* history: the host runs to the next
                                    \* vblank; start edges in this slice

clock == <<cycles, frame_pos>>
intc  == <<intc_stat, intc_ready_at>>
ee    == <<ee_masked, in_handler, ee_idle, ee_spinning, intc_poll_stat>>
iop   == <<iop_idle, iop_irq>>
lines == <<timers_due, intc, int1, iop_irq>>   \* what a device can move
loop  == <<target, n, left>>
slice == <<frame_slice, starts>>
hist  == <<did, iop_at, ee_at, slice>>
vars  == <<use, clock, region, timers_due, intc, int1, ee, iop, pc, cont, loop, hist>>

-----------------------------------------------------------------------------
Jit        == Uses[use].jit
IntcMask   == Uses[use].mask
EeOps      == Uses[use].ee
IopOps     == Uses[use].iop
TickOps    == Uses[use].tick
HostOps    == Uses[use].host
RunLengths == Uses[use].lengths
MaxCycles  == Uses[use].until

frame_cycles == FrameCycles[region]
vblank_start == VblankStart[region]

Least(a, b)    == IF a =< b THEN a ELSE b
Greatest(a, b) == IF a >= b THEN a ELSE b

\* The first grid cycle at or after c.
ToGrid(c) == ((c + TIMER_TICK_CYCLES - 1) \div TIMER_TICK_CYCLES) * TIMER_TICK_CYCLES

OnSlot(c) == c % EE_PER_IOP = 0
OnGrid(c) == c % TIMER_TICK_CYCLES = 0

\* Operators named Bad... are the mutants PROJECT.json refers to.
BadWrapToZero(p) == IF p >= frame_cycles THEN 0 ELSE p
BadWrapLate(p)   == IF p > frame_cycles THEN p - frame_cycles ELSE p

\* wrap_frame_pos: one subtraction, against the current region's frame.
Wrap(p) == IF p >= frame_cycles THEN p - frame_cycles ELSE p

to_timer  == ToGrid(Greatest(timers_due, cycles)) - cycles
to_vblank == IF frame_pos < vblank_start THEN vblank_start - frame_pos
             ELSE Greatest(0, frame_cycles - frame_pos)

BadNextEventNoTimer(limit)  == Least(to_vblank, limit)
BadNextEventNoVblank(limit) == Least(to_timer, limit)
next_event_in(limit) == Least(Least(to_timer, to_vblank), limit)

BadQuietGroupsOnEdge(limit) ==
    Least(Least(to_timer \div EE_PER_IOP, to_vblank \div EE_PER_IOP), limit)
BadQuietGroupsNoVblank(limit) ==
    IF frame_pos = 0 \/ frame_pos = vblank_start THEN 0
    ELSE Least(to_timer \div EE_PER_IOP, limit)
quiet_iop_groups(limit) ==
    IF frame_pos = 0 \/ frame_pos = vblank_start THEN 0
    ELSE Least(Least(to_timer \div EE_PER_IOP, to_vblank \div EE_PER_IOP), limit)

\* Cop0::interrupt_pending over Bus::ee_int0_pending and ee_int1_pending.
Deliverable(c) == (intc_ready_at # NoCycle /\ c >= intc_ready_at) \/ int1
ee_interrupt_pending(c) == ~ee_masked /\ Deliverable(c)

BadIopAsleep == iop_idle
IopAsleep == iop_idle /\ ~iop_irq

BadWakeCap == MaxCycles + MAX_TICK_GAP
BadTickCap == to_timer \div EE_PER_IOP + 2
ee_wake_cap == IF intc_ready_at = NoCycle THEN MaxCycles + MAX_TICK_GAP
               ELSE Greatest(0, intc_ready_at - cycles) \div EE_PER_IOP + 1
tick_cap    == to_timer \div EE_PER_IOP + 1

\* Bus::intc_changed at cycle c, for the new status s.
IntcChanged(s, c) ==
    /\ intc_stat' = s
    /\ intc_ready_at' = IF s \cap IntcMask = {} THEN NoCycle
                        ELSE IF intc_ready_at = NoCycle THEN c + INTC_LATENCY
                        ELSE intc_ready_at

-----------------------------------------------------------------------------
Init ==
    /\ use \in DOMAIN Uses
    /\ cycles = 0 /\ frame_pos = 0 /\ region \in Uses[use].regions
    /\ timers_due = 0
    /\ intc_stat = {} /\ intc_ready_at = NoCycle /\ int1 = FALSE
    /\ ee_masked = TRUE /\ ee_idle = FALSE
    /\ ee_spinning = FALSE /\ intc_poll_stat = {} /\ in_handler = FALSE
    /\ iop_idle = FALSE /\ iop_irq = FALSE
    /\ pc = "host" /\ cont = "host"
    /\ target = 0 /\ n = 0 /\ left = 0
    /\ did = {} /\ iop_at = 0 /\ ee_at = 0
    /\ frame_slice = FALSE /\ starts = 0

(***************************************************************************)
(* What an instruction may do to the state this module keeps, at cycle c.  *)
(***************************************************************************)
\* Devices and programs move the lines: reschedule(), the INTC, the DMAC.
Arm      == timers_due' = 0 /\ UNCHANGED <<intc, int1, iop_irq>>
Raise(s, c) == IntcChanged(intc_stat \cup {s}, c) /\ UNCHANGED <<timers_due, int1, iop_irq>>
Ack(c)   == IntcChanged({}, c) /\ UNCHANGED <<timers_due, int1, iop_irq>>
Dmac(on) == int1' = on /\ UNCHANGED <<timers_due, intc, iop_irq>>
IopLine(on) == iop_irq' = on /\ UNCHANGED <<timers_due, intc, int1>>

EeInstruction(c) ==
    \/ UNCHANGED <<lines, ee, region>>
    \/ /\ "idle" \in EeOps /\ ~ee_masked          \* Cpu::check_idle_loop
       /\ ee_idle' = TRUE
       /\ UNCHANGED <<lines, ee_masked, in_handler, ee_spinning, intc_poll_stat, region>>
    \/ /\ "poll" \in EeOps /\ ~ee_spinning        \* Bus::note_intc_poll, the 32nd
       /\ ee_spinning' = TRUE /\ intc_poll_stat' = intc_stat
       /\ UNCHANGED <<lines, ee_masked, in_handler, ee_idle, region>>
    \/ /\ "mask" \in EeOps                        \* eret, ei, di
       /\ ee_masked' = ~ee_masked
       /\ in_handler' = (in_handler /\ ~ee_masked)
       /\ UNCHANGED <<lines, ee_idle, ee_spinning, intc_poll_stat, region>>
    \/ /\ "region" \in EeOps                      \* SMODE1 write
       /\ region' \in Region
       /\ UNCHANGED <<lines, ee>>
    \/ /\ UNCHANGED <<ee, region>>
       /\ \/ "arm" \in EeOps /\ Arm
          \/ "ack" \in EeOps /\ Ack(c)
          \/ "gs"  \in EeOps /\ Raise("gs", c)
          \/ "dmac" \in EeOps /\ Dmac(~int1)

\* Whatever it does besides, an IOP that executes is not idle any more
\* unless the instruction is the idle loop's own jump.
IopInstruction(c) ==
    \/ iop_idle' = FALSE /\ UNCHANGED lines
    \/ "idle" \in IopOps /\ iop_idle' = TRUE /\ UNCHANGED lines
    \/ /\ iop_idle' = FALSE
       /\ \/ "arm"  \in IopOps /\ Arm
          \/ "sbus" \in IopOps /\ Raise("sbus", c)
          \/ "dmac" \in IopOps /\ Dmac(TRUE)
          \/ "line" \in IopOps /\ IopLine(~iop_irq)

\* Bus::tick_timers: what came due is delivered, and the distance to the
\* next event becomes timers_due.
TickTimers(c) ==
    /\ \E gap \in TickGaps : timers_due' = c + gap
    /\ IF "timer" \in TickOps
       THEN \E s \in {intc_stat, intc_stat \cup {"timer"}} : IntcChanged(s, c)
       ELSE UNCHANGED intc
    /\ int1' \in {int1, int1 \/ "dmac" \in TickOps}
    /\ iop_irq' \in {iop_irq, iop_irq \/ "line" \in TickOps}

(***************************************************************************)
(* One cycle, as step() and machine_cycle() execute it.                    *)
(***************************************************************************)
Goto(label) == pc' = label /\ UNCHANGED <<cont, loop>>

\* The EE's turn: nothing while idle, else the exception that is due (with
\* the first instruction of the vector, which touches none of this state) or
\* one issue group.  In ee_group_tail the IOP and the tick get no turn.
EeStep ==
    /\ pc = "ee"
    /\ IF ee_idle
       THEN UNCHANGED <<lines, ee, region, ee_at>>
       ELSE /\ ee_at' = cycles + 1
            /\ IF ee_interrupt_pending(cycles)
               THEN /\ ee_masked' = TRUE /\ in_handler' = TRUE
                    /\ UNCHANGED <<lines, ee_idle, ee_spinning, intc_poll_stat, region>>
               ELSE EeInstruction(cycles)
    /\ Goto(IF cont = "eetail" THEN "edge" ELSE "iop")
    /\ UNCHANGED <<clock, iop_idle, did, iop_at, slice>>

\* machine_cycle's IOP slot.
IopSlot ==
    /\ pc = "iop"
    /\ IF ~OnSlot(cycles)
       THEN UNCHANGED <<lines, iop_idle, did, iop_at, slice>>
       ELSE /\ did' = did \cup {"iop"}
            /\ IF IopAsleep
               THEN UNCHANGED <<lines, iop_idle, iop_at>>
               ELSE /\ iop_at' = cycles + EE_PER_IOP
                    /\ IopInstruction(cycles)
    /\ Goto("timer")
    /\ UNCHANGED <<clock, region, ee, ee_at, slice>>

\* machine_cycle's periodic tick.
TimerSlot ==
    /\ pc = "timer"
    /\ IF OnGrid(cycles) /\ cycles >= timers_due
       THEN TickTimers(cycles) /\ did' = did \cup {"tick"}
       ELSE UNCHANGED <<lines, did>>
    /\ Goto("edge")
    /\ UNCHANGED <<clock, region, ee, iop_idle, iop_at, ee_at, slice>>

\* The vertical-blank edges: Bus::vblank.  SMODE1.SINT holds back the INTC
\* and IOP lines of the edge, not the GS's own interrupt.
EdgeSources(source) ==
    (IF "sint" \in EeOps THEN {{}, {source}} ELSE {{source}})

VblankEdge(name, source) ==
    /\ did' = did \cup {name}
    /\ starts' = IF name = "on" THEN starts + 1 ELSE starts
    /\ \E raised \in EdgeSources(source), g \in SUBSET (EeOps \cap {"gs"}) :
          /\ g = {} \/ name = "on"
          /\ IntcChanged(intc_stat \cup raised \cup g, cycles)
          /\ iop_irq' \in {iop_irq, iop_irq \/ (raised # {} /\ "line" \in TickOps)}

VblankSlot ==
    /\ pc = "edge"
    /\ IF frame_pos = vblank_start THEN VblankEdge("on", "vbon")
       ELSE IF frame_pos = 0 /\ cycles # 0 THEN VblankEdge("off", "vboff")
       ELSE UNCHANGED <<intc, iop_irq, did, starts>>
    /\ Goto("end")
    /\ UNCHANGED <<clock, region, timers_due, int1, ee, iop_idle, iop_at, ee_at, frame_slice>>

\* The clock moves by k cycles.
Pass(k) == /\ cycles' = cycles + k
           /\ frame_pos' = Wrap(frame_pos + k)
           /\ did' = {}

\* The end of the cycle; an idle EE is woken if the cycle carried an event.
EndCycle ==
    /\ pc = "end"
    /\ Pass(1)
    /\ ee_idle' = (ee_idle /\ ~(did # {} /\ ee_interrupt_pending(cycles)))
    /\ pc' = cont
    /\ UNCHANGED <<region, lines, ee_masked, in_handler, ee_spinning, intc_poll_stat,
                   iop_idle, cont, loop, iop_at, ee_at, slice>>

Machine == <<region, lines, ee, iop_idle>>   \* all a jump leaves alone

\* Enter a cycle at label l, to come back to label c.
Call(l, c) == pc' = l /\ cont' = c

(***************************************************************************)
(* run(): the loop over the slice.                                         *)
(***************************************************************************)
\* cycles_to_next_vblank
BadSliceLength ==
    IF frame_pos < vblank_start THEN vblank_start - frame_pos + 1
    ELSE frame_cycles - frame_pos + vblank_start + 1
cycles_to_next_vblank ==
    IF frame_pos =< vblank_start THEN vblank_start - frame_pos + 1
    ELSE frame_cycles - frame_pos + vblank_start + 1

\* The host's ways in: step(), run(k), and a frame slice, which is
\* run(cycles_to_next_vblank()).
HostStep ==
    /\ pc = "host" /\ "step" \in HostOps /\ cycles < MaxCycles
    /\ Call("ee", "host")
    /\ frame_slice' = FALSE /\ starts' = 0
    /\ UNCHANGED <<clock, Machine, loop, did, iop_at, ee_at>>

StartRun(k) ==
    /\ pc = "host" /\ cycles + k =< MaxCycles
    /\ target' = cycles + k
    /\ pc' = "loop"
    /\ starts' = 0
    /\ UNCHANGED <<clock, Machine, cont, n, left, did, iop_at, ee_at>>

HostRun   == "run" \in HostOps /\ frame_slice' = FALSE /\ \E k \in RunLengths : StartRun(k)
HostFrame == "frame" \in HostOps /\ frame_slice' = TRUE /\ StartRun(cycles_to_next_vblank)

RunReturn ==
    /\ pc = "loop" /\ cycles >= target
    /\ pc' = "host" /\ target' = 0
    /\ UNCHANGED <<clock, Machine, cont, n, left, hist>>

\* A recognised spin ends when the register has moved.
BadDropSpin ==
    /\ pc = "loop" /\ cycles < target
    /\ ee_spinning /\ intc_stat # intc_poll_stat
    /\ UNCHANGED vars

DropSpin ==
    /\ pc = "loop" /\ cycles < target
    /\ ee_spinning /\ intc_stat # intc_poll_stat
    /\ ee_spinning' = FALSE
    /\ UNCHANGED <<clock, region, lines, ee_masked, in_handler, ee_idle, intc_poll_stat,
                   iop_idle, pc, cont, loop, hist>>

Iterate == /\ pc = "loop" /\ cycles < target
           /\ ee_spinning => intc_stat = intc_poll_stat

UsesChain   == Jit /\ ~ee_idle /\ ~ee_spinning
BadBothAsleep == ee_idle /\ iop_idle
BothAsleep  == ee_idle /\ IopAsleep
Ungrouped   == ~OnSlot(cycles) \/ target - cycles < EE_PER_IOP
QuietGroups == IF ee_idle \/ ee_spinning
               THEN quiet_iop_groups((target - cycles) \div EE_PER_IOP) ELSE 0

\* Jit::run: one interpreter step into a due exception, else a chain of
\* blocks.  One of its instructions, the one at offset at, touches the state
\* kept here; what that arms shortens the budget still to run, and the block
\* in which the budget ends is finished.
ChainCut(at, budget) ==
    IF ee_spinning' \/ (timers_due' = 0 /\ timers_due # 0) THEN 0
    ELSE IF int1' /\ ~int1 THEN Least(budget, at)
    ELSE IF intc_ready_at' # NoCycle /\ intc_ready_at = NoCycle
         THEN Least(budget, intc_ready_at' - cycles)
    ELSE budget

RunChain ==
    /\ Iterate /\ UsesChain
    /\ IF ee_interrupt_pending(cycles)
       THEN /\ n' = 1 /\ ee_masked' = TRUE /\ in_handler' = TRUE
            /\ UNCHANGED <<region, lines, ee_idle, ee_spinning, intc_poll_stat>>
       ELSE LET budget == Least(target - cycles,
                                Greatest(next_event_in(CHAIN_MAX), CHAIN_MIN))
            IN \E at \in 0 .. (budget + BlockOvershoot - 1) :
                 /\ EeInstruction(cycles + at)
                 /\ n' \in (at + 1) ..
                       (IF ee_idle' THEN at + 1
                        ELSE Greatest(at + 1, ChainCut(at, budget) + BlockOvershoot))
    /\ ee_at' = cycles + n'
    /\ pc' = "advance"
    /\ UNCHANGED <<clock, iop_idle, cont, target, left, did, iop_at, slice>>

\* Both cores idle: jump to the next event and step.
RunJump ==
    /\ Iterate /\ ~UsesChain /\ BothAsleep
    /\ Pass(next_event_in(target - cycles - 1))
    /\ Call("ee", "loop")
    /\ UNCHANGED <<Machine, loop, iop_at, ee_at, slice>>

RunSingle ==
    /\ Iterate /\ ~UsesChain /\ ~BothAsleep /\ Ungrouped
    /\ Call("ee", "loop")
    /\ UNCHANGED <<clock, Machine, loop, hist>>

RunQuietGroups ==
    /\ Iterate /\ ~UsesChain /\ ~BothAsleep /\ ~Ungrouped /\ QuietGroups > 0
    /\ left' = QuietGroups /\ pc' = "idlegroups"
    /\ UNCHANGED <<clock, Machine, cont, target, n, hist>>

RunGroup ==
    /\ Iterate /\ ~UsesChain /\ ~BothAsleep /\ ~Ungrouped /\ QuietGroups = 0
    /\ Call("ee", "grouptail")
    /\ UNCHANGED <<clock, Machine, loop, hist>>

\* After cycle 0 of a group: seven cycles at once for an idle EE with no
\* edge near, else ee_group_tail.
NoEdgeInTail ==
    /\ ~(frame_pos + EE_PER_IOP > vblank_start /\ frame_pos =< vblank_start)
    /\ frame_pos + EE_PER_IOP < frame_cycles

BadGroupTailLength ==
    /\ pc = "grouptail"
    /\ IF ee_idle /\ NoEdgeInTail
       THEN /\ Pass(EE_PER_IOP)
            /\ pc' = "loop"
            /\ UNCHANGED left
       ELSE /\ pc' = "eetail" /\ left' = EE_PER_IOP - 1
            /\ UNCHANGED <<clock, did>>
    /\ UNCHANGED <<Machine, cont, target, n, iop_at, ee_at, slice>>

BadGroupTailAwake ==
    /\ pc = "grouptail"
    /\ IF NoEdgeInTail
       THEN /\ Pass(EE_PER_IOP - 1)
            /\ pc' = "loop"
            /\ UNCHANGED left
       ELSE /\ pc' = "eetail" /\ left' = EE_PER_IOP - 1
            /\ UNCHANGED <<clock, did>>
    /\ UNCHANGED <<Machine, cont, target, n, iop_at, ee_at, slice>>

GroupTail ==
    /\ pc = "grouptail"
    /\ IF ee_idle /\ NoEdgeInTail
       THEN /\ Pass(EE_PER_IOP - 1)
            /\ pc' = "loop"
            /\ UNCHANGED left
       ELSE /\ pc' = "eetail" /\ left' = EE_PER_IOP - 1
            /\ UNCHANGED <<clock, did>>
    /\ UNCHANGED <<Machine, cont, target, n, iop_at, ee_at, slice>>

EeGroupTail ==
    /\ pc = "eetail"
    /\ IF left = 0
       THEN pc' = "loop" /\ UNCHANGED <<cont, left>>
       ELSE Call("ee", "eetail") /\ left' = left - 1
    /\ UNCHANGED <<clock, Machine, target, n, hist>>

(***************************************************************************)
(* advance(n): the rest of the machine follows a chain of n cycles.        *)
(***************************************************************************)
AdvanceReturn ==
    /\ pc = "advance" /\ n = 0
    /\ pc' = "loop"
    /\ UNCHANGED <<clock, Machine, cont, loop, hist>>

AdvanceJump ==
    /\ pc = "advance" /\ n > 0 /\ IopAsleep
    /\ LET k == next_event_in(n - 1)
       IN Pass(k) /\ n' = n - (k + 1)
    /\ Call("iop", "advance")
    /\ UNCHANGED <<Machine, target, left, iop_at, ee_at, slice>>

AdvanceGroups == IF ee_idle THEN 0 ELSE quiet_iop_groups(n \div EE_PER_IOP)

AdvanceSingle ==
    /\ pc = "advance" /\ n > 0 /\ ~IopAsleep
    /\ ~OnSlot(cycles) \/ n < EE_PER_IOP
    /\ n' = n - 1
    /\ Call("iop", "advance")
    /\ UNCHANGED <<clock, Machine, target, left, hist>>

AdvanceQuietGroups ==
    /\ pc = "advance" /\ ~IopAsleep /\ OnSlot(cycles) /\ n >= EE_PER_IOP
    /\ AdvanceGroups > 0
    /\ left' = AdvanceGroups
    /\ n' = n - AdvanceGroups * EE_PER_IOP
    /\ pc' = "iopgroups"
    /\ UNCHANGED <<clock, Machine, cont, target, hist>>

BadAdvanceGroup ==
    /\ pc = "advance" /\ ~IopAsleep /\ OnSlot(cycles) /\ n > 0
    /\ AdvanceGroups = 0
    /\ n' = n - 1
    /\ Call("iop", "advancetail")
    /\ UNCHANGED <<clock, Machine, target, left, hist>>

AdvanceGroup ==
    /\ pc = "advance" /\ ~IopAsleep /\ OnSlot(cycles) /\ n >= EE_PER_IOP
    /\ AdvanceGroups = 0
    /\ n' = n - 1
    /\ Call("iop", "advancetail")
    /\ UNCHANGED <<clock, Machine, target, left, hist>>

BadAdvanceTail ==
    /\ pc = "advancetail"
    /\ n' = n - (EE_PER_IOP - 2)
    /\ IF NoEdgeInTail
       THEN Pass(EE_PER_IOP - 1) /\ pc' = "advance" /\ UNCHANGED left
       ELSE pc' = "advancerest" /\ left' = EE_PER_IOP - 1 /\ UNCHANGED <<clock, did>>
    /\ UNCHANGED <<Machine, cont, target, iop_at, ee_at, slice>>

AdvanceTail ==
    /\ pc = "advancetail"
    /\ n' = n - (EE_PER_IOP - 1)
    /\ IF NoEdgeInTail
       THEN Pass(EE_PER_IOP - 1) /\ pc' = "advance" /\ UNCHANGED left
       ELSE pc' = "advancerest" /\ left' = EE_PER_IOP - 1 /\ UNCHANGED <<clock, did>>
    /\ UNCHANGED <<Machine, cont, target, iop_at, ee_at, slice>>

AdvanceRest ==
    /\ pc = "advancerest"
    /\ IF left = 0
       THEN pc' = "advance" /\ UNCHANGED <<cont, left>>
       ELSE Call("iop", "advancerest") /\ left' = left - 1
    /\ UNCHANGED <<clock, Machine, target, n, hist>>

(***************************************************************************)
(* The batches of groups: run_iop_groups under a running EE ("iopgroups")  *)
(* and run_idle_ee_groups under a sleeping one ("idlegroups").  A chain of *)
(* m IOP instructions is m - 1 that stay in IOP RAM and one that may not.  *)
(***************************************************************************)
Skip(k) == cycles' = cycles + k /\ frame_pos' = frame_pos + k /\ did' = {}

IopBudget == IF pc = "iopgroups" THEN left
             ELSE Least(left, Least(ee_wake_cap, tick_cap))

GroupChain ==
    /\ pc \in {"iopgroups", "idlegroups"} /\ left > 0
    /\ \E m \in 1 .. (IF IopAsleep \/ iop_irq THEN 1 ELSE IopBudget) :
          /\ Skip((m - 1) * EE_PER_IOP)
          /\ left' = left - m
          /\ iop_at' = IF m > 1 THEN cycles' ELSE iop_at
    /\ pc' = IF pc = "iopgroups" THEN "iopslot" ELSE "idleslot"
    /\ UNCHANGED <<Machine, cont, target, n, ee_at, slice>>

GroupSlot ==
    /\ pc \in {"iopslot", "idleslot"}
    /\ did' = {"iop"}
    /\ IF IopAsleep
       THEN UNCHANGED <<lines, iop_idle, iop_at>>
       ELSE /\ iop_at' = cycles + EE_PER_IOP
            /\ IopInstruction(cycles)
    /\ Goto(IF pc = "iopslot" THEN "iopend" ELSE "idletick")
    /\ UNCHANGED <<clock, region, ee, ee_at, slice>>

IopGroupEnd ==
    /\ pc = "iopend"
    /\ Skip(EE_PER_IOP)
    /\ Goto("iopgroups")
    /\ UNCHANGED <<Machine, iop_at, ee_at, slice>>

\* The IOP can arm an event from inside the batch: the tick it is due for.
IdleGroupTick ==
    /\ pc = "idletick"
    /\ IF OnGrid(cycles) /\ cycles >= timers_due
       THEN TickTimers(cycles) /\ did' = did \cup {"tick"}
       ELSE UNCHANGED <<lines, did>>
    /\ Goto("idleend")
    /\ UNCHANGED <<clock, region, ee, iop_idle, iop_at, ee_at, slice>>

IdleGroupEnd ==
    /\ pc = "idleend"
    /\ LET moved == ee_spinning /\ intc_stat # intc_poll_stat
           woken == moved \/ ee_interrupt_pending(cycles)
       IN /\ ee_spinning' = (ee_spinning /\ ~moved)
          /\ ee_idle' = (ee_idle /\ (moved \/ ~woken))
          /\ IF woken
             THEN Pass(1) /\ pc' = "eetail" /\ left' = EE_PER_IOP - 1
             ELSE Skip(EE_PER_IOP) /\ pc' = "idlegroups" /\ UNCHANGED left
    /\ UNCHANGED <<region, lines, ee_masked, in_handler, intc_poll_stat, iop_idle, cont,
                   target, n, iop_at, ee_at, slice>>

GroupsDone ==
    /\ pc \in {"iopgroups", "idlegroups"} /\ left = 0
    /\ frame_pos' = Wrap(frame_pos)
    /\ pc' = IF pc = "iopgroups" THEN "advance" ELSE "loop"
    /\ UNCHANGED <<cycles, Machine, cont, loop, hist>>

\* The exploration ends where no run fits under the bound any more.
Finished ==
    /\ pc = "host"
    /\ "step" \in HostOps => cycles >= MaxCycles
    /\ "run" \in HostOps => \A k \in RunLengths : cycles + k > MaxCycles
    /\ "frame" \in HostOps => cycles + cycles_to_next_vblank > MaxCycles
    /\ UNCHANGED vars

Host    == HostStep \/ HostRun \/ HostFrame \/ Finished
OneCycle == EeStep \/ IopSlot \/ TimerSlot \/ VblankSlot \/ EndCycle
Run     == RunReturn \/ DropSpin \/ RunChain \/ RunJump \/ RunSingle
             \/ RunQuietGroups \/ RunGroup \/ GroupTail \/ EeGroupTail
Advance == AdvanceReturn \/ AdvanceJump \/ AdvanceSingle \/ AdvanceQuietGroups
             \/ AdvanceGroup \/ AdvanceTail \/ AdvanceRest
Groups  == GroupChain \/ GroupSlot \/ IopGroupEnd \/ IdleGroupTick
             \/ IdleGroupEnd \/ GroupsDone

Next == UNCHANGED use /\ (Host \/ OneCycle \/ Run \/ Advance \/ Groups)

Spec == Init /\ [][Next]_vars

\* The code between two host calls is one thread that nothing suspends.
FairSpec == Spec /\ WF_vars(UNCHANGED use /\ (OneCycle \/ Run \/ Advance \/ Groups))

-----------------------------------------------------------------------------
(***************************************************************************)
(* Properties.                                                             *)
(***************************************************************************)
Labels == {"host", "loop", "ee", "iop", "timer", "edge", "end", "grouptail",
           "eetail", "advance", "advancetail", "advancerest", "iopgroups",
           "idlegroups", "iopslot", "idleslot", "iopend", "idletick", "idleend"}

\* The labels a single cycle can return to.
Returns == {"host", "loop", "grouptail", "eetail", "advance", "advancetail", "advancerest"}

UseOK   == use \in DOMAIN Uses
ClockOK == cycles \in Cycle /\ frame_pos \in Nat /\ region \in Region
LinesOK == /\ timers_due \in Cycle
           /\ intc_stat \subseteq Source /\ intc_ready_at \in Cycle \cup {NoCycle}
           /\ int1 \in BOOLEAN /\ iop_irq \in BOOLEAN
EeOK    == /\ ee_masked \in BOOLEAN /\ in_handler \in BOOLEAN
           /\ ee_idle \in BOOLEAN /\ ee_spinning \in BOOLEAN
           /\ intc_poll_stat \subseteq Source
LoopOK  == target \in Nat /\ n \in Nat /\ left \in Nat
HistOK  == /\ did \subseteq {"iop", "tick", "on", "off"}
           /\ iop_at \in Nat /\ ee_at \in Nat
           /\ frame_slice \in BOOLEAN /\ starts \in Nat

\* The shape of the state.  That n and left stay in Nat says that no
\* subtraction of the run loop (they are u64) goes below zero.
TypeOK == /\ ClockOK /\ LinesOK /\ EeOK /\ iop_idle \in BOOLEAN
          /\ pc \in Labels /\ cont \in Returns
          /\ LoopOK /\ HistOK

\* Edges and ticks land on group starts (lib.rs, quiet_iop_groups): the frame
\* position and the cycle count stay on the same phase of the IOP clock,
\* across region changes and wraps.
Aligned == (cycles - frame_pos) % EE_PER_IOP = 0

\* wrap_frame_pos: one subtraction always suffices.  Whenever control is back
\* in the host or at the head of the loop the position is inside the frame.
InFrame == pc \in {"host", "loop"} => frame_pos < frame_cycles

\* The inductive invariant behind the two: what the run loop relies on where.
\* The cycles still to follow a chain cover the tail of a group.
TailRoom == (pc = "advancetail" \/ (pc \in {"ee", "iop", "timer", "edge", "end"} /\ cont = "advancetail"))
              => n >= EE_PER_IOP - 1

\* Between cycles the position is inside the frame; a change of region in the
\* EE's turn, or in a chain, may leave it in front of the second wrap only.
FrameRoom ==
    /\ pc \in {"host", "loop", "ee", "grouptail", "eetail", "advancetail", "advancerest"}
         => frame_pos < frame_cycles
    /\ pc \in {"iop", "timer", "edge", "end", "advance"} => frame_pos + 1 < 2 * frame_cycles
    /\ pc = "advance" /\ n = 0 => frame_pos < frame_cycles

\* The next k cycles end at or before the next edge or the end of the frame.
Room(k) == IF frame_pos =< vblank_start THEN frame_pos + k =< vblank_start
           ELSE frame_pos + k =< frame_cycles

\* A batch of groups fits between two edges.
GroupRoom ==
    /\ pc \in {"iopgroups", "idlegroups"} => Room(left * EE_PER_IOP)
    /\ pc \in {"iopslot", "iopend", "idleslot", "idletick", "idleend"}
         => Room(left * EE_PER_IOP + EE_PER_IOP)

RoomInv == TypeOK /\ TailRoom /\ FrameRoom /\ GroupRoom

\* Where each label stands in its group of EE_PER_IOP cycles, and which of
\* them a cycle can return to: behind the EE's turn (ee_group_tail) no cycle
\* but the group's first carries an IOP slot.
InCycle == pc \in {"ee", "iop", "timer", "edge", "end"}
InBatch == pc \in {"iopgroups", "iopslot", "iopend",
                   "idlegroups", "idleslot", "idletick", "idleend"}
GroupPhase ==
    /\ pc \in {"grouptail", "advancetail"} => cycles > 0 /\ OnSlot(cycles - 1)
    /\ InCycle /\ cont \in {"grouptail", "advancetail"} => OnSlot(cycles)
    /\ pc = "eetail" => left < EE_PER_IOP /\ OnSlot(cycles + left)
    /\ InCycle /\ cont = "eetail" => left + 1 < EE_PER_IOP /\ OnSlot(cycles + left + 1)
    /\ InBatch => OnSlot(cycles)
    /\ pc \in {"iop", "timer"} => cont # "eetail"
    /\ pc = "ee" => cont \in {"host", "loop", "grouptail", "eetail"}

\* What the current cycle has been given, once its turn is over.
Turns ==
    /\ pc \in {"timer", "edge", "end"} /\ OnSlot(cycles) => "iop" \in did
    /\ pc \in {"iopend", "idletick", "idleend"} => "iop" \in did
    /\ pc \in {"edge", "end", "idleend"} /\ OnGrid(cycles) /\ cycles >= timers_due
         => "tick" \in did
    /\ pc = "end" => /\ frame_pos = vblank_start => "on" \in did
                     /\ frame_pos = 0 /\ cycles # 0 => "off" \in did

\* No batch starts on an edge (quiet_iop_groups answers 0 there).
OffEdge == frame_pos # 0 /\ frame_pos # vblank_start
BatchOffEdge ==
    /\ pc \in {"iopgroups", "idlegroups"} /\ left > 0 => OffEdge
    /\ pc \in {"iopslot", "iopend", "idleslot", "idletick", "idleend"} => OffEdge

\* The EE has executed the current cycle or sleeps; under the machine that
\* follows a chain, it has executed all the cycles still to follow.
EeAhead ==
    /\ pc \in {"iop", "timer", "edge", "end"} => cycles < ee_at \/ ee_idle \/ ee_spinning
    /\ pc \in {"idlegroups", "idleslot", "idletick", "idleend"} => ee_idle \/ ee_spinning
    /\ pc \in {"advance", "advancetail"} => cycles + n =< ee_at
    /\ InCycle /\ cont \in {"advance", "advancetail"} => cycles + n + 1 =< ee_at
    /\ pc = "advancerest" => cycles + n + left =< ee_at
    /\ InCycle /\ cont = "advancerest" => cycles + n + left + 1 =< ee_at
    /\ pc = "iopgroups" => cycles + n + left * EE_PER_IOP =< ee_at
    /\ pc \in {"iopslot", "iopend"} =>
          cycles + n + (left * EE_PER_IOP + EE_PER_IOP) =< ee_at
    /\ pc \in {"iopgroups", "iopslot", "iopend"} => ~ee_idle

IInv == RoomInv /\ Aligned /\ GroupPhase /\ Turns /\ BatchOffEdge /\ EeAhead

Passed == cycles .. (cycles' - 1)

\* No grid cycle at which the tick is due is passed without a tick.
TickKept == \A c \in Passed : OnGrid(c) /\ c >= timers_due' => c = cycles /\ "tick" \in did
TickCadence == [][TickKept]_vars

\* A jump or a group never passes a vertical-blank edge that lies ahead of
\* it, nor the end of the frame.
VblankAhead ==
    [][frame_pos < frame_cycles =>
         \A c \in Passed \ {cycles} :
            frame_pos + (c - cycles) \notin {vblank_start, frame_cycles}]_vars

\* The clock never leaves a vertical-blank position whose edge has not fired.
EdgeKept ==
    cycles' # cycles /\ frame_pos < frame_cycles =>
        /\ frame_pos = vblank_start     => "on" \in did
        /\ frame_pos = 0 /\ cycles # 0  => "off" \in did
VblankCadence == [][EdgeKept]_vars

\* No IOP slot is passed over while the IOP has something to execute, and
\* none is declined to an IOP that is awake or has an interrupt to take.
SlotsKept ==
    /\ \A c \in Passed : OnSlot(c) =>
          \/ c < iop_at'
          \/ c = cycles /\ "iop" \in did
          \/ iop_idle' /\ ~iop_irq'
    /\ "iop" \in did' \ did => iop_at' > cycles \/ (iop_idle /\ ~iop_irq)

\* A running EE executes every cycle: only the idle loop and a recognised
\* poll loop are skipped.
EeKept == \A c \in Passed : c < ee_at' \/ ee_idle \/ ee_spinning

\* Behind a chain, and at the end of a group, every core has had its cycles.
CoreCadence == [][SlotsKept /\ EeKept]_vars

\* The same with the tick and, while the IOP is awake, the edges: what step()
\* would have given the machine cycle by cycle, the batches and jumps give it.
Cadences ==
    [][SlotsKept /\ EeKept /\ TickKept /\ (~iop_idle /\ ~iop_idle' => EdgeKept)]_vars

\* A slice of cycles_to_next_vblank() cycles carries exactly one start edge
\* and ends on the cycle after it (interpreter, no change of region).
FrameSliceExact ==
    pc = "host" /\ frame_slice => starts = 1 /\ frame_pos = Wrap(vblank_start + 1)

\* While the IOP is awake, an idle EE does not sleep through an IOP slot at
\* which its INTC line is deliverable, nor past the end of a cycle that gave
\* the IOP its turn with the DMAC line up.  (With both asleep it does: the
\* jump of run() goes to the next tick, whatever intc_ready_at says.  And an
\* EE that went idle while it was taken for polling is left asleep by
\* run_idle_ee_groups when INTC_STAT moves: the comment there, "a spinning EE
\* is not idle", is not enforced.)
WakeOnTime ==
    [][~iop_idle /\ ~iop_idle' /\ ~ee_spinning =>
       \A c \in Passed : OnSlot(c) /\ ee_idle' /\ ~ee_masked' =>
          /\ ~(intc_ready_at' # NoCycle /\ c >= intc_ready_at')
          /\ ~(int1' /\ "iop" \in did)]_vars

\* Skipping a spin skips only the polling loop: an EE that an exception took
\* out of it executes every cycle of its handler.
SpinIsThePollLoop ==
    [][\A c \in Passed : c < ee_at' \/ ee_idle \/ (ee_spinning /\ ~in_handler)]_vars

\* Every slice the host starts ends.
SliceEnds == (pc # "host") ~> (pc = "host")
=============================================================================
