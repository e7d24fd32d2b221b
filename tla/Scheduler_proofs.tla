--------------------------- MODULE Scheduler_proofs ---------------------------
(***************************************************************************)
(* Proofs about the run loop, for every clock ratio, frame length and      *)
(* program: the locals of the loop never go below zero, one subtraction    *)
(* brings the frame position back, and no jump or batch of groups passes   *)
(* a vertical-blank edge that lies ahead of it (RoomInv); then the full    *)
(* invariant IInv, which adds the phase of every label in its group and    *)
(* what a cycle has been given, and from it the cadences of the cores, the *)
(* tick and the edges, the waking of an idle EE and the frame slice.       *)
(***************************************************************************)
EXTENDS Scheduler, TLAPS

(***************************************************************************)
(* Arithmetic of the grid and of the groups.                               *)
(***************************************************************************)
\* Rounding down to whole groups stays below, rounding up to the grid above.
LEMMA DivBound ==
    ASSUME NEW a \in Nat, NEW b \in Nat \ {0}
    PROVE  a \div b \in Nat /\ (a \div b) * b =< a
  OBVIOUS

LEMMA GridBound ==
    ASSUME NEW a \in Nat, NEW b \in Nat \ {0}
    PROVE  ((a + b - 1) \div b) * b \in Nat /\ ((a + b - 1) \div b) * b >= a
  <1>1. a + b - 1 \in Nat
    OBVIOUS
  <1>2. (a + b - 1) \div b \in Nat
    BY <1>1, DivBound
  <1> QED
    BY <1>2, SMTT(30)

\* The multiple of a smaller count is the smaller multiple.
LEMMA MulMono ==
    ASSUME NEW a \in Nat, NEW b \in Nat, NEW k \in Nat, a =< b
    PROVE  a * k =< b * k
  BY SMTT(30)

LEMMA FrameFacts ==
    ASSUME region \in Region
    PROVE  /\ frame_cycles \in Nat /\ vblank_start \in Nat
           /\ 0 < vblank_start /\ vblank_start < frame_cycles
           /\ EE_PER_IOP < frame_cycles
  BY FrameAssumption DEF frame_cycles, vblank_start

LEMMA TimerFacts ==
    ASSUME ClockOK, LinesOK
    PROVE  to_timer \in Nat
  <1>1. Greatest(timers_due, cycles) \in Nat /\ Greatest(timers_due, cycles) >= cycles
    BY DEF Greatest, ClockOK, LinesOK, Cycle
  <1>2. /\ ToGrid(Greatest(timers_due, cycles)) \in Nat
        /\ ToGrid(Greatest(timers_due, cycles)) >= Greatest(timers_due, cycles)
    BY <1>1, ClockAssumption, GridBound DEF ToGrid
  <1> QED
    BY <1>1, <1>2 DEF to_timer, ClockOK, Cycle

LEMMA VblankFacts ==
    ASSUME ClockOK
    PROVE  /\ to_vblank \in Nat
           /\ frame_pos < vblank_start => frame_pos + to_vblank = vblank_start
           /\ frame_pos >= vblank_start /\ frame_pos =< frame_cycles
                => frame_pos + to_vblank = frame_cycles
           /\ frame_pos >= frame_cycles => to_vblank = 0
  BY FrameFacts DEF to_vblank, Greatest, ClockOK

\* next_event_in never answers more than the distance to an edge ahead.
LEMMA NextEventBound ==
    ASSUME ClockOK, LinesOK, NEW limit \in Nat
    PROVE  /\ next_event_in(limit) \in Nat
           /\ next_event_in(limit) =< limit
           /\ next_event_in(limit) =< to_vblank
  BY TimerFacts, VblankFacts DEF next_event_in, Least

\* Neither do the groups of quiet_iop_groups, and none start on an edge.
LEMMA QuietGroupsBound ==
    ASSUME ClockOK, LinesOK, NEW limit \in Nat
    PROVE  /\ quiet_iop_groups(limit) \in Nat
           /\ quiet_iop_groups(limit) =< limit
           /\ quiet_iop_groups(limit) * EE_PER_IOP =< to_vblank
           /\ quiet_iop_groups(limit) > 0 => frame_pos # vblank_start
  <1> DEFINE g == quiet_iop_groups(limit)
  <1>1. /\ to_vblank \div EE_PER_IOP \in Nat
        /\ (to_vblank \div EE_PER_IOP) * EE_PER_IOP =< to_vblank
    BY VblankFacts, ClockAssumption, DivBound
  <1>2. to_timer \div EE_PER_IOP \in Nat
    BY TimerFacts, ClockAssumption, DivBound
  <1>3. g \in Nat /\ g =< limit /\ g =< to_vblank \div EE_PER_IOP
    BY <1>1, <1>2 DEF quiet_iop_groups, Least
  <1>4. g * EE_PER_IOP =< (to_vblank \div EE_PER_IOP) * EE_PER_IOP
    BY <1>1, <1>3, ClockAssumption, MulMono
  <1>5. g > 0 => frame_pos # vblank_start
    BY DEF quiet_iop_groups
  <1>6. g * EE_PER_IOP =< to_vblank
    <2>1. /\ g * EE_PER_IOP \in Nat /\ to_vblank \in Nat
          /\ (to_vblank \div EE_PER_IOP) * EE_PER_IOP \in Nat
      BY <1>1, <1>3, ClockAssumption, VblankFacts
    <2>2. \A a, b, c \in Nat : a =< b /\ b =< c => a =< c
      OBVIOUS
    <2> HIDE DEF g
    <2> QED
      BY <1>1, <1>4, <2>1, <2>2
  <1> QED
    BY <1>3, <1>5, <1>6

(***************************************************************************)
(* What one instruction, one tick or one edge does keeps the types.        *)
(***************************************************************************)
LEMMA IntcTypes ==
    ASSUME LinesOK, NEW s \in SUBSET Source, NEW c \in Nat, IntcChanged(s, c)
    PROVE  intc_stat' \subseteq Source /\ intc_ready_at' \in Cycle \cup {NoCycle}
  BY ClockAssumption DEF IntcChanged, LinesOK, Cycle

\* Whichever line a device or a program moves, the lines keep their types.
LEMMA LineTypes ==
    ASSUME TypeOK, NEW c \in Nat
    PROVE  /\ UNCHANGED lines \/ Arm \/ Ack(c) => LinesOK'
           /\ \A s \in Source : Raise(s, c) => LinesOK'
           /\ \A on \in BOOLEAN : Dmac(on) \/ IopLine(on) => LinesOK'
  <1>1. \A s \in SUBSET Source : IntcChanged(s, c) =>
             intc_stat' \subseteq Source /\ intc_ready_at' \in Cycle \cup {NoCycle}
    BY IntcTypes DEF TypeOK
  <1>2. {} \in SUBSET Source /\ \A s \in Source : intc_stat \cup {s} \in SUBSET Source
    BY DEF TypeOK, LinesOK
  <1>3. UNCHANGED lines \/ Arm => LinesOK'
    BY DEF TypeOK, LinesOK, lines, intc, Arm, Cycle
  <1>4. Ack(c) => LinesOK'
    BY <1>1, <1>2 DEF TypeOK, LinesOK, Ack
  <1>5. \A s \in Source : Raise(s, c) => LinesOK'
    BY <1>1, <1>2 DEF TypeOK, LinesOK, Raise
  <1>6. \A on \in BOOLEAN : Dmac(on) \/ IopLine(on) => LinesOK'
    BY DEF TypeOK, LinesOK, Dmac, IopLine, intc
  <1> QED
    BY <1>3, <1>4, <1>5, <1>6

LEMMA EeTypes ==
    ASSUME TypeOK, NEW c \in Nat, EeInstruction(c)
    PROVE  LinesOK' /\ EeOK' /\ region' \in Region
  <1>1. int1 \in BOOLEAN /\ (~int1) \in BOOLEAN /\ "gs" \in Source
    BY DEF TypeOK, LinesOK, Source
  <1>2. LinesOK'
    BY <1>1, LineTypes DEF EeInstruction
  <1>3. EeOK'
    BY DEF EeInstruction, ee, TypeOK, EeOK, LinesOK
  <1>4. region' \in Region
    BY DEF EeInstruction, TypeOK, ClockOK
  <1> QED
    BY <1>2, <1>3, <1>4

LEMMA IopTypes ==
    ASSUME TypeOK, NEW c \in Nat, IopInstruction(c)
    PROVE  LinesOK' /\ iop_idle' \in BOOLEAN
  <1>1. iop_irq \in BOOLEAN /\ (~iop_irq) \in BOOLEAN /\ "sbus" \in Source
    BY DEF TypeOK, LinesOK, Source
  <1>2. LinesOK'
    BY <1>1, LineTypes DEF IopInstruction
  <1>3. iop_idle' \in BOOLEAN
    BY DEF IopInstruction
  <1> QED
    BY <1>2, <1>3

LEMMA TickTypes ==
    ASSUME TypeOK, NEW c \in Nat, TickTimers(c)
    PROVE  LinesOK'
  <1>1. \A s \in SUBSET Source : IntcChanged(s, c) =>
             intc_stat' \subseteq Source /\ intc_ready_at' \in Cycle \cup {NoCycle}
    BY IntcTypes DEF TypeOK
  <1>2. intc_stat \in SUBSET Source /\ intc_stat \cup {"timer"} \in SUBSET Source
    BY DEF TypeOK, LinesOK, Source
  <1>3. timers_due' \in Cycle
    BY ClockAssumption DEF TickTimers, Cycle
  <1>4. intc_stat' \subseteq Source /\ intc_ready_at' \in Cycle \cup {NoCycle}
    BY <1>1, <1>2 DEF TickTimers, intc, TypeOK, LinesOK
  <1>5. int1' \in BOOLEAN /\ iop_irq' \in BOOLEAN
    BY DEF TickTimers, TypeOK, LinesOK
  <1> QED
    BY <1>3, <1>4, <1>5 DEF LinesOK

LEMMA EdgeTypes ==
    ASSUME TypeOK, NEW name \in {"on", "off"}, NEW source \in Source,
           VblankEdge(name, source)
    PROVE  /\ intc_stat' \subseteq Source /\ intc_ready_at' \in Cycle \cup {NoCycle}
           /\ iop_irq' \in BOOLEAN /\ starts' \in Nat
           /\ did' \subseteq {"iop", "tick", "on", "off"}
  <1>1. PICK raised \in EdgeSources(source), g \in SUBSET (EeOps \cap {"gs"}) :
             IntcChanged(intc_stat \cup raised \cup g, cycles)
    BY DEF VblankEdge
  <1>2. intc_stat \cup raised \cup g \in SUBSET Source
    BY DEF TypeOK, LinesOK, Source, EdgeSources
  <1>3. cycles \in Nat
    BY DEF TypeOK, ClockOK, Cycle
  <1>4. intc_stat' \subseteq Source /\ intc_ready_at' \in Cycle \cup {NoCycle}
    BY <1>1, <1>2, <1>3, IntcTypes DEF TypeOK
  <1>5. iop_irq' \in BOOLEAN
    BY DEF VblankEdge, TypeOK, LinesOK
  <1>6. starts' \in Nat /\ did' \subseteq {"iop", "tick", "on", "off"}
    BY DEF VblankEdge, TypeOK, HistOK
  <1> QED
    BY <1>4, <1>5, <1>6

\* wrap_frame_pos subtracts at most once, and once is enough below 2 frames.
LEMMA WrapFacts ==
    ASSUME region \in Region, NEW p \in Nat
    PROVE  Wrap(p) \in Nat /\ (p < 2 * frame_cycles => Wrap(p) < frame_cycles)
  BY FrameFacts DEF Wrap

(***************************************************************************)
(* The invariant is inductive: the steps of the host and of one cycle.     *)
(***************************************************************************)
LEMMA UseStays == Spec => []UseOK
  <1>1. Init => UseOK
    BY DEF Init, UseOK
  <1>2. UseOK /\ [Next]_vars => UseOK'
    BY DEF UseOK, Next, vars
  <1> QED
    BY <1>1, <1>2, PTL DEF Spec

LEMMA UseFacts ==
    ASSUME UseOK
    PROVE  RunLengths \subseteq Nat /\ MaxCycles \in Nat
  BY UseAssumption DEF UseOK, RunLengths, MaxCycles

LEMMA InitIInv == Init => RoomInv
  <1> SUFFICES ASSUME Init PROVE RoomInv
    OBVIOUS
  <1>1. ClockOK /\ LinesOK /\ EeOK /\ LoopOK
    BY UseAssumption DEF Init, ClockOK, LinesOK, EeOK, LoopOK, Cycle, NoCycle
  <1>2. HistOK /\ pc \in Labels /\ cont \in Returns /\ iop_idle \in BOOLEAN
    BY DEF Init, HistOK, Labels, Returns
  <1>3. TailRoom /\ GroupRoom
    BY DEF Init, TailRoom, GroupRoom
  <1>4. FrameRoom
    BY <1>1, FrameFacts DEF Init, FrameRoom, ClockOK
  <1> QED
    BY <1>1, <1>2, <1>3, <1>4 DEF RoomInv, TypeOK

LEMMA HostIInv == UseOK /\ RoomInv /\ Host => RoomInv'
  <1> SUFFICES ASSUME UseOK, RoomInv, Host PROVE RoomInv'
    OBVIOUS
  <1>0. /\ TypeOK /\ frame_cycles \in Nat /\ vblank_start \in Nat
        /\ 0 < vblank_start /\ vblank_start < frame_cycles
    BY FrameFacts DEF RoomInv, TypeOK, ClockOK
  <1>1. CASE HostStep
    BY <1>0, <1>1
       DEF HostStep, Call, clock, Machine, lines, intc, ee, loop, RoomInv, TypeOK,
           ClockOK, LinesOK, EeOK, LoopOK, HistOK, Labels, Returns,
           TailRoom, FrameRoom, GroupRoom, frame_cycles, vblank_start
  <1>2. ASSUME NEW k \in Nat, StartRun(k), frame_slice' \in BOOLEAN PROVE RoomInv'
    BY <1>0, <1>2
       DEF StartRun, clock, Machine, lines, intc, ee, RoomInv, TypeOK, Cycle,
           ClockOK, LinesOK, EeOK, LoopOK, HistOK, Labels, Returns,
           TailRoom, FrameRoom, GroupRoom, frame_cycles, vblank_start
  <1>3. CASE HostRun
    BY <1>2, <1>3, UseFacts DEF HostRun
  <1>4. CASE HostFrame
    <2>1. cycles_to_next_vblank \in Nat
      BY <1>0, <1>4 DEF cycles_to_next_vblank, HostFrame, StartRun, RoomInv, FrameRoom,
                        TypeOK, ClockOK
    <2> QED
      BY <1>2, <1>4, <2>1 DEF HostFrame
  <1>5. CASE Finished
    BY <1>0, <1>5
       DEF Finished, vars, clock, lines, intc, ee, iop, loop, hist, slice, RoomInv, TypeOK,
           ClockOK, LinesOK, EeOK, LoopOK, HistOK, TailRoom, FrameRoom, GroupRoom, Room,
           frame_cycles, vblank_start
  <1> QED
    BY <1>1, <1>3, <1>4, <1>5 DEF Host

LEMMA OneCycleIInv == RoomInv /\ OneCycle => RoomInv'
  <1> SUFFICES ASSUME RoomInv, OneCycle PROVE RoomInv'
    OBVIOUS
  <1>0. /\ TypeOK /\ frame_cycles \in Nat /\ vblank_start \in Nat
        /\ 0 < vblank_start /\ vblank_start < frame_cycles
        /\ cycles \in Nat /\ frame_pos \in Nat /\ region \in Region
    BY FrameFacts DEF RoomInv, TypeOK, ClockOK, Cycle
  <1>1. CASE EeStep
    <2>1. LinesOK' /\ EeOK' /\ region' \in Region
      BY <1>0, <1>1, EeTypes
         DEF EeStep, lines, intc, ee, TypeOK, ClockOK, LinesOK, EeOK
    <2>2. HistOK' /\ ClockOK' /\ LoopOK' /\ cont' \in Returns /\ iop_idle' \in BOOLEAN
      BY <1>0, <1>1, <2>1
         DEF EeStep, Goto, loop, slice, clock, TypeOK, HistOK, ClockOK, LoopOK, Cycle
    <2>3. pc' \in {"iop", "edge"} /\ pc' \in Labels
      BY <1>1 DEF EeStep, Goto, Labels
    <2>4. frame_cycles' \in Nat /\ frame_pos' + 1 < 2 * frame_cycles'
      <3>1. frame_pos < frame_cycles /\ frame_pos' = frame_pos
        BY <1>1 DEF EeStep, clock, RoomInv, FrameRoom
      <3>2. /\ FrameCycles[region] \in Nat /\ FrameCycles[region'] \in Nat
            /\ FrameCycles[region] < 2 * FrameCycles[region']
        BY <1>0, <2>1, FrameAssumption
      <3> QED
        BY <1>0, <3>1, <3>2 DEF frame_cycles
    <2>5. TailRoom'
      BY <1>0, <1>1 DEF EeStep, Goto, loop, TailRoom, RoomInv
    <2> QED
      BY <2>1, <2>2, <2>3, <2>4, <2>5 DEF RoomInv, TypeOK, FrameRoom, GroupRoom
  <1>2. CASE IopSlot
    <2>1. LinesOK' /\ iop_idle' \in BOOLEAN
      BY <1>0, <1>2, IopTypes DEF IopSlot, lines, intc, TypeOK, LinesOK
    <2>2. HistOK' /\ ClockOK' /\ LoopOK' /\ EeOK' /\ cont' \in Returns /\ pc' \in Labels
      <3>1. did' \subseteq {"iop", "tick", "on", "off"}
        BY <1>0, <1>2 DEF IopSlot, TypeOK, HistOK
      <3>2. iop_at' \in Nat
        BY <1>0, <1>2, ClockAssumption DEF IopSlot, TypeOK, HistOK
      <3>3. ClockOK' /\ LoopOK' /\ EeOK' /\ cont' \in Returns /\ pc' \in Labels
        BY <1>0, <1>2 DEF IopSlot, Goto, loop, clock, ee, TypeOK, ClockOK, LoopOK, EeOK, Labels
      <3> QED
        BY <1>0, <1>2, <3>1, <3>2, <3>3 DEF IopSlot, slice, TypeOK, HistOK
    <2>3. TailRoom' /\ FrameRoom' /\ GroupRoom'
      BY <1>0, <1>2 DEF IopSlot, Goto, loop, clock, RoomInv, TailRoom, FrameRoom, GroupRoom,
                        frame_cycles
    <2> QED
      BY <2>1, <2>2, <2>3 DEF RoomInv, TypeOK
  <1>3. CASE TimerSlot
    <2>1. LinesOK'
      BY <1>0, <1>3, TickTypes DEF TimerSlot, lines, intc, TypeOK, LinesOK
    <2>2. /\ HistOK' /\ ClockOK' /\ LoopOK' /\ EeOK' /\ cont' \in Returns /\ pc' \in Labels
          /\ iop_idle' \in BOOLEAN
      BY <1>0, <1>3
         DEF TimerSlot, Goto, loop, slice, clock, ee, TypeOK, HistOK, ClockOK, LoopOK,
             EeOK, Labels
    <2>3. TailRoom' /\ FrameRoom' /\ GroupRoom'
      BY <1>0, <1>3 DEF TimerSlot, Goto, loop, clock, RoomInv, TailRoom, FrameRoom, GroupRoom,
                        frame_cycles
    <2> QED
      BY <2>1, <2>2, <2>3 DEF RoomInv, TypeOK
  <1>4. CASE VblankSlot
    <2>0. "vbon" \in Source /\ "vboff" \in Source
      BY DEF Source
    <2>1. LinesOK' /\ HistOK'
      <3>1. CASE frame_pos = vblank_start
        BY <1>0, <1>4, <2>0, <3>1, EdgeTypes DEF VblankSlot, TypeOK, LinesOK, HistOK
      <3>2. CASE frame_pos # vblank_start /\ frame_pos = 0 /\ cycles # 0
        BY <1>0, <1>4, <2>0, <3>2, EdgeTypes DEF VblankSlot, TypeOK, LinesOK, HistOK
      <3>3. CASE frame_pos # vblank_start /\ ~(frame_pos = 0 /\ cycles # 0)
        BY <1>0, <1>4, <3>3 DEF VblankSlot, intc, TypeOK, LinesOK, HistOK
      <3> QED
        BY <3>1, <3>2, <3>3
    <2>2. /\ ClockOK' /\ LoopOK' /\ EeOK' /\ cont' \in Returns /\ pc' \in Labels
          /\ iop_idle' \in BOOLEAN
      BY <1>0, <1>4
         DEF VblankSlot, Goto, loop, clock, ee, TypeOK, ClockOK, LoopOK, EeOK, Labels
    <2>3. TailRoom' /\ FrameRoom' /\ GroupRoom'
      BY <1>0, <1>4 DEF VblankSlot, Goto, loop, clock, RoomInv, TailRoom, FrameRoom, GroupRoom,
                        frame_cycles
    <2> QED
      BY <2>1, <2>2, <2>3 DEF RoomInv, TypeOK
  <1>5. CASE EndCycle
    <2>1. frame_pos' \in Nat /\ frame_pos' < frame_cycles' /\ region' = region
      BY <1>0, <1>5, WrapFacts, frame_pos + 1 \in Nat
         DEF EndCycle, Pass, RoomInv, FrameRoom, frame_cycles
    <2>2. TypeOK'
      BY <1>0, <1>5, <2>1
         DEF EndCycle, Pass, loop, slice, lines, intc, TypeOK, HistOK, ClockOK, LoopOK,
             EeOK, LinesOK, Labels, Returns, Cycle
    <2>3. pc' \in Returns /\ pc' = cont /\ n' = n
      BY <1>0, <1>5 DEF EndCycle, loop, TypeOK
    <2>4. TailRoom' /\ GroupRoom'
      BY <1>5, <2>3 DEF EndCycle, RoomInv, TailRoom, GroupRoom, Returns
    <2>5. FrameRoom'
      BY <1>0, <2>1, <2>3 DEF FrameRoom, Returns, frame_cycles
    <2> QED
      BY <2>2, <2>4, <2>5 DEF RoomInv
  <1> QED
    BY <1>1, <1>2, <1>3, <1>4, <1>5 DEF OneCycle

(***************************************************************************)
(* The steps of run().                                                     *)
(***************************************************************************)
\* A jump bounded by the next edge keeps the position inside the frame.
LEMMA JumpFacts ==
    ASSUME ClockOK, NEW k \in Nat, k =< to_vblank, frame_pos + 1 < 2 * frame_cycles
    PROVE  Wrap(frame_pos + k) \in Nat /\ Wrap(frame_pos + k) < frame_cycles
  <1>1. frame_pos + k < 2 * frame_cycles
    BY FrameFacts, VblankFacts DEF ClockOK
  <1> QED
    BY <1>1, WrapFacts, frame_pos + k \in Nat DEF ClockOK

\* Neither does the tail of a group when no edge falls into it.
LEMMA TailFacts ==
    ASSUME ClockOK, NoEdgeInTail
    PROVE  /\ frame_pos + (EE_PER_IOP - 1) \in Nat
           /\ frame_pos + (EE_PER_IOP - 1) < frame_cycles
           /\ Wrap(frame_pos + (EE_PER_IOP - 1)) \in Nat
           /\ Wrap(frame_pos + (EE_PER_IOP - 1)) < frame_cycles
  <1>1. /\ frame_pos + (EE_PER_IOP - 1) \in Nat
        /\ frame_pos + (EE_PER_IOP - 1) < frame_cycles
    BY FrameFacts, ClockAssumption DEF NoEdgeInTail, ClockOK
  <1> QED
    BY <1>1, FrameFacts DEF Wrap, ClockOK

\* A batch that quiet_iop_groups sizes has room in front of the next edge.
LEMMA BatchRoom ==
    ASSUME ClockOK, LinesOK, NEW limit \in Nat, quiet_iop_groups(limit) > 0,
           frame_pos + 1 < 2 * frame_cycles
    PROVE  Room(quiet_iop_groups(limit) * EE_PER_IOP)
  <1> DEFINE g == quiet_iop_groups(limit)
  <1>1. g \in Nat /\ g * EE_PER_IOP =< to_vblank /\ frame_pos # vblank_start /\ g > 0
    BY QuietGroupsBound
  <1>2. g * EE_PER_IOP \in Nat /\ g * EE_PER_IOP > 0
    BY <1>1, ClockAssumption, SMTT(30)
  <1> HIDE DEF g
  <1>3. frame_pos < frame_cycles
    BY <1>1, <1>2, VblankFacts, FrameFacts DEF ClockOK
  <1>4. Room(g * EE_PER_IOP)
    BY <1>1, <1>2, <1>3, VblankFacts, FrameFacts DEF Room, ClockOK
  <1> QED
    BY <1>4 DEF g

LEMMA ChainCutInt ==
    ASSUME TypeOK, LinesOK', NEW at \in Nat, NEW budget \in Nat
    PROVE  ChainCut(at, budget) \in Int
  <1>1. cycles \in Int /\ intc_ready_at' \in Int
    BY DEF TypeOK, ClockOK, LinesOK, Cycle, NoCycle
  <1>2. \A a, b \in Int : Least(a, b) \in Int
    BY DEF Least
  <1>3. intc_ready_at' - cycles \in Int /\ budget \in Int /\ at \in Int /\ 0 \in Int
    BY <1>1
  <1> QED
    BY <1>2, <1>3 DEF ChainCut

LEMMA RunChainIInv == RoomInv /\ RunChain => RoomInv'
  <1> SUFFICES ASSUME RoomInv, RunChain PROVE RoomInv'
    OBVIOUS
  <1>0. /\ TypeOK /\ ClockOK /\ LinesOK
        /\ cycles \in Nat /\ frame_pos \in Nat /\ region \in Region /\ target \in Nat
        /\ cycles < target /\ pc = "loop" /\ frame_pos < frame_cycles
    BY DEF RoomInv, TypeOK, ClockOK, LoopOK, RunChain, Iterate, FrameRoom, Cycle
  <1>1. LinesOK' /\ EeOK' /\ region' \in Region /\ n' \in Nat /\ n' > 0
    <2>1. CASE ee_interrupt_pending(cycles)
      BY <1>0, <2>1 DEF RunChain, lines, intc, TypeOK, LinesOK, EeOK
    <2>2. CASE ~ee_interrupt_pending(cycles)
      <3> DEFINE budget == Least(target - cycles, Greatest(next_event_in(CHAIN_MAX), CHAIN_MIN))
      <3>1. budget \in Nat
        BY <1>0, NextEventBound, ClockAssumption DEF Least, Greatest
      <3> HIDE DEF budget
      <3>2. PICK at \in 0 .. (budget + BlockOvershoot - 1) :
               /\ EeInstruction(cycles + at)
               /\ n' \in (at + 1) ..
                     (IF ee_idle' THEN at + 1
                      ELSE Greatest(at + 1, ChainCut(at, budget) + BlockOvershoot))
        BY <2>2 DEF RunChain, budget
      <3>3. at \in Nat /\ cycles + at \in Nat
        BY <1>0, <3>1, ClockAssumption
      <3>4. LinesOK' /\ EeOK' /\ region' \in Region
        BY <1>0, <3>2, <3>3, EeTypes
      <3>5. ChainCut(at, budget) \in Int
        BY <1>0, <3>1, <3>3, <3>4, ChainCutInt
      <3>6. n' \in Nat /\ n' > 0
        BY <3>2, <3>3, <3>5, ClockAssumption DEF Greatest
      <3> QED
        BY <3>4, <3>6
    <2> QED
      BY <2>1, <2>2
  <1>2. TypeOK'
    <2>0. /\ UNCHANGED <<clock, target, left, did, iop_at, slice>>
          /\ ee_at' = cycles + n'
      BY DEF RunChain
    <2>1. ClockOK' /\ LoopOK' /\ HistOK'
      <3>1. cycles + n' \in Nat
        <4>1. cycles \in Nat
          BY <1>0
        <4>2. n' \in Nat
          BY <1>1
        <4>3. \A a, b \in Nat : a + b \in Nat
          OBVIOUS
        <4> QED
          BY <4>1, <4>2, <4>3
      <3>2. ClockOK' /\ LoopOK'
        BY <1>0, <1>1, <2>0 DEF clock, TypeOK, ClockOK, LoopOK, Cycle
      <3>3. HistOK'
        BY <1>0, <2>0, <3>1 DEF slice, TypeOK, HistOK
      <3> QED
        BY <3>2, <3>3
    <2>2. pc' \in Labels /\ cont' \in Returns /\ iop_idle' \in BOOLEAN
      BY <1>0 DEF RunChain, TypeOK, Labels
    <2> QED
      BY <1>1, <2>1, <2>2 DEF TypeOK
  <1>3. frame_pos' + 1 < 2 * frame_cycles'
    <2>1. /\ FrameCycles[region] \in Nat /\ FrameCycles[region'] \in Nat
          /\ FrameCycles[region] < 2 * FrameCycles[region']
      BY <1>0, <1>1, FrameAssumption
    <2> QED
      BY <1>0, <2>1 DEF frame_cycles, RunChain, clock
  <1> QED
    BY <1>1, <1>2, <1>3 DEF RunChain, RoomInv, TailRoom, FrameRoom, GroupRoom

LEMMA RunIInv == RoomInv /\ Run => RoomInv'
  <1> SUFFICES ASSUME RoomInv, Run PROVE RoomInv'
    OBVIOUS
  <1>0. /\ TypeOK /\ ClockOK /\ LinesOK /\ frame_cycles \in Nat /\ vblank_start \in Nat
        /\ 0 < vblank_start /\ vblank_start < frame_cycles
        /\ cycles \in Nat /\ frame_pos \in Nat /\ region \in Region
        /\ target \in Nat /\ left \in Nat /\ n \in Nat
    BY FrameFacts DEF RoomInv, TypeOK, ClockOK, LoopOK, Cycle
  <1> USE DEF Machine, lines, intc, ee, loop, hist, slice, clock
  <1>1. CASE RunReturn
    BY <1>0, <1>1
       DEF RunReturn, RoomInv, TypeOK, ClockOK, LinesOK, EeOK, LoopOK, HistOK, Labels,
           TailRoom, FrameRoom, GroupRoom, frame_cycles
  <1>2. CASE DropSpin
    BY <1>0, <1>2
       DEF DropSpin, RoomInv, TypeOK, ClockOK, LinesOK, EeOK, LoopOK, HistOK,
           TailRoom, FrameRoom, GroupRoom, frame_cycles
  <1>3. CASE RunChain
    BY <1>3, RunChainIInv
  <1>4. CASE RunJump
    <2> DEFINE k == next_event_in(target - cycles - 1)
    <2>1. k \in Nat /\ k =< to_vblank /\ frame_pos < frame_cycles
      BY <1>0, <1>4, NextEventBound DEF RunJump, Iterate, RoomInv, FrameRoom
    <2>2. Pass(k)
      BY <1>4 DEF RunJump
    <2> HIDE DEF k
    <2>3. frame_pos' \in Nat /\ frame_pos' < frame_cycles /\ cycles' \in Nat /\ did' = {}
      BY <1>0, <2>1, <2>2, JumpFacts DEF Pass
    <2>4. TypeOK'
      BY <1>0, <1>4, <2>3 DEF RunJump, Call, TypeOK, ClockOK, LinesOK, EeOK, LoopOK,
                              HistOK, Labels, Returns, Cycle
    <2> QED
      BY <1>4, <2>3, <2>4 DEF RunJump, Call, RoomInv, TailRoom, FrameRoom, GroupRoom, frame_cycles
  <1>5. CASE RunSingle \/ RunGroup
    <2>1. /\ pc = "loop" /\ pc' = "ee" /\ cont' \in {"loop", "grouptail"}
          /\ UNCHANGED <<clock, Machine, loop, hist>>
      BY <1>5 DEF RunSingle, RunGroup, Iterate, Call
    <2>2. TypeOK'
      BY <1>0, <2>1 DEF TypeOK, ClockOK, LinesOK, EeOK, LoopOK, HistOK, Labels, Returns
    <2> QED
      BY <1>0, <2>1, <2>2 DEF RoomInv, TailRoom, FrameRoom, GroupRoom, frame_cycles
  <1>6. CASE RunQuietGroups
    <2> DEFINE limit == (target - cycles) \div EE_PER_IOP
    <2>1. limit \in Nat
      BY <1>0, <1>6, ClockAssumption, DivBound, target - cycles \in Nat
         DEF RunQuietGroups, Iterate
    <2> HIDE DEF limit
    <2>2. left' = quiet_iop_groups(limit) /\ left' > 0
      BY <1>0, <1>6 DEF RunQuietGroups, QuietGroups, limit
    <2>3. frame_pos < frame_cycles /\ left' \in Nat
      BY <1>0, <1>6, <2>1, <2>2, QuietGroupsBound DEF RunQuietGroups, Iterate, RoomInv, FrameRoom
    <2>4. Room(left' * EE_PER_IOP)
      BY <1>0, <2>1, <2>2, <2>3, BatchRoom
    <2>5. TypeOK'
      BY <1>0, <1>6, <2>3 DEF RunQuietGroups, TypeOK, ClockOK, LinesOK, EeOK, LoopOK,
                              HistOK, Labels
    <2> QED
      BY <1>6, <2>4, <2>5 DEF RunQuietGroups, RoomInv, TailRoom, FrameRoom, GroupRoom, Room,
                              frame_cycles, vblank_start
  <1>7. CASE GroupTail
    <2>1. /\ frame_pos' \in Nat /\ frame_pos' < frame_cycles /\ cycles' \in Nat
          /\ left' \in Nat /\ did' \subseteq did /\ pc' \in {"loop", "eetail"}
      BY <1>0, <1>7, TailFacts, ClockAssumption DEF GroupTail, Pass, RoomInv, FrameRoom
    <2>2. TypeOK'
      BY <1>0, <1>7, <2>1 DEF GroupTail, TypeOK, ClockOK, LinesOK, EeOK, LoopOK,
                              HistOK, Labels, Cycle
    <2> QED
      BY <1>7, <2>1, <2>2 DEF GroupTail, RoomInv, TailRoom, FrameRoom, GroupRoom, frame_cycles
  <1>8. CASE EeGroupTail
    BY <1>0, <1>8
       DEF EeGroupTail, Call, RoomInv, TypeOK, ClockOK, LinesOK, EeOK, LoopOK, HistOK,
           Labels, Returns, TailRoom, FrameRoom, GroupRoom, frame_cycles
  <1> QED
    BY <1>1, <1>2, <1>3, <1>4, <1>5, <1>6, <1>7, <1>8 DEF Run

(***************************************************************************)
(* The steps of advance().                                                 *)
(***************************************************************************)
LEMMA AdvanceIInv == RoomInv /\ Advance => RoomInv'
  <1> SUFFICES ASSUME RoomInv, Advance PROVE RoomInv'
    OBVIOUS
  <1>0. /\ TypeOK /\ ClockOK /\ LinesOK /\ frame_cycles \in Nat /\ vblank_start \in Nat
        /\ 0 < vblank_start /\ vblank_start < frame_cycles
        /\ cycles \in Nat /\ frame_pos \in Nat /\ region \in Region
        /\ target \in Nat /\ left \in Nat /\ n \in Nat
        /\ EE_PER_IOP \in Nat /\ EE_PER_IOP > 0
    BY FrameFacts, ClockAssumption DEF RoomInv, TypeOK, ClockOK, LoopOK, Cycle
  <1>a. pc = "advance" => frame_pos + 1 < 2 * frame_cycles
    BY DEF RoomInv, FrameRoom
  <1> USE DEF Machine, lines, intc, ee, loop, hist, slice, clock
  <1>1. CASE AdvanceReturn
    <2>1. TypeOK'
      BY <1>0, <1>1 DEF AdvanceReturn, TypeOK, ClockOK, LinesOK, EeOK, LoopOK, HistOK, Labels
    <2> QED
      BY <1>0, <1>1, <2>1
         DEF AdvanceReturn, RoomInv, TailRoom, FrameRoom, GroupRoom, frame_cycles
  <1>2. CASE AdvanceJump
    <2> DEFINE k == next_event_in(n - 1)
    <2>1. k \in Nat /\ k =< n - 1 /\ k =< to_vblank
      BY <1>0, <1>2, NextEventBound, n - 1 \in Nat DEF AdvanceJump
    <2>2. Pass(k) /\ n' = n - (k + 1)
      BY <1>2 DEF AdvanceJump
    <2> HIDE DEF k
    <2>3. frame_pos' \in Nat /\ frame_pos' < frame_cycles /\ cycles' \in Nat /\ did' = {}
      BY <1>0, <1>a, <1>2, <2>1, <2>2, JumpFacts DEF Pass, AdvanceJump
    <2>4. n' \in Nat
      BY <1>0, <2>1, <2>2
    <2>5. TypeOK'
      BY <1>0, <1>2, <2>3, <2>4
         DEF AdvanceJump, Call, TypeOK, ClockOK, LinesOK, EeOK, LoopOK, HistOK, Labels,
             Returns, Cycle
    <2> QED
      BY <1>0, <1>2, <2>3, <2>5
         DEF AdvanceJump, Call, RoomInv, TailRoom, FrameRoom, GroupRoom, frame_cycles
  <1>3. CASE AdvanceSingle \/ AdvanceGroup
    <2>1. /\ pc = "advance" /\ pc' = "iop" /\ cont' \in {"advance", "advancetail"}
          /\ n' = n - 1 /\ n > 0 /\ (cont' = "advancetail" => n >= EE_PER_IOP)
          /\ UNCHANGED <<clock, Machine, target, left, hist>>
      BY <1>0, <1>3 DEF AdvanceSingle, AdvanceGroup, Call
    <2>2. TypeOK'
      BY <1>0, <2>1 DEF TypeOK, ClockOK, LinesOK, EeOK, LoopOK, HistOK, Labels, Returns
    <2> QED
      BY <1>0, <1>a, <2>1, <2>2 DEF RoomInv, TailRoom, FrameRoom, GroupRoom, frame_cycles
  <1>4. CASE AdvanceQuietGroups
    <2> DEFINE limit == n \div EE_PER_IOP
    <2>1. limit \in Nat /\ limit * EE_PER_IOP =< n
      BY <1>0, DivBound
    <2> HIDE DEF limit
    <2>2. left' = quiet_iop_groups(limit) /\ left' > 0
      BY <1>0, <1>4 DEF AdvanceQuietGroups, AdvanceGroups, limit
    <2>3. left' \in Nat /\ left' =< limit
      BY <1>0, <2>1, <2>2, QuietGroupsBound
    <2>4. Room(left' * EE_PER_IOP)
      BY <1>0, <1>a, <1>4, <2>1, <2>2, BatchRoom DEF AdvanceQuietGroups
    <2>5. n' \in Nat
      <3>1. left' * EE_PER_IOP =< limit * EE_PER_IOP
        BY <1>0, <2>1, <2>3, MulMono
      <3>2. left' * EE_PER_IOP \in Nat /\ limit * EE_PER_IOP \in Nat
        <4>1. \A a \in Nat : a * EE_PER_IOP \in Nat
          BY <1>0
        <4>2. left' \in Nat /\ limit \in Nat
          BY <2>1, <2>3
        <4> QED
          BY <4>1, <4>2
      <3>3. n' = n - left' * EE_PER_IOP
        BY <1>4 DEF AdvanceQuietGroups
      <3>4. \A a, b, c \in Nat : a =< b /\ b =< c => c - a \in Nat
        OBVIOUS
      <3> QED
        BY <1>0, <2>1, <3>1, <3>2, <3>3, <3>4
    <2>6. TypeOK'
      BY <1>0, <1>4, <2>3, <2>5
         DEF AdvanceQuietGroups, TypeOK, ClockOK, LinesOK, EeOK, LoopOK, HistOK, Labels
    <2> QED
      BY <1>4, <2>4, <2>6
         DEF AdvanceQuietGroups, RoomInv, TailRoom, FrameRoom, GroupRoom, Room,
             frame_cycles, vblank_start
  <1>5. CASE AdvanceTail
    <2>1. frame_pos < frame_cycles /\ n >= EE_PER_IOP - 1
      BY <1>5 DEF AdvanceTail, RoomInv, FrameRoom, TailRoom
    <2>2. n' \in Nat
      BY <1>0, <1>5, <2>1 DEF AdvanceTail
    <2>3. /\ frame_pos' \in Nat /\ frame_pos' < frame_cycles /\ cycles' \in Nat
          /\ left' \in Nat /\ did' \subseteq did /\ pc' \in {"advance", "advancerest"}
      BY <1>0, <1>5, <2>1, TailFacts DEF AdvanceTail, Pass
    <2>4. TypeOK'
      BY <1>0, <1>5, <2>2, <2>3
         DEF AdvanceTail, TypeOK, ClockOK, LinesOK, EeOK, LoopOK, HistOK, Labels, Cycle
    <2> QED
      BY <1>0, <1>5, <2>3, <2>4
         DEF AdvanceTail, RoomInv, TailRoom, FrameRoom, GroupRoom, frame_cycles
  <1>6. CASE AdvanceRest
    <2>1. /\ frame_pos < frame_cycles /\ left' \in Nat /\ pc' \in {"advance", "iop"}
          /\ (pc' = "iop" => cont' = "advancerest") /\ cont' \in Returns
          /\ UNCHANGED <<clock, Machine, target, n, hist>>
      BY <1>0, <1>6 DEF AdvanceRest, Call, RoomInv, FrameRoom, TypeOK, Returns
    <2>2. TypeOK'
      BY <1>0, <2>1 DEF TypeOK, ClockOK, LinesOK, EeOK, LoopOK, HistOK, Labels
    <2> QED
      BY <1>0, <2>1, <2>2 DEF RoomInv, TailRoom, FrameRoom, GroupRoom, frame_cycles
  <1> QED
    BY <1>1, <1>2, <1>3, <1>4, <1>5, <1>6 DEF Advance

(***************************************************************************)
(* The steps of the batched loops.                                         *)
(***************************************************************************)
\* m groups of a batch of l are done at the last of them, the rest follow.
LEMMA GroupSplit ==
    ASSUME NEW l \in Nat, NEW m \in 1 .. l
    PROVE  /\ (m - 1) * EE_PER_IOP \in Nat /\ (l - m) * EE_PER_IOP \in Nat
           /\ (m - 1) * EE_PER_IOP + ((l - m) * EE_PER_IOP + EE_PER_IOP) = l * EE_PER_IOP
  BY ClockAssumption, SMTT(30)

\* Passing a part of the room leaves the rest of it.
RoomAt(p, k) == IF p =< vblank_start THEN p + k =< vblank_start ELSE p + k =< frame_cycles

LEMMA RoomSplit ==
    ASSUME NEW j \in Nat, NEW k \in Nat, ClockOK, Room(j + k)
    PROVE  RoomAt(frame_pos + j, k)
  BY FrameFacts DEF Room, RoomAt, ClockOK

LEMMA GroupChainRoom ==
    ASSUME UseOK, TypeOK, GroupRoom, GroupChain
    PROVE  /\ left' \in Nat /\ cycles' \in Nat /\ frame_pos' \in Nat /\ iop_at' \in Nat
           /\ RoomAt(frame_pos', left' * EE_PER_IOP + EE_PER_IOP)
  <1>0. /\ ClockOK /\ LinesOK /\ cycles \in Nat /\ frame_pos \in Nat /\ left \in Nat
        /\ EE_PER_IOP \in Nat /\ EE_PER_IOP > 0 /\ MaxCycles \in Nat
        /\ pc \in {"iopgroups", "idlegroups"} /\ left > 0 /\ iop_at \in Nat
    BY ClockAssumption, UseFacts DEF TypeOK, ClockOK, LoopOK, HistOK, Cycle, GroupChain
  <1>1. IopBudget \in Int /\ IopBudget =< left
    <2>1. ee_wake_cap \in Int
      <3>1. intc_ready_at \in Nat \/ intc_ready_at = NoCycle
        BY <1>0 DEF LinesOK, Cycle
      <3>2. Greatest(0, intc_ready_at - cycles) \in Nat
        BY <1>0, <3>1 DEF Greatest, NoCycle
      <3> QED
        BY <1>0, <3>2, DivBound, ClockAssumption DEF ee_wake_cap
    <2>2. tick_cap \in Int
      BY <1>0, TimerFacts, DivBound DEF tick_cap
    <2>3. \A a, b \in Int : Least(a, b) \in Int /\ Least(a, b) =< a
      BY DEF Least
    <2> QED
      BY <1>0, <2>1, <2>2, <2>3 DEF IopBudget
  <1>2. PICK m \in 1 .. (IF IopAsleep \/ iop_irq THEN 1 ELSE IopBudget) :
             /\ Skip((m - 1) * EE_PER_IOP)
             /\ left' = left - m
             /\ iop_at' = IF m > 1 THEN cycles' ELSE iop_at
    BY DEF GroupChain
  <1>3. m \in 1 .. left
    BY <1>0, <1>1, <1>2
  <1> DEFINE j == (m - 1) * EE_PER_IOP
             k == (left - m) * EE_PER_IOP + EE_PER_IOP
  <1>4. j \in Nat /\ k \in Nat /\ j + k = left * EE_PER_IOP
    BY <1>0, <1>3, GroupSplit
  <1>5. cycles' = cycles + j /\ frame_pos' = frame_pos + j
    BY <1>2 DEF Skip
  <1>6. Room(left * EE_PER_IOP) /\ region' = region
    BY <1>0 DEF GroupRoom, GroupChain, Machine
  <1>7. left' * EE_PER_IOP + EE_PER_IOP = k
    BY <1>2
  <1> HIDE DEF j, k
  <1>8. Room(j + k)
    BY <1>4, <1>6
  <1>9. RoomAt(frame_pos + j, k)
    BY <1>0, <1>4, <1>8, RoomSplit
  <1>10. left - m \in Nat /\ cycles + j \in Nat /\ frame_pos + j \in Nat
    BY <1>0, <1>3, <1>4
  <1>11. iop_at' \in Nat
    BY <1>0, <1>2, <1>5, <1>10
  <1>12. RoomAt(frame_pos', left' * EE_PER_IOP + EE_PER_IOP)
    BY <1>5, <1>7, <1>9
  <1> QED
    BY <1>2, <1>5, <1>10, <1>11, <1>12

LEMMA GroupsIInv == UseOK /\ RoomInv /\ Groups => RoomInv'
  <1> SUFFICES ASSUME UseOK, RoomInv, Groups PROVE RoomInv'
    OBVIOUS
  <1>0. /\ TypeOK /\ ClockOK /\ LinesOK /\ frame_cycles \in Nat /\ vblank_start \in Nat
        /\ 0 < vblank_start /\ vblank_start < frame_cycles
        /\ cycles \in Nat /\ frame_pos \in Nat /\ region \in Region /\ left \in Nat
        /\ EE_PER_IOP \in Nat /\ EE_PER_IOP > 0
    BY FrameFacts, ClockAssumption DEF RoomInv, TypeOK, ClockOK, LoopOK, Cycle
  <1>a. left * EE_PER_IOP \in Nat
    BY <1>0
  <1> USE DEF Machine, lines, intc, ee, loop, slice, clock
  <1>1. CASE GroupChain
    <2>1. /\ left' \in Nat /\ cycles' \in Nat /\ frame_pos' \in Nat /\ iop_at' \in Nat
          /\ RoomAt(frame_pos', left' * EE_PER_IOP + EE_PER_IOP)
      BY <1>0, <1>1, GroupChainRoom DEF RoomInv
    <2>2. /\ did' = {} /\ pc' \in {"iopslot", "idleslot"}
          /\ UNCHANGED <<Machine, cont, target, n, ee_at, slice>>
      BY <1>1 DEF GroupChain, Skip
    <2>3. TypeOK'
      BY <1>0, <2>1, <2>2
         DEF TypeOK, ClockOK, LinesOK, EeOK, LoopOK, HistOK, Labels, Cycle
    <2> QED
      BY <2>1, <2>2, <2>3 DEF RoomInv, TailRoom, FrameRoom, GroupRoom, Room, RoomAt,
                              frame_cycles, vblank_start
  <1>2. CASE GroupSlot
    <2>1. LinesOK' /\ iop_idle' \in BOOLEAN
      BY <1>0, <1>2, IopTypes DEF GroupSlot, TypeOK, LinesOK
    <2>2. HistOK'
      BY <1>0, <1>2 DEF GroupSlot, TypeOK, HistOK
    <2>3. ClockOK' /\ EeOK' /\ LoopOK' /\ cont' \in Returns /\ pc' \in Labels
      BY <1>0, <1>2 DEF GroupSlot, Goto, TypeOK, ClockOK, EeOK, LoopOK, Labels
    <2>4. TailRoom' /\ FrameRoom' /\ GroupRoom'
      BY <1>0, <1>2 DEF GroupSlot, Goto, RoomInv, TailRoom, FrameRoom, GroupRoom, Room,
                        frame_cycles, vblank_start
    <2> QED
      BY <2>1, <2>2, <2>3, <2>4 DEF RoomInv, TypeOK
  <1>b. pc \in {"iopend", "idletick", "idleend"} => Room(EE_PER_IOP + left * EE_PER_IOP)
    <2>1. EE_PER_IOP + left * EE_PER_IOP = left * EE_PER_IOP + EE_PER_IOP
      BY <1>0, <1>a
    <2> QED
      BY <2>1 DEF RoomInv, GroupRoom
  <1>3. CASE IopGroupEnd
    <2>1. Room(left * EE_PER_IOP)'
      <3>1. RoomAt(frame_pos + EE_PER_IOP, left * EE_PER_IOP)
        BY <1>0, <1>a, <1>b, <1>3, RoomSplit DEF IopGroupEnd
      <3> QED
        BY <1>3, <3>1 DEF IopGroupEnd, Skip, Goto, Room, RoomAt, frame_cycles, vblank_start
    <2>2. TypeOK'
      BY <1>0, <1>3 DEF IopGroupEnd, Skip, Goto, TypeOK, ClockOK, LinesOK, EeOK, LoopOK,
                        HistOK, Labels, Cycle
    <2> QED
      BY <1>3, <2>1, <2>2 DEF IopGroupEnd, Goto, RoomInv, TailRoom, FrameRoom, GroupRoom
  <1>4. CASE IdleGroupTick
    <2>1. LinesOK' /\ did' \subseteq did \cup {"tick"}
      BY <1>0, <1>4, TickTypes DEF IdleGroupTick, TypeOK, LinesOK
    <2>2. HistOK' /\ iop_idle' \in BOOLEAN
      BY <1>0, <1>4, <2>1 DEF IdleGroupTick, TypeOK, HistOK
    <2>3. ClockOK' /\ EeOK' /\ LoopOK' /\ cont' \in Returns /\ pc' \in Labels
      BY <1>0, <1>4 DEF IdleGroupTick, Goto, TypeOK, ClockOK, EeOK, LoopOK, Labels
    <2>4. TailRoom' /\ FrameRoom' /\ GroupRoom'
      BY <1>0, <1>4 DEF IdleGroupTick, Goto, RoomInv, TailRoom, FrameRoom, GroupRoom, Room,
                        frame_cycles, vblank_start
    <2> QED
      BY <2>1, <2>2, <2>3, <2>4 DEF RoomInv, TypeOK
  <1>5. CASE IdleGroupEnd
    <2>1. pc = "idleend" /\ region' = region
          /\ UNCHANGED <<lines, ee_masked, in_handler, intc_poll_stat, iop_idle, cont,
                         target, n, iop_at, ee_at, slice>>
          /\ ee_idle' \in BOOLEAN /\ ee_spinning' \in BOOLEAN
      BY <1>0, <1>5 DEF IdleGroupEnd, TypeOK, EeOK
    <2>2. CASE Pass(1) /\ pc' = "eetail" /\ left' = EE_PER_IOP - 1
      <3>1. frame_pos + 1 < 2 * frame_cycles
        BY <1>0, <1>a, <1>b, <2>1 DEF Room
      <3>2. frame_pos' \in Nat /\ frame_pos' < frame_cycles
        BY <1>0, <2>2, <3>1, WrapFacts, frame_pos + 1 \in Nat DEF Pass
      <3>3. TypeOK'
        BY <1>0, <2>1, <2>2, <3>2 DEF Pass, TypeOK, ClockOK, LinesOK, EeOK, LoopOK,
                                      HistOK, Labels, Cycle
      <3> QED
        BY <2>1, <2>2, <3>2, <3>3 DEF RoomInv, TailRoom, FrameRoom, GroupRoom, frame_cycles
    <2>3. CASE Skip(EE_PER_IOP) /\ pc' = "idlegroups" /\ UNCHANGED left
      <3>1. Room(left * EE_PER_IOP)'
        <4>1. RoomAt(frame_pos + EE_PER_IOP, left * EE_PER_IOP)
          BY <1>0, <1>a, <1>b, <2>1, RoomSplit
        <4> QED
          BY <2>1, <2>3, <4>1 DEF Skip, Room, RoomAt, frame_cycles, vblank_start
      <3>2. TypeOK'
        BY <1>0, <2>1, <2>3 DEF Skip, TypeOK, ClockOK, LinesOK, EeOK, LoopOK, HistOK,
                                Labels, Cycle
      <3> QED
        BY <2>1, <2>3, <3>1, <3>2 DEF RoomInv, TailRoom, FrameRoom, GroupRoom
    <2> QED
      BY <1>5, <2>2, <2>3 DEF IdleGroupEnd
  <1>6. CASE GroupsDone
    <2>1. frame_pos < 2 * frame_cycles
      BY <1>0, <1>6 DEF GroupsDone, RoomInv, GroupRoom, Room
    <2>2. frame_pos' \in Nat /\ frame_pos' < frame_cycles
      BY <1>0, <1>6, <2>1, WrapFacts DEF GroupsDone
    <2>3. TypeOK'
      BY <1>0, <1>6, <2>2 DEF GroupsDone, hist, TypeOK, ClockOK, LinesOK, EeOK, LoopOK,
                              HistOK, Labels, Cycle
    <2> QED
      BY <1>0, <1>6, <2>2, <2>3 DEF GroupsDone, RoomInv, TailRoom, FrameRoom, GroupRoom,
                                    frame_cycles
  <1> QED
    BY <1>1, <1>2, <1>3, <1>4, <1>5, <1>6 DEF Groups

(***************************************************************************)
(* Theorems of the specification.                                          *)
(***************************************************************************)
\* What the run loop relies on where: types, the position in the frame and the
\* cycles still to go, for every clock ratio, frame geometry and program.
LEMMA SchedulerRoom == Spec => []RoomInv
  <1>1. Init => RoomInv
    BY InitIInv
  <1>2. UseOK /\ RoomInv /\ [Next]_vars => RoomInv'
    <2> SUFFICES ASSUME UseOK, RoomInv, [Next]_vars PROVE RoomInv'
      OBVIOUS
    <2>1. CASE Next
      BY <2>1, HostIInv, OneCycleIInv, RunIInv, AdvanceIInv, GroupsIInv DEF Next
    <2>2. CASE UNCHANGED vars
      BY <2>2 DEF vars, clock, lines, intc, ee, iop, loop, hist, slice, RoomInv, TypeOK,
                  ClockOK, LinesOK, EeOK, LoopOK, HistOK, TailRoom, FrameRoom, GroupRoom,
                  Room, frame_cycles, vblank_start
    <2> QED
      BY <2>1, <2>2
  <1> QED
    BY <1>1, <1>2, UseStays, PTL DEF Spec

\* No local of run, advance or the batched loops (they are u64 in lib.rs) is
\* ever taken below zero, and every line of the machine keeps its type.
THEOREM SchedulerTypes == Spec => []TypeOK
  <1>1. RoomInv => TypeOK
    BY DEF RoomInv
  <1> QED
    BY <1>1, SchedulerRoom, PTL

\* wrap_frame_pos needs one subtraction only: the frame position the host and
\* the head of the loop see is inside the frame, whatever the region does.
THEOREM SchedulerInFrame == Spec => []InFrame
  <1>1. RoomInv => InFrame
    BY DEF RoomInv, FrameRoom, InFrame
  <1> QED
    BY <1>1, SchedulerRoom, PTL

(***************************************************************************)
(* No jump passes an edge that lies ahead of it.                           *)
(***************************************************************************)
\* No position strictly between here and k cycles on is an edge.
ClearFor(k) ==
    \A d \in 1 .. (k - 1) : frame_pos + d \notin {vblank_start, frame_cycles}

LEMMA JumpIsClear ==
    ASSUME ClockOK, frame_pos < frame_cycles, NEW k \in Nat, k =< to_vblank
    PROVE  ClearFor(k)
  BY VblankFacts, FrameFacts DEF ClearFor, ClockOK

LEMMA TailIsClear ==
    ASSUME ClockOK, NoEdgeInTail
    PROVE  ClearFor(EE_PER_IOP - 1)
  BY FrameFacts, ClockAssumption DEF NoEdgeInTail, ClearFor, ClockOK

LEMMA RoomIsClear ==
    ASSUME ClockOK, NEW j \in Nat, NEW k \in Nat, Room(j + k)
    PROVE  ClearFor(j)
  BY FrameFacts DEF Room, ClearFor, ClockOK

\* What VblankAhead says of a step that moves the clock by k cycles.
LEMMA ClearSuffices ==
    ASSUME ClockOK, NEW k \in Nat, cycles' = cycles + k, ClearFor(k)
    PROVE  \A c \in Passed \ {cycles} :
              frame_pos + (c - cycles) \notin {vblank_start, frame_cycles}
  <1> SUFFICES ASSUME NEW c \in Passed \ {cycles}
               PROVE  frame_pos + (c - cycles) \notin {vblank_start, frame_cycles}
    OBVIOUS
  <1>1. c - cycles \in 1 .. (k - 1)
    BY DEF Passed, ClockOK, Cycle
  <1> QED
    BY <1>1 DEF ClearFor

\* Every step moves the clock by nothing, by one cycle, or over clear cycles.
LEMMA EveryStepIsClear ==
    ASSUME UseOK, RoomInv, Next, frame_pos < frame_cycles
    PROVE  \E k \in Nat : cycles' = cycles + k /\ ClearFor(k)
  <1>0. /\ TypeOK /\ ClockOK /\ LinesOK
        /\ cycles \in Nat /\ frame_pos \in Nat /\ region \in Region
        /\ target \in Nat /\ left \in Nat /\ n \in Nat
        /\ EE_PER_IOP \in Nat /\ EE_PER_IOP > 0 /\ left * EE_PER_IOP \in Nat
    BY ClockAssumption DEF RoomInv, TypeOK, ClockOK, LoopOK, Cycle
  <1>1. ClearFor(0) /\ ClearFor(1)
    BY DEF ClearFor
  <1>2. ASSUME cycles' = cycles PROVE \E k \in Nat : cycles' = cycles + k /\ ClearFor(k)
    BY <1>0, <1>1, <1>2
  <1>3. CASE Host
    BY <1>2, <1>3 DEF Host, HostStep, HostRun, HostFrame, StartRun, Finished, vars, clock
  <1>4. CASE OneCycle
    <2>1. CASE EndCycle
      BY <1>0, <1>1, <2>1 DEF EndCycle, Pass
    <2> QED
      BY <1>2, <1>4, <2>1 DEF OneCycle, EeStep, IopSlot, TimerSlot, VblankSlot, clock
  <1>5. CASE Run
    <2>1. CASE RunJump
      <3> DEFINE k == next_event_in(target - cycles - 1)
      <3>1. k \in Nat /\ k =< to_vblank
        BY <1>0, <2>1, NextEventBound DEF RunJump, Iterate
      <3>2. cycles' = cycles + k
        BY <2>1 DEF RunJump, Pass
      <3> HIDE DEF k
      <3> QED
        BY <1>0, <3>1, <3>2, JumpIsClear
    <2>2. CASE GroupTail
      <3>1. CASE cycles' = cycles
        BY <1>2, <3>1
      <3>2. CASE cycles' # cycles
        <4>1. NoEdgeInTail /\ cycles' = cycles + (EE_PER_IOP - 1)
          BY <2>2, <3>2 DEF GroupTail, Pass, clock
        <4> QED
          BY <1>0, <4>1, TailIsClear, EE_PER_IOP - 1 \in Nat
      <3> QED
        BY <3>1, <3>2
    <2> QED
      BY <1>2, <1>5, <2>1, <2>2
         DEF Run, RunReturn, DropSpin, RunChain, RunSingle, RunQuietGroups, RunGroup,
             EeGroupTail, clock
  <1>6. CASE Advance
    <2>1. CASE AdvanceJump
      <3> DEFINE k == next_event_in(n - 1)
      <3>1. k \in Nat /\ k =< to_vblank
        BY <1>0, <2>1, NextEventBound, n - 1 \in Nat DEF AdvanceJump
      <3>2. cycles' = cycles + k
        BY <2>1 DEF AdvanceJump, Pass
      <3> HIDE DEF k
      <3> QED
        BY <1>0, <3>1, <3>2, JumpIsClear
    <2>2. CASE AdvanceTail
      <3>1. CASE cycles' = cycles
        BY <1>2, <3>1
      <3>2. CASE cycles' # cycles
        <4>1. NoEdgeInTail /\ cycles' = cycles + (EE_PER_IOP - 1)
          BY <2>2, <3>2 DEF AdvanceTail, Pass, clock
        <4> QED
          BY <1>0, <4>1, TailIsClear, EE_PER_IOP - 1 \in Nat
      <3> QED
        BY <3>1, <3>2
    <2> QED
      BY <1>2, <1>6, <2>1, <2>2
         DEF Advance, AdvanceReturn, AdvanceSingle, AdvanceQuietGroups, AdvanceGroup,
             AdvanceRest, clock
  <1>7. CASE Groups
    <2>1. CASE GroupChain
      <3>1. PICK m \in 1 .. (IF IopAsleep \/ iop_irq THEN 1 ELSE IopBudget) :
                 Skip((m - 1) * EE_PER_IOP) /\ left' = left - m
        BY <2>1 DEF GroupChain
      <3>2. m \in 1 .. left
        <4>1. left' \in Nat
          BY <1>0, <2>1, GroupChainRoom DEF RoomInv
        <4>2. m \in Int /\ m >= 1
          BY <3>1
        <4>3. left - m \in Nat
          BY <3>1, <4>1
        <4> QED
          BY <1>0, <4>2, <4>3
      <3> DEFINE j == (m - 1) * EE_PER_IOP
                 k == (left - m) * EE_PER_IOP + EE_PER_IOP
      <3>3. j \in Nat /\ k \in Nat /\ j + k = left * EE_PER_IOP
        BY <1>0, <3>2, GroupSplit
      <3>4. cycles' = cycles + j
        BY <3>1 DEF Skip
      <3>5. Room(left * EE_PER_IOP)
        BY <2>1 DEF GroupChain, RoomInv, GroupRoom
      <3> HIDE DEF j, k
      <3> QED
        BY <1>0, <3>3, <3>4, <3>5, RoomIsClear
    <2>2. CASE IopGroupEnd \/ (IdleGroupEnd /\ Skip(EE_PER_IOP))
      <3>1. Room(EE_PER_IOP + left * EE_PER_IOP)
        <4>1. EE_PER_IOP + left * EE_PER_IOP = left * EE_PER_IOP + EE_PER_IOP
          BY <1>0
        <4> QED
          BY <2>2, <4>1 DEF IopGroupEnd, IdleGroupEnd, RoomInv, GroupRoom
      <3>2. cycles' = cycles + EE_PER_IOP
        BY <2>2 DEF IopGroupEnd, Skip
      <3> QED
        BY <1>0, <3>1, <3>2, RoomIsClear
    <2>3. CASE IdleGroupEnd /\ Pass(1)
      BY <1>0, <1>1, <2>3 DEF Pass
    <2>4. IdleGroupEnd => Pass(1) \/ Skip(EE_PER_IOP)
      BY DEF IdleGroupEnd
    <2> QED
      BY <1>2, <1>7, <2>1, <2>2, <2>3, <2>4
         DEF Groups, GroupSlot, IdleGroupTick, GroupsDone, clock
  <1> QED
    BY <1>3, <1>4, <1>5, <1>6, <1>7 DEF Next

\* No jump, group tail, chain of groups or single cycle of the run loop passes
\* over a vertical-blank position, or over the end of the frame, that lies
\* ahead of it (next_event_in, quiet_iop_groups and the tests before the
\* seven-cycle tails of lib.rs).
THEOREM SchedulerVblankAhead == Spec => VblankAhead
  <1> DEFINE Ahead == frame_pos < frame_cycles =>
                        \A c \in Passed \ {cycles} :
                           frame_pos + (c - cycles) \notin {vblank_start, frame_cycles}
  <1>1. UseOK /\ RoomInv /\ [Next]_vars => [Ahead]_vars
    <2> SUFFICES ASSUME UseOK, RoomInv, Next, frame_pos < frame_cycles
                 PROVE  \A c \in Passed \ {cycles} :
                           frame_pos + (c - cycles) \notin {vblank_start, frame_cycles}
      OBVIOUS
    <2>1. PICK k \in Nat : cycles' = cycles + k /\ ClearFor(k)
      BY EveryStepIsClear
    <2> QED
      BY <2>1, ClearSuffices DEF RoomInv, TypeOK
  <1> QED
    BY <1>1, SchedulerRoom, UseStays, PTL DEF Spec, VblankAhead

(***************************************************************************)
(* Every core and every device gets its cycles.                            *)
(***************************************************************************)
\* Division with remainder, and what a multiple of the divisor adds to it.
LEMMA ModSplit ==
    ASSUME NEW a \in Int, NEW e \in Nat \ {0}
    PROVE  a = ((a \div e) * e) + (a % e) /\ a % e \in 0 .. (e - 1) /\ a \div e \in Int
  OBVIOUS

LEMMA ModRest ==
    ASSUME NEW e \in Nat \ {0}, NEW q \in Int, NEW r \in 0 .. (e - 1)
    PROVE  (q * e + r) % e = r
  OBVIOUS

LEMMA MulDist ==
    ASSUME NEW e \in Int, NEW q \in Int, NEW p \in Int
    PROVE  q * e + p * e = (q + p) * e /\ q * e \in Int /\ p * e \in Int
  OBVIOUS

LEMMA ModAdd ==
    ASSUME NEW a \in Int, NEW b \in Int, NEW e \in Nat \ {0}, b % e = 0
    PROVE  (a + b) % e = a % e
  <1> DEFINE q == a \div e
             p == b \div e
             r == a % e
  <1>1. a = q * e + r /\ b = p * e /\ q \in Int /\ p \in Int /\ r \in 0 .. (e - 1)
    <2>1. b = ((b \div e) * e) + (b % e) /\ b \div e \in Int
      BY ModSplit
    <2>2. a = ((a \div e) * e) + (a % e) /\ a \div e \in Int /\ a % e \in 0 .. (e - 1)
      BY ModSplit
    <2> QED
      BY <2>1, <2>2
  <1> HIDE DEF q, p, r
  <1>2. a + b = (q + p) * e + r
    <2>1. q * e + p * e = (q + p) * e /\ q * e \in Int /\ p * e \in Int
      BY <1>1, MulDist
    <2> QED
      BY <1>1, <2>1
  <1>3. ((q + p) * e + r) % e = r
    BY <1>1, ModRest
  <1> QED
    BY <1>2, <1>3 DEF r

\* Slots of the IOP repeat every EE_PER_IOP cycles and are nowhere between.
LEMMA SlotAdd ==
    ASSUME NEW c \in Nat, NEW k \in Nat
    PROVE  OnSlot(c + k * EE_PER_IOP) <=> OnSlot(c)
  <1>1. (k * EE_PER_IOP) % EE_PER_IOP = 0 /\ k * EE_PER_IOP \in Int
    <2>1. \A e \in Nat \ {0} : (k * e + 0) % e = 0 /\ k * e + 0 = k * e /\ k * e \in Int
      BY ModRest
    <2> QED
      BY <2>1, ClockAssumption
  <1>2. c \in Int /\ EE_PER_IOP \in Nat \ {0}
    BY ClockAssumption
  <1>3. (c + k * EE_PER_IOP) % EE_PER_IOP = c % EE_PER_IOP
    BY <1>1, <1>2, ModAdd, Zenon
  <1> QED
    BY <1>3 DEF OnSlot

LEMMA SlotGap ==
    ASSUME NEW c \in Nat, NEW j \in Nat, OnSlot(c), 0 < j, j < EE_PER_IOP
    PROVE  ~OnSlot(c + j)
  <1>1. (j + c) % EE_PER_IOP = j % EE_PER_IOP
    <2>1. j \in Int /\ c \in Int /\ EE_PER_IOP \in Nat \ {0}
      BY ClockAssumption
    <2> QED
      BY <2>1, ModAdd, Zenon DEF OnSlot
  <1>2. j % EE_PER_IOP = j
    BY ClockAssumption
  <1>3. j + c = c + j
    OBVIOUS
  <1> QED
    BY <1>1, <1>2, <1>3 DEF OnSlot

\* The grid of the tick is a part of the grid of the slots.
LEMMA GridIsSlot ==
    ASSUME NEW c \in Nat, OnGrid(c)
    PROVE  OnSlot(c)
  <1> DEFINE q == c \div TIMER_TICK_CYCLES
             p == TIMER_TICK_CYCLES \div EE_PER_IOP
  <1>1. c = q * TIMER_TICK_CYCLES /\ q \in Int
    BY ModSplit, ClockAssumption DEF OnGrid
  <1>2. TIMER_TICK_CYCLES = p * EE_PER_IOP /\ p \in Int
    BY ModSplit, ClockAssumption, FrameAssumption
  <1> HIDE DEF q, p
  <1>3. c = (q * p) * EE_PER_IOP /\ q * p \in Int
    <2>1. \A x, y, z \in Int : x * (y * z) = (x * y) * z /\ x * y \in Int
      OBVIOUS
    <2> QED
      BY <1>1, <1>2, <2>1, ClockAssumption
  <1>4. ((q * p) * EE_PER_IOP + 0) % EE_PER_IOP = 0
    <2>1. EE_PER_IOP \in Nat \ {0} /\ 0 \in 0 .. (EE_PER_IOP - 1)
      BY ClockAssumption
    <2> QED
      BY <1>3, <2>1, ModRest, Zenon
  <1>5. (q * p) * EE_PER_IOP + 0 = c
    BY <1>3
  <1> QED
    BY <1>4, <1>5 DEF OnSlot

\* Taking a frame off the position keeps its phase.
LEMMA WrapAligned ==
    ASSUME region \in Region, NEW c \in Nat, NEW p \in Nat, (c - p) % EE_PER_IOP = 0
    PROVE  (c - Wrap(p)) % EE_PER_IOP = 0
  <1>1. frame_cycles \in Nat /\ frame_cycles % EE_PER_IOP = 0
    BY FrameAssumption DEF frame_cycles
  <1>2. ((c - p) + frame_cycles) % EE_PER_IOP = 0
    <2>1. c - p \in Int /\ frame_cycles \in Int /\ EE_PER_IOP \in Nat \ {0}
      BY <1>1, ClockAssumption
    <2> QED
      BY <1>1, <2>1, ModAdd, Zenon
  <1>3. c - (p - frame_cycles) = (c - p) + frame_cycles
    BY <1>1
  <1> QED
    BY <1>2, <1>3 DEF Wrap

\* The clock and the frame position move together.
LEMMA ClockMoves ==
    ASSUME UseOK, RoomInv, Next
    PROVE  \/ UNCHANGED clock
           \/ \E k \in Nat : /\ cycles' = cycles + k
                             /\ frame_pos' \in {frame_pos + k, Wrap(frame_pos + k)}
  <1>0. /\ TypeOK /\ ClockOK /\ LinesOK
        /\ cycles \in Nat /\ frame_pos \in Nat /\ region \in Region
        /\ target \in Nat /\ left \in Nat /\ n \in Nat
        /\ EE_PER_IOP \in Nat /\ EE_PER_IOP > 0
    BY ClockAssumption DEF RoomInv, TypeOK, ClockOK, LoopOK, Cycle
  <1> DEFINE Moves(k) == /\ cycles' = cycles + k
                         /\ frame_pos' \in {frame_pos + k, Wrap(frame_pos + k)}
  <1>1. \A k : Pass(k) \/ Skip(k) => Moves(k)
    BY DEF Pass, Skip
  <1>2. CASE Host
    BY <1>2 DEF Host, HostStep, HostRun, HostFrame, StartRun, Finished, vars, clock
  <1>3. CASE OneCycle
    BY <1>1, <1>3 DEF OneCycle, EeStep, IopSlot, TimerSlot, VblankSlot, EndCycle, clock
  <1>4. CASE Run
    <2>1. CASE RunJump
      <3>1. next_event_in(target - cycles - 1) \in Nat
        BY <1>0, <2>1, NextEventBound DEF RunJump, Iterate
      <3> QED
        BY <1>1, <2>1, <3>1 DEF RunJump
    <2>2. CASE GroupTail
      BY <1>0, <1>1, <2>2, EE_PER_IOP - 1 \in Nat DEF GroupTail, clock
    <2> QED
      BY <1>4, <2>1, <2>2
         DEF Run, RunReturn, DropSpin, RunChain, RunSingle, RunQuietGroups, RunGroup,
             EeGroupTail, clock
  <1>5. CASE Advance
    <2>1. CASE AdvanceJump
      <3>1. next_event_in(n - 1) \in Nat
        BY <1>0, <2>1, NextEventBound, n - 1 \in Nat DEF AdvanceJump
      <3> QED
        BY <1>1, <2>1, <3>1 DEF AdvanceJump
    <2>2. CASE AdvanceTail
      BY <1>0, <1>1, <2>2, EE_PER_IOP - 1 \in Nat DEF AdvanceTail, clock
    <2> QED
      BY <1>5, <2>1, <2>2
         DEF Advance, AdvanceReturn, AdvanceSingle, AdvanceQuietGroups, AdvanceGroup,
             AdvanceRest, clock
  <1>6. CASE Groups
    <2>1. CASE GroupChain
      <3>1. PICK m \in 1 .. (IF IopAsleep \/ iop_irq THEN 1 ELSE IopBudget) :
                 Skip((m - 1) * EE_PER_IOP)
        BY <2>1 DEF GroupChain
      <3>2. m - 1 \in Nat
        BY <3>1
      <3>3. (m - 1) * EE_PER_IOP \in Nat
        BY <1>0, <3>2
      <3> QED
        BY <1>1, <3>1, <3>3
    <2>2. CASE GroupsDone
      BY <1>0, <2>2 DEF GroupsDone
    <2> QED
      BY <1>0, <1>1, <1>6, <2>1, <2>2
         DEF Groups, GroupSlot, IdleGroupTick, IopGroupEnd, IdleGroupEnd, clock
  <1> QED
    BY <1>2, <1>3, <1>4, <1>5, <1>6 DEF Next

\* The frame position and the cycle count keep the same phase of the IOP
\* clock, through every jump, group, wrap and change of region.
THEOREM SchedulerAligned == Spec => []Aligned
  <1>1. Init => Aligned
    BY ClockAssumption DEF Init, Aligned
  <1>2. UseOK /\ RoomInv /\ Aligned /\ [Next]_vars => Aligned'
    <2> SUFFICES ASSUME UseOK, RoomInv, Aligned, Next PROVE Aligned'
      BY DEF Aligned, vars, clock
    <2>0. cycles \in Nat /\ frame_pos \in Nat /\ region \in Region
      BY DEF RoomInv, TypeOK, ClockOK, Cycle
    <2>1. CASE UNCHANGED clock
      BY <2>1 DEF Aligned, clock
    <2>2. ASSUME NEW k \in Nat, cycles' = cycles + k,
                 frame_pos' \in {frame_pos + k, Wrap(frame_pos + k)}
          PROVE  Aligned'
      <3>1. (cycles + k) - (frame_pos + k) = cycles - frame_pos
        BY <2>0
      <3>2. ((cycles + k) - (frame_pos + k)) % EE_PER_IOP = 0
        BY <3>1 DEF Aligned
      <3>3. ((cycles + k) - Wrap(frame_pos + k)) % EE_PER_IOP = 0
        BY <2>0, <3>2, WrapAligned, cycles + k \in Nat, frame_pos + k \in Nat
      <3> QED
        BY <2>2, <3>2, <3>3 DEF Aligned
    <2> QED
      BY <2>1, <2>2, ClockMoves
  <1> QED
    BY <1>1, <1>2, SchedulerRoom, UseStays, PTL DEF Spec

LEMMA InitPhase == Init => GroupPhase /\ Turns /\ BatchOffEdge /\ EeAhead
  BY DEF Init, GroupPhase, InCycle, InBatch, Turns, BatchOffEdge, EeAhead

\* The phase of a group survives every step.
LEMMA PhaseStep ==
    ASSUME UseOK, RoomInv, GroupPhase, Next
    PROVE  GroupPhase'
  <1>0. /\ cycles \in Nat /\ left \in Nat /\ n \in Nat
        /\ EE_PER_IOP \in Nat /\ EE_PER_IOP > 0
        /\ pc \in Labels /\ cont \in Returns
    BY ClockAssumption DEF RoomInv, TypeOK, ClockOK, LoopOK, Cycle
  <1>1. CASE Host
    BY <1>0, <1>1
       DEF Host, HostStep, HostRun, HostFrame, StartRun, Finished, vars, clock, loop,
           Call, GroupPhase, InCycle, InBatch
  <1>2. CASE EeStep \/ IopSlot \/ TimerSlot \/ VblankSlot
    <2>1. UNCHANGED <<cycles, left, cont>> /\ pc \in {"ee", "iop", "timer", "edge"}
          /\ (pc = "ee" => pc' = IF cont = "eetail" THEN "edge" ELSE "iop")
          /\ (pc # "ee" => pc' \in {"timer", "edge", "end"} /\ (pc' = "timer" => pc = "iop"))
      BY <1>2 DEF EeStep, IopSlot, TimerSlot, VblankSlot, Goto, clock, loop
    <2> QED
      BY <2>1 DEF GroupPhase, InCycle, InBatch
  <1>3. CASE EndCycle
    <2>1. pc = "end" /\ cycles' = cycles + 1 /\ pc' = cont /\ UNCHANGED <<left, cont>>
      BY <1>3 DEF EndCycle, Pass, loop
    <2>2. cycles' > 0 /\ cycles' - 1 = cycles /\ cycles' + left = cycles + left + 1
      BY <1>0, <2>1
    <2>3. pc' \notin {"ee", "iop", "timer", "edge", "end", "iopgroups", "iopslot", "iopend",
                      "idlegroups", "idleslot", "idletick", "idleend"}
      BY <1>0, <2>1 DEF Returns
    <2>4. pc' \in {"grouptail", "advancetail"} => OnSlot(cycles)
      BY <2>1 DEF GroupPhase, InCycle
    <2>5. pc' = "eetail" => left < EE_PER_IOP /\ OnSlot(cycles + left + 1)
      BY <1>0, <2>1 DEF GroupPhase, InCycle
    <2> QED
      BY <2>1, <2>2, <2>3, <2>4, <2>5 DEF GroupPhase, InCycle, InBatch
  <1>4. CASE Run
    <2>1. CASE RunReturn \/ DropSpin \/ RunChain
      BY <2>1 DEF RunReturn, DropSpin, RunChain, Iterate, clock, loop, GroupPhase, InCycle,
                  InBatch
    <2>2. CASE RunJump \/ RunSingle
      BY <2>2 DEF RunJump, RunSingle, Iterate, Call, GroupPhase, InCycle, InBatch
    <2>3. CASE RunQuietGroups \/ RunGroup
      BY <2>3 DEF RunQuietGroups, RunGroup, Iterate, Ungrouped, Call, clock, GroupPhase,
                  InCycle, InBatch
    <2>4. CASE GroupTail
      <3>1. cycles > 0 /\ OnSlot(cycles - 1) /\ pc = "grouptail"
        BY <2>4 DEF GroupTail, GroupPhase
      <3>2. pc' = "loop" \/ (pc' = "eetail" /\ left' = EE_PER_IOP - 1 /\ cycles' = cycles)
        BY <2>4 DEF GroupTail, clock
      <3>3. OnSlot(cycles + (EE_PER_IOP - 1))
        <4>1. OnSlot((cycles - 1) + 1 * EE_PER_IOP)
          BY <1>0, <3>1, SlotAdd, cycles - 1 \in Nat, 1 \in Nat
        <4>2. (cycles - 1) + 1 * EE_PER_IOP = cycles + (EE_PER_IOP - 1)
          BY <1>0
        <4> QED
          BY <4>1, <4>2
      <3>4. EE_PER_IOP - 1 < EE_PER_IOP
        BY <1>0
      <3> QED
        BY <3>2, <3>3, <3>4 DEF GroupPhase, InCycle, InBatch
    <2>5. CASE EeGroupTail
      <3>1. pc = "eetail" /\ left < EE_PER_IOP /\ OnSlot(cycles + left) /\ cycles' = cycles
        BY <2>5 DEF EeGroupTail, GroupPhase, clock
      <3>2. \/ pc' = "loop"
            \/ pc' = "ee" /\ cont' = "eetail" /\ left' = left - 1 /\ left > 0
        BY <1>0, <2>5 DEF EeGroupTail, Call
      <3>3. cycles + (left - 1) + 1 = cycles + left /\ (left - 1) + 1 = left
        BY <1>0
      <3> QED
        BY <3>1, <3>2, <3>3 DEF GroupPhase, InCycle, InBatch
    <2> QED
      BY <1>4, <2>1, <2>2, <2>3, <2>4, <2>5 DEF Run
  <1>5. CASE Advance
    <2>1. CASE AdvanceReturn \/ AdvanceJump \/ AdvanceSingle
      BY <2>1 DEF AdvanceReturn, AdvanceJump, AdvanceSingle, Call, GroupPhase, InCycle, InBatch
    <2>2. CASE AdvanceQuietGroups \/ AdvanceGroup
      BY <2>2 DEF AdvanceQuietGroups, AdvanceGroup, Call, clock, GroupPhase, InCycle, InBatch
    <2>3. CASE AdvanceTail \/ AdvanceRest
      BY <2>3 DEF AdvanceTail, AdvanceRest, Call, GroupPhase, InCycle, InBatch
    <2> QED
      BY <1>5, <2>1, <2>2, <2>3 DEF Advance
  <1>6. CASE Groups
    <2>0. InBatch /\ OnSlot(cycles)
      BY <1>6 DEF Groups, GroupChain, GroupSlot, IopGroupEnd, IdleGroupTick, IdleGroupEnd,
                  GroupsDone, InBatch, GroupPhase
    <2>1. CASE GroupChain
      <3>1. PICK m \in 1 .. (IF IopAsleep \/ iop_irq THEN 1 ELSE IopBudget) :
                 Skip((m - 1) * EE_PER_IOP)
        BY <2>1 DEF GroupChain
      <3>2. m - 1 \in Nat
        BY <3>1
      <3>3. OnSlot(cycles + (m - 1) * EE_PER_IOP)
        BY <1>0, <2>0, <3>2, SlotAdd
      <3>4. OnSlot(cycles')
        BY <3>1, <3>3 DEF Skip
      <3>5. pc' \in {"iopslot", "idleslot"}
        BY <2>1 DEF GroupChain
      <3> QED
        BY <3>4, <3>5 DEF GroupPhase, InCycle, InBatch
    <2>2. CASE GroupSlot \/ IdleGroupTick
      BY <2>0, <2>2 DEF GroupSlot, IdleGroupTick, Goto, clock, GroupPhase, InCycle, InBatch
    <2>3. OnSlot(cycles + EE_PER_IOP)
      <3>1. OnSlot(cycles + 1 * EE_PER_IOP)
        BY <1>0, <2>0, SlotAdd, 1 \in Nat
      <3>2. 1 * EE_PER_IOP = EE_PER_IOP
        BY <1>0
      <3> QED
        BY <3>1, <3>2
    <2>4. CASE IopGroupEnd
      BY <2>3, <2>4 DEF IopGroupEnd, Skip, Goto, GroupPhase, InCycle, InBatch
    <2>5. CASE IdleGroupEnd
      <3>1. CASE Pass(1) /\ pc' = "eetail" /\ left' = EE_PER_IOP - 1
        <4>1. cycles' + left' = cycles + EE_PER_IOP /\ left' < EE_PER_IOP
          BY <1>0, <3>1 DEF Pass
        <4>2. OnSlot(cycles' + left')
          BY <2>3, <4>1
        <4> QED
          BY <3>1, <4>1, <4>2 DEF GroupPhase, InCycle, InBatch
      <3>2. CASE Skip(EE_PER_IOP) /\ pc' = "idlegroups"
        BY <2>3, <3>2 DEF Skip, GroupPhase, InCycle, InBatch
      <3> QED
        BY <2>5, <3>1, <3>2 DEF IdleGroupEnd
    <2>6. CASE GroupsDone
      BY <2>6 DEF GroupsDone, GroupPhase, InCycle, InBatch
    <2> QED
      BY <1>6, <2>1, <2>2, <2>4, <2>5, <2>6 DEF Groups
  <1> QED
    BY <1>1, <1>2, <1>3, <1>4, <1>5, <1>6 DEF Next, OneCycle

\* Every turn of a cycle leaves behind what it gave.
LEMMA TurnsStep ==
    ASSUME UseOK, RoomInv, GroupPhase, Turns, Next
    PROVE  Turns'
  <1>0. /\ cycles \in Nat /\ left \in Nat /\ timers_due \in Nat
        /\ pc \in Labels /\ cont \in Returns
    BY DEF RoomInv, TypeOK, ClockOK, LinesOK, LoopOK, Cycle
  <1>a. pc' \notin {"timer", "edge", "end", "iopend", "idletick", "idleend"} => Turns'
    BY DEF Turns
  <1>1. CASE EeStep
    <2>1. cont = "eetail" => ~OnSlot(cycles)
      <3>1. ASSUME cont = "eetail", OnSlot(cycles) PROVE FALSE
        <4>1. OnSlot(cycles + (left + 1)) /\ left + 1 < EE_PER_IOP
          <5>1. OnSlot(cycles + left + 1) /\ left + 1 < EE_PER_IOP
            BY <1>1, <3>1 DEF EeStep, GroupPhase, InCycle
          <5>2. cycles + left + 1 = cycles + (left + 1)
            BY <1>0
          <5> QED
            BY <5>1, <5>2
        <4>2. left + 1 \in Nat /\ 0 < left + 1
          BY <1>0
        <4> QED
          BY <1>0, <3>1, <4>1, <4>2, SlotGap
      <3> QED
        BY <3>1
    <2>2. /\ pc' = IF cont = "eetail" THEN "edge" ELSE "iop"
          /\ cycles' = cycles
      BY <1>1 DEF EeStep, Goto, clock
    <2>3. OnGrid(cycles) => OnSlot(cycles)
      BY <1>0, GridIsSlot
    <2> QED
      BY <2>1, <2>2, <2>3 DEF Turns
  <1>2. CASE IopSlot
    BY <1>2 DEF IopSlot, Goto, clock, Turns
  <1>3. CASE TimerSlot
    <2>1. /\ pc = "timer" /\ pc' = "edge" /\ cycles' = cycles
          /\ did \subseteq did'
      BY <1>3 DEF TimerSlot, Goto, clock
    <2>2. OnGrid(cycles) /\ cycles >= timers_due => "tick" \in did'
      BY <1>3 DEF TimerSlot
    <2>3. ~(OnGrid(cycles) /\ cycles >= timers_due) => timers_due' = timers_due
      BY <1>3 DEF TimerSlot, lines
    <2> QED
      BY <2>1, <2>2, <2>3 DEF Turns
  <1>4. CASE VblankSlot
    <2>1. /\ pc = "edge" /\ pc' = "end" /\ did \subseteq did'
          /\ UNCHANGED <<cycles, frame_pos, region, timers_due>>
      BY <1>4 DEF VblankSlot, VblankEdge, Goto, clock
    <2>2. frame_pos = vblank_start => "on" \in did'
      BY <1>4 DEF VblankSlot, VblankEdge
    <2>3. frame_pos = 0 /\ cycles # 0 => "off" \in did'
      <3>1. vblank_start # 0
        BY FrameFacts DEF RoomInv, TypeOK, ClockOK
      <3> QED
        BY <1>4, <3>1 DEF VblankSlot, VblankEdge
    <2> QED
      BY <2>1, <2>2, <2>3 DEF Turns, vblank_start
  <1>5. CASE EndCycle
    BY <1>0, <1>a, <1>5 DEF EndCycle, Returns
  <1>6. CASE Host \/ Run \/ Advance
    <2>1. CASE Finished
      BY <2>1 DEF Finished, vars, clock, hist, Turns
    <2>2. CASE DropSpin
      BY <1>a, <2>2 DEF DropSpin
    <2> QED
      BY <1>a, <1>6, <2>1, <2>2
         DEF Host, HostStep, HostRun, HostFrame, StartRun, Call,
             Run, RunReturn, RunChain, RunJump, RunSingle, RunQuietGroups, RunGroup,
             GroupTail, EeGroupTail, Advance, AdvanceReturn, AdvanceJump, AdvanceSingle,
             AdvanceQuietGroups, AdvanceGroup, AdvanceTail, AdvanceRest
  <1>7. CASE Groups
    <2>1. CASE GroupChain \/ IopGroupEnd \/ IdleGroupEnd \/ GroupsDone
      BY <1>a, <2>1 DEF GroupChain, IopGroupEnd, IdleGroupEnd, GroupsDone, Goto
    <2>2. CASE GroupSlot
      BY <2>2 DEF GroupSlot, Goto, Turns
    <2>3. CASE IdleGroupTick
      <3>1. /\ pc = "idletick" /\ pc' = "idleend" /\ cycles' = cycles /\ did \subseteq did'
        BY <2>3 DEF IdleGroupTick, Goto, clock
      <3>2. OnGrid(cycles) /\ cycles >= timers_due => "tick" \in did'
        BY <2>3 DEF IdleGroupTick
      <3>3. ~(OnGrid(cycles) /\ cycles >= timers_due) => timers_due' = timers_due
        BY <2>3 DEF IdleGroupTick, lines
      <3> QED
        BY <3>1, <3>2, <3>3 DEF Turns
    <2> QED
      BY <1>7, <2>1, <2>2, <2>3 DEF Groups
  <1> QED
    BY <1>1, <1>2, <1>3, <1>4, <1>5, <1>6, <1>7 DEF Next, OneCycle

\* A batch starts off the edges and stays in front of the next one.
LEMMA OffEdgeStep ==
    ASSUME UseOK, RoomInv, BatchOffEdge, Next
    PROVE  BatchOffEdge'
  <1>0. /\ TypeOK /\ ClockOK /\ LinesOK
        /\ cycles \in Nat /\ frame_pos \in Nat /\ region \in Region
        /\ target \in Nat /\ left \in Nat /\ n \in Nat /\ pc \in Labels /\ cont \in Returns
        /\ EE_PER_IOP \in Nat /\ EE_PER_IOP > 0
        /\ frame_cycles \in Nat /\ vblank_start \in Nat /\ 0 < vblank_start
        /\ vblank_start < frame_cycles
    BY ClockAssumption, FrameFacts DEF RoomInv, TypeOK, ClockOK, LoopOK, Cycle
  <1> DEFINE Batch == {"iopgroups", "idlegroups", "iopslot", "iopend",
                       "idleslot", "idletick", "idleend"}
  <1>a. pc' \notin Batch => BatchOffEdge'
    BY DEF BatchOffEdge
  <1>b. ASSUME NEW limit \in Nat, quiet_iop_groups(limit) > 0 PROVE OffEdge
    BY <1>b DEF quiet_iop_groups, OffEdge
  <1>1. CASE Host \/ OneCycle
    <2>1. CASE Finished
      BY <2>1 DEF Finished, vars, clock, loop, BatchOffEdge, OffEdge, vblank_start
    <2> QED
      BY <1>0, <1>a, <1>1, <2>1
         DEF Host, HostStep, HostRun, HostFrame, StartRun, Call, OneCycle, EeStep, IopSlot,
             TimerSlot, VblankSlot, EndCycle, Goto, Returns
  <1>2. CASE Run
    <2>1. CASE RunQuietGroups
      <3>1. (target - cycles) \div EE_PER_IOP \in Nat
        BY <1>0, <2>1, DivBound, target - cycles \in Nat, ClockAssumption
           DEF RunQuietGroups, Iterate
      <3>2. OffEdge
        BY <1>b, <2>1, <3>1 DEF RunQuietGroups, QuietGroups
      <3> QED
        BY <2>1, <3>2 DEF RunQuietGroups, clock, Machine, BatchOffEdge, OffEdge, vblank_start
    <2> QED
      BY <1>a, <1>2, <2>1
         DEF Run, RunReturn, DropSpin, RunChain, RunJump, RunSingle, RunGroup,
             GroupTail, EeGroupTail, Call
  <1>3. CASE Advance
    <2>1. CASE AdvanceQuietGroups
      <3>1. n \div EE_PER_IOP \in Nat
        BY <1>0, DivBound, ClockAssumption
      <3>2. OffEdge
        BY <1>b, <2>1, <3>1 DEF AdvanceQuietGroups, AdvanceGroups
      <3> QED
        BY <2>1, <3>2 DEF AdvanceQuietGroups, clock, Machine, BatchOffEdge, OffEdge,
                          vblank_start
    <2> QED
      BY <1>a, <1>3, <2>1
         DEF Advance, AdvanceReturn, AdvanceJump, AdvanceSingle, AdvanceGroup, AdvanceTail,
             AdvanceRest, Call
  <1>4. CASE Groups
    <2> DEFINE k == left * EE_PER_IOP
    <2>k. k \in Nat /\ (left > 0 => k >= EE_PER_IOP)
      BY <1>0, SMTT(30)
    <2>r. /\ pc \in {"iopgroups", "idlegroups"} => Room(k)
          /\ pc \in {"iopslot", "iopend", "idleslot", "idletick", "idleend"}
               => Room(k + EE_PER_IOP)
      BY DEF RoomInv, GroupRoom
    <2>1. CASE GroupChain
      <3>1. OffEdge /\ pc \in {"iopgroups", "idlegroups"} /\ left > 0 /\ region' = region
        BY <2>1 DEF GroupChain, BatchOffEdge, Machine
      <3>2. /\ left' \in Nat /\ frame_pos' \in Nat
            /\ RoomAt(frame_pos', left' * EE_PER_IOP + EE_PER_IOP)
        BY <1>0, <2>1, GroupChainRoom DEF RoomInv
      <3>3. frame_pos' >= frame_pos
        <4>1. PICK m \in 1 .. (IF IopAsleep \/ iop_irq THEN 1 ELSE IopBudget) :
                   Skip((m - 1) * EE_PER_IOP)
          BY <2>1 DEF GroupChain
        <4>2. m - 1 \in Nat
          BY <4>1
        <4>3. (m - 1) * EE_PER_IOP \in Nat
          BY <1>0, <4>2
        <4> QED
          BY <1>0, <4>1, <4>3 DEF Skip
      <3>4. frame_pos' # vblank_start
        <4> DEFINE j == left' * EE_PER_IOP
        <4>1. j \in Nat
          <5>1. \A a, b \in Nat : a * b \in Nat
            OBVIOUS
          <5> QED
            BY <1>0, <3>2, <5>1
        <4>2. RoomAt(frame_pos', j + EE_PER_IOP)
          BY <3>2
        <4>3. frame_pos' \in Nat
          BY <3>2
        <4> HIDE DEF j, k
        <4>4. \A p, v, e, i \in Nat : e > 0 /\ p + (i + e) =< v => p # v
          OBVIOUS
        <4>5. frame_pos' =< vblank_start => frame_pos' + (j + EE_PER_IOP) =< vblank_start
          BY <4>2 DEF RoomAt
        <4>6. ~(frame_pos' =< vblank_start) => frame_pos' # vblank_start
          BY <1>0
        <4> QED
          BY <1>0, <4>1, <4>3, <4>4, <4>5, <4>6
      <3> QED
        BY <1>0, <3>1, <3>2, <3>3, <3>4 DEF BatchOffEdge, OffEdge, vblank_start
    <2>2. CASE GroupSlot \/ IdleGroupTick
      BY <2>2 DEF GroupSlot, IdleGroupTick, Goto, clock, BatchOffEdge, OffEdge, vblank_start
    <2>3. CASE IopGroupEnd \/ IdleGroupEnd
      <3>1. pc \in {"iopend", "idleend"} /\ region' = region /\ OffEdge
        BY <2>3 DEF IopGroupEnd, IdleGroupEnd, Machine, BatchOffEdge
      <3>2. CASE pc' = "eetail"
        BY <1>a, <3>2
      <3>3. CASE pc' # "eetail"
        <4>1. frame_pos' = frame_pos + EE_PER_IOP /\ left' = left
              /\ pc' \in {"iopgroups", "idlegroups"}
          BY <2>3, <3>3 DEF IopGroupEnd, IdleGroupEnd, Skip, Goto, loop
        <4> HIDE DEF k
        <4>2. left > 0 => frame_pos + EE_PER_IOP # vblank_start
          BY <1>0, <2>k, <2>r, <3>1 DEF Room
        <4> QED
          BY <1>0, <3>1, <4>1, <4>2 DEF BatchOffEdge, OffEdge, vblank_start
      <3> QED
        BY <3>2, <3>3
    <2>4. CASE GroupsDone
      BY <1>a, <2>4 DEF GroupsDone
    <2> QED
      BY <1>4, <2>1, <2>2, <2>3, <2>4 DEF Groups
  <1> QED
    BY <1>1, <1>2, <1>3, <1>4 DEF Next

\* The EE stays ahead of the machine that follows it.
LEMMA EeAheadStep ==
    ASSUME UseOK, RoomInv, GroupPhase, EeAhead, Next
    PROVE  EeAhead'
  <1>0. /\ cycles \in Nat /\ left \in Nat /\ n \in Nat /\ ee_at \in Nat
        /\ target \in Nat /\ pc \in Labels /\ cont \in Returns
        /\ EE_PER_IOP \in Nat /\ EE_PER_IOP > 0
        /\ TypeOK /\ ClockOK /\ LinesOK
    BY ClockAssumption DEF RoomInv, TypeOK, ClockOK, LoopOK, HistOK, Cycle
  <1> DEFINE Free == {"host", "loop", "grouptail", "eetail"}
  <1>a. pc' \in Free => EeAhead'
    BY DEF EeAhead, InCycle
  <1>1. CASE Host
    <2>1. CASE HostStep
      BY <2>1 DEF HostStep, Call, EeAhead, InCycle
    <2>2. CASE Finished
      BY <1>a, <2>2 DEF Finished, vars
    <2> QED
      BY <1>a, <1>1, <2>1, <2>2 DEF Host, HostRun, HostFrame, StartRun
  <1>2. CASE EeStep
    <2>1. /\ pc = "ee" /\ pc' \in {"iop", "edge"} /\ cont \in Free
          /\ UNCHANGED <<cycles, cont>>
          /\ ee_idle \/ ee_at' = cycles + 1
          /\ ee_idle => UNCHANGED <<ee_idle, ee_at>>
      BY <1>2 DEF EeStep, Goto, clock, GroupPhase, ee
    <2>2. cycles < cycles + 1
      BY <1>0
    <2> QED
      BY <2>1, <2>2 DEF EeAhead, InCycle
  <1>3. CASE IopSlot \/ TimerSlot \/ VblankSlot
    <2>1. /\ pc \in {"iop", "timer", "edge"} /\ pc' \in {"timer", "edge", "end"}
          /\ UNCHANGED <<cycles, cont, n, left, ee_idle, ee_spinning, ee_at>>
      BY <1>3 DEF IopSlot, TimerSlot, VblankSlot, Goto, clock, loop, ee
    <2> QED
      BY <2>1 DEF EeAhead, InCycle
  <1>4. CASE EndCycle
    <2>1. /\ pc = "end" /\ pc' = cont /\ cycles' = cycles + 1
          /\ UNCHANGED <<cont, n, left, ee_at>>
      BY <1>4 DEF EndCycle, Pass, loop
    <2>2. CASE cont \in {"advance", "advancetail"}
      <3>1. cycles + n + 1 =< ee_at
        BY <2>1, <2>2 DEF EeAhead, InCycle
      <3>2. cycles' + n = cycles + n + 1
        BY <1>0, <2>1
      <3> QED
        BY <2>1, <2>2, <3>1, <3>2 DEF EeAhead, InCycle
    <2>3. CASE cont = "advancerest"
      <3>1. cycles + n + left + 1 =< ee_at
        BY <2>1, <2>3 DEF EeAhead, InCycle
      <3>2. cycles' + n + left = cycles + n + left + 1
        BY <1>0, <2>1
      <3> QED
        BY <2>1, <2>3, <3>1, <3>2 DEF EeAhead, InCycle
    <2> QED
      BY <1>0, <1>a, <2>1, <2>2, <2>3 DEF Returns
  <1>5. CASE Run
    <2>1. CASE RunReturn \/ DropSpin \/ GroupTail
      BY <1>a, <2>1 DEF RunReturn, DropSpin, GroupTail
    <2>2. CASE RunChain
      <3>1. /\ pc = "loop" /\ pc' = "advance" /\ cycles' = cycles /\ ee_at' = cycles + n'
        BY <2>2 DEF RunChain, Iterate, clock
      <3>2. n' \in Nat
        BY <1>0, <2>2, RunChainIInv DEF RoomInv, TypeOK, LoopOK
      <3>3. cycles' + n' =< ee_at'
        <4>1. \A a, b \in Nat : a + b =< a + b
          OBVIOUS
        <4>2. cycles + n' =< cycles + n'
          BY <1>0, <3>2, <4>1
        <4> QED
          BY <3>1, <4>2
      <3> QED
        BY <3>1, <3>3 DEF EeAhead, InCycle
    <2>3. CASE RunJump \/ RunSingle \/ RunGroup
      BY <2>3 DEF RunJump, RunSingle, RunGroup, Call, EeAhead, InCycle
    <2>4. CASE EeGroupTail
      BY <1>a, <2>4 DEF EeGroupTail, Call, EeAhead, InCycle
    <2>5. CASE RunQuietGroups
      <3>1. ee_idle \/ ee_spinning
        BY <2>5 DEF RunQuietGroups, QuietGroups
      <3> QED
        BY <2>5, <3>1 DEF RunQuietGroups, Machine, ee, EeAhead, InCycle
    <2> QED
      BY <1>5, <2>1, <2>2, <2>3, <2>4, <2>5 DEF Run
  <1>6. CASE Advance
    <2>0. pc = "advance" => cycles + n =< ee_at
      BY DEF EeAhead
    <2>1. CASE AdvanceReturn
      BY <1>a, <2>1 DEF AdvanceReturn
    <2>2. CASE AdvanceJump
      <3> DEFINE k == next_event_in(n - 1)
      <3>1. k \in Nat
        BY <1>0, <2>2, NextEventBound, n - 1 \in Nat DEF AdvanceJump
      <3>2. /\ pc = "advance" /\ cycles' = cycles + k /\ n' = n - (k + 1) /\ ee_at' = ee_at
            /\ pc' = "iop" /\ cont' = "advance"
        BY <2>2 DEF AdvanceJump, Pass, Call
      <3> HIDE DEF k
      <3>3. cycles' + n' + 1 = cycles + n
        BY <1>0, <3>1, <3>2
      <3>4. n > 0 /\ n - 1 \in Nat /\ k =< n - 1
        BY <1>0, <2>2, NextEventBound DEF AdvanceJump, k
      <3>5. cycles' < ee_at'
        BY <1>0, <2>0, <3>1, <3>2, <3>4
      <3> QED
        BY <2>0, <3>2, <3>3, <3>5 DEF EeAhead, InCycle
    <2>3. CASE AdvanceSingle \/ AdvanceGroup
      <3>1. /\ pc = "advance" /\ n > 0 /\ n' = n - 1 /\ pc' = "iop"
            /\ cont' \in {"advance", "advancetail"} /\ UNCHANGED <<cycles, ee_at>>
        BY <1>0, <2>3 DEF AdvanceSingle, AdvanceGroup, Call, clock, hist
      <3>2. cycles' + n' + 1 = cycles + n /\ cycles < cycles + n
        BY <1>0, <3>1
      <3>3. cycles' < ee_at'
        BY <1>0, <2>0, <3>1
      <3> QED
        BY <2>0, <3>1, <3>2, <3>3 DEF EeAhead, InCycle
    <2>4. CASE AdvanceQuietGroups
      <3>1. /\ pc = "advance" /\ pc' = "iopgroups" /\ ~ee_idle
            /\ n' = n - left' * EE_PER_IOP /\ UNCHANGED <<cycles, ee_at, ee_idle>>
        BY <2>4 DEF AdvanceQuietGroups, AdvanceGroups, clock, hist, Machine, ee
      <3>2. RoomInv'
        BY <2>4, AdvanceIInv DEF Advance
      <3>3. n' \in Nat /\ left' \in Nat
        BY <3>2 DEF RoomInv, TypeOK, LoopOK
      <3>4. left' * EE_PER_IOP \in Nat
        <4>1. \A a, b \in Nat : a * b \in Nat
          OBVIOUS
        <4> QED
          BY <1>0, <3>3, <4>1
      <3>5. cycles' + n' + left' * EE_PER_IOP =< ee_at'
        <4>1. \A j \in Nat : n' = n - j /\ cycles + n =< ee_at => cycles + n' + j =< ee_at
          BY <1>0
        <4> QED
          BY <2>0, <3>1, <3>4, <4>1
      <3> QED
        BY <3>1, <3>5 DEF EeAhead, InCycle
    <2>5. CASE AdvanceTail
      <3>1. pc = "advancetail" /\ n >= EE_PER_IOP - 1 /\ cycles + n =< ee_at /\ ee_at' = ee_at
            /\ n' = n - (EE_PER_IOP - 1)
        BY <2>5 DEF AdvanceTail, RoomInv, TailRoom, EeAhead
      <3>2. CASE pc' = "advance" /\ cycles' = cycles + (EE_PER_IOP - 1)
        <4>1. cycles' + n' =< ee_at'
          BY <1>0, <3>1, <3>2
        <4> QED
          BY <3>2, <4>1 DEF EeAhead, InCycle
      <3>3. CASE pc' = "advancerest" /\ left' = EE_PER_IOP - 1 /\ cycles' = cycles
        <4>1. cycles' + n' + left' =< ee_at'
          BY <1>0, <3>1, <3>3
        <4> QED
          BY <3>3, <4>1 DEF EeAhead, InCycle
      <3> QED
        BY <2>5, <3>2, <3>3 DEF AdvanceTail, Pass, clock
    <2>6. CASE AdvanceRest
      <3>1. pc = "advancerest" /\ cycles + n + left =< ee_at
            /\ UNCHANGED <<cycles, n, ee_at>>
        BY <2>6 DEF AdvanceRest, EeAhead, clock, hist
      <3>2. CASE left = 0 /\ pc' = "advance"
        <4>1. cycles' + n' =< ee_at'
          BY <1>0, <3>1, <3>2
        <4> QED
          BY <3>2, <4>1 DEF EeAhead, InCycle
      <3>3. CASE left > 0 /\ pc' = "iop" /\ cont' = "advancerest" /\ left' = left - 1
        <4>1. cycles' + n' + left' + 1 =< ee_at' /\ cycles' < ee_at'
          BY <1>0, <3>1, <3>3
        <4> QED
          BY <3>3, <4>1 DEF EeAhead, InCycle
      <3> QED
        BY <1>0, <2>6, <3>2, <3>3 DEF AdvanceRest, Call
    <2> QED
      BY <1>6, <2>1, <2>2, <2>3, <2>4, <2>5, <2>6 DEF Advance
  <1>7. CASE Groups
    <2>1. CASE GroupChain
      <3>1. PICK m \in 1 .. (IF IopAsleep \/ iop_irq THEN 1 ELSE IopBudget) :
                 Skip((m - 1) * EE_PER_IOP) /\ left' = left - m
        BY <2>1 DEF GroupChain
      <3>2. m \in 1 .. left
        <4>1. left' \in Nat
          BY <1>0, <2>1, GroupChainRoom DEF RoomInv
        <4>2. m \in Int /\ m >= 1
          BY <3>1
        <4> QED
          BY <1>0, <3>1, <4>1, <4>2
      <3> DEFINE j == (m - 1) * EE_PER_IOP
                 k == (left - m) * EE_PER_IOP + EE_PER_IOP
      <3>3. j \in Nat /\ k \in Nat /\ j + k = left * EE_PER_IOP
        BY <1>0, <3>2, GroupSplit
      <3>4. /\ cycles' = cycles + j /\ k = left' * EE_PER_IOP + EE_PER_IOP
            /\ UNCHANGED <<n, ee_at, ee_idle, ee_spinning>>
            /\ pc \in {"iopgroups", "idlegroups"}
            /\ pc' = IF pc = "iopgroups" THEN "iopslot" ELSE "idleslot"
        BY <2>1, <3>1 DEF GroupChain, Skip, Machine, ee
      <3> HIDE DEF j, k
      <3>5. CASE pc = "iopgroups"
        <4>1. cycles + n + (j + k) =< ee_at /\ ~ee_idle
          BY <3>3, <3>5 DEF EeAhead
        <4>2. cycles' + n' + k =< ee_at'
          BY <1>0, <3>3, <3>4, <4>1
        <4>3. cycles' + n' + (left' * EE_PER_IOP + EE_PER_IOP) =< ee_at'
          BY <3>4, <4>2
        <4> QED
          BY <3>4, <3>5, <4>1, <4>3 DEF EeAhead, InCycle
      <3>6. CASE pc = "idlegroups"
        BY <3>4, <3>6 DEF EeAhead, InCycle
      <3> QED
        BY <3>4, <3>5, <3>6
    <2>2. CASE GroupSlot \/ IdleGroupTick
      <3>1. /\ pc \in {"iopslot", "idleslot", "idletick"}
            /\ pc = "iopslot" => pc' = "iopend"
            /\ pc # "iopslot" => pc' \in {"idletick", "idleend"}
            /\ UNCHANGED <<cycles, n, left, ee_at, ee_idle, ee_spinning>>
        BY <2>2 DEF GroupSlot, IdleGroupTick, Goto, clock, loop, ee
      <3> QED
        BY <3>1 DEF EeAhead, InCycle
    <2>3. CASE IopGroupEnd
      <3>1. /\ pc = "iopend" /\ pc' = "iopgroups" /\ cycles' = cycles + EE_PER_IOP
            /\ UNCHANGED <<n, left, ee_at, ee_idle>>
        BY <2>3 DEF IopGroupEnd, Skip, Goto, loop, Machine, ee
      <3> DEFINE k == left * EE_PER_IOP
      <3>2. cycles + n + (k + EE_PER_IOP) =< ee_at /\ ~ee_idle
        BY <3>1 DEF EeAhead
      <3>3. k \in Nat /\ k = left' * EE_PER_IOP
        BY <1>0, <3>1
      <3> HIDE DEF k
      <3>4. cycles' + n' + k =< ee_at'
        BY <1>0, <3>1, <3>2, <3>3
      <3>5. cycles' + n' + left' * EE_PER_IOP =< ee_at'
        BY <3>3, <3>4
      <3> QED
        BY <3>1, <3>2, <3>5 DEF EeAhead, InCycle
    <2>4. CASE IdleGroupEnd
      <3>1. pc = "idleend" /\ (ee_idle \/ ee_spinning)
            /\ ee_idle \in BOOLEAN /\ ee_spinning \in BOOLEAN
        BY <1>0, <2>4 DEF IdleGroupEnd, EeAhead, TypeOK, EeOK
      <3>2. CASE pc' = "eetail"
        BY <1>a, <3>2
      <3>3. CASE pc' = "idlegroups"
        <4>1. ee_idle' \/ ee_spinning'
          BY <2>4, <3>1, <3>3 DEF IdleGroupEnd
        <4> QED
          BY <3>3, <4>1 DEF EeAhead, InCycle
      <3> QED
        BY <2>4, <3>2, <3>3 DEF IdleGroupEnd
    <2>5. CASE GroupsDone
      <3>1. CASE pc = "iopgroups"
        <4>1. cycles + n + 0 * EE_PER_IOP =< ee_at /\ left = 0
          BY <2>5, <3>1 DEF GroupsDone, EeAhead
        <4>2. 0 * EE_PER_IOP = 0
          BY <1>0
        <4>3. cycles' + n' =< ee_at'
          BY <1>0, <2>5, <4>1, <4>2 DEF GroupsDone, loop, hist
        <4> QED
          BY <2>5, <3>1, <4>3 DEF GroupsDone, EeAhead, InCycle
      <3> QED
        BY <1>a, <2>5, <3>1 DEF GroupsDone
    <2> QED
      BY <1>7, <2>1, <2>2, <2>3, <2>4, <2>5 DEF Groups
  <1> QED
    BY <1>1, <1>2, <1>3, <1>4, <1>5, <1>6, <1>7 DEF Next, OneCycle

\* The inductive invariant of the run loop holds for every clock ratio, frame
\* geometry, program and call of the host.
THEOREM SchedulerIInv == Spec => []IInv
  <1> DEFINE Shared == GroupPhase /\ Turns /\ BatchOffEdge /\ EeAhead
  <1>1. Init => Shared
    BY InitPhase
  <1>2. UseOK /\ RoomInv /\ Shared /\ [Next]_vars => Shared'
    <2> SUFFICES ASSUME UseOK, RoomInv, Shared, [Next]_vars PROVE Shared'
      OBVIOUS
    <2>1. CASE Next
      BY <2>1, PhaseStep, TurnsStep, OffEdgeStep, EeAheadStep
    <2>2. CASE UNCHANGED vars
      BY <2>2 DEF vars, clock, loop, hist, slice, ee, GroupPhase, InCycle, InBatch, Turns,
                  BatchOffEdge, OffEdge, EeAhead, vblank_start
    <2> QED
      BY <2>1, <2>2
  <1>3. RoomInv /\ Aligned /\ Shared => IInv
    BY DEF IInv
  <1> QED
    BY <1>1, <1>2, <1>3, SchedulerRoom, SchedulerAligned, UseStays, PTL DEF Spec

\* No slot lies in the rest of a group behind its first cycle.
LEMMA TailHasNoSlot ==
    ASSUME NEW c \in Nat, c > 0, OnSlot(c - 1), NEW d \in c .. ((c + (EE_PER_IOP - 1)) - 1)
    PROVE  ~OnSlot(d)
  <1>1. d - (c - 1) \in Nat /\ 0 < d - (c - 1) /\ d - (c - 1) < EE_PER_IOP
    BY ClockAssumption
  <1>2. (c - 1) + (d - (c - 1)) = d
    BY ClockAssumption
  <1> QED
    BY <1>1, <1>2, SlotGap, c - 1 \in Nat

\* The slots and the turns of the EE of a step that moves the clock: what the
\* four shapes of such a step owe them.
LEMMA OneCyclePasses ==
    ASSUME ClockOK, cycles' = cycles + 1
    PROVE  Passed = {cycles}
  BY DEF ClockOK, Cycle, Passed

LEMMA TailPasses ==
    ASSUME RoomInv, GroupPhase, pc \in {"grouptail", "advancetail"},
           cycles' = cycles + (EE_PER_IOP - 1)
    PROVE  \A c \in Passed : ~OnSlot(c)
  <1>1. cycles \in Nat /\ cycles > 0 /\ OnSlot(cycles - 1)
    BY DEF RoomInv, TypeOK, ClockOK, Cycle, GroupPhase
  <1>2. Passed = cycles .. ((cycles + (EE_PER_IOP - 1)) - 1)
    BY DEF Passed
  <1> QED
    BY <1>1, <1>2, TailHasNoSlot

\* A whole group passes one slot, its first cycle.
LEMMA GroupPasses ==
    ASSUME RoomInv, GroupPhase, InBatch, cycles' = cycles + EE_PER_IOP
    PROVE  \A c \in Passed : OnSlot(c) => c = cycles
  <1>1. cycles \in Nat /\ OnSlot(cycles)
    BY DEF RoomInv, TypeOK, ClockOK, Cycle, GroupPhase
  <1> SUFFICES ASSUME NEW c \in Passed, OnSlot(c), c # cycles PROVE FALSE
    OBVIOUS
  <1>2. c - cycles \in Nat /\ 0 < c - cycles /\ c - cycles < EE_PER_IOP
        /\ cycles + (c - cycles) = c
    BY <1>1, ClockAssumption DEF Passed
  <1> QED
    BY <1>1, <1>2, SlotGap

\* Nothing but the turn of the IOP marks it, and it either executes or sleeps.
LEMMA SlotTaken ==
    ASSUME RoomInv, Next, "iop" \in did' \ did
    PROVE  iop_at' > cycles \/ (iop_idle /\ ~iop_irq)
  <1>0. cycles \in Nat /\ cycles + EE_PER_IOP > cycles
    BY ClockAssumption DEF RoomInv, TypeOK, ClockOK, Cycle
  <1>1. CASE IopSlot
    BY <1>0, <1>1 DEF IopSlot, IopAsleep
  <1>2. CASE GroupSlot
    BY <1>0, <1>2 DEF GroupSlot, IopAsleep
  <1>3. IopSlot \/ GroupSlot
    <2>1. ~(Host \/ EeStep \/ EndCycle)
      BY DEF Host, HostStep, HostRun, HostFrame, StartRun, Finished, vars, hist, EeStep,
             EndCycle, Pass
    <2>2. ~(TimerSlot \/ VblankSlot)
      BY DEF TimerSlot, VblankSlot, VblankEdge
    <2>3. ~Run
      BY DEF Run, RunReturn, DropSpin, RunChain, RunJump, RunSingle, RunQuietGroups,
             RunGroup, GroupTail, EeGroupTail, hist, Pass
    <2>4. ~Advance
      BY DEF Advance, AdvanceReturn, AdvanceJump, AdvanceSingle, AdvanceQuietGroups,
             AdvanceGroup, AdvanceTail, AdvanceRest, hist, Pass
    <2>5. ~(GroupChain \/ IopGroupEnd \/ IdleGroupTick \/ IdleGroupEnd \/ GroupsDone)
      BY DEF GroupChain, IopGroupEnd, IdleGroupTick, IdleGroupEnd, GroupsDone, hist, Skip, Pass
    <2> QED
      BY <2>1, <2>2, <2>3, <2>4, <2>5 DEF Next, OneCycle, Groups
  <1> QED
    BY <1>1, <1>2, <1>3

\* The shapes of a step that moves the clock: the end of a cycle, a jump of
\* sleeping cores, the tail of a group, a chain of groups, a whole group.
Sleeps == iop_idle /\ ~iop_irq /\ UNCHANGED <<iop_idle, iop_irq>>
JumpStep == \E k \in Nat : /\ RunJump \/ AdvanceJump
                           /\ cycles' = cycles + k /\ k =< to_timer /\ Sleeps
                           /\ RunJump => ee_idle
                           /\ AdvanceJump => cycles + k =< ee_at /\ UNCHANGED ee_at
TailStep == /\ GroupTail \/ AdvanceTail
            /\ NoEdgeInTail /\ cycles' = cycles + (EE_PER_IOP - 1)
            /\ GroupTail => ee_idle
            /\ AdvanceTail => cycles' =< ee_at /\ UNCHANGED ee_at
ChainStep == \E m \in Nat \ {0} :
                /\ GroupChain
                /\ m =< IopBudget
                /\ cycles' = cycles + (m - 1) * EE_PER_IOP
                /\ m > 1 => iop_at' = cycles'
                /\ pc = "iopgroups" => cycles' =< ee_at /\ UNCHANGED ee_at
OneStep == (EndCycle \/ IdleGroupEnd) /\ cycles' = cycles + 1
GroupStep == /\ IopGroupEnd \/ IdleGroupEnd
             /\ cycles' = cycles + EE_PER_IOP
             /\ IopGroupEnd => cycles' =< ee_at /\ UNCHANGED ee_at

LEMMA ClockSteps ==
    ASSUME UseOK, RoomInv, EeAhead, Next
    PROVE  cycles' = cycles \/ JumpStep \/ TailStep \/ ChainStep \/ OneStep \/ GroupStep
  <1>0. /\ TypeOK /\ ClockOK /\ LinesOK
        /\ cycles \in Nat /\ frame_pos \in Nat /\ region \in Region /\ ee_at \in Nat
        /\ target \in Nat /\ left \in Nat /\ n \in Nat
        /\ EE_PER_IOP \in Nat /\ EE_PER_IOP > 0
    BY ClockAssumption DEF RoomInv, TypeOK, ClockOK, LoopOK, HistOK, Cycle
  <1>a. ASSUME NEW limit \in Nat PROVE next_event_in(limit) =< to_timer
    BY <1>0, TimerFacts, VblankFacts DEF next_event_in, Least
  <1>1. CASE Host \/ EeStep \/ IopSlot \/ TimerSlot \/ VblankSlot
    BY <1>1 DEF Host, HostStep, HostRun, HostFrame, StartRun, Finished, vars, clock,
                EeStep, IopSlot, TimerSlot, VblankSlot
  <1>2. CASE EndCycle
    BY <1>2 DEF EndCycle, Pass, OneStep
  <1>3. CASE Run
    <2>1. CASE RunJump
      <3> DEFINE k == next_event_in(target - cycles - 1)
      <3>1. target - cycles - 1 \in Nat
        BY <1>0, <2>1 DEF RunJump, Iterate
      <3>2. k \in Nat /\ k =< to_timer /\ cycles' = cycles + k
        BY <1>0, <1>a, <2>1, <3>1, NextEventBound DEF RunJump, Pass
      <3>3. Sleeps /\ ee_idle /\ ~AdvanceJump
        BY <2>1 DEF RunJump, BothAsleep, IopAsleep, Machine, lines, Sleeps, Iterate, AdvanceJump
      <3> HIDE DEF k
      <3> QED
        BY <2>1, <3>2, <3>3 DEF JumpStep
    <2>2. CASE GroupTail
      <3>1. ~AdvanceTail
        BY <2>2 DEF GroupTail, AdvanceTail
      <3> QED
        BY <2>2, <3>1 DEF GroupTail, Pass, TailStep, clock
    <2> QED
      BY <1>3, <2>1, <2>2
         DEF Run, RunReturn, DropSpin, RunChain, RunSingle, RunQuietGroups, RunGroup,
             EeGroupTail, clock
  <1>4. CASE Advance
    <2>1. CASE AdvanceJump
      <3> DEFINE k == next_event_in(n - 1)
      <3>1. n - 1 \in Nat /\ pc = "advance" /\ cycles + n =< ee_at /\ ee_at' = ee_at
        BY <1>0, <2>1 DEF AdvanceJump, EeAhead
      <3>2. k \in Nat /\ k =< n - 1 /\ k =< to_timer /\ cycles' = cycles + k
        BY <1>0, <1>a, <2>1, <3>1, NextEventBound DEF AdvanceJump, Pass
      <3>3. Sleeps /\ ~RunJump
        BY <2>1 DEF AdvanceJump, IopAsleep, Machine, lines, Sleeps, RunJump, Iterate
      <3> HIDE DEF k
      <3>4. cycles + k =< ee_at
        BY <1>0, <3>1, <3>2
      <3> QED
        BY <2>1, <3>1, <3>2, <3>3, <3>4 DEF JumpStep
    <2>2. CASE AdvanceTail
      <3>1. /\ pc = "advancetail" /\ cycles + n =< ee_at /\ ee_at' = ee_at
            /\ n >= EE_PER_IOP - 1 /\ ~GroupTail
        BY <2>2 DEF AdvanceTail, EeAhead, RoomInv, TailRoom, GroupTail
      <3>2. cycles + (EE_PER_IOP - 1) =< ee_at
        BY <1>0, <3>1
      <3>3. cycles' = cycles \/ (NoEdgeInTail /\ cycles' = cycles + (EE_PER_IOP - 1))
        BY <2>2 DEF AdvanceTail, Pass, clock
      <3>4. CASE cycles' = cycles + (EE_PER_IOP - 1)
        <4>1. cycles' =< ee_at
          BY <3>2, <3>4
        <4> QED
          BY <2>2, <3>1, <3>3, <3>4, <4>1 DEF TailStep
      <3> QED
        BY <3>3, <3>4
    <2> QED
      BY <1>4, <2>1, <2>2
         DEF Advance, AdvanceReturn, AdvanceSingle, AdvanceQuietGroups, AdvanceGroup,
             AdvanceRest, clock
  <1>5. CASE Groups
    <2>1. CASE GroupChain
      <3>1. PICK m \in 1 .. (IF IopAsleep \/ iop_irq THEN 1 ELSE IopBudget) :
                 /\ Skip((m - 1) * EE_PER_IOP) /\ left' = left - m
                 /\ iop_at' = IF m > 1 THEN cycles' ELSE iop_at
        BY <2>1 DEF GroupChain
      <3>2. m \in 1 .. left
        <4>1. left' \in Nat
          BY <1>0, <2>1, GroupChainRoom DEF RoomInv
        <4>2. m \in Int /\ m >= 1
          BY <3>1
        <4> QED
          BY <1>0, <3>1, <4>1, <4>2
      <3> DEFINE j == (m - 1) * EE_PER_IOP
                 k == (left - m) * EE_PER_IOP + EE_PER_IOP
      <3>3. j \in Nat /\ k \in Nat /\ j + k = left * EE_PER_IOP
        BY <1>0, <3>2, GroupSplit
      <3>4. cycles' = cycles + j
        BY <3>1 DEF Skip
      <3>5. pc = "iopgroups" => cycles + n + (j + k) =< ee_at
        BY <3>3 DEF EeAhead
      <3> HIDE DEF j, k
      <3>6. pc = "iopgroups" => cycles' =< ee_at
        BY <1>0, <3>3, <3>4, <3>5
      <3>7. ee_at' = ee_at /\ m \in Nat \ {0}
        BY <2>1, <3>2 DEF GroupChain
      <3>8. m =< IopBudget \/ m = 1
        BY <3>1, <3>2
      <3>9. CASE m =< IopBudget
        BY <2>1, <3>1, <3>4, <3>6, <3>7, <3>9 DEF ChainStep, j
      <3>10. CASE m = 1
        <4>1. j = 0
          BY <1>0, <3>10 DEF j
        <4> QED
          BY <1>0, <3>4, <4>1
      <3> QED
        BY <3>8, <3>9, <3>10
    <2>2. CASE IopGroupEnd
      <3> DEFINE k == left * EE_PER_IOP
      <3>1. cycles + n + (k + EE_PER_IOP) =< ee_at /\ k \in Nat
        BY <1>0, <2>2 DEF IopGroupEnd, EeAhead
      <3> HIDE DEF k
      <3>2. cycles' = cycles + EE_PER_IOP /\ ee_at' = ee_at
        BY <2>2 DEF IopGroupEnd, Skip
      <3>3. cycles' =< ee_at
        BY <1>0, <3>1, <3>2
      <3> QED
        BY <2>2, <3>2, <3>3 DEF GroupStep
    <2>3. CASE IdleGroupEnd
      <3>1. ~IopGroupEnd
        BY <2>3 DEF IdleGroupEnd, IopGroupEnd
      <3> QED
        BY <2>3, <3>1 DEF IdleGroupEnd, Pass, Skip, OneStep, GroupStep
    <2> QED
      BY <1>5, <2>1, <2>2, <2>3 DEF Groups, GroupSlot, IdleGroupTick, GroupsDone, clock
  <1> QED
    BY <1>1, <1>2, <1>3, <1>4, <1>5 DEF Next, OneCycle

\* A cycle passed lies behind the new one.
LEMMA PassedBehind ==
    ASSUME cycles \in Nat, cycles' \in Int
    PROVE  \A c \in Passed : c \in Nat /\ c >= cycles /\ c < cycles'
  <1>1. \A a \in Nat, b \in Int : \A c \in a .. (b - 1) : c \in Nat /\ c >= a /\ c < b
    OBVIOUS
  <1> QED
    BY <1>1 DEF Passed

LEMMA EverySlotKept ==
    ASSUME UseOK, IInv, Next
    PROVE  SlotsKept
  <1>0. cycles \in Nat /\ EE_PER_IOP \in Nat /\ EE_PER_IOP > 0
    BY ClockAssumption DEF IInv, RoomInv, TypeOK, ClockOK, Cycle
  <1>1. "iop" \in did' \ did => iop_at' > cycles \/ (iop_idle /\ ~iop_irq)
    BY SlotTaken DEF IInv
  <1> SUFFICES ASSUME NEW c \in Passed, OnSlot(c)
               PROVE  c < iop_at' \/ (c = cycles /\ "iop" \in did) \/ (iop_idle' /\ ~iop_irq')
    BY <1>1 DEF SlotsKept
  <1>2. CASE cycles' = cycles
    BY <1>0, <1>2 DEF Passed
  <1>3. CASE JumpStep
    BY <1>3 DEF JumpStep, Sleeps
  <1>4. CASE TailStep
    <2>1. pc \in {"grouptail", "advancetail"}
      BY <1>4 DEF TailStep, GroupTail, AdvanceTail
    <2> QED
      BY <1>4, <2>1, TailPasses DEF TailStep, IInv
  <1>5. CASE ChainStep
    <2>1. PICK m \in Nat \ {0} : cycles' = cycles + (m - 1) * EE_PER_IOP
                                 /\ (m > 1 => iop_at' = cycles')
      BY <1>5 DEF ChainStep
    <2>2. CASE m = 1
      <3>1. cycles' = cycles
        BY <1>0, <2>1, <2>2
      <3> QED
        BY <1>2, <3>1
    <2>3. CASE m > 1
      <3>1. (m - 1) * EE_PER_IOP \in Nat
        <4>1. \A a, b \in Nat : a * b \in Nat
          OBVIOUS
        <4> QED
          BY <1>0, <4>1, m - 1 \in Nat
      <3>2. iop_at' = cycles' /\ cycles' \in Nat
        BY <1>0, <2>1, <2>3, <3>1
      <3>3. c < cycles'
        BY <1>0, <3>2, PassedBehind
      <3> QED
        BY <3>2, <3>3
    <2> QED
      BY <2>2, <2>3
  <1>6. CASE OneStep
    <2>1. c = cycles
      BY <1>6, OneCyclePasses DEF OneStep, IInv, RoomInv, TypeOK
    <2>2. pc \in {"end", "idleend"}
      BY <1>6 DEF OneStep, EndCycle, IdleGroupEnd
    <2> QED
      BY <2>1, <2>2 DEF IInv, Turns
  <1>7. CASE GroupStep
    <2>1. pc \in {"iopend", "idleend"}
      BY <1>7 DEF GroupStep, IopGroupEnd, IdleGroupEnd
    <2>2. c = cycles
      BY <1>7, <2>1, GroupPasses DEF GroupStep, IInv, InBatch
    <2> QED
      BY <2>1, <2>2 DEF IInv, Turns
  <1> QED
    BY <1>2, <1>3, <1>4, <1>5, <1>6, <1>7, ClockSteps DEF IInv

LEMMA EveryEeKept ==
    ASSUME UseOK, IInv, Next
    PROVE  EeKept
  <1>0. cycles \in Nat /\ ee_at \in Nat /\ EE_PER_IOP \in Nat /\ EE_PER_IOP > 0
    BY ClockAssumption DEF IInv, RoomInv, TypeOK, ClockOK, HistOK, Cycle
  <1> SUFFICES ASSUME NEW c \in Passed PROVE c < ee_at' \/ ee_idle \/ ee_spinning
    BY DEF EeKept
  <1>a. ASSUME ee_at' = ee_at, cycles' =< ee_at, cycles' \in Int PROVE c < ee_at'
    <2>1. c \in Nat /\ c < cycles'
      BY <1>0, <1>a, PassedBehind
    <2> QED
      BY <1>0, <1>a, <2>1
  <1>1. CASE cycles' = cycles
    BY <1>0, <1>1 DEF Passed
  <1>2. CASE JumpStep
    BY <1>0, <1>a, <1>2 DEF JumpStep
  <1>3. CASE TailStep
    BY <1>0, <1>a, <1>3 DEF TailStep
  <1>4. CASE ChainStep
    <2>1. PICK m \in Nat \ {0} : cycles' = cycles + (m - 1) * EE_PER_IOP
      BY <1>4 DEF ChainStep
    <2>2. (m - 1) * EE_PER_IOP \in Nat
      <3>1. \A a, b \in Nat : a * b \in Nat
        OBVIOUS
      <3> QED
        BY <1>0, <3>1, m - 1 \in Nat
    <2>3. cycles' \in Int
      BY <1>0, <2>1, <2>2
    <2>4. pc \in {"iopgroups", "idlegroups"}
      BY <1>4 DEF ChainStep, GroupChain
    <2>5. CASE pc = "iopgroups"
      BY <1>a, <1>4, <2>3, <2>5 DEF ChainStep
    <2>6. CASE pc = "idlegroups"
      BY <2>6 DEF IInv, EeAhead
    <2> QED
      BY <2>4, <2>5, <2>6
  <1>5. CASE OneStep
    <2>1. c = cycles
      BY <1>5, OneCyclePasses DEF OneStep, IInv, RoomInv, TypeOK
    <2>2. CASE EndCycle
      BY <2>1, <2>2 DEF EndCycle, IInv, EeAhead
    <2>3. CASE IdleGroupEnd
      BY <2>3 DEF IdleGroupEnd, IInv, EeAhead
    <2> QED
      BY <1>5, <2>2, <2>3 DEF OneStep
  <1>6. CASE GroupStep
    <2>1. CASE IdleGroupEnd
      BY <2>1 DEF IdleGroupEnd, IInv, EeAhead
    <2>2. CASE IopGroupEnd
      BY <1>0, <1>a, <1>6, <2>2 DEF GroupStep
    <2> QED
      BY <1>6, <2>1, <2>2 DEF GroupStep
  <1> QED
    BY <1>1, <1>2, <1>3, <1>4, <1>5, <1>6, ClockSteps DEF IInv

\* Behind a recompiled chain, a jump and a batch of groups no IOP slot and no
\* cycle of the EE is lost: run and advance of lib.rs give both cores what one
\* cycle at a time would have given them.
THEOREM SchedulerCoreCadence == Spec => CoreCadence
  <1>1. UseOK /\ IInv /\ [Next]_vars => [SlotsKept /\ EeKept]_vars
    BY EverySlotKept, EveryEeKept
  <1> QED
    BY <1>1, SchedulerIInv, UseStays, PTL DEF Spec, CoreCadence

\* The grid cycle to_timer leads to is the first one at or after m.
LEMMA GridIsFirst ==
    ASSUME NEW m \in Nat, NEW c \in Nat, OnGrid(c), m =< c
    PROVE  ToGrid(m) =< c
  <1> DEFINE T == TIMER_TICK_CYCLES
             q == c \div T
             j == (m + T - 1) \div T
  <1>0. T \in Nat /\ T > 0
    BY ClockAssumption
  <1>1. c = q * T /\ q \in Nat
    <2>1. c = ((c \div T) * T) + (c % T)
      BY <1>0, ModSplit
    <2>2. c % T = 0
      BY DEF OnGrid
    <2> QED
      BY <1>0, <2>1, <2>2, DivBound
  <1>2. j \in Nat /\ j * T =< (m + T) - 1
    <2>1. (m + T) - 1 \in Nat
      BY <1>0
    <2> QED
      BY <1>0, <2>1, DivBound
  <1>3. ToGrid(m) = j * T
    BY DEF ToGrid
  <1> HIDE DEF j, q, T
  <1>4. CASE j =< q
    <2>1. j * T =< q * T
      BY <1>0, <1>1, <1>2, <1>4, MulMono
    <2> QED
      BY <1>1, <1>3, <2>1
  <1>5. CASE j > q
    <2> DEFINE jT == j * T
               qT == q * T
    <2>1. (q + 1) * T =< j * T
      BY <1>0, <1>1, <1>2, <1>5, MulMono, q + 1 \in Nat, q + 1 =< j
    <2>2. (q + 1) * T = qT + T
      BY <1>0, <1>1
    <2>3. jT \in Nat /\ qT \in Nat /\ qT + T =< jT /\ jT =< (m + T) - 1 /\ c = qT
      <3>1. \A a, b \in Nat : a * b \in Nat
        OBVIOUS
      <3> QED
        BY <1>0, <1>1, <1>2, <2>1, <2>2, <3>1
    <2> HIDE DEF jT, qT
    <2> QED
      BY <1>0, <2>3
  <1> QED
    BY <1>1, <1>2, <1>4, <1>5

\* No tick is due on the way to the timer.
LEMMA NoTickBefore ==
    ASSUME ClockOK, LinesOK, NEW c \in Nat, cycles =< c, c < cycles + to_timer,
           OnGrid(c), c >= timers_due
    PROVE  FALSE
  <1> DEFINE m == Greatest(timers_due, cycles)
  <1>1. m \in Nat /\ m =< c
    BY DEF Greatest, ClockOK, LinesOK, Cycle
  <1>2. ToGrid(m) =< c
    BY <1>1, GridIsFirst
  <1>3. to_timer = ToGrid(m) - cycles /\ to_timer \in Nat /\ cycles \in Nat
    BY TimerFacts DEF to_timer, ClockOK, Cycle
  <1>4. ToGrid(m) \in Int
    <2>1. TIMER_TICK_CYCLES \in Nat \ {0} /\ m \in Nat
      BY <1>1, ClockAssumption
    <2> QED
      BY <2>1, GridBound DEF ToGrid
  <1> HIDE DEF m
  <1> QED
    BY <1>2, <1>3, <1>4

\* A chain of run_idle_ee_groups ends in front of the tick and of the cycle
\* the INTC line delivers at.
LEMMA IdleChainBound ==
    ASSUME UseOK, ClockOK, LinesOK, left \in Nat, pc = "idlegroups",
           NEW m \in Nat \ {0}, m =< IopBudget
    PROVE  /\ (m - 1) * EE_PER_IOP \in Nat
           /\ (m - 1) * EE_PER_IOP =< to_timer
           /\ intc_ready_at # NoCycle /\ (m - 1) * EE_PER_IOP > 0
                => cycles + (m - 1) * EE_PER_IOP =< intc_ready_at
  <1> DEFINE E == EE_PER_IOP
             mE == (m - 1) * E
  <1>0. E \in Nat \ {0} /\ to_timer \in Nat /\ m - 1 \in Nat /\ cycles \in Nat
    BY ClockAssumption, TimerFacts DEF ClockOK, Cycle
  <1>1. \A d \in Nat : m - 1 =< d \div E => mE =< d
    <2> SUFFICES ASSUME NEW d \in Nat, m - 1 =< d \div E PROVE mE =< d
      OBVIOUS
    <2>1. d \div E \in Nat /\ (d \div E) * E =< d
      BY <1>0, DivBound
    <2>2. mE =< (d \div E) * E
      BY <1>0, <2>1, MulMono
    <2> DEFINE dE == (d \div E) * E
    <2>3. dE \in Int /\ mE \in Int
      BY <1>0, <2>1
    <2> HIDE DEF dE, mE
    <2>4. dE =< d /\ mE =< dE
      BY <2>1, <2>2 DEF dE
    <2> QED
      BY <2>3, <2>4
  <1>2. mE \in Nat
    <2>1. \A a, b \in Nat : a * b \in Nat
      OBVIOUS
    <2> QED
      BY <1>0, <2>1
  <1>3. to_timer \div E \in Nat /\ m =< (to_timer \div E) + 1
        /\ (intc_ready_at # NoCycle =>
              /\ Greatest(0, intc_ready_at - cycles) \in Nat
              /\ Greatest(0, intc_ready_at - cycles) \div E \in Nat
              /\ m =< (Greatest(0, intc_ready_at - cycles) \div E) + 1)
    <2>1. to_timer \div E \in Nat
      BY <1>0, DivBound
    <2>2. /\ Greatest(0, intc_ready_at - cycles) \in Nat
          /\ Greatest(0, intc_ready_at - cycles) \div E \in Nat
      <3>1. intc_ready_at \in Int
        BY DEF LinesOK, Cycle, NoCycle
      <3>2. Greatest(0, intc_ready_at - cycles) \in Nat
        BY <1>0, <3>1 DEF Greatest
      <3> QED
        BY <1>0, <3>2, DivBound
    <2>3. /\ tick_cap = (to_timer \div E) + 1
          /\ ee_wake_cap = IF intc_ready_at = NoCycle THEN MaxCycles + MAX_TICK_GAP
                           ELSE (Greatest(0, intc_ready_at - cycles) \div E) + 1
      BY DEF tick_cap, ee_wake_cap
    <2>4. MaxCycles + MAX_TICK_GAP \in Nat
      BY UseFacts, ClockAssumption
    <2>5. tick_cap \in Nat /\ ee_wake_cap \in Nat
      <3> DEFINE a == to_timer \div E
                 b == Greatest(0, intc_ready_at - cycles) \div E
      <3>1. a \in Nat /\ b \in Nat
        BY <2>1, <2>2
      <3>2. tick_cap = a + 1 /\ ee_wake_cap \in {MaxCycles + MAX_TICK_GAP, b + 1}
        BY <2>3
      <3> HIDE DEF a, b
      <3> QED
        BY <2>4, <3>1, <3>2
    <2>6. IopBudget = Least(left, Least(ee_wake_cap, tick_cap))
      BY DEF IopBudget
    <2>7. m =< tick_cap /\ m =< ee_wake_cap
      BY <2>5, <2>6 DEF Least
    <2> QED
      BY <2>1, <2>2, <2>3, <2>7
  <1>4. mE =< to_timer
    <2> DEFINE a == to_timer \div E
    <2>1. m - 1 =< a
      <3>1. a \in Nat /\ m =< a + 1
        BY <1>3
      <3> HIDE DEF a
      <3> QED
        BY <3>1
    <2> QED
      BY <1>0, <1>1, <2>1
  <1>5. ASSUME intc_ready_at # NoCycle, mE > 0
        PROVE  cycles + mE =< intc_ready_at
    <2> DEFINE g == Greatest(0, intc_ready_at - cycles)
               b == g \div E
    <2>1. m - 1 =< b /\ g \in Nat
      <3>1. b \in Nat /\ m =< b + 1 /\ g \in Nat
        BY <1>3, <1>5
      <3> HIDE DEF b, g
      <3> QED
        BY <3>1
    <2>2. mE =< g
      BY <1>1, <2>1
    <2>3. intc_ready_at \in Int /\ (g = 0 \/ g = intc_ready_at - cycles)
      BY DEF LinesOK, Cycle, NoCycle, Greatest
    <2> HIDE DEF g, b, mE
    <2> QED
      BY <1>0, <1>2, <1>5, <2>1, <2>2, <2>3
  <1> QED
    BY <1>2, <1>4, <1>5

\* Control is between two cycles here: nothing has been given to the next.
Fresh == pc \in {"host", "loop", "ee", "grouptail", "eetail", "advance", "advancetail",
                 "advancerest", "iopgroups", "idlegroups"} => did = {}

LEMMA FreshHolds == Spec => []Fresh
  <1>1. Init => Fresh
    BY DEF Init, Fresh
  <1>2. RoomInv /\ Fresh /\ [Next]_vars => Fresh'
    <2> SUFFICES ASSUME RoomInv, Fresh, [Next]_vars PROVE Fresh'
      OBVIOUS
    <2>1. CASE UNCHANGED vars
      BY <2>1 DEF Fresh, vars, hist
    <2>2. CASE Host
      BY <2>2 DEF Host, HostStep, HostRun, HostFrame, StartRun, Finished, Call, vars,
                  hist, Fresh
    <2>3. CASE OneCycle
      BY <2>3 DEF OneCycle, EeStep, IopSlot, TimerSlot, VblankSlot, EndCycle, Goto, Pass, Fresh
    <2>4. CASE Run
      BY <2>4 DEF Run, RunReturn, DropSpin, RunChain, RunJump, RunSingle, RunQuietGroups, Iterate,
                  RunGroup, GroupTail, EeGroupTail, Call, Pass, hist, Fresh
    <2>5. CASE Advance
      BY <2>5 DEF Advance, AdvanceReturn, AdvanceJump, AdvanceSingle, AdvanceQuietGroups,
                  AdvanceGroup, AdvanceTail, AdvanceRest, Call, Pass, hist, Fresh
    <2>6. CASE Groups
      BY <2>6 DEF Groups, GroupChain, GroupSlot, IopGroupEnd, IdleGroupTick, IdleGroupEnd,
                  GroupsDone, Goto, Skip, Pass, hist, Fresh
    <2> QED
      BY <2>1, <2>2, <2>3, <2>4, <2>5, <2>6 DEF Next
  <1> QED
    BY <1>1, <1>2, SchedulerRoom, PTL DEF Spec

\* Without the recompiler no cycle follows a chain.
Chained == {"advance", "advancetail", "advancerest", "iopgroups", "iopslot", "iopend"}
Interpreted == ~Jit /\ pc \notin Chained /\ cont \notin Chained

LEMMA NoChains ==
    ASSUME \A u \in DOMAIN Uses : ~Uses[u].jit
    PROVE  Spec => []Interpreted
  <1>1. Init => Interpreted
    BY DEF Init, Chained, Interpreted, Jit
  <1>2. Interpreted /\ [Next]_vars => Interpreted'
    <2> SUFFICES ASSUME Interpreted, [Next]_vars PROVE Interpreted'
      OBVIOUS
    <2>0. ~Jit'
      BY DEF Interpreted, Jit, Next, vars
    <2>1. CASE UNCHANGED vars
      BY <2>0, <2>1 DEF Interpreted, vars
    <2>2. CASE Host
      BY <2>0, <2>2 DEF Host, HostStep, HostRun, HostFrame, StartRun, Finished, Call, vars,
                  Chained, Interpreted
    <2>3. CASE OneCycle
      <3>1. cont' = cont /\ (pc' = cont \/ pc' \in {"iop", "timer", "edge", "end"})
        BY <2>3 DEF OneCycle, EeStep, IopSlot, TimerSlot, VblankSlot, EndCycle, Goto
      <3> QED
        BY <2>0, <3>1 DEF Chained, Interpreted
    <2>4. CASE Run
      BY <2>0, <2>4 DEF Run, RunReturn, DropSpin, RunChain, RunJump, RunSingle, RunQuietGroups,
                  RunGroup, GroupTail, EeGroupTail, Call, UsesChain, Chained, Interpreted
    <2>5. ~Advance
      BY DEF Advance, AdvanceReturn, AdvanceJump, AdvanceSingle, AdvanceQuietGroups,
             AdvanceGroup, AdvanceTail, AdvanceRest, Chained, Interpreted
    <2>6. CASE Groups
      BY <2>0, <2>6 DEF Groups, GroupChain, GroupSlot, IopGroupEnd, IdleGroupTick, IdleGroupEnd,
                  GroupsDone, Goto, Chained, Interpreted
    <2> QED
      BY <2>1, <2>2, <2>3, <2>4, <2>5, <2>6 DEF Next
  <1> QED
    BY <1>1, <1>2, PTL DEF Spec

LEMMA EveryTickKept ==
    ASSUME UseOK, IInv, Next, pc \notin Chained
    PROVE  TickKept
  <1>0. /\ ClockOK /\ LinesOK /\ cycles \in Nat /\ timers_due \in Nat /\ left \in Nat
        /\ EE_PER_IOP \in Nat /\ EE_PER_IOP > 0
    BY ClockAssumption DEF IInv, RoomInv, TypeOK, ClockOK, LinesOK, LoopOK, Cycle
  <1>1. CASE cycles' = cycles
    BY <1>0, <1>1 DEF Passed, TickKept
  <1>2. CASE JumpStep
    <2>1. PICK k \in Nat : RunJump /\ cycles' = cycles + k /\ k =< to_timer
      BY <1>2 DEF JumpStep, AdvanceJump, Chained
    <2>2. timers_due' = timers_due
      BY <2>1 DEF RunJump, Machine, lines
    <2> SUFFICES ASSUME NEW c \in Passed, OnGrid(c), c >= timers_due PROVE FALSE
      BY <2>2 DEF TickKept
    <2>3. c \in Nat /\ c >= cycles /\ c < cycles + k
      BY <1>0, <2>1, PassedBehind
    <2>4. to_timer \in Nat
      BY <1>0, TimerFacts
    <2>5. c < cycles + to_timer
      BY <1>0, <2>1, <2>3, <2>4
    <2> QED
      BY <1>0, <2>3, <2>5, NoTickBefore
  <1>3. CASE TailStep
    <2>1. pc \in {"grouptail", "advancetail"}
      BY <1>3 DEF TailStep, GroupTail, AdvanceTail
    <2>2. \A c \in Passed : c \in Nat /\ ~OnSlot(c)
      BY <1>0, <1>3, <2>1, TailPasses, PassedBehind DEF TailStep, IInv
    <2> QED
      BY <2>2, GridIsSlot DEF TickKept
  <1>4. CASE ChainStep
    <2>1. PICK m \in Nat \ {0} : /\ GroupChain /\ m =< IopBudget
                                 /\ cycles' = cycles + (m - 1) * EE_PER_IOP
      BY <1>4 DEF ChainStep
    <2>2. pc = "idlegroups" /\ timers_due' = timers_due
      BY <2>1 DEF GroupChain, Chained, Machine, lines
    <2> DEFINE k == (m - 1) * EE_PER_IOP
    <2>3. k \in Nat /\ k =< to_timer /\ cycles' = cycles + k
      BY <1>0, <2>1, <2>2, IdleChainBound
    <2> HIDE DEF k
    <2> SUFFICES ASSUME NEW c \in Passed, OnGrid(c), c >= timers_due PROVE FALSE
      BY <2>2 DEF TickKept
    <2>4. c \in Nat /\ c >= cycles /\ c < cycles + k
      BY <1>0, <2>3, PassedBehind
    <2>5. to_timer \in Nat
      BY <1>0, TimerFacts
    <2>6. c < cycles + to_timer
      BY <1>0, <2>3, <2>4, <2>5
    <2> QED
      BY <1>0, <2>4, <2>6, NoTickBefore
  <1>5. CASE OneStep
    <2>1. Passed = {cycles}
      BY <1>0, <1>5, OneCyclePasses DEF OneStep
    <2>2. pc \in {"end", "idleend"} /\ timers_due' = timers_due
      BY <1>5 DEF OneStep, EndCycle, IdleGroupEnd, lines
    <2> QED
      BY <2>1, <2>2 DEF IInv, Turns, TickKept
  <1>6. CASE GroupStep
    <2>1. pc = "idleend" /\ timers_due' = timers_due
      BY <1>6 DEF GroupStep, IopGroupEnd, IdleGroupEnd, lines, Chained
    <2>2. \A c \in Passed : c \in Nat /\ (OnSlot(c) => c = cycles)
      BY <1>0, <1>6, <2>1, GroupPasses, PassedBehind DEF GroupStep, IInv, InBatch
    <2>3. \A c \in Passed : OnGrid(c) => c = cycles
      BY <2>2, GridIsSlot
    <2> QED
      BY <2>1, <2>3 DEF IInv, Turns, TickKept
  <1> QED
    BY <1>1, <1>2, <1>3, <1>4, <1>5, <1>6, ClockSteps DEF IInv

\* Behind the first cycle of a group the position is not that of the frame.
LEMMA EveryEdgeKept ==
    ASSUME UseOK, IInv, Next, ~iop_idle, frame_pos < frame_cycles
    PROVE  EdgeKept
  <1>0. /\ ClockOK /\ LinesOK /\ cycles \in Nat /\ frame_pos \in Nat /\ left \in Nat
        /\ EE_PER_IOP \in Nat /\ EE_PER_IOP > 0
        /\ vblank_start \in Nat /\ 0 < vblank_start
    BY ClockAssumption, FrameFacts
       DEF IInv, RoomInv, TypeOK, ClockOK, LinesOK, LoopOK, Cycle
  <1> SUFFICES ASSUME cycles' # cycles PROVE EdgeKept
    BY DEF EdgeKept
  <1>2. ~JumpStep
    BY DEF JumpStep, Sleeps
  <1>3. CASE TailStep
    <2>1. pc \in {"grouptail", "advancetail"} /\ NoEdgeInTail
      BY <1>3 DEF TailStep, GroupTail, AdvanceTail
    <2>2. frame_pos # vblank_start
      BY <1>0, <2>1 DEF NoEdgeInTail
    <2>3. ASSUME frame_pos = 0 PROVE FALSE
      <3>1. cycles > 0 /\ OnSlot(cycles - 1)
        BY <2>1 DEF IInv, GroupPhase
      <3>2. EE_PER_IOP > 1
        BY <1>0, <1>3 DEF TailStep
      <3>3. ~OnSlot((cycles - 1) + 1)
        BY <1>0, <3>1, <3>2, SlotGap, cycles - 1 \in Nat, 1 \in Nat
      <3>4. OnSlot(cycles)
        BY <1>0, <2>3, cycles - 0 = cycles DEF IInv, Aligned, OnSlot
      <3> QED
        BY <1>0, <3>3, <3>4, (cycles - 1) + 1 = cycles
    <2> QED
      BY <2>2, <2>3 DEF EdgeKept
  <1>4. CASE ChainStep
    BY <1>0, <1>4 DEF ChainStep, GroupChain, IInv, BatchOffEdge, OffEdge, EdgeKept
  <1>5. CASE OneStep \/ GroupStep
    <2>1. CASE EndCycle
      BY <2>1 DEF EndCycle, IInv, Turns, EdgeKept
    <2>2. CASE IdleGroupEnd \/ IopGroupEnd
      BY <2>2 DEF IdleGroupEnd, IopGroupEnd, IInv, BatchOffEdge, OffEdge, EdgeKept
    <2> QED
      BY <1>5, <2>1, <2>2 DEF OneStep, GroupStep
  <1> QED
    BY <1>2, <1>3, <1>4, <1>5, ClockSteps DEF IInv

\* Under the interpreter every jump and every batch gives the machine what
\* step() would have given it cycle by cycle: the turns of both cores, every
\* tick that was due and, while the IOP is awake, both edges of the frame.
THEOREM SchedulerCadences ==
    ASSUME \A u \in DOMAIN Uses : ~Uses[u].jit
    PROVE  Spec => Cadences
  <1>1. UseOK /\ IInv /\ Interpreted /\ [Next]_vars
          => [SlotsKept /\ EeKept /\ TickKept /\ (~iop_idle /\ ~iop_idle' => EdgeKept)]_vars
    <2> SUFFICES ASSUME UseOK, IInv, Interpreted, Next
                 PROVE  SlotsKept /\ EeKept /\ TickKept
                          /\ (~iop_idle /\ ~iop_idle' => EdgeKept)
      OBVIOUS
    <2>1. SlotsKept /\ EeKept
      BY EverySlotKept, EveryEeKept
    <2>2. TickKept
      BY EveryTickKept DEF Interpreted
    <2>3. ~iop_idle => EdgeKept
      BY EveryEdgeKept DEF EdgeKept
    <2> QED
      BY <2>1, <2>2, <2>3
  <1> QED
    BY <1>1, SchedulerIInv, NoChains, UseStays, PTL DEF Spec, Cadences

\* An EE that sleeps while the IOP is awake is woken in time.
LEMMA WakesOnTime ==
    ASSUME UseOK, IInv, Fresh, Next, ~iop_idle, ~ee_spinning, ee_idle', ~ee_masked',
           NEW c \in Passed, OnSlot(c)
    PROVE  /\ ~(intc_ready_at' # NoCycle /\ c >= intc_ready_at')
           /\ ~(int1' /\ "iop" \in did)
  <1>0. /\ ClockOK /\ LinesOK /\ cycles \in Nat /\ left \in Nat
        /\ EE_PER_IOP \in Nat /\ EE_PER_IOP > 0
    BY ClockAssumption DEF IInv, RoomInv, TypeOK, ClockOK, LinesOK, LoopOK, Cycle
  <1>1. cycles' # cycles
    BY <1>0 DEF Passed
  <1>2. ~JumpStep
    BY DEF JumpStep, Sleeps
  <1>3. ~TailStep
    <2>1. TailStep => pc \in {"grouptail", "advancetail"}
      BY DEF TailStep, GroupTail, AdvanceTail
    <2> QED
      BY <2>1, TailPasses DEF TailStep, IInv
  <1>a. ASSUME ~ee_interrupt_pending(cycles), UNCHANGED <<lines, ee_masked>>, c = cycles
        PROVE  /\ ~(intc_ready_at' # NoCycle /\ c >= intc_ready_at') /\ ~int1'
    BY <1>a DEF ee_interrupt_pending, Deliverable, lines, intc
  <1>4. CASE ChainStep
    <2>1. PICK m \in Nat \ {0} : /\ GroupChain /\ m =< IopBudget
                                 /\ cycles' = cycles + (m - 1) * EE_PER_IOP
      BY <1>4 DEF ChainStep
    <2>2. /\ ee_idle' = ee_idle /\ intc_ready_at' = intc_ready_at
          /\ pc \in {"iopgroups", "idlegroups"}
      BY <2>1 DEF GroupChain, Machine, ee, lines, intc
    <2>3. pc = "idlegroups" /\ did = {}
      BY <2>2 DEF IInv, EeAhead, Fresh
    <2> DEFINE k == (m - 1) * EE_PER_IOP
    <2>4. k \in Nat /\ cycles' = cycles + k
          /\ (intc_ready_at # NoCycle /\ k > 0 => cycles + k =< intc_ready_at)
      BY <1>0, <2>1, <2>3, IdleChainBound
    <2> HIDE DEF k
    <2>5. c \in Nat /\ c >= cycles /\ c < cycles + k
      BY <1>0, <2>4, PassedBehind
    <2>6. intc_ready_at \in Int
      BY <1>0 DEF LinesOK, Cycle, NoCycle
    <2> QED
      BY <1>0, <2>2, <2>3, <2>4, <2>5, <2>6
  <1>5. CASE OneStep
    <2>1. c = cycles
      BY <1>0, <1>5, OneCyclePasses DEF OneStep
    <2>2. CASE EndCycle
      <3>1. did # {}
        BY <2>1, <2>2 DEF EndCycle, IInv, Turns
      <3>2. ~ee_interrupt_pending(cycles) /\ UNCHANGED <<lines, ee_masked>>
        BY <2>2, <3>1 DEF EndCycle
      <3> QED
        BY <1>a, <2>1, <3>2
    <2>3. CASE IdleGroupEnd
      <3>1. ~ee_interrupt_pending(cycles) /\ UNCHANGED <<lines, ee_masked>>
        BY <2>3 DEF IdleGroupEnd
      <3> QED
        BY <1>a, <2>1, <3>1
    <2> QED
      BY <1>5, <2>2, <2>3 DEF OneStep
  <1>6. CASE GroupStep
    <2>1. CASE IopGroupEnd
      BY <2>1 DEF IopGroupEnd, Machine, ee, IInv, EeAhead
    <2>2. CASE IdleGroupEnd
      <3>1. ~ee_interrupt_pending(cycles) /\ UNCHANGED <<lines, ee_masked>>
        BY <2>2 DEF IdleGroupEnd
      <3>2. c = cycles
        BY <1>6, <2>2, GroupPasses DEF IdleGroupEnd, GroupStep, IInv, InBatch
      <3> QED
        BY <1>a, <3>1, <3>2
    <2> QED
      BY <1>6, <2>1, <2>2 DEF GroupStep
  <1> QED
    BY <1>1, <1>2, <1>3, <1>4, <1>5, <1>6, ClockSteps DEF IInv

\* While the IOP is awake a sleeping EE that is not taken for polling misses
\* no interrupt: run_idle_ee_groups and the end of every cycle look.
THEOREM SchedulerWakeOnTime == Spec => WakeOnTime
  <1>1. UseOK /\ IInv /\ Fresh /\ [Next]_vars
          => [~iop_idle /\ ~iop_idle' /\ ~ee_spinning =>
               \A c \in Passed : OnSlot(c) /\ ee_idle' /\ ~ee_masked' =>
                  /\ ~(intc_ready_at' # NoCycle /\ c >= intc_ready_at')
                  /\ ~(int1' /\ "iop" \in did)]_vars
    BY WakesOnTime
  <1> QED
    BY <1>1, SchedulerIInv, FreshHolds, UseStays, PTL DEF Spec, WakeOnTime

(***************************************************************************)
(* A slice to the next vertical blank.                                     *)
(***************************************************************************)
\* What is left of the slice covers what control has committed to.
TargetRoom ==
    /\ InCycle /\ cont = "loop" => cycles < target
    /\ InCycle /\ cont = "grouptail" => cycles + EE_PER_IOP =< target
    /\ pc = "grouptail" => cycles + (EE_PER_IOP - 1) =< target
    /\ InCycle /\ cont = "eetail" => cycles + left + 1 =< target
    /\ pc = "eetail" => cycles + left =< target
    /\ pc = "idlegroups" => cycles + left * EE_PER_IOP =< target
    /\ pc \in {"idleslot", "idletick", "idleend"} =>
          cycles + (left * EE_PER_IOP + EE_PER_IOP) =< target

\* The slice is in front of its start edge, in the cycle of the edge behind
\* the edge itself, or over.
BeforeEdge == /\ starts = 0 /\ target = cycles + cycles_to_next_vblank
              /\ pc = "end" => frame_pos # vblank_start
OnEdge     == /\ starts = 1 /\ pc = "end"
              /\ frame_pos = vblank_start /\ target = cycles + 1
PastEdge   == starts = 1 /\ target = cycles /\ frame_pos = Wrap(vblank_start + 1)

SliceInv ==
    frame_slice =>
       /\ "frame" \in HostOps
       /\ InCycle => cont # "host" /\ frame_pos < frame_cycles
       /\ pc = "host" => starts = 1 /\ frame_pos = Wrap(vblank_start + 1)
       /\ pc # "host" => BeforeEdge \/ OnEdge \/ PastEdge

LEMMA TargetRoomStep ==
    ASSUME UseOK, RoomInv, Interpreted, TargetRoom, Next
    PROVE  TargetRoom'
  <1>0. /\ TypeOK /\ ClockOK /\ LinesOK
        /\ cycles \in Nat /\ target \in Nat /\ left \in Nat
        /\ pc \in Labels /\ cont \in Returns
        /\ EE_PER_IOP \in Nat /\ EE_PER_IOP > 0
    BY ClockAssumption DEF RoomInv, TypeOK, ClockOK, LoopOK, Cycle
  <1>1. CASE Host
    BY <1>0, <1>1 DEF Host, HostStep, HostRun, HostFrame, StartRun, Call, Finished, vars,
                      clock, loop, TargetRoom, InCycle
  <1>2. CASE EeStep \/ IopSlot \/ TimerSlot \/ VblankSlot
    <2>1. /\ InCycle /\ InCycle' /\ UNCHANGED <<cycles, cont, target, left>>
          /\ pc' \in {"iop", "timer", "edge", "end"}
      BY <1>2 DEF EeStep, IopSlot, TimerSlot, VblankSlot, Goto, clock, loop, InCycle
    <2> QED
      BY <2>1 DEF TargetRoom
  <1>3. CASE EndCycle
    <2>1. /\ InCycle /\ cycles' = cycles + 1 /\ pc' = cont /\ UNCHANGED <<cont, target, left>>
      BY <1>3 DEF EndCycle, Pass, loop, InCycle
    <2> QED
      BY <1>0, <2>1 DEF TargetRoom, InCycle, Returns
  <1>4. CASE Run
    <2>1. CASE RunReturn \/ DropSpin
      BY <1>0, <2>1 DEF RunReturn, DropSpin, clock, loop, TargetRoom, InCycle
    <2>2. CASE RunJump
      <3> DEFINE k == next_event_in(target - cycles - 1)
      <3>1. target - cycles - 1 \in Nat
        BY <1>0, <2>2 DEF RunJump, Iterate
      <3>2. k \in Nat /\ k =< target - cycles - 1
        BY <1>0, <3>1, NextEventBound
      <3>3. cycles' = cycles + k /\ target' = target /\ pc' = "ee" /\ cont' = "loop"
        BY <2>2 DEF RunJump, Pass, Call, loop
      <3> HIDE DEF k
      <3>4. cycles' < target
        BY <1>0, <3>2, <3>3
      <3> QED
        BY <3>3, <3>4 DEF TargetRoom, InCycle
    <2>3. CASE RunSingle \/ RunGroup
      BY <1>0, <2>3 DEF RunSingle, RunGroup, Ungrouped, Iterate, Call, clock, loop, TargetRoom, InCycle
    <2>4. CASE RunQuietGroups
      <3> DEFINE l == (target - cycles) \div EE_PER_IOP
      <3>1. target - cycles \in Nat
        BY <1>0, <2>4 DEF RunQuietGroups, Iterate
      <3>2. l \in Nat /\ l * EE_PER_IOP =< target - cycles
        BY <1>0, <3>1, DivBound
      <3>3. QuietGroups \in Nat /\ QuietGroups =< l
        BY <1>0, <3>2, QuietGroupsBound DEF QuietGroups
      <3>4. QuietGroups * EE_PER_IOP =< l * EE_PER_IOP
        BY <1>0, <3>2, <3>3, MulMono
      <3>5. left' = QuietGroups /\ cycles' = cycles /\ target' = target /\ pc' = "idlegroups"
        BY <2>4 DEF RunQuietGroups, clock
      <3> DEFINE a == QuietGroups * EE_PER_IOP
                 b == l * EE_PER_IOP
      <3>6. a \in Nat /\ b \in Nat
        <4>1. \A x, y \in Nat : x * y \in Nat
          OBVIOUS
        <4> QED
          BY <1>0, <3>2, <3>3, <4>1
      <3>7. a =< b /\ b =< target - cycles
        BY <3>2, <3>4
      <3> HIDE DEF a, b
      <3>8. cycles + a =< target
        BY <1>0, <3>6, <3>7
      <3> QED
        BY <3>5, <3>8 DEF TargetRoom, InCycle, a
    <2>5. CASE GroupTail
      BY <1>0, <2>5 DEF GroupTail, Pass, clock, TargetRoom, InCycle
    <2>6. CASE EeGroupTail
      BY <1>0, <2>6 DEF EeGroupTail, Call, clock, TargetRoom, InCycle
    <2>7. ~RunChain
      BY DEF RunChain, UsesChain, Interpreted
    <2> QED
      BY <1>4, <2>1, <2>2, <2>3, <2>4, <2>5, <2>6, <2>7 DEF Run
  <1>5. ~Advance /\ ~IopGroupEnd
    BY DEF Advance, AdvanceReturn, AdvanceJump, AdvanceSingle, AdvanceQuietGroups,
           AdvanceGroup, AdvanceTail, AdvanceRest, IopGroupEnd, Interpreted, Chained
  <1>6. CASE Groups
    <2>1. CASE GroupChain
      <3>1. PICK m \in 1 .. (IF IopAsleep \/ iop_irq THEN 1 ELSE IopBudget) :
                 Skip((m - 1) * EE_PER_IOP) /\ left' = left - m
        BY <2>1 DEF GroupChain
      <3>2. m \in 1 .. left
        <4>1. left' \in Nat
          BY <1>0, <2>1, GroupChainRoom DEF RoomInv
        <4>2. m \in Int /\ m >= 1
          BY <3>1
        <4> QED
          BY <1>0, <3>1, <4>1, <4>2
      <3> DEFINE j == (m - 1) * EE_PER_IOP
                 k == (left - m) * EE_PER_IOP + EE_PER_IOP
      <3>3. j \in Nat /\ k \in Nat /\ j + k = left * EE_PER_IOP
        BY <1>0, <3>2, GroupSplit
      <3>4. cycles' = cycles + j /\ target' = target /\ pc' = "idleslot" /\ pc = "idlegroups"
        BY <2>1, <3>1 DEF GroupChain, Skip, Interpreted, Chained
      <3>5. k = left' * EE_PER_IOP + EE_PER_IOP
        BY <3>1
      <3>6. cycles + (j + k) =< target
        BY <3>3, <3>4 DEF TargetRoom
      <3> HIDE DEF j, k
      <3>7. cycles' + k =< target
        BY <1>0, <3>3, <3>4, <3>6
      <3> QED
        BY <3>4, <3>5, <3>7 DEF TargetRoom, InCycle
    <2>2. CASE GroupSlot \/ IdleGroupTick
      BY <2>2 DEF GroupSlot, IdleGroupTick, Goto, clock, loop, TargetRoom, InCycle,
                  Interpreted, Chained
    <2>3. CASE IdleGroupEnd
      <3> DEFINE k == left * EE_PER_IOP
      <3>1. k \in Nat
        <4>1. \A x, y \in Nat : x * y \in Nat
          OBVIOUS
        <4> QED
          BY <1>0, <4>1
      <3>2. cycles + (k + EE_PER_IOP) =< target /\ target' = target
        BY <2>3 DEF IdleGroupEnd, TargetRoom
      <3>3. CASE pc' = "eetail"
        <4>1. cycles' = cycles + 1 /\ left' = EE_PER_IOP - 1
          BY <2>3, <3>3 DEF IdleGroupEnd, Pass, Skip
        <4> HIDE DEF k
        <4>2. cycles' + left' =< target
          BY <1>0, <3>1, <3>2, <4>1
        <4> QED
          BY <3>2, <3>3, <4>2 DEF TargetRoom, InCycle
      <3>4. CASE pc' = "idlegroups"
        <4>1. cycles' = cycles + EE_PER_IOP /\ left' = left
          BY <2>3, <3>4 DEF IdleGroupEnd, Pass, Skip
        <4>2. left' * EE_PER_IOP = k
          BY <4>1
        <4> HIDE DEF k
        <4>3. cycles' + k =< target
          BY <1>0, <3>1, <3>2, <4>1
        <4> QED
          BY <3>2, <3>4, <4>2, <4>3 DEF TargetRoom, InCycle
      <3> QED
        BY <2>3, <3>3, <3>4 DEF IdleGroupEnd
    <2>4. CASE GroupsDone
      BY <2>4 DEF GroupsDone, TargetRoom, InCycle
    <2> QED
      BY <1>5, <1>6, <2>1, <2>2, <2>3, <2>4 DEF Groups
  <1> QED
    BY <1>1, <1>2, <1>3, <1>4, <1>5, <1>6 DEF Next, OneCycle

\* A move that stays in front of the next edge, or ends at the end of the
\* frame, takes its length off the way to the cycle behind the start edge.
LEMMA PassAhead ==
    ASSUME ClockOK, region' = region, NEW k \in Nat,
           frame_pos =< vblank_start => frame_pos + k =< vblank_start,
           frame_pos > vblank_start => frame_pos + k =< frame_cycles,
           frame_pos' \in {frame_pos + k, Wrap(frame_pos + k)}
    PROVE  cycles_to_next_vblank' = cycles_to_next_vblank - k
  <1>1. /\ frame_cycles' = frame_cycles /\ vblank_start' = vblank_start
        /\ frame_cycles \in Nat /\ vblank_start \in Nat /\ frame_pos \in Nat
        /\ 0 < vblank_start /\ vblank_start < frame_cycles
    BY FrameFacts DEF frame_cycles, vblank_start, ClockOK
  <1> DEFINE fc == frame_cycles
             vs == vblank_start
  <1>2. cycles_to_next_vblank = IF frame_pos =< vs THEN vs - frame_pos + 1
                                ELSE fc - frame_pos + vs + 1
    BY DEF cycles_to_next_vblank
  <1>3. cycles_to_next_vblank' = IF frame_pos' =< vs THEN vs - frame_pos' + 1
                                 ELSE fc - frame_pos' + vs + 1
    BY <1>1 DEF cycles_to_next_vblank
  <1>4. frame_pos' = frame_pos + k
        \/ (frame_pos + k >= fc /\ frame_pos' = (frame_pos + k) - fc)
    BY <1>1 DEF Wrap
  <1>5. /\ fc \in Nat /\ vs \in Nat /\ 0 < vs /\ vs < fc /\ frame_pos \in Nat
        /\ frame_pos =< vs => frame_pos + k =< vs
        /\ frame_pos > vs => frame_pos + k =< fc
    BY <1>1
  <1> HIDE DEF fc, vs
  <1>6. ASSUME NEW p \in Nat, NEW q \in Int, NEW d \in Int, NEW e \in Int,
               p =< vs => p + k =< vs, p > vs => p + k =< fc,
               q = p + k \/ (p + k >= fc /\ q = (p + k) - fc),
               d = IF p =< vs THEN vs - p + 1 ELSE fc - p + vs + 1,
               e = IF q =< vs THEN vs - q + 1 ELSE fc - q + vs + 1
        PROVE  e = d - k
    BY <1>5, <1>6
  <1>7. frame_pos' \in Int
    BY <1>4, <1>5
  <1>8. cycles_to_next_vblank \in Int
    BY <1>2, <1>5
  <1>9. cycles_to_next_vblank' \in Int
    BY <1>3, <1>5, <1>7
  <1> QED
    BY <1>2, <1>3, <1>4, <1>5, <1>6, <1>7, <1>8, <1>9, Zenon

LEMMA SliceFacts ==
    ASSUME ClockOK, frame_pos =< frame_cycles
    PROVE  cycles_to_next_vblank \in Nat /\ cycles_to_next_vblank > 0
           /\ (cycles_to_next_vblank = 1 <=> frame_pos = vblank_start)
  BY FrameFacts DEF cycles_to_next_vblank, ClockOK

\* No instruction of a use with frame slices writes SMODE1.
FrameUses == \A u \in DOMAIN Uses :
                "frame" \in Uses[u].host => "region" \notin Uses[u].ee

LEMMA RegionKept ==
    ASSUME UseOK, FrameUses, Interpreted, Next, "frame" \in HostOps
    PROVE  region' = region /\ "frame" \in HostOps'
  <1>1. "region" \notin EeOps /\ UNCHANGED use
    BY DEF FrameUses, UseOK, HostOps, EeOps, Next
  <1>2. EeInstruction(cycles) => region' = region
    BY <1>1 DEF EeInstruction
  <1>3. ~RunChain /\ ~Advance
    BY DEF RunChain, UsesChain, Advance, AdvanceReturn, AdvanceJump, AdvanceSingle,
           AdvanceQuietGroups, AdvanceGroup, AdvanceTail, AdvanceRest, Interpreted, Chained
  <1>4. OneCycle => region' = region
    BY <1>2 DEF OneCycle, EeStep, IopSlot, TimerSlot, VblankSlot, EndCycle
  <1>5. Run => region' = region
    BY <1>3 DEF Run, RunReturn, DropSpin, RunJump, RunSingle, RunQuietGroups, RunGroup,
                GroupTail, EeGroupTail, Machine
  <1>6. Host \/ Groups => region' = region
    BY DEF Host, HostStep, HostRun, HostFrame, StartRun, Finished, vars, Machine,
           Groups, GroupChain, GroupSlot, IopGroupEnd, IdleGroupTick, IdleGroupEnd, GroupsDone
  <1> QED
    BY <1>1, <1>3, <1>4, <1>5, <1>6 DEF Next, HostOps

LEMMA SliceStep ==
    ASSUME UseOK, RoomInv, BatchOffEdge, Interpreted, FrameUses, TargetRoom, SliceInv, Next
    PROVE  SliceInv'
  <1>0. /\ TypeOK /\ ClockOK /\ LinesOK
        /\ cycles \in Nat /\ target \in Nat /\ left \in Nat /\ frame_pos \in Nat
        /\ frame_cycles \in Nat /\ vblank_start \in Nat
        /\ 0 < vblank_start /\ vblank_start < frame_cycles
        /\ pc \in Labels /\ cont \in Returns /\ starts \in Nat
        /\ EE_PER_IOP \in Nat /\ EE_PER_IOP > 0
    BY ClockAssumption, FrameFacts DEF RoomInv, TypeOK, ClockOK, LoopOK, HistOK, Cycle
  \* A step that starts no slice.
  <1>a. ASSUME frame_slice => region' = region /\ "frame" \in HostOps' PROVE
              frame_slice => /\ frame_cycles' = frame_cycles /\ vblank_start' = vblank_start
                             /\ Wrap(vblank_start + 1)' = Wrap(vblank_start + 1)
    BY <1>a DEF frame_cycles, vblank_start, Wrap
  <1>b. frame_slice => region' = region /\ "frame" \in HostOps'
    BY RegionKept DEF SliceInv
  <1>c. frame_slice => /\ frame_cycles' = frame_cycles /\ vblank_start' = vblank_start
                       /\ Wrap(vblank_start + 1)' = Wrap(vblank_start + 1)
    BY <1>a, <1>b
  \* A move of the clock in front of the edge.
  <1>d. ASSUME NEW k \in Nat, frame_slice, BeforeEdge, target' = target, starts' = starts,
               cycles' = cycles + k,
               frame_pos =< vblank_start => frame_pos + k =< vblank_start,
               frame_pos > vblank_start => frame_pos + k =< frame_cycles,
               frame_pos' \in {frame_pos + k, Wrap(frame_pos + k)}, pc' # "end"
        PROVE  BeforeEdge'
    <2>1. cycles_to_next_vblank' = cycles_to_next_vblank - k
      BY <1>0, <1>b, <1>d, PassAhead
    <2>2. cycles_to_next_vblank \in Int
      BY <1>0 DEF cycles_to_next_vblank
    <2> QED
      BY <1>0, <1>d, <2>1, <2>2 DEF BeforeEdge
  \* A step that leaves clock and slice alone.
  <1>e. ASSUME UNCHANGED <<clock, target, frame_slice, starts>>, pc # "host", pc # "end",
               pc' # "host", pc' # "end",
               InCycle' => InCycle \/ frame_pos < frame_cycles,
               InCycle' => cont' # "host" \/ (InCycle /\ cont' = cont)
        PROVE  SliceInv'
    <2> SUFFICES ASSUME frame_slice PROVE SliceInv'
      BY <1>e DEF SliceInv
    <2>1. cycles_to_next_vblank' = cycles_to_next_vblank
      BY <1>c, <1>e DEF cycles_to_next_vblank, clock
    <2>2. BeforeEdge' \/ PastEdge'
      BY <1>c, <1>e, <2>1 DEF SliceInv, BeforeEdge, OnEdge, PastEdge, clock
    <2>3. InCycle' => cont' # "host" /\ frame_pos' < frame_cycles'
      BY <1>c, <1>e DEF SliceInv, clock
    <2> QED
      BY <1>b, <1>e, <2>2, <2>3 DEF SliceInv
  \* The clock moves between cycles or batches of the slice.
  <1>f. ASSUME frame_slice, BeforeEdge' \/ PastEdge', pc' \notin {"host", "end"},
               frame_slice' = frame_slice,
               InCycle' => cont' # "host" /\ frame_pos' < frame_cycles'
        PROVE  SliceInv'
    BY <1>b, <1>f DEF SliceInv
  <1>g. ASSUME frame_slice, InCycle PROVE ~PastEdge
    <2>1. cont \in {"loop", "grouptail", "eetail"}
      BY <1>0, <1>g DEF SliceInv, Interpreted, Chained, Returns
    <2> QED
      BY <1>0, <1>g, <2>1 DEF TargetRoom, PastEdge
  <1>h. frame_slice /\ pc \notin {"host", "end"} => BeforeEdge \/ PastEdge
    BY DEF SliceInv, OnEdge
  <1>1. CASE Host
    <2>1. CASE HostStep \/ HostRun
      BY <2>1 DEF HostStep, HostRun, SliceInv
    <2>2. CASE Finished
      <3>1. UNCHANGED <<use, clock, region, pc, cont, target, starts, frame_slice>>
        BY <2>2 DEF Finished, vars, loop, hist, slice
      <3> QED
        BY <3>1 DEF clock, SliceInv, InCycle, BeforeEdge, OnEdge, PastEdge, HostOps, Wrap,
                    frame_cycles, vblank_start, cycles_to_next_vblank
    <2>3. CASE HostFrame
      <3>1. /\ "frame" \in HostOps /\ pc' = "loop" /\ starts' = 0
            /\ target' = cycles + cycles_to_next_vblank /\ UNCHANGED clock
        BY <2>3 DEF HostFrame, StartRun
      <3>2. region' = region /\ "frame" \in HostOps'
        BY <3>1, RegionKept
      <3>3. BeforeEdge'
        BY <3>1, <3>2 DEF BeforeEdge, clock, cycles_to_next_vblank, frame_cycles, vblank_start
      <3> QED
        BY <3>1, <3>2, <3>3 DEF SliceInv, InCycle
    <2> QED
      BY <1>1, <2>1, <2>2, <2>3 DEF Host
  <1>2. CASE EeStep \/ IopSlot \/ TimerSlot
    <2>1. /\ UNCHANGED <<clock, target, frame_slice, starts, cont>>
          /\ pc \in {"ee", "iop", "timer"} /\ pc' \in {"iop", "timer", "edge"}
      BY <1>2 DEF EeStep, IopSlot, TimerSlot, Goto, loop, slice
    <2> QED
      BY <1>e, <2>1 DEF InCycle
  <1>3. CASE VblankSlot
    <2> SUFFICES ASSUME frame_slice PROVE SliceInv'
      BY <1>3 DEF VblankSlot, SliceInv
    <2>1. /\ UNCHANGED <<clock, target, frame_slice, cont>> /\ pc = "edge" /\ pc' = "end"
          /\ InCycle /\ starts' = IF frame_pos = vblank_start THEN starts + 1 ELSE starts
      BY <1>3 DEF VblankSlot, VblankEdge, Goto, loop, InCycle
    <2>2. BeforeEdge /\ cont # "host" /\ frame_pos < frame_cycles
      BY <1>g, <1>h, <2>1 DEF SliceInv
    <2>3. cycles_to_next_vblank' = cycles_to_next_vblank
      BY <1>c, <2>1 DEF cycles_to_next_vblank, clock
    <2>4. CASE frame_pos = vblank_start
      <3>1. cycles_to_next_vblank = 1
        BY <1>0, <2>2, <2>4, SliceFacts
      <3>2. OnEdge'
        BY <1>c, <2>1, <2>2, <2>4, <3>1 DEF BeforeEdge, OnEdge, clock
      <3> QED
        BY <1>b, <1>c, <2>1, <2>2, <3>2 DEF SliceInv, clock
    <2>5. CASE frame_pos # vblank_start
      <3>1. BeforeEdge'
        BY <1>c, <2>1, <2>2, <2>3, <2>5 DEF BeforeEdge, clock
      <3> QED
        BY <1>b, <1>c, <2>1, <2>2, <3>1 DEF SliceInv, clock
    <2> QED
      BY <2>4, <2>5
  <1>4. CASE EndCycle
    <2> SUFFICES ASSUME frame_slice PROVE SliceInv'
      BY <1>4 DEF EndCycle, slice, SliceInv
    <2>1. /\ pc = "end" /\ pc' = cont /\ InCycle
          /\ cycles' = cycles + 1 /\ frame_pos' = Wrap(frame_pos + 1)
          /\ UNCHANGED <<target, frame_slice, starts>>
      BY <1>4 DEF EndCycle, Pass, loop, slice, InCycle
    <2>2. cont # "host" /\ frame_pos < frame_cycles /\ (BeforeEdge \/ OnEdge)
      BY <1>g, <2>1 DEF SliceInv
    <2>3. pc' \notin {"host", "end"} /\ ~InCycle'
      BY <1>0, <2>1, <2>2 DEF Returns, InCycle
    <2>4. CASE BeforeEdge
      <3>1. frame_pos # vblank_start
        BY <2>1, <2>4 DEF BeforeEdge
      <3>2. BeforeEdge'
        BY <1>0, <1>d, <2>1, <2>2, <2>3, <2>4, <3>1, 1 \in Nat
      <3> QED
        BY <1>f, <2>1, <2>3, <3>2
    <2>5. CASE OnEdge
      <3>1. PastEdge'
        BY <1>c, <2>1, <2>5 DEF OnEdge, PastEdge
      <3> QED
        BY <1>f, <2>1, <2>3, <3>1
    <2> QED
      BY <2>2, <2>4, <2>5
  <1>5. CASE Run
    <2>1. CASE RunReturn
      <3> SUFFICES ASSUME frame_slice PROVE SliceInv'
        BY <2>1 DEF RunReturn, hist, slice, SliceInv
      <3>1. pc = "loop" /\ cycles >= target /\ pc' = "host"
            /\ UNCHANGED <<clock, frame_slice, starts>>
        BY <2>1 DEF RunReturn, hist, slice
      <3>2. frame_pos < frame_cycles
        BY <3>1 DEF RoomInv, FrameRoom
      <3>3. PastEdge
        BY <1>0, <1>h, <3>1, <3>2, SliceFacts DEF BeforeEdge
      <3> QED
        BY <1>b, <1>c, <3>1, <3>3 DEF SliceInv, PastEdge, clock, InCycle
    <2>2. CASE DropSpin \/ RunSingle \/ RunGroup \/ RunQuietGroups
      <3>1. /\ UNCHANGED <<clock, target, frame_slice, starts>> /\ pc = "loop"
            /\ pc' \in {"loop", "ee", "idlegroups"} /\ (pc' = "ee" => cont' # "host")
        BY <2>2 DEF DropSpin, RunSingle, RunGroup, RunQuietGroups, Iterate, Call, loop, hist, slice
      <3>2. frame_pos < frame_cycles
        BY <3>1 DEF RoomInv, FrameRoom
      <3> QED
        BY <1>e, <3>1, <3>2 DEF InCycle
    <2>3. CASE RunJump
      <3> SUFFICES ASSUME frame_slice PROVE SliceInv'
        BY <2>3 DEF RunJump, slice, SliceInv
      <3> DEFINE k == next_event_in(target - cycles - 1)
      <3>1. target - cycles - 1 \in Nat /\ pc = "loop" /\ cycles < target
        BY <1>0, <2>3 DEF RunJump, Iterate
      <3>2. k \in Nat /\ k =< target - cycles - 1 /\ k =< to_vblank
        BY <1>0, <3>1, NextEventBound
      <3>3. /\ cycles' = cycles + k /\ frame_pos' = Wrap(frame_pos + k)
            /\ UNCHANGED <<target, frame_slice, starts>> /\ pc' = "ee" /\ cont' = "loop"
        BY <2>3 DEF RunJump, Pass, Call, loop, slice
      <3>4. BeforeEdge /\ frame_pos < frame_cycles
        BY <1>0, <1>h, <3>1 DEF PastEdge, RoomInv, FrameRoom
      <3> HIDE DEF k
      <3>5. /\ frame_pos =< vblank_start => frame_pos + k =< vblank_start
            /\ frame_pos > vblank_start => frame_pos + k =< frame_cycles
        <4>1. frame_pos = vblank_start => k = 0
          BY <1>0, <3>1, <3>2, <3>4, SliceFacts DEF BeforeEdge
        <4> QED
          BY <1>0, <3>2, <3>4, <4>1, VblankFacts
      <3>6. BeforeEdge'
        BY <1>d, <3>2, <3>3, <3>4, <3>5
      <3>7. frame_pos' < frame_cycles'
        BY <1>0, <1>c, <3>2, <3>3, <3>4, JumpFacts
      <3> QED
        BY <1>f, <3>3, <3>6, <3>7
    <2>4. CASE GroupTail
      <3>1. pc = "grouptail" /\ UNCHANGED <<target, frame_slice, starts>>
        BY <2>4 DEF GroupTail, slice
      <3>2. CASE UNCHANGED clock /\ pc' = "eetail"
        BY <1>e, <3>1, <3>2 DEF InCycle
      <3>3. CASE NoEdgeInTail /\ Pass(EE_PER_IOP - 1) /\ pc' = "loop"
        <4> SUFFICES ASSUME frame_slice PROVE SliceInv'
          BY <3>1 DEF SliceInv
        <4>0. EE_PER_IOP - 1 \in Nat /\ frame_pos < frame_cycles
          BY <1>0, <3>1 DEF RoomInv, FrameRoom
        <4>1. cycles' = cycles + (EE_PER_IOP - 1)
              /\ frame_pos' = Wrap(frame_pos + (EE_PER_IOP - 1))
          BY <3>3 DEF Pass
        <4>2. CASE BeforeEdge
          <5>1. /\ frame_pos =< vblank_start => frame_pos + (EE_PER_IOP - 1) =< vblank_start
                /\ frame_pos > vblank_start => frame_pos + (EE_PER_IOP - 1) =< frame_cycles
            BY <1>0, <3>3 DEF NoEdgeInTail
          <5>2. BeforeEdge'
            BY <1>d, <3>1, <3>3, <4>0, <4>1, <4>2, <5>1
          <5> QED
            BY <1>f, <3>1, <3>3, <5>2 DEF InCycle
        <4>3. CASE PastEdge
          <5>1. EE_PER_IOP = 1
            BY <1>0, <3>1, <4>3 DEF TargetRoom, PastEdge
          <5>2. cycles' = cycles /\ frame_pos' = frame_pos
            BY <1>0, <4>0, <4>1, <5>1 DEF Wrap
          <5>3. PastEdge'
            BY <1>c, <3>1, <4>3, <5>2 DEF PastEdge
          <5> QED
            BY <1>f, <3>1, <3>3, <5>3 DEF InCycle
        <4> QED
          BY <1>h, <3>1, <4>2, <4>3
      <3> QED
        BY <2>4, <3>2, <3>3 DEF GroupTail, clock
    <2>5. CASE EeGroupTail
      <3>1. /\ UNCHANGED <<clock, target, frame_slice, starts>> /\ pc = "eetail"
            /\ pc' \in {"loop", "ee"} /\ (pc' = "ee" => cont' # "host")
        BY <2>5 DEF EeGroupTail, Call, hist, slice
      <3>2. frame_pos < frame_cycles
        BY <3>1 DEF RoomInv, FrameRoom
      <3> QED
        BY <1>e, <3>1, <3>2 DEF InCycle
    <2>6. ~RunChain
      BY DEF RunChain, UsesChain, Interpreted
    <2> QED
      BY <1>5, <2>1, <2>2, <2>3, <2>4, <2>5, <2>6 DEF Run
  <1>6. ~Advance /\ ~IopGroupEnd
    BY DEF Advance, AdvanceReturn, AdvanceJump, AdvanceSingle, AdvanceQuietGroups,
           AdvanceGroup, AdvanceTail, AdvanceRest, IopGroupEnd, Interpreted, Chained
  <1>7. CASE Groups
    <2>0. left * EE_PER_IOP \in Nat
      <3>1. \A x, y \in Nat : x * y \in Nat
        OBVIOUS
      <3> QED
        BY <1>0, <3>1
    <2>1. CASE GroupChain
      <3> SUFFICES ASSUME frame_slice PROVE SliceInv'
        BY <2>1 DEF GroupChain, slice, SliceInv
      <3>1. PICK m \in 1 .. (IF IopAsleep \/ iop_irq THEN 1 ELSE IopBudget) :
                 Skip((m - 1) * EE_PER_IOP) /\ left' = left - m
        BY <2>1 DEF GroupChain
      <3>2. m \in 1 .. left
        <4>1. left' \in Nat
          BY <1>0, <2>1, GroupChainRoom DEF RoomInv
        <4>2. m \in Int /\ m >= 1
          BY <3>1
        <4> QED
          BY <1>0, <3>1, <4>1, <4>2
      <3> DEFINE j == (m - 1) * EE_PER_IOP
                 k == (left - m) * EE_PER_IOP + EE_PER_IOP
                 all == left * EE_PER_IOP
      <3>3. j \in Nat /\ k \in Nat /\ j + k = all /\ k > 0
        <4>1. j \in Nat /\ (left - m) * EE_PER_IOP \in Nat /\ j + k = all
          BY <1>0, <3>2, GroupSplit
        <4> QED
          BY <1>0, <4>1
      <3>4. /\ cycles' = cycles + j /\ frame_pos' = frame_pos + j
            /\ pc' = "idleslot" /\ pc = "idlegroups"
            /\ UNCHANGED <<target, frame_slice, starts>>
        BY <2>1, <3>1 DEF GroupChain, Skip, slice, Interpreted, Chained
      <3>5. Room(all) /\ cycles + all =< target
        BY <3>4 DEF RoomInv, GroupRoom, TargetRoom
      <3> HIDE DEF j, k, all
      <3>6. ~PastEdge
        BY <1>0, <3>3, <3>5 DEF PastEdge
      <3>7. /\ frame_pos =< vblank_start => frame_pos + j =< vblank_start
            /\ frame_pos > vblank_start => frame_pos + j =< frame_cycles
        BY <1>0, <3>3, <3>5 DEF Room
      <3>8. BeforeEdge'
        BY <1>d, <1>h, <3>3, <3>4, <3>6, <3>7
      <3> QED
        BY <1>f, <3>4, <3>8 DEF InCycle
    <2>2. CASE GroupSlot \/ IdleGroupTick
      <3>1. /\ UNCHANGED <<clock, target, frame_slice, starts>>
            /\ pc \in {"iopslot", "idleslot", "idletick"}
            /\ pc' \in {"iopend", "idletick", "idleend"}
        BY <2>2 DEF GroupSlot, IdleGroupTick, Goto, loop, slice
      <3> QED
        BY <1>e, <3>1 DEF InCycle
    <2>3. CASE IdleGroupEnd
      <3> SUFFICES ASSUME frame_slice PROVE SliceInv'
        BY <2>3 DEF IdleGroupEnd, slice, SliceInv
      <3> DEFINE all == left * EE_PER_IOP
      <3>1. /\ all \in Nat /\ Room(all + EE_PER_IOP) /\ cycles + (all + EE_PER_IOP) =< target
            /\ pc = "idleend" /\ pc' \in {"eetail", "idlegroups"}
            /\ UNCHANGED <<target, frame_slice, starts>>
        BY <2>0, <2>3 DEF IdleGroupEnd, slice, RoomInv, GroupRoom, TargetRoom
      <3>2. PICK k \in {1, EE_PER_IOP} : /\ cycles' = cycles + k
                                         /\ frame_pos' \in {frame_pos + k, Wrap(frame_pos + k)}
        BY <2>3 DEF IdleGroupEnd, Pass, Skip
      <3> HIDE DEF all
      <3>3. ~PastEdge
        BY <1>0, <3>1 DEF PastEdge
      <3>4. /\ frame_pos =< vblank_start => frame_pos + k =< vblank_start
            /\ frame_pos > vblank_start => frame_pos + k =< frame_cycles
        BY <1>0, <3>1, <3>2 DEF Room
      <3>5. BeforeEdge'
        BY <1>0, <1>d, <1>h, <3>1, <3>2, <3>3, <3>4, k \in Nat
      <3> QED
        BY <1>f, <3>1, <3>5 DEF InCycle
    <2>4. CASE GroupsDone
      <3> SUFFICES ASSUME frame_slice PROVE SliceInv'
        BY <2>4 DEF GroupsDone, hist, slice, SliceInv
      <3>1. /\ pc = "idlegroups" /\ pc' = "loop" /\ left = 0
            /\ cycles' = cycles /\ frame_pos' = Wrap(frame_pos)
            /\ UNCHANGED <<target, frame_slice, starts>>
        BY <2>4 DEF GroupsDone, loop, hist, slice, Interpreted, Chained
      <3>2. frame_pos =< frame_cycles
        <4>1. 0 * EE_PER_IOP = 0
          BY <1>0
        <4>2. Room(0)
          BY <3>1, <4>1 DEF RoomInv, GroupRoom
        <4> QED
          BY <1>0, <4>2 DEF Room
      <3>3. CASE BeforeEdge
        <4>1. frame_pos + 0 = frame_pos /\ cycles + 0 = cycles
          BY <1>0
        <4>2. BeforeEdge'
          BY <1>0, <1>d, <3>1, <3>2, <3>3, <4>1, 0 \in Nat
        <4> QED
          BY <1>f, <3>1, <4>2 DEF InCycle
      <3>4. CASE PastEdge
        <4>1. Wrap(frame_pos) = frame_pos
          BY <1>0, <3>4 DEF PastEdge, Wrap
        <4>2. PastEdge'
          BY <1>c, <3>1, <3>4, <4>1 DEF PastEdge
        <4> QED
          BY <1>f, <3>1, <4>2 DEF InCycle
      <3> QED
        BY <1>h, <3>1, <3>3, <3>4
    <2> QED
      BY <1>6, <1>7, <2>1, <2>2, <2>3, <2>4 DEF Groups
  <1> QED
    BY <1>1, <1>2, <1>3, <1>4, <1>5, <1>6, <1>7 DEF Next, OneCycle

\* Under the interpreter, where no program changes the region inside a frame
\* slice, run(cycles_to_next_vblank()) carries exactly one start edge and ends
\* on the cycle behind it, whatever jumps and groups it is made of.
THEOREM SchedulerFrameSlice ==
    ASSUME \A u \in DOMAIN Uses : ~Uses[u].jit, FrameUses
    PROVE  Spec => []FrameSliceExact
  <1> DEFINE Inv == TargetRoom /\ SliceInv
  <1>1. Init => Inv
    BY DEF Init, TargetRoom, SliceInv, InCycle
  <1>2. UseOK /\ IInv /\ Interpreted /\ Inv /\ [Next]_vars => Inv'
    <2> SUFFICES ASSUME UseOK, IInv, Interpreted, Inv, [Next]_vars PROVE Inv'
      OBVIOUS
    <2>1. CASE Next
      BY <2>1, TargetRoomStep, SliceStep DEF IInv
    <2>2. CASE UNCHANGED vars
      BY <2>2 DEF vars, clock, loop, hist, slice, TargetRoom, SliceInv, InCycle, BeforeEdge,
                  OnEdge, PastEdge, HostOps, Wrap, frame_cycles, vblank_start,
                  cycles_to_next_vblank
    <2> QED
      BY <2>1, <2>2
  <1>3. Inv => FrameSliceExact
    BY DEF SliceInv, FrameSliceExact
  <1> QED
    BY <1>1, <1>2, <1>3, SchedulerIInv, NoChains, UseStays, PTL DEF Spec
=============================================================================
