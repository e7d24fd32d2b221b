----------------------------- MODULE DebugStub -----------------------------
(***************************************************************************)
(* The debug server (ps2-debug/src/lib.rs): one stub per processor, both   *)
(* driving the one machine, called from the worker's loop with a budget.   *)
(* A client waits for the reply to a packet before it sends the next, so a *)
(* call of pump handles at most one of each, and none of one just accepted.*)
(*                                                                         *)
(* The machine is what a stub sees of it: both programs loop over 0 and 1, *)
(* word 1 may be the idle loop, the interrupt handler is at 2 and 3.  Each *)
(* RAM has one cell that is watched, under either of two addresses.        *)
(*                                                                         *)
(* missed is history: the breakpoints the last cycle of a slice ran past.  *)
(***************************************************************************)
EXTENDS Naturals, FiniteSets

CONSTANTS
    EE_PER_IOP,
    DebugUses         \* what the clients do, see use

DebugTarget == {"ee", "iop"}
Vector == 2
Alias == {"kuseg", "kseg0"}

VARIABLES
    stage,            \* where the worker is: one of the steps of pump, or "host"
    stub,             \* each target's server; twin: a watch was taken back since
                      \* the last one was set
    dma_watch,        \* targets whose watched cell is armed on the bus
    core,             \* each processor: [pc, epc, idle, due]
    cell,             \* each RAM's watched cell
    slot,             \* cycles, modulo the clock ratio
    single_issue,     \* the EE retires one instruction a cycle
    use,              \* the session: the targets with a server, whose word 1
                      \* is an idle loop, the addresses breakpoints are set at
                      \* (interrupts come if the handler's is one), the cells
                      \* watched, each with its address
    missed
debug_vars == <<stage, stub, dma_watch, core, cell, slot, single_issue, use, missed>>

NoClient == [client |-> FALSE, halted |-> FALSE, resume_skip |-> FALSE, breakpoints |-> {},
             watchpoints |-> {}, old |-> [a \in Alias |-> 0], dma_stale |-> FALSE, twin |-> FALSE]
Attached == \E t \in DebugTarget : stub[t].client
Halted   == \E t \in DebugTarget : stub[t].client /\ stub[t].halted

DebugInit ==
    /\ stage = "host" /\ stub = [t \in DebugTarget |-> NoClient] /\ dma_watch = {}
    /\ core = [t \in DebugTarget |-> [pc |-> 0, epc |-> 0, idle |-> FALSE, due |-> FALSE]]
    /\ cell = [t \in DebugTarget |-> 0] /\ slot = 0 /\ single_issue = FALSE
    /\ use \in DebugUses /\ missed = {}

(***************************************************************************)
(* The machine.                                                            *)
(***************************************************************************)
InHandler(c) == c.pc >= Vector
Pending(c) == c.due /\ ~InHandler(c)
ToHandler(c) == IF Pending(c) THEN [c EXCEPT !.epc = c.pc, !.pc = Vector, !.idle = FALSE] ELSE c
\* For a debugger: an idle processor is woken by the machine, not here.
TakePending(c) == IF c.idle THEN c ELSE ToHandler(c)
\* One instruction; the last one of the handler acknowledges and returns.
After(c, loop) ==
    CASE c.pc = 0 -> [c EXCEPT !.pc = 1]
      [] c.pc = 1 -> IF loop THEN [c EXCEPT !.idle = TRUE] ELSE [c EXCEPT !.pc = 0]
      [] c.pc = 2 -> [c EXCEPT !.pc = 3]
      [] c.pc = 3 -> [c EXCEPT !.pc = c.epc, !.due = FALSE]
RaiseLine(c, up) == [c EXCEPT !.due = @ \/ up]

\* Ps2System::step with the programs' and devices' choices x: the lines the EE
\* raises on the IOP, the IOP on the EE and a device on the IOP, and what the
\* watched cells hold afterwards.
EeStep(c, x) ==
    LET e == ToHandler(c)
        pair == e.pc = 0 /\ ~single_issue
    IN  IF c.idle THEN [core |-> c, ran |-> {}]
        ELSE [core |-> After(IF pair THEN After(e, FALSE) ELSE e, "ee" \in use.loops),
              ran |-> IF pair THEN {0, 1} ELSE {e.pc}]
IopSlot(c, x) ==
    IF slot # 0 \/ (c.idle /\ ~Pending(c)) THEN [core |-> c, ran |-> {}, entered |-> FALSE]
    ELSE [core |-> After([ToHandler(c) EXCEPT !.idle = FALSE], "iop" \in use.loops),
          ran |-> {ToHandler(c).pc}, entered |-> Pending(c)]
MachineStep(m, x) ==
    LET e == EeStep(m["ee"], x)
        i == IopSlot(RaiseLine(m["iop"], x.irq["iop"]), x)
        up == RaiseLine(e.core, x.irq["ee"])
    IN  [core |-> [t \in DebugTarget |-> IF t = "ee" THEN [up EXCEPT !.idle = @ /\ ~Pending(up)]
                                         ELSE RaiseLine(i.core, x.device)],
         ran |-> [t \in DebugTarget |-> IF t = "ee" THEN e.ran ELSE i.ran], inside |-> i.entered]
\* The addresses t's cell may be watched under.
WatchAliases(t) == { a \in Alias : <<t, a>> \in use.watch }
Events ==
    LET interrupts == Vector \in use.spots
        Any == {FALSE, interrupts}
    IN  [irq : [DebugTarget -> Any], device : Any,
         cell : { c \in [DebugTarget -> {0, 1}] : \A t \in DebugTarget : c[t] # cell[t] => WatchAliases(t) # {} }]
Cycle(m, x) == core' = MachineStep(m, x).core /\ cell' = x.cell /\ slot' = (slot + 1) % EE_PER_IOP

(***************************************************************************)
(* Connections: accept, one packet, and the watch ranges a lost client     *)
(* left on the bus.                                                        *)
(***************************************************************************)
Detached(s) == [s EXCEPT !.client = FALSE, !.halted = FALSE, !.breakpoints = {}, !.watchpoints = {},
                         !.dma_stale = TRUE, !.twin = FALSE]
NextStage(t) == IF t = "ee" THEN "iop" ELSE "slice"
\* The stub's part of pump ends with drop_stale_dma_watch.
Served(t, s, armed) ==
    /\ stage = t /\ stage' = NextStage(t)
    /\ stub' = [stub EXCEPT ![t] = [s EXCEPT !.dma_stale = FALSE]]
    /\ dma_watch' = IF s.dma_stale THEN armed \ {t} ELSE armed
    /\ UNCHANGED <<core, cell, slot, single_issue, use, missed>>

PumpStart == /\ stage = "host" /\ stage' = "ee"
             /\ single_issue' = stub["ee"].client
             /\ missed' = {}
             /\ UNCHANGED <<stub, dma_watch, core, cell, slot, use>>
NoPacket(t) == Served(t, stub[t], dma_watch)
Accept(t) == t \in use.servers /\ ~stub[t].client
             /\ Served(t, [stub[t] EXCEPT !.client = TRUE, !.halted = TRUE], dma_watch)
\* D and k, and a connection that ends.
Detach(t) == stub[t].client /\ Served(t, Detached(stub[t]), dma_watch)
Interrupt(t) == stub[t].client /\ ~stub[t].halted /\ Served(t, [stub[t] EXCEPT !.halted = TRUE], dma_watch)

Refresh(s, t) == [s EXCEPT !.old = [a \in Alias |-> cell[t]]]
Resume(t) ==
    /\ stub[t].client /\ stub[t].halted /\ stage = t /\ stage' = NextStage(t)
    /\ stub' = [stub EXCEPT ![t] = [Refresh(@, t) EXCEPT !.halted = FALSE, !.resume_skip = TRUE]]
    /\ UNCHANGED <<dma_watch, core, cell, slot, single_issue, use, missed>>
\* One instruction; entering a handler is a step of its own.
StepTarget(t) ==
    /\ stub[t].client /\ stub[t].halted /\ stage = t
    /\ stub' = [stub EXCEPT ![t] = Refresh(@, t)]
    /\ LET c == TakePending(core[t]) IN
       \/ /\ c # core[t] /\ core' = [core EXCEPT ![t] = c]
          /\ stage' = NextStage(t) /\ UNCHANGED <<cell, slot>>
       \/ /\ c = core[t] /\ t = "ee" /\ stage' = NextStage(t)
          /\ \E x \in Events : Cycle(core, x)
       \/ /\ c = core[t] /\ t = "iop" /\ stage' = "stepping"
          /\ UNCHANGED <<core, cell, slot>>
    /\ UNCHANGED <<dma_watch, single_issue, use, missed>>
\* The interleave up to the IOP's next slot.
StepToSlot ==
    /\ stage = "stepping" /\ stage' = IF slot = 0 THEN "slice" ELSE "stepping"
    /\ \E x \in Events : Cycle(core, x)
    /\ UNCHANGED <<stub, dma_watch, single_issue, use, missed>>

SetBreakpoint(t) ==
    /\ stub[t].client /\ stub[t].halted
    /\ \E p \in use.spots, on \in BOOLEAN :
          Served(t, [stub[t] EXCEPT !.breakpoints = IF on THEN @ \cup {p} ELSE @ \ {p}], dma_watch)
\* Watching arms the bus for the cell; taking back a watch disarms every one
\* that names the cell, under whichever address.
SetWatch(t) ==
    /\ stub[t].client /\ stub[t].halted
    /\ \E a \in WatchAliases(t) :
          \/ Served(t, [stub[t] EXCEPT !.watchpoints = @ \cup {a}, !.old[a] = cell[t], !.twin = FALSE],
                    dma_watch \cup {t})
          \/ Served(t, [stub[t] EXCEPT !.watchpoints = @ \ {a}, !.twin = TRUE], dma_watch \ {t})
\* M and X: memory edited through a client.
EditMemory(t) ==
    /\ WatchAliases(t) # {} /\ stub[t].client /\ stub[t].halted /\ stage = t /\ stage' = NextStage(t)
    /\ \E v \in {0, 1} : cell' = [cell EXCEPT ![t] = v]
    /\ UNCHANGED <<stub, dma_watch, core, slot, single_issue, use, missed>>

(***************************************************************************)
(* The slice: one cycle of the loop of run_slice.                          *)
(***************************************************************************)
\* A stop is sent at once; a client that is gone is noticed there.
Stop(s) == { [s EXCEPT !.halted = TRUE], Detached(s) }

\* Whether t is looked at in this cycle, from where, and whether it stops.
Examined(t) == stub[t].client /\ (t = "iop" => slot = 0)
\* Mutant: the handler is entered by the machine, after the breakpoints were looked at.
BadReached(t) == core[t]
Reached(t) == IF Examined(t) THEN TakePending(core[t]) ELSE core[t]
EntersHandler(t) == Reached(t) # core[t]
Breaks(t) == /\ Examined(t) /\ (~stub[t].resume_skip \/ EntersHandler(t))
             /\ Reached(t).pc \in stub[t].breakpoints
Looked(t) == IF Examined(t) THEN [stub[t] EXCEPT !.resume_skip = FALSE] ELSE stub[t]

Slicing == stage \in {"slice", "sliced"} /\ Attached /\ ~Halted
StopAtBreakpoint ==
    /\ Slicing /\ stage' = "host"
    /\ \/ /\ Breaks("ee")
          /\ \E s \in Stop(Looked("ee")) : stub' = [stub EXCEPT !["ee"] = s]
          /\ core' = [core EXCEPT !["ee"] = Reached("ee")]
       \/ /\ ~Breaks("ee") /\ Breaks("iop")
          /\ \E s \in Stop(Looked("iop")) : stub' = [stub EXCEPT !["ee"] = Looked("ee"), !["iop"] = s]
          /\ core' = [t \in DebugTarget |-> Reached(t)]
    /\ UNCHANGED <<dma_watch, cell, slot, single_issue, use, missed>>

Changed(t) == stub[t].client /\ \E a \in stub[t].watchpoints : stub[t].old[a] # cell'[t]
\* A hit takes new snapshots, names the engine and stops; the connection may
\* fail under either message.
Checked(t) ==
    LET s == [Looked(t) EXCEPT !.old = [a \in Alias |-> cell'[t]]]
    IN  IF Changed(t) THEN Stop(s) \cup {[Detached(s) EXCEPT !.halted = TRUE]} ELSE {Looked(t)}
\* Where t may run although a breakpoint is there: what the continue resumes
\* from, and a handler the IOP enters in the very step that runs it.
Exempt(t, inside) ==
    { p \in stub[t].breakpoints : \/ p = core[t].pc /\ stub[t].resume_skip /\ ~EntersHandler(t)
                                  \/ p = Vector /\ t = "iop" /\ inside }
SliceCycle ==
    /\ Slicing /\ \A t \in DebugTarget : ~Breaks(t)
    /\ \E x \in Events :
          LET m == [t \in DebugTarget |-> Reached(t)]
              s == MachineStep(m, x)
          IN  /\ Cycle(m, x)
              /\ missed' = { w \in DebugTarget \X use.spots :
                                w[2] \in (s.ran[w[1]] \cap stub[w[1]].breakpoints) \ Exempt(w[1], s.inside) }
    /\ \E e \in Checked("ee"), i \in Checked("iop") : stub' = [stub EXCEPT !["ee"] = e, !["iop"] = i]
    /\ stage' \in IF \E t \in DebugTarget : Changed(t) THEN {"host"} ELSE {"sliced", "host"}
    /\ UNCHANGED <<dma_watch, single_issue, use>>
NoSlice == /\ stage \in {"slice", "sliced"} /\ (~Attached \/ Halted) /\ stage' = "host"
           /\ UNCHANGED <<stub, dma_watch, core, cell, slot, single_issue, use, missed>>
\* Without a client the worker runs the machine itself.
HostCycle == /\ stage = "host" /\ ~Attached
             /\ \E x \in Events : Cycle(core, x)
             /\ UNCHANGED <<stage, stub, dma_watch, single_issue, use, missed>>

DebugNext ==
    \/ PumpStart \/ StepToSlot \/ StopAtBreakpoint \/ SliceCycle \/ NoSlice \/ HostCycle
    \/ \E t \in DebugTarget : \/ NoPacket(t) \/ Accept(t) \/ Detach(t) \/ Interrupt(t) \/ Resume(t)
                              \/ StepTarget(t) \/ SetBreakpoint(t) \/ SetWatch(t) \/ EditMemory(t)
DebugSpec == DebugInit /\ [][DebugNext]_debug_vars

-----------------------------------------------------------------------------
\* While a client has the machine running, no instruction of its processor
\* runs at a breakpoint unseen, but for the one a continue resumes from - and
\* the first of a handler the IOP enters inside the very step that runs it,
\* waking from its idle loop or on a line the EE has raised in the same cycle.
BreakpointsSeen == missed = {}
\* A change of a watched byte ends the slice in the cycle that makes it,
\* whoever made it and however many addresses name it.
WatchesSeen ==
    stage = "sliced" =>
        \A t \in DebugTarget : stub[t].client => \A a \in stub[t].watchpoints : stub[t].old[a] = cell[t]
\* "DMA writes are attributed to their engine in the stop reply": the bus
\* knows of every watched cell, unless a second address of it was given up,
\* and of none once its client is gone and the stub was served.
RangesFollowWatches ==
    \A t \in DebugTarget :
        /\ stub[t].client /\ stub[t].watchpoints # {} => t \in dma_watch \/ stub[t].twin
        /\ ~stub[t].client /\ ~stub[t].dma_stale => t \notin dma_watch
DebugKept == BreakpointsSeen /\ WatchesSeen /\ RangesFollowWatches
=============================================================================
