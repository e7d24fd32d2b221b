----------------------------- MODULE MCScheduler -----------------------------
(***************************************************************************)
(* Small instances of Scheduler.  The ratios of the code are kept where a  *)
(* property depends on them: a tick is several IOP slots, the INTC latency *)
(* is less than a tick, the chain floor is longer than the latency, frames *)
(* and their vblank starts are whole numbers of slots.                     *)
(***************************************************************************)
EXTENDS Scheduler

MCFrameCycles == [r \in Region |-> IF r = "ntsc" THEN 12 ELSE 16]
MCVblankStart == [r \in Region |-> IF r = "ntsc" THEN 8 ELSE 12]

\* The interpreter driven by single steps and by runs, both programs awake or
\* asleep; the other uses are variations of it.
Base ==
    [jit |-> FALSE, regions |-> {"ntsc"}, mask |-> {"vbon", "timer"},
     ee |-> {"idle", "mask", "arm", "ack"}, iop |-> {"idle", "arm", "line"},
     tick |-> {"timer", "line"}, host |-> {"step", "run"}, lengths |-> {5, 14}, until |-> 20]

\* The IOP never goes idle.
AwakeUses ==
    [awake |-> [Base EXCEPT !.iop = {"arm", "line", "sbus"}, !.mask = {"vbon", "timer", "sbus"}]]

\* Both processors go idle and the EE polls; frame slices.
AsleepUses ==
    [asleep |-> [Base EXCEPT !.ee = {"idle", "mask", "poll", "ack"}, !.until = 15],
     frames |-> [Base EXCEPT !.ee = {"idle", "mask", "poll", "ack"}, !.iop = {"arm", "line", "dmac"},
                             !.host = {"frame", "run"}, !.lengths = {4}, !.until = 26]]

\* All of the interpreter's.
StepUses == [u \in DOMAIN AwakeUses \cup DOMAIN AsleepUses |->
                IF u \in DOMAIN AwakeUses THEN AwakeUses[u] ELSE AsleepUses[u]]

\* The recompiler's chains; changes of region around the edges; polling.
JitBase == [Base EXCEPT !.jit = TRUE, !.host = {"run"}, !.lengths = {14}, !.until = 14]
ChainUses ==
    [chains |-> [JitBase EXCEPT !.ee = {"idle", "mask", "arm", "gs"}, !.mask = {"gs", "vbon"},
                                !.tick = {"line"}],
     region |-> [JitBase EXCEPT !.ee = {"idle", "region", "sint", "mask"},
                                !.iop = {"idle"}, !.tick = {"dmac"},
                                !.lengths = {9}, !.until = 18],
     polls  |-> [JitBase EXCEPT !.ee = {"idle", "mask", "poll", "dmac"}, !.lengths = {9},
                                !.until = 9]]

LostVblankUses    == [asleep |-> Base]
MissedTickUses    == [chains |-> [Base EXCEPT !.jit = TRUE]]
FrozenHandlerUses == [polls |-> [Base EXCEPT !.ee = {"mask", "poll"}, !.iop = {"dmac"}]]
=============================================================================
