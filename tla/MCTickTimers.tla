----------------------------- MODULE MCTickTimers -----------------------------
(***************************************************************************)
(* Small instances of TickTimers: counters of a few values, periods below  *)
(* and above the tick grid, a look-ahead shorter than a wrap.              *)
(***************************************************************************)
EXTENDS TickTimers

MCEePeriod  == [r \in Region |-> [k \in Clock |->
                   IF k = "fast" THEN 2 ELSE IF r = "ntsc" THEN 13 ELSE 14]]
MCIopPeriod == [r \in Region |-> [k \in IopClock |->
                   IF k = "fast" THEN 2 ELSE IF r = "ntsc" THEN 13 ELSE 15]]

\* Every mode with the interrupt on, and the one without it; an IOP timer
\* interrupts on both or is stopped.
MCEeModes(ks) ==
    [clk : ks, cue : BOOLEAN, cmpe : {TRUE}, zret : BOOLEAN, equf : {TRUE}]
      \cup [clk : ks, cue : {TRUE}, cmpe : {FALSE}, zret : {FALSE}, equf : {FALSE}]
MCIopModes(ks, zrets) ==
    [clk : ks, on : {TRUE}, zret : zrets, tirq : {TRUE}, oirq : {TRUE},
     target_hit : {FALSE}, wrapped : {FALSE}] \cup {IopReset(k).mode : k \in ks}

MCUse(ee, iop, bus, ks, zrets, vs, n) ==
    [ee_timers |-> IF ee = {} THEN {} ELSE {"t0"}, iop_timers |-> IF iop = {} THEN {} ELSE {"t1"},
     ee |-> ee, iop |-> iop, bus |-> bus,
     ee_modes |-> MCEeModes(ks), iop_modes |-> MCIopModes(ks, zrets),
     values |-> vs, until |-> n]

\* The compares of each processor on both clocks, and the deferred completions.
TickUses ==
    [ee_timer  |-> MCUse({"count", "comp", "mode"}, {}, {}, Clock, {}, {3, 6}, 22),
     iop_timer |-> MCUse({}, {"count", "target", "mode", "read"}, {"ack"},
                         IopClock, {FALSE}, {3, 6}, 20),
     deferred  |-> [MCUse({}, {}, {"dma", "drive", "spu"}, {}, {}, {}, 16)
                      EXCEPT !.iop_timers = {"t1"}]]

\* A change of region under a timer that counts horizontal blanks, and writes
\* to a timer that is running.
RegionUses ==
    [ee_region   |-> [MCUse({"count", "comp", "mode", "running"}, {}, {"region"},
                            {"hblank"}, {}, {1, 7}, 17)
                        EXCEPT !.ee_modes = {m \in @ : m.cue /\ m.cmpe /\ ~m.zret}],
     iop_region  |-> [MCUse({}, {"count", "target", "mode", "running"}, {"region"},
                            {"hblank"}, {FALSE}, {1, 7}, 17)
                        EXCEPT !.iop_modes = {m \in @ : m.on}],
     ee_running  |-> MCUse({"count", "comp", "mode", "running"}, {}, {},
                           {"fast"}, {}, {3}, 14),
     iop_running |-> MCUse({}, {"count", "target", "mode", "running"}, {},
                           {"fast"}, {FALSE}, {3}, 14)]

\* Both; only the uses with a change of region begin in either region.
TimerUses == [u \in DOMAIN TickUses \cup DOMAIN RegionUses |->
                 IF u \in DOMAIN TickUses THEN TickUses[u] ELSE RegionUses[u]]
TimerInit == Init /\ ("region" \in Does.bus \/ region = "ntsc")
TimerSpec == TimerInit /\ [][Next]_vars

\* A zero-return counter whose target lies behind it.
ZeroReturnUses ==
    [zero_return |-> MCUse({}, {"mode", "target"}, {}, {"fast"}, {TRUE}, {0, 2}, 40)]
=============================================================================
