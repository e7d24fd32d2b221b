# A TLA+ model of PS2e

PS2e is a PlayStation 2 emulator in Rust: `ps2-core` (the machine), `ps2-app`
(window, audio, pads, control port) and `ps2-debug` (a gdb stub). This directory
holds TLA+ modules translated from its source, the TLC configurations that check
them on small instances, and TLAPS proofs about them. `PROJECT.json` is the index:
components, runs, mutants (a plausible bug for each property, which TLC finds), the
source lines of every definition, hazards, findings and theorems. Source paths below
are relative to `src/crates/`; `lib.rs`, `bus.rs` and so on are in `ps2-core/src/`.

What is modelled: the machine's clock, everything that happens at a time, the GS front
with its renderer thread, the devices and DMA paths of both processors, the three
recompilers with the cores they stand for, the software rasterizer, and of what wraps the
machine the parts that keep state across threads or frames: the cheat table, the debug
server, the window's worker and its commands.

## 1. Inventory

### Interaction at a glance

`Ps2System` owns the EE, the IOP and `Bus`; one thread runs them. The EE executes an
issue group a cycle (or a recompiled chain of blocks), the IOP an instruction every
eighth cycle. Every memory-mapped access is a call into `Bus`, which calls the device.
Devices answer through shared state: `timers_due` (when the tick must run next),
`intc_stat`/`intc_ready_at` and D_STAT (the EE's two interrupt lines), `iop_i_stat`.
More threads exist: the GS worker behind a bounded channel and the rasterizer's lanes
behind it, the audio callback behind a ring, and the emulation thread itself, driven by
the window and by the control port through channels. Save states serialize `Ps2System`
as a whole.

| component | state | operations | what is hard | what makes it correct |
|---|---|---|---|---|
| machine scheduler, `lib.rs` | cycles, frame_pos, region | step, run, advance, jumps and batched groups | shortcuts decided from values that change inside them | the machine of the shortcuts is that of single cycles |
| timers and the tick, `timers.rs`, `bus.rs` | base/base_cycle/last_check, timers_due, deferred queues | register accesses, tick_timers, region switch | lazy counts, due times going stale, wraps | events are seen on the first grid cycle, once; counts are those of hardware |
| interrupt path, `bus.rs`, `ee/cop0.rs`, `iop/mod.rs` | INTC/DMAC status and masks, COP0, I_STAT/I_MASK | raise, acknowledge, take, eret | arming latency; masks changed with a line pending | no enabled interrupt is lost or taken twice |
| IOP DMA, `bus.rs` | DICR, DICR2, a block per channel | start, complete, acknowledge | a channel armed before its device has data | a completion is flagged once |
| SIF, `sif.rs`, `bus.rs` | mailboxes, SIF0/SIF1 FIFOs, DMA on either side | flag writes, pump_sif | two DMA controllers, tags on both sides, resets of one | words arrive once, in order; both sides end |
| CDVD, `bus.rs` Cdvd | command registers, read FIFO, done_at, tray | N and S commands, drain, tray | superseded commands, completion behind a drain | every accepted command ends with one interrupt |
| SIO2, pads, memory cards, `bus.rs` Sio2 | queues, config mode, page and sector progress | command bytes, DMA in and out | a protocol spread over bytes | legal sequences give legal replies; a page is written whole |
| EE DMAC, `bus.rs` | CHCR/MADR/QWC/TADR, address stack, D_STAT | chains, completion, tag interrupts | call stack, interrupt tags, wrap of the scratchpad | the chain moves what its tags mean |
| GIF, VIF, `gif.rs`, `vif.rs` | tag and command in progress | transfers split anywhere | state across splits, double buffering | splitting a transfer changes nothing |
| VU1, `vu1.rs`, `vu1_jit/` | registers, pipelines, micro memory generation, code cache | MSCAL, MSCNT, upload, run | flags read late, E bit, stale translations | native and interpreted programs end alike |
| IPU, `ipu/` | input window and FIFOs, suspended command | commands, DMA in and out | a command starved in the middle | resumes where it stopped; announced once |
| SPU2, `spu2/` | voices, transfer, ADMA halves, IRQ address | transfers, samples | double buffering, chained transfers | every half played once; one completion a transfer |
| EE core, TLB, `ee/` | registers, TLB, fetch caches | instructions, exceptions | delay slots, likely branches, dual issue | a chain ends where single steps would |
| EE and IOP recompilers, `ee/jit`, `iop/jit`, `jit_arena.rs` | block cache, links, budget | translate, invalidate, run | code written while it runs | no stale block runs |
| GS front, `gs/front.rs` | EE-visible registers, batches, channel, worker | draws, reads, snapshot, restore, reset, drop | two threads, blocking calls, state in flight | the threaded front is the inline one, delayed |
| GS renderer, `gs/` | VRAM, drawing registers, vertex queue, batch, palettes, fields | draw, transfer, display | lanes in parallel, lazy palettes, fast paths beside exact ones | results are bit-identical to a serial pass |
| save states, power cycle, `lib.rs` | everything, minus what is carried over | save, load, reset | a load that fails half way | all or nothing |
| cheats, `cheats.rs`, `ps2-app/src/cheatfile.rs`, `scan.rs` | entries, one-shots already applied | apply per frame | loads and power cycles in between | a one-shot is applied once per machine |
| debugger stub, `ps2-debug/src/` | connection, breakpoints, watch ranges | packets, stop, continue | stop requests against a running machine | never executes past a breakpoint |
| application, `ps2-app/src/` | emulation thread, audio ring, control port | commands, pacing, lockstep | channels between threads, ring limits | no command lost; no lock held across a frame |

`prof.rs` (counters for `--profile`), the examples and the tools hold no state the
machine depends on.

## 2. Plan

Order: what every other part leans on first, then the paths data takes between the
processors, then the units along those paths, then what wraps the machine.

| step | modules | composed by | abstract specification | proved |
|---|---|---|---|---|
| 1 (done) | `Scheduler`, `Scheduler_proofs` | `MCScheduler` | the one-cycle machine, as cadence properties | every safety and action property its passing runs check |
| 2 (done) | `EeTimer`, `IopTimer`, `TickTimers`, `TickTimers_proofs` | `MCTickTimers` | `EagerCounter`, a counter that ticks | all of its runs' properties, the refinement included |
| 3 (done) | `GsRenderer`, `GsFront`, `GsFront_proofs` | `MCGsFront` | `GsInline`, the front without a thread | TypeOK, CaughtUp, the refinement |
| 4 (done) | `IopBus`, `Cdvd`, `Sio2`, `Spu2`, `Devices_proofs` | `MCDevices` | a card by pages, a command by what it owes | DriveKept, SoundKept, SerialKept |
| 5 (done) | `Sif`, `EeChain`, `Gif`, `Vif`, `Ipu`, `Sif_proofs` | `MCDevices` | what a program of tags, a packet, a list *means* | SifKept, PathsExact, ListsExact, ChainsExact |
| 6 (done) | `EeJit`, `EeAlu`, `EeMmi`, `IopJit`, `Vu1`, `VuAlu` | `MCCode` | the interpreter | |
| 7 (done) | `GsBatch`, `GsVertex`, `GsTransfer`, `GsTexel`, `GsRaster`, `GsLayout`, `GsDisplay`, `GsUnits_proofs` | `MCGsCore` | everything drawn at once, in program order; the per-pixel forms | StreamsInPlace, CacheIsDirect, FieldsShown |
| 8 (done) | `Cheats`, `DebugStub`, `Worker`, `Host_proofs` | `MCCode` | the file's commands as written; what a client asked for; one disc, one list | HostKept |
| 9 (open) | interrupt nesting over D_STAT and COP0; a load as one step over all components | | a level-triggered line per source; all-or-nothing load | |
| 10 (open) | proofs about `Ipu` (its loops as functions of the turn, as in `EeChain`, `Gif`, `Sif` and `Vif`), then the recompilers | | | what a command and a block promise |

A run is kept per question, not per program driving the model: the *uses* of a module,
or the *part* a behaviour drives, put several programs into one run.

## 3. How modules correspond to the code

**Uses and parts.** A device model is only as interesting as the program that drives it,
and all programs at once are too many for TLC. `Scheduler`, `TickTimers` and `GsFront`
have a constant `Uses`: a use is a set of operations (with the values they take and a
bound), one is chosen in `Init` and kept. Proofs hold for any `Uses`. `MCDevices`,
`MCCode` and `MCGsCore` compose modules that share little: a behaviour picks the one it
drives (`driven`, `part`), the others stand still. The IOP's devices share the state of
`IopBus`, of which each only raises lines.

**Mutants.** An operator named `Bad...` next to a definition is that definition with a
plausible bug; `PROJECT.json` pairs it with the property that catches it. No
specification refers to them.

**Promises.** A module of the later steps states its properties one by one and ends with
their conjunction (`DriveKept`, `EeCodeExact`, ...), which is what a run checks; each
conjunct stands alone with its comment.

### Scheduler (`lib.rs`, with the due times of `bus.rs`)

`pc` is the place in the code, every action one stretch of it: `RunJump`, `RunSingle`,
`RunQuietGroups` and `RunGroup` are the branches of `run`, `AdvanceJump` ... those of
`advance`, `GroupChain`/`GroupSlot`/`IdleGroupTick`/`IdleGroupEnd` the bodies of
`run_iop_groups` and `run_idle_ee_groups`, and `EeStep`, `IopSlot`, `TimerSlot`,
`VblankSlot`, `EndCycle` a cycle of `step`/`machine_cycle`. `cycles`, `frame_pos`,
`timers_due`, `intc_stat`, `intc_ready_at`, `int1`, `ee_idle`, `ee_spinning`,
`intc_poll_stat`, `iop_idle` are the fields of those names (`int1` and `iop_irq` the
level of the DMAC line and of the IOP's deliverable interrupt); `target`, `n`, `left`
the locals. An instruction is abstracted to what it may do to this state (go idle, poll
INTC_STAT, mask or unmask, arm an event, acknowledge, change the region ...); a
recompiled chain to one such instruction at any offset, and any length the budget
allows. `did`, `iop_at`, `ee_at`, `in_handler`, `frame_slice`, `starts` are history for
the properties.

### EeTimer, IopTimer, TickTimers, EagerCounter (`timers.rs`, `bus.rs`)

`EeTimer` and `IopTimer` are the pure part: a count reconstructed from `base` and
`base_cycle`, the next event, the crossing test, the check. `TickTimers` is the part of
`Bus` that uses them: register writes, the region switch, deferred DMA completions,
drive commands, SPU2 transfers, and `tick_timers` with the computation of `timers_due`
in the order the code has it. Time passes one cycle at a time; the tick runs on the
grid once due, as `machine_cycle` has it. `ee_match`, `iop_match` and `iop_wrap` are
history: when a counter that really ticks would have reached its value. `EagerCounter`
is that hardware counter: `CountIsEager` maps its count and its prescaler to what each
timer shows (`EeEager(t)`, `IopEager(t)`).

### GsRenderer, GsInline, GsFront (`gs/front.rs`)

`GsRenderer` has the commands, `run_cmd` and the EE-visible registers; what has been
drawn is a log of writes, so two renderers are equal only if they executed the same
writes in order. `GsInline` is the front with the renderer on the calling thread: each
call is one atomic step. `GsFront` is the threaded one: the HWREG run, the batch, the
bounded channel, the worker, the reply channel, and the places where a call blocks.
The refinement maps the renderer of `GsInline` to `Drained`: the history `promised`, the
renderer with every command accepted so far executed (and, inside a reset, the command
the front is about to send); `Emptied` ties the history to the worker's own renderer.
`sent` is the history up to what the channel was given. Replies travel with the state the worker had when it answered, so a
read returning something else than the inline front would is a refinement error.

### IopBus, Cdvd, Sio2, Spu2 (`bus.rs`, `spu2/`)

`IopBus` is I_STAT and the flag and enable bits of DICR. `Cdvd` counts staged sectors in
chunks; `NRead`/`NReadKey`/`NQuick` are the N commands by what they leave staged,
`StartCdvdDma` the write of channel 3's CHCR, `FinishN` the head of `tick_timers` when
`cdvd_done_at` is over. `owed` is history, the interrupts not raised yet. `Sio2` has a
packet per SEND3 queue; `RunTransfer` is `run_transfer`, `raise_irq` and the drain armed
before, in that order; a pad is its mode and configuration flag, a card its bytes from
`sector` and `progress` on, with `paged` the card as its user sees it. `Spu2` is the
AutoDMA ring of one core (`AdmaKick`, `SpuTick`), the IRQA latch of both, and the block
sequence of one voice (`VoiceStep`, flags of blocks from `Songs`).

### Sif, EeChain, Gif, Vif, Ipu (`sif.rs`, `bus.rs`, `gif.rs`, `vif.rs`, `ipu/`)

The software's side is a program and what it *means* is defined beside the machine:
`Meaning` of a program of DMA tags, `PacketMeans` of a GIF packet, `Encode` of a list of
VIF codes. `EeChain` runs a channel to its end in one action, as a write of CHCR does: `Pump`
and `PumpFromSpr` are the state after as many turns of the loop (`PumpTurn`, `SprTurn`; a
quadword, a tag with `Follow`, or the end) as its guard allows, `Guard` for the code's
million. Both read a tag only when the run before it is out. `Meaning` never looks at the
controller: `ReadAhead` reads the program's own blocks, ever deeper, and a call is its
routine's reading followed by that of the block behind it. `Gif.Process` is `process`, one quadword at a time;
the DMA channel and the VIF cut their packets anywhere and the three paths share the
unpacker. No path begins inside another's packet: of a kick that does the code only warns. `Vif.PushOne`
is `push_word` with `command`, and `Drain` is
`unpack_drain`, as many turns `DrainTurn` as the UNPACK has writes left: a turn with too few
bytes waiting, or none left to write, changes nothing. `Disciplined` says of the lists what
their software does: buffers are laid out before an UNPACK adds TOPS to its address. `Sif` has
the four ends of the two links and pumps them to rest after every start, as `pump_sif`
does; a word is the i-th of a packet. The turns of a receiver's loop are `Turn1` (a tag, data,
padding, with `Finish` behind each) and `Turn0`; a pump is the state after as many turns as
there are words in the FIFO, since every turn takes one off. In `Ipu` a quadword is its address, a decode unit
a list of bit counts looked at or consumed; units run as the transactions of the code
(`Begin`, `Read`, commit or roll back), and a parked command resumes at its next unit.

### EeJit, IopJit, Vu1 and EeAlu, EeMmi, VuAlu (`ee/`, `iop/`, `vu1.rs`, `vu1_jit/`)

Each recompiler is modelled with the interpreter it stands for: the block cache, the
lookup table, exits with their link cells, invalidation by writes, the arena that starts
over. A dispatch runs a chain of blocks on the machine, and the interpreter on a copy of
it for as many steps as the chain charged; `last.agreed` compares them. An instruction
is a record that keeps what control depends on. `EeAlu` and `VuAlu` have an
instruction's result twice, as the interpreter computes it and as the emitted sequence
does, on words of four bits (EE) and floats of five or six (sign, exponent, mantissa);
`EeMmi` has the lane instructions on real lanes, in the sequences programs use them in.

### GsBatch and the units around it (`gs/`)

`GsBatch` is the rasterizer's queue: `Enqueue`, `FlushBegin`, a `LaneStep` per lane in
any order, `FlushJoin`; recorded CLUT loads and the pool of decoded palettes. `gs_mem`
holds what has been drawn, `gs_ref` what a machine that draws at once would hold. A row
is painted as the pixel loop does it (`PaintRow`): texel, depth test, Z write, blend; of Z
the queue knows what is written, not what is only tested (`ZWritten`).
`GsVertex` is the vertex queue behind XYZ2/XYZF2/PRIM, `GsTransfer` HOST->LOCAL
transfers, `GsTexel` sampling with a painter's row cache, `GsLayout` the addresses of
every pixel format (the code's real tables), `GsRaster` triangles, sprites and lines
and the end of the pixel pipeline with each specialised loop beside `shade_row_px`,
`GsDisplay` woven fields and the deinterlacers. A loop whose state the code threads through
its turns (`push`, `image_rows`) is a function of the turn in `GsTransfer`: its value at k is
the state after k turns.

### Cheats, DebugStub, Worker (`cheats.rs`, `ps2-debug/`, `ps2-app/src/emu.rs`, `ui.rs`)

`Cheats` is `Table` with its flattened commands, owners and `done` flags. `ApplyCheats`
begins a frame and each turn of the loop in `apply` is a step at `cheat_at`: `StepOver`
and `RefuseCheat` are its two `continue`s, `RunCheat` the command carried out. `apply` holds
the machine while it runs, so that every other action waits until it is through
(`Between`); the steps are for stating what a frame has done so far. Kinds of commands are
three: one that writes, one that reads and writes, a conditional.
`DebugStub` is `pump` step by step: a stub per target accepts, handles a packet
(`Resume`, `StepTarget`, `SetBreakpoint`, ... are packets of `handle_packet`), drops the
watch ranges of a lost client, then `SliceCycle` is an iteration of `run_slice`'s loop
and `StopAtBreakpoint` its early returns. The machine under it is two programs of two
words with an idle loop and a handler; `MachineStep` keeps the order of
`Ps2System::step` (EE, IOP slot, devices, wake-up), which is what a breakpoint can be
missed by. `Worker` has the queue of commands and both ends of it: `InsertDisc`, `Pick`
and `CancelPick` are the halves of `insert_disc` and `boot_disc` around the blocking
picker, `HandleCommand` one turn of `handle_commands` (the second disjunct of its first
conjunct is the arm that drops what a debugger forbids), `Round` the rest of the loop of
`run`. The cheat list is the UI's, the table the machine's, and `cheat_key` says whose
entry of `cheats.toml` the list goes by. `HostSpec`, at its end, puts the three side by side: they
share the machine, and `HostKept` is what each promises of it.

## 4. Runs

| run | shows |
|---|---|
| `clock_steps` | Interpreter, both cores awake or asleep: every slot, tick, edge, EE cycle and wake-up of the one-cycle machine also happens under `run`; a frame slice carries exactly one start edge; the proofs' invariant holds |
| `clock_chains` | With recompiled chains, region changes and polling: slots and edges are replayed, `frame_pos` stays in the frame and in phase, locals never go below zero, every slice ends |
| `timers` | Compares, targets, wraps and deferred completions are seen on the first grid cycle and flagged exactly; region changes move no count; every count is that of a counter that ticks |
| `gs_front` | The threaded front implements the inline one across drawing, uploads, blanks, reads, snapshots, loads, power cycles and register accesses; blocking calls return, a drop joins, what is drawn arrives |
| `devices` | Chains, packets and lists have the effects they mean; the drive, the serial port, the sound unit, the link and the decoder keep their promises |
| `code` | The three recompilers leave what their interpreters leave, whatever is patched, evicted or linked in between; arithmetic agrees between the two engines (`DataExact`); cheats, breakpoints, watches, disc swaps and the card keep their promises around a running machine (`HostKept`) |
| `gs_core` | A batched, parallel, palette-lazy rasterizer holds what a serial one would; kicks, transfers, samples, addresses, coverage, shading loops and displayed fields are their reference forms |
| `clock_lost_vblank`, `timer_zero_return`, `vu_end_branch`, `gs_lane_order`, `gs_pool_full` | A statement of the code that what it does refutes (section 8) |

### Bounds, and why they are enough

*Clock.* The code's ratios are 8 (EE cycles an IOP slot), 64 (tick grid), 32 (INTC
latency), 8192 (look-ahead), 256 and 4096 (chain budget), frames of about 4.9 million
cycles. The instances use 2, 4, 3, 8, 4 and 12, frames of 12 and 16 cycles with edges at
8 and 12. What the properties depend on is kept: a tick is several slots, the latency
shorter than a tick, the chain floor longer than the latency, frames and edges whole
slots, and neither frame twice the other (`FrameAssumption`, true of NTSC and PAL).
Explorations are 9 to 26 cycles, up to two frames: every edge and the wrap are met
from every phase of a slice (a history of 4-, 5-, 9- or 14-cycle runs and single steps).
What the argument does not need an instance for is proved for every value.

*Timers.* Counters of 8 values with periods of 2 (below the grid) and 13, 14 or 15
(a blank line, above the look-ahead) and a look-ahead of 12, so that a counter wraps
several times and a line outlasts a tick in 14 to 22 cycles. `WrapAssumption` (nothing
wraps between two ticks) and `LineAssumption` (a line is longer than the look-ahead;
18742 and more against 8192 in the code) are what the code relies on; TLC checks them
on the instance. One timer of a kind is enough for what is checked: timers do not read
each other, and they meet in `timers_due` only, where the look-ahead, the sample clock
and the deferred queues compete with it.

*GS front.* Batches, runs and the channel hold two, two and one (4096, 65536 and 256 in
the code): each overflows while the others hold something, which is what the order of
commands depends on. Up to three writes of two values distinguish every reordering;
two display values and one 2x switch distinguish stale copies from fresh ones.

*Devices.* Two discs and reads of two chunks let a drain end early, late and across a
change of disc; three packets of one or two transfers meet every order of the two
channels of SIO2; a ring of six samples with six blocks wraps three times; two packets
down and three up the link, of one quadword and of one and a half (so that padding is
needed), with a reset in between. The chains are programs of up to two levels of
call, all the address stack has, every kind of tag, interrupts in the middle and a run left in
the registers (`Leads`); 42 turns (`Guard`) are enough for each of them, and the assumption on
the programs says so; FIFOs of the IPU hold two of four-bit
quadwords (8 of 128), so that every unit starves at every read.

*Code.* Sixteen words of memory in two pages with a mirror, blocks of three and four
instructions, an arena and a table small enough to evict: each program jumps between
two or three blocks, and a patch can hit each of them. Budgets of 1 to 7 end chains at
every place. Words of four bits have all cases of sign, overflow and shift; `H` is a
constant. Floats keep zero, denormal, smallest and largest normal and the patterns the
unit treats as such (no infinity, no NaN).

*Host.* Two cheat files with sections that overlap in name, conditionals that reach over
a section, one-shots on either side and a command outside RAM; two frames show what is
spent. A debug session has both clients, or one with an idle loop and interrupts, or one
cell watched under both of its addresses, and the IOP runs every second cycle: every
order of stop, continue, step, detach and slice is met. Two discs, two queued commands
and one section of cheats a disc let every command be overtaken by a picker, a power
cycle and a debugger that attaches in between.

*GS core.* Eight blocks of memory, two lanes, batches of six pixels, two palette slots,
two recorded loads and behaviours of five operations: a batch, a conflict of every kind,
a full pool and a full list of loads fit in. Pages are full size (`GsLayout` checks
every pixel of a page against its row form, for twelve formats). Primitives are a few
pixels wide with vertices on and off the pixel grid; frames are two by ten pixels, with
enough rows for the deinterlacers' five-row neighbourhoods.

CHECK_DEADLOCK is left on for the clock, the timers and the front: `Finished`, `AtBound`
and `Gone` name the states in which an exploration, or the front, has ended. It is off
in `devices`, `code` and `gs_core`: their drivers stop at a bound of operations, and what
must not wait is a property there (`NothingStuck`, `Settled`).

### Fairness

`Scheduler`: weak fairness of the steps between two host calls (`FairSpec`). It is one
thread of straight-line code that nothing suspends; nothing is assumed of the host.
`GsFront`: weak fairness of the worker's steps and of the front's own steps once it is
inside a call (`FairSpec`), since neither thread stops in the middle of its work. For
`DrawingArrives` also strong fairness of `VerticalBlank` (`FrameSpec`): the machine
reaches its vertical blanks whatever it calls in between, although at every single
moment it may be blocked in some other call. Nothing forces a call to be made.

## 5. What is proved

The proofs are in the modules `X_proofs`; `PROJECT.json` lists the theorems with what each
establishes. They hold for every value of the constants that
the named assumptions allow, and for every `Uses`.

### The clock (`Scheduler_proofs`; `ClockAssumption`, `FrameAssumption`, `UseAssumption`)

- `SchedulerIInv`, `SchedulerTypes`, `SchedulerInFrame`, `SchedulerAligned`: the inductive
  invariant; no unsigned local is taken below zero; one subtraction in `wrap_frame_pos`
  always suffices; `frame_pos` and `cycles` keep the same phase of the IOP clock.
- `SchedulerVblankAhead`: nothing passes an edge or the end of the frame that lies ahead.
- `SchedulerCoreCadence`: behind jumps, groups and recompiled chains no IOP slot and no EE
  cycle is lost. `SchedulerWakeOnTime`: while the IOP is awake a sleeping EE is woken on the
  slot at which its interrupt is deliverable.
- `SchedulerCadences` (no use with the recompiler): ticks and, with the IOP awake, edges
  too, so that `run` is the one-cycle machine. `SchedulerFrameSlice` (also: no program
  changes the region inside a frame slice, `FrameUses`): a frame slice carries exactly one
  start edge and ends on the cycle behind it. Both restrictions are those under which
  the statements are true: `run_iop_groups` misses ticks (section 8), and a slice is
  measured by the region it began in.

The argument. `InFrame` alone is not inductive: a change of region in the EE's turn, or
in the middle of a chain, leaves `frame_pos` beyond the new frame until the next wrap,
and the batches of groups advance it without wrapping at all. `IInv` says what holds at
each place instead. `FrameRoom`: inside the frame between cycles, and less than one
step short of twice the frame where a region change can be pending (this is where
`FrameAssumption`'s "no frame is twice another" is used). `GroupRoom`: what is left of
a batch ends at or before the next edge or the end of the frame, kept by every slot.
`TailRoom`: a chain that enters a group's tail still has the tail's cycles to replay.
`GroupPhase`, `Turns` and `EeAhead` say which slots and cycles the place in the code has
already given away, which is what the cadences need; `BatchOffEdge` that a batch does not
begin on an edge. The interpreter's cadences add `Fresh` (between two cycles nothing is
given in advance) and `Interpreted` (control never reaches `advance`), the frame slice
`TargetRoom` (the slice covers what control has committed to) and `SliceInv` (in front of
the edge, on it, or one cycle behind). `IInv` is also checked by `clock_steps`.
`WakeOnTime` had to be stated for an EE that is not taken for polling: the attempt to prove
it without showed that `run_idle_ee_groups` leaves an EE asleep that went idle while
`ee_spinning`, against its comment "A spinning EE is not idle" (`lib.rs:868`).

### The tick (`TickTimers_proofs`; `TimerAssumption` and what is named)

- `TimerTypes`, `TimerRebase`: no count leaves its width; a change of region moves no count.
- `TimersImplement`: each timer of either processor implements `EagerCounter`. A step makes
  the count stand, restart (at the present cycle) or run for one cycle; in the last case
  `ShownStep` says that `(base + s \div p) % w` with the phase `s % p` moves as a prescaler does.
- `DeferredInTime`: deferred completions are delivered on the first grid cycle. Invariant
  `Awaited(e)`: `timers_due` is not behind the event, and the first grid cycle of the event
  is not over.
- `EeComparesInTime`, `ComparesInTime`: so are the compares of the EE timers, and the targets
  and wraps of the IOP timers if none is in zero-return mode (`timer_zero_return` shows that
  it is false otherwise). `EeInv` and `IopInv` cover every timer's next event by `timers_due`;
  `EeCovers` and `IopCovers` say that the next event is ahead, comes no sooner as time
  passes, and was due if the value is reached. A change of region does not reset `timers_due`:
  there `GapInv` (the tick is due within the look-ahead) and `LineAssumption` (a line is longer
  than the look-ahead) carry the argument.
- `FlagsInTick`: the tick sets exactly the flags of what was reached, under `WrapAssumption`
  (no counter goes around between two ticks), for programs that write timers only while they
  are stopped and do not change the region (`Steady`). Invariant `FlagInv`: the history has noted a
  value exactly if the look back from now to `last_check` finds it (`Past`, `PastStep`), and
  that look is shorter than a wrap (`ShortLook`). It is not true of `rebase`, which leaves
  `last_check` in front of the new base (section 8).

### The GS front (`GsFront_proofs`; `FrontAssumption`)

- `GsFrontImplements`: the threaded front implements the front with the renderer on the
  calling thread, for any sizes of run, batch and channel, any number of writes and any
  scheduling; a load that the worker rejects is a step of its own (`RejectState`).
- `GsFrontTypes`, `GsFrontEmptied`: the threads and the channel keep their shape; a front that
  is gone has left nothing behind, and with nothing in between the worker's renderer is the
  promised one.
- `GsFrontCaughtUp`: and agrees with the registers and the display the front answers from,
  if no load is rejected (a rejected one replaces the front's registers, section 8).

The renderer of the refinement is not computed by folding over the queues, which no
installed prover can unroll. Two history variables hold it: `promised`, the renderer with
every accepted command executed, and `sent`, with every command handed to the channel
executed. The invariant relates them to the queues by the *runs* between them:
`Run(s, cs, d)` says that executing `cs` leads from `s` to `d`, and `Delivered` the same of
a channel of batches with one half executed. `Handed`: what the worker has still to do leads
to `sent`. `Queued`: the batch and the run collected lead from there to `promised`.
`Replies`: a reply on its way is the renderer's once it has caught up. `Waits`: who is
blocked on whom. Each step of either thread cuts or extends one of the runs.

### The IOP's devices, the GIF and the VIF (`Devices_proofs`; `CdvdAssumption`, `SpuAssumption`, `SioAssumption`, `GifAssumption`, `VifAssumption`)

- `CdvdInvariant`, `CdvdDriveKept`: every accepted command ends with one interrupt,
  superseded or not, behind a drain or not; nothing of another disc is delivered; the
  configuration area is touched in its bounds. `DriveHolds` adds to the promise when the
  completion is scheduled, waits for the drain, or has been given.
- `SpuSoundKept`: a stream that keeps up is played in order and completes in the ring; an
  interrupt is latched while enabled only, and by a voice for the block it plays; a loop
  point of software stays. `InRing` says which of the queued blocks are in which half,
  `LandsInTime` that the due time is not before the last block has landed.

- `SerialPortKept`: for any packets, block length and card, replies stand where their blocks
  begin, a poll carries what the pad's mode says, the card holds the pages written, and each
  reply is moved once. `Sending` is where the loop over the sub-transfers stands after i
  turns; the card's side compares `progress` with the bytes of `paged`.
- `PathsKept`: for any packets, sent by any path and cut anywhere, the register writes are
  those the packet means, and the unpacker waits for a tag afterwards, a kick with no end
  included. `Inside` is the unpacker after j items of a primitive, `QuadStep` one quadword of
  any of the three modes, `StreamAt` the unpacker and its output k quadwords into a packet;
  `WordsAre` places each primitive's quadwords in the stream. A transfer (`FeedStream`) and a
  kick (`KickPacket`) repeat `StreamStep`; memory behind a kicked packet is not looked at,
  since `StreamEnds` says that `end_of_packet` holds there and nowhere before.
- `ListsRead`: whatever codes a list has, in any order and with any settings left by the lists
  before it, the VIF takes for a code what is one (`InSync`), and a list read to its end has had
  the effects it means (`EffectsExact`): each write at the address and from the vector that STCYCL
  and the mask give, each microprogram in place, each DIRECT whole.
- `ListsKept`: if the lists are `Disciplined`, all of `ListsExact`: a program started after a
  rebased UNPACK runs on the buffer just filled, and the next rebased UNPACK fills the other.
  Without the hypothesis this is no promise of the VIF: a list may add TOPS to an address that is
  not the buffer's, or never lay the buffers out. `MCDevices` assumes `Disciplined` of the lists it
  checks, so TLC evaluates it.

What a list means is a function of the settings each of its codes finds, and so is how long it is:
`ListIs` has, code by code, the settings (`at`), the words (`W`) and the effects (`M`) before it.
`OnCode` is the VIF between two codes: settings, effects so far and words left are those of the i-th
code. `InCode` is the VIF among the data words of one: `Midway` is the decoder's state after
j data words, with the first k of the code's effects done. For an UNPACK `UnpackAt` holds the bytes
that wait: 4 j less those of the vectors consumed by k writes, which `VectorsNext` counts through filling
and skipping cycles, and too few for the next write; a code's last word has every write done, since by
`UnpackWords` its data have all the bytes. `PushWord` moves from `OnCode` to `InCode` to the next `OnCode`.
`Steady` is the invariant of double buffering over the codes: where TOPS stands, which buffer the last
rebased writes filled (`Filled`) and the last program ran on (`RanOn`).

The specifications of the bus's devices (`CdvdSpec`, `SpuSpec`, `Sio2Spec`) are open: any other
device may raise and acknowledge lines of the bus in between (`BusNext`).

### The link of the processors and the chains (`Sif_proofs`; `SifAssumption`, `ChainAssumption`)

- `LinkKept`: on both paths of the SIF, for any packets, any cut of the EE's chain and any order
  of starts: what lands was sent, in order and, up to a reset, with nothing left out; each end of
  a transfer is signalled once and with its data landed; no channel stays armed with data it could
  take; between packets a stream stands at a tag; a reset leaves nothing of what it cut; no flag
  bit is lost before it has been read.
- `ChainsKept`: for any programs, layout, runs and scratchpad size: a
  source channel started with an empty call stack moves exactly what its program means, in
  order, with the upper halves of the tags under TTE and up to the tag that interrupts under
  TIE; a destination chain puts each run where its tag says, across the scratchpad's end.

The frames of the packets sent, a tag, data and padding each, are one stream of words. `Laid`:
what is in a FIFO, with what the EE has still to push, is a stretch of it that is contiguous up
to its end. `Taken`: what has been received is data that lies before that stretch, in order,
and all of it while the IOP has not been reset. `Stands1` and `Stands0` tie a
receiving channel to the word the stretch begins with: the data and padding it still counts are
those from there to the end of the packet. `Core1` and `Pumped0`: the interrupts raised, plus the
one a channel owes, are as many as ends have landed. These hold at every turn of the loops, where
the properties do not (a chain with its end still to signal, a FIFO with data to take): `TurnKeeps1`
and `TurnKeeps0` are one turn, `Pumping1` and `Pumping0` all of them, with what is left in the
FIFO as the fuel that shows the loop comes to rest (`Rests1`, `Rests0`). `Settled` and `Aligned`
say that the IOP's receiver never rests between a packet's data and its padding, since the EE
pushes whole quadwords; that is what puts the interrupt at the last word of data. `AtReset` and
`ResetAlone`: the reset is the only one and nothing is behind it on its path (software waits for
the rebooted IOP: `ResetSent`); `MarksHold`: what is on the link afterwards is newer than `reset_at`.

`ChainAssumption` is about the software: its blocks lie apart and go on only where there is a
block, its calls nest no deeper than two (the third is dropped by the code with a warning),
and it asks for fewer turns than the guard allows (a longer transfer stops half way, with a
warning). Without each of these the promise is false. The proof follows the pump's turns. `AtTag` is the pump
before a block with a given call stack; `Walked` says of a reading of that block that,
after the turns the reading counts, the pump has moved what it means and stands at the end or
behind the routine, on what was the top of the stack (`WalkLeft`). That holds of
every reading of depth n (`AllWalk`), by induction on n: `WalkBlock` is the step, in which
a call takes its routine's reading with a stack one deeper and then that of the block
behind it. `nest` says the stack has the room and `turns` that the guard is
not reached. The inductive invariant `ChainHolds` adds only the types: a start puts the channel
at the program's first block, so that nothing a transfer leaves matters but the call stack.
For a destination chain `ToRun` and `InRun` place the pump before and inside run k.

The link of `Sif` takes at most one reset; with two, what a second one cuts would need the history
of both.

### The host (`Host_proofs`; `CheatsAssumption`, `WorkerAssumption`)

- `HostCheatsKept`: a one-shot takes effect once per boot or table, and a conditional skips
  exactly the commands its file counts, whatever is switched, saved or booted. Skipping is
  promised of a whole frame; `FrameSoFar` is what holds in the middle of one: the commands
  come past (`Past`) ran unless idle or skipped, those ahead neither ran nor are skipped by
  anything behind the present one. One-shots spent in the frame do not disturb it, which is
  why it goes by what was idle when the frame began.
- `HostDebugKept`: no breakpoint of a client is run past but for the two exceptions named at
  `BreakpointsSeen`, a watched change ends the slice that makes it, the bus's ranges follow
  the watches. `OneByOne` is the step the code leaves implicit: a client that has the EE
  running was there when the pump chose to retire one instruction a cycle, since a client
  accepted later is halted. `Clean` and `Ranges` say what a lost client leaves until the next
  pump. `NothingMissed` is the argument proper: what runs in a cycle is where a target was
  looked at, or the vector it was led to behind the stub's back.
- `HostWorkerKept`: with the commands handled and none on the drive dropped, UI and worker
  agree on disc, label and cheats; a written card is saved or marked; `--wait-debugger` holds
  the machine. The queue is why the promise alone is not inductive: `QueueLeads` says that the
  commands queued lead (`Leads`, each by its `Effect`) from what the worker has to what the UI
  shows. A command sent extends the path, a command handled cuts its head off.
- `HostSafe`: whichever of the three acts, all of it (`HostKept`).

`CheatsAssumption` says that the table of a file is well formed: one owner and one flag for
each command, no section out of range. `TableOf` flattens the sections with the library's fold,
about which no lemma is stated here; TLC evaluates the assumption for the files of `code`.
`WorkerAssumption` says that "no disc" is not a disc.

### The units of the drawing side (`GsUnits_proofs`; `TrxAssumption`, `TexelAssumption`, `DisplayAssumption`)

- `TransferInOrder`: for every rectangle, format and cut of the stream into HWREG words and
  image runs, the pixels land in raster order and none past the rectangle. `Placed(m, n)`:
  the memory holds the first n pixels and nothing else; `Behind(c, n)`: the cursor is at
  pixel n. One pixel (`PutNext`), one byte of the packed format (`ByteKeeps`) and one piece of
  a row (`RowKeeps`) each take n forward; induction over the turns gives a word, a run of
  words and `image_rows` (`PushKeeps`, `Push24Keeps`, `RowsKeep`).
- `KicksMakePrimitives`: for every kind and any number of kicks. `Queue(k, h)` says what the
  vertex queue is, of the vertices since PRIM: that is what `PrimitiveOfKicks` lacks to be
  inductive, since a strip and a fan keep vertices of earlier primitives.
- `StreamsLand`: both, as the run states them (`StreamsInPlace`).
- `CacheReadsDirect`: for every texture, wrap mode, chunk and sequence of reads. `Good`: each
  row that is known holds the texels from its first column on. The bilinear run reads two
  rows of the cache by `lo`, which is where a row that only ends late enough would be wrong.
- `FieldsAreShown`: for every picture and even height: a still picture, no comb with bob or
  where the adaptive mode sees a change in full, the neighbours in time. `WovenIs` and `HistoryIs` date each row
  of the kept frames by the number of fields taken in this mode and size; `Counted` ties that
  to how long the picture stands; `MotionFades` bounds the adaptive mode's weights by how
  often they were halved (`Level`), which gives the 18 fields; `MotionSeen` is the other end,
  the full weight a change of 40 gives, with which a mixed pixel is bob's (`SeenShown`). `Best` and `MaxIs` say that the
  CHOOSE of a direction and the maximum of a window exist.

The loops are recursive functions over the numbers. `Least` (from the library's
well-foundedness of < on Nat) gives `Induction` over *sets* of numbers; the set of the k for
which a sequence of states up to k obeys the loop's equation, and then the set of the k after
which the invariant of the loop holds, are shown to be Nat (`PushTurns` and `PushKeeps` and
their like). So no theorem with an operator parameter is needed.

`DisplayAssumption` has an even height because `display_view` cuts an odd one down
(`gs/mod.rs`, `h & !1`) and a frame of less than two rows is not woven.

### Only model-checked

- `VblankCadence` with both cores asleep and the IOP's targets in zero-return mode are
  false (`clock_lost_vblank`, `timer_zero_return`).
- Liveness and fairness (`SliceEnds`, `CallsReturn`, `DrawingArrives`): the proof system has no rules for it here.
- `Ipu`, `EeJit`, `IopJit`, `Vu1`, `EeAlu`, `EeMmi`, `GsLayout`:
  RECURSIVE operators or `Bitwise`, with which the SMT backend is lost. Those that a promise
  rests on have to become functions of the turn first (plan, step 10).
- `GsBatch`: its promise compares folds over primitives. `DrawsInOrder` and `PoolLasts` are false of some programs (`gs_lane_order`,
  `gs_pool_full`), so that a theorem would be about the rest only.
- `SetupHolds`: the reference forms of `GsRaster`, `GsLayout` and the filters of `GsTexel`, on
  the cases of `MCGsCore`.

## 6. Limits of the positive results

- `clock_steps` and `clock_chains` check `VblankAhead` and edges while the IOP is awake,
  not `VblankCadence`, and `clock_chains` does not check the tick's cadence: these are
  the statements `clock_lost_vblank` and the by-hand check of a missed tick refute.
  `WakeOnTime` is checked for an IOP that stays awake: with both cores asleep it does
  not hold (section 8).
- The exact-flag properties hold for timers that are not written between two ticks of
  the tick grid, nor moved to another region (section 8); both are in the same run for
  the properties that do hold. IOP timers in zero-return mode appear in
  `timer_zero_return` only.
- `EeChain` claims its chains from an empty call stack: an interrupt tag inside a
  routine leaves the stack as it is, and nothing empties it. The upper half of a
  quadword a DMA writes is an exception of `StaleQueued` (section 8).
- `BlocksInOrder` and `CompletesInRing` are about streams that keep up.
- `gs_core` tests depth, with and without a Z write, in memory that is a Z buffer to every
  primitive of a batch. It leaves out a Z buffer, written or only read, over memory that is
  a frame to another primitive of the batch, scissored-away triangles
  that fill the pool, palettes taken over a flush, and bilinear declared reads: section 8
  tells what happens there. `GsTexel` has one wrapping mode for both axes.
- `BreakpointsSeen` leaves out a handler the IOP enters in the very step that runs its
  first instruction, `RangesFollowWatches` a cell of which one of two addresses was given
  up, and `DiscAgrees` a command on the drive that the worker dropped (section 8). A
  debugger's client is taken to wait for the reply to a packet before the next.
- The VU's program properties exclude an E-bit branch with a branch behind it.

## 7. Not modelled

- *What wraps the machine*: display, audio, key maps, configuration, the control port's
  text protocol, the framing of the debugger's packets and its register file, the
  parsing and rewriting of cheat files, the memory scanner, profiling. It is I/O and
  string processing around `run`.
- *Data paths*: the MPEG tables and inverse transform, sample interpolation, volumes and
  reverb, the elementary functions of the vector unit, the quantization and the divide of
  STQ (`quant`, `stq_coord`), the internal 2x overlay, the encoding of x86 instructions.
  They are pure computation that unit tests compare bit for bit.
- *Tables*: the drive's clock and identification commands, the pad's constants, disc
  formats, the BIOS image.
- *State that nothing depends on*: HOLD of the EE timers, recycled batches, counters, logs.
- *Whole-machine composition*: the components meet in `MCDevices` through the lines they
  raise; `Scheduler` and `TickTimers` take an action with the effect a device has on the
  shared state. A product of the clock with any of the devices is beyond TLC's reach in
  the bounds that would show anything, and the properties of either do not read the other's
  state.

## 8. Disagreements between the code and what it says

Checked by a run (`findings` of `PROJECT.json` quotes the lines):

- **A lost vertical blank** (`clock_lost_vblank`). `next_event_in` treats the edge of
  the current cycle as passed, `quiet_iop_groups` does not. If both cores are asleep on
  that very cycle the jump skips the edge, and with it the interrupt, the frame and the
  cheats of that frame. `lib.rs:688` says "0 = one is due now".
- **An IOP timer seen late** (`timer_zero_return`). `tick_timers` asks an IOP timer for
  its next event before it resets a zero-return count.
- **Two places to go on** (`vu_end_branch`). A branch in the pair behind an E-bit branch
  overwrites the `next_pc` of the recompiled program, not of the interpreted one.
- **Lanes out of order** (`gs_lane_order`). Writes are tagged by base and width only, so
  a frame and a Z buffer of the same base share a batch although their pages are
  swizzled differently, and one lane's pixel is another lane's depth (the part "cleared").
  A Z buffer under its write mask is in neither list although the depth test reads it
  (`raster.rs:2658`): a frame and then a test in the frame's memory, or the other way
  round, share a batch and the lanes decide which pixels pass (the part "masked", which
  fails alone too). `raster.rs:10` says "results are bit-identical to a serial pass".
- **A full palette pool** (`gs_pool_full`). The flush that should empty the pool returns
  early when the queue is empty; the next lookup finds no block and panics.

Checked by hand, one configuration at a time, and not kept as runs (the constant to set
and the property to check are named; TLC finds each in seconds):

- *A missed tick*: `run_iop_groups` does not look at `timers_due`, although an IOP store
  inside the batch can move it; its sibling does (`lib.rs:807`; `MissedTickUses`,
  `TickCadence`).
- *A frozen handler*: `ee_spinning` outlives an exception that takes the EE out of the
  poll loop; the handler's cycles are skipped in groups until INTC_STAT moves
  (`bus.rs:2799`; `FrozenHandlerUses`, `SpinIsThePollLoop`).
- *A rejected load that is not void*: with the renderer on its thread `restore` decodes
  nothing; the registers are replaced, the queue dropped, and the worker alone finds out
  (`gs/front.rs:576`; `RejectUses`, `RejectedLoadIsVoid`).
- *A late stream*: the completion of an ADMA transfer that ran dry is not that of its
  last block (`spu2/mod.rs:426`; `CompletesInRingAlways`).
- *A lost announcement*: an IPU command that finishes inside a register read announces
  nothing until the next write (`bus.rs:2311`; `DoneReported`).
- *Half a quadword*: a fromSPR transfer writes quadwords and notes the lower doubleword
  of each (`bus.rs:3568`); code in the upper one keeps its translation (`CodeKnown`).
- *A stale palette*: `refresh_clut` picks a recorded load, then flushes because the pool
  is full; the flush draws over the memory the load reads, and the palette is decoded
  from that. `gs/clut.rs:22` says "Local memory has not changed since it was recorded"
  (`Parts = {"drained"}`, `DrawsInOrder`).
- *Undeclared reads*: `tex_blocks` misses the lower tap of a bilinear sample half a
  texel back, and the right part of a texture wider than its buffer (`Sampled(TRUE)`
  among `Cases`, `ReadsDeclared`).

Met while modelling, not checked:

- With both cores asleep `run` jumps past the cycle at which an INTC line raised before
  becomes deliverable; `lib.rs:626` says tick and edge are "the only things that can
  wake either of them". The delay is bounded by the jump.
- A chain entered after a line was armed retires past its delivery, up to CHAIN_MIN
  cycles, while `bus.rs:3694` says the EE "must not retire past the point where it
  would have taken the exception".
- `Timers::rebase` moves `base_cycle` past `last_check`: a compare reached between the
  last tick and a change of region is not flagged (`timers.rs:146`, "Edge-detect compare
  matches since the last call"). TLC finds it if `Steady` leaves the region out.
- A COMP lowered under a running timer to a value passed since the last tick is flagged
  although COUNT never equalled it (`timers.rs:106`, `timers.rs:116`).
- `Timer::count` ignores CUE: a stopped timer goes on counting, while `timers.rs:151`
  says "CUE (bit 7) gates counting."
- A full HWREG run is moved to the batch but never sent from `flush_image`, so a long
  upload is held until another command (`gs/front.rs:119`, "so a long upload streams to
  the worker").
- `pixel_pipe` takes its palette block before the primitive is enqueued; a flush inside
  the enqueue empties the pool. Points and inline draws write the memory of a recorded
  load without settling it.
- The shared end of two line segments with fractional vertices is drawn twice
  (`gs/raster.rs:706` says it is not), and pixels on an edge two triangles share belong
  to both.
- After a switch of the deinterlacing mode history and motion are those of older fields
  for a few fields; yadif's spatial check softens still lines of one row.
- The EE's idle-loop test reads words before the block's own range; a block over two
  pages that are not contiguous in memory is tracked by the first.

- A breakpoint on the IOP's exception vector is not seen when the IOP is idle (it is
  woken and stepped into the handler in one call) or when the EE's instruction of the
  same cycle raises the line; `ps2-debug/src/lib.rs:64` says why the handler is entered
  before the pc is examined.
- The skip of a continue is used up by the next examined pc, whatever moved it: after a
  single step by the other client it hides a breakpoint the client has not seen, and
  with both processors at a breakpoint the EE stops a second time at the same pc.
- Two watches of one cell by different addresses share one range on the bus; the first
  `z2` disarms both (`ps2-debug/src/watch.rs:28`).
- A debugger that attaches while the picker is up makes the worker drop the CloseTray
  behind it: the tray stays open, and the next OpenTray overwrites `removed` with
  nothing, so that a cancelled pick then loses the disc. `emu.rs:75` says "a cancelled
  pick changes nothing". (`DiscAgrees` without `~refused`.)
- `emu.rs:39` says a disc's cheats are "already carrying whatever `cheats.toml` had
  switched off"; both callers pass the file's list as loaded, so that switched-off
  sections are on until `sync_cheat_key` has re-sent the list.
- Until the worker has handled a BootDisc or CloseTray, `sync_cheat_key` goes by the old
  disc's serial: a section toggled in that window is stored under the old disc.
- A conditional with `place` 0 whose condition failed is spent like one that held: from
  the next frame on it guards nothing.

## 9. Running it

`tlc -workers 2 -config MCScheduler_clock_steps.cfg MCScheduler` and likewise for the
other `.cfg` files (the module is the part before the first underscore); `tlapm
Scheduler_proofs.tla` and so on for the proofs. The longest runs take about two minutes.
