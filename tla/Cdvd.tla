-------------------------------- MODULE Cdvd --------------------------------
(***************************************************************************)
(* The disc drive (bus.rs, Cdvd) with DMA channel 3, the deferred end of   *)
(* an N command (the head of Bus::tick_timers) and the configuration       *)
(* blocks of its NVRAM.  Staged sectors are counted in chunks.             *)
(*                                                                         *)
(* owed is history: commands that have ended, or are running, and have not *)
(* interrupted yet.  excused is history too: the tray was opened on a held *)
(* completion, or a state was loaded.                                      *)
(***************************************************************************)
EXTENDS IopBus, Integers

CONSTANTS
    Disc,                \* disc images
    NoDisc,
    MaxChunks,           \* chunks a read stages, at most
    CfgArea,             \* CfgArea[a] = [base, cap], in blocks
    CfgBlock,            \* the blocks of the NVRAM
    MaxBudget            \* bound on the block count software asks for

ASSUME CdvdAssumption ==
    /\ "cdvd" \in Line /\ "cdvd" \in IopChannel
    /\ MaxChunks \in Nat /\ MaxBudget \in Nat
    /\ \A a \in DOMAIN CfgArea : CfgArea[a].base \in Nat /\ CfgArea[a].cap \in Nat

VARIABLES
    disc, tray_open, shelf,      \* shelf: the disc held while the tray is open
    settled,                     \* spun up and identified
    n_busy, staged, staged_from, \* chunks not drained, and their disc
    dma_deferred,                \* channel 3 armed, waiting for data
    done_after_drain,
    key,                         \* disc whose key the window shows
    cfg,                         \* the configuration session
    nvram,                       \* session that wrote each block, by area
    owed, excused

drive   == <<disc, tray_open, shelf, settled>>
command == <<n_busy, staged, staged_from, dma_deferred, done_after_drain, key>>
config  == <<cfg, nvram>>
cdvd    == <<drive, command, config, owed, excused>>

NoSession == [write |-> FALSE, area |-> 0, blocks |-> 0, index |-> 0]
Unwritten == -1

CdvdInit ==
    /\ disc \in Disc \cup {NoDisc} /\ tray_open = FALSE /\ shelf = NoDisc
    /\ settled = FALSE
    /\ n_busy = FALSE /\ staged = 0 /\ staged_from = NoDisc
    /\ dma_deferred = FALSE /\ done_after_drain = FALSE
    /\ key = NoDisc
    /\ cfg = NoSession /\ nvram = [b \in CfgBlock |-> Unwritten]
    /\ owed = 0 /\ excused = FALSE

Loaded    == disc # NoDisc /\ ~tray_open
Remaining == staged > 0

\* The drive status: cdvdman reads a disc once it is paused on it.
DriveStatus ==
    CASE tray_open           -> "open"
      [] ~Loaded /\ ~tray_open -> "stopped"
      [] Loaded /\ ~settled  -> "spinning"
      [] Loaded /\ settled   -> IF n_busy THEN "reading" ELSE "paused"

Minus(a, b) == IF a > b THEN a - b ELSE 0

(***************************************************************************)
(* The tray.  Opening it drops what belongs to the disc.                   *)
(***************************************************************************)
OpenTray ==
    /\ ~tray_open
    /\ tray_open' = TRUE /\ shelf' = disc /\ disc' = NoDisc
    /\ key' = NoDisc
    /\ staged' = 0 /\ staged_from' = NoDisc /\ done_after_drain' = FALSE
    /\ excused' = (excused \/ done_after_drain)
    /\ owed' = IF done_after_drain THEN 0 ELSE owed
    /\ UNCHANGED <<settled, n_busy, dma_deferred, config, iop_bus>>

CloseTray ==
    /\ tray_open
    /\ tray_open' = FALSE /\ settled' = FALSE
    /\ disc' \in {shelf} \cup Disc
    /\ shelf' = NoDisc
    /\ UNCHANGED <<command, config, owed, excused, iop_bus>>

\* now reaches ready_at and identified_at; an IOP reboot moves ready_at on.
Settle == ~settled /\ settled' = TRUE
          /\ UNCHANGED <<disc, tray_open, shelf, command, config, owed, excused, iop_bus>>
Resettle == settled /\ settled' = FALSE
            /\ UNCHANGED <<disc, tray_open, shelf, command, config, owed, excused, iop_bus>>

(***************************************************************************)
(* N commands.  A read stages its sectors at once; the drive answers after *)
(* its latency.                                                            *)
(***************************************************************************)
\* Nothing of an earlier command is still to be interrupted for.
Free == owed = 0

NRead ==
    /\ Free /\ DriveStatus # "spinning"
    /\ IF Loaded THEN \E n \in 1 .. MaxChunks : staged' = n /\ staged_from' = disc
       ELSE staged' = 0 /\ staged_from' = NoDisc
    /\ done_after_drain' = FALSE /\ n_busy' = TRUE /\ owed' = 1
    /\ UNCHANGED <<drive, dma_deferred, key, config, excused, iop_bus>>

\* sceCdReadKey takes the key from the disc; a seek and the quick commands
\* leave what is staged alone.
NReadKey ==
    /\ Free
    /\ key' = disc /\ n_busy' = TRUE /\ owed' = 1
    /\ UNCHANGED <<drive, staged, staged_from, dma_deferred, done_after_drain,
                   config, excused, iop_bus>>
NQuick ==
    /\ Free
    /\ n_busy' = TRUE /\ owed' = 1
    /\ UNCHANGED <<drive, staged, staged_from, dma_deferred, done_after_drain, key,
                   config, excused, iop_bus>>

(***************************************************************************)
(* Channel 3 and the completion.                                           *)
(***************************************************************************)
\* do_cdvd_dma moves n chunks: the channel completes, and with it a command
\* held for the last of them.
BadDrainDone(n, held) == held
DrainDone(n, held) == held /\ Minus(staged, n) = 0
CdHeld(n, held) == held /\ ~DrainDone(n, held)
CdDrain(n, held) ==
    /\ staged' = Minus(staged, n)
    /\ Complete({"cdvd"}, IF DrainDone(n, held) THEN {"cdvd"} ELSE {})
    /\ done_after_drain' = CdHeld(n, held)
    /\ owed' = IF DrainDone(n, held) THEN owed - 1 ELSE owed

\* A write of CHCR with the start bit, for n chunks.
StartCdvdDma ==
    \/ /\ n_busy \/ ~Remaining
       /\ dma_deferred' = TRUE
       /\ UNCHANGED <<drive, n_busy, staged, staged_from, done_after_drain, key, config,
                      owed, excused, iop_bus>>
    \/ /\ ~n_busy /\ Remaining
       /\ \E n \in 1 .. MaxChunks : CdDrain(n, done_after_drain)
       /\ UNCHANGED <<drive, n_busy, staged_from, dma_deferred, key, config, excused>>

\* The latency is over.  With a channel armed and sectors staged, the first
\* chunk goes and the interrupt waits for the last one.
FinishN ==
    /\ n_busy /\ n_busy' = FALSE
    /\ IF dma_deferred /\ Remaining
       THEN /\ \E n \in 1 .. MaxChunks : CdDrain(n, TRUE)
            /\ dma_deferred' = FALSE
       ELSE /\ Complete({}, {"cdvd"})
            /\ owed' = owed - 1
            /\ UNCHANGED <<staged, dma_deferred, done_after_drain>>
    /\ UNCHANGED <<drive, staged_from, key, config, excused>>

\* Bus::after_load derives done_after_drain from what the state holds.
CdvdAfterLoad ==
    /\ done_after_drain' = (~n_busy /\ Remaining)
    /\ done_after_drain' # done_after_drain
    /\ owed' = IF done_after_drain' THEN 1 ELSE owed
    /\ excused' = TRUE
    /\ UNCHANGED <<drive, n_busy, staged, staged_from, dma_deferred, key, config, iop_bus>>

(***************************************************************************)
(* S commands on the configuration: open a session on an area with a       *)
(* budget of blocks, read or write block after block, close.               *)
(***************************************************************************)
CfgTarget ==
    IF cfg.index < cfg.blocks /\ cfg.area \in DOMAIN CfgArea /\ cfg.index < CfgArea[cfg.area].cap
    THEN {CfgArea[cfg.area].base + cfg.index} \cap CfgBlock ELSE {}

OpenConfig ==
    /\ \E w \in BOOLEAN, n \in 0 .. MaxBudget, a \in DOMAIN CfgArea \cup {3} :
          cfg' = [write |-> w, area |-> a, blocks |-> n, index |-> 0]
    /\ UNCHANGED <<nvram, drive, command, owed, excused, iop_bus>>
ReadConfig ==
    /\ cfg.index =< MaxBudget
    /\ cfg' = [cfg EXCEPT !.index = @ + 1]
    /\ UNCHANGED <<nvram, drive, command, owed, excused, iop_bus>>
WriteConfig ==
    /\ cfg.index =< MaxBudget
    /\ cfg' = [cfg EXCEPT !.index = @ + 1]
    /\ nvram' = [b \in CfgBlock |->
                   IF cfg.write /\ b \in CfgTarget THEN cfg.area ELSE nvram[b]]
    /\ UNCHANGED <<drive, command, owed, excused, iop_bus>>
CloseConfig ==
    /\ cfg' = NoSession
    /\ UNCHANGED <<nvram, drive, command, owed, excused, iop_bus>>

CdvdNext ==
    \/ OpenTray \/ CloseTray \/ Settle \/ Resettle
    \/ NRead \/ NReadKey \/ NQuick
    \/ StartCdvdDma \/ FinishN \/ CdvdAfterLoad

ConfigNext == OpenConfig \/ ReadConfig \/ WriteConfig \/ CloseConfig

\* The drive among whatever else uses the bus.
CdvdSpec == /\ IopBusInit /\ CdvdInit
            /\ [][CdvdNext \/ ConfigNext \/ (BusNext /\ UNCHANGED cdvd)]_<<cdvd, iop_bus>>

-----------------------------------------------------------------------------
(***************************************************************************)
(* Properties.                                                             *)
(***************************************************************************)
\* A command interrupts once: while it is owed it is running or held for the
\* last sector, and while it is running or held it is owed.
CompletionOnce == owed = IF n_busy \/ done_after_drain THEN 1 ELSE 0

\* What the three rest on: a command is running or held, never both; one that
\* is held has sectors left; an open tray holds nothing of its disc.
DriveTypes ==
    /\ disc \in Disc \cup {NoDisc} /\ shelf \in Disc \cup {NoDisc} /\ staged \in Nat
    /\ n_busy \in BOOLEAN /\ done_after_drain \in BOOLEAN /\ dma_deferred \in BOOLEAN
    /\ tray_open \in BOOLEAN /\ excused \in BOOLEAN
    /\ cfg.index \in Nat /\ DOMAIN nvram = CfgBlock
HeldLeft   == done_after_drain => ~n_busy /\ staged > 0
TrayEmpty  == tray_open => disc = NoDisc /\ staged = 0 /\ key = NoDisc
DriveHolds == DriveTypes /\ HeldLeft /\ TrayEmpty

\* With channel 3 armed for it, a read does not interrupt before its last
\* sector is out.
DoneAfterLastSector ==
    [][owed' < owed /\ ~excused' /\ dma_deferred => staged' = 0]_<<cdvd, iop_bus>>

\* Nothing of a disc outlives it in the drive: neither its staged sectors nor
\* its key.
NothingOfAnotherDisc ==
    /\ staged > 0 => staged_from = disc
    /\ key # NoDisc => key = disc

\* A configuration session writes the blocks of its own area only.
ConfigConfined ==
    \A b \in CfgBlock : nvram[b] # Unwritten =>
        LET a == CfgArea[nvram[b]] IN b \in a.base .. (a.base + a.cap - 1)

\* The drive as one promise to its driver.
DriveKept == /\ []IopBusOK /\ []CompletionOnce /\ []NothingOfAnotherDisc /\ []ConfigConfined
             /\ DoneAfterLastSector
=============================================================================
