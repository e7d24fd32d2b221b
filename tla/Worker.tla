------------------------------- MODULE Worker -------------------------------
(***************************************************************************)
(* The window's two threads (ps2-app): the UI, which sends commands and    *)
(* keeps the cheat list of the disc it last picked, and the worker, which  *)
(* owns the machine (emu.rs).  A file picker blocks the UI.  While a       *)
(* debugger is attached, or awaited, the worker drops every command that   *)
(* would drive the machine; the UI learns of it a round later.             *)
(*                                                                         *)
(* A disc stands for its image, its serial and its cheat file, which has   *)
(* one section.  refused is history: a command on the drive was dropped.   *)
(*                                                                         *)
(* At the end, the host: the threads side by side with the cheats a frame  *)
(* applies and the debugger's stubs, each with its view of the machine.    *)
(***************************************************************************)
EXTENDS Cheats, DebugStub, Naturals, Sequences

CONSTANTS
    DiscImage, NoImage,
    MaxInbox,         \* bound on the commands not yet handled
    Session           \* how the program is used: [uses, server, waits], uses
                      \* among "disc", "cheats", "card" and the UI's commands
ASSUME WorkerAssumption == NoImage \notin DiscImage

VARIABLES
    session,
    inbox,            \* commands sent and not yet handled
    gone,             \* the worker's thread has ended
    running, attached, debugger_seen,
    cd_drive,         \* [disc, open]
    removed,          \* the disc taken out while the drive is open
    label,            \* the disc the worker shows (disc_name, Shared::disc)
    table,            \* the machine's cheats: [of, on]
    fresh,            \* the machine has not run since its reset vector
    memcard,          \* [data, dirty]
    card_file,        \* the card's data on the host
    state_file,       \* "none", "broken", or a state whose tray is "open" or "shut"
    debugger_active,  \* as the UI sees it
    picker,           \* which picker is up
    ui_cheats,        \* the UI's list, as table
    cheat_key,        \* the entry of cheats.toml it goes by
    cheat_off,        \* cheats.toml: whether a disc's section is off
    refused
ui_vars == <<picker, ui_cheats, cheat_key, cheat_off>>
machine == <<cd_drive, table, fresh, memcard>>
shown == <<running, removed, label>>
rest == <<session, gone, attached, debugger_seen, card_file, state_file, debugger_active, refused>>
worker_vars == <<inbox, ui_vars, machine, shown, rest>>

Active == attached \/ (session.waits /\ ~debugger_seen)
Uses(x) == x \in session.uses
AsFiled(d) == [of |-> d, on |-> TRUE]

\* --disc puts an image in the drive and its file's cheats in both lists.
WorkerInit ==
    /\ session \in Session
    /\ \E d \in DiscImage \cup {NoImage} :
          /\ d # NoImage => Uses("disc")
          /\ cd_drive = [disc |-> d, open |-> FALSE] /\ label = d
          /\ table = AsFiled(d) /\ ui_cheats = AsFiled(d)
    /\ cheat_off \in [DiscImage -> BOOLEAN]
    /\ (\E d \in DiscImage : cheat_off[d]) => Uses("cheats")
    /\ inbox = <<>> /\ gone = FALSE /\ running = TRUE
    /\ attached = FALSE /\ debugger_seen = FALSE /\ removed = NoImage /\ fresh = TRUE
    /\ memcard = [data |-> 0, dirty |-> FALSE] /\ card_file = 0 /\ state_file = "none"
    /\ debugger_active = FALSE /\ picker = "none" /\ cheat_key = NoImage /\ refused = FALSE

(***************************************************************************)
(* The UI.                                                                 *)
(***************************************************************************)
Send(cmd) == /\ ~gone /\ Len(inbox) < MaxInbox /\ inbox' = Append(inbox, cmd)
             /\ UNCHANGED <<machine, shown, rest>>
\* No picker is up and the window is open.
Idling == picker = "none" /\ \A i \in DOMAIN inbox : inbox[i].op # "Quit"

InsertDisc == /\ Uses("disc") /\ Idling /\ ~debugger_active
              /\ picker' = "insert" /\ Send([op |-> "OpenTray"])
              /\ UNCHANGED <<ui_cheats, cheat_key, cheat_off>>
\* The menu asks for a debugger before the picker comes up, not after.
BootPicker == /\ Uses("disc") /\ Idling /\ ~debugger_active /\ picker' = "boot"
              /\ UNCHANGED <<inbox, machine, shown, rest, ui_cheats, cheat_key, cheat_off>>
Pick == /\ picker # "none" /\ picker' = "none"
        /\ \E d \in DiscImage :
              /\ Send([op |-> IF picker = "boot" THEN "BootDisc" ELSE "CloseTray", disc |-> d])
              /\ ui_cheats' = AsFiled(d) /\ cheat_key' = NoImage
        /\ UNCHANGED cheat_off
CancelPick ==
    /\ picker # "none" /\ picker' = "none"
    /\ \/ picker = "insert" /\ Send([op |-> "CloseTray", disc |-> NoImage])
       \/ picker = "boot" /\ UNCHANGED <<inbox, machine, shown, rest>>
    /\ UNCHANGED <<ui_cheats, cheat_key, cheat_off>>
\* sync_cheat_key: the list goes over to the entry of the disc shown.
SyncCheatKey ==
    /\ Idling /\ ui_cheats.of # NoImage /\ label # NoImage /\ cheat_key # label
    /\ ui_cheats' = [ui_cheats EXCEPT !.on = ~cheat_off[label]] /\ cheat_key' = label
    /\ Send([op |-> "SetCheats", table |-> ui_cheats'])
    /\ UNCHANGED <<picker, cheat_off>>
ToggleCheat ==
    /\ Uses("cheats") /\ Idling /\ ui_cheats.of # NoImage /\ label # NoImage
    /\ ui_cheats' = [ui_cheats EXCEPT !.on = ~@]
    /\ cheat_off' = [d \in DiscImage |-> IF d = cheat_key THEN ~ui_cheats'.on ELSE cheat_off[d]]
    /\ Send([op |-> "SetCheatEnabled", table |-> ui_cheats'])
    /\ UNCHANGED <<picker, cheat_key>>
ReloadCheats ==
    /\ Uses("cheats") /\ Idling /\ ui_cheats.of # NoImage
    /\ ui_cheats' = [ui_cheats EXCEPT !.on = cheat_key = NoImage \/ ~cheat_off[cheat_key]]
    /\ Send([op |-> "SetCheats", table |-> ui_cheats'])
    /\ UNCHANGED <<picker, cheat_key, cheat_off>>
\* The Emulation menu, the hotkeys, and the window's end.
Menu(op) ==
    /\ Uses(op) /\ Idling /\ (op # "Quit" => ~debugger_active)
    /\ Send(IF op = "SetRunning" THEN [op |-> op, on |-> ~running] ELSE [op |-> op])
    /\ UNCHANGED ui_vars

(***************************************************************************)
(* The worker: the commands.                                               *)
(***************************************************************************)
Guarded(op) == op \notin {"SetCheats", "SetCheatEnabled"}
OnDrive(op) == op \in {"OpenTray", "CloseTray", "BootDisc"}

OpenDrive == /\ cd_drive' = [disc |-> NoImage, open |-> TRUE] /\ removed' = cd_drive.disc /\ label' = NoImage
             /\ UNCHANGED <<table, fresh, memcard, running>>
\* Mutant: the worker's label is of the picked disc, cancelled or not.
BadCloseOn(d) ==
    LET back == IF d # NoImage THEN d ELSE removed
    IN  /\ cd_drive' = [disc |-> back, open |-> FALSE] /\ removed' = NoImage /\ label' = d
        /\ table' = IF d # NoImage THEN AsFiled(d) ELSE table
        /\ UNCHANGED <<fresh, memcard, running>>
CloseOn(d) ==
    LET back == IF d # NoImage THEN d ELSE removed
    IN  /\ cd_drive' = [disc |-> back, open |-> FALSE] /\ removed' = NoImage /\ label' = back
        /\ table' = IF d # NoImage THEN AsFiled(d) ELSE table
        /\ UNCHANGED <<fresh, memcard, running>>
PowerCycle == fresh' = TRUE /\ UNCHANGED <<removed, memcard>>
Reset == /\ running' = FALSE /\ PowerCycle
         /\ cd_drive' = [cd_drive EXCEPT !.open = FALSE] /\ UNCHANGED <<label, table>>
BootDisc(d) == /\ running' = TRUE /\ PowerCycle
               /\ cd_drive' = [disc |-> d, open |-> FALSE] /\ label' = d /\ table' = AsFiled(d)
SetTable(t) == table' = t /\ UNCHANGED <<cd_drive, fresh, memcard, shown>>
\* The tray is of the state, disc and card are the running machine's; a file
\* it rejects changes nothing.
LoadState ==
    /\ IF state_file \in {"open", "shut"}
       THEN cd_drive' = [cd_drive EXCEPT !.open = state_file = "open"] /\ fresh' = FALSE
       ELSE UNCHANGED <<cd_drive, fresh>>
    /\ UNCHANGED <<table, memcard, shown>>

\* A run of the machine: the program may write to its card.
AfterRun == {memcard} \cup IF Uses("card") THEN {[data |-> 1 - memcard.data, dirty |-> TRUE]} ELSE {}
\* flush_memcard on card c: a failed write leaves it dirty.
FlushMemcard(c) == \/ memcard' = c /\ UNCHANGED card_file
                   \/ c.dirty /\ card_file' = c.data /\ memcard' = [c EXCEPT !.dirty = FALSE]

Perform(cmd) ==
    \/ cmd.op = "SetRunning" /\ running' = cmd.on /\ UNCHANGED <<machine, removed, label>>
    \/ /\ cmd.op = "Step" /\ running' = FALSE /\ fresh' = FALSE /\ memcard' \in AfterRun
       /\ UNCHANGED <<cd_drive, table, removed, label>>
    \/ cmd.op = "Reset" /\ Reset
    \/ cmd.op = "OpenTray" /\ OpenDrive
    \/ cmd.op = "CloseTray" /\ CloseOn(cmd.disc)
    \/ cmd.op = "BootDisc" /\ BootDisc(cmd.disc)
    \/ cmd.op = "SetCheats" /\ SetTable(cmd.table)
    \/ cmd.op = "SetCheatEnabled" /\ SetTable(IF table.of = cmd.table.of THEN cmd.table ELSE table)
    \/ cmd.op = "LoadState" /\ LoadState
    \/ cmd.op = "SaveState" /\ UNCHANGED <<machine, shown>>

\* The state's file may fail to be written, and is cut short then.
Saved(cmd) == IF cmd.op = "SaveState" /\ ~Active
              THEN {IF cd_drive.open THEN "open" ELSE "shut", "broken"} ELSE {state_file}
HandleCommand ==
    /\ ~gone /\ inbox # <<>> /\ Head(inbox).op # "Quit" /\ inbox' = Tail(inbox)
    /\ LET cmd == Head(inbox) IN
          /\ \/ Active /\ Guarded(cmd.op) /\ UNCHANGED <<machine, shown>>
             \/ ~(Active /\ Guarded(cmd.op)) /\ Perform(cmd)
          /\ refused' = (refused \/ (Active /\ OnDrive(cmd.op)))
          /\ state_file' \in Saved(cmd)
    /\ UNCHANGED <<session, gone, attached, debugger_seen, card_file, debugger_active, ui_vars>>
\* The thread ends with one more try at the card.
Quit ==
    /\ ~gone /\ inbox # <<>> /\ Head(inbox).op = "Quit"
    /\ inbox' = Tail(inbox) /\ gone' = TRUE /\ FlushMemcard(memcard)
    /\ UNCHANGED <<session, attached, debugger_seen, cd_drive, table, fresh, shown, state_file,
                   debugger_active, ui_vars, refused>>

(***************************************************************************)
(* The rest of a round: the debugger's connections and the slice it allows,*)
(* or else one of the worker's own, which the pacer may hold back; what is *)
(* published; the card.  The UI only sends meanwhile.                      *)
(***************************************************************************)
Round ==
    /\ ~gone /\ inbox = <<>>
    /\ UNCHANGED <<session, inbox, gone, cd_drive, table, shown, state_file, ui_vars, refused>>
    /\ attached' \in {FALSE, session.server}
    /\ debugger_seen' = (debugger_seen \/ attached')
    /\ debugger_active' = Active'
    /\ \/ fresh' = fresh /\ FlushMemcard(memcard)
       \/ /\ attached \/ (~Active' /\ running)
          /\ fresh' = FALSE /\ \E c \in AfterRun : FlushMemcard(c)

WorkerNext ==
    \/ InsertDisc \/ BootPicker \/ Pick \/ CancelPick \/ SyncCheatKey \/ ToggleCheat \/ ReloadCheats
    \/ \E op \in {"SetRunning", "Step", "Reset", "SaveState", "LoadState", "Quit"} : Menu(op)
    \/ HandleCommand \/ Quit \/ Round
WorkerSpec == WorkerInit /\ [][WorkerNext]_worker_vars

-----------------------------------------------------------------------------
\* "A cancelled pick changes nothing", and "the one that came out and went
\* back in keeps the table it had": with every command handled and none on
\* the drive refused, the drive is closed on the disc of the UI's list, the
\* worker shows that disc, and the machine runs that list's cheats, switched
\* as cheats.toml says once the list goes by the disc's entry.
DiscAgrees ==
    inbox = <<>> /\ picker = "none" /\ ~refused =>
        /\ ~cd_drive.open /\ removed = NoImage
        /\ cd_drive.disc = label /\ cd_drive.disc = ui_cheats.of
        /\ table = ui_cheats
        /\ cheat_key # NoImage /\ cheat_key = label => table.on = ~cheat_off[label]
\* The card's file is behind only while the card is marked for another try.
CardSaved == ~memcard.dirty => card_file = memcard.data
\* --wait-debugger: nothing runs until a client was first attached.
HeldUntilAttach == session.waits /\ ~debugger_seen => fresh
WorkerKept == DiscAgrees /\ CardSaved /\ HeldUntilAttach

-----------------------------------------------------------------------------
\* The host: a step is one of the cheats', the debugger's or the window's.
host_vars == <<cheat_vars, debug_vars, worker_vars>>

HostInit == CheatsInit /\ DebugInit /\ WorkerInit
HostNext ==
    \/ CheatsNext /\ UNCHANGED <<debug_vars, worker_vars>>
    \/ DebugNext /\ UNCHANGED <<cheat_vars, worker_vars>>
    \/ WorkerNext /\ UNCHANGED <<cheat_vars, debug_vars>>
HostSpec == HostInit /\ [][HostNext]_host_vars

\* A frame's cheats do what their file says, whatever was switched, saved or
\* booted (CheatsKept); a debugger's stops are where its client asked for
\* them (DebugKept); the window's two threads agree on disc, cheats and card
\* (WorkerKept).
HostKept == CheatsKept /\ DebugKept /\ WorkerKept
=============================================================================
