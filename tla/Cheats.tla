------------------------------- MODULE Cheats -------------------------------
(***************************************************************************)
(* The cheat table of a machine (cheats.rs) over a small memory, with what *)
(* a power cycle and a loaded state do to it (lib.rs).  A command writes a *)
(* cell, adds to it, or is a conditional that skips the commands after it. *)
(*                                                                         *)
(* applied is history: what the last frame did, and how often each command *)
(* took effect since the table was armed.                                  *)
(***************************************************************************)
EXTENDS Naturals, Sequences, SequencesExt

CONSTANTS
    CheatFiles,       \* cheat files: a sequence of groups [name, on, cheats]
    CheatCells,       \* the cells of RAM; others are refused
    CellValues,       \* a value is a member of 0 .. CellValues - 1
    GroupNames,
    MaxFrames         \* bound on the frames counted

VARIABLES
    cheat_table,      \* [cheats, owner, groups, done], as struct Table
    cheats_enabled,
    cheat_at,         \* the next command of a frame being applied, 0 outside of one
    cells,            \* the machine's memory
    kept_cells,       \* the memory of the saved state
    applied
cheat_vars == <<cheat_table, cheats_enabled, cheat_at, cells, kept_cells, applied>>

(***************************************************************************)
(* The table.                                                              *)
(***************************************************************************)
\* Every group's commands in file order, each with the group it came from.
Owners(file) == FlattenSeq([g \in DOMAIN file |-> [c \in DOMAIN file[g].cheats |-> g]])
TableOf(file) ==
    [ cheats |-> FlattenSeq([g \in DOMAIN file |-> file[g].cheats]),
      owner  |-> Owners(file),
      groups |-> [g \in DOMAIN file |-> [name |-> file[g].name, on |-> file[g].on]],
      done   |-> [p \in DOMAIN Owners(file) |-> FALSE] ]
\* Its vectors are of one length, and every command has its group.
WellFormed(t) ==
    /\ t.cheats \in Seq([op : {"write", "add", "cond"}, at : Nat, v : Nat, once : BOOLEAN, skip : Nat])
    /\ t.groups \in Seq([name : STRING, on : BOOLEAN])
    /\ t.owner \in [DOMAIN t.cheats -> DOMAIN t.groups] /\ t.done \in [DOMAIN t.cheats -> BOOLEAN]
ASSUME CheatsAssumption == \A f \in CheatFiles : WellFormed(TableOf(f))
Rearm(t) == [t EXCEPT !.done = [p \in DOMAIN t.done |-> FALSE]]
\* Mutant: switching a section arms the whole table again.
BadSetGroup(t, name, on) ==
    [Rearm(t) EXCEPT !.groups = [g \in DOMAIN t.groups |->
                                    IF t.groups[g].name = name THEN [t.groups[g] EXCEPT !.on = on] ELSE t.groups[g]]]
SetGroup(t, name, on) ==
    [t EXCEPT !.groups = [g \in DOMAIN t.groups |->
                             IF t.groups[g].name = name THEN [t.groups[g] EXCEPT !.on = on] ELSE t.groups[g]]]

(***************************************************************************)
(* A frame: the commands in order, those skipped, spent or switched off    *)
(* stepped over.  A command is a step.                                     *)
(***************************************************************************)
OutsideRam(c) == c.at \notin CheatCells
CondFails(c, mem) == c.op = "cond" /\ mem[c.at] # c.v
CheatEffect(c, mem) ==
    CASE c.op = "write" -> [mem EXCEPT ![c.at] = c.v]
      [] c.op = "add"   -> [mem EXCEPT ![c.at] = (@ + c.v) % CellValues]
      [] c.op = "cond"  -> mem
Unarmed(t, p) == t.done[p] \/ ~t.groups[t.owner[p]].on

\* No frame is being applied: nothing else runs meanwhile.
Between == cheat_at = 0
Onward(p) == IF p \in DOMAIN cheat_table.cheats THEN p ELSE 0
Unapplied(t) == [ran |-> {}, failed |-> {}, idle |-> {}, frames |-> 0,
                 count |-> [p \in DOMAIN t.cheats |-> 0], refused |-> {}]

CheatsInit ==
    /\ \E f \in CheatFiles : cheat_table = TableOf(f)
    /\ cheats_enabled \in BOOLEAN /\ cheat_at = 0
    /\ cells = [a \in CheatCells |-> 0] /\ kept_cells = cells
    /\ applied = Unapplied(cheat_table)

\* The start of vertical blank.
ApplyCheats ==
    /\ cheats_enabled /\ cheat_table.cheats # <<>> /\ applied.frames < MaxFrames
    /\ cheat_at' = 1
    /\ applied' = [applied EXCEPT !.ran = {}, !.failed = {}, !.frames = @ + 1,
                                  !.idle = { p \in DOMAIN cheat_table.cheats : Unarmed(cheat_table, p) }]
    /\ UNCHANGED <<cheat_table, cheats_enabled, cells, kept_cells>>
StepOver ==
    /\ Unarmed(cheat_table, cheat_at) /\ cheat_at' = Onward(cheat_at + 1)
    /\ UNCHANGED <<cheat_table, cheats_enabled, cells, kept_cells, applied>>
RefuseCheat ==
    /\ ~Unarmed(cheat_table, cheat_at) /\ OutsideRam(cheat_table.cheats[cheat_at])
    /\ cheat_at' = Onward(cheat_at + 1)
    /\ cheat_table' = [cheat_table EXCEPT !.done[cheat_at] = TRUE]
    /\ applied' = [applied EXCEPT !.refused = @ \cup {cheat_at}]
    /\ UNCHANGED <<cheats_enabled, cells, kept_cells>>
RunCheat ==
    LET c == cheat_table.cheats[cheat_at]
        fails == CondFails(c, cells)
    IN  /\ ~Unarmed(cheat_table, cheat_at) /\ ~OutsideRam(c)
        /\ cheat_at' = Onward(cheat_at + 1 + IF fails THEN c.skip ELSE 0)
        /\ cells' = CheatEffect(c, cells)
        /\ cheat_table' = [cheat_table EXCEPT !.done[cheat_at] = @ \/ c.once]
        /\ applied' = [applied EXCEPT !.ran = @ \cup {cheat_at}, !.count[cheat_at] = @ + 1,
                                      !.failed = @ \cup IF fails THEN {cheat_at} ELSE {}]
        /\ UNCHANGED <<cheats_enabled, kept_cells>>

SetCheats ==
    /\ \E f \in CheatFiles : cheat_table' = TableOf(f)
    /\ applied' = Unapplied(cheat_table')
    /\ UNCHANGED <<cheats_enabled, cheat_at, cells, kept_cells>>
SetGroupEnabled ==
    /\ \E name \in GroupNames, on \in BOOLEAN : cheat_table' = SetGroup(cheat_table, name, on)
    /\ UNCHANGED <<cheats_enabled, cheat_at, cells, kept_cells, applied>>
SetCheatsEnabled ==
    /\ cheats_enabled' = ~cheats_enabled
    /\ UNCHANGED <<cheat_table, cheat_at, cells, kept_cells, applied>>
\* A power cycle takes the table along and arms it again; a loaded state
\* leaves it as it is.
BootCheats ==
    /\ cheat_table' = Rearm(cheat_table)
    /\ cells' = [a \in CheatCells |-> 0]
    /\ applied' = Unapplied(cheat_table)
    /\ UNCHANGED <<cheats_enabled, cheat_at, kept_cells>>
KeepCells == kept_cells' = cells /\ UNCHANGED <<cheat_table, cheats_enabled, cheat_at, cells, applied>>
RestoreCells == cells' = kept_cells /\ UNCHANGED <<cheat_table, cheats_enabled, cheat_at, kept_cells, applied>>
\* The program the cheats are for.
Gameplay ==
    /\ \E a \in CheatCells, v \in 0 .. CellValues - 1 : cells' = [cells EXCEPT ![a] = v]
    /\ UNCHANGED <<cheat_table, cheats_enabled, cheat_at, kept_cells, applied>>

CheatsNext ==
    \/ /\ Between
       /\ \/ ApplyCheats \/ SetCheats \/ SetGroupEnabled \/ SetCheatsEnabled
          \/ BootCheats \/ KeepCells \/ RestoreCells \/ Gameplay
    \/ ~Between /\ (StepOver \/ RefuseCheat \/ RunCheat)
CheatsSpec == CheatsInit /\ [][CheatsNext]_cheat_vars

-----------------------------------------------------------------------------
\* A one-shot takes effect once per boot or installed table, whatever is
\* switched, saved or loaded in between, and is spent only when it did or was
\* refused.
OneShotsOnce ==
    \A p \in DOMAIN cheat_table.cheats :
        /\ cheat_table.cheats[p].once => applied.count[p] <= 1
        /\ cheat_table.done[p] <=>
              (p \in applied.refused \/ (cheat_table.cheats[p].once /\ applied.count[p] = 1))

\* "A conditional's skip count counts commands as the file writes them": in a
\* frame ran every command that was armed and that no conditional before it
\* reaches over, whichever groups are on.
SkipsAsWritten ==
    LET t == cheat_table
        Covered(p) == \E q \in applied.failed : q < p /\ p <= q + t.cheats[q].skip
    IN  Between /\ applied.frames > 0 =>
            \A p \in DOMAIN t.cheats : ~OutsideRam(t.cheats[p]) =>
                ((p \in applied.ran) <=> (p \notin applied.idle /\ ~Covered(p)))

CheatsKept == OneShotsOnce /\ SkipsAsWritten
=============================================================================
