---------------------------- MODULE Host_proofs ----------------------------
(***************************************************************************)
(* Proofs about the host around the machine: what Host states of the cheat *)
(* table, the debug server and the window's worker, for every cheat file,  *)
(* every session of the debugger's clients and every use of the window.    *)
(***************************************************************************)
EXTENDS Worker, SequenceTheorems, TLAPS

(***************************************************************************)
(* The cheat table: what is spent, and what a frame has done so far.       *)
(***************************************************************************)
Commands == [op : {"write", "add", "cond"}, at : Nat, v : Nat, once : BOOLEAN, skip : Nat]
Listed == DOMAIN cheat_table.cheats
Histories == [ran : SUBSET Listed, failed : SUBSET Listed, idle : SUBSET Listed, frames : Nat,
              count : [Listed -> Nat], refused : SUBSET Listed]
Tables == [cheats : Seq(Commands), owner : [Listed -> DOMAIN cheat_table.groups],
           groups : Seq([name : STRING, on : BOOLEAN]), done : [Listed -> BOOLEAN]]
CheatTypes ==
    /\ cheat_table \in Tables /\ applied \in Histories
    /\ cheat_at \in Nat /\ (cheat_at # 0 => cheat_at \in Listed /\ applied.frames > 0)

\* The commands a frame has come past.
Past(p) == Between \/ p < cheat_at
Skipped(p) == \E q \in applied.failed : q < p /\ p <= q + cheat_table.cheats[q].skip
FrameSoFar ==
    applied.frames > 0 =>
        /\ \A p \in Listed : Past(p) /\ ~OutsideRam(cheat_table.cheats[p]) =>
              ((p \in applied.ran) <=> (p \notin applied.idle /\ ~Skipped(p)))
        /\ \A p \in Listed : ~Past(p) => /\ p \notin applied.ran /\ ~Skipped(p)
                                         /\ (p \in applied.idle) <=> Unarmed(cheat_table, p)
        /\ \A p \in applied.failed : Past(p)
CheatsInv == CheatTypes /\ OneShotsOnce /\ FrameSoFar

LEMMA TableFacts ==
    ASSUME CheatTypes
    PROVE  /\ Listed = 1 .. Len(cheat_table.cheats) /\ Len(cheat_table.cheats) \in Nat
           /\ \A p \in Listed : cheat_table.cheats[p] \in Commands
           /\ cheat_table.done \in [Listed -> BOOLEAN]
           /\ cheat_table.owner \in [Listed -> DOMAIN cheat_table.groups]
           /\ cheat_table.groups \in [DOMAIN cheat_table.groups -> [name : STRING, on : BOOLEAN]]
           /\ applied.count \in [Listed -> Nat] /\ applied.refused \subseteq Listed
           /\ applied.ran \subseteq Listed /\ applied.failed \subseteq Listed /\ applied.idle \subseteq Listed
           /\ applied.frames \in Nat
  <1>1. cheat_table.cheats \in Seq(Commands) /\ cheat_table.groups \in Seq([name : STRING, on : BOOLEAN])
    BY DEF CheatTypes, Tables
  <1>2. \A p \in Listed : cheat_table.cheats[p] \in Commands
    BY <1>1 DEF Listed
  <1>3. Listed = 1 .. Len(cheat_table.cheats) /\ Len(cheat_table.cheats) \in Nat
    BY <1>1 DEF Listed
  <1>4. cheat_table.groups \in [DOMAIN cheat_table.groups -> [name : STRING, on : BOOLEAN]]
    <2> DEFINE G == [name : STRING, on : BOOLEAN]
               g == cheat_table.groups
    <2>1. g \in Seq(G)
      BY <1>1
    <2> HIDE DEF G, g
    <2>2. g \in [DOMAIN g -> G]
      BY <2>1
    <2> QED
      BY <2>2 DEF G, g
  <1> QED
    BY <1>2, <1>3, <1>4 DEF CheatTypes, Tables, Histories

LEMMA OnwardFacts ==
    ASSUME CheatTypes, NEW n \in Nat, cheat_at' = Onward(n)
    PROVE  /\ cheat_at' \in Nat /\ (cheat_at' # 0 => cheat_at' = n /\ n \in Listed)
           /\ n \in Nat \ {0} => \A p \in Listed : (cheat_at' = 0 \/ p < cheat_at') <=> p < n
  BY TableFacts DEF Onward, Listed

\* A visit of a command leaves the frame right so far: n is where it goes on.
LEMMA VisitKeepsFrame ==
    ASSUME CheatsInv, ~Between, NEW n \in Nat, n > cheat_at, cheat_at' = Onward(n),
           cheat_table'.cheats = cheat_table.cheats,
           \A p \in Listed : p # cheat_at => (Unarmed(cheat_table', p) <=> Unarmed(cheat_table, p)),
           applied'.idle = applied.idle, applied'.frames = applied.frames,
           \/ /\ applied'.ran = applied.ran /\ applied'.failed = applied.failed /\ n = cheat_at + 1
              /\ Unarmed(cheat_table, cheat_at) \/ OutsideRam(cheat_table.cheats[cheat_at])
           \/ /\ applied'.ran = applied.ran \cup {cheat_at} /\ ~Unarmed(cheat_table, cheat_at)
              /\ \/ applied'.failed = applied.failed /\ n = cheat_at + 1
                 \/ /\ applied'.failed = applied.failed \cup {cheat_at}
                    /\ n = cheat_at + 1 + cheat_table.cheats[cheat_at].skip
    PROVE  FrameSoFar'
  <1> DEFINE c == cheat_at
             skip == cheat_table.cheats[c].skip
  <1>1. CheatTypes /\ c \in Listed /\ c \in Nat /\ c # 0 /\ applied.frames > 0
    BY DEF CheatsInv, CheatTypes, Between
  <1>2. Listed = 1 .. Len(cheat_table.cheats) /\ Len(cheat_table.cheats) \in Nat /\ Listed' = Listed
        /\ skip \in Nat /\ applied.failed \subseteq Listed
    BY <1>1, TableFacts DEF Listed, Commands
  <1>3. \A p \in Listed : Past(p) <=> p < c
    BY <1>1 DEF Past, Between
  <1>4. \A p \in Listed : Past(p)' <=> p < n
    BY <1>1, <1>2, OnwardFacts DEF Past, Between
  <1>5. /\ \A p \in Listed : p < c /\ ~OutsideRam(cheat_table.cheats[p]) =>
              ((p \in applied.ran) <=> (p \notin applied.idle /\ ~Skipped(p)))
        /\ \A p \in Listed : ~(p < c) => /\ p \notin applied.ran /\ ~Skipped(p)
                                         /\ (p \in applied.idle) <=> Unarmed(cheat_table, p)
        /\ \A p \in applied.failed : p < c
    <2>1. FrameSoFar
      BY DEF CheatsInv
    <2> QED
      BY <1>1, <1>2, <1>3, <2>1 DEF FrameSoFar
  <1>6. \A p \in Listed : Skipped(p)' <=> \/ Skipped(p)
                                          \/ applied'.failed # applied.failed /\ c < p /\ p < n
    <2>1. CASE applied'.failed = applied.failed
      BY <2>1 DEF Skipped
    <2>2. CASE applied'.failed = applied.failed \cup {c} /\ n = c + 1 + skip /\ applied'.failed # applied.failed
      <3>1. \A p \in Listed : p <= c + skip <=> p < n
        BY <1>1, <1>2, <2>2
      <3>2. \A p \in Listed : (\E q \in applied.failed \cup {c} : q < p /\ p <= q + cheat_table.cheats[q].skip)
                                <=> (Skipped(p) \/ (c < p /\ p < n))
        BY <3>1 DEF Skipped
      <3> QED
        BY <2>2, <3>2 DEF Skipped
    <2> QED
      BY <2>1, <2>2
  <1>7. \A p \in Listed : c < p /\ p < n => applied'.failed # applied.failed
    BY <1>1, <1>2, <1>5
  <1> HIDE DEF c, skip
  <1>8. ASSUME NEW p \in Listed, p < n, ~OutsideRam(cheat_table.cheats[p])
        PROVE  (p \in applied'.ran) <=> (p \notin applied.idle /\ ~Skipped(p)')
    <2>1. c \in Nat /\ p \in Nat
      BY <1>1, <1>2
    <2>2. CASE p < c
      <3>1. (p \in applied'.ran <=> p \in applied.ran) /\ (Skipped(p)' <=> Skipped(p))
        BY <1>6, <2>1, <2>2 DEF c
      <3> QED
        BY <1>5, <1>8, <2>2, <3>1
    <2>3. CASE p = c
      <3>1. (Skipped(p)' <=> Skipped(p)) /\ ~Skipped(p) /\ p \notin applied.ran
            /\ ((p \in applied.idle) <=> Unarmed(cheat_table, p))
        BY <1>5, <1>6, <2>1, <2>3
      <3> QED
        BY <1>8, <2>3, <3>1 DEF c
    <2>4. CASE c < p
      BY <1>5, <1>6, <1>7, <1>8, <2>1, <2>4 DEF c
    <2> QED
      BY <2>1, <2>2, <2>3, <2>4
  <1>9. ASSUME NEW p \in Listed, ~(p < n)
        PROVE  /\ p \notin applied'.ran /\ ~Skipped(p)'
               /\ (p \in applied.idle) <=> Unarmed(cheat_table', p)
    <2>1. c \in Nat /\ p \in Nat /\ ~(p < c) /\ p # c
      BY <1>1, <1>2, <1>9 DEF c
    <2> QED
      BY <1>5, <1>6, <1>9, <2>1 DEF c
  <1>10. \A p \in applied'.failed : p \in Listed /\ p < n
    BY <1>1, <1>2, <1>5 DEF c, skip
  <1> QED
    BY <1>2, <1>4, <1>8, <1>9, <1>10 DEF FrameSoFar

\* What a command leaves of the table and of the history.
LEMMA RefuseFacts ==
    ASSUME CheatsInv, ~Between, RefuseCheat
    PROVE  CheatsInv'
  <1> DEFINE c == cheat_at
             t == [cheat_table EXCEPT !.done[cheat_at] = TRUE]
             h == [applied EXCEPT !.refused = @ \cup {cheat_at}]
  <1>1. CheatTypes /\ c \in Listed /\ c \in Nat /\ c # 0 /\ applied.frames > 0 /\ OneShotsOnce
    BY DEF CheatsInv, CheatTypes, Between
  <1>2. /\ cheat_table' = t /\ applied' = h /\ cheat_at' = Onward(c + 1)
        /\ ~Unarmed(cheat_table, c) /\ OutsideRam(cheat_table.cheats[c])
    BY DEF RefuseCheat
  <1>3. /\ t.cheats = cheat_table.cheats /\ t.owner = cheat_table.owner /\ t.groups = cheat_table.groups
        /\ t.done = [cheat_table.done EXCEPT ![c] = TRUE] /\ t \in Tables
    BY <1>1 DEF CheatTypes, Tables
  <1>4. /\ h.ran = applied.ran /\ h.failed = applied.failed /\ h.idle = applied.idle /\ h.frames = applied.frames
        /\ h.count = applied.count /\ h.refused = applied.refused \cup {c} /\ h \in Histories
    BY <1>1 DEF CheatTypes, Histories
  <1> HIDE DEF t, h
  <1>5. Listed' = Listed /\ Tables' = Tables /\ Histories' = Histories
    BY <1>2, <1>3 DEF Listed, Tables, Histories
  <1>6. CheatTypes'
    BY <1>1, <1>2, <1>3, <1>4, <1>5, OnwardFacts DEF CheatTypes
  <1>7. OneShotsOnce'
    <2>1. cheat_table.done \in [Listed -> BOOLEAN]
      BY <1>1, TableFacts
    <2> QED
      BY <1>1, <1>2, <1>3, <1>4, <2>1 DEF OneShotsOnce, Listed
  <1>8. FrameSoFar'
    <2>1. \A p \in Listed : p # c => (Unarmed(cheat_table', p) <=> Unarmed(cheat_table, p))
      BY <1>2, <1>3, <1>1, TableFacts DEF Unarmed
    <2>2. c + 1 \in Nat /\ c + 1 > cheat_at
      BY <1>1
    <2> QED
      BY <1>2, <1>3, <1>4, <2>1, <2>2, VisitKeepsFrame
  <1> QED
    BY <1>6, <1>7, <1>8 DEF CheatsInv

LEMMA StepOverFacts ==
    ASSUME CheatsInv, ~Between, StepOver
    PROVE  CheatsInv'
  <1> DEFINE c == cheat_at
  <1>1. CheatTypes /\ c \in Listed /\ c \in Nat /\ c # 0 /\ applied.frames > 0 /\ OneShotsOnce
    BY DEF CheatsInv, CheatTypes, Between
  <1>2. UNCHANGED <<cheat_table, applied>> /\ cheat_at' = Onward(c + 1) /\ Unarmed(cheat_table, c)
    BY DEF StepOver
  <1>3. Listed' = Listed /\ Tables' = Tables /\ Histories' = Histories
    BY <1>2 DEF Listed, Tables, Histories
  <1>4. CheatTypes'
    BY <1>1, <1>2, <1>3, OnwardFacts DEF CheatTypes
  <1>5. OneShotsOnce'
    BY <1>1, <1>2 DEF OneShotsOnce
  <1>6. FrameSoFar'
    <2>1. c + 1 \in Nat /\ c + 1 > cheat_at
      BY <1>1
    <2> QED
      BY <1>2, <2>1, VisitKeepsFrame
  <1> QED
    BY <1>4, <1>5, <1>6 DEF CheatsInv

LEMMA RunFacts ==
    ASSUME CheatsInv, ~Between, RunCheat
    PROVE  CheatsInv'
  <1> DEFINE c == cheat_at
             cmd == cheat_table.cheats[c]
             fails == CondFails(cmd, cells)
             n == c + 1 + IF fails THEN cmd.skip ELSE 0
             t == [cheat_table EXCEPT !.done[cheat_at] = @ \/ cmd.once]
             h == [applied EXCEPT !.ran = @ \cup {cheat_at}, !.count[cheat_at] = @ + 1,
                                  !.failed = @ \cup IF fails THEN {cheat_at} ELSE {}]
  <1>1. CheatTypes /\ c \in Listed /\ c \in Nat /\ c # 0 /\ applied.frames > 0 /\ OneShotsOnce
    BY DEF CheatsInv, CheatTypes, Between
  <1>2. cheat_table' = t /\ applied' = h /\ cheat_at' = Onward(n) /\ ~Unarmed(cheat_table, c)
    BY DEF RunCheat
  <1>3. cmd.skip \in Nat /\ cmd.once \in BOOLEAN
    BY <1>1, TableFacts DEF Commands
  <1>4. n \in Nat /\ n > c /\ (~fails => n = c + 1) /\ (fails => n = c + 1 + cmd.skip)
    BY <1>1, <1>3
  <1>5. /\ t.cheats = cheat_table.cheats /\ t.owner = cheat_table.owner /\ t.groups = cheat_table.groups
        /\ t.done = [cheat_table.done EXCEPT ![c] = @ \/ cmd.once] /\ t \in Tables
    <2> DEFINE b == cheat_table.done[c] \/ cmd.once
    <2>1. b \in BOOLEAN
      OBVIOUS
    <2>2. t = [cheat_table EXCEPT !.done = [@ EXCEPT ![c] = b]]
      OBVIOUS
    <2> HIDE DEF b
    <2>3. /\ t.cheats = cheat_table.cheats /\ t.owner = cheat_table.owner /\ t.groups = cheat_table.groups
          /\ t.done = [cheat_table.done EXCEPT ![c] = b] /\ t \in Tables
      BY <1>1, <2>1, <2>2 DEF CheatTypes, Tables
    <2> QED
      BY <2>3 DEF b
  <1>6. /\ h.ran = applied.ran \cup {c} /\ h.failed = applied.failed \cup (IF fails THEN {c} ELSE {})
        /\ h.idle = applied.idle /\ h.frames = applied.frames
        /\ h.count = [applied.count EXCEPT ![c] = @ + 1] /\ h.refused = applied.refused /\ h \in Histories
    <2> DEFINE failed == applied.failed \cup IF fails THEN {c} ELSE {}
               count == [applied.count EXCEPT ![c] = @ + 1]
    <2>1. applied \in Histories /\ c \in Listed
      BY <1>1 DEF CheatTypes
    <2>2. failed \subseteq Listed /\ count \in [Listed -> Nat]
      BY <2>1 DEF Histories
    <2>3. h = [applied EXCEPT !.ran = @ \cup {c}, !.count = count, !.failed = failed]
      OBVIOUS
    <2> HIDE DEF failed, count, h
    <2>4. /\ h.ran = applied.ran \cup {c} /\ h.failed = failed /\ h.count = count
          /\ h.idle = applied.idle /\ h.frames = applied.frames /\ h.refused = applied.refused
          /\ h \in Histories
      BY <2>1, <2>2, <2>3 DEF Histories
    <2> QED
      BY <2>4 DEF failed, count
  <1> HIDE DEF t, h, n, fails
  <1>7. Listed' = Listed /\ Tables' = Tables /\ Histories' = Histories
    BY <1>2, <1>5 DEF Listed, Tables, Histories
  <1>8. CheatTypes'
    BY <1>1, <1>2, <1>4, <1>5, <1>6, <1>7, OnwardFacts DEF CheatTypes
  <1>9. OneShotsOnce'
    <2>1. cheat_table.done \in [Listed -> BOOLEAN] /\ applied.count \in [Listed -> Nat]
      BY <1>1, TableFacts
    <2>2. ~cheat_table.done[c] /\ c \notin applied.refused /\ (cmd.once => applied.count[c] = 0)
      <3>1. ~cheat_table.done[c]
        BY <1>2 DEF Unarmed
      <3>2. applied.count[c] \in Nat
        BY <1>1, <2>1
      <3> QED
        BY <1>1, <3>1, <3>2 DEF OneShotsOnce, Listed
    <2>3. ASSUME NEW p \in Listed
          PROVE  /\ cheat_table.cheats[p].once => h.count[p] <= 1
                 /\ t.done[p] <=> (p \in h.refused \/ (cheat_table.cheats[p].once /\ h.count[p] = 1))
      <3>1. CASE p = c
        <4>1. h.count[c] = applied.count[c] + 1 /\ applied.count[c] \in Nat /\ (t.done[c] <=> cmd.once)
          BY <1>1, <1>5, <1>6, <2>1, <2>2
        <4> QED
          BY <1>6, <2>2, <3>1, <4>1
      <3>2. CASE p # c
        <4>1. h.count[p] = applied.count[p] /\ t.done[p] = cheat_table.done[p]
          BY <1>5, <1>6, <2>1, <3>2
        <4> QED
          BY <1>1, <1>6, <4>1 DEF OneShotsOnce, Listed
      <3> QED
        BY <3>1, <3>2
    <2> QED
      BY <1>2, <1>5, <2>3 DEF OneShotsOnce, Listed
  <1>10. FrameSoFar'
    <2>1. \A p \in Listed : p # c => (Unarmed(cheat_table', p) <=> Unarmed(cheat_table, p))
      BY <1>1, <1>2, <1>5, TableFacts DEF Unarmed
    <2> QED
      BY <1>2, <1>4, <1>5, <1>6, <2>1, VisitKeepsFrame
  <1> QED
    BY <1>8, <1>9, <1>10 DEF CheatsInv

\* A table whose commands did nothing yet.
LEMMA FreshFacts ==
    ASSUME cheat_table' \in Tables', applied' = Unapplied(cheat_table'), cheat_at' = 0,
           \A p \in Listed' : cheat_table'.done[p] = FALSE
    PROVE  CheatsInv'
  <1>1. /\ applied'.ran = {} /\ applied'.failed = {} /\ applied'.idle = {} /\ applied'.frames = 0
        /\ applied'.count = [p \in Listed' |-> 0] /\ applied'.refused = {}
    BY DEF Unapplied, Listed
  <1>2. applied' \in Histories'
    BY DEF Unapplied, Listed, Histories
  <1>3. CheatTypes'
    BY <1>2 DEF CheatTypes
  <1>4. OneShotsOnce'
    BY <1>1 DEF OneShotsOnce, Listed
  <1>5. FrameSoFar'
    BY <1>1 DEF FrameSoFar
  <1> QED
    BY <1>3, <1>4, <1>5 DEF CheatsInv

LEMMA TableOfFacts ==
    ASSUME NEW f \in CheatFiles
    PROVE  /\ TableOf(f).cheats \in Seq(Commands)
           /\ TableOf(f).groups \in Seq([name : STRING, on : BOOLEAN])
           /\ TableOf(f).owner \in [DOMAIN TableOf(f).cheats -> DOMAIN TableOf(f).groups]
           /\ TableOf(f).done \in [DOMAIN TableOf(f).cheats -> BOOLEAN]
           /\ \A p \in DOMAIN TableOf(f).cheats : TableOf(f).done[p] = FALSE
           /\ TableOf(f) \in [cheats : Seq(Commands), owner : [DOMAIN TableOf(f).cheats -> DOMAIN TableOf(f).groups],
                              groups : Seq([name : STRING, on : BOOLEAN]), done : [DOMAIN TableOf(f).cheats -> BOOLEAN]]
  <1>1. WellFormed(TableOf(f))
    BY CheatsAssumption
  <1>2. TableOf(f).done = [p \in DOMAIN Owners(f) |-> FALSE] /\ TableOf(f).owner = Owners(f)
    BY DEF TableOf
  <1>3. TableOf(f) = [cheats |-> TableOf(f).cheats, owner |-> TableOf(f).owner,
                      groups |-> TableOf(f).groups, done |-> TableOf(f).done]
    BY DEF TableOf
  <1> DEFINE C == Seq(Commands)
             G == Seq([name : STRING, on : BOOLEAN])
             t == TableOf(f)
  <1>4. /\ t.cheats \in C /\ t.groups \in G
        /\ t.owner \in [DOMAIN t.cheats -> DOMAIN t.groups] /\ t.done \in [DOMAIN t.cheats -> BOOLEAN]
        /\ \A p \in DOMAIN t.cheats : t.done[p] = FALSE
    BY <1>1, <1>2 DEF WellFormed, Commands
  <1> HIDE DEF C, G, t
  <1>5. t \in [cheats : C, owner : [DOMAIN t.cheats -> DOMAIN t.groups], groups : G,
               done : [DOMAIN t.cheats -> BOOLEAN]]
    <2>1. t = [cheats |-> t.cheats, owner |-> t.owner, groups |-> t.groups, done |-> t.done]
      BY <1>3 DEF t
    <2> QED
      BY <1>4, <2>1
  <1> QED
    BY <1>4, <1>5 DEF C, G, t

\* What nobody but a frame's commands, a file or a boot changes.
LEMMA BetweenKeeps ==
    ASSUME CheatsInv, Between, cheat_at' = 0, cheat_table' \in Tables', applied' = applied,
           cheat_table'.cheats = cheat_table.cheats, cheat_table'.done = cheat_table.done
    PROVE  CheatsInv'
  <1>1. CheatTypes /\ OneShotsOnce /\ FrameSoFar
    BY DEF CheatsInv
  <1>2. Listed' = Listed /\ Histories' = Histories
    BY DEF Listed, Histories
  <1>3. CheatTypes'
    BY <1>1, <1>2 DEF CheatTypes
  <1>4. OneShotsOnce'
    BY <1>1 DEF OneShotsOnce
  <1>5. (\A p \in Listed : Skipped(p)' <=> Skipped(p)) /\ \A p \in Listed : Past(p) /\ Past(p)'
    BY DEF Skipped, Past, Between
  <1>6. FrameSoFar'
    BY <1>1, <1>2, <1>5, TableFacts DEF FrameSoFar
  <1> QED
    BY <1>3, <1>4, <1>6 DEF CheatsInv

LEMMA HostStepsKeep ==
    ASSUME CheatsInv, Between,
           SetGroupEnabled \/ SetCheatsEnabled \/ KeepCells \/ RestoreCells \/ Gameplay
    PROVE  CheatsInv'
  <1>1. cheat_table \in Tables /\ cheat_at' = 0 /\ applied' = applied
    BY DEF CheatsInv, CheatTypes, Between, SetGroupEnabled, SetCheatsEnabled, KeepCells, RestoreCells, Gameplay
  <1>2. CASE SetGroupEnabled
    <2>1. PICK name \in GroupNames, on \in BOOLEAN : cheat_table' = SetGroup(cheat_table, name, on)
      BY <1>2 DEF SetGroupEnabled
    <2> DEFINE g == cheat_table.groups
               G == [name : STRING, on : BOOLEAN]
               r == [i \in DOMAIN g |-> IF g[i].name = name THEN [g[i] EXCEPT !.on = on] ELSE g[i]]
    <2>2. g \in Seq(G)
      BY <1>1 DEF Tables
    <2>3. \A e \in G : [e EXCEPT !.on = on] \in G
      OBVIOUS
    <2>4. r \in Seq(G) /\ DOMAIN r = DOMAIN g
      <3> HIDE DEF G, g
      <3>1. /\ \A i \in DOMAIN g : g[i] \in G
            /\ DOMAIN g = 1 .. Len(g) /\ Len(g) \in Nat
        BY <2>2
      <3>2. \A i \in DOMAIN g : r[i] \in G
        BY <2>3, <3>1
      <3> QED
        BY <3>1, <3>2
    <2>5. cheat_table' = [cheat_table EXCEPT !.groups = r]
      BY <2>1 DEF SetGroup
    <2> HIDE DEF r
    <2>6. /\ cheat_table' \in [cheats : Seq(Commands), owner : [Listed -> DOMAIN g], groups : Seq(G),
                               done : [Listed -> BOOLEAN]]
          /\ cheat_table'.cheats = cheat_table.cheats /\ cheat_table'.done = cheat_table.done
          /\ cheat_table'.groups = r
      <3> HIDE DEF G
      <3> QED
        BY <1>1, <2>4, <2>5 DEF Tables, G
    <2>7. Listed' = Listed /\ DOMAIN cheat_table'.groups = DOMAIN g
      BY <2>4, <2>6 DEF Listed
    <2>8. cheat_table' \in Tables'
      BY <2>6, <2>7 DEF Tables
    <2> QED
      BY <1>1, <2>6, <2>8, BetweenKeeps
  <1>3. CASE SetCheatsEnabled \/ KeepCells \/ RestoreCells \/ Gameplay
    <2>1. cheat_table' = cheat_table
      BY <1>3 DEF SetCheatsEnabled, KeepCells, RestoreCells, Gameplay
    <2>2. Tables' = Tables
      BY <2>1 DEF Tables, Listed
    <2> QED
      BY <1>1, <2>1, <2>2, BetweenKeeps
  <1> QED
    BY <1>2, <1>3

LEMMA ArmedKeeps ==
    ASSUME CheatsInv, Between, SetCheats \/ BootCheats
    PROVE  CheatsInv'
  <1>1. CASE SetCheats
    <2>1. PICK f \in CheatFiles : cheat_table' = TableOf(f)
      BY <1>1 DEF SetCheats
    <2>2. cheat_table' \in Tables' /\ \A p \in Listed' : cheat_table'.done[p] = FALSE
      BY <2>1, TableOfFacts DEF Tables, Listed
    <2> QED
      BY <1>1, <2>2, FreshFacts DEF SetCheats, Between
  <1>2. CASE BootCheats
    <2> DEFINE done == [p \in DOMAIN cheat_table.done |-> FALSE]
    <2>1. cheat_table \in Tables
      BY DEF CheatsInv, CheatTypes
    <2>2. cheat_table' = [cheat_table EXCEPT !.done = done]
      BY <1>2 DEF BootCheats, Rearm
    <2>3. done \in [Listed -> BOOLEAN] /\ \A p \in Listed : done[p] = FALSE
      BY <2>1 DEF Tables
    <2> HIDE DEF done
    <2>4. /\ cheat_table' \in Tables /\ cheat_table'.done = done
          /\ cheat_table'.cheats = cheat_table.cheats /\ cheat_table'.groups = cheat_table.groups
      BY <2>1, <2>2, <2>3 DEF Tables
    <2>5. Listed' = Listed /\ Tables' = Tables
      BY <2>4 DEF Listed, Tables
    <2>6. applied' = Unapplied(cheat_table')
      BY <1>2, <2>4 DEF BootCheats, Unapplied
    <2> QED
      BY <1>2, <2>3, <2>4, <2>5, <2>6, FreshFacts DEF BootCheats, Between
  <1> QED
    BY <1>1, <1>2

LEMMA ApplyKeeps ==
    ASSUME CheatsInv, Between, ApplyCheats
    PROVE  CheatsInv'
  <1> DEFINE idle == { p \in Listed : Unarmed(cheat_table, p) }
  <1>1. CheatTypes /\ OneShotsOnce /\ cheat_table' = cheat_table /\ cheat_at' = 1 /\ cheat_table.cheats # <<>>
    BY DEF CheatsInv, ApplyCheats
  <1>2. applied' = [applied EXCEPT !.ran = {}, !.failed = {}, !.frames = @ + 1, !.idle = idle]
    BY DEF ApplyCheats, Listed
  <1>3. idle \subseteq Listed
    OBVIOUS
  <1> HIDE DEF idle
  <1>4. /\ applied'.ran = {} /\ applied'.failed = {} /\ applied'.idle = idle /\ applied'.frames = applied.frames + 1
        /\ applied'.count = applied.count /\ applied'.refused = applied.refused /\ applied' \in Histories
    <2> DEFINE n == applied.frames + 1
    <2>1. applied \in Histories /\ n \in Nat
      BY <1>1 DEF CheatTypes, Histories
    <2>2. applied' = [applied EXCEPT !.ran = {}, !.failed = {}, !.frames = n, !.idle = idle]
      BY <1>2
    <2> HIDE DEF n
    <2>3. /\ applied'.ran = {} /\ applied'.failed = {} /\ applied'.idle = idle /\ applied'.frames = n
          /\ applied'.count = applied.count /\ applied'.refused = applied.refused /\ applied' \in Histories
      BY <1>3, <2>1, <2>2 DEF Histories
    <2> QED
      BY <2>3 DEF n
  <1>5. Listed' = Listed /\ Tables' = Tables /\ Histories' = Histories
    BY <1>1 DEF Listed, Tables, Histories
  <1>6. 1 \in Listed /\ applied.frames \in Nat /\ Listed = 1 .. Len(cheat_table.cheats)
    <2>1. cheat_table.cheats \in Seq(Commands)
      BY <1>1 DEF CheatTypes, Tables
    <2>2. Len(cheat_table.cheats) \in Nat \ {0}
      BY <1>1, <2>1
    <2> QED
      BY <1>1, <2>2, TableFacts
  <1>7. CheatTypes'
    BY <1>1, <1>4, <1>5, <1>6 DEF CheatTypes
  <1>8. OneShotsOnce'
    BY <1>1, <1>4 DEF OneShotsOnce
  <1>9. FrameSoFar'
    <2>1. \A p \in Listed : ~Past(p)' /\ ~Skipped(p)'
      BY <1>1, <1>4, <1>6 DEF Past, Between, Skipped
    <2> QED
      BY <1>1, <1>4, <1>5, <2>1 DEF FrameSoFar, idle
  <1> QED
    BY <1>7, <1>8, <1>9 DEF CheatsInv

\* A one-shot takes effect once per boot or table, and a conditional skips the
\* commands its file counts, whatever was switched, saved or booted.
THEOREM HostCheatsKept == CheatsSpec => []CheatsKept
  <1>1. CheatsInit => CheatsInv
    <2> SUFFICES ASSUME CheatsInit PROVE CheatsInv
      OBVIOUS
    <2>1. PICK f \in CheatFiles : cheat_table = TableOf(f)
      BY DEF CheatsInit
    <2>2. cheat_table \in Tables /\ \A p \in Listed : cheat_table.done[p] = FALSE
      BY <2>1, TableOfFacts DEF Tables, Listed
    <2>3. /\ applied.ran = {} /\ applied.failed = {} /\ applied.idle = {} /\ applied.frames = 0
          /\ applied.count = [p \in Listed |-> 0] /\ applied.refused = {} /\ cheat_at = 0
      BY DEF CheatsInit, Unapplied, Listed
    <2>4. applied \in Histories
      BY DEF CheatsInit, Unapplied, Listed, Histories
    <2>5. CheatTypes
      BY <2>2, <2>3, <2>4 DEF CheatTypes
    <2>6. OneShotsOnce
      BY <2>2, <2>3 DEF OneShotsOnce, Listed
    <2>7. FrameSoFar
      BY <2>3 DEF FrameSoFar
    <2> QED
      BY <2>5, <2>6, <2>7 DEF CheatsInv
  <1>2. CheatsInv /\ [CheatsNext]_cheat_vars => CheatsInv'
    <2> SUFFICES ASSUME CheatsInv, [CheatsNext]_cheat_vars PROVE CheatsInv'
      OBVIOUS
    <2>1. CASE Between /\ (SetCheats \/ BootCheats)
      BY <2>1, ArmedKeeps
    <2>2. CASE Between /\ ApplyCheats
      BY <2>2, ApplyKeeps
    <2>3. CASE Between /\ (SetGroupEnabled \/ SetCheatsEnabled \/ KeepCells \/ RestoreCells \/ Gameplay)
      BY <2>3, HostStepsKeep
    <2>4. CASE ~Between /\ StepOver
      BY <2>4, StepOverFacts
    <2>5. CASE ~Between /\ RefuseCheat
      BY <2>5, RefuseFacts
    <2>6. CASE ~Between /\ RunCheat
      BY <2>6, RunFacts
    <2>7. CASE UNCHANGED cheat_vars
      <3>1. UNCHANGED <<cheat_table, cheat_at, applied>>
        BY <2>7 DEF cheat_vars
      <3>2. Listed' = Listed /\ Tables' = Tables /\ Histories' = Histories
        BY <3>1 DEF Listed, Tables, Histories
      <3>3. CheatTypes' /\ OneShotsOnce'
        BY <3>1, <3>2 DEF CheatsInv, CheatTypes, OneShotsOnce
      <3>4. \A p \in Listed : (Past(p)' <=> Past(p)) /\ (Skipped(p)' <=> Skipped(p))
        BY <3>1 DEF Past, Between, Skipped
      <3>5. FrameSoFar'
        BY <3>1, <3>2, <3>4, TableFacts DEF CheatsInv, FrameSoFar
      <3> QED
        BY <3>3, <3>5 DEF CheatsInv
    <2> QED
      BY <2>1, <2>2, <2>3, <2>4, <2>5, <2>6, <2>7 DEF CheatsNext
  <1>3. CheatsInv => CheatsKept
    <2> SUFFICES ASSUME CheatsInv PROVE CheatsKept
      OBVIOUS
    <2>1. SkipsAsWritten
      BY DEF CheatsInv, FrameSoFar, SkipsAsWritten, Skipped, Past, Listed
    <2> QED
      BY <2>1 DEF CheatsInv, CheatsKept
  <1> QED
    BY <1>1, <1>2, <1>3, PTL DEF CheatsSpec

(***************************************************************************)
(* The debug server: what holds of both stubs at each stage of a pump.     *)
(***************************************************************************)
Stubs == [client : BOOLEAN, halted : BOOLEAN, resume_skip : BOOLEAN,
          breakpoints : SUBSET use.spots, watchpoints : SUBSET Alias,
          old : [Alias -> {0, 1}], dma_stale : BOOLEAN, twin : BOOLEAN]
Words == 0 .. 3
Cores == [pc : Words, epc : Words, idle : BOOLEAN, due : BOOLEAN]

DebugTypes ==
    /\ stage \in {"host", "ee", "iop", "stepping", "slice", "sliced"}
    /\ stub \in [DebugTarget -> Stubs] /\ dma_watch \in SUBSET DebugTarget
    /\ core \in [DebugTarget -> Cores] /\ cell \in [DebugTarget -> {0, 1}]
    /\ single_issue \in BOOLEAN

\* A stub without a client asks for nothing; one with a client has no ranges
\* of a lost one left.
Clean(s) == /\ ~s.client => s.breakpoints = {} /\ s.watchpoints = {}
            /\ s.client => ~s.dma_stale
Ranges(t, s, armed) == /\ s.client /\ s.watchpoints # {} => t \in armed \/ s.twin
                       /\ ~s.client /\ ~s.dma_stale => t \notin armed
\* A client of the EE that lets the machine run was there when the pump chose
\* to retire one instruction a cycle.
OneByOne == LET s == stub["ee"] IN
    /\ stage = "ee" => single_issue = s.client
    /\ stage \in {"iop", "stepping", "slice", "sliced"} /\ s.client /\ ~s.halted => single_issue

DebugInv == /\ DebugTypes /\ OneByOne /\ BreakpointsSeen /\ WatchesSeen
            /\ \A t \in DebugTarget : Clean(stub[t]) /\ Ranges(t, stub[t], dma_watch)

(***************************************************************************)
(* The machine keeps its types, and enters a handler at its vector.        *)
(***************************************************************************)
LEMMA HandlerFacts ==
    ASSUME NEW c \in Cores
    PROVE  /\ ToHandler(c) \in Cores /\ TakePending(c) \in Cores
           /\ ~Pending(c) => ToHandler(c) = c
           /\ Pending(c) => ToHandler(c).pc = Vector
           /\ ~TakePending(c).idle => ToHandler(TakePending(c)) = TakePending(c)
           /\ TakePending(c).idle => TakePending(c) = c
  <1> DEFINE h == [c EXCEPT !.epc = c.pc, !.pc = Vector, !.idle = FALSE]
  <1>1. h \in Cores /\ h.pc = Vector /\ h.idle = FALSE
    <2>1. Vector \in Words
      BY DEF Vector, Words
    <2> QED
      BY <2>1 DEF Cores
  <1>2. ~Pending(h)
    BY <1>1 DEF Pending, InHandler, Vector
  <1>3. ToHandler(c) = IF Pending(c) THEN h ELSE c
    BY DEF ToHandler
  <1>4. ToHandler(h) = h
    BY <1>2 DEF ToHandler
  <1> HIDE DEF h
  <1>5. TakePending(c) = IF c.idle THEN c ELSE IF Pending(c) THEN h ELSE c
    BY <1>3 DEF TakePending
  <1> QED
    BY <1>1, <1>3, <1>4, <1>5

LEMMA AfterTypes ==
    ASSUME NEW c \in Cores, NEW loop \in BOOLEAN
    PROVE  After(c, loop) \in Cores
  <1>1. 0 \in Words /\ 1 \in Words /\ 3 \in Words /\ c.pc \in {0, 1, 2, 3}
    BY DEF Words, Cores
  <1>2. CASE c.pc = 0
    BY <1>1, <1>2 DEF Cores, After
  <1>3. CASE c.pc = 1
    BY <1>1, <1>3 DEF Cores, After
  <1>4. CASE c.pc = 2
    BY <1>1, <1>4 DEF Cores, After
  <1>5. CASE c.pc = 3
    <2>1. [c EXCEPT !.pc = c.epc, !.due = FALSE] \in Cores
      BY DEF Cores
    <2>2. After(c, loop) = [c EXCEPT !.pc = c.epc, !.due = FALSE]
      BY <1>5 DEF After
    <2> QED
      BY <2>1, <2>2
  <1> QED
    BY <1>1, <1>2, <1>3, <1>4, <1>5

LEMMA EventTypes ==
    ASSUME NEW x \in Events
    PROVE  /\ \A t \in DebugTarget : x.irq[t] \in BOOLEAN
           /\ x.device \in BOOLEAN /\ x.cell \in [DebugTarget -> {0, 1}]
  <1> DEFINE some == {FALSE, (Vector \in use.spots)}
             held == { c \in [DebugTarget -> {0, 1}] :
                           \A t \in DebugTarget : c[t] # cell[t] => WatchAliases(t) # {} }
  <1>1. some \subseteq BOOLEAN
    OBVIOUS
  <1>2. x \in [irq : [DebugTarget -> some], device : some, cell : held]
    BY DEF Events
  <1>3. held \subseteq [DebugTarget -> {0, 1}]
    OBVIOUS
  <1> HIDE DEF some, held
  <1>4. x.irq \in [DebugTarget -> some] /\ x.device \in some /\ x.cell \in held
    BY <1>2
  <1> QED
    BY <1>1, <1>3, <1>4

LEMMA RaiseTypes ==
    ASSUME NEW c \in Cores, NEW up \in BOOLEAN
    PROVE  /\ RaiseLine(c, up) \in Cores /\ RaiseLine(c, up).pc = c.pc
           /\ RaiseLine(c, up).idle = c.idle
  BY DEF Cores, RaiseLine

LEMMA StepTypes ==
    ASSUME NEW m \in [DebugTarget -> Cores], NEW x \in Events
    PROVE  MachineStep(m, x).core \in [DebugTarget -> Cores]
  <1>1. m["ee"] \in Cores /\ m["iop"] \in Cores
    BY DEF DebugTarget
  <1>2. /\ x.irq["ee"] \in BOOLEAN /\ x.irq["iop"] \in BOOLEAN /\ x.device \in BOOLEAN
    BY EventTypes DEF DebugTarget
  <1> DEFINE e == EeStep(m["ee"], x).core
             i == IopSlot(RaiseLine(m["iop"], x.irq["iop"]), x).core
             up == RaiseLine(e, x.irq["ee"])
  <1>4. e \in Cores
    <2> DEFINE h == ToHandler(m["ee"])
    <2>1. h \in Cores /\ After(h, FALSE) \in Cores
      BY <1>1, HandlerFacts, AfterTypes
    <2>2. After(h, "ee" \in use.loops) \in Cores /\ After(After(h, FALSE), "ee" \in use.loops) \in Cores
      <3> HIDE DEF h
      <3> DEFINE b == "ee" \in use.loops
      <3>1. b \in BOOLEAN
        OBVIOUS
      <3> HIDE DEF b
      <3>2. After(h, b) \in Cores /\ After(After(h, FALSE), b) \in Cores
        BY <2>1, <3>1, AfterTypes
      <3> QED
        BY <3>2 DEF b
    <2> QED
      BY <1>1, <2>1, <2>2 DEF EeStep
  <1>5. i \in Cores
    <2> DEFINE c == RaiseLine(m["iop"], x.irq["iop"])
               h == [ToHandler(c) EXCEPT !.idle = FALSE]
    <2>1. c \in Cores
      BY <1>1, <1>2, RaiseTypes
    <2> HIDE DEF c
    <2>2. ToHandler(c) \in Cores
      BY <2>1, HandlerFacts
    <2>3. h \in Cores
      BY <2>2 DEF Cores
    <2> HIDE DEF h
    <2>4. After(h, "iop" \in use.loops) \in Cores
      <3> DEFINE b == "iop" \in use.loops
      <3>1. b \in BOOLEAN
        OBVIOUS
      <3> HIDE DEF b
      <3>2. After(h, b) \in Cores
        BY <2>3, <3>1, AfterTypes
      <3> QED
        BY <3>2 DEF b
    <2>5. IopSlot(c, x).core \in Cores
      BY <2>1, <2>4 DEF IopSlot, h
    <2> QED
      BY <2>5 DEF c
  <1>6. up \in Cores
    BY <1>2, <1>4, RaiseTypes
  <1>7. RaiseLine(i, x.device) \in Cores
    BY <1>2, <1>5, RaiseTypes
  <1> HIDE DEF e, i, up
  <1>8. [up EXCEPT !.idle = @ /\ ~Pending(up)] \in Cores
    BY <1>6 DEF Cores
  <1>9. MachineStep(m, x).core = [t \in DebugTarget |-> IF t = "ee" THEN [up EXCEPT !.idle = @ /\ ~Pending(up)]
                                         ELSE RaiseLine(i, x.device)]
    BY DEF MachineStep, e, i, up
  <1> QED
    BY <1>7, <1>8, <1>9

\* What runs in a cycle: of the EE from where it is led to a handler, one
\* instruction of it when it retires one by one; of the IOP in its slot only,
\* from its vector if a line led it there in this cycle.
LEMMA EeRan ==
    ASSUME NEW m \in [DebugTarget -> Cores], NEW x \in Events, single_issue
    PROVE  MachineStep(m, x).ran["ee"] \subseteq {ToHandler(m["ee"]).pc}
           /\ (m["ee"].idle => MachineStep(m, x).ran["ee"] = {})
  BY DEF MachineStep, EeStep, DebugTarget

LEMMA IopRan ==
    ASSUME NEW m \in [DebugTarget -> Cores], NEW x \in Events
    PROVE  /\ slot # 0 => MachineStep(m, x).ran["iop"] = {}
           /\ \/ MachineStep(m, x).ran["iop"] \subseteq {m["iop"].pc}
              \/ MachineStep(m, x).ran["iop"] \subseteq {Vector} /\ MachineStep(m, x).inside
  <1> DEFINE c == RaiseLine(m["iop"], x.irq["iop"])
  <1>1. m["iop"] \in Cores /\ x.irq["iop"] \in BOOLEAN
    BY EventTypes DEF DebugTarget
  <1>2. c \in Cores /\ c.pc = m["iop"].pc
    BY <1>1, RaiseTypes
  <1> HIDE DEF c
  <1>3. MachineStep(m, x).ran["iop"] = IopSlot(c, x).ran /\ MachineStep(m, x).inside = IopSlot(c, x).entered
    BY DEF MachineStep, c, DebugTarget
  <1>4. CASE Pending(c)
    BY <1>2, <1>3, <1>4, HandlerFacts DEF IopSlot
  <1>5. CASE ~Pending(c)
    BY <1>2, <1>3, <1>5, HandlerFacts DEF IopSlot
  <1> QED
    BY <1>4, <1>5

(***************************************************************************)
(* The steps of a pump.                                                    *)
(***************************************************************************)
\* The stub's part of a pump: s is what the packet made of t's stub, before
\* what is left of a lost client's ranges is dropped.
LEMMA ServedKeeps ==
    ASSUME DebugInv, NEW t \in DebugTarget, NEW s \in Stubs, NEW armed \in SUBSET DebugTarget,
           Served(t, s, armed), armed \ {t} = dma_watch \ {t},
           ~s.client => s.breakpoints = {} /\ s.watchpoints = {},
           s.client /\ s.watchpoints # {} => ~s.dma_stale /\ (t \in armed \/ s.twin),
           ~s.client /\ ~s.dma_stale => t \notin armed,
           s.client /\ ~s.halted => stub[t].client
    PROVE  DebugInv'
  <1> DEFINE r == [s EXCEPT !.dma_stale = FALSE]
             watched == IF s.dma_stale THEN armed \ {t} ELSE armed
  <1>1. /\ stub' = [stub EXCEPT ![t] = r] /\ dma_watch' = watched
        /\ stage = t /\ stage' = NextStage(t) /\ UNCHANGED <<core, cell, single_issue, use, missed>>
    BY DEF Served
  <1>2. /\ r \in Stubs /\ r.client = s.client /\ r.halted = s.halted /\ r.dma_stale = FALSE
        /\ r.breakpoints = s.breakpoints /\ r.watchpoints = s.watchpoints /\ r.twin = s.twin
    BY DEF Stubs
  <1> HIDE DEF r
  <1>3. /\ stub \in [DebugTarget -> Stubs] /\ Stubs' = Stubs /\ OneByOne
        /\ \A o \in DebugTarget : Clean(stub[o]) /\ Ranges(o, stub[o], dma_watch)
    BY <1>1 DEF DebugInv, DebugTypes, Stubs
  <1>4. \A o \in DebugTarget : stub'[o] = IF o = t THEN r ELSE stub[o]
    BY <1>1, <1>3
  <1>5. DebugTypes'
    BY <1>1, <1>2, <1>3 DEF DebugInv, DebugTypes, NextStage, DebugTarget
  <1>6. OneByOne'
    <2>1. CASE t = "ee"
      <3>1. stub'["ee"] = r /\ (stub["ee"].client => single_issue)
        BY <1>1, <1>3, <1>4, <2>1 DEF OneByOne, DebugTarget
      <3> QED
        BY <1>1, <1>2, <2>1, <3>1 DEF OneByOne, NextStage
    <2>2. CASE t = "iop"
      <3>1. stub'["ee"] = stub["ee"] /\ (stub["ee"].client /\ ~stub["ee"].halted => single_issue)
        BY <1>1, <1>3, <1>4, <2>2 DEF OneByOne, DebugTarget
      <3> QED
        BY <1>1, <2>2, <3>1 DEF OneByOne, NextStage
    <2> QED
      BY <2>1, <2>2 DEF DebugTarget
  <1>7. BreakpointsSeen' /\ WatchesSeen'
    BY <1>1 DEF DebugInv, BreakpointsSeen, WatchesSeen, NextStage
  <1>8. ASSUME NEW o \in DebugTarget
        PROVE  Clean(stub'[o]) /\ Ranges(o, stub'[o], dma_watch')
    <2>1. CASE o = t
      BY <1>1, <1>2, <1>4, <2>1 DEF Clean, Ranges
    <2>2. CASE o # t
      <3>1. o \in dma_watch' <=> o \in dma_watch
        BY <1>1, <2>2
      <3> QED
        BY <1>3, <1>4, <2>2, <3>1 DEF Clean, Ranges
    <2> QED
      BY <2>1, <2>2
  <1>9. (\A o \in DebugTarget : Clean(stub[o]) /\ Ranges(o, stub[o], dma_watch))'
    BY <1>8 DEF Clean, Ranges
  <1> QED
    BY <1>5, <1>6, <1>7, <1>9 DEF DebugInv

LEMMA StubFacts ==
    ASSUME DebugInv, NEW t \in DebugTarget
    PROVE  /\ stub[t] \in Stubs /\ Clean(stub[t]) /\ Ranges(t, stub[t], dma_watch)
           /\ dma_watch \in SUBSET DebugTarget /\ cell[t] \in {0, 1}
  BY DEF DebugInv, DebugTypes

LEMMA DetachedFacts ==
    ASSUME NEW s \in Stubs
    PROVE  /\ Detached(s) \in Stubs /\ ~Detached(s).client /\ Detached(s).dma_stale
           /\ Detached(s).breakpoints = {} /\ Detached(s).watchpoints = {}
  BY DEF Stubs, Detached

LEMMA ConnectionKeeps ==
    ASSUME DebugInv, NEW t \in DebugTarget, NoPacket(t) \/ Accept(t) \/ Detach(t) \/ Interrupt(t)
    PROVE  DebugInv'
  <1> DEFINE s == stub[t]
  <1>1. /\ s \in Stubs /\ Clean(s) /\ Ranges(t, s, dma_watch) /\ dma_watch \in SUBSET DebugTarget
    BY StubFacts
  <1>2. CASE NoPacket(t)
    BY <1>1, <1>2, ServedKeeps DEF NoPacket, Clean, Ranges
  <1>3. CASE Accept(t)
    <2> DEFINE r == [s EXCEPT !.client = TRUE, !.halted = TRUE]
    <2>1. /\ r \in Stubs /\ r.client /\ r.halted /\ r.watchpoints = {} /\ Served(t, r, dma_watch)
      BY <1>1, <1>3 DEF Accept, Stubs, Clean
    <2> HIDE DEF r
    <2> QED
      BY <1>1, <2>1, ServedKeeps
  <1>4. CASE Detach(t)
    <2>1. Served(t, Detached(s), dma_watch)
      BY <1>4 DEF Detach
    <2> QED
      BY <1>1, <2>1, DetachedFacts, ServedKeeps
  <1>5. CASE Interrupt(t)
    <2> DEFINE r == [s EXCEPT !.halted = TRUE]
    <2>1. /\ r \in Stubs /\ r.client = s.client /\ r.halted /\ r.watchpoints = s.watchpoints
          /\ r.breakpoints = s.breakpoints /\ r.dma_stale = s.dma_stale /\ r.twin = s.twin
          /\ Served(t, r, dma_watch)
      BY <1>1, <1>5 DEF Interrupt, Stubs
    <2> HIDE DEF r
    <2> QED
      BY <1>1, <2>1, ServedKeeps DEF Clean, Ranges
  <1> QED
    BY <1>2, <1>3, <1>4, <1>5

LEMMA SetPointsKeeps ==
    ASSUME DebugInv, NEW t \in DebugTarget, SetBreakpoint(t) \/ SetWatch(t)
    PROVE  DebugInv'
  <1> DEFINE s == stub[t]
  <1>1. /\ s \in Stubs /\ Clean(s) /\ Ranges(t, s, dma_watch) /\ dma_watch \in SUBSET DebugTarget
        /\ cell[t] \in {0, 1} /\ s.client /\ s.halted
    BY StubFacts DEF SetBreakpoint, SetWatch
  <1>2. ASSUME NEW p \in use.spots, NEW on \in BOOLEAN,
               Served(t, [s EXCEPT !.breakpoints = IF on THEN @ \cup {p} ELSE @ \ {p}], dma_watch)
        PROVE  DebugInv'
    <2> DEFINE r == [s EXCEPT !.breakpoints = IF on THEN @ \cup {p} ELSE @ \ {p}]
    <2>1. /\ r \in Stubs /\ r.client /\ r.halted /\ r.watchpoints = s.watchpoints
          /\ r.dma_stale = s.dma_stale /\ r.twin = s.twin
      BY <1>1 DEF Stubs
    <2>2. Served(t, r, dma_watch)
      BY <1>2
    <2> HIDE DEF r
    <2> QED
      BY <1>1, <2>1, <2>2, ServedKeeps DEF Clean, Ranges
  <1>3. ASSUME NEW a \in Alias,
               Served(t, [s EXCEPT !.watchpoints = @ \cup {a}, !.old[a] = cell[t], !.twin = FALSE],
                      dma_watch \cup {t})
        PROVE  DebugInv'
    <2> DEFINE r == [s EXCEPT !.watchpoints = @ \cup {a}, !.old[a] = cell[t], !.twin = FALSE]
    <2>1. /\ r \in Stubs /\ r.client /\ r.halted /\ r.dma_stale = s.dma_stale
      BY <1>1 DEF Stubs
    <2>2. Served(t, r, dma_watch \cup {t}) /\ dma_watch \cup {t} \in SUBSET DebugTarget
          /\ (dma_watch \cup {t}) \ {t} = dma_watch \ {t}
      BY <1>1, <1>3
    <2> HIDE DEF r
    <2> QED
      BY <1>1, <2>1, <2>2, ServedKeeps DEF Clean
  <1>4. ASSUME NEW a \in Alias,
               Served(t, [s EXCEPT !.watchpoints = @ \ {a}, !.twin = TRUE], dma_watch \ {t})
        PROVE  DebugInv'
    <2> DEFINE r == [s EXCEPT !.watchpoints = @ \ {a}, !.twin = TRUE]
    <2>1. /\ r \in Stubs /\ r.client /\ r.halted /\ r.twin /\ r.dma_stale = s.dma_stale
      BY <1>1 DEF Stubs
    <2>2. Served(t, r, dma_watch \ {t}) /\ dma_watch \ {t} \in SUBSET DebugTarget
          /\ (dma_watch \ {t}) \ {t} = dma_watch \ {t}
      BY <1>1, <1>4
    <2> HIDE DEF r
    <2> QED
      BY <1>1, <2>1, <2>2, ServedKeeps DEF Clean
  <1>5. CASE SetBreakpoint(t)
    BY <1>2, <1>5 DEF SetBreakpoint
  <1>6. CASE SetWatch(t)
    BY <1>3, <1>4, <1>6 DEF SetWatch, WatchAliases
  <1> QED
    BY <1>5, <1>6

\* A cycle of the machine alone.
LEMMA CycleTypes ==
    ASSUME NEW m \in [DebugTarget -> Cores], NEW x \in Events, Cycle(m, x)
    PROVE  core' \in [DebugTarget -> Cores] /\ cell' \in [DebugTarget -> {0, 1}]
  BY StepTypes, EventTypes DEF Cycle

\* What a resume, a step and an edit leave: t's stub but for its snapshots and
\* whether it is halted.
LEMMA RunningKeeps ==
    ASSUME DebugInv, NEW t \in DebugTarget, NEW s \in Stubs, stub[t].client, stage = t,
           stage' = NextStage(t) \/ (t = "iop" /\ stage' = "stepping"),
           stub' = [stub EXCEPT ![t] = s], s.client, s.watchpoints = stub[t].watchpoints,
           s.dma_stale = stub[t].dma_stale, s.twin = stub[t].twin,
           core' \in [DebugTarget -> Cores], cell' \in [DebugTarget -> {0, 1}],
           UNCHANGED <<dma_watch, single_issue, use, missed>>
    PROVE  DebugInv'
  <1>1. /\ stub \in [DebugTarget -> Stubs] /\ Stubs' = Stubs /\ OneByOne
        /\ \A o \in DebugTarget : Clean(stub[o]) /\ Ranges(o, stub[o], dma_watch)
    BY DEF DebugInv, DebugTypes, Stubs
  <1>2. \A o \in DebugTarget : stub'[o] = IF o = t THEN s ELSE stub[o]
    BY <1>1
  <1>3. DebugTypes'
    BY <1>1 DEF DebugInv, DebugTypes, NextStage, DebugTarget
  <1>4. OneByOne'
    <2>1. CASE t = "ee"
      BY <1>1, <1>2, <2>1 DEF OneByOne, NextStage, DebugTarget
    <2>2. CASE t = "iop"
      <3>1. stub'["ee"] = stub["ee"] /\ (stub["ee"].client /\ ~stub["ee"].halted => single_issue)
        BY <1>1, <1>2, <2>2 DEF OneByOne, DebugTarget
      <3> QED
        BY <2>2, <3>1 DEF OneByOne, NextStage
    <2> QED
      BY <2>1, <2>2 DEF DebugTarget
  <1>5. BreakpointsSeen' /\ WatchesSeen'
    BY DEF DebugInv, BreakpointsSeen, WatchesSeen, NextStage
  <1>6. (\A o \in DebugTarget : Clean(stub[o]) /\ Ranges(o, stub[o], dma_watch))'
    BY <1>1, <1>2 DEF Clean, Ranges
  <1> QED
    BY <1>3, <1>4, <1>5, <1>6 DEF DebugInv

LEMMA RefreshFacts ==
    ASSUME DebugInv, NEW t \in DebugTarget
    PROVE  LET s == Refresh(stub[t], t) IN
           /\ s \in Stubs /\ s.client = stub[t].client /\ s.watchpoints = stub[t].watchpoints
           /\ s.dma_stale = stub[t].dma_stale /\ s.twin = stub[t].twin
  BY StubFacts DEF Refresh, Stubs

LEMMA ResumeKeeps ==
    ASSUME DebugInv, NEW t \in DebugTarget, Resume(t) \/ StepTarget(t) \/ EditMemory(t)
    PROVE  DebugInv'
  <1> DEFINE s == Refresh(stub[t], t)
  <1>1. /\ s \in Stubs /\ s.client = stub[t].client /\ s.watchpoints = stub[t].watchpoints
        /\ s.dma_stale = stub[t].dma_stale /\ s.twin = stub[t].twin
    BY RefreshFacts
  <1>2. /\ core \in [DebugTarget -> Cores] /\ cell \in [DebugTarget -> {0, 1}]
        /\ stub \in [DebugTarget -> Stubs]
    BY DEF DebugInv, DebugTypes
  <1>3. /\ stub[t].client /\ stage = t
    BY DEF Resume, StepTarget, EditMemory
  <1> HIDE DEF s
  <1>4. CASE Resume(t)
    <2> DEFINE r == [s EXCEPT !.halted = FALSE, !.resume_skip = TRUE]
    <2>1. /\ r \in Stubs /\ r.client = s.client /\ r.watchpoints = s.watchpoints
          /\ r.dma_stale = s.dma_stale /\ r.twin = s.twin
      BY <1>1 DEF Stubs
    <2>2. /\ stub' = [stub EXCEPT ![t] = r] /\ stage' = NextStage(t)
          /\ UNCHANGED <<core, cell, dma_watch, single_issue, use, missed>>
      BY <1>2, <1>4 DEF Resume, s
    <2> HIDE DEF r
    <2> QED
      BY <1>1, <1>2, <1>3, <2>1, <2>2, RunningKeeps
  <1>5. CASE StepTarget(t)
    <2>1. stub' = [stub EXCEPT ![t] = s] /\ UNCHANGED <<dma_watch, single_issue, use, missed>>
      BY <1>2, <1>5 DEF StepTarget, s
    <2>2. stage' = NextStage(t) \/ (t = "iop" /\ stage' = "stepping")
      BY <1>5 DEF StepTarget
    <2>3. core' \in [DebugTarget -> Cores] /\ cell' \in [DebugTarget -> {0, 1}]
      <3>1. TakePending(core[t]) \in Cores
        BY <1>2, HandlerFacts
      <3>2. ASSUME NEW x \in Events, Cycle(core, x)
            PROVE  core' \in [DebugTarget -> Cores] /\ cell' \in [DebugTarget -> {0, 1}]
        BY <1>2, <3>2, CycleTypes
      <3> QED
        BY <1>2, <1>5, <3>1, <3>2 DEF StepTarget
    <2> QED
      BY <1>1, <1>3, <2>1, <2>2, <2>3, RunningKeeps
  <1>6. CASE EditMemory(t)
    <2>1. PICK v \in {0, 1} : cell' = [cell EXCEPT ![t] = v]
      BY <1>6 DEF EditMemory
    <2>2. cell' \in [DebugTarget -> {0, 1}] /\ stub' = [stub EXCEPT ![t] = stub[t]]
      BY <1>2, <1>6, <2>1 DEF EditMemory
    <2> QED
      BY <1>2, <1>3, <1>6, <2>2, RunningKeeps DEF EditMemory
  <1> QED
    BY <1>4, <1>5, <1>6

\* The steps that leave both stubs alone.
LEMMA MachineKeeps ==
    ASSUME DebugInv, PumpStart \/ StepToSlot \/ NoSlice \/ HostCycle
    PROVE  DebugInv'
  <1>1. /\ stub \in [DebugTarget -> Stubs] /\ core \in [DebugTarget -> Cores]
        /\ cell \in [DebugTarget -> {0, 1}] /\ missed = {}
    BY DEF DebugInv, DebugTypes, BreakpointsSeen
  <1>2. UNCHANGED <<stub, dma_watch, use>> /\ missed' = {}
    BY <1>1 DEF PumpStart, StepToSlot, NoSlice, HostCycle
  <1>3. Stubs' = Stubs
    BY <1>2 DEF Stubs
  <1>4. core' \in [DebugTarget -> Cores] /\ cell' \in [DebugTarget -> {0, 1}]
    <2>1. ASSUME NEW x \in Events, Cycle(core, x)
          PROVE  core' \in [DebugTarget -> Cores] /\ cell' \in [DebugTarget -> {0, 1}]
      BY <1>1, <2>1, CycleTypes
    <2> QED
      BY <1>1, <2>1 DEF PumpStart, StepToSlot, NoSlice, HostCycle
  <1>5. /\ stage' \in {"host", "ee", "stepping", "slice"}
        /\ stage' \in {"stepping", "slice"} => stage = "stepping" /\ single_issue' = single_issue
        /\ stage' = "ee" => single_issue' = stub["ee"].client
        /\ single_issue' \in {single_issue, stub["ee"].client}
    BY DEF PumpStart, StepToSlot, NoSlice, HostCycle
  <1>6. DebugTypes'
    <2>1. stub["ee"].client \in BOOLEAN
      BY <1>1 DEF Stubs, DebugTarget
    <2> QED
      BY <1>1, <1>2, <1>3, <1>4, <1>5, <2>1 DEF DebugInv, DebugTypes
  <1>7. OneByOne' /\ BreakpointsSeen' /\ WatchesSeen'
    BY <1>2, <1>5 DEF DebugInv, OneByOne, BreakpointsSeen, WatchesSeen
  <1>8. (\A t \in DebugTarget : Clean(stub[t]) /\ Ranges(t, stub[t], dma_watch))'
    BY <1>2 DEF DebugInv, Clean, Ranges
  <1> QED
    BY <1>6, <1>7, <1>8 DEF DebugInv

(***************************************************************************)
(* The slice.                                                              *)
(***************************************************************************)
\* What a slice makes of a stub: looked at, stopped, or gone.
Sliced(s, r) == /\ r \in Stubs
                /\ \/ r.client /\ s.client /\ r.watchpoints = s.watchpoints /\ r.twin = s.twin
                      /\ ~r.dma_stale /\ (~r.halted => ~s.halted)
                   \/ ~r.client /\ ~s.client /\ r = s
                   \/ ~r.client /\ r.dma_stale /\ r.breakpoints = {} /\ r.watchpoints = {}

LEMMA LookedFacts ==
    ASSUME DebugInv, NEW t \in DebugTarget
    PROVE  /\ Looked(t) \in Stubs /\ Sliced(stub[t], Looked(t)) /\ Reached(t) \in Cores
           /\ Looked(t).client = stub[t].client /\ Looked(t).breakpoints = stub[t].breakpoints
           /\ Looked(t).watchpoints = stub[t].watchpoints /\ Looked(t).old = stub[t].old
  <1>1. /\ stub[t] \in Stubs /\ Clean(stub[t])
    BY StubFacts
  <1>2. core[t] \in Cores
    BY DEF DebugInv, DebugTypes
  <1>3. Reached(t) \in Cores
    BY <1>2, HandlerFacts DEF Reached
  <1> DEFINE r == [stub[t] EXCEPT !.resume_skip = FALSE]
  <1>4. /\ r \in Stubs /\ r.client = stub[t].client /\ r.breakpoints = stub[t].breakpoints
        /\ r.watchpoints = stub[t].watchpoints /\ r.twin = stub[t].twin
        /\ r.dma_stale = stub[t].dma_stale /\ r.halted = stub[t].halted /\ r.old = stub[t].old
    BY <1>1 DEF Stubs
  <1>5. Looked(t) = IF Examined(t) THEN r ELSE stub[t]
    BY DEF Looked
  <1>6. Examined(t) => stub[t].client
    BY DEF Examined
  <1> HIDE DEF r
  <1>7. Looked(t) \in Stubs /\ Sliced(stub[t], Looked(t))
    <2>1. CASE stub[t].client
      BY <1>1, <1>4, <1>5, <2>1 DEF Sliced, Clean, Stubs
    <2>2. CASE ~stub[t].client
      BY <1>1, <1>5, <1>6, <2>2 DEF Sliced
    <2> QED
      BY <2>1, <2>2
  <1> QED
    BY <1>3, <1>4, <1>5, <1>7

\* A stop, whether the client is still there or not.
LEMMA StopFacts ==
    ASSUME NEW s \in Stubs, NEW o \in Stubs, Sliced(o, s), s.client, NEW r \in Stop(s)
    PROVE  Sliced(o, r)
  <1>1. CASE r = [s EXCEPT !.halted = TRUE]
    BY <1>1 DEF Sliced, Stubs
  <1>2. CASE r = Detached(s)
    BY <1>2, DetachedFacts DEF Sliced
  <1> QED
    BY <1>1, <1>2 DEF Stop

\* Stubs a slice leaves are clean, and the bus follows their watches.
LEMMA SlicedKeeps ==
    ASSUME DebugInv, NEW f \in [DebugTarget -> Stubs], stub' = f,
           \A t \in DebugTarget : Sliced(stub[t], f[t]), stage' \in {"host", "sliced"},
           stage \in {"slice", "sliced"}, stage' = "sliced" => WatchesSeen', missed' = {},
           core' \in [DebugTarget -> Cores], cell' \in [DebugTarget -> {0, 1}],
           UNCHANGED <<dma_watch, single_issue, use>>
    PROVE  DebugInv'
  <1>1. Stubs' = Stubs
    BY DEF Stubs
  <1>2. DebugTypes'
    BY <1>1 DEF DebugInv, DebugTypes
  <1>3. OneByOne'
    <2>1. f["ee"].client /\ ~f["ee"].halted => stub["ee"].client /\ ~stub["ee"].halted
      BY DEF Sliced, DebugTarget
    <2> QED
      BY <2>1 DEF DebugInv, OneByOne
  <1>4. BreakpointsSeen' /\ WatchesSeen'
    BY DEF BreakpointsSeen, WatchesSeen
  <1>5. ASSUME NEW t \in DebugTarget
        PROVE  Clean(f[t]) /\ Ranges(t, f[t], dma_watch)
    <2>1. Clean(stub[t]) /\ Ranges(t, stub[t], dma_watch) /\ Sliced(stub[t], f[t])
      BY StubFacts
    <2> QED
      BY <2>1 DEF Clean, Ranges, Sliced
  <1>6. (\A t \in DebugTarget : Clean(stub[t]) /\ Ranges(t, stub[t], dma_watch))'
    BY <1>5 DEF Clean, Ranges
  <1> QED
    BY <1>2, <1>3, <1>4, <1>6 DEF DebugInv

LEMMA StopKeeps ==
    ASSUME DebugInv, StopAtBreakpoint
    PROVE  DebugInv'
  <1>1. /\ stage \in {"slice", "sliced"} /\ stage' = "host"
        /\ UNCHANGED <<dma_watch, cell, slot, single_issue, use, missed>>
    BY DEF StopAtBreakpoint, Slicing
  <1>2. /\ stub \in [DebugTarget -> Stubs] /\ core \in [DebugTarget -> Cores]
        /\ cell \in [DebugTarget -> {0, 1}] /\ missed = {}
    BY DEF DebugInv, DebugTypes, BreakpointsSeen
  <1>3. \A t \in DebugTarget : /\ Looked(t) \in Stubs /\ Sliced(stub[t], Looked(t))
                               /\ Reached(t) \in Cores /\ Looked(t).client = stub[t].client
    BY LookedFacts
  <1>4. \A t \in DebugTarget : Breaks(t) => stub[t].client
    BY DEF Breaks, Examined
  <1>5. "ee" \in DebugTarget /\ "iop" \in DebugTarget /\ \A t \in DebugTarget : t \in {"ee", "iop"}
    BY DEF DebugTarget
  <1>6. CASE /\ Breaks("ee")
             /\ \E s \in Stop(Looked("ee")) : stub' = [stub EXCEPT !["ee"] = s]
             /\ core' = [core EXCEPT !["ee"] = Reached("ee")]
    <2>1. PICK s \in Stop(Looked("ee")) : stub' = [stub EXCEPT !["ee"] = s]
      BY <1>6
    <2>2. Sliced(stub["ee"], s)
      BY <1>2, <1>3, <1>4, <1>5, <1>6, StopFacts
    <2>3. s \in Stubs
      BY <2>2 DEF Sliced
    <2>4. Sliced(stub["iop"], stub["iop"])
      BY <1>2, <1>5, StubFacts DEF Sliced, Clean
    <2> DEFINE f == [stub EXCEPT !["ee"] = s]
    <2>5. f \in [DebugTarget -> Stubs] /\ \A t \in DebugTarget : Sliced(stub[t], f[t])
      BY <1>2, <1>5, <2>2, <2>3, <2>4
    <2>6. core' \in [DebugTarget -> Cores]
      BY <1>2, <1>3, <1>5, <1>6
    <2>7. stub' = f
      BY <2>1
    <2> HIDE DEF f
    <2> QED
      BY <1>1, <1>2, <2>5, <2>6, <2>7, SlicedKeeps
  <1>7. CASE /\ ~Breaks("ee") /\ Breaks("iop")
             /\ \E s \in Stop(Looked("iop")) : stub' = [stub EXCEPT !["ee"] = Looked("ee"), !["iop"] = s]
             /\ core' = [t \in DebugTarget |-> Reached(t)]
    <2>1. PICK s \in Stop(Looked("iop")) : stub' = [stub EXCEPT !["ee"] = Looked("ee"), !["iop"] = s]
      BY <1>7
    <2>2. Sliced(stub["iop"], s)
      BY <1>2, <1>3, <1>4, <1>5, <1>7, StopFacts
    <2>3. s \in Stubs
      BY <2>2 DEF Sliced
    <2> DEFINE f == [stub EXCEPT !["ee"] = Looked("ee"), !["iop"] = s]
    <2>5. f \in [DebugTarget -> Stubs] /\ \A t \in DebugTarget : Sliced(stub[t], f[t])
      BY <1>2, <1>3, <1>5, <2>2, <2>3
    <2>6. core' \in [DebugTarget -> Cores]
      BY <1>3, <1>7
    <2>7. stub' = f
      BY <2>1
    <2> HIDE DEF f
    <2> QED
      BY <1>1, <1>2, <2>5, <2>6, <2>7, SlicedKeeps
  <1> QED
    BY <1>6, <1>7 DEF StopAtBreakpoint

\* No breakpoint is run past: what a target runs in the cycle is where it was
\* looked at, or the vector it was led to behind the stub's back.
LEMMA NothingMissed ==
    ASSUME DebugInv, Slicing, \A t \in DebugTarget : ~Breaks(t), NEW x \in Events,
           NEW m \in [DebugTarget -> Cores], m = [t \in DebugTarget |-> Reached(t)],
           NEW t \in DebugTarget, NEW p \in MachineStep(m, x).ran[t], p \in stub[t].breakpoints
    PROVE  p \in Exempt(t, MachineStep(m, x).inside)
  <1>1. /\ stub[t] \in Stubs /\ Clean(stub[t])
    BY StubFacts
  <1>2. core[t] \in Cores
    BY DEF DebugInv, DebugTypes
  <1>3. stub[t].client /\ m[t] = Reached(t) /\ ~Breaks(t)
    BY <1>1 DEF Clean
  <1>4. \/ p = Reached(t).pc /\ (t = "iop" => slot = 0)
        \/ p = Vector /\ t = "iop" /\ MachineStep(m, x).inside
    <2>1. CASE t = "ee"
      <3>1. single_issue
        <4>1. "ee" \in DebugTarget /\ stub["ee"].client /\ ~stub["ee"].halted
          BY <1>3, <2>1 DEF Slicing, Halted, DebugTarget
        <4> QED
          BY <4>1 DEF DebugInv, OneByOne, Slicing
      <3>2. p = ToHandler(m["ee"]).pc /\ ~m["ee"].idle
        BY <2>1, <3>1, EeRan
      <3>3. Reached(t) = TakePending(core[t])
        BY <1>3, <2>1 DEF Reached, Examined
      <3>4. ToHandler(m["ee"]) = m["ee"]
        BY <1>2, <1>3, <2>1, <3>2, <3>3, HandlerFacts
      <3> QED
        BY <1>3, <2>1, <3>2, <3>4
    <2>2. CASE t = "iop"
      BY <1>3, <2>2, IopRan
    <2> QED
      BY <2>1, <2>2 DEF DebugTarget
  <1>5. CASE p = Vector /\ t = "iop" /\ MachineStep(m, x).inside
    BY <1>5 DEF Exempt
  <1>6. CASE p = Reached(t).pc /\ (t = "iop" => slot = 0)
    <2>1. Examined(t)
      BY <1>3, <1>6 DEF Examined
    <2>2. stub[t].resume_skip /\ ~EntersHandler(t)
      BY <1>3, <1>6, <2>1 DEF Breaks
    <2>3. p = core[t].pc
      BY <1>6, <2>2 DEF EntersHandler
    <2> QED
      BY <2>2, <2>3 DEF Exempt
  <1> QED
    BY <1>4, <1>5, <1>6

\* What the check of the watches makes of a stub; one that keeps its client
\* without a hit has every watched byte as it was.
LEMMA CheckedFacts ==
    ASSUME DebugInv, NEW t \in DebugTarget, NEW r \in Checked(t), cell'[t] \in {0, 1}
    PROVE  /\ Sliced(stub[t], r)
           /\ ~Changed(t) /\ r.client => \A a \in r.watchpoints : r.old[a] = cell'[t]
  <1>1. /\ Looked(t) \in Stubs /\ Sliced(stub[t], Looked(t)) /\ stub[t] \in Stubs
        /\ Looked(t).client = stub[t].client /\ Looked(t).watchpoints = stub[t].watchpoints
        /\ Looked(t).old = stub[t].old
    BY LookedFacts, StubFacts
  <1>2. CASE ~Changed(t)
    BY <1>1, <1>2 DEF Checked, Changed
  <1>3. CASE Changed(t)
    <2> DEFINE o == [a \in Alias |-> cell'[t]]
               s == [Looked(t) EXCEPT !.old = o]
    <2>1. stub[t].client
      BY <1>3 DEF Changed
    <2>2. o \in [Alias -> {0, 1}]
      OBVIOUS
    <2> HIDE DEF o
    <2>3. /\ s \in Stubs /\ Sliced(stub[t], s) /\ s.client
      BY <1>1, <2>1, <2>2 DEF Sliced, Stubs
    <2>4. Checked(t) = Stop(s) \cup {[Detached(s) EXCEPT !.halted = TRUE]}
      BY <1>3 DEF Checked, o
    <2> HIDE DEF s
    <2>5. CASE r \in Stop(s)
      BY <1>1, <1>3, <2>3, <2>5, StopFacts
    <2>6. CASE r = [Detached(s) EXCEPT !.halted = TRUE]
      <3>1. /\ Detached(s) \in Stubs /\ ~Detached(s).client /\ Detached(s).dma_stale
            /\ Detached(s).breakpoints = {} /\ Detached(s).watchpoints = {}
        BY <2>3, DetachedFacts
      <3> QED
        BY <1>3, <2>6, <3>1 DEF Sliced, Stubs
    <2> QED
      BY <2>4, <2>5, <2>6
  <1> QED
    BY <1>2, <1>3

LEMMA SliceKeeps ==
    ASSUME DebugInv, SliceCycle
    PROVE  DebugInv'
  <1> DEFINE m == [t \in DebugTarget |-> Reached(t)]
  <1>1. /\ Slicing /\ (\A t \in DebugTarget : ~Breaks(t)) /\ stage \in {"slice", "sliced"}
        /\ UNCHANGED <<dma_watch, single_issue, use>>
    BY DEF SliceCycle, Slicing
  <1>2. m \in [DebugTarget -> Cores]
    BY LookedFacts
  <1>3. PICK x \in Events :
          /\ Cycle(m, x)
          /\ missed' = { w \in DebugTarget \X use.spots :
                            w[2] \in (MachineStep(m, x).ran[w[1]] \cap stub[w[1]].breakpoints)
                                       \ Exempt(w[1], MachineStep(m, x).inside) }
    BY DEF SliceCycle
  <1>4. core' \in [DebugTarget -> Cores] /\ cell' \in [DebugTarget -> {0, 1}]
    BY <1>2, <1>3, CycleTypes
  <1>5. missed' = {}
    <2>1. \A t \in DebugTarget : \A p \in MachineStep(m, x).ran[t] :
             p \in stub[t].breakpoints => p \in Exempt(t, MachineStep(m, x).inside)
      <3> DEFINE n == m
      <3>1. n \in [DebugTarget -> Cores] /\ n = [t \in DebugTarget |-> Reached(t)]
        BY <1>2
      <3> HIDE DEF m
      <3> QED
        BY <1>1, <3>1, NothingMissed
    <2> QED
      BY <1>3, <2>1
  <1>6. PICK e \in Checked("ee"), i \in Checked("iop") : stub' = [stub EXCEPT !["ee"] = e, !["iop"] = i]
    BY DEF SliceCycle
  <1>7. "ee" \in DebugTarget /\ "iop" \in DebugTarget /\ \A t \in DebugTarget : t \in {"ee", "iop"}
    BY DEF DebugTarget
  <1>8. /\ Sliced(stub["ee"], e) /\ Sliced(stub["iop"], i)
        /\ ~Changed("ee") /\ e.client => \A a \in e.watchpoints : e.old[a] = cell'["ee"]
        /\ ~Changed("iop") /\ i.client => \A a \in i.watchpoints : i.old[a] = cell'["iop"]
    BY <1>4, <1>6, <1>7, CheckedFacts
  <1>9. e \in Stubs /\ i \in Stubs /\ stub \in [DebugTarget -> Stubs]
    BY <1>8 DEF Sliced, DebugInv, DebugTypes
  <1> DEFINE f == [stub EXCEPT !["ee"] = e, !["iop"] = i]
  <1>10. /\ f \in [DebugTarget -> Stubs] /\ f["ee"] = e /\ f["iop"] = i
         /\ \A t \in DebugTarget : Sliced(stub[t], f[t])
    BY <1>7, <1>8, <1>9
  <1>11. stub' = f
    BY <1>6
  <1>12. stage' \in {"host", "sliced"} /\ (stage' = "sliced" => ~Changed("ee") /\ ~Changed("iop"))
    BY <1>7 DEF SliceCycle
  <1> HIDE DEF f
  <1>13. stage' = "sliced" => WatchesSeen'
    BY <1>7, <1>8, <1>10, <1>11, <1>12 DEF WatchesSeen
  <1> QED
    BY <1>1, <1>4, <1>5, <1>10, <1>11, <1>12, <1>13, SlicedKeeps

\* While a client has the machine running it runs past none of its breakpoints
\* but the two exceptions named at BreakpointsSeen, a watched change ends the
\* slice that makes it, and the ranges on the bus follow the watches.
THEOREM HostDebugKept == DebugSpec => []DebugKept
  <1>1. DebugInit => DebugInv
    <2> SUFFICES ASSUME DebugInit PROVE DebugInv
      OBVIOUS
    <2>1. NoClient \in Stubs /\ ~NoClient.client /\ NoClient.breakpoints = {} /\ NoClient.watchpoints = {}
      BY DEF NoClient, Stubs
    <2>2. [pc |-> 0, epc |-> 0, idle |-> FALSE, due |-> FALSE] \in Cores
      <3>1. 0 \in Words
        BY DEF Words
      <3> QED
        BY <3>1 DEF Cores
    <2>3. DebugTypes
      BY <2>1, <2>2 DEF DebugInit, DebugTypes
    <2>4. \A t \in DebugTarget : Clean(stub[t]) /\ Ranges(t, stub[t], dma_watch)
      BY <2>1 DEF DebugInit, Clean, Ranges
    <2>5. OneByOne /\ BreakpointsSeen /\ WatchesSeen
      BY DEF DebugInit, OneByOne, BreakpointsSeen, WatchesSeen
    <2> QED
      BY <2>3, <2>4, <2>5 DEF DebugInv
  <1>2. DebugInv /\ [DebugNext]_debug_vars => DebugInv'
    <2> SUFFICES ASSUME DebugInv, [DebugNext]_debug_vars PROVE DebugInv'
      OBVIOUS
    <2>1. CASE PumpStart \/ StepToSlot \/ NoSlice \/ HostCycle
      BY <2>1, MachineKeeps
    <2>2. CASE StopAtBreakpoint
      BY <2>2, StopKeeps
    <2>3. CASE SliceCycle
      BY <2>3, SliceKeeps
    <2>4. CASE \E t \in DebugTarget : NoPacket(t) \/ Accept(t) \/ Detach(t) \/ Interrupt(t)
      BY <2>4, ConnectionKeeps
    <2>5. CASE \E t \in DebugTarget : Resume(t) \/ StepTarget(t) \/ EditMemory(t)
      BY <2>5, ResumeKeeps
    <2>6. CASE \E t \in DebugTarget : SetBreakpoint(t) \/ SetWatch(t)
      BY <2>6, SetPointsKeeps
    <2>7. CASE UNCHANGED debug_vars
      <3>1. UNCHANGED <<stage, stub, dma_watch, core, cell, slot, single_issue, use, missed>>
        BY <2>7 DEF debug_vars
      <3>2. Stubs' = Stubs
        BY <3>1 DEF Stubs
      <3>3. (\A t \in DebugTarget : Clean(stub[t]) /\ Ranges(t, stub[t], dma_watch))'
        BY <3>1 DEF DebugInv, Clean, Ranges
      <3>4. DebugTypes'
        BY <3>1, <3>2 DEF DebugInv, DebugTypes
      <3>5. OneByOne' /\ BreakpointsSeen' /\ WatchesSeen'
        BY <3>1 DEF DebugInv, OneByOne, BreakpointsSeen, WatchesSeen
      <3> QED
        BY <3>3, <3>4, <3>5 DEF DebugInv
    <2> QED
      BY <2>1, <2>2, <2>3, <2>4, <2>5, <2>6, <2>7 DEF DebugNext
  <1>3. DebugInv => DebugKept
    <2> SUFFICES ASSUME DebugInv PROVE DebugKept
      OBVIOUS
    <2>1. RangesFollowWatches
      BY DEF DebugInv, RangesFollowWatches, Ranges
    <2> QED
      BY <2>1 DEF DebugInv, DebugKept
  <1> QED
    BY <1>1, <1>2, <1>3, PTL DEF DebugSpec

(***************************************************************************)
(* The worker: what its queue of commands will have made of the drive, the *)
(* label and the cheat table.                                              *)
(***************************************************************************)
Disc     == DiscImage \cup {NoImage}
Table    == [of : Disc, on : BOOLEAN]
OnMenu   == {"Step", "Reset", "SaveState", "LoadState", "Quit"}
Requests == [op : {"OpenTray"} \cup OnMenu] \cup [op : {"CloseTray", "BootDisc"}, disc : Disc]
            \cup [op : {"SetRunning"}, on : BOOLEAN]
            \cup [op : {"SetCheats", "SetCheatEnabled"}, table : Table]

Seats  == [disc : Disc, open : BOOLEAN, removed : Disc, label : Disc, table : Table]
Seated == [disc |-> cd_drive.disc, open |-> cd_drive.open, removed |-> removed, label |-> label,
           table |-> table]

\* What an accepted command does to them.
Back(m, d) == IF d # NoImage THEN d ELSE m.removed
Effect(m, cmd) ==
    CASE cmd.op = "OpenTray" ->
            [m EXCEPT !.disc = NoImage, !.open = TRUE, !.removed = m.disc, !.label = NoImage]
      [] cmd.op = "CloseTray" ->
            [disc |-> Back(m, cmd.disc), open |-> FALSE, removed |-> NoImage,
             label |-> Back(m, cmd.disc),
             table |-> IF cmd.disc # NoImage THEN AsFiled(cmd.disc) ELSE m.table]
      [] cmd.op = "BootDisc" ->
            [m EXCEPT !.disc = cmd.disc, !.open = FALSE, !.label = cmd.disc,
                      !.table = AsFiled(cmd.disc)]
      [] cmd.op = "SetCheats" -> [m EXCEPT !.table = cmd.table]
      [] cmd.op = "SetCheatEnabled" ->
            [m EXCEPT !.table = IF m.table.of = cmd.table.of THEN cmd.table ELSE m.table]
      [] OTHER -> m

\* The commands cs lead from s to d; those of the menu find the tray shut.
Leads(s, cs, d) ==
    \E t \in [0 .. Len(cs) -> Seats] :
       /\ t[0] = s /\ t[Len(cs)] = d
       /\ \A i \in 1 .. Len(cs) : /\ t[i] = Effect(t[i - 1], cs[i])
                                  /\ cs[i].op \in OnMenu => ~t[i - 1].open

\* Where the UI takes them to end.
Promised(d) ==
    /\ d.open = (picker = "insert") /\ d.table = ui_cheats
    /\ IF picker = "insert"
       THEN d.disc = NoImage /\ d.label = NoImage /\ d.removed = ui_cheats.of
       ELSE d.disc = ui_cheats.of /\ d.label = ui_cheats.of /\ d.removed = NoImage

WorkerTypes ==
    /\ inbox \in Seq(Requests)
    /\ cd_drive \in [disc : Disc, open : BOOLEAN]
    /\ removed \in Disc /\ label \in Disc /\ table \in Table
    /\ ui_cheats \in Table /\ cheat_key \in Disc /\ cheat_off \in [DiscImage -> BOOLEAN]
    /\ picker \in {"none", "insert", "boot"} /\ refused \in BOOLEAN

QueueLeads ==
    ~refused => /\ \E d \in Seats : Leads(Seated, inbox, d) /\ Promised(d)
                /\ state_file # "open"
\* cheats.toml has what the list shows of the entry it goes by.
KeyKept == cheat_key # NoImage => ui_cheats.on = ~cheat_off[cheat_key]

CardTypes == memcard \in [data : {0, 1}, dirty : BOOLEAN]
Held == /\ running \in BOOLEAN
        /\ HeldUntilAttach /\ (attached => debugger_seen)

WorkerInv == WorkerTypes /\ QueueLeads /\ KeyKept /\ CardTypes /\ CardSaved /\ Held

(***************************************************************************)
(* One command more, one command less.                                     *)
(***************************************************************************)
LEMMA EffectSeats == \A m \in Seats, c \in Requests : Effect(m, c) \in Seats
  <1> SUFFICES ASSUME NEW m \in Seats, NEW c \in Requests PROVE Effect(m, c) \in Seats
    OBVIOUS
  <1>1. CASE c \in [op : {"OpenTray"} \cup OnMenu]
    BY <1>1 DEF Effect, Seats, OnMenu, Disc
  <1>2. CASE c \in [op : {"CloseTray", "BootDisc"}, disc : Disc]
    BY <1>2 DEF Effect, Seats, Disc, Table, AsFiled, Back
  <1>3. CASE c \in [op : {"SetRunning"}, on : BOOLEAN]
    BY <1>3 DEF Effect, Seats
  <1>4. CASE c \in [op : {"SetCheats", "SetCheatEnabled"}, table : Table]
    BY <1>4 DEF Effect, Seats
  <1> QED
    BY <1>1, <1>2, <1>3, <1>4 DEF Requests

LEMMA NothingQueued ==
    /\ \A s \in Seats : Leads(s, <<>>, s)
    /\ \A s, d : Leads(s, <<>>, d) => d = s
  <1>1. ASSUME NEW s \in Seats PROVE Leads(s, <<>>, s)
    <2> DEFINE t == [i \in 0 .. 0 |-> s]
    <2>1. t \in [0 .. 0 -> Seats] /\ t[0] = s
      OBVIOUS
    <2> HIDE DEF t
    <2> QED
      BY <2>1 DEF Leads
  <1>2. ASSUME NEW s, NEW d, Leads(s, <<>>, d) PROVE d = s
    BY <1>2 DEF Leads
  <1> QED
    BY <1>1, <1>2

LEMMA QueuedMore ==
    ASSUME NEW s, NEW d, NEW cs \in Seq(Requests), NEW c \in Requests, Leads(s, cs, d),
           c.op \in OnMenu => ~d.open
    PROVE  Leads(s, Append(cs, c), Effect(d, c))
  <1> DEFINE n == Len(cs)
             as == Append(cs, c)
  <1>1. PICK t \in [0 .. n -> Seats] :
          /\ t[0] = s /\ t[n] = d
          /\ \A i \in 1 .. n : /\ t[i] = Effect(t[i - 1], cs[i])
                               /\ cs[i].op \in OnMenu => ~t[i - 1].open
    BY DEF Leads
  <1>2. /\ n \in Nat /\ Len(as) = n + 1 /\ as[n + 1] = c
        /\ \A i \in 1 .. n : as[i] = cs[i]
    OBVIOUS
  <1> HIDE DEF n, as
  <1> DEFINE u == [i \in 0 .. (n + 1) |-> IF i = n + 1 THEN Effect(d, c) ELSE t[i]]
  <1>3. d \in Seats /\ Effect(d, c) \in Seats
    BY <1>1, <1>2, EffectSeats
  <1>4. u \in [0 .. (n + 1) -> Seats] /\ u[0] = s /\ u[n + 1] = Effect(d, c)
    BY <1>1, <1>2, <1>3
  <1>5. ASSUME NEW i \in 1 .. (n + 1)
        PROVE  u[i] = Effect(u[i - 1], as[i]) /\ (as[i].op \in OnMenu => ~u[i - 1].open)
    <2>1. CASE i = n + 1
      <3>1. i - 1 = n /\ n \in 0 .. (n + 1) /\ n # n + 1
        BY <1>2, <2>1
      <3>2. u[n] = d
        BY <1>1, <3>1
      <3> QED
        BY <1>2, <1>4, <2>1, <3>1, <3>2
    <2>2. CASE i \in 1 .. n
      <3>1. u[i - 1] = t[i - 1] /\ u[i] = t[i] /\ as[i] = cs[i]
        BY <1>2, <2>2
      <3> QED
        BY <1>1, <2>2, <3>1
    <2> QED
      BY <1>2, <2>1, <2>2
  <1> HIDE DEF u
  <1>6. Leads(s, as, Effect(d, c))
    BY <1>2, <1>4, <1>5 DEF Leads
  <1> QED
    BY <1>6 DEF as

LEMMA QueuedLess ==
    ASSUME NEW s, NEW d, NEW cs \in Seq(Requests), cs # <<>>, Leads(s, cs, d)
    PROVE  /\ Leads(Effect(s, Head(cs)), Tail(cs), d)
           /\ Head(cs).op \in OnMenu => ~s.open
  <1> DEFINE n == Len(cs)
             ts == Tail(cs)
  <1>1. PICK t \in [0 .. n -> Seats] :
          /\ t[0] = s /\ t[n] = d
          /\ \A i \in 1 .. n : /\ t[i] = Effect(t[i - 1], cs[i])
                               /\ cs[i].op \in OnMenu => ~t[i - 1].open
    BY DEF Leads
  <1>2. /\ n \in Nat \ {0} /\ Len(ts) = n - 1 /\ Head(cs) = cs[1]
        /\ \A i \in 1 .. (n - 1) : ts[i] = cs[i + 1]
    OBVIOUS
  <1> HIDE DEF n, ts
  <1> DEFINE u == [i \in 0 .. (n - 1) |-> t[i + 1]]
  <1>3. t[1] = Effect(s, cs[1]) /\ (cs[1].op \in OnMenu => ~s.open)
    BY <1>1, <1>2
  <1>4. u \in [0 .. (n - 1) -> Seats] /\ u[0] = t[1] /\ u[n - 1] = d
    BY <1>1, <1>2
  <1>5. ASSUME NEW i \in 1 .. (n - 1)
        PROVE  u[i] = Effect(u[i - 1], ts[i]) /\ (ts[i].op \in OnMenu => ~u[i - 1].open)
    <2>1. u[i] = t[i + 1] /\ u[i - 1] = t[i] /\ ts[i] = cs[i + 1] /\ i + 1 \in 1 .. n
      BY <1>2
    <2>2. (i + 1) - 1 = i
      BY <1>2
    <2>3. t[i + 1] = Effect(t[(i + 1) - 1], cs[i + 1])
          /\ (cs[i + 1].op \in OnMenu => ~t[(i + 1) - 1].open)
      BY <1>1, <2>1
    <2> QED
      BY <2>1, <2>2, <2>3
  <1> HIDE DEF u
  <1>6. Leads(Effect(s, Head(cs)), ts, d)
    BY <1>2, <1>3, <1>4, <1>5 DEF Leads
  <1> QED
    BY <1>2, <1>3, <1>6 DEF ts

(***************************************************************************)
(* The UI's steps.                                                         *)
(***************************************************************************)
Asks == InsertDisc \/ Pick \/ CancelPick \/ SyncCheatKey \/ ToggleCheat \/ ReloadCheats
        \/ \E op \in OnMenu \cup {"SetRunning"} : Menu(op)

\* A command that keeps the promise when it is the last.
LEMMA SentKeeps ==
    ASSUME WorkerTypes, QueueLeads, NEW c \in Requests, Send(c),
           \A d \in Seats : Promised(d) => /\ c.op \in OnMenu => ~d.open
                                           /\ Promised(Effect(d, c))'
    PROVE  inbox' \in Seq(Requests) /\ QueueLeads'
  <1>1. inbox' = Append(inbox, c) /\ inbox \in Seq(Requests)
    BY DEF Send, WorkerTypes
  <1>2. UNCHANGED <<cd_drive, removed, label, table, refused, state_file>> /\ Seated' = Seated
    BY DEF Send, machine, shown, rest, Seated
  <1>3. ASSUME ~refused
        PROVE  \E d \in Seats : Leads(Seated, inbox', d) /\ Promised(d)'
    <2>1. PICK d \in Seats : Leads(Seated, inbox, d) /\ Promised(d)
      BY <1>3 DEF QueueLeads
    <2>2. Leads(Seated, Append(inbox, c), Effect(d, c))
      BY <1>1, <2>1, QueuedMore
    <2>3. Effect(d, c) \in Seats
      BY EffectSeats
    <2> QED
      BY <1>1, <2>1, <2>2, <2>3
  <1> QED
    BY <1>1, <1>2, <1>3 DEF QueueLeads

\* Nothing of the worker's own moves when the UI sends.
LEMMA SentLeaves ==
    ASSUME WorkerInv, NEW c, Send(c)
    PROVE  /\ cd_drive' \in [disc : Disc, open : BOOLEAN]
           /\ removed' \in Disc /\ label' \in Disc /\ table' \in Table /\ refused' \in BOOLEAN
           /\ (CardTypes /\ CardSaved /\ Held)'
  BY DEF WorkerInv, WorkerTypes, Send, machine, shown, rest, CardTypes, CardSaved, Held,
         HeldUntilAttach

LEMMA InsertDiscKeeps == WorkerInv /\ InsertDisc => WorkerInv'
  <1> SUFFICES ASSUME WorkerInv, InsertDisc PROVE WorkerInv'
    OBVIOUS
  <1> DEFINE c == [op |-> "OpenTray"]
  <1>1. /\ WorkerTypes /\ QueueLeads /\ KeyKept /\ c \in Requests /\ Send(c)
        /\ picker = "none" /\ picker' = "insert" /\ UNCHANGED <<ui_cheats, cheat_key, cheat_off>>
    BY DEF WorkerInv, InsertDisc, Idling, Requests
  <1>2. \A d \in Seats : Promised(d) => /\ c.op \in OnMenu => ~d.open
                                        /\ Promised(Effect(d, c))'
    BY <1>1 DEF Promised, Effect, Seats, OnMenu
  <1>3. inbox' \in Seq(Requests) /\ QueueLeads'
    BY <1>1, <1>2, SentKeeps
  <1>4. KeyKept'
    BY <1>1 DEF KeyKept
  <1> QED
    BY <1>1, <1>3, <1>4, SentLeaves DEF WorkerInv, WorkerTypes

LEMMA PickKeeps == WorkerInv /\ Pick => WorkerInv'
  <1> SUFFICES ASSUME WorkerInv, Pick PROVE WorkerInv'
    OBVIOUS
  <1>1. PICK p \in DiscImage :
          /\ Send([op |-> IF picker = "boot" THEN "BootDisc" ELSE "CloseTray", disc |-> p])
          /\ ui_cheats' = AsFiled(p) /\ cheat_key' = NoImage
    BY DEF Pick
  <1>0. PICK c \in Requests : /\ Send(c) /\ c.disc = p
                              /\ c.op = IF picker = "boot" THEN "BootDisc" ELSE "CloseTray"
    BY <1>1 DEF Requests, Disc
  <1>2. /\ WorkerTypes /\ QueueLeads /\ p # NoImage /\ p \in Disc
        /\ picker \in {"insert", "boot"} /\ picker' = "none" /\ UNCHANGED cheat_off
    BY WorkerAssumption DEF WorkerInv, WorkerTypes, Pick, Disc
  <1>3. ASSUME NEW d \in Seats, Promised(d)
        PROVE  (c.op \in OnMenu => ~d.open) /\ Promised(Effect(d, c))'
    <2>1. c.op \notin OnMenu /\ d.table = ui_cheats
      BY <1>0, <1>3 DEF OnMenu, Promised
    <2>2. CASE picker = "boot"
      BY <1>0, <1>1, <1>2, <1>3, <2>1, <2>2 DEF Promised, Effect, Seats, AsFiled
    <2>3. CASE picker = "insert"
      BY <1>0, <1>1, <1>2, <1>3, <2>1, <2>3 DEF Promised, Effect, Seats, AsFiled, Back
    <2> QED
      BY <1>2, <2>2, <2>3
  <1>4. inbox' \in Seq(Requests) /\ QueueLeads'
    BY <1>0, <1>2, <1>3, SentKeeps
  <1>5. KeyKept' /\ ui_cheats' \in Table /\ cheat_key' \in Disc
    BY <1>1, <1>2 DEF KeyKept, Table, AsFiled, Disc
  <1> QED
    BY <1>0, <1>1, <1>2, <1>4, <1>5, SentLeaves DEF WorkerInv, WorkerTypes

LEMMA CancelKeeps == WorkerInv /\ CancelPick => WorkerInv'
  <1> SUFFICES ASSUME WorkerInv, CancelPick PROVE WorkerInv'
    OBVIOUS
  <1> DEFINE c == [op |-> "CloseTray", disc |-> NoImage]
  <1>1. /\ WorkerTypes /\ QueueLeads /\ KeyKept /\ c \in Requests
        /\ picker' = "none" /\ UNCHANGED <<ui_cheats, cheat_key, cheat_off>>
    BY DEF WorkerInv, CancelPick, Requests, Disc
  <1>2. KeyKept'
    BY <1>1 DEF KeyKept
  <1>3. CASE picker = "insert" /\ Send(c)
    <2>1. ASSUME NEW d \in Seats, Promised(d)
          PROVE  (c.op \in OnMenu => ~d.open) /\ Promised(Effect(d, c))'
      BY <1>1, <1>3, <2>1 DEF Promised, Effect, Seats, OnMenu, Back
    <2>2. inbox' \in Seq(Requests) /\ QueueLeads'
      BY <1>1, <1>3, <2>1, SentKeeps
    <2> QED
      BY <1>1, <1>2, <1>3, <2>2, SentLeaves DEF WorkerInv, WorkerTypes
  <1>4. CASE picker = "boot" /\ UNCHANGED <<inbox, machine, shown, rest>>
    <2>1. \A d : Promised(d) => Promised(d)'
      BY <1>1, <1>4 DEF Promised
    <2>2. UNCHANGED <<cd_drive, removed, label, table, inbox, refused, state_file>>
          /\ Seated' = Seated
      BY <1>4 DEF machine, shown, rest, Seated
    <2>3. QueueLeads'
      BY <1>1, <2>1, <2>2 DEF QueueLeads
    <2> QED
      BY <1>1, <1>2, <1>4, <2>3
         DEF WorkerInv, WorkerTypes, machine, shown, rest, CardTypes, CardSaved, Held, HeldUntilAttach
  <1> QED
    BY <1>3, <1>4 DEF CancelPick

\* The three that re-send the list: the tray is shut and its disc the list's.
LEMMA ResentKeeps ==
    WorkerInv /\ (SyncCheatKey \/ ToggleCheat \/ ReloadCheats) => WorkerInv'
  <1> SUFFICES ASSUME WorkerInv, SyncCheatKey \/ ToggleCheat \/ ReloadCheats PROVE WorkerInv'
    OBVIOUS
  <1>1. /\ WorkerTypes /\ QueueLeads /\ KeyKept
        /\ picker = "none" /\ picker' = "none" /\ ui_cheats'.of = ui_cheats.of
        /\ ui_cheats' \in Table /\ cheat_key' \in Disc /\ cheat_off' \in [DiscImage -> BOOLEAN]
        /\ KeyKept'
    <2>1. CASE SyncCheatKey
      BY <2>1 DEF WorkerInv, WorkerTypes, SyncCheatKey, Idling, Table, Disc, KeyKept
    <2>2. CASE ToggleCheat
      BY <2>2 DEF WorkerInv, WorkerTypes, ToggleCheat, Idling, Table, Disc, KeyKept
    <2>3. CASE ReloadCheats
      BY <2>3 DEF WorkerInv, WorkerTypes, ReloadCheats, Idling, Table, Disc, KeyKept
    <2> QED
      BY <2>1, <2>2, <2>3
  <1>2. PICK c \in Requests : /\ Send(c) /\ c.op \in {"SetCheats", "SetCheatEnabled"}
                              /\ c.table = ui_cheats'
    <2>1. CASE Send([op |-> "SetCheats", table |-> ui_cheats'])
      BY <1>1, <2>1 DEF Requests
    <2>2. CASE Send([op |-> "SetCheatEnabled", table |-> ui_cheats'])
      BY <1>1, <2>2 DEF Requests
    <2> QED
      BY <2>1, <2>2 DEF SyncCheatKey, ToggleCheat, ReloadCheats
  <1>3. ASSUME NEW d \in Seats, Promised(d)
        PROVE  (c.op \in OnMenu => ~d.open) /\ Promised(Effect(d, c))'
    BY <1>1, <1>2, <1>3 DEF Promised, Effect, Seats, OnMenu
  <1>4. inbox' \in Seq(Requests) /\ QueueLeads'
    BY <1>1, <1>2, <1>3, SentKeeps
  <1> QED
    BY <1>1, <1>2, <1>4, SentLeaves DEF WorkerInv, WorkerTypes

LEMMA MenuKeeps ==
    ASSUME NEW op \in {"SetRunning", "Step", "Reset", "SaveState", "LoadState", "Quit"},
           WorkerInv, Menu(op)
    PROVE  WorkerInv'
  <1>1. /\ WorkerTypes /\ QueueLeads /\ KeyKept /\ picker = "none"
        /\ UNCHANGED <<picker, ui_cheats, cheat_key, cheat_off>>
    BY DEF WorkerInv, Menu, Idling, ui_vars
  <1>2. PICK c \in Requests : Send(c) /\ c.op = op
    <2>1. CASE op = "SetRunning"
      <3> DEFINE c == [op |-> op, on |-> ~running]
      <3>1. Send(c)
        BY <2>1, Zenon DEF Menu
      <3>2. c \in [op : {"SetRunning"}, on : BOOLEAN] /\ c.op = op
        BY <2>1
      <3>3. c \in Requests
        BY <3>2 DEF Requests
      <3> HIDE DEF c
      <3> QED
        BY <3>1, <3>2, <3>3
    <2>2. CASE op # "SetRunning"
      BY <2>2 DEF Menu, Requests, OnMenu
    <2> QED
      BY <2>1, <2>2
  <1>3. ASSUME NEW d \in Seats, Promised(d)
        PROVE  (c.op \in OnMenu => ~d.open) /\ Promised(Effect(d, c))'
    <2>1. Effect(d, c) = d
      BY <1>2 DEF Effect
    <2> QED
      BY <1>1, <1>3, <2>1 DEF Promised
  <1>4. inbox' \in Seq(Requests) /\ QueueLeads'
    BY <1>1, <1>2, <1>3, SentKeeps
  <1>5. KeyKept'
    BY <1>1 DEF KeyKept
  <1> QED
    BY <1>1, <1>2, <1>4, <1>5, SentLeaves DEF WorkerInv, WorkerTypes

LEMMA BootPickerKeeps == WorkerInv /\ BootPicker => WorkerInv'
  <1> SUFFICES ASSUME WorkerInv, BootPicker PROVE WorkerInv'
    OBVIOUS
  <1>1. /\ picker = "none" /\ picker' = "boot"
        /\ UNCHANGED <<inbox, machine, shown, rest, ui_cheats, cheat_key, cheat_off>>
    BY DEF BootPicker, Idling
  <1>2. \A d : Promised(d) => Promised(d)'
    BY <1>1 DEF Promised
  <1>3. Seated' = Seated /\ UNCHANGED <<inbox, refused, state_file>>
    BY <1>1 DEF machine, shown, rest, Seated
  <1>4. QueueLeads'
    BY <1>2, <1>3 DEF WorkerInv, QueueLeads
  <1> QED
    BY <1>1, <1>4 DEF WorkerInv, WorkerTypes, machine, shown, rest, KeyKept, CardTypes, CardSaved,
                      Held, HeldUntilAttach

(***************************************************************************)
(* The worker's steps.                                                     *)
(***************************************************************************)
LEMMA CloseTypes ==
    ASSUME WorkerTypes, NEW d \in Disc, CloseOn(d)
    PROVE  /\ cd_drive' \in [disc : Disc, open : BOOLEAN] /\ removed' \in Disc /\ label' \in Disc
           /\ table' \in Table
           /\ Seated' = Effect(Seated, [op |-> "CloseTray", disc |-> d])
  <1>1. NoImage \in Disc
    BY DEF Disc
  <1> QED
    BY <1>1 DEF WorkerTypes, CloseOn, Table, AsFiled, Seated, Effect, Back

\* A command carried out.
LEMMA Performs ==
    ASSUME WorkerTypes, NEW c \in Requests, Perform(c)
    PROVE  /\ cd_drive' \in [disc : Disc, open : BOOLEAN] /\ removed' \in Disc /\ label' \in Disc
           /\ table' \in Table
           /\ \/ Seated' = Effect(Seated, c)
              \/ c.op = "Reset" /\ cd_drive.open
              \/ c.op = "LoadState" /\ (cd_drive.open \/ state_file = "open")
  <1>0. NoImage \in Disc /\ cd_drive = [disc |-> cd_drive.disc, open |-> cd_drive.open]
    BY DEF Disc, WorkerTypes
  <1>1. CASE c.op \in {"SetRunning", "Step", "SaveState"}
    <2>1. UNCHANGED <<cd_drive, removed, label, table>>
      BY <1>1 DEF Perform, machine, shown
    <2>2. Effect(Seated, c) = Seated
      BY <1>1 DEF Effect
    <2> QED
      BY <2>1, <2>2 DEF WorkerTypes, Seated
  <1>2. CASE c.op = "Reset"
    <2>1. Reset
      BY <1>2 DEF Perform
    <2>2. cd_drive' = [disc |-> cd_drive.disc, open |-> FALSE] /\ UNCHANGED <<removed, label, table>>
      BY <2>1, <1>0 DEF Reset, PowerCycle
    <2>3. ~cd_drive.open => Seated' = Seated
      BY <2>2 DEF Seated, WorkerTypes
    <2>4. Effect(Seated, c) = Seated
      BY <1>2 DEF Effect
    <2> QED
      BY <1>2, <2>2, <2>3, <2>4 DEF WorkerTypes
  <1>3. CASE c.op = "LoadState"
    <2>1. LoadState
      BY <1>3 DEF Perform
    <2>2. /\ UNCHANGED <<removed, label, table>>
          /\ cd_drive' \in {cd_drive, [disc |-> cd_drive.disc, open |-> state_file = "open"]}
      BY <2>1, <1>0 DEF LoadState, shown
    <2>3. ~cd_drive.open /\ state_file # "open" => Seated' = Seated
      BY <2>2 DEF Seated, WorkerTypes
    <2>5. cd_drive' \in [disc : Disc, open : BOOLEAN]
      <3>1. (state_file = "open") \in BOOLEAN /\ cd_drive.disc \in Disc
        BY DEF WorkerTypes
      <3>2. [disc |-> cd_drive.disc, open |-> state_file = "open"] \in [disc : Disc, open : BOOLEAN]
        BY <3>1, Zenon
      <3> QED
        BY <2>2, <3>2 DEF WorkerTypes
    <2>4. Effect(Seated, c) = Seated
      BY <1>3 DEF Effect
    <2> QED
      BY <1>3, <2>2, <2>3, <2>4, <2>5 DEF WorkerTypes
  <1>4. CASE c.op = "OpenTray"
    <2>1. OpenDrive
      BY <1>4 DEF Perform
    <2> QED
      BY <1>0, <1>4, <2>1 DEF OpenDrive, WorkerTypes, Seated, Effect
  <1>5. CASE c.op = "CloseTray"
    <2>1. c.disc \in Disc /\ CloseOn(c.disc)
      BY <1>5 DEF Perform, Requests, OnMenu
    <2>2. Effect(Seated, c) = Effect(Seated, [op |-> "CloseTray", disc |-> c.disc])
      BY <1>5 DEF Effect
    <2> QED
      BY <2>1, <2>2, CloseTypes
  <1>6. CASE c.op = "BootDisc"
    <2>1. c.disc \in Disc /\ BootDisc(c.disc)
      BY <1>6 DEF Perform, Requests, OnMenu
    <2> QED
      BY <1>6, <2>1 DEF BootDisc, PowerCycle, WorkerTypes, Seated, Effect, Table, AsFiled
  <1>7. CASE c.op \in {"SetCheats", "SetCheatEnabled"}
    <2>1. c.table \in Table
      BY <1>7 DEF Requests, OnMenu
    <2>2. CASE c.op = "SetCheats"
      BY <2>1, <2>2 DEF Perform, SetTable, shown, WorkerTypes, Seated, Effect
    <2>3. CASE c.op = "SetCheatEnabled"
      BY <2>1, <2>3 DEF Perform, SetTable, shown, WorkerTypes, Seated, Effect
    <2> QED
      BY <1>7, <2>2, <2>3
  <1> QED
    BY <1>1, <1>2, <1>3, <1>4, <1>5, <1>6, <1>7 DEF Perform

\* The card after a run of the machine is marked, or what it was.
LEMMA RunMarks ==
    ASSUME CardTypes, CardSaved, NEW c \in {memcard} \cup AfterRun
    PROVE  c \in [data : {0, 1}, dirty : BOOLEAN] /\ (~c.dirty => card_file = c.data)
  <1>1. CASE c = memcard
    BY <1>1 DEF CardTypes, CardSaved
  <1>2. CASE c = [data |-> 1 - memcard.data, dirty |-> TRUE]
    <2>1. 1 - memcard.data \in {0, 1}
      BY DEF CardTypes
    <2> QED
      BY <1>2, <2>1
  <1>3. c = memcard \/ c = [data |-> 1 - memcard.data, dirty |-> TRUE]
    BY DEF AfterRun
  <1> QED
    BY <1>1, <1>2, <1>3

\* What a command does to the card and to the hold.
LEMMA CardAndHold ==
    ASSUME WorkerInv, HandleCommand
    PROVE  CardTypes' /\ CardSaved' /\ Held'
  <1> DEFINE c == Head(inbox)
  <1>1. /\ UNCHANGED <<session, attached, debugger_seen, card_file>>
        /\ c \in Requests /\ CardTypes /\ CardSaved /\ Held
    BY DEF HandleCommand, WorkerInv, WorkerTypes
  <1>2. CASE Active /\ Guarded(c.op) /\ UNCHANGED <<machine, shown>>
    BY <1>1, <1>2 DEF machine, shown, CardTypes, CardSaved, Held, HeldUntilAttach
  <1>3. CASE ~(Active /\ Guarded(c.op)) /\ Perform(c)
    <2>1. memcard' = memcard \/ memcard' \in AfterRun
      BY <1>3 DEF Perform, machine, Reset, PowerCycle, OpenDrive, CloseOn, BootDisc, SetTable, LoadState
    <2>2. CardTypes' /\ CardSaved'
      <3> DEFINE m == memcard'
      <3>1. m \in {memcard} \cup AfterRun
        BY <2>1
      <3> HIDE DEF m
      <3>2. m \in [data : {0, 1}, dirty : BOOLEAN] /\ (~m.dirty => card_file = m.data)
        BY <1>1, <3>1, RunMarks
      <3> QED
        BY <1>1, <3>2 DEF CardTypes, CardSaved, m
    <2>3. running' \in BOOLEAN
      <3>1. CASE c.op = "SetRunning"
        BY <1>1, <1>3, <3>1 DEF Perform, Requests, OnMenu
      <3>2. CASE c.op # "SetRunning"
        BY <1>1, <1>3, <3>2
           DEF Perform, shown, Reset, OpenDrive, CloseOn, BootDisc, SetTable, LoadState, Held
      <3> QED
        BY <3>1, <3>2
    <2>4. session.waits /\ ~debugger_seen => fresh' = fresh
      <3> SUFFICES ASSUME session.waits, ~debugger_seen PROVE fresh' = fresh
        OBVIOUS
      <3>1. c.op \in {"SetCheats", "SetCheatEnabled"}
        BY <1>3 DEF Active, Guarded
      <3> QED
        BY <1>3, <3>1 DEF Perform, SetTable
    <2> QED
      BY <1>1, <2>2, <2>3, <2>4 DEF Held, HeldUntilAttach
  <1> QED
    BY <1>2, <1>3 DEF HandleCommand

LEMMA HandleKeeps == WorkerInv /\ HandleCommand => WorkerInv'
  <1> SUFFICES ASSUME WorkerInv, HandleCommand PROVE WorkerInv'
    OBVIOUS
  <1> DEFINE c == Head(inbox)
  <1>1. /\ WorkerTypes /\ QueueLeads /\ KeyKept /\ inbox # <<>> /\ inbox' = Tail(inbox)
        /\ UNCHANGED <<picker, ui_cheats, cheat_key, cheat_off>>
        /\ refused' = (refused \/ (Active /\ OnDrive(c.op))) /\ state_file' \in Saved(c)
    BY DEF WorkerInv, HandleCommand, ui_vars
  <1>2. c \in Requests /\ inbox' \in Seq(Requests)
    BY <1>1 DEF WorkerTypes
  <1>3. \/ Active /\ Guarded(c.op) /\ UNCHANGED <<machine, shown>>
        \/ ~(Active /\ Guarded(c.op)) /\ Perform(c)
    BY DEF HandleCommand
  <1>4. /\ cd_drive' \in [disc : Disc, open : BOOLEAN] /\ removed' \in Disc /\ label' \in Disc
        /\ table' \in Table
    <2>1. CASE UNCHANGED <<machine, shown>>
      BY <1>1, <2>1 DEF machine, shown, WorkerTypes
    <2>2. CASE Perform(c)
      BY <1>1, <1>2, <2>2, Performs
    <2> QED
      BY <1>3, <2>1, <2>2
  <1>5. QueueLeads'
    <2> SUFFICES ASSUME ~refused'
                 PROVE  /\ \E d \in Seats : Leads(Seated', inbox', d) /\ Promised(d)'
                        /\ state_file' # "open"
      BY DEF QueueLeads
    <2>1. ~refused /\ ~(Active /\ OnDrive(c.op))
      BY <1>1
    <2>2. PICK d \in Seats : Leads(Seated, inbox, d) /\ Promised(d)
      BY <1>1, <2>1 DEF QueueLeads
    <2>3. /\ Leads(Effect(Seated, c), inbox', d)
          /\ c.op \in OnMenu => ~cd_drive.open
      <3>1. inbox \in Seq(Requests)
        BY <1>1 DEF WorkerTypes
      <3>2. Leads(Effect(Seated, c), Tail(inbox), d) /\ (c.op \in OnMenu => ~Seated.open)
        BY <1>1, <2>2, <3>1, QueuedLess
      <3> QED
        BY <1>1, <3>2 DEF Seated
    <2>4. state_file # "open"
      BY <1>1, <2>1 DEF QueueLeads
    <2>5. Seated' = Effect(Seated, c)
      <3>1. CASE Active /\ Guarded(c.op) /\ UNCHANGED <<machine, shown>>
        <4>1. c.op \notin {"OpenTray", "CloseTray", "BootDisc", "SetCheats", "SetCheatEnabled"}
          BY <2>1, <3>1 DEF OnDrive, Guarded
        <4>2. Effect(Seated, c) = Seated
          BY <4>1 DEF Effect
        <4> QED
          BY <3>1, <4>2 DEF machine, shown, Seated
      <3>2. CASE Perform(c)
        BY <1>1, <1>2, <2>3, <2>4, <3>2, Performs DEF OnMenu
      <3> QED
        BY <1>3, <3>1, <3>2
    <2>6. state_file' # "open"
      BY <1>1, <2>3, <2>4 DEF Saved, OnMenu
    <2>7. Promised(d)'
      BY <1>1, <2>2 DEF Promised
    <2> QED
      BY <2>2, <2>3, <2>5, <2>6, <2>7
  <1>6. KeyKept'
    BY <1>1 DEF KeyKept
  <1> QED
    BY <1>1, <1>2, <1>4, <1>5, <1>6, CardAndHold DEF WorkerInv, WorkerTypes

LEMMA FlushSaves ==
    ASSUME NEW c \in [data : {0, 1}, dirty : BOOLEAN], ~c.dirty => card_file = c.data, FlushMemcard(c)
    PROVE  CardTypes' /\ CardSaved'
  BY DEF FlushMemcard, CardTypes, CardSaved

LEMMA QuitKeeps == WorkerInv /\ Quit => WorkerInv'
  <1> SUFFICES ASSUME WorkerInv, Quit PROVE WorkerInv'
    OBVIOUS
  <1>1. /\ WorkerTypes /\ QueueLeads /\ KeyKept /\ inbox # <<>> /\ inbox' = Tail(inbox)
        /\ Head(inbox).op = "Quit"
        /\ UNCHANGED <<session, attached, debugger_seen, cd_drive, table, fresh, shown, state_file,
                       refused, picker, ui_cheats, cheat_key, cheat_off>>
    BY DEF WorkerInv, Quit, ui_vars
  <1>2. inbox \in Seq(Requests) /\ inbox' \in Seq(Requests)
    BY <1>1 DEF WorkerTypes
  <1>3. Seated' = Seated /\ Effect(Seated, Head(inbox)) = Seated
    BY <1>1 DEF Seated, shown, Effect
  <1>4. QueueLeads'
    <2> SUFFICES ASSUME ~refused
                 PROVE  \E d \in Seats : Leads(Seated, inbox', d) /\ Promised(d)'
      BY <1>1, <1>3 DEF QueueLeads
    <2>1. PICK d \in Seats : Leads(Seated, inbox, d) /\ Promised(d)
      BY <1>1 DEF QueueLeads
    <2>2. Leads(Effect(Seated, Head(inbox)), Tail(inbox), d)
      BY <1>1, <1>2, <2>1, QueuedLess
    <2>3. Promised(d)'
      BY <1>1, <2>1 DEF Promised
    <2> QED
      BY <1>1, <1>3, <2>2, <2>3
  <1>5. CardTypes' /\ CardSaved'
    <2>1. FlushMemcard(memcard) /\ memcard \in [data : {0, 1}, dirty : BOOLEAN] /\ CardSaved
      BY DEF Quit, WorkerInv, CardTypes
    <2> QED
      BY <2>1, FlushSaves DEF CardSaved
  <1> QED
    BY <1>1, <1>2, <1>4, <1>5 DEF WorkerInv, WorkerTypes, shown, KeyKept, Held, HeldUntilAttach

LEMMA RoundKeeps == WorkerInv /\ Round => WorkerInv'
  <1> SUFFICES ASSUME WorkerInv, Round PROVE WorkerInv'
    OBVIOUS
  <1>1. /\ WorkerTypes /\ QueueLeads /\ KeyKept /\ Held
        /\ UNCHANGED <<session, inbox, cd_drive, table, shown, state_file, refused, picker,
                       ui_cheats, cheat_key, cheat_off>>
        /\ debugger_seen' = (debugger_seen \/ attached')
    BY DEF WorkerInv, Round, ui_vars
  <1>2. QueueLeads'
    BY <1>1 DEF QueueLeads, Promised, Seated, shown
  <1>3. CardTypes' /\ CardSaved'
    <2>1. PICK c \in {memcard} \cup AfterRun : FlushMemcard(c)
      BY DEF Round
    <2>2. c \in [data : {0, 1}, dirty : BOOLEAN] /\ (~c.dirty => card_file = c.data)
      BY <2>1, RunMarks DEF WorkerInv
    <2> QED
      BY <2>1, <2>2, FlushSaves
  <1>4. session.waits /\ ~debugger_seen' => fresh' = fresh
    BY <1>1 DEF Round, Active, Held
  <1> QED
    BY <1>1, <1>2, <1>3, <1>4
       DEF WorkerInv, WorkerTypes, shown, KeyKept, Held, HeldUntilAttach

(***************************************************************************)
(* The theorem.                                                            *)
(***************************************************************************)
LEMMA WorkerStarts == WorkerInit => WorkerInv
  <1> SUFFICES ASSUME WorkerInit PROVE WorkerInv
    OBVIOUS
  <1>1. PICK d \in Disc :
          /\ cd_drive = [disc |-> d, open |-> FALSE] /\ label = d
          /\ table = AsFiled(d) /\ ui_cheats = AsFiled(d)
    BY DEF WorkerInit, Disc
  <1>2. NoImage \in Disc /\ AsFiled(d) \in Table
    BY DEF Disc, Table, AsFiled
  <1>3. WorkerTypes /\ KeyKept /\ CardTypes /\ CardSaved /\ Held
    <2>1. WorkerTypes
      <3>1. inbox \in Seq(Requests) /\ picker = "none" /\ refused = FALSE
        BY DEF WorkerInit
      <3>2. cheat_off \in [DiscImage -> BOOLEAN] /\ cheat_key \in Disc /\ removed \in Disc
        BY <1>2 DEF WorkerInit
      <3>3. cd_drive \in [disc : Disc, open : BOOLEAN]
        BY <1>1
      <3> QED
        BY <1>1, <1>2, <3>1, <3>2, <3>3 DEF WorkerTypes
    <2>2. KeyKept /\ Held
      BY DEF WorkerInit, KeyKept, Held, HeldUntilAttach
    <2>3. CardTypes /\ CardSaved
      BY DEF WorkerInit, CardTypes, CardSaved
    <2> QED
      BY <2>1, <2>2, <2>3
  <1>4. Seated \in Seats /\ Promised(Seated)
    BY <1>1, <1>2 DEF WorkerInit, Seated, Seats, Promised, AsFiled
  <1>5. Leads(Seated, inbox, Seated)
    BY <1>4, NothingQueued DEF WorkerInit
  <1> QED
    BY <1>3, <1>4, <1>5 DEF WorkerInv, QueueLeads, WorkerInit

LEMMA WorkerStep == WorkerInv /\ [WorkerNext]_worker_vars => WorkerInv'
  <1>1. WorkerInv /\ WorkerNext => WorkerInv'
    BY InsertDiscKeeps, BootPickerKeeps, PickKeeps, CancelKeeps, ResentKeeps, MenuKeeps, HandleKeeps,
       QuitKeeps, RoundKeeps DEF WorkerNext
  <1>2. WorkerInv /\ UNCHANGED worker_vars => WorkerInv'
    BY DEF WorkerInv, WorkerTypes, QueueLeads, KeyKept, CardTypes, CardSaved, Held, HeldUntilAttach,
           Seated, Promised, worker_vars, ui_vars, machine, shown, rest
  <1> QED
    BY <1>1, <1>2

LEMMA WorkerPromise == WorkerInv => WorkerKept
  <1> SUFFICES ASSUME WorkerInv PROVE WorkerKept
    OBVIOUS
  <1>1. ASSUME inbox = <<>>, picker = "none", ~refused
        PROVE  /\ ~cd_drive.open /\ removed = NoImage
               /\ cd_drive.disc = label /\ cd_drive.disc = ui_cheats.of
               /\ table = ui_cheats
    <2>1. PICK d \in Seats : Leads(Seated, <<>>, d) /\ Promised(d)
      BY <1>1 DEF WorkerInv, QueueLeads
    <2>2. d = Seated
      BY <2>1, NothingQueued
    <2> QED
      BY <1>1, <2>1, <2>2 DEF Promised, Seated
  <1>2. DiscAgrees
    BY <1>1 DEF DiscAgrees, WorkerInv, KeyKept
  <1> QED
    BY <1>2 DEF WorkerInv, WorkerKept, Held

\* The window's two threads (ps2-app's ui.rs and emu.rs): whatever is picked,
\* cancelled, switched or reset and however long the commands queue, once they
\* are handled and none on the drive was refused both agree on disc, label and
\* cheats; a written card is saved or marked; --wait-debugger holds the machine.
THEOREM HostWorkerKept == WorkerSpec => []WorkerKept
  <1>1. WorkerSpec => []WorkerInv
    BY WorkerStarts, WorkerStep, PTL DEF WorkerSpec
  <1> QED
    BY <1>1, WorkerPromise, PTL

(***************************************************************************)
(* The host as a whole.                                                    *)
(***************************************************************************)
\* Whichever of the three acts, each keeps what it promises of the machine.
THEOREM HostSafe == HostSpec => []HostKept
  <1>1. HostInit => CheatsInit /\ DebugInit /\ WorkerInit
    BY DEF HostInit
  <1>2. [HostNext]_host_vars => [CheatsNext]_cheat_vars /\ [DebugNext]_debug_vars /\ [WorkerNext]_worker_vars
    BY DEF HostNext, host_vars
  <1>3. CheatsKept /\ DebugKept /\ WorkerKept => HostKept
    BY DEF HostKept
  <1> QED
    BY <1>1, <1>2, <1>3, HostCheatsKept, HostDebugKept, HostWorkerKept, PTL
       DEF HostSpec, CheatsSpec, DebugSpec, WorkerSpec
=============================================================================
