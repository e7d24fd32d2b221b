--------------------------- MODULE GsFront_proofs ---------------------------
(***************************************************************************)
(* Proofs about the threaded GS front, for every choice of batch size,     *)
(* image run, channel depth, register values and use.                      *)
(*                                                                         *)
(* The invariant says what is on its way: executing what is left of the    *)
(* worker's batch and then the batches in the channel takes the worker's   *)
(* renderer to one from which the batch in the front's hands leads to      *)
(* `sent', and what is queued leads from `sent' to `promised'.  A reply is *)
(* the last command handed over while the front waits for it, so it is     *)
(* taken of the promised renderer.                                         *)
(***************************************************************************)
EXTENDS GsFront, SequenceTheorems, TLAPS

(***************************************************************************)
(* Executing commands one after the other: t names every screen on the way *)
(* from s to d.                                                            *)
(***************************************************************************)
Run(s, cs, d) ==
    \E t \in [0 .. Len(cs) -> ScreenType] :
       /\ t[0] = s /\ t[Len(cs)] = d
       /\ \A i \in 1 .. Len(cs) : t[i] = run_cmd(t[i - 1], cs[i])

\* What the worker makes of the rest of its batch and of the channel.
Delivered(s, rest, q, d) ==
    \E v \in [0 .. Len(q) -> ScreenType] :
       /\ Run(s, rest, v[0]) /\ v[Len(q)] = d
       /\ \A i \in 1 .. Len(q) : Run(v[i - 1], q[i], v[i])

Handed == \E d \in ScreenType : Delivered(screen, running, queue, d) /\ Run(d, handing, sent)
Queued == Run(sent, Collected(batch, image), promised)

(***************************************************************************)
(* The invariant.                                                          *)
(***************************************************************************)
Snapshots == [renderer : RendererType, regs : RegsType, internal_2x : BOOLEAN]

\* Where the front waits, and what it holds then.
Waits ==
    /\ use \in Uses /\ saved \in {NoAnswer} \cup Snapshots
    /\ pc # "send" => cont = "idle"
    /\ pc \in {"send", "read", "snapshot", "resend"} => batch = <<>> /\ image = <<>>
    /\ \A c \in {"read", "snapshot"} : pc = c \/ cont = c => c \in use.calls
    /\ worker = "gone" => pc = "dropped" /\ queue = <<>> /\ running = <<>>
    /\ sent.latest = promised.latest

\* A reply is asked for by the last command handed over, and by no other, while
\* the front waits for it.
NoReply(cs)   == \A i \in 1 .. Len(cs) : cs[i].kind # "reply"
LastReply(cs) == /\ cs # <<>> /\ cs[Len(cs)].kind = "reply"
                 /\ \A i \in 1 .. Len(cs) : cs[i].kind = "reply" => i = Len(cs)
Asked == pc \in {"read", "snapshot"} /\ reply = <<>>
Replies ==
    /\ NoReply(batch)
    /\ pc = "send" => IF cont \in {"read", "snapshot"} THEN LastReply(handing)
                      ELSE NoReply(handing)
    /\ ~Asked => NoReply(running) /\ \A i \in 1 .. Len(queue) : NoReply(queue[i])
    /\ Asked => \/ queue = <<>> /\ LastReply(running)
                \/ /\ queue # <<>> /\ LastReply(queue[Len(queue)]) /\ NoReply(running)
                   /\ \A i \in 1 .. Len(queue) : i # Len(queue) => NoReply(queue[i])
    /\ reply # <<>> => queue = <<>> /\ running = <<>> /\ reply = <<promised.gs>>

FrontInv == TypeOK /\ Waits /\ Replies /\ Handed /\ Queued

\* The front's copies, while no load is rejected.
Copies ==
    /\ CopiesAgree
    /\ saved # NoAnswer => /\ saved.renderer.disp = saved.regs.disp
                           /\ saved.renderer.twox = saved.internal_2x

(***************************************************************************)
(* Sequences.                                                              *)
(***************************************************************************)
LEMMA JoinLast == \A a, b \in Seq(Word), w \in Word : Append(a \o b, w) = a \o Append(b, w)
  OBVIOUS

LEMMA HeadAndTail ==
    ASSUME NEW S, NEW s \in Seq(S), s # <<>>
    PROVE  /\ Len(s) - 1 \in Nat /\ Len(s) = (Len(s) - 1) + 1
           /\ Head(s) = s[1] /\ Head(s) \in S /\ Tail(s) \in Seq(S)
           /\ Len(Tail(s)) = Len(s) - 1
           /\ \A i \in 1 .. (Len(s) - 1) : Tail(s)[i] = s[i + 1]
           /\ (Tail(s) = <<>> <=> Len(s) - 1 = 0)
  <1>1. /\ Len(s) - 1 \in Nat /\ Len(s) = (Len(s) - 1) + 1
        /\ Head(s) = s[1] /\ Head(s) \in S /\ Tail(s) \in Seq(S)
        /\ Len(Tail(s)) = Len(s) - 1
        /\ \A i \in 1 .. (Len(s) - 1) : Tail(s)[i] = s[i + 1]
    OBVIOUS
  <1>2. \A t \in Seq(S) : t = <<>> <=> Len(t) = 0
    OBVIOUS
  <1> QED
    BY <1>1, <1>2

LEMMA Appended ==
    ASSUME NEW S, NEW s \in Seq(S), NEW e \in S
    PROVE  /\ Append(s, e) \in Seq(S) /\ Append(s, e) # <<>>
           /\ Len(Append(s, e)) = Len(s) + 1 /\ Len(s) \in Nat
           /\ Append(s, e)[Len(Append(s, e))] = e
           /\ \A i \in 1 .. Len(s) : Append(s, e)[i] = s[i]
  OBVIOUS

(***************************************************************************)
(* Commands and runs of commands.                                          *)
(***************************************************************************)
LEMMA CommandKinds ==
    ASSUME NEW c \in Commands
    PROVE  \/ c.kind = "reg" /\ c.word \in Word
           \/ c.kind = "image" /\ c.words \in Seq(Word)
           \/ c.kind = "priv" /\ c.disp \in Disp
           \/ c.kind = "vblank" /\ c.odd \in BOOLEAN
           \/ c.kind \in {"reply", "reset"}
           \/ c.kind = "2x" /\ c.on \in BOOLEAN
           \/ c.kind = "restore" /\ c.state \in RendererType \cup {Corrupt}
  BY DEF Commands

LEMMA CommandsMade ==
    /\ \A w \in Word : Reg(w) \in Commands
    /\ \A ws \in Seq(Word) : Image(ws) \in Commands
    /\ \A d \in Disp : Priv(d) \in Commands
    /\ \A b \in BOOLEAN : Vblank(b) \in Commands /\ Internal2x(b) \in Commands
    /\ Reply \in Commands /\ ResetCmd \in Commands
    /\ \A r \in RendererType \cup {Corrupt} : Restore(r) \in Commands
  BY DEF Commands, Reg, Image, Priv, Vblank, Internal2x, Reply, ResetCmd, Restore

LEMMA BlankTypes == Blank \in RendererType /\ BlankScreen \in ScreenType
  BY RendererAssumption DEF Blank, BlankScreen, RendererType, ScreenType

LEMMA RunCmdType ==
    ASSUME NEW s \in ScreenType, NEW c \in Commands
    PROVE  run_cmd(s, c) \in ScreenType
  <1>0. s.gs \in RendererType /\ s.latest \in {NoFrame} \cup [view : RendererType, odd : BOOLEAN]
        /\ s = [gs |-> s.gs, latest |-> s.latest]
    BY DEF ScreenType
  <1>1. CASE c.kind = "reg" /\ c.word \in Word
    <2>1. Append(s.gs.drawn, c.word) \in Seq(Word)
      BY <1>0, <1>1 DEF RendererType
    <2> QED
      BY <1>0, <1>1, <2>1 DEF run_cmd, ScreenType, RendererType
  <1>2. CASE c.kind = "image" /\ c.words \in Seq(Word)
    <2>1. s.gs.drawn \o c.words \in Seq(Word)
      BY <1>0, <1>2 DEF RendererType
    <2> QED
      BY <1>0, <1>2, <2>1 DEF run_cmd, ScreenType, RendererType
  <1>3. CASE c.kind = "priv" /\ c.disp \in Disp
    BY <1>0, <1>3 DEF run_cmd, ScreenType, RendererType
  <1>4. CASE c.kind = "vblank" /\ c.odd \in BOOLEAN
    BY <1>0, <1>4 DEF run_cmd, ScreenType
  <1>5. CASE c.kind \in {"reply", "reset"}
    BY <1>0, <1>5, BlankTypes DEF run_cmd, ScreenType
  <1>6. CASE c.kind = "2x" /\ c.on \in BOOLEAN
    BY <1>0, <1>6 DEF run_cmd, ScreenType, RendererType
  <1>7. CASE c.kind = "restore" /\ c.state \in RendererType \cup {Corrupt}
    BY <1>0, <1>7 DEF run_cmd, ScreenType
  <1> QED
    BY <1>1, <1>2, <1>3, <1>4, <1>5, <1>6, <1>7, CommandKinds

LEMMA RunNothing ==
    /\ \A s \in ScreenType : Run(s, <<>>, s)
    /\ \A s, d : Run(s, <<>>, d) => d = s
  <1>1. ASSUME NEW s \in ScreenType PROVE Run(s, <<>>, s)
    <2> DEFINE t == [i \in 0 .. Len(<<>>) |-> s]
    <2>1. t \in [0 .. Len(<<>>) -> ScreenType] /\ t[0] = s /\ t[Len(<<>>)] = s
          /\ \A i \in 1 .. Len(<<>>) : t[i] = run_cmd(t[i - 1], <<>>[i])
      OBVIOUS
    <2> HIDE DEF t
    <2> QED
      BY <2>1 DEF Run
  <1>2. ASSUME NEW s, NEW d, Run(s, <<>>, d) PROVE d = s
    BY <1>2 DEF Run
  <1> QED
    BY <1>1, <1>2

LEMMA RunAppend ==
    ASSUME NEW s, NEW d \in ScreenType, NEW cs \in Seq(Commands), NEW c \in Commands,
           Run(s, cs, d)
    PROVE  Run(s, Append(cs, c), run_cmd(d, c))
  <1> DEFINE n  == Len(cs)
             ds == Append(cs, c)
  <1>1. PICK t \in [0 .. n -> ScreenType] :
           t[0] = s /\ t[n] = d /\ \A i \in 1 .. n : t[i] = run_cmd(t[i - 1], cs[i])
    BY DEF Run
  <1>2. n \in Nat /\ Len(ds) = n + 1 /\ ds[n + 1] = c /\ \A i \in 1 .. n : ds[i] = cs[i]
    OBVIOUS
  <1> DEFINE u == [i \in 0 .. (n + 1) |-> IF i = n + 1 THEN run_cmd(d, c) ELSE t[i]]
  <1>3. run_cmd(d, c) \in ScreenType
    BY RunCmdType
  <1> HIDE DEF n, ds
  <1>4. u \in [0 .. (n + 1) -> ScreenType] /\ u[0] = s /\ u[n + 1] = run_cmd(d, c) /\ u[n] = d
    BY <1>1, <1>2, <1>3
  <1>5. \A i \in 1 .. (n + 1) : u[i] = run_cmd(u[i - 1], ds[i])
    <2> SUFFICES ASSUME NEW i \in 1 .. (n + 1) PROVE u[i] = run_cmd(u[i - 1], ds[i])
      OBVIOUS
    <2>1. CASE i = n + 1
      <3>1. i - 1 = n
        BY <1>2, <2>1
      <3> QED
        BY <1>2, <1>4, <2>1, <3>1
    <2>2. CASE i # n + 1
      <3>1. i \in 1 .. n /\ i \in 0 .. (n + 1) /\ i - 1 \in 0 .. (n + 1) /\ i - 1 # n + 1
        BY <1>2, <2>2
      <3>2. u[i] = t[i] /\ u[i - 1] = t[i - 1]
        BY <2>2, <3>1
      <3> QED
        BY <1>1, <1>2, <3>1, <3>2
    <2> QED
      BY <2>1, <2>2
  <1> HIDE DEF u
  <1> QED
    BY <1>2, <1>4, <1>5 DEF Run, ds

LEMMA RunLast ==
    ASSUME NEW s, NEW d, NEW cs \in Seq(Commands), NEW c \in Commands, Run(s, Append(cs, c), d)
    PROVE  \E e \in ScreenType : Run(s, cs, e) /\ d = run_cmd(e, c)
  <1> DEFINE n  == Len(cs)
             ds == Append(cs, c)
  <1>2. n \in Nat /\ Len(ds) = n + 1 /\ ds[n + 1] = c /\ \A i \in 1 .. n : ds[i] = cs[i]
    OBVIOUS
  <1>1. PICK t \in [0 .. Len(ds) -> ScreenType] :
           t[0] = s /\ t[Len(ds)] = d /\ \A i \in 1 .. Len(ds) : t[i] = run_cmd(t[i - 1], ds[i])
    BY DEF Run
  <1> DEFINE u == [i \in 0 .. n |-> t[i]]
  <1> HIDE DEF n, ds
  <1>3. u \in [0 .. n -> ScreenType] /\ u[0] = s /\ u[n] = t[n] /\ t[n] \in ScreenType
    BY <1>1, <1>2
  <1>4. (n + 1) - 1 = n /\ n + 1 \in 1 .. (n + 1)
    BY <1>2
  <1>5. d = run_cmd(t[n], c)
    BY <1>1, <1>2, <1>4
  <1>6. \A i \in 1 .. n : u[i] = run_cmd(u[i - 1], cs[i])
    <2> SUFFICES ASSUME NEW i \in 1 .. n PROVE u[i] = run_cmd(u[i - 1], cs[i])
      OBVIOUS
    <2>1. i \in 1 .. (n + 1) /\ i \in 0 .. n /\ i - 1 \in 0 .. n
      BY <1>2
    <2>2. u[i] = t[i] /\ u[i - 1] = t[i - 1]
      BY <2>1
    <2> QED
      BY <1>1, <1>2, <2>1, <2>2
  <1> HIDE DEF u
  <1>7. Run(s, cs, t[n])
    BY <1>3, <1>6 DEF Run, n
  <1> QED
    BY <1>3, <1>5, <1>7

LEMMA RunFirst ==
    ASSUME NEW s, NEW d, NEW cs \in Seq(Commands), cs # <<>>, Run(s, cs, d)
    PROVE  Run(run_cmd(s, Head(cs)), Tail(cs), d)
  <1> DEFINE n  == Len(cs) - 1
             ds == Tail(cs)
  <1>2. n \in Nat /\ Len(cs) = n + 1 /\ Len(ds) = n /\ Head(cs) = cs[1]
        /\ \A i \in 1 .. n : ds[i] = cs[i + 1]
    OBVIOUS
  <1>1. PICK t \in [0 .. Len(cs) -> ScreenType] :
           t[0] = s /\ t[Len(cs)] = d /\ \A i \in 1 .. Len(cs) : t[i] = run_cmd(t[i - 1], cs[i])
    BY DEF Run
  <1> DEFINE u == [i \in 0 .. n |-> t[i + 1]]
  <1> HIDE DEF n, ds
  <1>3. t[1] = run_cmd(s, Head(cs))
    <2>1. 1 \in 1 .. (n + 1) /\ 1 - 1 = 0
      BY <1>2
    <2> QED
      BY <1>1, <1>2, <2>1
  <1>4. u \in [0 .. n -> ScreenType] /\ u[0] = t[1] /\ u[n] = d
    BY <1>1, <1>2
  <1>6. \A i \in 1 .. n : u[i] = run_cmd(u[i - 1], ds[i])
    <2> SUFFICES ASSUME NEW i \in 1 .. n PROVE u[i] = run_cmd(u[i - 1], ds[i])
      OBVIOUS
    <2>1. i + 1 \in 1 .. (n + 1) /\ i \in 0 .. n /\ i - 1 \in 0 .. n /\ (i + 1) - 1 = i
          /\ (i - 1) + 1 = i
      BY <1>2
    <2>2. u[i] = t[i + 1] /\ u[i - 1] = t[i]
      BY <2>1
    <2>3. t[i + 1] = run_cmd(t[i], cs[i + 1])
      BY <1>1, <1>2, <2>1
    <2> QED
      BY <1>2, <2>2, <2>3
  <1> HIDE DEF u
  <1> QED
    BY <1>2, <1>3, <1>4, <1>6 DEF Run, ds

(***************************************************************************)
(* The worker's side of the channel.                                       *)
(***************************************************************************)
LEMMA DeliverRun ==
    ASSUME NEW s, NEW d, NEW r \in Seq(Commands), NEW q, r # <<>>, Delivered(s, r, q, d)
    PROVE  Delivered(run_cmd(s, Head(r)), Tail(r), q, d)
  BY RunFirst DEF Delivered

LEMMA DeliverNone ==
    ASSUME NEW s, NEW d, Delivered(s, <<>>, <<>>, d)
    PROVE  d = s
  <1>1. PICK v \in [0 .. Len(<<>>) -> ScreenType] : Run(s, <<>>, v[0]) /\ v[Len(<<>>)] = d
    BY DEF Delivered
  <1> QED
    BY <1>1, RunNothing

LEMMA DeliverTake ==
    ASSUME NEW s, NEW d, NEW q \in Seq(Seq(Commands)), q # <<>>, Delivered(s, <<>>, q, d)
    PROVE  Delivered(s, Head(q), Tail(q), d)
  <1> DEFINE n  == Len(q) - 1
             qs == Tail(q)
  <1>1. PICK v \in [0 .. Len(q) -> ScreenType] :
           /\ Run(s, <<>>, v[0]) /\ v[Len(q)] = d
           /\ \A i \in 1 .. Len(q) : Run(v[i - 1], q[i], v[i])
    BY DEF Delivered
  <1>2. n \in Nat /\ Len(q) = n + 1 /\ Len(qs) = n /\ Head(q) = q[1]
        /\ \A i \in 1 .. n : qs[i] = q[i + 1]
    OBVIOUS
  <1>3. v[0] = s
    BY <1>1, RunNothing
  <1> DEFINE u == [i \in 0 .. n |-> v[i + 1]]
  <1> HIDE DEF n, qs
  <1>4. u \in [0 .. n -> ScreenType] /\ u[0] = v[1] /\ u[n] = d
    BY <1>1, <1>2
  <1>5. Run(s, Head(q), u[0])
    <2>1. 1 \in 1 .. (n + 1) /\ 1 - 1 = 0
      BY <1>2
    <2> QED
      BY <1>1, <1>2, <1>3, <1>4, <2>1
  <1>6. \A i \in 1 .. n : Run(u[i - 1], qs[i], u[i])
    <2> SUFFICES ASSUME NEW i \in 1 .. n PROVE Run(u[i - 1], qs[i], u[i])
      OBVIOUS
    <2>1. i + 1 \in 1 .. (n + 1) /\ i \in 0 .. n /\ i - 1 \in 0 .. n /\ (i + 1) - 1 = i
          /\ (i - 1) + 1 = i
      BY <1>2
    <2>2. u[i] = v[i + 1] /\ u[i - 1] = v[i]
      BY <2>1
    <2>3. Run(v[i], q[i + 1], v[i + 1])
      BY <1>1, <1>2, <2>1
    <2> QED
      BY <1>2, <2>2, <2>3
  <1> HIDE DEF u
  <1> QED
    BY <1>2, <1>4, <1>5, <1>6 DEF Delivered, qs

LEMMA DeliverSend ==
    ASSUME NEW s, NEW r, NEW d, NEW e \in ScreenType, NEW q \in Seq(Seq(Commands)),
           NEW h \in Seq(Commands), Delivered(s, r, q, d), Run(d, h, e)
    PROVE  Delivered(s, r, Append(q, h), e)
  <1> DEFINE n  == Len(q)
             qs == Append(q, h)
  <1>1. PICK v \in [0 .. n -> ScreenType] :
           /\ Run(s, r, v[0]) /\ v[n] = d
           /\ \A i \in 1 .. n : Run(v[i - 1], q[i], v[i])
    BY DEF Delivered
  <1>2. n \in Nat /\ Len(qs) = n + 1 /\ qs[n + 1] = h /\ \A i \in 1 .. n : qs[i] = q[i]
    OBVIOUS
  <1> DEFINE u == [i \in 0 .. (n + 1) |-> IF i = n + 1 THEN e ELSE v[i]]
  <1> HIDE DEF n, qs
  <1>4. u \in [0 .. (n + 1) -> ScreenType] /\ u[0] = v[0] /\ u[n + 1] = e /\ u[n] = d
    BY <1>1, <1>2
  <1>5. \A i \in 1 .. (n + 1) : Run(u[i - 1], qs[i], u[i])
    <2> SUFFICES ASSUME NEW i \in 1 .. (n + 1) PROVE Run(u[i - 1], qs[i], u[i])
      OBVIOUS
    <2>1. CASE i = n + 1
      <3>1. i - 1 = n
        BY <1>2, <2>1
      <3> QED
        BY <1>2, <1>4, <2>1, <3>1
    <2>2. CASE i # n + 1
      <3>1. i \in 1 .. n /\ i \in 0 .. (n + 1) /\ i - 1 \in 0 .. (n + 1) /\ i - 1 # n + 1
        BY <1>2, <2>2
      <3>2. u[i] = v[i] /\ u[i - 1] = v[i - 1]
        BY <2>2, <3>1
      <3> QED
        BY <1>1, <1>2, <3>1, <3>2
    <2> QED
      BY <2>1, <2>2
  <1> HIDE DEF u
  <1> QED
    BY <1>1, <1>2, <1>4, <1>5 DEF Delivered, qs

(***************************************************************************)
(* The invariant holds at first, and over every step.                      *)
(***************************************************************************)
LEMMA UsesFacts ==
    ASSUME Waits
    PROVE  use.words \subseteq Word /\ use.publish \in BOOLEAN
  BY FrontAssumption DEF Waits

LEMMA FrontStarts == Init => FrontInv
  <1> SUFFICES ASSUME Init PROVE FrontInv
    OBVIOUS
  <1>1. /\ use \in Uses /\ regs = ResetRegs /\ internal_2x = FALSE /\ saved = NoAnswer
        /\ image = <<>> /\ batch = <<>> /\ handing = <<>> /\ pc = "idle" /\ cont = "idle"
        /\ queue = <<>> /\ running = <<>> /\ screen = BlankScreen /\ reply = <<>>
        /\ worker = "running" /\ promised = BlankScreen /\ sent = BlankScreen
    BY DEF Init
  <1>2. regs \in RegsType
    BY <1>1, RendererAssumption DEF ResetRegs, RegsType
  <1>3. Len(<<>>) < IMAGE_RUN_MAX /\ Len(<<>>) =< QUEUE_DEPTH
    BY FrontAssumption
  <1>4. TypeOK
    <2>1. /\ <<>> \in Seq(Word) /\ <<>> \in Seq(Commands) /\ <<>> \in Seq(Seq(Commands))
          /\ <<>> \in Seq(RendererType) /\ Len(<<>>) =< 1
      OBVIOUS
    <2> QED
      BY <1>1, <1>2, <1>3, <2>1, BlankTypes DEF TypeOK, Returns
  <1>5. Waits
    BY <1>1 DEF Waits
  <1>6. Replies
    BY <1>1 DEF Replies, Asked, NoReply
  <1>7. Run(BlankScreen, <<>>, BlankScreen)
    BY BlankTypes, RunNothing
  <1>8. Handed
    <2> DEFINE v == [i \in 0 .. Len(<<>>) |-> BlankScreen]
    <2>1. v \in [0 .. Len(<<>>) -> ScreenType] /\ v[0] = BlankScreen /\ v[Len(<<>>)] = BlankScreen
          /\ \A i \in 1 .. Len(<<>>) : Run(v[i - 1], <<>>[i], v[i])
      BY BlankTypes
    <2> HIDE DEF v
    <2>2. Delivered(BlankScreen, <<>>, <<>>, BlankScreen)
      BY <1>7, <2>1 DEF Delivered
    <2> QED
      BY <1>1, <1>7, <2>2, BlankTypes DEF Handed
  <1>9. Queued
    BY <1>1, <1>7 DEF Queued, Collected
  <1> QED
    BY <1>4, <1>5, <1>6, <1>8, <1>9 DEF FrontInv

LEMMA CollectedFacts ==
    ASSUME TypeOK, Replies
    PROVE  /\ Collected(batch, image) \in Seq(Commands)
           /\ NoReply(Collected(batch, image))
           /\ (Collected(batch, image) = <<>> <=> batch = <<>> /\ image = <<>>)
  <1>1. batch \in Seq(Commands) /\ image \in Seq(Word) /\ NoReply(batch)
    BY DEF TypeOK, Replies
  <1>2. CASE image = <<>>
    BY <1>1, <1>2 DEF Collected
  <1>3. CASE image # <<>>
    <2> DEFINE c == Image(image)
    <2>1. c \in Commands /\ c.kind # "reply" /\ Collected(batch, image) = Append(batch, c)
      BY <1>1, <1>3, CommandsMade DEF Collected, Image
    <2> HIDE DEF c
    <2>2. Append(batch, c) \in Seq(Commands) /\ Append(batch, c) # <<>>
          /\ Len(Append(batch, c)) = Len(batch) + 1 /\ Len(batch) \in Nat
          /\ Append(batch, c)[Len(batch) + 1] = c
          /\ \A i \in 1 .. Len(batch) : Append(batch, c)[i] = batch[i]
      BY <1>1, <2>1
    <2>3. NoReply(Append(batch, c))
      BY <1>1, <2>1, <2>2 DEF NoReply
    <2> QED
      BY <1>3, <2>1, <2>2, <2>3
  <1> QED
    BY <1>2, <1>3

LEMMA AppendReplies ==
    ASSUME NEW b \in Seq(Commands), NEW c \in Commands, NoReply(b)
    PROVE  /\ c.kind # "reply" => NoReply(Append(b, c))
           /\ c.kind = "reply" => LastReply(Append(b, c))
           /\ Append(b, c) \in Seq(Commands) /\ Append(b, c) # <<>>
  <1>1. Append(b, c) \in Seq(Commands) /\ Append(b, c) # <<>>
        /\ Len(Append(b, c)) = Len(b) + 1 /\ Len(b) \in Nat
        /\ Append(b, c)[Len(b) + 1] = c
        /\ \A i \in 1 .. Len(b) : Append(b, c)[i] = b[i]
    OBVIOUS
  <1>2. \A i \in 1 .. (Len(b) + 1) : i \in 1 .. Len(b) \/ i = Len(b) + 1
    BY <1>1
  <1>3. ASSUME c.kind # "reply" PROVE NoReply(Append(b, c))
    BY <1>1, <1>2, <1>3 DEF NoReply
  <1>4. ASSUME c.kind = "reply" PROVE LastReply(Append(b, c))
    BY <1>1, <1>2, <1>4 DEF NoReply, LastReply
  <1> QED
    BY <1>1, <1>3, <1>4

\* With nothing in its hands, the front has sent what the worker will reach.
LEMMA HandsEmpty ==
    ASSUME FrontInv, handing = <<>>
    PROVE  Delivered(screen, running, queue, sent) /\ sent \in ScreenType
  <1>1. PICK d \in ScreenType : Delivered(screen, running, queue, d) /\ Run(d, handing, sent)
    BY DEF FrontInv, Handed
  <1>2. d = sent
    BY <1>1, RunNothing
  <1> QED
    BY <1>1, <1>2

LEMMA PushKeeps ==
    ASSUME FrontInv, pc \in {"idle", "resend"}, UNCHANGED <<thread, use, saved>>,
           NEW cmd \in Commands, NEW flush \in BOOLEAN, NEW k \in Returns, push(cmd, flush, k),
           regs' \in RegsType, internal_2x' \in BOOLEAN, worker = "running",
           IF cmd.kind = "reply" THEN flush /\ k \in {"read", "snapshot"} /\ k \in use.calls
           ELSE k = "idle",
           cmd.kind = "vblank" => flush
    PROVE  FrontInv'
  <1>0. TypeOK /\ Waits /\ Replies /\ Handed /\ Queued
    BY DEF FrontInv
  <1> DEFINE b == Append(Collected(batch, image), cmd)
  <1>1. /\ image' = <<>> /\ promised' = run_cmd(promised, cmd)
        /\ IF flush \/ Len(b) >= BATCH_MAX
           THEN handing' = b /\ batch' = <<>> /\ pc' = "send" /\ cont' = k /\ sent' = promised'
           ELSE batch' = b /\ pc' = k /\ UNCHANGED <<handing, cont, sent>>
    BY DEF push
  <1>2. /\ UNCHANGED <<queue, running, screen, reply, worker, use, saved>>
        /\ handing = <<>> /\ cont = "idle" /\ reply = <<>> /\ ~Asked
    BY <1>0 DEF thread, TypeOK, Waits, Asked
  <1>3. /\ b \in Seq(Commands) /\ b # <<>>
        /\ cmd.kind # "reply" => NoReply(b)
        /\ cmd.kind = "reply" => LastReply(b)
    BY <1>0, CollectedFacts, AppendReplies
  <1>4. promised \in ScreenType /\ sent \in ScreenType /\ promised' \in ScreenType
    BY <1>0, <1>1, RunCmdType DEF TypeOK
  <1>5. Run(sent, b, promised')
    BY <1>0, <1>1, <1>4, CollectedFacts, RunAppend DEF Queued
  <1>6. Delivered(screen, running, queue, sent)
    BY <1>2, HandsEmpty
  <1> HIDE DEF b
  <1>7. Len(<<>>) < IMAGE_RUN_MAX
    BY FrontAssumption
  <1>8. CASE flush \/ Len(b) >= BATCH_MAX
    <2>1. /\ handing' = b /\ batch' = <<>> /\ pc' = "send" /\ cont' = k /\ sent' = promised'
          /\ image' = <<>>
      BY <1>1, <1>8
    <2>2. TypeOK'
      BY <1>0, <1>2, <1>3, <1>4, <1>7, <2>1 DEF TypeOK
    <2>3. Waits'
      BY <1>0, <1>2, <2>1 DEF Waits
    <2>4. Replies'
      <3>1. NoReply(<<>>)
        BY DEF NoReply
      <3>2. IF k \in {"read", "snapshot"} THEN LastReply(b) ELSE NoReply(b)
        BY <1>3
      <3> QED
        BY <1>0, <1>2, <2>1, <3>1, <3>2 DEF Replies, Asked
    <2>5. Handed'
      BY <1>2, <1>4, <1>5, <1>6, <2>1 DEF Handed
    <2>6. Queued'
      BY <1>4, <2>1, RunNothing DEF Queued, Collected
    <2> QED
      BY <2>2, <2>3, <2>4, <2>5, <2>6 DEF FrontInv
  <1>9. CASE ~(flush \/ Len(b) >= BATCH_MAX)
    <2>1. /\ batch' = b /\ pc' = "idle" /\ image' = <<>> /\ UNCHANGED <<handing, cont, sent>>
          /\ cmd.kind # "reply" /\ cmd.kind # "vblank"
      BY <1>1, <1>9
    <2>2. TypeOK'
      BY <1>0, <1>2, <1>3, <1>4, <1>7, <2>1 DEF TypeOK, Returns
    <2>3. promised'.latest = promised.latest
      BY <1>1, <1>4, <2>1, CommandKinds DEF run_cmd, ScreenType
    <2>4. Waits'
      BY <1>0, <1>2, <2>1, <2>3 DEF Waits
    <2>5. Replies'
      BY <1>0, <1>2, <1>3, <2>1 DEF Replies, Asked
    <2>6. Handed'
      BY <1>0, <1>2, <2>1 DEF Handed
    <2>7. Queued'
      BY <1>5, <2>1 DEF Queued, Collected
    <2> QED
      BY <2>2, <2>4, <2>5, <2>6, <2>7 DEF FrontInv
  <1> QED
    BY <1>8, <1>9

LEMMA PushAloneKeeps ==
    ASSUME FrontInv, pc = "idle", UNCHANGED <<thread, use, saved>>,
           NEW cmd \in Commands, NEW k \in {"idle", "resend"}, push_alone(cmd, k),
           regs' \in RegsType, internal_2x' \in BOOLEAN, worker = "running",
           cmd.kind \in {"reset", "restore"}
    PROVE  FrontInv'
  <1>0. TypeOK /\ Waits /\ Replies /\ Handed /\ Queued
    BY DEF FrontInv
  <1>1. /\ image' = <<>> /\ batch' = <<>> /\ handing' = <<cmd>> /\ pc' = "send" /\ cont' = k
        /\ sent' = run_cmd(sent, cmd) /\ promised' = sent'
    BY DEF push_alone
  <1>2. /\ UNCHANGED <<queue, running, screen, reply, worker, use, saved>>
        /\ handing = <<>> /\ reply = <<>> /\ ~Asked
    BY <1>0 DEF thread, TypeOK, Waits, Asked
  <1>3. sent \in ScreenType /\ sent' \in ScreenType
    BY <1>0, <1>1, RunCmdType DEF TypeOK
  <1>4. Delivered(screen, running, queue, sent)
    BY <1>2, HandsEmpty
  <1>5. Run(sent, <<cmd>>, sent')
    <2>1. Append(<<>>, cmd) = <<cmd>> /\ <<>> \in Seq(Commands)
      OBVIOUS
    <2>2. Run(sent, Append(<<>>, cmd), run_cmd(sent, cmd))
      BY <1>3, <2>1, RunAppend, RunNothing
    <2> QED
      BY <1>1, <2>1, <2>2
  <1>6. <<cmd>> \in Seq(Commands) /\ <<cmd>> # <<>> /\ NoReply(<<cmd>>) /\ NoReply(<<>>)
    BY DEF NoReply
  <1>7. TypeOK'
    <2>1. Len(<<>>) < IMAGE_RUN_MAX
      BY FrontAssumption
    <2> QED
      BY <1>0, <1>1, <1>2, <1>3, <1>6, <2>1 DEF TypeOK, Returns
  <1>8. Waits'
    BY <1>0, <1>1, <1>2 DEF Waits
  <1>9. Replies'
    BY <1>0, <1>1, <1>2, <1>6 DEF Replies, Asked
  <1>10. Handed'
    BY <1>1, <1>2, <1>3, <1>4, <1>5 DEF Handed
  <1>11. Queued'
    BY <1>1, <1>3, RunNothing DEF Queued, Collected
  <1> QED
    BY <1>7, <1>8, <1>9, <1>10, <1>11 DEF FrontInv

\* A word joins the run it is collected in.
LEMMA ImageGrows ==
    ASSUME NEW e \in ScreenType, NEW ws \in Seq(Word), NEW w \in Word
    PROVE  /\ run_cmd(run_cmd(e, Image(ws)), Reg(w)) = run_cmd(e, Image(Append(ws, w)))
           /\ run_cmd(e, Reg(w)) = run_cmd(e, Image(<<w>>))
  <1> DEFINE a == e.gs.drawn
  <1>0. /\ e.gs \in RendererType /\ a \in Seq(Word) /\ e = [gs |-> e.gs, latest |-> e.latest]
        /\ e.gs = [drawn |-> a, disp |-> e.gs.disp, twox |-> e.gs.twox]
    BY DEF ScreenType, RendererType
  <1>1. Append(a \o ws, w) = a \o Append(ws, w) /\ Append(a, w) = a \o <<w>>
    <2>1. Append(a \o ws, w) = a \o Append(ws, w)
      BY <1>0, JoinLast, Zenon
    <2>2. Append(a, w) = a \o <<w>>
      BY <1>0, AppendIsConcat
    <2> QED
      BY <2>1, <2>2
  <1>2. /\ run_cmd(e, Image(ws)) = [e EXCEPT !.gs.drawn = a \o ws]
        /\ run_cmd(e, Image(Append(ws, w))) = [e EXCEPT !.gs.drawn = a \o Append(ws, w)]
        /\ run_cmd(e, Image(<<w>>)) = [e EXCEPT !.gs.drawn = a \o <<w>>]
        /\ run_cmd(e, Reg(w)) = [e EXCEPT !.gs.drawn = Append(a, w)]
    BY <1>0 DEF run_cmd, Image, Reg
  <1> DEFINE f == [e EXCEPT !.gs.drawn = a \o ws]
  <1>3. run_cmd(f, Reg(w)) = [f EXCEPT !.gs.drawn = Append(f.gs.drawn, w)]
    BY DEF run_cmd, Reg
  <1>4. f.gs.drawn = a \o ws /\ [f EXCEPT !.gs.drawn = Append(a \o ws, w)]
                                  = [e EXCEPT !.gs.drawn = Append(a \o ws, w)]
    BY <1>0
  <1> HIDE DEF f
  <1> QED
    BY <1>1, <1>2, <1>3, <1>4 DEF f

LEMMA HwregKeeps == FrontInv /\ Hwreg => FrontInv'
  <1> SUFFICES ASSUME FrontInv, Hwreg PROVE FrontInv'
    OBVIOUS
  <1>0. TypeOK /\ Waits /\ Replies /\ Handed /\ Queued
    BY DEF FrontInv
  <1>1. PICK w \in use.words :
           /\ IF Len(Append(image, w)) >= IMAGE_RUN_MAX
              THEN image' = <<>> /\ batch' = Append(batch, Image(Append(image, w)))
              ELSE image' = Append(image, w) /\ UNCHANGED batch
           /\ promised' = run_cmd(promised, Reg(w))
    BY DEF Hwreg
  <1>2. /\ pc = "idle" /\ UNCHANGED <<use, regs, internal_2x, answer, saved, handing, pc, cont,
                                     queue, running, screen, reply, worker, sent>>
    BY DEF Hwreg, Call, ee, thread
  <1>3. w \in Word /\ image \in Seq(Word) /\ batch \in Seq(Commands) /\ NoReply(batch)
        /\ promised \in ScreenType /\ sent \in ScreenType
    BY <1>0, UsesFacts DEF TypeOK, Replies
  <1> DEFINE ws == Append(image, w)
             c  == Image(ws)
             b  == Append(batch, c)
  <1>4. ws \in Seq(Word) /\ ws # <<>> /\ c \in Commands /\ c.kind # "reply"
    BY <1>3, CommandsMade DEF Image
  <1>5. b \in Seq(Commands) /\ NoReply(b)
    BY <1>3, <1>4, AppendReplies
  <1>6. promised' \in ScreenType /\ promised'.latest = promised.latest
    <2>1. Reg(w) \in Commands
      BY <1>3, CommandsMade
    <2>2. run_cmd(promised, Reg(w)).latest = promised.latest
      BY <1>3 DEF run_cmd, Reg, ScreenType
    <2> QED
      BY <1>1, <1>3, <2>1, <2>2, RunCmdType
  <1>7. Run(sent, b, promised')
    <2>1. CASE image = <<>>
      <3>1. Run(sent, batch, promised) /\ ws = <<w>>
        BY <1>0, <2>1 DEF Queued, Collected
      <3>2. Run(sent, b, run_cmd(promised, c))
        BY <1>3, <1>4, <3>1, RunAppend
      <3>3. run_cmd(promised, c) = promised'
        BY <1>1, <1>3, <3>1, ImageGrows
      <3> QED
        BY <3>2, <3>3
    <2>2. CASE image # <<>>
      <3>1. Run(sent, Append(batch, Image(image)), promised) /\ Image(image) \in Commands
        BY <1>0, <1>3, <2>2, CommandsMade DEF Queued, Collected
      <3>2. PICK e \in ScreenType : Run(sent, batch, e) /\ promised = run_cmd(e, Image(image))
        BY <1>3, <3>1, RunLast
      <3>3. Run(sent, b, run_cmd(e, c))
        BY <1>3, <1>4, <3>2, RunAppend
      <3>4. run_cmd(e, c) = promised'
        BY <1>1, <1>3, <3>2, ImageGrows
      <3> QED
        BY <3>3, <3>4
    <2> QED
      BY <2>1, <2>2
  <1>8. \/ image' = <<>> /\ batch' = b
        \/ image' = ws /\ batch' = batch /\ Len(ws) < IMAGE_RUN_MAX
    <2>1. Len(ws) \in Nat /\ IMAGE_RUN_MAX \in Nat
      BY <1>4, FrontAssumption
    <2> QED
      BY <1>1, <2>1
  <1>9. Collected(batch', image') = b
    BY <1>4, <1>8 DEF Collected
  <1>10. image' \in Seq(Word) /\ Len(image') < IMAGE_RUN_MAX /\ batch' \in Seq(Commands)
         /\ NoReply(batch')
    <2>1. Len(<<>>) < IMAGE_RUN_MAX /\ <<>> \in Seq(Word)
      BY FrontAssumption
    <2> HIDE DEF b, ws
    <2> QED
      BY <1>3, <1>4, <1>5, <1>8, <2>1
  <1> HIDE DEF b, c, ws
  <1>11. TypeOK'
    BY <1>0, <1>2, <1>6, <1>10 DEF TypeOK
  <1>12. Waits'
    BY <1>0, <1>2, <1>6 DEF Waits
  <1>13. Replies'
    BY <1>0, <1>2, <1>10 DEF Replies, Asked, TypeOK
  <1>14. Handed'
    BY <1>0, <1>2 DEF Handed
  <1>15. Queued'
    BY <1>2, <1>7, <1>9 DEF Queued
  <1> QED
    BY <1>11, <1>12, <1>13, <1>14, <1>15 DEF FrontInv

\* The registers the EE reads.
LEMMA RegsTypes ==
    ASSUME NEW r \in RegsType
    PROVE  /\ \A f \in Flag : raise_int(r, f) \in RegsType /\ raise_int(r, f).disp = r.disp
           /\ \A fs \in SUBSET Flag : /\ csr_write(r, fs) \in RegsType
                                      /\ csr_write(r, fs).disp = r.disp
                                      /\ imr_write(r, fs) \in RegsType
                                      /\ imr_write(r, fs).disp = r.disp
           /\ csr_reset(r) \in RegsType /\ csr_reset(r).disp = r.disp
           /\ vblank_regs(r) \in RegsType /\ vblank_regs(r).disp = r.disp
           /\ [r EXCEPT !.intc_pending = FALSE] \in RegsType
           /\ \A d \in Disp : [r EXCEPT !.disp = d] \in RegsType
  <1>1. \A x \in RegsType, f \in Flag :
           raise_int(x, f) \in RegsType /\ raise_int(x, f).disp = x.disp
    BY DEF raise_int, RegsType
  <1>2. [r EXCEPT !.field = ~@] \in RegsType /\ [r EXCEPT !.field = ~@].disp = r.disp
        /\ "VSINT" \in Flag
    BY DEF RegsType, Flag
  <1>3. vblank_regs(r) \in RegsType /\ vblank_regs(r).disp = r.disp
    BY <1>1, <1>2 DEF vblank_regs
  <1>4. \A fs \in SUBSET Flag : csr_write(r, fs) \in RegsType /\ csr_write(r, fs).disp = r.disp
    BY DEF csr_write, RegsType
  <1>5. \A fs \in SUBSET Flag : imr_write(r, fs) \in RegsType /\ imr_write(r, fs).disp = r.disp
    BY DEF imr_write, RegsType
  <1>6. csr_reset(r) \in RegsType /\ csr_reset(r).disp = r.disp
    BY DEF csr_reset, RegsType
  <1>7. [r EXCEPT !.intc_pending = FALSE] \in RegsType
        /\ \A d \in Disp : [r EXCEPT !.disp = d] \in RegsType
    BY DEF RegsType
  <1> QED
    BY <1>1, <1>3, <1>4, <1>5, <1>6, <1>7


\* Only the registers, or what the host was told, change.
LEMMA RegsKeep ==
    ASSUME FrontInv, UNCHANGED <<use, internal_2x, saved, front, thread, history>>,
           regs' \in RegsType
    PROVE  FrontInv'
  <1>0. TypeOK /\ Waits /\ Replies /\ Handed /\ Queued
    BY DEF FrontInv
  <1>1. UNCHANGED <<use, internal_2x, saved, image, batch, handing, pc, cont, queue, running,
                    screen, reply, worker, promised, sent>>
    BY DEF front, thread, history
  <1>2. TypeOK'
    BY <1>0, <1>1 DEF TypeOK
  <1>3. Waits'
    BY <1>0, <1>1 DEF Waits
  <1>4. Replies'
    BY <1>0, <1>1 DEF Replies, Asked
  <1>5. Handed' /\ Queued'
    BY <1>0, <1>1 DEF Handed, Queued
  <1> QED
    BY <1>2, <1>3, <1>4, <1>5 DEF FrontInv

LEMMA RegisterCallsKeep ==
    ASSUME FrontInv, RaiseInt \/ CsrImrWrite \/ TakeInt
    PROVE  FrontInv' /\ UNCHANGED <<use, internal_2x, answer, saved, front, thread, history>>
           /\ regs'.disp = regs.disp
  <1>1. regs \in RegsType
    BY DEF FrontInv, TypeOK
  <1>2. regs' \in RegsType /\ regs'.disp = regs.disp
    <2>1. CASE RaiseInt
      <3>1. PICK f \in Flag : regs' = raise_int(regs, f)
        BY <2>1 DEF RaiseInt, Flag
      <3> QED
        BY <1>1, <3>1, RegsTypes
    <2>2. CASE CsrImrWrite
      <3>1. PICK fs \in SUBSET Flag : \/ regs' = csr_write(regs, fs)
                                      \/ regs' = imr_write(regs, fs)
                                      \/ regs' = csr_reset(regs)
        BY <2>2 DEF CsrImrWrite
      <3>2. CASE regs' = csr_write(regs, fs)
        BY <1>1, <3>2, RegsTypes
      <3>3. CASE regs' = imr_write(regs, fs)
        BY <1>1, <3>3, RegsTypes
      <3>4. CASE regs' = csr_reset(regs)
        BY <1>1, <3>4, RegsTypes
      <3> QED
        BY <3>1, <3>2, <3>3, <3>4
    <2>3. CASE TakeInt
      <3>1. regs' = [regs EXCEPT !.intc_pending = FALSE]
        BY <2>3 DEF TakeInt
      <3>2. [regs EXCEPT !.intc_pending = FALSE].disp = regs.disp
        BY <1>1 DEF RegsType
      <3> QED
        BY <1>1, <3>1, <3>2, RegsTypes
    <2> QED
      BY <2>1, <2>2, <2>3
  <1>3. UNCHANGED <<use, internal_2x, answer, saved, front, thread, history>>
    BY DEF RaiseInt, CsrImrWrite, TakeInt
  <1> QED
    BY <1>2, <1>3, RegsKeep

LEMMA PushCallsKeep ==
    ASSUME FrontInv, WriteReg \/ PrivWrite \/ SetInternal2x \/ Read \/ Snapshot
    PROVE  FrontInv'
  <1>0. regs \in RegsType /\ internal_2x \in BOOLEAN /\ use.words \subseteq Word
    BY UsesFacts DEF FrontInv, TypeOK
  <1>1. CASE WriteReg
    <2>1. PICK w \in use.words : push(Reg(w), FALSE, "idle")
      BY <1>1 DEF WriteReg
    <2>2. pc = "idle" /\ worker = "running" /\ UNCHANGED <<thread, use, saved>>
          /\ UNCHANGED <<regs, internal_2x>>
      BY <1>1 DEF WriteReg, Call, ee
    <2>3. Reg(w) \in Commands /\ Reg(w).kind = "reg" /\ "idle" \in Returns
      BY <1>0, <2>1, CommandsMade DEF Reg, Returns
    <2> HIDE DEF Commands
    <2> QED
      BY <1>0, <2>1, <2>2, <2>3, PushKeeps
  <1>2. CASE PrivWrite
    <2>1. PICK d \in Disp : regs' = [regs EXCEPT !.disp = d] /\ push(Priv(d), FALSE, "idle")
      BY <1>2 DEF PrivWrite
    <2>2. pc = "idle" /\ worker = "running" /\ UNCHANGED <<thread, use, saved>>
          /\ UNCHANGED internal_2x
      BY <1>2 DEF PrivWrite, Call
    <2>3. Priv(d) \in Commands /\ Priv(d).kind = "priv" /\ "idle" \in Returns
      BY <1>0, <2>1, CommandsMade DEF Priv, Returns
    <2>4. regs' \in RegsType
      BY <1>0, <2>1, RegsTypes
    <2> QED
      BY <1>0, <2>1, <2>2, <2>3, <2>4, PushKeeps
  <1>3. CASE SetInternal2x
    <2>1. internal_2x' = ~internal_2x /\ push(Internal2x(internal_2x'), FALSE, "idle")
      BY <1>3 DEF SetInternal2x
    <2>2. pc = "idle" /\ worker = "running" /\ UNCHANGED <<thread, use, saved>>
          /\ UNCHANGED regs /\ internal_2x' \in BOOLEAN
      BY <1>0, <1>3 DEF SetInternal2x, Call
    <2>3. Internal2x(internal_2x') \in Commands /\ Internal2x(internal_2x').kind = "2x"
          /\ "idle" \in Returns
      BY <2>2, CommandsMade DEF Internal2x, Returns
    <2> QED
      BY <1>0, <2>1, <2>2, <2>3, PushKeeps
  <1>4. CASE Read \/ Snapshot
    <2>1. PICK k \in {"read", "snapshot"} : push(Reply, TRUE, k) /\ k \in use.calls
      BY <1>4 DEF Read, Snapshot, Call
    <2>2. pc = "idle" /\ worker = "running" /\ UNCHANGED <<thread, use, saved>>
          /\ UNCHANGED <<regs, internal_2x>>
      BY <1>4 DEF Read, Snapshot, Call, ee
    <2>3. Reply \in Commands /\ Reply.kind = "reply" /\ k \in Returns
      BY CommandsMade DEF Reply, Returns
    <2> QED
      BY <1>0, <2>1, <2>2, <2>3, PushKeeps
  <1> QED
    BY <1>1, <1>2, <1>3, <1>4

LEMMA VerticalBlankKeeps == FrontInv /\ VerticalBlank => FrontInv'
  <1> SUFFICES ASSUME FrontInv, VerticalBlank PROVE FrontInv'
    OBVIOUS
  <1>0. TypeOK /\ Waits /\ Replies /\ Handed /\ Queued
    BY DEF FrontInv
  <1>1. /\ pc = "idle" /\ worker = "running" /\ regs' = vblank_regs(regs)
        /\ UNCHANGED <<use, internal_2x, answer, saved, thread>>
    BY DEF VerticalBlank, Call
  <1>2. regs' \in RegsType /\ internal_2x' \in BOOLEAN
    BY <1>0, <1>1, RegsTypes DEF TypeOK
  <1>3. CASE use.publish
    <2>1. push(Vblank(OddRows(regs')), TRUE, "idle")
      BY <1>3 DEF VerticalBlank
    <2>2. OddRows(regs') \in BOOLEAN
      BY DEF OddRows
    <2>3. Vblank(OddRows(regs')) \in Commands /\ Vblank(OddRows(regs')).kind = "vblank"
          /\ "idle" \in Returns
      BY <2>2, CommandsMade DEF Vblank, Returns
    <2> QED
      BY <1>1, <1>2, <2>1, <2>3, PushKeeps
  <1>4. CASE ~use.publish
    <2>1. /\ image' = <<>> /\ batch' = <<>> /\ handing' = Collected(batch, image)
          /\ pc' = (IF handing' = <<>> THEN "idle" ELSE "send") /\ cont' = "idle"
          /\ sent' = promised /\ UNCHANGED promised
      BY <1>4 DEF VerticalBlank
    <2>2. /\ UNCHANGED <<queue, running, screen, reply, worker, use, saved>>
          /\ handing = <<>> /\ reply = <<>> /\ ~Asked /\ worker = "running"
      BY <1>0, <1>1 DEF thread, TypeOK, Waits, Asked
    <2>3. handing' \in Seq(Commands) /\ NoReply(handing')
      BY <1>0, <2>1, CollectedFacts
    <2>4. Len(<<>>) < IMAGE_RUN_MAX /\ NoReply(<<>>)
      BY FrontAssumption DEF NoReply
    <2>5. TypeOK'
      BY <1>0, <1>2, <2>1, <2>2, <2>3, <2>4 DEF TypeOK, Returns
    <2>6. Waits'
      BY <1>0, <2>1, <2>2 DEF Waits
    <2>7. Replies'
      BY <1>0, <2>1, <2>2, <2>3, <2>4 DEF Replies, Asked
    <2>8. Run(sent, handing', promised)
      BY <1>0, <2>1 DEF Queued
    <2>9. Delivered(screen, running, queue, sent) /\ sent \in ScreenType
      BY <2>2, HandsEmpty
    <2>10. Handed'
      BY <2>1, <2>2, <2>8, <2>9 DEF Handed
    <2>11. Queued'
      <3>1. promised \in ScreenType
        BY <1>0 DEF TypeOK
      <3> QED
        BY <2>1, <3>1, RunNothing DEF Queued, Collected
    <2> QED
      BY <2>5, <2>6, <2>7, <2>10, <2>11 DEF FrontInv
  <1> QED
    BY <1>3, <1>4

\* What a load puts back.
LEMMA SavedFacts ==
    ASSUME FrontInv, saved # NoAnswer
    PROVE  saved.renderer \in RendererType /\ saved.regs \in RegsType
           /\ saved.internal_2x \in BOOLEAN
  BY DEF FrontInv, Waits, Snapshots

LEMMA LoadsKeep == ASSUME FrontInv, RestoreState \/ RejectState \/ Reset PROVE FrontInv'
  <1>0. regs \in RegsType /\ internal_2x \in BOOLEAN
    BY DEF FrontInv, TypeOK
  <1>1. CASE RestoreState \/ RejectState
    <2>1. PICK blob \in RendererType \cup {Corrupt} : RestoreFrom(blob)
      BY <1>1, SavedFacts DEF RestoreState, RejectState
    <2>2. /\ pc = "idle" /\ worker = "running" /\ saved # NoAnswer
          /\ regs' = saved.regs /\ internal_2x' = saved.internal_2x
          /\ push_alone(Restore(blob), "idle") /\ UNCHANGED <<thread, use, saved>>
      BY <1>1, <2>1 DEF RestoreState, RejectState, RestoreFrom, Call
    <2>3. Restore(blob) \in Commands /\ Restore(blob).kind = "restore"
      BY CommandsMade DEF Restore
    <2> QED
      BY <2>2, <2>3, SavedFacts, PushAloneKeeps
  <1>2. CASE Reset
    <2>1. /\ pc = "idle" /\ worker = "running" /\ regs' = ResetRegs
          /\ push_alone(ResetCmd, "resend") /\ UNCHANGED <<thread, use, saved, internal_2x>>
      BY <1>2 DEF Reset, Call
    <2>2. ResetCmd \in Commands /\ ResetCmd.kind = "reset" /\ ResetRegs \in RegsType
      BY CommandsMade, RendererAssumption DEF ResetCmd, ResetRegs, RegsType
    <2> QED
      BY <1>0, <2>1, <2>2, PushAloneKeeps
  <1> QED
    BY <1>1, <1>2

LEMMA ResendKeeps == FrontInv /\ Resend => FrontInv'
  <1> SUFFICES ASSUME FrontInv, Resend PROVE FrontInv'
    OBVIOUS
  <1>0. TypeOK /\ Waits /\ Replies /\ Handed /\ Queued
    BY DEF FrontInv
  <1>1. pc = "resend" /\ UNCHANGED <<use, regs, internal_2x, answer, saved, thread>>
        /\ worker = "running"
    BY <1>0 DEF Resend, ee, Waits, TypeOK
  <1>2. CASE internal_2x
    <2>1. push(Internal2x(TRUE), FALSE, "idle")
      BY <1>2 DEF Resend
    <2>2. Internal2x(TRUE) \in Commands /\ Internal2x(TRUE).kind = "2x" /\ "idle" \in Returns
      BY CommandsMade DEF Internal2x, Returns
    <2> QED
      BY <1>0, <1>1, <2>1, <2>2, PushKeeps DEF TypeOK
  <1>3. CASE ~internal_2x
    <2>1. /\ pc' = "idle" /\ UNCHANGED <<image, batch, handing, cont, promised, sent>>
          /\ UNCHANGED <<queue, running, screen, reply, worker>>
          /\ reply = <<>> /\ handing = <<>> /\ cont = "idle"
      BY <1>0, <1>1, <1>3 DEF Resend, history, thread, TypeOK, Waits
    <2>2. TypeOK'
      BY <1>0, <1>1, <2>1 DEF TypeOK, Returns
    <2>3. Waits'
      BY <1>0, <1>1, <2>1 DEF Waits
    <2>4. Replies'
      BY <1>0, <1>1, <2>1 DEF Replies, Asked
    <2>5. Handed' /\ Queued'
      BY <1>0, <1>1, <2>1 DEF Handed, Queued
    <2> QED
      BY <2>2, <2>3, <2>4, <2>5 DEF FrontInv
  <1> QED
    BY <1>2, <1>3

LEMMA ReceiveKeeps == FrontInv /\ Receive => FrontInv'
  <1> SUFFICES ASSUME FrontInv, Receive PROVE FrontInv'
    OBVIOUS
  <1>0. TypeOK /\ Waits /\ Replies /\ Handed /\ Queued
    BY DEF FrontInv
  <1>1. /\ pc \in {"read", "snapshot"} /\ reply # <<>> /\ reply' = <<>> /\ pc' = "idle"
        /\ UNCHANGED <<use, regs, internal_2x, image, batch, handing, cont, queue, running,
                       screen, worker, promised, sent>>
    BY DEF Receive, history
  <1>2. queue = <<>> /\ running = <<>> /\ handing = <<>> /\ worker = "running" /\ ~Asked
        /\ reply = <<promised.gs>> /\ promised \in ScreenType
    BY <1>0, <1>1 DEF Replies, TypeOK, Waits, Asked
  <1>3. saved' \in {NoAnswer} \cup Snapshots
    <2>1. CASE pc = "read"
      BY <1>0, <2>1 DEF Receive, Waits
    <2>2. CASE pc # "read"
      <3>1. saved' = [renderer |-> promised.gs, regs |-> regs, internal_2x |-> internal_2x]
        BY <1>2, <2>2 DEF Receive
      <3>2. promised.gs \in RendererType /\ regs \in RegsType /\ internal_2x \in BOOLEAN
        BY <1>0, <1>2 DEF TypeOK, ScreenType
      <3> QED
        BY <3>1, <3>2 DEF Snapshots
    <2> QED
      BY <2>1, <2>2
  <1>4. TypeOK'
    BY <1>0, <1>1, <1>2 DEF TypeOK, Returns
  <1>5. Waits'
    BY <1>0, <1>1, <1>2, <1>3 DEF Waits
  <1>6. Replies'
    BY <1>0, <1>1, <1>2 DEF Replies, Asked, NoReply
  <1>7. Handed' /\ Queued'
    BY <1>0, <1>1 DEF Handed, Queued
  <1> QED
    BY <1>4, <1>5, <1>6, <1>7 DEF FrontInv

LEMMA DropKeeps == FrontInv /\ Drop => FrontInv'
  <1> SUFFICES ASSUME FrontInv, Drop PROVE FrontInv'
    OBVIOUS
  <1>0. TypeOK /\ Waits /\ Replies /\ Handed /\ Queued
    BY DEF FrontInv
  <1>1. /\ pc = "idle" /\ pc' = "dropped" /\ worker = "running"
        /\ UNCHANGED <<use, regs, internal_2x, saved, image, batch, handing, cont, queue,
                       running, screen, reply, worker, promised, sent>>
    BY DEF Drop, Call, ee, thread, history
  <1>2. TypeOK'
    BY <1>0, <1>1 DEF TypeOK
  <1>3. Waits'
    BY <1>0, <1>1 DEF Waits
  <1>4. Replies'
    BY <1>0, <1>1 DEF Replies, Asked
  <1>5. Handed' /\ Queued'
    BY <1>0, <1>1 DEF Handed, Queued
  <1> QED
    BY <1>2, <1>3, <1>4, <1>5 DEF FrontInv


\* The front hands its batch over.
LEMMA SendKeeps == FrontInv /\ Send => FrontInv'
  <1> SUFFICES ASSUME FrontInv, Send PROVE FrontInv'
    OBVIOUS
  <1>0. TypeOK /\ Waits /\ Replies /\ Handed /\ Queued
    BY DEF FrontInv
  <1>1. /\ pc = "send" /\ Len(queue) < QUEUE_DEPTH
        /\ queue' = Append(queue, handing) /\ handing' = <<>> /\ pc' = cont /\ cont' = "idle"
        /\ UNCHANGED <<use, regs, internal_2x, saved, image, batch, running, screen, reply,
                       worker, promised, sent>>
    BY DEF Send, ee, history
  <1>2. /\ reply = <<>> /\ ~Asked /\ worker = "running" /\ batch = <<>> /\ image = <<>>
        /\ queue \in Seq(Seq(Commands)) /\ handing \in Seq(Commands) /\ sent \in ScreenType
    BY <1>0, <1>1 DEF TypeOK, Waits, Asked
  <1>3. /\ queue' \in Seq(Seq(Commands)) /\ Len(queue') = Len(queue) + 1 /\ Len(queue) \in Nat
        /\ queue' # <<>> /\ queue'[Len(queue')] = handing
        /\ \A i \in 1 .. Len(queue) : queue'[i] = queue[i]
    BY <1>1, <1>2, Appended
  <1>4. \A i \in 1 .. Len(queue') : i # Len(queue') => i \in 1 .. Len(queue)
    BY <1>3
  <1>5. TypeOK'
    <2>1. Len(queue') =< QUEUE_DEPTH
      BY <1>1, <1>3, FrontAssumption
    <2> QED
      BY <1>0, <1>1, <1>2, <1>3, <2>1 DEF TypeOK, Returns
  <1>6. Waits'
    <2>1. cont \in Returns
      BY <1>0 DEF TypeOK
    <2> QED
      BY <1>0, <1>1, <1>2, <2>1 DEF Waits, Returns
  <1>7. Replies'
    <2>1. NoReply(running) /\ \A i \in 1 .. Len(queue) : NoReply(queue[i])
      BY <1>0, <1>2 DEF Replies
    <2>2. IF cont \in {"read", "snapshot"} THEN LastReply(handing) ELSE NoReply(handing)
      BY <1>0, <1>1 DEF Replies
    <2>3. cont # "send"
      BY <1>0 DEF TypeOK, Returns
    <2>4. NoReply(batch)
      BY <1>0 DEF Replies
    <2>5. \A i \in 1 .. Len(queue') : i # Len(queue') => NoReply(queue'[i])
      BY <1>3, <1>4, <2>1
    <2>6. CASE cont \in {"read", "snapshot"}
      <3>1. LastReply(queue'[Len(queue')])
        BY <1>3, <2>2, <2>6
      <3> HIDE DEF NoReply, LastReply
      <3> QED
        BY <1>1, <1>2, <1>3, <2>1, <2>3, <2>4, <2>5, <2>6, <3>1 DEF Replies, Asked
    <2>7. CASE cont \notin {"read", "snapshot"}
      <3>1. \A i \in 1 .. Len(queue') : NoReply(queue'[i])
        BY <1>3, <2>2, <2>5, <2>7
      <3> HIDE DEF NoReply, LastReply
      <3> QED
        BY <1>1, <1>2, <2>1, <2>3, <2>4, <2>7, <3>1 DEF Replies, Asked
    <2> QED
      BY <2>6, <2>7
  <1>8. Handed'
    <2>1. PICK d \in ScreenType : Delivered(screen, running, queue, d) /\ Run(d, handing, sent)
      BY <1>0 DEF Handed
    <2>2. Delivered(screen, running, queue', sent)
      BY <1>1, <1>2, <2>1, DeliverSend
    <2>3. Run(sent, <<>>, sent)
      BY <1>2, RunNothing
    <2> QED
      BY <1>1, <1>2, <2>2, <2>3 DEF Handed
  <1>9. Queued'
    BY <1>0, <1>1 DEF Queued
  <1> QED
    BY <1>5, <1>6, <1>7, <1>8, <1>9 DEF FrontInv

(***************************************************************************)
(* The worker's steps.                                                     *)
(***************************************************************************)
LEMMA TakeBatchKeeps == FrontInv /\ TakeBatch => FrontInv'
  <1> SUFFICES ASSUME FrontInv, TakeBatch PROVE FrontInv'
    OBVIOUS
  <1>0. TypeOK /\ Waits /\ Replies /\ Handed /\ Queued
    BY DEF FrontInv
  <1>1. /\ running = <<>> /\ queue # <<>> /\ running' = Head(queue) /\ queue' = Tail(queue)
        /\ UNCHANGED <<use, regs, internal_2x, saved, image, batch, handing, pc, cont, screen,
                       reply, worker, promised, sent>>
    BY DEF TakeBatch, ee, front, history
  <1>2. queue \in Seq(Seq(Commands)) /\ Len(queue) =< QUEUE_DEPTH /\ worker = "running"
        /\ reply = <<>>
    BY <1>0, <1>1 DEF TypeOK, Waits, Replies
  <1> DEFINE n == Len(queue) - 1
  <1>3. /\ n \in Nat /\ Len(queue) = n + 1 /\ Len(queue') = n
        /\ running' = queue[1] /\ running' \in Seq(Commands) /\ queue' \in Seq(Seq(Commands))
        /\ \A i \in 1 .. n : queue'[i] = queue[i + 1]
        /\ (queue' = <<>> <=> n = 0)
    BY <1>1, <1>2, HeadAndTail
  <1> HIDE DEF n
  <1>4. TypeOK'
    <2>1. Len(queue') =< QUEUE_DEPTH
      BY <1>2, <1>3, FrontAssumption
    <2> QED
      BY <1>0, <1>1, <1>3, <2>1 DEF TypeOK
  <1>5. Waits'
    BY <1>0, <1>1, <1>2 DEF Waits
  <1>6. Replies'
    <2>1. /\ NoReply(batch)
          /\ pc = "send" => IF cont \in {"read", "snapshot"} THEN LastReply(handing)
                            ELSE NoReply(handing)
      BY <1>0 DEF Replies
    <2>2. ASSUME ~Asked PROVE NoReply(running') /\ \A i \in 1 .. n : NoReply(queue'[i])
      <3>1. \A i \in 1 .. (n + 1) : NoReply(queue[i])
        BY <1>0, <1>3, <2>2 DEF Replies
      <3>2. 1 \in 1 .. (n + 1) /\ \A i \in 1 .. n : i + 1 \in 1 .. (n + 1)
        BY <1>3
      <3> QED
        BY <1>3, <3>1, <3>2
    <2>3. ASSUME Asked
          PROVE  \/ queue' = <<>> /\ LastReply(running')
                 \/ /\ queue' # <<>> /\ LastReply(queue'[n]) /\ NoReply(running')
                    /\ \A i \in 1 .. n : i # n => NoReply(queue'[i])
      <3>1. LastReply(queue[n + 1]) /\ \A i \in 1 .. (n + 1) : i # n + 1 => NoReply(queue[i])
        BY <1>0, <1>1, <1>3, <2>3 DEF Replies
      <3>2. CASE n = 0
        BY <1>3, <3>1, <3>2
      <3>3. CASE n # 0
        <4>1. 1 \in 1 .. (n + 1) /\ 1 # n + 1 /\ n \in 1 .. n
              /\ \A i \in 1 .. n : i + 1 \in 1 .. (n + 1) /\ (i # n => i + 1 # n + 1)
          BY <1>3, <3>3
        <4> QED
          BY <1>3, <3>1, <3>3, <4>1
      <3> QED
        BY <3>2, <3>3
    <2>4. Asked' <=> Asked
      BY <1>1 DEF Asked
    <2> QED
      BY <1>1, <1>2, <1>3, <2>1, <2>2, <2>3, <2>4 DEF Replies
  <1>7. Handed'
    <2>1. PICK d \in ScreenType : Delivered(screen, running, queue, d) /\ Run(d, handing, sent)
      BY <1>0 DEF Handed
    <2>2. Delivered(screen, running', queue', d)
      BY <1>1, <1>2, <2>1, DeliverTake
    <2> QED
      BY <1>1, <2>1, <2>2 DEF Handed
  <1>8. Queued'
    BY <1>0, <1>1 DEF Queued
  <1> QED
    BY <1>4, <1>5, <1>6, <1>7, <1>8 DEF FrontInv

LEMMA RunCmdKeeps == FrontInv /\ RunCmd => FrontInv'
  <1> SUFFICES ASSUME FrontInv, RunCmd PROVE FrontInv'
    OBVIOUS
  <1>0. TypeOK /\ Waits /\ Replies /\ Handed /\ Queued
    BY DEF FrontInv
  <1> DEFINE c == Head(running)
  <1>1. /\ running # <<>> /\ running' = Tail(running) /\ screen' = run_cmd(screen, c)
        /\ reply' = (IF c.kind = "reply" THEN Append(reply, screen.gs) ELSE reply)
        /\ UNCHANGED <<use, regs, internal_2x, saved, image, batch, handing, pc, cont, queue,
                       worker, promised, sent>>
    BY DEF RunCmd, ee, front, history
  <1> DEFINE n == Len(running) - 1
  <1>2. /\ n \in Nat /\ Len(running) = n + 1 /\ c = running[1] /\ c \in Commands
        /\ running' \in Seq(Commands) /\ Len(running') = n
        /\ \A i \in 1 .. n : running'[i] = running[i + 1]
        /\ (running' = <<>> <=> n = 0)
    <2>1. running \in Seq(Commands)
      BY <1>0 DEF TypeOK
    <2> QED
      BY <1>1, <2>1, HeadAndTail
  <1> HIDE DEF c, n
  <1>3. screen \in ScreenType /\ screen' \in ScreenType /\ screen.gs \in RendererType
    BY <1>0, <1>1, <1>2, RunCmdType DEF TypeOK, ScreenType
  <1>4. worker = "running" /\ reply = <<>>
    BY <1>0, <1>1 DEF TypeOK, Waits, Replies
  <1>5. PICK d \in ScreenType : Delivered(screen, running, queue, d) /\ Run(d, handing, sent)
    BY <1>0 DEF Handed
  <1>6. Delivered(screen', running', queue, d)
    BY <1>0, <1>1, <1>5, DeliverRun DEF TypeOK, c
  <1>7. 1 \in 1 .. (n + 1) /\ \A i \in 1 .. n : i + 1 \in 1 .. (n + 1)
    BY <1>2
  <1>8. Waits'
    BY <1>0, <1>1, <1>4 DEF Waits
  <1>9. Handed' /\ Queued'
    BY <1>0, <1>1, <1>5, <1>6 DEF Handed, Queued
  <1>10. /\ NoReply(batch)
         /\ pc = "send" => IF cont \in {"read", "snapshot"} THEN LastReply(handing)
                           ELSE NoReply(handing)
    BY <1>0 DEF Replies
  <1>11. CASE c.kind = "reply"
    <2>1. Asked
      BY <1>0, <1>2, <1>7, <1>11 DEF Replies, NoReply
    <2>2. queue = <<>> /\ LastReply(running)
      BY <1>0, <1>2, <1>7, <1>11, <2>1 DEF Replies, NoReply
    <2>3. running' = <<>>
      BY <1>2, <1>7, <1>11, <2>2 DEF LastReply
    <2>4. handing = <<>> /\ batch = <<>> /\ image = <<>> /\ pc \in {"read", "snapshot"}
      BY <1>0, <2>1 DEF TypeOK, Waits, Asked
    <2>5. screen' = screen
      BY <1>1, <1>11 DEF run_cmd
    <2>6. d = screen' /\ sent = d /\ promised = sent
      BY <1>0, <1>5, <1>6, <2>2, <2>3, <2>4, DeliverNone, RunNothing DEF Queued, Collected
    <2>7. reply' = <<promised.gs>>
      BY <1>1, <1>4, <1>11, <2>5, <2>6
    <2>8. TypeOK'
      <3>1. <<screen.gs>> \in Seq(RendererType) /\ Len(<<screen.gs>>) =< 1
            /\ reply' = <<screen.gs>>
        BY <1>3, <2>5, <2>6, <2>7
      <3> QED
        BY <1>0, <1>1, <1>2, <1>3, <2>4, <3>1 DEF TypeOK
    <2>9. Replies'
      <3>1. NoReply(<<>>) /\ \A i \in 1 .. Len(<<>>) : NoReply(<<>>[i])
        BY DEF NoReply
      <3>2. reply' # <<>> /\ ~Asked'
        BY <2>7 DEF Asked
      <3> QED
        BY <1>1, <1>10, <2>2, <2>3, <2>4, <2>7, <3>1, <3>2 DEF Replies
    <2> QED
      BY <1>8, <1>9, <2>8, <2>9 DEF FrontInv
  <1>12. CASE c.kind # "reply"
    <2>1. reply' = reply
      BY <1>1, <1>12
    <2>2. TypeOK'
      BY <1>0, <1>1, <1>2, <1>3, <2>1 DEF TypeOK
    <2>3. Asked' <=> Asked
      BY <1>1, <2>1 DEF Asked
    <2>4. ASSUME NoReply(running) PROVE NoReply(running')
      BY <1>2, <1>7, <2>4 DEF NoReply
    <2>5. ASSUME LastReply(running) PROVE LastReply(running')
      <3>1. n # 0
        BY <1>2, <1>7, <1>12, <2>5 DEF LastReply
      <3>2. n \in 1 .. n /\ \A i \in 1 .. n : i + 1 = n + 1 => i = n
        BY <1>2, <3>1
      <3> QED
        BY <1>2, <1>7, <2>5, <3>1, <3>2 DEF LastReply
    <2>6. Replies'
      <3> HIDE DEF NoReply, LastReply
      <3>1. ~Asked' => NoReply(running') /\ \A i \in 1 .. Len(queue) : NoReply(queue[i])
        BY <1>0, <2>3, <2>4 DEF Replies
      <3>2. Asked' => \/ queue = <<>> /\ LastReply(running')
                      \/ /\ queue # <<>> /\ LastReply(queue[Len(queue)]) /\ NoReply(running')
                         /\ \A i \in 1 .. Len(queue) : i # Len(queue) => NoReply(queue[i])
        BY <1>0, <2>3, <2>4, <2>5 DEF Replies
      <3> QED
        BY <1>1, <1>4, <1>10, <2>1, <3>1, <3>2 DEF Replies
    <2> QED
      BY <1>8, <1>9, <2>2, <2>6 DEF FrontInv
  <1> QED
    BY <1>11, <1>12

LEMMA ExitKeeps == FrontInv /\ Exit => FrontInv'
  <1> SUFFICES ASSUME FrontInv, Exit PROVE FrontInv'
    OBVIOUS
  <1>0. TypeOK /\ Waits /\ Replies /\ Handed /\ Queued
    BY DEF FrontInv
  <1>1. /\ pc = "dropped" /\ running = <<>> /\ queue = <<>> /\ worker' = "gone"
        /\ UNCHANGED <<use, regs, internal_2x, saved, image, batch, handing, pc, cont, queue,
                       running, screen, reply, promised, sent>>
    BY DEF Exit, ee, front, history
  <1>2. TypeOK'
    BY <1>0, <1>1 DEF TypeOK
  <1>3. Waits'
    BY <1>0, <1>1 DEF Waits
  <1>4. Replies'
    BY <1>0, <1>1 DEF Replies, Asked
  <1>5. Handed' /\ Queued'
    BY <1>0, <1>1 DEF Handed, Queued
  <1> QED
    BY <1>2, <1>3, <1>4, <1>5 DEF FrontInv

LEMMA FrontKept == FrontInv /\ [Next]_vars => FrontInv'
  <1> SUFFICES ASSUME FrontInv, [Next]_vars PROVE FrontInv'
    OBVIOUS
  <1>1. CASE UNCHANGED vars
    <2>1. /\ UNCHANGED <<use, internal_2x, saved, front, thread, history>>
          /\ UNCHANGED regs
      BY <1>1 DEF vars, ee
    <2> QED
      BY <2>1, RegsKeep DEF FrontInv, TypeOK
  <1>2. CASE WriteReg \/ PrivWrite \/ SetInternal2x \/ Read \/ Snapshot
    BY <1>2, PushCallsKeep
  <1>3. CASE RaiseInt \/ CsrImrWrite \/ TakeInt
    BY <1>3, RegisterCallsKeep
  <1>4. CASE RestoreState \/ RejectState \/ Reset
    BY <1>4, LoadsKeep
  <1>5. CASE Hwreg \/ VerticalBlank \/ Drop
    BY <1>5, HwregKeeps, VerticalBlankKeeps, DropKeeps
  <1>6. CASE Resend \/ Send \/ Receive
    BY <1>6, ResendKeeps, SendKeeps, ReceiveKeeps
  <1>7. CASE TakeBatch \/ RunCmd \/ Exit
    BY <1>7, TakeBatchKeeps, RunCmdKeeps, ExitKeeps
  <1>8. CASE Gone
    BY <1>1, <1>8 DEF Gone
  <1> QED
    BY <1>1, <1>2, <1>3, <1>4, <1>5, <1>6, <1>7, <1>8
       DEF Next, FrontCall, FrontStep, WorkerStep

LEMMA EmptiedHolds == FrontInv => DropDrains /\ Emptied
  <1> SUFFICES ASSUME FrontInv PROVE DropDrains /\ Emptied
    OBVIOUS
  <1>1. DropDrains
    BY DEF FrontInv, Waits, DropDrains
  <1>2. ASSUME image = <<>>, batch = <<>>, handing = <<>>, queue = <<>>, running = <<>>
        PROVE  screen = promised
    <2>1. Delivered(screen, <<>>, <<>>, sent) /\ Run(sent, <<>>, promised)
      BY <1>2, HandsEmpty DEF FrontInv, Queued, Collected
    <2> QED
      BY <2>1, DeliverNone, RunNothing
  <1> QED
    BY <1>1, <1>2 DEF Emptied

\* The threads and the channel keep their shape: who waits for whom, how much
\* is queued, and that every reply is the renderer's once it has caught up.
THEOREM GsFrontTypes == Spec => []TypeOK
  <1>1. Spec => []FrontInv
    BY FrontStarts, FrontKept, PTL DEF Spec
  <1>2. FrontInv => TypeOK
    BY DEF FrontInv
  <1> QED
    BY <1>1, <1>2, PTL

\* Whatever is loaded, a front that is gone has left nothing in the channel, and
\* with nothing in between the worker's renderer is the promised one.
THEOREM GsFrontEmptied == Spec => [](DropDrains /\ Emptied)
  <1>1. Spec => []FrontInv
    BY FrontStarts, FrontKept, PTL DEF Spec
  <1> QED
    BY <1>1, EmptiedHolds, PTL

(***************************************************************************)
(* The threaded front implements the inline one.                           *)
(***************************************************************************)
LEMMA SameRenderer ==
    /\ \A s, c : Inline!run_cmd(s, c) = run_cmd(s, c)
    /\ \A x : /\ Inline!Reg(x) = Reg(x) /\ Inline!Priv(x) = Priv(x) /\ Inline!Vblank(x) = Vblank(x)
              /\ Inline!Internal2x(x) = Internal2x(x) /\ Inline!Restore(x) = Restore(x)
    /\ Inline!ResetCmd = ResetCmd /\ Inline!BlankScreen = BlankScreen /\ Inline!NoAnswer = NoAnswer
  BY DEF Inline!run_cmd, run_cmd, Inline!Blank, Blank, Inline!Reg, Reg, Inline!Priv, Priv,
         Inline!Vblank, Vblank, Inline!Internal2x, Internal2x, Inline!Restore, Restore,
         Inline!ResetCmd, ResetCmd, Inline!BlankScreen, BlankScreen, Inline!NoFrame, NoFrame,
         Inline!NoAnswer, NoAnswer

LEMMA SameRegisters ==
    /\ Inline!ResetRegs = ResetRegs /\ Inline!Flag = Flag
    /\ \A r, f : Inline!raise_int(r, f) = raise_int(r, f)
    /\ \A r, fs : /\ Inline!csr_write(r, fs) = csr_write(r, fs)
                  /\ Inline!imr_write(r, fs) = imr_write(r, fs)
    /\ \A r : /\ Inline!csr_reset(r) = csr_reset(r) /\ Inline!vblank_regs(r) = vblank_regs(r)
              /\ Inline!OddRows(r) = OddRows(r)
  BY DEF Inline!ResetRegs, ResetRegs, Inline!Flag, Flag, Inline!raise_int, raise_int,
         Inline!csr_write, csr_write, Inline!imr_write, imr_write, Inline!csr_reset, csr_reset,
         Inline!vblank_regs, vblank_regs, Inline!OddRows, OddRows

\* A call finds the front with nothing but its queue between it and the worker.
LEMMA IdleDrained ==
    /\ Waits /\ pc \notin {"send", "resend"} => Drained = promised
    /\ pc' \in {"idle", "send"} /\ cont' = "idle" => Drained' = promised'
  BY DEF Waits, Drained

LEMMA PushDrained ==
    ASSUME Waits, pc = "idle", NEW cmd, NEW flush, NEW k, push(cmd, flush, k), k # "resend"
    PROVE  Drained' = run_cmd(Drained, cmd)
  <1>1. Drained = promised /\ cont = "idle"
    BY IdleDrained DEF Waits
  <1>2. promised' = run_cmd(promised, cmd) /\ pc' \in {k, "send"} /\ cont' \in {k, cont}
    BY DEF push
  <1>3. Drained' = promised'
    BY <1>1, <1>2 DEF Drained
  <1> QED
    BY <1>1, <1>2, <1>3

\* Dropping what is queued loses nothing a fresh or a loaded renderer shows.
LEMMA PushAloneDrained ==
    ASSUME TypeOK, Waits, pc = "idle", NEW cmd, NEW k, push_alone(cmd, k),
           cmd = ResetCmd \/ \E r \in RendererType : cmd = Restore(r)
    PROVE  promised' = run_cmd(Drained, cmd) /\ pc' = "send" /\ cont' = k
  <1>1. Drained = promised
    BY IdleDrained
  <1>2. promised' = run_cmd(sent, cmd) /\ pc' = "send" /\ cont' = k
    BY DEF push_alone
  <1>3. sent \in ScreenType /\ promised \in ScreenType /\ sent.latest = promised.latest
    BY DEF TypeOK, Waits
  <1>4. CASE cmd = ResetCmd
    BY <1>1, <1>2, <1>3, <1>4 DEF run_cmd, ResetCmd, ScreenType
  <1>5. ASSUME NEW r \in RendererType, cmd = Restore(r) PROVE promised' = run_cmd(Drained, cmd)
    <2>1. r # Corrupt
      BY RendererAssumption
    <2> QED
      BY <1>1, <1>2, <1>3, <1>5, <2>1 DEF run_cmd, Restore, ScreenType
  <1> QED
    BY <1>2, <1>4, <1>5

LEMMA InlineVarsAre ==
    UNCHANGED <<use, Drained, regs, internal_2x, answer, saved>> => UNCHANGED InlineVars
  BY DEF InlineVars, Inline!inline

\* The calls that draw or change what the display shows.
LEMMA DrawsInline ==
    ASSUME FrontInv, WriteReg \/ Hwreg \/ PrivWrite \/ SetInternal2x \/ VerticalBlank
    PROVE  Inline!Next
  <1>0. TypeOK /\ Waits
    BY DEF FrontInv
  <1>1. pc = "idle" /\ Drained = promised
    BY <1>0, IdleDrained DEF WriteReg, Hwreg, PrivWrite, SetInternal2x, VerticalBlank, Call
  <1>2. CASE WriteReg \/ Hwreg
    <2>1. \E w \in use.words : Drained' = run_cmd(Drained, Reg(w))
      <3>1. CASE WriteReg
        BY <1>0, <1>1, <3>1, PushDrained DEF WriteReg
      <3>2. CASE Hwreg
        <4>1. PICK w \in use.words : promised' = run_cmd(promised, Reg(w))
          BY <3>2 DEF Hwreg
        <4>2. pc' = "idle" /\ cont' = "idle"
          BY <1>0, <1>1, <3>2 DEF Hwreg, Waits
        <4> QED
          BY <1>1, <4>1, <4>2, IdleDrained
      <3> QED
        BY <1>2, <3>1, <3>2
    <2>2. "draw" \in use.calls /\ Inline!Room(1)
          /\ UNCHANGED <<use, regs, internal_2x, answer, saved>>
      BY <1>1, <1>2 DEF WriteReg, Hwreg, Call, Room, Inline!Room, ee
    <2>3. Inline!WriteReg
      BY <2>1, <2>2, SameRenderer DEF Inline!WriteReg
    <2> QED
      BY <2>3 DEF Inline!Next
  <1>3. CASE PrivWrite
    <2>1. \E d \in Disp : regs' = [regs EXCEPT !.disp = d] /\ Drained' = run_cmd(Drained, Priv(d))
      BY <1>0, <1>1, <1>3, PushDrained DEF PrivWrite
    <2>2. "display" \in use.calls /\ UNCHANGED <<use, internal_2x, answer, saved>>
      BY <1>3 DEF PrivWrite, Call
    <2>3. Inline!PrivWrite
      BY <2>1, <2>2, SameRenderer DEF Inline!PrivWrite
    <2> QED
      BY <2>3 DEF Inline!Next
  <1>4. CASE SetInternal2x
    <2>1. internal_2x' = ~internal_2x /\ Drained' = run_cmd(Drained, Internal2x(internal_2x'))
      BY <1>0, <1>1, <1>4, PushDrained DEF SetInternal2x
    <2>2. "2x" \in use.calls /\ UNCHANGED <<use, regs, answer, saved>>
      BY <1>4 DEF SetInternal2x, Call
    <2>3. Inline!SetInternal2x
      BY <2>1, <2>2, SameRenderer DEF Inline!SetInternal2x
    <2> QED
      BY <2>3 DEF Inline!Next
  <1>5. CASE VerticalBlank
    <2>1. /\ "vblank" \in use.calls /\ regs' = vblank_regs(regs)
          /\ UNCHANGED <<use, internal_2x, answer, saved>>
      BY <1>5 DEF VerticalBlank, Call
    <2>2. CASE use.publish
      <3>1. Drained' = run_cmd(Drained, Vblank(OddRows(regs')))
        BY <1>0, <1>1, <1>5, <2>2, PushDrained DEF VerticalBlank
      <3>2. Inline!VerticalBlank
        BY <2>1, <2>2, <3>1, SameRenderer, SameRegisters DEF Inline!VerticalBlank
      <3> QED
        BY <3>2 DEF Inline!Next
    <2>3. CASE ~use.publish
      <3>1. pc' \in {"idle", "send"} /\ cont' = "idle" /\ promised' = promised
        BY <1>5, <2>3 DEF VerticalBlank
      <3>2. Drained' = Drained
        BY <1>1, <3>1, IdleDrained
      <3>3. Inline!VerticalBlank
        BY <2>1, <2>3, <3>2, SameRegisters DEF Inline!VerticalBlank
      <3> QED
        BY <3>3 DEF Inline!Next
    <2> QED
      BY <2>2, <2>3
  <1> QED
    BY <1>2, <1>3, <1>4, <1>5

\* The calls that stay in the front.
LEMMA RegistersInline ==
    ASSUME FrontInv, RaiseInt \/ CsrImrWrite \/ TakeInt
    PROVE  Inline!Next
  <1>1. UNCHANGED <<use, internal_2x, answer, saved, front, thread, history>>
    BY RegisterCallsKeep
  <1>2. UNCHANGED <<use, Drained, internal_2x, answer, saved>>
    BY <1>1 DEF Drained, front, history
  <1>3. CASE RaiseInt
    <2>1. Inline!RaiseInt
      BY <1>2, <1>3, SameRegisters DEF RaiseInt, Inline!RaiseInt, Call
    <2> QED
      BY <2>1 DEF Inline!Next
  <1>4. CASE CsrImrWrite
    <2>1. Inline!CsrImrWrite
      BY <1>2, <1>4, SameRegisters DEF CsrImrWrite, Inline!CsrImrWrite, Call
    <2> QED
      BY <2>1 DEF Inline!Next
  <1>5. CASE TakeInt
    <2>1. Inline!TakeInt
      BY <1>2, <1>5 DEF TakeInt, Inline!TakeInt
    <2> QED
      BY <2>1 DEF Inline!Next
  <1> QED
    BY <1>3, <1>4, <1>5

LEMMA LoadsInline == ASSUME FrontInv, RestoreState \/ Reset PROVE Inline!Next
  <1>0. TypeOK /\ Waits
    BY DEF FrontInv
  <1>1. CASE RestoreState
    <2>1. /\ "restore" \in use.calls /\ pc = "idle" /\ saved # NoAnswer
          /\ regs' = saved.regs /\ internal_2x' = saved.internal_2x
          /\ push_alone(Restore(saved.renderer), "idle") /\ UNCHANGED <<use, answer, saved>>
      BY <1>1 DEF RestoreState, RestoreFrom, Call
    <2>2. saved.renderer \in RendererType
      BY <2>1, SavedFacts
    <2>3. promised' = run_cmd(Drained, Restore(saved.renderer)) /\ pc' = "send" /\ cont' = "idle"
      BY <1>0, <2>1, <2>2, PushAloneDrained
    <2>4. Drained' = promised'
      BY <2>3, IdleDrained
    <2>5. Inline!RestoreState
      BY <2>1, <2>3, <2>4, SameRenderer DEF Inline!RestoreState
    <2> QED
      BY <2>5 DEF Inline!Next
  <1>2. CASE Reset
    <2>1. /\ "reset" \in use.calls /\ pc = "idle" /\ regs' = ResetRegs
          /\ push_alone(ResetCmd, "resend") /\ UNCHANGED <<use, internal_2x, answer, saved>>
      BY <1>2 DEF Reset, Call
    <2>2. promised' = run_cmd(Drained, ResetCmd) /\ pc' = "send" /\ cont' = "resend"
      BY <1>0, <2>1, PushAloneDrained
    <2>3. Drained' = IF internal_2x THEN run_cmd(promised', Internal2x(TRUE)) ELSE promised'
      BY <2>1, <2>2 DEF Drained
    <2>4. Inline!Reset
      BY <2>1, <2>2, <2>3, SameRenderer, SameRegisters DEF Inline!Reset
    <2> QED
      BY <2>4 DEF Inline!Next
  <1> QED
    BY <1>1, <1>2

\* A reply takes effect when the front receives it.
LEMMA ReceiveInline == ASSUME FrontInv, Receive PROVE Inline!Next
  <1>0. TypeOK /\ Waits /\ Replies
    BY DEF FrontInv
  <1>1. /\ pc \in {"read", "snapshot"} /\ pc' = "idle" /\ reply = <<promised.gs>>
        /\ UNCHANGED <<use, regs, internal_2x, cont, promised>>
    BY <1>0 DEF Receive, Replies, history
  <1>2. Drained = promised /\ Drained' = promised /\ pc \in use.calls /\ Head(reply) = Drained.gs
    BY <1>0, <1>1, IdleDrained DEF Waits
  <1>3. CASE pc = "read"
    <2>1. Inline!Read
      BY <1>1, <1>2, <1>3 DEF Receive, Inline!Read
    <2> QED
      BY <2>1 DEF Inline!Next
  <1>4. CASE pc = "snapshot"
    <2>1. Inline!Snapshot
      BY <1>1, <1>2, <1>4 DEF Receive, Inline!Snapshot
    <2> QED
      BY <2>1 DEF Inline!Next
  <1> QED
    BY <1>1, <1>3, <1>4

\* Asking, handing over and the worker's own steps are not seen.
LEMMA HiddenSteps ==
    ASSUME FrontInv,
           Read \/ Snapshot \/ Drop \/ Resend \/ Send \/ WorkerStep \/ UNCHANGED vars
    PROVE  UNCHANGED InlineVars
  <1>0. TypeOK /\ Waits
    BY DEF FrontInv
  <1>1. UNCHANGED <<use, regs, internal_2x, answer, saved>>
    BY DEF Read, Snapshot, Drop, Resend, Send, WorkerStep, TakeBatch, RunCmd, Exit, vars, ee
  <1>2. CASE Read \/ Snapshot
    <2>1. PICK k \in {"read", "snapshot"} : pc = "idle" /\ push(Reply, TRUE, k)
      BY <1>2 DEF Read, Snapshot, Call
    <2>2. Drained' = run_cmd(Drained, Reply)
      BY <1>0, <2>1, PushDrained
    <2>3. Drained' = Drained
      BY <2>2 DEF run_cmd, Reply
    <2> QED
      BY <1>1, <2>3, InlineVarsAre
  <1>3. CASE Drop
    <2>1. pc = "idle" /\ pc' = "dropped" /\ cont = "idle" /\ UNCHANGED <<cont, promised>>
      BY <1>0, <1>3 DEF Drop, Call, Waits, history
    <2>2. Drained' = Drained
      BY <2>1 DEF Drained
    <2> QED
      BY <1>1, <2>2, InlineVarsAre
  <1>4. CASE Resend
    <2>1. pc = "resend" /\ cont = "idle"
      BY <1>0, <1>4 DEF Resend, Waits
    <2>2. CASE internal_2x
      <3>1. /\ promised' = run_cmd(promised, Internal2x(TRUE))
            /\ pc' \in {"idle", "send"} /\ cont' = "idle"
        BY <1>4, <2>1, <2>2 DEF Resend, push
      <3>2. Drained' = Drained
        BY <2>1, <2>2, <3>1 DEF Drained
      <3> QED
        BY <1>1, <3>2, InlineVarsAre
    <2>3. CASE ~internal_2x
      <3>1. promised' = promised
        BY <1>4, <2>3 DEF Resend, history
      <3>2. Drained' = Drained
        BY <1>1, <2>3, <3>1 DEF Drained
      <3> QED
        BY <1>1, <3>2, InlineVarsAre
    <2> QED
      BY <2>2, <2>3
  <1>5. CASE Send
    <2>1. pc = "send" /\ pc' = cont /\ cont' = "idle" /\ promised' = promised
      BY <1>5 DEF Send, history
    <2>2. Drained' = Drained
      BY <1>1, <2>1 DEF Drained
    <2> QED
      BY <1>1, <2>2, InlineVarsAre
  <1>6. CASE WorkerStep \/ UNCHANGED vars
    <2>1. UNCHANGED <<pc, cont, promised>>
      BY <1>6 DEF WorkerStep, TakeBatch, RunCmd, Exit, vars, front, history
    <2>2. Drained' = Drained
      BY <1>1, <2>1 DEF Drained
    <2> QED
      BY <1>1, <2>2, InlineVarsAre
  <1> QED
    BY <1>2, <1>3, <1>4, <1>5, <1>6

LEMMA FrontRefines == FrontInv /\ [Next]_vars => [Inline!Next \/ RejectState]_InlineVars
  <1> SUFFICES ASSUME FrontInv, [Next]_vars
               PROVE  Inline!Next \/ RejectState \/ UNCHANGED InlineVars
    OBVIOUS
  <1>1. CASE WriteReg \/ Hwreg \/ PrivWrite \/ SetInternal2x \/ VerticalBlank
    BY <1>1, DrawsInline
  <1>2. CASE RaiseInt \/ CsrImrWrite \/ TakeInt
    BY <1>2, RegistersInline
  <1>3. CASE RestoreState \/ Reset
    BY <1>3, LoadsInline
  <1>4. CASE Receive
    BY <1>4, ReceiveInline
  <1>5. CASE Read \/ Snapshot \/ Drop \/ Resend \/ Send \/ WorkerStep \/ UNCHANGED vars
    BY <1>5, HiddenSteps
  <1>6. CASE Gone
    BY <1>5, <1>6 DEF Gone
  <1> QED
    BY <1>1, <1>2, <1>3, <1>4, <1>5, <1>6 DEF Next, FrontCall, FrontStep

LEMMA FrontStartsInline == Init => Inline!Init
  BY SameRenderer, SameRegisters DEF Init, Inline!Init, Drained

\* Every call on the threaded front has the effect it has with the renderer on
\* the calling thread, however the worker is scheduled and whatever the sizes
\* of the batches and of the channel.
THEOREM GsFrontImplements == Spec => ImplementsInline
  <1>1. Spec => []FrontInv
    BY FrontStarts, FrontKept, PTL DEF Spec
  <1> QED
    BY <1>1, FrontStartsInline, FrontRefines, PTL DEF Spec, ImplementsInline


(***************************************************************************)
(* The front's copies.  That they agree is a fact about the inline front,  *)
(* as long as no load replaces the registers and not the renderer.         *)
(***************************************************************************)
LEMMA RunCmdDisplay ==
    ASSUME NEW s \in ScreenType
    PROVE  /\ \A w : /\ run_cmd(s, Reg(w)).gs.disp = s.gs.disp
                     /\ run_cmd(s, Reg(w)).gs.twox = s.gs.twox
           /\ \A d : /\ run_cmd(s, Priv(d)).gs.disp = d
                     /\ run_cmd(s, Priv(d)).gs.twox = s.gs.twox
           /\ \A b : /\ run_cmd(s, Internal2x(b)).gs.disp = s.gs.disp
                     /\ run_cmd(s, Internal2x(b)).gs.twox = b
           /\ \A o : run_cmd(s, Vblank(o)).gs = s.gs
           /\ \A r \in RendererType : run_cmd(s, Restore(r)).gs = r
           /\ run_cmd(s, ResetCmd).gs = Blank /\ run_cmd(s, ResetCmd) \in ScreenType
  <1>0. s.gs \in RendererType /\ s = [gs |-> s.gs, latest |-> s.latest]
        /\ s.gs = [drawn |-> s.gs.drawn, disp |-> s.gs.disp, twox |-> s.gs.twox]
    BY DEF ScreenType, RendererType
  <1>1. \A w : run_cmd(s, Reg(w)).gs.disp = s.gs.disp /\ run_cmd(s, Reg(w)).gs.twox = s.gs.twox
    BY <1>0 DEF run_cmd, Reg
  <1>2. \A d : run_cmd(s, Priv(d)).gs.disp = d /\ run_cmd(s, Priv(d)).gs.twox = s.gs.twox
    BY <1>0 DEF run_cmd, Priv
  <1>3. \A b : /\ run_cmd(s, Internal2x(b)).gs.disp = s.gs.disp
               /\ run_cmd(s, Internal2x(b)).gs.twox = b
    BY <1>0 DEF run_cmd, Internal2x
  <1>4. \A o : run_cmd(s, Vblank(o)).gs = s.gs
    BY <1>0 DEF run_cmd, Vblank
  <1>5. \A r \in RendererType : run_cmd(s, Restore(r)).gs = r
    BY <1>0, RendererAssumption DEF run_cmd, Restore
  <1>6. run_cmd(s, ResetCmd).gs = Blank
    BY <1>0 DEF run_cmd, ResetCmd
  <1>7. run_cmd(s, ResetCmd) \in ScreenType
    BY RunCmdType, CommandsMade
  <1> QED
    BY <1>1, <1>2, <1>3, <1>4, <1>5, <1>6, <1>7

LEMMA DrainedType == TypeOK => Drained \in ScreenType
  <1>1. TypeOK => run_cmd(promised, Internal2x(TRUE)) \in ScreenType
    BY RunCmdType, CommandsMade DEF TypeOK
  <1> QED
    BY <1>1 DEF Drained, TypeOK

LEMMA CopiesKept == ASSUME FrontInv, Copies, Inline!Next PROVE Copies'
  <1>0. /\ Drained \in ScreenType /\ regs \in RegsType
        /\ Drained.gs.disp = regs.disp /\ Drained.gs.twox = internal_2x
        /\ saved # NoAnswer => /\ saved.renderer.disp = saved.regs.disp
                               /\ saved.renderer.twox = saved.internal_2x
    BY DrainedType DEF FrontInv, TypeOK, Copies, CopiesAgree
  <1>1. ASSUME UNCHANGED saved, Drained'.gs.disp = regs'.disp, Drained'.gs.twox = internal_2x'
        PROVE  Copies'
    BY <1>0, <1>1 DEF Copies, CopiesAgree
  <1>2. CASE Inline!WriteReg
    <2>1. PICK w \in use.words : Drained' = run_cmd(Drained, Reg(w))
      BY <1>2, SameRenderer DEF Inline!WriteReg
    <2>2. UNCHANGED <<regs, internal_2x, saved>>
      BY <1>2 DEF Inline!WriteReg
    <2> QED
      BY <1>0, <1>1, <2>1, <2>2, RunCmdDisplay
  <1>3. CASE Inline!RaiseInt \/ Inline!CsrImrWrite \/ Inline!TakeInt
    <2>1. regs'.disp = regs.disp
      <3>1. CASE Inline!RaiseInt
        <4>1. PICK f \in Flag : regs' = raise_int(regs, f)
          BY <3>1, SameRegisters DEF Inline!RaiseInt, Flag
        <4> QED
          BY <1>0, <4>1, RegsTypes
      <3>2. CASE Inline!CsrImrWrite
        <4>1. PICK fs \in SUBSET Flag : \/ regs' = csr_write(regs, fs)
                                        \/ regs' = imr_write(regs, fs)
                                        \/ regs' = csr_reset(regs)
          BY <3>2, SameRegisters DEF Inline!CsrImrWrite
        <4>2. CASE regs' = csr_write(regs, fs)
          BY <1>0, <4>2, RegsTypes
        <4>3. CASE regs' = imr_write(regs, fs)
          BY <1>0, <4>3, RegsTypes
        <4>4. CASE regs' = csr_reset(regs)
          BY <1>0, <4>4, RegsTypes
        <4> QED
          BY <4>1, <4>2, <4>3, <4>4
      <3>3. CASE Inline!TakeInt
        BY <1>0, <3>3 DEF Inline!TakeInt, RegsType
      <3> QED
        BY <1>3, <3>1, <3>2, <3>3
    <2>2. UNCHANGED <<Drained, internal_2x, saved>>
      BY <1>3 DEF Inline!RaiseInt, Inline!CsrImrWrite, Inline!TakeInt
    <2> QED
      BY <1>0, <1>1, <2>1, <2>2
  <1>4. CASE Inline!PrivWrite
    <2>1. PICK d \in Disp : Drained' = run_cmd(Drained, Priv(d)) /\ regs' = [regs EXCEPT !.disp = d]
      BY <1>4, SameRenderer DEF Inline!PrivWrite
    <2>2. UNCHANGED <<internal_2x, saved>> /\ regs'.disp = d
      BY <1>0, <1>4, <2>1 DEF Inline!PrivWrite, RegsType
    <2> QED
      BY <1>0, <1>1, <2>1, <2>2, RunCmdDisplay
  <1>5. CASE Inline!VerticalBlank
    <2>1. UNCHANGED <<internal_2x, saved>> /\ regs' = vblank_regs(regs)
      BY <1>5, SameRegisters DEF Inline!VerticalBlank
    <2>2. Drained'.gs = Drained.gs
      <3>1. Drained' = Drained \/ Drained' = run_cmd(Drained, Vblank(OddRows(regs')))
        BY <1>5, SameRenderer, SameRegisters DEF Inline!VerticalBlank
      <3> QED
        BY <1>0, <3>1, RunCmdDisplay
    <2> QED
      BY <1>0, <1>1, <2>1, <2>2, RegsTypes
  <1>6. CASE Inline!SetInternal2x
    <2>1. UNCHANGED <<regs, saved>> /\ Drained' = run_cmd(Drained, Internal2x(internal_2x'))
      BY <1>6, SameRenderer DEF Inline!SetInternal2x
    <2> QED
      BY <1>0, <1>1, <2>1, RunCmdDisplay
  <1>7. CASE Inline!Read
    BY <1>0, <1>1, <1>7 DEF Inline!Read
  <1>8. CASE Inline!Snapshot
    <2>1. saved' = [renderer |-> Drained.gs, regs |-> regs, internal_2x |-> internal_2x]
          /\ UNCHANGED <<Drained, regs, internal_2x>>
      BY <1>8 DEF Inline!Snapshot
    <2> QED
      BY <1>0, <2>1 DEF Copies, CopiesAgree
  <1>9. CASE Inline!RestoreState
    <2>1. /\ saved # NoAnswer /\ regs' = saved.regs /\ internal_2x' = saved.internal_2x
          /\ Drained' = run_cmd(Drained, Restore(saved.renderer)) /\ UNCHANGED saved
      BY <1>9, SameRenderer DEF Inline!RestoreState
    <2>2. Drained'.gs = saved.renderer
      BY <1>0, <2>1, SavedFacts, RunCmdDisplay
    <2> QED
      BY <1>0, <1>1, <2>1, <2>2
  <1>10. CASE Inline!RejectState
    BY <1>0, <1>1, <1>10 DEF Inline!RejectState, Inline!inline
  <1>11. CASE Inline!Reset
    <2> DEFINE s == run_cmd(Drained, ResetCmd)
    <2>1. /\ regs' = ResetRegs /\ UNCHANGED <<internal_2x, saved>>
          /\ Drained' = IF internal_2x THEN run_cmd(s, Internal2x(TRUE)) ELSE s
      BY <1>11, SameRenderer, SameRegisters DEF Inline!Reset
    <2>2. s \in ScreenType /\ s.gs = Blank
      BY <1>0, RunCmdDisplay
    <2>3. internal_2x \in BOOLEAN
      BY DEF FrontInv, TypeOK
    <2> HIDE DEF s
    <2>4. Drained'.gs.disp = Disp0 /\ Drained'.gs.twox = internal_2x
      <3>1. s.gs.disp = Disp0 /\ s.gs.twox = FALSE
        BY <2>2 DEF Blank
      <3>2. CASE internal_2x = TRUE
        <4>1. Drained' = run_cmd(s, Internal2x(TRUE))
          BY <2>1, <3>2
        <4>2. Drained'.gs.disp = s.gs.disp /\ Drained'.gs.twox = TRUE
          BY <2>2, <4>1, RunCmdDisplay
        <4> QED
          BY <3>1, <3>2, <4>2
      <3>3. CASE internal_2x = FALSE
        <4>1. Drained' = s
          BY <2>1, <3>3
        <4> QED
          BY <3>1, <3>3, <4>1
      <3> QED
        BY <2>3, <3>2, <3>3
    <2> QED
      BY <1>1, <2>1, <2>4 DEF ResetRegs
  <1> QED
    BY <1>2, <1>3, <1>4, <1>5, <1>6, <1>7, <1>8, <1>9, <1>10, <1>11 DEF Inline!Next

LEMMA CaughtUpHolds == FrontInv /\ Copies => CaughtUp
  BY EmptiedHolds DEF Copies, CaughtUp

\* As long as no load is rejected, the renderer that has caught up agrees with
\* what the front tells the EE and the host, a front that is gone has left
\* nothing in the channel, and with nothing in between the two are the same.
THEOREM GsFrontCaughtUp ==
    ASSUME \A u \in Uses : "reject" \notin u.calls
    PROVE  Spec => []CaughtUp
  <1>1. Init => Copies
    <2> SUFFICES ASSUME Init PROVE Copies
      OBVIOUS
    <2>1. /\ pc = "idle" /\ cont = "idle" /\ promised = BlankScreen /\ regs = ResetRegs
          /\ internal_2x = FALSE /\ saved = NoAnswer
      BY DEF Init
    <2>2. Drained = BlankScreen
      BY <2>1 DEF Drained
    <2>3. BlankScreen.gs.disp = Disp0 /\ BlankScreen.gs.twox = FALSE /\ ResetRegs.disp = Disp0
      BY DEF BlankScreen, Blank, ResetRegs
    <2> QED
      BY <2>1, <2>2, <2>3 DEF Copies, CopiesAgree
  <1>2. FrontInv /\ Copies /\ [Next]_vars => Copies'
    <2> SUFFICES ASSUME FrontInv, Copies, [Next]_vars PROVE Copies'
      OBVIOUS
    <2>1. ~RejectState
      BY DEF RejectState, Call, FrontInv, Waits
    <2>2. CASE Inline!Next
      BY <2>2, CopiesKept
    <2>3. CASE UNCHANGED InlineVars
      <3>1. UNCHANGED <<Drained, regs, internal_2x, saved>>
        BY <2>3 DEF InlineVars, Inline!inline
      <3> QED
        BY <3>1 DEF Copies, CopiesAgree
    <2> QED
      BY <2>1, <2>2, <2>3, FrontRefines
  <1>3. Spec => [](FrontInv /\ Copies)
    BY FrontStarts, FrontKept, <1>1, <1>2, PTL DEF Spec
  <1> QED
    BY <1>3, CaughtUpHolds, PTL

=============================================================================
