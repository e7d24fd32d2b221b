------------------------------- MODULE GsFront -------------------------------
(***************************************************************************)
(* The GS front with the renderer on a worker thread (gs/front.rs).  The   *)
(* front queues commands in a batch, a run of HWREG words in `image' ahead *)
(* of it; full batches cross a bounded channel.  The worker takes a batch  *)
(* and executes it command by command, concurrently with the front.  A     *)
(* read, a snapshot or a full channel blocks the front.                    *)
(*                                                                         *)
(* A call is made when pc = "idle"; it may leave the front at "send" with  *)
(* the batch it is handing over, at "wait" for a reply, or at "resend"     *)
(* between the two commands of a reset.                                    *)
(***************************************************************************)
EXTENDS GsRenderer, FiniteSetsExt

CONSTANTS
    Uses,                      \* see GsInline
    BATCH_MAX, IMAGE_RUN_MAX, QUEUE_DEPTH

ASSUME FrontAssumption ==
    /\ BATCH_MAX \in Nat \ {0} /\ IMAGE_RUN_MAX \in Nat \ {0} /\ QUEUE_DEPTH \in Nat \ {0}
    /\ \A u \in Uses : /\ u.words \subseteq Word /\ u.writes \in Nat
                       /\ u.publish \in BOOLEAN

VARIABLES
    use, regs, internal_2x, answer, saved,
    image, batch,              \* queued in the front
    handing,                   \* the batch being sent
    pc, cont,                  \* where the front is; where it goes once it has sent
    queue, running,            \* the channel; what is left of the worker's batch
    screen,                    \* the worker's renderer and the frame slot
    reply,                     \* the reply channel
    worker,                    \* "running", or "gone" once the thread has returned
    promised,                  \* history: the renderer with every accepted command executed
    sent                       \* history: with every command handed over executed

history == <<promised, sent>>
front  == <<image, batch, handing, pc, cont>>
thread == <<queue, running, screen, reply, worker>>
ee     == <<use, regs, internal_2x, answer, saved>>
vars   == <<ee, front, thread, history>>

NoAnswer == [none |-> TRUE]
Returns  == {"idle", "read", "snapshot", "resend"}

Init ==
    /\ use \in Uses
    /\ regs = ResetRegs /\ internal_2x = FALSE
    /\ answer = NoAnswer /\ saved = NoAnswer
    /\ image = <<>> /\ batch = <<>> /\ handing = <<>>
    /\ pc = "idle" /\ cont = "idle"
    /\ queue = <<>> /\ running = <<>> /\ screen = BlankScreen
    /\ reply = <<>> /\ worker = "running"
    /\ promised = BlankScreen /\ sent = BlankScreen

-----------------------------------------------------------------------------
\* What the front holds, the run of HWREG words closed.
Collected(b, ws) == IF ws = <<>> THEN b ELSE Append(b, Image(ws))

\* The log once everything has been executed stays within the bound.
Room(n) == Len(promised.gs.drawn) + n =< use.writes

\* push, and flush if the batch is full or the call asks for it; the front
\* goes on at k.
push(cmd, flush, k) ==
    LET b == Append(Collected(batch, image), cmd)
    IN /\ image' = <<>> /\ promised' = run_cmd(promised, cmd)
       /\ IF flush \/ Len(b) >= BATCH_MAX
          THEN handing' = b /\ batch' = <<>> /\ pc' = "send" /\ cont' = k /\ sent' = promised'
          ELSE batch' = b /\ pc' = k /\ UNCHANGED <<handing, cont, sent>>

\* The same from an emptied batch (reset, restore).
push_alone(cmd, k) ==
    /\ image' = <<>> /\ batch' = <<>>
    /\ handing' = <<cmd>> /\ pc' = "send" /\ cont' = k
    /\ sent' = run_cmd(sent, cmd) /\ promised' = sent'

Call(c) == c \in use.calls /\ pc = "idle" /\ worker = "running"

-----------------------------------------------------------------------------
(***************************************************************************)
(* Calls from the GIF.                                                     *)
(***************************************************************************)
WriteReg ==
    /\ Call("draw") /\ Room(1)
    /\ \E w \in use.words : push(Reg(w), FALSE, "idle")
    /\ UNCHANGED <<ee, thread>>

\* HWREG words are collected into runs; a full run moves to the batch.
BadHwreg ==
    /\ Call("draw") /\ Room(1)
    /\ \E w \in use.words :
          LET ws == Append(image, w)
          IN /\ IF Len(ws) > IMAGE_RUN_MAX
                THEN image' = <<>> /\ batch' = Append(batch, Image(ws))
                ELSE image' = ws /\ UNCHANGED batch
             /\ promised' = run_cmd(promised, Reg(w))
    /\ UNCHANGED <<ee, handing, pc, cont, thread, sent>>
Hwreg ==
    /\ Call("draw") /\ Room(1)
    /\ \E w \in use.words :
          LET ws == Append(image, w)
          IN /\ IF Len(ws) >= IMAGE_RUN_MAX
                THEN image' = <<>> /\ batch' = Append(batch, Image(ws))
                ELSE image' = ws /\ UNCHANGED batch
             /\ promised' = run_cmd(promised, Reg(w))
    /\ UNCHANGED <<ee, handing, pc, cont, thread, sent>>

RaiseInt ==
    /\ Call("signal")
    /\ \E f \in {"SIGNAL", "FINISH"} : regs' = raise_int(regs, f)
    /\ UNCHANGED <<use, internal_2x, answer, saved, front, thread, history>>

(***************************************************************************)
(* Privileged registers.                                                   *)
(***************************************************************************)
BadPrivWrite ==
    /\ Call("display")
    /\ \E d \in Disp : regs' = [regs EXCEPT !.disp = d]
    /\ UNCHANGED <<use, internal_2x, answer, saved, front, thread, history>>
PrivWrite ==
    /\ Call("display")
    /\ \E d \in Disp : regs' = [regs EXCEPT !.disp = d] /\ push(Priv(d), FALSE, "idle")
    /\ UNCHANGED <<use, internal_2x, answer, saved, thread>>

CsrImrWrite ==
    /\ Call("csr")
    /\ \/ \E fs \in SUBSET Flag : regs' = csr_write(regs, fs) \/ regs' = imr_write(regs, fs)
       \/ regs' = csr_reset(regs)
    /\ UNCHANGED <<use, internal_2x, answer, saved, front, thread, history>>

TakeInt ==
    /\ pc = "idle" /\ worker = "running" /\ regs.intc_pending
    /\ regs' = [regs EXCEPT !.intc_pending = FALSE]
    /\ UNCHANGED <<use, internal_2x, answer, saved, front, thread, history>>

\* Vertical blank flushes whatever has been queued.
BadVerticalBlank ==
    /\ Call("vblank")
    /\ regs' = vblank_regs(regs)
    /\ IF use.publish THEN push(Vblank(OddRows(regs')), TRUE, "idle")
       ELSE /\ batch' = <<>> /\ handing' = batch /\ UNCHANGED image
            /\ pc' = (IF handing' = <<>> THEN "idle" ELSE "send") /\ cont' = "idle"
            /\ sent' = promised /\ UNCHANGED promised
    /\ UNCHANGED <<use, internal_2x, answer, saved, thread>>
VerticalBlank ==
    /\ Call("vblank")
    /\ regs' = vblank_regs(regs)
    /\ IF use.publish THEN push(Vblank(OddRows(regs')), TRUE, "idle")
       ELSE /\ image' = <<>> /\ batch' = <<>> /\ handing' = Collected(batch, image)
            /\ pc' = (IF handing' = <<>> THEN "idle" ELSE "send") /\ cont' = "idle"
            /\ sent' = promised /\ UNCHANGED promised
    /\ UNCHANGED <<use, internal_2x, answer, saved, thread>>

SetInternal2x ==
    /\ Call("2x")
    /\ internal_2x' = ~internal_2x
    /\ push(Internal2x(internal_2x'), FALSE, "idle")
    /\ UNCHANGED <<use, regs, answer, saved, thread>>

(***************************************************************************)
(* Synchronous reads: the reply channel makes the round trip.              *)
(***************************************************************************)
Read ==
    /\ Call("read")
    /\ push(Reply, TRUE, "read")
    /\ UNCHANGED <<ee, thread>>

Snapshot ==
    /\ Call("snapshot")
    /\ push(Reply, TRUE, "snapshot")
    /\ UNCHANGED <<ee, thread>>

Receive ==
    /\ pc \in {"read", "snapshot"} /\ reply # <<>>
    /\ reply' = <<>> /\ pc' = "idle"
    /\ IF pc = "read" THEN answer' = Head(reply) /\ UNCHANGED saved
       ELSE /\ saved' = [renderer |-> Head(reply), regs |-> regs, internal_2x |-> internal_2x]
            /\ UNCHANGED answer
    /\ UNCHANGED <<use, regs, internal_2x, image, batch, handing, cont, queue, running, screen,
                   worker, history>>

(***************************************************************************)
(* Power cycle and state load: what is queued is dropped, the rest of the  *)
(* pipeline is left to run.                                                *)
(***************************************************************************)
RestoreFrom(blob) ==
    /\ regs' = saved.regs /\ internal_2x' = saved.internal_2x
    /\ push_alone(Restore(blob), "idle")
    /\ UNCHANGED <<use, answer, saved, thread>>

BadRestoreState ==
    /\ Call("restore") /\ saved # NoAnswer
    /\ regs' = saved.regs /\ internal_2x' = saved.internal_2x
    /\ batch' = <<>> /\ handing' = <<Restore(saved.renderer)>> /\ pc' = "send" /\ cont' = "idle"
    /\ sent' = run_cmd(sent, Restore(saved.renderer)) /\ promised' = sent'
    /\ UNCHANGED <<use, image, answer, saved, thread>>
RestoreState ==
    /\ Call("restore") /\ saved # NoAnswer
    /\ RestoreFrom(saved.renderer)

\* The worker decodes: the call cannot fail here.
RejectState ==
    /\ Call("reject") /\ saved # NoAnswer
    /\ RestoreFrom(Corrupt)

Reset ==
    /\ Call("reset")
    /\ regs' = ResetRegs
    /\ push_alone(ResetCmd, "resend")
    /\ UNCHANGED <<use, internal_2x, answer, saved, thread>>

\* A fresh renderer draws at 1x: the switch is sent again if it was on.
Resend ==
    /\ pc = "resend"
    /\ IF internal_2x THEN push(Internal2x(TRUE), FALSE, "idle")
       ELSE pc' = "idle" /\ UNCHANGED <<image, batch, handing, cont, history>>
    /\ UNCHANGED <<ee, thread>>

(***************************************************************************)
(* The channel.                                                            *)
(***************************************************************************)
Send ==
    /\ pc = "send" /\ Len(queue) < QUEUE_DEPTH
    /\ queue' = Append(queue, handing) /\ handing' = <<>>
    /\ pc' = cont /\ cont' = "idle"
    /\ UNCHANGED <<ee, image, batch, running, screen, reply, worker, history>>

\* Drop closes the channel and joins the thread.
Drop ==
    /\ Call("drop")
    /\ pc' = "dropped"
    /\ UNCHANGED <<ee, image, batch, handing, cont, thread, history>>

(***************************************************************************)
(* The worker.                                                             *)
(***************************************************************************)
TakeBatch ==
    /\ running = <<>> /\ queue # <<>>
    /\ running' = Head(queue) /\ queue' = Tail(queue)
    /\ UNCHANGED <<ee, front, screen, reply, worker, history>>

RunCmd ==
    /\ running # <<>>
    /\ running' = Tail(running)
    /\ screen' = run_cmd(screen, Head(running))
    /\ reply' = IF Head(running).kind = "reply" THEN Append(reply, screen.gs) ELSE reply
    /\ UNCHANGED <<ee, front, queue, worker, history>>

BadExit ==
    /\ pc = "dropped" /\ worker = "running" /\ running = <<>>
    /\ worker' = "gone"
    /\ UNCHANGED <<ee, front, queue, running, screen, reply, history>>
BadExitStays ==
    /\ pc = "dropped" /\ worker = "running" /\ running = <<>> /\ queue = <<>>
    /\ UNCHANGED vars
Exit ==
    /\ pc = "dropped" /\ worker = "running" /\ running = <<>> /\ queue = <<>>
    /\ worker' = "gone"
    /\ UNCHANGED <<ee, front, queue, running, screen, reply, history>>

\* The front is gone.
Gone == worker = "gone" /\ UNCHANGED vars

FrontCall ==
    \/ WriteReg \/ Hwreg \/ RaiseInt \/ PrivWrite \/ CsrImrWrite \/ TakeInt
    \/ VerticalBlank \/ SetInternal2x
    \/ Read \/ Snapshot \/ RestoreState \/ RejectState \/ Reset \/ Drop

FrontStep  == Resend \/ Send \/ Receive
WorkerStep == TakeBatch \/ RunCmd \/ Exit

Next == FrontCall \/ FrontStep \/ WorkerStep \/ Gone

Spec == Init /\ [][Next]_vars

\* Neither thread stops in the middle of a call or with work in front of it;
\* nothing makes the machine call the front.
FairSpec == Spec /\ WF_vars(FrontStep) /\ WF_vars(WorkerStep)

\* The machine keeps reaching its vertical blanks, whatever else it calls.
FrameSpec == FairSpec /\ SF_vars(VerticalBlank)

-----------------------------------------------------------------------------
(***************************************************************************)
(* Properties.                                                             *)
(***************************************************************************)
Commands == [kind : {"reg"}, word : Word] \cup [kind : {"image"}, words : Seq(Word)]
              \cup [kind : {"priv"}, disp : Disp] \cup [kind : {"vblank"}, odd : BOOLEAN]
              \cup [kind : {"reply", "reset"}] \cup [kind : {"2x"}, on : BOOLEAN]
              \cup [kind : {"restore"}, state : RendererType \cup {Corrupt}]

\* The shape of the state, and who waits for whom: the front is sending when it
\* has a batch in its hands, and a reply is there only while the front waits.
TypeOK ==
    /\ regs \in RegsType /\ internal_2x \in BOOLEAN
    /\ image \in Seq(Word) /\ Len(image) < IMAGE_RUN_MAX
    /\ batch \in Seq(Commands) /\ handing \in Seq(Commands)
    /\ pc \in Returns \cup {"send", "dropped"} /\ cont \in Returns
    /\ queue \in Seq(Seq(Commands)) /\ Len(queue) =< QUEUE_DEPTH
    /\ running \in Seq(Commands)
    /\ screen \in ScreenType /\ promised \in ScreenType /\ sent \in ScreenType
    /\ worker \in {"running", "gone"}
    /\ handing # <<>> <=> pc = "send"
    /\ reply \in Seq(RendererType)
    /\ Len(reply) =< 1 /\ (reply # <<>> => pc \in {"read", "snapshot"})

\* Once it has caught up, the worker's renderer agrees with the front's copies
\* of the display registers and of the 2x switch.
Drained == IF (pc = "resend" \/ cont = "resend") /\ internal_2x
           THEN run_cmd(promised, Internal2x(TRUE)) ELSE promised
CopiesAgree == Drained.gs.disp = regs.disp /\ Drained.gs.twox = internal_2x

\* Once nothing waits anywhere, the worker's renderer is the promised one.
Emptied == image = <<>> /\ batch = <<>> /\ handing = <<>> /\ queue = <<>> /\ running = <<>>
              => screen = promised

\* The threaded front is the inline one with the renderer caught up: reads
\* and snapshots return, and frames show, what the inline renderer would, but
\* for the load of a state whose renderer does not decode (RejectedLoadIsVoid).
Inline == INSTANCE GsInline WITH screen <- Drained
InlineVars == Inline!inline
ImplementsInline == Inline!Init /\ [][Inline!Next \/ RejectState]_InlineVars

\* Dropping the front leaves nothing in the channel.
DropDrains == worker = "gone" => queue = <<>> /\ running = <<>>

\* Neither side is left with what the other has given up, nor without what it
\* was given.
CaughtUp == CopiesAgree /\ DropDrains /\ Emptied

\* A call that blocked, on a full channel or for a reply, returns; a drop joins.
CallsReturn == /\ pc \in {"send", "read", "snapshot", "resend"} ~> pc = "idle"
               /\ pc = "dropped" ~> worker = "gone"

\* While vertical blanks come, everything drawn reaches the renderer: the n-th
\* write, if it is queued now, is executed later, unless a reset, a load or the
\* end of the front discards it first.
DrawingArrives ==
    \A n \in 1 .. Max({u.writes : u \in Uses}) :
        Len(Drained.gs.drawn) >= n /\ "vblank" \in use.calls
          ~> \/ Len(screen.gs.drawn) >= n
             \/ Len(Drained.gs.drawn) < n
             \/ worker = "gone"

\* A state whose renderer does not decode leaves the front exactly as it was,
\* what was queued included.
RejectedLoadIsVoid ==
    [][handing # handing' /\ handing' = <<Restore(Corrupt)>>
         => UNCHANGED <<regs, internal_2x, Drained>>]_vars
=============================================================================
