-------------------------------- MODULE Sio2 --------------------------------
(***************************************************************************)
(* The serial port of pads and memory cards (bus.rs, Sio2 and MemCard)     *)
(* with the DMA channels 11 and 12 that feed and drain it.  A packet is    *)
(* the sub-transfers SEND3 queues with their commands; it is fed as a      *)
(* whole, and its replies are drained as a whole.  Lengths are in words of *)
(* a block, the card in chunks of a page.                                  *)
(*                                                                         *)
(* fed and taken are history: the packet fed last and the one whose reply  *)
(* channel 12 moved last.  paged is the card as its user sees it.          *)
(***************************************************************************)
EXTENDS IopBus, Sequences

CONSTANTS
    SioPacket,        \* sequences of [port, dev, op, len, arg]
    BlockLen,      \* words of a block when channel 11 is given several
    MEMCARD_PAGES, MEMCARD_PAGE, MEMCARD_BLOCK,
    MaxFed         \* bound on the packets fed

PadMode == {"digital", "analog", "ds2"}
ASSUME SioAssumption ==
    /\ BlockLen \in Nat
    /\ MEMCARD_PAGES \in Nat \ {0} /\ MEMCARD_PAGE \in Nat \ {0} /\ MEMCARD_BLOCK \in Nat \ {0}
    /\ MEMCARD_PAGES % MEMCARD_BLOCK = 0
    /\ \A p \in SioPacket :
          /\ Len(p) \in Nat
          /\ \A i \in 1 .. Len(p) :
                /\ p[i].len \in Nat
                /\ p[i].op = "4F" => p[i].arg \in PadMode
                /\ p[i].op = "sector" => p[i].arg \in Nat

VARIABLES
    send3,                \* the packet queued
    fifo_in,              \* number of the packet in the in-FIFO, 0 if empty
    in_blocked,           \* channel 11 had more than one block
    sio_out, reply_of,   \* words of the reply, by sub-transfer; its packet
    blocked_reply,        \* the reply was laid out in blocks
    answers,              \* what each sub-transfer answered
    out_read,             \* the out-FIFO has been read to its end
    sio_pending, out_deferred, istat,
    pad, card,
    fed, taken, paged

port == <<send3, fifo_in, in_blocked, sio_out, reply_of, answers, blocked_reply, out_read, sio_pending>>
sio2 == <<port, out_deferred, istat, pad, card, fed, taken, paged>>

Erased == "erased"
Page   == 0 .. MEMCARD_PAGES - 1
Chunk  == 0 .. MEMCARD_PAGE - 1
CardAt == 0 .. MEMCARD_PAGES * MEMCARD_PAGE - 1

Sio2Init ==
    /\ send3 = <<>> /\ fifo_in = 0 /\ in_blocked = FALSE
    /\ sio_out = <<>> /\ reply_of = 0 /\ answers = <<>> /\ blocked_reply = FALSE
    /\ out_read = TRUE
    /\ sio_pending = FALSE /\ out_deferred = FALSE /\ istat = FALSE
    /\ pad = [config |-> FALSE, mode |-> "digital"]
    /\ card = [data |-> [x \in CardAt |-> Erased], term |-> "new", sector |-> 0, progress |-> 0]
    /\ fed = 0 /\ taken = 0
    /\ paged = [page |-> 0, at |-> 0, data |-> [p \in Page |-> [c \in Chunk |-> Erased]]]

(***************************************************************************)
(* The pad.  The id a frame answers with is the one it was sent under: the *)
(* mode changes it carries take effect behind it.                          *)
(***************************************************************************)
PadId(p) == IF p.config THEN "config" ELSE p.mode
PadAfter(p, c) ==
    CASE p.config /\ c.op = "4F" -> [p EXCEPT !.mode = c.arg]
      [] p.config /\ c.op = "44" -> [p EXCEPT !.mode = IF c.arg = "analog" THEN c.arg ELSE "digital"]
      [] c.op = "43"             -> [p EXCEPT !.config = (c.arg = "enter")]
      [] OTHER                   -> p
PadPayload(p, c) ==
    IF p.config THEN "constants"
    ELSE IF c.op \in {"42", "43"} THEN p.mode ELSE "none"
PadAnswer(p, c)    == [id |-> PadId(p), payload |-> PadPayload(p, c)]

(***************************************************************************)
(* The memory card, as bytes from a sector and a cursor.  A reply ends     *)
(* with the terminator the card had, except where a command sets it.       *)
(***************************************************************************)
Cursor(k) == (k.sector * MEMCARD_PAGE + k.progress) % (MEMCARD_PAGES * MEMCARD_PAGE)
EraseFrom(k) == ((k.sector \div MEMCARD_BLOCK) * MEMCARD_BLOCK * MEMCARD_PAGE)
                    % (MEMCARD_PAGES * MEMCARD_PAGE)
CardAfter(k, c) ==
    CASE c.op = "sector" -> [k EXCEPT !.sector = c.arg, !.progress = 0]
      [] c.op = "write"  -> [k EXCEPT !.data[Cursor(k)] = c.arg, !.progress = @ + 1]
      [] c.op = "read"   -> [k EXCEPT !.progress = @ + 1]
      [] c.op = "erase"  -> [k EXCEPT !.data = [x \in CardAt |->
                                IF x \in EraseFrom(k) .. EraseFrom(k) + MEMCARD_BLOCK * MEMCARD_PAGE - 1
                                THEN Erased ELSE @[x]]]
      [] c.op = "reset"  -> [k EXCEPT !.term = "ready"]
      [] c.op = "term"   -> [k EXCEPT !.term = c.arg]
      [] OTHER           -> k
CardAnswer(k, c) ==
    [term |-> IF c.op \in {"reset", "term"} THEN CardAfter(k, c).term ELSE k.term,
     data |-> IF c.op = "read" THEN k.data[Cursor(k)] ELSE Erased]

\* The same card for its user: a page selected, then written chunk by chunk,
\* on into the pages behind it; the last page is before the first.
PageAt(g)  == (g.page + g.at \div MEMCARD_PAGE) % MEMCARD_PAGES
ChunkAt(g) == g.at % MEMCARD_PAGE
PagedAfter(g, c) ==
    CASE c.op = "sector" -> [g EXCEPT !.page = c.arg % MEMCARD_PAGES, !.at = 0]
      [] c.op = "write"  -> [g EXCEPT !.data[PageAt(g)][ChunkAt(g)] = c.arg, !.at = @ + 1]
      [] c.op = "read"   -> [g EXCEPT !.at = @ + 1]
      [] c.op = "erase"  -> [g EXCEPT !.data = [p \in Page |->
                                IF p \div MEMCARD_BLOCK = g.page \div MEMCARD_BLOCK
                                THEN [x \in Chunk |-> Erased] ELSE @[p]]]
      [] OTHER           -> g

(***************************************************************************)
(* run_transfer: the sub-transfers in the order of SEND3.                  *)
(***************************************************************************)
SioFill(n, x) == [i \in 1 .. n |-> x]

\* The reply of the i-th, cut or padded to its block when there are several.
Place(blocked, out, i, len) ==
    IF blocked
    THEN SubSeq(out \o SioFill(len, i) \o SioFill(BlockLen, 0), 1, i * BlockLen)
    ELSE out \o SioFill(len, i)

Sub(s, i, c) ==
    LET t == [s EXCEPT !.out = Place(s.blocked, @, i, c.len)]
    IN CASE c.port = 0 /\ c.dev = "pad" ->
              [t EXCEPT !.pad = PadAfter(@, c), !.answers = Append(@, PadAnswer(s.pad, c))]
         [] c.port = 0 /\ c.dev = "card" ->
              [t EXCEPT !.card = CardAfter(@, c), !.paged = PagedAfter(@, c),
                        !.answers = Append(@, CardAnswer(s.card, c))]
         [] c.dev = "tap" -> [t EXCEPT !.answers = Append(@, "no tap")]
         [] OTHER         -> [t EXCEPT !.answers = Append(@, "floating")]

SioStart(b) == [blocked |-> b, out |-> <<>>, answers |-> <<>>, pad |-> pad, card |-> card, paged |-> paged]

\* The state of the loop after k sub-transfers is its function's value at k.
AllSent(b) ==
    LET s[k \in 0 .. Len(send3)] ==
            IF k = 0 THEN SioStart(b) ELSE Sub(s[k - 1], k, send3[k])
    IN  s[Len(send3)]

\* The transfer of packet p, fed in blocks or not, with what follows it:
\* raise_irq, and the drain armed before its reply was there.  cs are further
\* completions.
RunTransfer(p, blocked, cs) ==
    LET e == AllSent(blocked)
    IN /\ sio_out' = e.out /\ answers' = e.answers
       /\ pad' = e.pad /\ card' = e.card /\ paged' = e.paged
       /\ blocked_reply' = blocked
       /\ reply_of' = p /\ fifo_in' = 0 /\ in_blocked' = FALSE
       /\ sio_pending' = FALSE
       /\ istat' = TRUE
       /\ Complete(cs \cup (IF out_deferred THEN {"sio2out"} ELSE {}),
                   IF istat THEN {} ELSE {"sio2"})
       /\ out_read' = out_deferred /\ out_deferred' = FALSE
       /\ taken' = IF out_deferred THEN p ELSE taken

(***************************************************************************)
(* The registers and the channels.                                         *)
(***************************************************************************)
devices == <<pad, card, paged>>

\* The driver queues its next packet when it has the last one's reply.
Queue ==
    /\ fifo_in = 0 /\ ~sio_pending /\ out_read
    /\ \E p \in SioPacket : send3' = p
    /\ answers' = <<>> \* the last reply is not looked at again
    /\ UNCHANGED <<fifo_in, in_blocked, sio_out, reply_of, blocked_reply, out_read, sio_pending,
                   out_deferred, istat, devices, fed, taken, iop_bus>>

\* Command bytes by PIO, and by channel 11, where a start may wait for them.
FeedPio ==
    /\ send3 # <<>> /\ fifo_in = 0 /\ ~sio_pending /\ out_read /\ fed < MaxFed
    /\ fed' = fed + 1 /\ fifo_in' = fed + 1
    /\ UNCHANGED <<send3, in_blocked, sio_out, reply_of, answers, blocked_reply, out_read, sio_pending,
                   out_deferred, istat, devices, taken, iop_bus>>
FeedDma ==
    /\ send3 # <<>> /\ fifo_in = 0 /\ out_read /\ fed < MaxFed
    /\ fed' = fed + 1
    /\ \E b \in BOOLEAN :
         IF sio_pending
         THEN /\ RunTransfer(fed + 1, b, {"sio2in"})
              /\ UNCHANGED send3
         ELSE /\ in_blocked' = b /\ fifo_in' = fed + 1
              /\ Complete({"sio2in"}, {})
              /\ UNCHANGED <<send3, sio_out, reply_of, answers, blocked_reply, out_read, sio_pending,
                             out_deferred, istat, devices, taken>>

\* CTRL with the start bit: run, or wait for channel 11.
StartTransfer ==
    /\ send3 # <<>> /\ ~sio_pending
    /\ IF fifo_in = 0
       THEN /\ sio_pending' = TRUE
            /\ UNCHANGED <<fifo_in, in_blocked, sio_out, reply_of, answers, blocked_reply, out_read,
                           out_deferred, istat, devices, taken, iop_bus>>
       ELSE RunTransfer(fifo_in, in_blocked, {})
    /\ UNCHANGED <<send3, fed>>

\* CTRL with the FIFO resets and no start bit.
ResetFifos ==
    /\ fifo_in' = 0 /\ sio_out' = <<>> /\ reply_of' = 0 /\ answers' = <<>> /\ blocked_reply' = FALSE
    /\ out_read' = TRUE /\ sio_pending' = FALSE
    /\ UNCHANGED <<send3, in_blocked, out_deferred, istat, devices, fed, taken, iop_bus>>

\* Channel 12 waits while a packet is fed or awaited and there is no reply.
BadDrainWaits == out_read /\ sio_pending
DrainWaits == out_read /\ (sio_pending \/ fifo_in # 0)
ArmOut ==
    /\ IF DrainWaits
       THEN out_deferred' = TRUE /\ UNCHANGED <<out_read, taken, iop_bus>>
       ELSE /\ out_read' = TRUE /\ Complete({"sio2out"}, {})
            /\ taken' = reply_of
            /\ UNCHANGED out_deferred
    /\ UNCHANGED <<send3, fifo_in, in_blocked, sio_out, reply_of, answers, blocked_reply, sio_pending,
                   istat, devices, fed>>
SioReadOut ==
    /\ ~out_read /\ out_read' = TRUE
    /\ UNCHANGED <<send3, fifo_in, in_blocked, sio_out, reply_of, answers, blocked_reply, sio_pending,
                   out_deferred, istat, devices, fed, taken, iop_bus>>

AckIstat == istat /\ istat' = FALSE
            /\ UNCHANGED <<port, out_deferred, devices, fed, taken, iop_bus>>

\* A power cycle of the console reaches the card.
CardPowerOn ==
    /\ card' = [card EXCEPT !.term = "new", !.sector = 0, !.progress = 0]
    /\ paged' = [paged EXCEPT !.page = 0, !.at = 0]
    /\ UNCHANGED <<port, out_deferred, istat, pad, fed, taken, iop_bus>>

Sio2Next == \/ Queue \/ FeedPio \/ FeedDma \/ StartTransfer \/ ResetFifos
            \/ ArmOut \/ SioReadOut \/ AckIstat \/ CardPowerOn

\* The port with any other device on the bus.
AroundSio == BusNext /\ UNCHANGED sio2
Sio2Spec == IopBusInit /\ Sio2Init /\ [][Sio2Next \/ AroundSio]_<<sio2, iop_bus>>
-----------------------------------------------------------------------------
(***************************************************************************)
(* Properties.                                                             *)
(***************************************************************************)
\* Each sub-transfer's reply is where the driver looks for it: in its own
\* block, as far as it fits there, or behind the replies before it.
LenBefore(p, i) ==
    LET n[k \in 0 .. Len(p)] == IF k = 0 THEN 0 ELSE n[k - 1] + p[k].len
    IN  n[i - 1]
ReplyAt(p, blocked, i)  == IF blocked THEN (i - 1) * BlockLen ELSE LenBefore(p, i)
ReplyLen(p, blocked, i) == IF blocked /\ p[i].len > BlockLen THEN BlockLen ELSE p[i].len
RepliesInPlace ==
    \A i \in 1 .. Len(answers) : \A k \in 1 .. ReplyLen(send3, blocked_reply, i) :
        LET at == ReplyAt(send3, blocked_reply, i) + k
        IN at \in DOMAIN sio_out /\ sio_out[at] = i

\* Channel 12, armed before or after the transfer it drains, hands out the
\* reply of the packet fed last, never an older one.
DrainsNewestReply == [][taken' # taken /\ taken' # 0 => taken' = fed']_<<sio2, iop_bus>>

\* A poll carries what its id announces: the frame that changes the mode is
\* still answered in the mode it was sent in.
PollMatchesId ==
    \A i \in 1 .. Len(answers) :
        send3[i].dev = "pad" /\ send3[i].port = 0 /\ answers[i].payload # "none" =>
            answers[i].id = (IF answers[i].payload = "constants" THEN "config"
                             ELSE answers[i].payload)

\* The card holds what was written to the page selected, and an erase clears
\* the block of that page only.
CardHoldsPages ==
    \A p \in Page, c \in Chunk : card.data[p * MEMCARD_PAGE + c] = paged.data[p][c]

\* The serial port as one promise to its driver.
SerialKept == []RepliesInPlace /\ []PollMatchesId /\ []CardHoldsPages /\ DrainsNewestReply
=============================================================================
