-------------------------------- MODULE Spu2 --------------------------------
(***************************************************************************)
(* The sound processor (spu2/mod.rs, spu2/voice.rs) with DMA channels 4    *)
(* and 7 of bus.rs: AutoDMA streaming through a ring of two halves, the    *)
(* IRQA interrupt, and the block sequence and envelope of a voice.         *)
(*                                                                         *)
(* Sound RAM is counted in halfwords of blocks of BLOCK; a stream in       *)
(* samples of a half of HALF; time in units, SAMPLE to a sample.           *)
(***************************************************************************)
EXTENDS IopBus, Integers, Sequences

CONSTANTS
    HALF, SAMPLE,        \* samples of a half, units of a sample
    MaxBlocks,           \* bound on the blocks a stream queues
    Core, Voiced, \* the cores; the one of the voice
    IrqAddr,             \* addresses IRQA is set to
    BLOCK, Halfwords,    \* halfwords of a block, and of sound RAM
    Songs                \* flags of each block of sound RAM

\* Sound RAM is a whole number of blocks.
RingBlocks == Halfwords \div BLOCK
ASSUME SpuAssumption ==
    /\ HALF \in Nat \ {0} /\ SAMPLE \in Nat \ {0} /\ MaxBlocks \in Nat
    /\ BLOCK \in Nat \ {0} /\ RingBlocks \in Nat \ {0} /\ Halfwords = RingBlocks * BLOCK
    /\ Songs \subseteq [0 .. RingBlocks - 1 -> SUBSET {"start", "end", "repeat"}]
    /\ Voiced \in Core

VARIABLES
    adma,                \* the ring of the streaming core
    due,                 \* units until its transfer completes, -1 when idle
    unit,                \* now, within a sample
    queued,              \* history: blocks queued since ADMAS was set
    left,                \* history: the block played out last
    dry                  \* history: a half was played that held nothing

stream == <<adma, due, unit, queued, left, dry>>

VARIABLES
    song, irq_enabled, irqa, irq_flag, tsa,
    voice,               \* a voice of the core Voiced
    playing              \* history: the block it has decoded, or -1

sound == <<song, irq_enabled, irqa, irq_flag, tsa, voice, playing>>

-----------------------------------------------------------------------------
(***************************************************************************)
(* AutoDMA.                                                                *)
(***************************************************************************)
Ring == [on |-> TRUE, pending |-> <<>>, filled |-> [h \in 0 .. 1 |-> FALSE], write |-> 0,
         pos |-> 0, data |-> [h \in 0 .. 1 |-> 0]]
StreamInit ==
    /\ adma = [Ring EXCEPT !.on = FALSE]
    /\ due = -1 /\ unit = 0 /\ queued = 0 /\ left = 0 /\ dry = FALSE

Reading(a) == a.pos \div HALF

\* adma_fill: blocks move into the half to be written while it is free.
BadFillOne(a) ==
    IF a.pending = <<>> THEN a
    ELSE [a EXCEPT !.data[a.write] = Head(a.pending), !.filled[a.write] = TRUE,
                   !.write = 1 - a.write, !.pending = Tail(a.pending)]
FillOne(a) ==
    IF a.pending = <<>> \/ a.filled[a.write] THEN a
    ELSE [a EXCEPT !.data[a.write] = Head(a.pending), !.filled[a.write] = TRUE,
                   !.write = 1 - a.write, !.pending = Tail(a.pending)]
adma_fill(a) == FillOne(FillOne(a))

\* adma_due: the boundary at which the last waiting block lands, and a sample.
BadAdmaDue(a) ==
    IF a.pending = <<>> THEN SAMPLE ELSE ((Len(a.pending) - 1) * HALF + 1) * SAMPLE
adma_due(a) ==
    IF a.pending = <<>> THEN SAMPLE
    ELSE ((HALF - (a.pos % HALF)) + (Len(a.pending) - 1) * HALF + 1) * SAMPLE

\* ADMAS: a fresh stream plays from the top of the ring.
AdmasWrite ==
    /\ due = -1
    /\ \/ ~adma.on /\ adma' = Ring
       \/ adma.on /\ adma' = [adma EXCEPT !.on = FALSE]
    /\ queued' = 0 /\ left' = 0 /\ dry' = FALSE
    /\ UNCHANGED <<due, unit, sound, iop_bus>>

\* A kick of n blocks while the channel is idle; it completes later.
AdmaKick ==
    /\ adma.on /\ due = -1
    /\ \E n \in 1 .. (MaxBlocks - queued) :
         /\ adma' = adma_fill([adma EXCEPT !.pending = @ \o [i \in 1 .. n |-> queued + i]])
         /\ queued' = queued + n
    /\ due' = adma_due(adma')
    /\ UNCHANGED <<unit, left, dry, sound, iop_bus>>

\* tick: transfers retire, then the samples due are mixed.
Mixed(a) ==
    LET next == (a.pos + 1) % (2 * HALF)
    IN IF ~a.on THEN a
       ELSE IF next % HALF = 0
       THEN adma_fill([a EXCEPT !.pos = next, !.filled[Reading(a)] = FALSE])
       ELSE [a EXCEPT !.pos = next]
Leaves(a) == a.on /\ (a.pos + 1) % HALF = 0
SpuTick ==
    /\ unit' = (unit + 1) % SAMPLE
    /\ adma' = IF unit' = 0 THEN Mixed(adma) ELSE adma
    /\ due' = IF due \in {1, -1} THEN -1 ELSE due - 1
    /\ IF due = 1 THEN Complete({"spu"}, {}) ELSE UNCHANGED iop_bus
    /\ IF unit' = 0 /\ Leaves(adma)
       THEN /\ left' = IF adma.filled[Reading(adma)] THEN adma.data[Reading(adma)] ELSE left
            /\ dry' = (dry \/ ~adma.filled[Reading(adma)])
       ELSE UNCHANGED <<left, dry>>
    /\ UNCHANGED <<queued, sound>>

-----------------------------------------------------------------------------
(***************************************************************************)
(* IRQA and the voices.                                                    *)
(***************************************************************************)
Off == [phase |-> "off", nax |-> 0, lsax |-> 0, pinned |-> FALSE, flags |-> {}, endx |-> FALSE]
SoundInit ==
    /\ song \in Songs
    /\ irq_enabled = [c \in Core |-> FALSE] /\ irqa \in [Core -> IrqAddr]
    /\ irq_flag = [c \in Core |-> FALSE] /\ tsa = 0
    /\ voice = Off /\ playing = -1

\* The cores that latch when the halfwords hs are touched, and the line.
Hit(hs) == { c \in Core : irq_enabled[c] /\ irqa[c] \in hs /\ ~irq_flag[c] }
SpuLatch(cs) == /\ irq_flag' = [c \in Core |-> irq_flag[c] \/ c \in cs]
             /\ Complete({}, IF cs = {} THEN {} ELSE {"spu2"})

\* Dropping IRQ enable in ATTR acknowledges.
SetIrqEnable(c, on) ==
    /\ irq_enabled' = [irq_enabled EXCEPT ![c] = on]
    /\ irq_flag' = [irq_flag EXCEPT ![c] = @ /\ (on \/ ~irq_enabled[c])]
AttrWrite ==
    /\ \E c \in Core, on \in BOOLEAN : SetIrqEnable(c, on)
    /\ UNCHANGED <<song, irqa, tsa, voice, playing, stream, iop_bus>>
IrqaWrite ==
    /\ \E c \in Core, a \in IrqAddr : irqa' = [irqa EXCEPT ![c] = a]
    /\ UNCHANGED <<song, irq_enabled, irq_flag, tsa, voice, playing, stream, iop_bus>>

\* A transfer of n halfwords, in or out; STD writes one.
Transfer ==
    /\ \E n \in 1 .. BLOCK :
         /\ SpuLatch(Hit({(tsa + i) % Halfwords : i \in 0 .. n - 1}))
         /\ tsa' = (tsa + n) % Halfwords
    /\ UNCHANGED <<song, irq_enabled, irqa, voice, playing, stream>>

KeyOn ==
    /\ \E b \in DOMAIN song :
          voice' = [Off EXCEPT !.phase = "on", !.nax = b * BLOCK, !.lsax = b * BLOCK]
    /\ playing' = -1
    /\ UNCHANGED <<song, irq_enabled, irqa, irq_flag, tsa, stream, iop_bus>>

\* LSAX written by software pins the loop point.
LsaxWrite ==
    /\ \E b \in DOMAIN song : voice' = [voice EXCEPT !.lsax = b * BLOCK, !.pinned = TRUE]
    /\ UNCHANGED <<song, irq_enabled, irqa, irq_flag, tsa, playing, stream, iop_bus>>

\* next_block: the flags of the block that ends, then the next one's.
BadDecode(v) ==
    LET f == song[v.nax \div BLOCK]
    IN [v EXCEPT !.flags = f, !.lsax = IF "start" \in f THEN v.nax ELSE @,
                 !.nax = (@ + BLOCK) % Halfwords]
Decode(v) ==
    LET f == song[v.nax \div BLOCK]
    IN [v EXCEPT !.flags = f, !.lsax = IF "start" \in f /\ ~v.pinned THEN v.nax ELSE @,
                 !.nax = (@ + BLOCK) % Halfwords]
NextBlock(v) ==
    IF "end" \notin v.flags THEN Decode(v)
    ELSE IF "repeat" \in v.flags THEN Decode([v EXCEPT !.endx = TRUE, !.nax = v.lsax])
    ELSE [v EXCEPT !.endx = TRUE, !.nax = v.lsax, !.phase = "off"]

\* The block just fetched spans the BLOCK halfwords before nax.
BadFetched(v) == {(v.nax + i) % Halfwords : i \in 0 .. BLOCK - 1}
Fetched(v) == {(v.nax - BLOCK + i) % Halfwords : i \in 0 .. BLOCK - 1}

VoiceStep ==
    /\ voice.phase = "on"
    /\ voice' = NextBlock(voice)
    /\ IF voice'.phase = "on"
       THEN /\ playing' = (IF {"end", "repeat"} \subseteq voice.flags THEN voice.lsax
                           ELSE voice.nax) \div BLOCK
            /\ SpuLatch(Hit(Fetched(voice')) \cap {Voiced})
       ELSE playing' = -1 /\ UNCHANGED <<irq_flag, iop_bus>>
    /\ UNCHANGED <<song, irq_enabled, irqa, tsa, stream>>

SpuAck == "spu2" \in i_stat /\ AckLines({"spu2"}) /\ UNCHANGED <<stream, sound>>

StreamNext == AdmasWrite \/ AdmaKick \/ SpuTick
SoundNext == AttrWrite \/ IrqaWrite \/ Transfer \/ KeyOn \/ LsaxWrite \/ VoiceStep \/ SpuAck

\* The sound unit among whatever else uses the bus.
SpuSpec == /\ IopBusInit /\ StreamInit /\ SoundInit
           /\ [][StreamNext \/ SoundNext \/ (BusNext /\ UNCHANGED <<stream, sound>>)]_
                <<stream, sound, iop_bus>>

-----------------------------------------------------------------------------
(***************************************************************************)
(* Properties.                                                             *)
(***************************************************************************)
\* What the properties of a stream rest on.  While it keeps up, the half being
\* read and then the other hold the k blocks behind the one played last, the
\* others wait in order, and they wait only while both halves are full.
AdmaTypes(a) ==
    a \in [on : BOOLEAN, pending : Seq(Nat), filled : [0 .. 1 -> BOOLEAN], write : 0 .. 1,
           pos : 0 .. 2 * HALF - 1, data : [0 .. 1 -> Nat]]
InRing(a, last, k) ==
    LET r == Reading(a)
    IN /\ k \in 0 .. 2
       /\ a.write = IF k = 1 THEN 1 - r ELSE r
       /\ (a.filled[r] <=> k > 0) /\ (a.filled[1 - r] <=> k = 2)
       /\ k > 0 => a.data[r] = last + 1
       /\ k = 2 => a.data[1 - r] = last + 2
       /\ \A i \in 1 .. Len(a.pending) : a.pending[i] = last + k + i
StreamKeepsUp ==
    adma.on /\ ~dry =>
       \E k \in 0 .. 2 : /\ InRing(adma, left, k)
                         /\ adma.pending # <<>> => k = 2
                         /\ queued = left + k + Len(adma.pending)

\* The samples until the last waiting block lands fit into what is left of
\* the transfer.
Landing(a) == IF a.pending = <<>> THEN 0
              ELSE (HALF - (a.pos % HALF)) + (Len(a.pending) - 1) * HALF
LandsInTime == adma.on /\ ~dry /\ due # -1 => unit + due >= Landing(adma) * SAMPLE
StreamHolds ==
    /\ AdmaTypes(adma) /\ due \in Nat \cup {-1} /\ unit \in 0 .. SAMPLE - 1
    /\ queued \in Nat /\ left \in Nat /\ dry \in BOOLEAN
    /\ due # 0 /\ (due # -1 => adma.on)
    /\ StreamKeepsUp /\ LandsInTime

\* A voice stands at the start of a block.
BlockStart == {b * BLOCK : b \in 0 .. RingBlocks - 1}
SoundTypes ==
    /\ song \in Songs
    /\ irq_enabled \in [Core -> BOOLEAN] /\ irq_flag \in [Core -> BOOLEAN]
    /\ irqa \in [Core -> IrqAddr]
    /\ voice \in [phase : {"off", "on"}, nax : BlockStart, lsax : BlockStart, pinned : BOOLEAN,
                  flags : SUBSET {"start", "end", "repeat"}, endx : BOOLEAN]

\* While a stream keeps up, its blocks are played out in the order queued,
\* each once.
BlocksInOrder == [][~dry' /\ left' # left /\ left' # 0 => left' = left + 1]_<<stream, iop_bus>>

\* While a stream keeps up, its transfer completes when its last block is in
\* the ring.
CompletesInRing == [][due = 1 /\ due' = -1 /\ ~dry' => adma'.pending = <<>>]_<<stream, iop_bus>>

\* The same for every stream, as the comment on adma_due says.
CompletesInRingAlways == [][due = 1 /\ due' = -1 => adma'.pending = <<>>]_<<stream, iop_bus>>

\* A core that has not enabled the interrupt has none latched: what it
\* enables later starts afresh.
LatchedWhileEnabled == \A c \in Core : irq_flag[c] => irq_enabled[c]

\* A voice interrupts for an address of the block it has begun to play.
IrqOfPlayingBlock ==
    [][irq_flag' # irq_flag /\ voice' # voice => irqa[Voiced] \div BLOCK = playing']_<<sound, iop_bus>>

\* A loop point set by software stays until software sets it or keys on.
PinnedLoopStays ==
    [][voice.pinned /\ voice'.pinned /\ voice'.nax # voice.nax
         => voice'.lsax = voice.lsax]_<<sound, iop_bus>>

\* The sound unit as one promise to its driver.
SoundKept == /\ []LatchedWhileEnabled
             /\ BlocksInOrder /\ CompletesInRing /\ IrqOfPlayingBlock /\ PinnedLoopStays
=============================================================================
