-------------------------------- MODULE Gif --------------------------------
(***************************************************************************)
(* The GIF (gif.rs): one unpacker of GIF packets into GS register writes,  *)
(* which the DMA channel (PATH3), the VIF's DIRECT (PATH2) and the VU's    *)
(* XGKICK (PATH1, vu1.rs) all feed a quadword at a time.                   *)
(*                                                                         *)
(* A packet is a sequence of primitives [nloop, flg, nreg, regs, pre],     *)
(* the last with EOP.  A stream is cut into quadwords.  The state of a     *)
(* loop after k turns is its function's value at k.                        *)
(***************************************************************************)
EXTENDS Naturals, Sequences

CONSTANTS
    Packet,       \* packets the software sends
    KickScan      \* quadwords XGKICK reads before it gives a packet up

\* A register descriptor: ST carries a Q, XYZ the ADC bit, A+D a register.
\* The data of a REGLIST have none of these.
Descriptor(d) == /\ d.name = "st" => d.q \in Nat
                 /\ d.name = "xyz" => d.adc \in BOOLEAN
                 /\ d.name = "ad" => d.addr \in STRING
Primitive(p) == /\ p.nloop \in Nat /\ p.nreg \in Nat \ {0}
                /\ p.flg \in {"packed", "reglist", "image"} /\ p.pre \in BOOLEAN
                /\ \A j \in 1 .. p.nreg : /\ p.regs[j].name \in STRING
                                          /\ p.flg = "packed" => Descriptor(p.regs[j])
ASSUME GifAssumption ==
    /\ KickScan \in Nat \ {0}
    /\ \A pk \in Packet : Len(pk) \in Nat \ {0} /\ \A i \in 1 .. Len(pk) : Primitive(pk[i])

VARIABLES
    gif,          \* [nloop, nreg, reg_index, regs, flg, eop, packed_q]
    written,      \* history: the GS writes of the packets sent, in order
    expected,     \* history: the writes those packets mean
    feeding       \* packet sent up to a quadword, by "dma" or "direct"

gif_vars == <<gif, written, expected, feeding>>

(***************************************************************************)
(* The stream of a packet: for each primitive its tag, n = 0, and its data *)
(* numbered from 1.                                                        *)
(***************************************************************************)
CeilDiv(a, b) == (a + b - 1) \div b
QuadCount(p) == CASE p.flg = "reglist" -> CeilDiv(p.nloop * p.nreg, 2)
              [] p.flg = "packed"  -> p.nloop * p.nreg
              [] p.flg = "image"   -> p.nloop
Quad(pk, i, n) == [tag |-> n = 0, p |-> pk[i], eop |-> n = 0 /\ i = Len(pk), n |-> n]
PacketQuads(pk, i) == [k \in 1 .. QuadCount(pk[i]) + 1 |-> Quad(pk, i, k - 1)]
QuadStream(pk) ==
    LET s[i \in 0 .. Len(pk)] == IF i = 0 THEN << >> ELSE s[i - 1] \o PacketQuads(pk, i)
    IN  s[Len(pk)]

Desc(p, j) == p.regs[(j % p.nreg) + 1]

\* What a register descriptor writes in PACKED mode: its own register, unless
\* ADC sends the vertex to the one that does not draw, or A+D names another.
\* ST sets the Q the next RGBAQ carries.
Packed(d, q) ==
    CASE d.name \in {"nop", "reserved"} -> << >>
      [] d.name = "xyz" /\ d.adc -> << [reg |-> "xyz3", q |-> 0] >>
      [] d.name = "ad"           -> << [reg |-> d.addr, q |-> 0] >>
      [] d.name = "rgbaq"        -> << [reg |-> "rgbaq", q |-> q] >>
      [] OTHER                   -> << [reg |-> d.name, q |-> 0] >>
BadLatch(d, q) == q
Latch(d, q) == IF d.name = "st" THEN d.q ELSE q

(***************************************************************************)
(* The unpacker.                                                           *)
(***************************************************************************)
Unfed == [from |-> "none", pk |-> << >>, at |-> 0]
GifInit ==
    /\ gif = [nloop |-> 0, nreg |-> 0, reg_index |-> 0, regs |-> <<>>, flg |-> "packed",
              eop |-> FALSE, packed_q |-> 1]
    /\ written = <<>> /\ expected = <<>> /\ feeding = Unfed

EndOfPacket(g) == g.nloop = 0 /\ g.eop

AdvanceReg(g) == LET i == g.reg_index + 1
              IN IF i >= g.nreg THEN [g EXCEPT !.reg_index = 0, !.nloop = @ - 1]
                 ELSE [g EXCEPT !.reg_index = i]

\* One 64-bit half of a REGLIST quadword.  A+D has no meaning there.
BadHalf(r) == LET d == r.g.regs[r.g.reg_index + 1]
              IN [g |-> AdvanceReg(r.g), out |-> Append(r.out, [reg |-> d.name, q |-> 0])]
Half(r) ==
    IF r.g.nloop = 0 THEN r
    ELSE LET d == r.g.regs[r.g.reg_index + 1]
         IN [g |-> AdvanceReg(r.g),
             out |-> IF d.name = "ad" THEN r.out ELSE Append(r.out, [reg |-> d.name, q |-> 0])]

\* One quadword.  A data quadword read as a tag is one of no loops that ends its
\* packet, a tag read as data counts as any other quadword.
TagOf(w) == IF w.tag THEN w.p ELSE [nloop |-> 0, flg |-> "packed", nreg |-> 1, regs |-> <<>>, pre |-> FALSE]
Process(g, w) ==
    LET p == TagOf(w)
        d == g.regs[g.reg_index + 1]
    IN CASE g.nloop = 0 ->
              [g |-> [g EXCEPT !.nloop = p.nloop, !.eop = w.eop \/ ~w.tag, !.flg = p.flg, !.nreg = p.nreg,
                               !.regs = p.regs, !.reg_index = 0],
               out |-> IF p.pre THEN << [reg |-> "prim", q |-> 0] >> ELSE << >>]
         [] g.nloop > 0 /\ g.flg = "packed" ->
              [g |-> AdvanceReg([g EXCEPT !.packed_q = Latch(d, @)]), out |-> Packed(d, g.packed_q)]
         [] g.nloop > 0 /\ g.flg = "reglist" -> Half(Half([g |-> g, out |-> << >>]))
         [] OTHER -> [g |-> [g EXCEPT !.nloop = @ - 1],
                      out |-> << [reg |-> "hwreg", q |-> 0], [reg |-> "hwreg", q |-> 0] >>]

Fed(r, w) == LET t == Process(r.g, w)
             IN [g |-> t.g, out |-> r.out \o t.out]

\* The quadwords of ws behind the from-th, up to the to-th.
FeedGif(r0, ws, from, to) ==
    LET r[k \in from .. to] == IF k = from THEN r0 ELSE Fed(r[k - 1], ws[k])
    IN  r[to]

(***************************************************************************)
(* What a packet means.                                                    *)
(***************************************************************************)
\* A primitive is its items: registers, or quadwords of an image.  The Q that
\* holds after k of them, if q held before the primitive.
Items(p) == IF p.flg = "image" THEN p.nloop ELSE p.nloop * p.nreg
QHeld(p, q, k) ==
    LET h[j \in 0 .. Items(p)] ==
            IF j = 0 THEN q
            ELSE LET d == Desc(p, j - 1)
                 IN IF p.flg = "packed" /\ d.name = "st" THEN d.q ELSE h[j - 1]
    IN  h[k]
\* The writes of the j-th item.
Writes(p, q, j) ==
    CASE p.flg = "packed"  -> Packed(Desc(p, j - 1), QHeld(p, q, j - 1))
      [] p.flg = "reglist" -> IF Desc(p, j - 1).name = "ad" THEN << >>
                              ELSE << [reg |-> Desc(p, j - 1).name, q |-> 0] >>
      [] p.flg = "image"   -> << [reg |-> "hwreg", q |-> 0], [reg |-> "hwreg", q |-> 0] >>
Means(p, q, out) ==
    LET w[j \in 0 .. Items(p)] ==
            IF j = 0 THEN out \o (IF p.pre THEN << [reg |-> "prim", q |-> 0] >> ELSE << >>)
            ELSE w[j - 1] \o Writes(p, q, j)
    IN  w[Items(p)]
PacketMeans(pk, q) ==
    LET m[i \in 0 .. Len(pk)] ==
            IF i = 0 THEN [q |-> q, out |-> << >>]
            ELSE [q |-> QHeld(pk[i], m[i - 1].q, Items(pk[i])),
                  out |-> Means(pk[i], m[i - 1].q, m[i - 1].out)]
    IN  m[Len(pk)].out

(***************************************************************************)
(* The paths.  None cuts into the packet of another: of a kick that does   *)
(* the code only warns.                                                    *)
(***************************************************************************)
\* PATH3 and PATH2 send a packet in one transfer or in several.
Send(from, pk, at, to, r0) ==
    LET s == QuadStream(pk)
        r == FeedGif(r0, s, at, to)
    IN /\ gif' = r.g /\ written' = r.out
       /\ feeding' = IF to = Len(s) THEN Unfed ELSE [from |-> from, pk |-> pk, at |-> to]
SendOn(from) ==
    /\ feeding.from = "none"
    /\ \E pk \in Packet :
          \E to \in 1 .. Len(QuadStream(pk)) : Send(from, pk, 0, to, [g |-> gif, out |-> << >>])
          /\ expected' = PacketMeans(pk, gif.packed_q)
SendDma    == SendOn("dma")
SendDirect == SendOn("direct")

SendRest ==
    /\ feeding.from # "none"
    /\ \E to \in feeding.at + 1 .. Len(QuadStream(feeding.pk)) :
          Send(feeding.from, feeding.pk, feeding.at, to, [g |-> gif, out |-> written])
    /\ UNCHANGED expected

\* PATH1.  XGKICK streams quadwords of VU memory until a tag with EOP is done;
\* memory behind the packet still holds what was there.  A program may kick a
\* packet whose end it has not written yet: the scan runs out and gives it up.
\* The scan is as long as the memory, so a whole packet fits.
BadResetPath(g) == [g EXCEPT !.reg_index = 0, !.eop = TRUE]
ResetPath(g) == [g EXCEPT !.nloop = 0, !.reg_index = 0, !.eop = TRUE]
Kick(g, mem) ==
    LET r[k \in 0 .. KickScan] ==
            IF k = 0 THEN [g |-> g, out |-> << >>]
            ELSE IF k > 1 /\ EndOfPacket(r[k - 1].g) THEN r[k - 1] ELSE Fed(r[k - 1], mem[k])
        e == r[KickScan]
    IN  IF EndOfPacket(e.g) THEN e ELSE [e EXCEPT !.g = ResetPath(@)]

Endless == [nloop |-> 1, flg |-> "image", nreg |-> 1, regs |-> <<>>, pre |-> FALSE]
Unended == [i \in 1 .. KickScan |-> [tag |-> i % 2 = 1, p |-> Endless, eop |-> FALSE, n |-> 1]]
Xgkick ==
    /\ feeding.from = "none"
    /\ \/ \E pk \in Packet, old \in Packet :
            LET s == QuadStream(pk)
                r == Kick(gif, s \o QuadStream(old))
            IN /\ Len(s) =< KickScan
               /\ gif' = r.g /\ written' = r.out
               /\ expected' = PacketMeans(pk, gif.packed_q)
       \/ gif' = Kick(gif, Unended).g /\ written' = << >> /\ expected' = << >>
    /\ UNCHANGED feeding

GifNext == SendDma \/ SendDirect \/ SendRest \/ Xgkick
GifSpec == GifInit /\ [][GifNext]_gif_vars
-----------------------------------------------------------------------------
(***************************************************************************)
(* Properties.                                                             *)
(***************************************************************************)
\* Whatever the paths sent before, and in however many transfers, a packet
\* causes the register writes it means and no other.
PacketsExact == feeding.from = "none" => written = expected

\* Between packets the unpacker waits for a tag, whoever sent the last one and
\* also after a kick whose packet had no end.
BetweenPackets == feeding.from = "none" => gif.nloop = 0

\* The three paths as one promise.
PathsExact == PacketsExact /\ BetweenPackets
=============================================================================
