------------------------------ MODULE MCDevices ------------------------------
(***************************************************************************)
(* The devices of both processors.  A behaviour drives one of them: those  *)
(* of the IOP share the lines of its interrupt controller, which each only *)
(* raises; the paths of the EE share nothing here.                         *)
(***************************************************************************)
EXTENDS Cdvd, Sio2, Spu2, Sif, Ipu, EeChain, Gif, Vif

VARIABLE driven
iop_side == <<iop_bus, cdvd, sio2, stream, sound>>
ee_side == <<sif_dma, sif_mail, ipu, chain, gif_vars, vif_vars>>
vars == <<driven, iop_side, ee_side>>

(***************************************************************************)
(* The IOP's side.                                                         *)
(***************************************************************************)
MCCfgArea == [a \in 0 .. 2 |-> CASE a = 0 -> [base |-> 0, cap |-> 2]
                                 [] a = 1 -> [base |-> 2, cap |-> 1]
                                 [] a = 2 -> [base |-> 3, cap |-> 1]]
MCCfgBlock == 0 .. 3

PadCmd(p, op, arg) == [port |-> p, dev |-> "pad", op |-> op, len |-> 1, arg |-> arg]
Card(op, len, arg) == [port |-> 0, dev |-> "card", op |-> op, len |-> len, arg |-> arg]
MCSioPacket ==
    { <<PadCmd(0, "43", "enter"), PadCmd(0, "42", "")>>, <<PadCmd(0, "44", "analog"), PadCmd(1, "42", "")>>,
      <<PadCmd(0, "4F", "ds2"), PadCmd(0, "43", "leave")>>,
      <<Card("sector", 3, 7), Card("write", 1, "b"), Card("write", 2, "c"), Card("write", 1, "d")>>,
      <<Card("reset", 2, ""), Card("sector", 1, 1), Card("erase", 2, "")>>,
      <<Card("term", 1, "own"), Card("sector", 1, 3), Card("read", 2, "")>>,
      <<[port |-> 0, dev |-> "tap", op |-> "", len |-> 2, arg |-> ""], Card("probe", 1, "")>> }

\* A song that loops, one that ends, and one whose loop flags cross.
MCSongs ==
    { << {"start"}, {}, {"end", "repeat"}, {} >>, << {}, {"start"}, {"end"}, {"start", "end", "repeat"} >> }
MCSongsAt0 == { [b \in 0 .. 3 |-> s[b + 1]] : s \in MCSongs }

(***************************************************************************)
(* The EE's side.                                                          *)
(***************************************************************************)
MCMaxPackets == [sif0 |-> 2, sif1 |-> 3]

Eat(n) == [n |-> n, eat |-> TRUE]
Look(n) == [n |-> n, eat |-> FALSE]
Unit(rs, out, last) == [reads |-> rs, out |-> out, last |-> last]
Cmd(name, movie, emits, units, reads) ==
    [name |-> name, movie |-> movie, emits |-> emits, units |-> units, reads |-> reads]
MCCommand ==
    { Cmd("vdec", TRUE, FALSE, << Unit(<<Eat(1), Eat(2), Look(4)>>, 0, TRUE) >>, <<>>),
      Cmd("idec", TRUE, TRUE, << Unit(<<Eat(1), Eat(4), Eat(2)>>, 3, FALSE),
                                 Unit(<<Eat(3), Eat(4)>>, 3, FALSE), Unit(<<Look(3)>>, 0, TRUE) >>, <<>>),
      Cmd("setiq", TRUE, FALSE, <<>>, <<Eat(3), Eat(4), Eat(4)>>),
      Cmd("fdec", TRUE, FALSE, <<>>, <<Eat(2), Look(4)>>),
      Cmd("csc", FALSE, TRUE, << Unit(<<Eat(4), Eat(4), Eat(4)>>, 3, FALSE), Unit(<<>>, 0, TRUE) >>, <<>>) }
MCTags == << [addr |-> 1, qwc |-> 3, last |-> FALSE], [addr |-> 4, qwc |-> 1, last |-> FALSE],
             [addr |-> 5, qwc |-> 4, last |-> TRUE] >>


Block(id, n, dest, irq) == [id |-> id, qwc |-> n, to |-> dest, irq |-> irq]
MCRoutine == {"main", "sub", "leaf", "tail"}
MCOrigin == [main |-> 0, sub |-> 30, leaf |-> 50, tail |-> 70]
MCProgram ==
    [ main : { << Block("call", 2, "sub", FALSE), Block("ref", 1, 100, i), Block("next", 1, "tail", FALSE) >>
               : i \in BOOLEAN }
             \cup { << Block("cnt", 1, 0, FALSE), Block(e, 2, 100, FALSE) >> : e \in {"refe", "end", "ret"} },
      sub : { << Block("call", q, "leaf", i), Block("cnt", 1, 0, FALSE), Block("ret", 0, 0, FALSE) >>
              : q \in {0, 2}, i \in BOOLEAN },
      leaf : { << Block("ref", 1, 110, i), Block("ret", 1, 0, FALSE) >> : i \in BOOLEAN },
      tail : { << Block("call", 1, "leaf", FALSE), Block("call", 0, "sub", FALSE), Block("end", 1, 0, FALSE) >> } ]
MCLeads == { [madr |-> 20, qwc |-> n] : n \in {0, 2} }
MCSprRuns == { <<a, b>> : a \in [qwc : {0, 2}, madr : {100}], b \in [qwc : {1, 3}, madr : {200}] }

Reg(name) == [name |-> name]
St(q) == [name |-> "st", q |-> q]
Xyz(adc) == [name |-> "xyz", adc |-> adc]
Ad(r) == [name |-> "ad", addr |-> r]
Prim(nloop, flg, regs, pre) ==
    [nloop |-> nloop, flg |-> flg, nreg |-> Len(regs), regs |-> regs, pre |-> pre]
MCPacket ==
    { << Prim(n, "packed", << St(2), Reg("rgbaq"), Xyz(a) >>, TRUE) >> : n \in {1, 2}, a \in BOOLEAN }
    \cup { << Prim(1, "packed", << Ad("bitbltbuf") >>, FALSE), Prim(2, "image", << Reg("nop") >>, FALSE) >>,
           << Prim(1, "packed", << Reg("rgbaq"), St(3), Reg("nop"), St(4) >>, FALSE),
              Prim(0, "packed", << Reg("nop") >>, TRUE) >> }
    \cup { << Prim(n, "reglist", r, FALSE), Prim(1, "packed", << Reg("rgbaq"), Ad("trxdir") >>, FALSE) >> :
           n \in {1, 3}, r \in { << Reg("prim") >>, << Reg("rgbaq"), Ad("x"), Reg("xyz") >> } }

Code(op, num, addr) == [op |-> op, num |-> num, addr |-> addr]
Upk(num, addr, bytes, flg, masked) ==
    [op |-> "unpack", num |-> num, addr |-> addr, bytes |-> bytes, flg |-> flg, masked |-> masked]
Cyc(cl, wl) == [op |-> "stcycl", cl |-> cl, wl |-> wl]
To(op, n) == [op |-> op, to |-> n]
Op(op) == [op |-> op]
Mask(m) == [op |-> "stmask", mask |-> m]
MCList ==
    { << Cyc(c, w), Upk(n, 1, b, FALSE, FALSE), Op("nop") >> :
        c \in 0 .. 3, w \in 0 .. 3, n \in {0, 5}, b \in {1, 6, 12} }
    \cup { << Mask(<< "row", "data", "col", "keep" >>), Cyc(c, 4), Upk(6, 0, b, FALSE, TRUE), Op("nop") >> :
           c \in {2, 4}, b \in {3, 8} }
    \cup { << To("base", 2), To("offset", o), To("itop", 3), Upk(2, 0, 4, TRUE, FALSE), Op("mscal"),
              Upk(3, 0, 6, TRUE, FALSE), Op("mscnt"), Upk(1, 0, 16, TRUE, FALSE), Op("mscal") >> : o \in {0, 4} }
    \cup { << Code("direct", n, 0), Op("strow"), Code("mpg", m, a), Op("stcol"), Op("mscal") >> :
           n \in {0, 2}, m \in {1, 3}, a \in {0, 3} }
\* They lay out their double buffers before they use them.
ASSUME ListsDisciplined == Disciplined

Init ==
    /\ driven \in {"cdvd", "config", "sio2", "stream", "sound", "sif", "mail", "ipu", "chain", "gif", "vif"}
    /\ IopBusInit /\ CdvdInit
    /\ driven # "cdvd" => disc = NoDisc
    /\ Sio2Init /\ StreamInit /\ SoundInit
    /\ driven # "sound" =>
          /\ song = CHOOSE s \in Songs : TRUE
          /\ irqa = [c \in Core |-> CHOOSE a \in IrqAddr : TRUE]
    /\ SifInit /\ IpuInit /\ ChainInit
    /\ driven # "chain" => /\ program = (CHOOSE p \in Program : TRUE) /\ ~tie /\ ~tte
                           /\ dma = Idle("gif")
    /\ GifInit /\ VifInit

\* The driver of the IOP: handlers acknowledge, DICR is set up.
Kernel == /\ \/ \E l \in i_stat : AckLines({l})
             \/ \E cs \in SUBSET dicr_flags : DicrWrite(IopChannel, cs)
          /\ UNCHANGED <<cdvd, sio2, stream, sound>>

Next ==
    /\ UNCHANGED driven
    /\ \/ /\ \/ driven = "cdvd" /\ (CdvdNext \/ Kernel) /\ UNCHANGED <<sio2, stream, sound>>
             \/ driven = "config" /\ ConfigNext /\ UNCHANGED <<sio2, stream, sound>>
             \/ driven = "sio2" /\ Sio2Next /\ UNCHANGED <<cdvd, stream, sound>>
             \/ driven = "stream" /\ StreamNext /\ UNCHANGED <<cdvd, sio2>>
             \/ driven = "sound" /\ SoundNext /\ UNCHANGED <<cdvd, sio2>>
          /\ UNCHANGED ee_side
       \/ /\ \/ driven = "sif" /\ SifDmaNext /\ UNCHANGED <<ipu, chain, gif_vars, vif_vars>>
             \/ driven = "mail" /\ SifMailNext /\ UNCHANGED <<ipu, chain, gif_vars, vif_vars>>
             \/ driven = "ipu" /\ IpuNext /\ UNCHANGED <<sif_dma, sif_mail, chain, gif_vars, vif_vars>>
             \/ driven = "chain" /\ ChainNext /\ UNCHANGED <<sif_dma, sif_mail, ipu, gif_vars, vif_vars>>
             \/ driven = "gif" /\ GifNext /\ UNCHANGED <<sif_dma, sif_mail, ipu, chain, vif_vars>>
             \/ driven = "vif" /\ VifNext /\ UNCHANGED <<sif_dma, sif_mail, ipu, chain, gif_vars>>
          /\ UNCHANGED iop_side
Spec == Init /\ [][Next]_vars
=============================================================================
