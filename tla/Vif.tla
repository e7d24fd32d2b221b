-------------------------------- MODULE Vif --------------------------------
(***************************************************************************)
(* The VIF (vif.rs): it parses a stream of words into commands, the data   *)
(* of a command following its code.  What tells a code from data is the    *)
(* parser's own count of what it has consumed.                             *)
(*                                                                         *)
(* The software sends lists of commands.  A word is a code or the k-th     *)
(* data word of one; a vector of unpacked data is its number.              *)
(***************************************************************************)
EXTENDS Naturals, Sequences

CONSTANTS
    List,         \* lists of commands, each [op, ...]
    FullField,    \* what a count of 0 stands for (256; 65536 quadwords of DIRECT)
    DataSize,     \* quadwords of the VU's data memory
    MicroSize     \* words of its micro memory

\* A code: unpack with the bytes of a vector, settings with their value.
VifCode ==
    [op : {"unpack"}, num : Nat, addr : Nat, bytes : Nat \ {0}, flg : BOOLEAN, masked : BOOLEAN]
    \cup [op : {"direct", "mpg"}, num : Nat, addr : Nat]
    \cup [op : {"stcycl"}, cl : Nat, wl : Nat]
    \cup [op : {"base", "offset", "itop"}, to : Nat]
    \cup [op : {"stmask"}, mask : [1 .. 4 -> {"data", "row", "col", "keep"}]]
    \cup [op : {"strow", "stcol", "mscal", "mscnt", "nop"}]
ASSUME VifAssumption ==
    /\ List \subseteq Seq(VifCode)
    /\ FullField \in Nat \ {0} /\ DataSize \in Nat \ {0} /\ MicroSize \in Nat \ {0}

VARIABLES
    vif,          \* the parser: state and settings
    todo,         \* words not yet pushed
    effects,      \* history: what the words since the last list did
    meaning       \* history: what that list means

vif_vars == <<vif, todo, effects, meaning>>

Count(n) == IF n = 0 THEN FullField ELSE n
Smaller(a, b) == IF a < b THEN a ELSE b
WordsFor(bytes) == (bytes + 3) \div 4

(***************************************************************************)
(* What a list means, and the words it is sent as.                         *)
(***************************************************************************)
\* UNPACK: writes come in blocks of WL.  With WL <= CL every write takes a vector
\* and the address skips to the next multiple of CL; with WL > CL a block's first
\* CL writes take one and the rest are filled from the ROW registers.
Vectors(num, cl, wl) == IF wl <= cl THEN num
                        ELSE cl * (num \div wl) + Smaller(num % wl, cl)
UnpackMeans(c, s) ==
    LET cl == Count(s.cl)
        wl == Count(s.wl)
        base == c.addr + (IF c.flg THEN s.base + (IF s.dbf THEN s.offset ELSE 0) ELSE 0)
        Write(k) ==
            LET block == k \div wl
                p == k % wl
                v == block * Smaller(cl, wl) + p
                code == IF c.masked THEN s.mask[Smaller(p, 3) + 1] ELSE "data"
            IN [kind |-> "write", flg |-> c.flg, addr |-> (base + (IF cl > wl THEN block * cl + p ELSE k)) % DataSize,
                src |-> IF wl > cl /\ p >= cl THEN <<"row">>
                        ELSE IF code = "data" THEN <<"vector", v>> ELSE << code >>]
    IN [i \in 1 .. Count(c.num) |-> Write(i - 1)]

\* The number of data words behind a code.
DataWords(c, s) ==
    CASE c.op = "unpack" -> WordsFor(Vectors(Count(c.num), Count(s.cl), Count(s.wl)) * c.bytes)
      [] c.op = "direct" -> 4 * Count(c.num)
      [] c.op = "mpg"    -> 2 * Count(c.num)
      [] c.op = "stmask" -> 1
      [] c.op \in {"strow", "stcol"} -> 4
      [] OTHER -> 0

Effect(c, s) ==
    LET top == s.base + (IF s.dbf THEN s.offset ELSE 0)
    IN CASE c.op = "unpack" -> UnpackMeans(c, s)
         [] c.op = "direct" -> [k \in 1 .. Count(c.num) |->
                                    [kind |-> "quad", words |-> [j \in 1 .. 4 |-> 4 * (k - 1) + j]]]
         [] c.op = "mpg"    -> [k \in 1 .. 2 * Count(c.num) |->
                                    [kind |-> "micro", addr |-> (2 * c.addr + k - 1) % MicroSize, word |-> k]]
         [] c.op \in {"mscal", "mscnt"} ->
                << [kind |-> c.op, top |-> top, itop |-> s.itops] >>
         [] OTHER -> << >>

\* The commands that only set a register.
Setting(c, s) ==
    CASE c.op = "stcycl" -> [s EXCEPT !.cl = c.cl, !.wl = c.wl]
      [] c.op = "offset" -> [s EXCEPT !.offset = c.to, !.dbf = FALSE]
      [] c.op = "base"   -> [s EXCEPT !.base = c.to]
      [] c.op = "itop"   -> [s EXCEPT !.itops = c.to]
      [] c.op = "stmask" -> [s EXCEPT !.mask = c.mask]
      [] c.op \in {"mscal", "mscnt"} -> [s EXCEPT !.dbf = ~@]
      [] OTHER -> s

\* The settings after each code of list l from settings s, and sequences x of
\* sequences joined end to end.
SettingsIn(l, s) ==
    LET f[i \in 0 .. Len(l)] == IF i = 0 THEN s ELSE Setting(l[i], f[i - 1])
    IN f
JoinUpTo(x) ==
    LET f[i \in 0 .. Len(x)] == IF i = 0 THEN << >> ELSE f[i - 1] \o x[i]
    IN f

\* The words a list is sent as, and its meaning, code by code.
WordsOf(c, s) == [k \in 1 .. DataWords(c, s) + 1 |-> [code |-> k = 1, c |-> c, k |-> k - 1]]
WordsIn(l, s) == LET at == SettingsIn(l, s) IN [i \in 1 .. Len(l) |-> WordsOf(l[i], at[i - 1])]
MeansIn(l, s) == LET at == SettingsIn(l, s) IN [i \in 1 .. Len(l) |-> Effect(l[i], at[i - 1])]
ListWords(l, s) == JoinUpTo(WordsIn(l, s))[Len(l)]
ListMeans(l, s) == JoinUpTo(MeansIn(l, s))[Len(l)]

(***************************************************************************)
(* The parser.                                                             *)
(***************************************************************************)
AtCode == [at |-> "cmd"]
VifInit ==
    /\ vif = [state |-> AtCode, cl |-> 1, wl |-> 1, base |-> 0, offset |-> 0, itops |-> 0, dbf |-> FALSE,
              mask |-> << "data", "data", "data", "data" >>]
    /\ todo = << >> /\ effects = << >> /\ meaning = << >>

Tops(v) == v.base + (IF v.dbf THEN v.offset ELSE 0)

\* As many writes as the buffered bytes allow.  The format alone decides what a
\* write takes: a masked write still takes its vector.
BadNeed(u, cl, wl) == u.bytes
Need(u, cl, wl) == IF wl > cl /\ u.block_pos >= cl THEN 0 ELSE u.bytes
BadPast(u, cl, wl) == [u EXCEPT !.addr = @ + 1, !.block_pos = (@ + 1) % wl]
Past(u, cl, wl) ==
    LET p == u.block_pos + 1
    IN [u EXCEPT !.addr = @ + 1 + (IF p = wl /\ cl > wl THEN cl - wl ELSE 0),
                 !.block_pos = IF p = wl THEN 0 ELSE p]
\* A turn of the loop: a write, or nothing when the bytes are short or all is done.
DrainTurn(v, d) ==
    LET u == d.u
        cl == Count(v.cl)
        wl == Count(v.wl)
        need == Need(u, cl, wl)
        code == IF u.masked THEN v.mask[Smaller(u.block_pos, 3) + 1] ELSE "data"
        src == IF need = 0 THEN <<"row">> ELSE IF code = "data" THEN <<"vector", u.taken>> ELSE << code >>
    IN IF u.left = 0 \/ u.held < need THEN d
       ELSE [u |-> Past([u EXCEPT !.held = @ - need, !.left = @ - 1,
                                  !.taken = IF need > 0 THEN @ + 1 ELSE @], cl, wl),
             out |-> Append(d.out, [kind |-> "write", flg |-> u.flg, addr |-> u.addr % DataSize, src |-> src])]
Drain(v, u) ==
    LET d[n \in 0 .. u.left] == IF n = 0 THEN [u |-> u, out |-> << >>] ELSE DrainTurn(v, d[n - 1])
        e == d[u.left]
    IN [v |-> [v EXCEPT !.state = IF e.u.left = 0 THEN AtCode ELSE e.u], out |-> e.out]

Unpack(v, c) ==
    Drain(v, [at |-> "unpack", addr |-> c.addr + (IF c.flg THEN Tops(v) ELSE 0), bytes |-> c.bytes,
              flg |-> c.flg, masked |-> c.masked, left |-> Count(c.num), block_pos |-> 0, held |-> 0, taken |-> 0])

\* MSCAL and MSCNT latch TOP and ITOP for the VU, flip the buffer and run it.
BadRunVu(v, c) == LET f == [v EXCEPT !.dbf = ~@]
                  IN [v |-> f, out |-> << [kind |-> c.op, top |-> Tops(f), itop |-> v.itops] >>]
RunVu(v, c) == [v |-> [v EXCEPT !.dbf = ~@],
              out |-> << [kind |-> c.op, top |-> Tops(v), itop |-> v.itops] >>]

VifCommand(v, c) ==
    CASE c.op \in {"stcycl", "offset", "base", "itop", "nop"} -> [v |-> Setting(c, v), out |-> << >>]
      [] c.op \in {"mscal", "mscnt"} -> RunVu(v, c)
      [] c.op = "stmask" -> [v |-> [v EXCEPT !.state = [at |-> "stmask"]], out |-> << >>]
      [] c.op \in {"strow", "stcol"} -> [v |-> [v EXCEPT !.state = [at |-> c.op, left |-> 4]], out |-> << >>]
      [] c.op = "mpg" -> [v |-> [v EXCEPT !.state = [at |-> "mpg", addr |-> 2 * c.addr,
                                                     left |-> 2 * Count(c.num)]], out |-> << >>]
      [] c.op = "direct" -> [v |-> [v EXCEPT !.state = [at |-> "direct", left |-> Count(c.num), buf |-> << >>]],
                             out |-> << >>]
      [] c.op = "unpack" -> Unpack(v, c)

\* Four words make the quadword DIRECT sends.
DirectWord(v, w) ==
    LET d == v.state
        buf == Append(d.buf, w.k)
    IN IF Len(buf) = 4
       THEN [v |-> [v EXCEPT !.state = IF d.left = 1 THEN AtCode ELSE [d EXCEPT !.buf = << >>, !.left = d.left - 1]],
             out |-> << [kind |-> "quad", words |-> buf] >>]
       ELSE [v |-> [v EXCEPT !.state = [d EXCEPT !.buf = buf]], out |-> << >>]

Taken(v) == IF v.state.left = 1 THEN AtCode ELSE [v.state EXCEPT !.left = @ - 1]
MpgWord(v, w) ==
    [v |-> [v EXCEPT !.state = IF Taken(v) = AtCode THEN AtCode
                               ELSE [Taken(v) EXCEPT !.addr = (@ + 1) % MicroSize]],
     out |-> << [kind |-> "micro", addr |-> v.state.addr % MicroSize, word |-> w.k] >>]

PushOne(v, w) ==
    CASE v.state.at = "cmd" -> IF w.code THEN VifCommand(v, w.c)
                               ELSE [v |-> v, out |-> << [kind |-> "unhandled"] >>]
      [] v.state.at = "stmask" -> [v |-> [v EXCEPT !.state = AtCode, !.mask = w.c.mask], out |-> << >>]
      [] v.state.at \in {"strow", "stcol"} -> [v |-> [v EXCEPT !.state = Taken(v)], out |-> << >>]
      [] v.state.at = "direct" -> DirectWord(v, w)
      [] v.state.at = "mpg"    -> MpgWord(v, w)
      [] v.state.at = "unpack" -> Drain(v, [v.state EXCEPT !.held = @ + 4])

Submit ==
    /\ todo = << >>
    /\ \E l \in List : todo' = ListWords(l, vif) /\ meaning' = ListMeans(l, vif)
    /\ effects' = << >>
    /\ UNCHANGED vif
PushWord ==
    /\ todo # << >>
    /\ LET r == PushOne(vif, Head(todo)) IN vif' = r.v /\ effects' = effects \o r.out
    /\ todo' = Tail(todo)
    /\ UNCHANGED meaning

VifNext == Submit \/ PushWord
-----------------------------------------------------------------------------
(***************************************************************************)
(* Properties.                                                             *)
(***************************************************************************)
\* The parser takes a word for a code exactly when the software sent one, though
\* it finds the end of an UNPACK write by write and the software by a formula.
InSync == todo # << >> => (vif.state = AtCode <=> Head(todo).code)

\* A list has the effects it means: writes at the addresses and from the vectors
\* that STCYCL's skipping and filling give, whole quadwords, microcode in place.
EffectsExact == todo = << >> => effects = meaning

\* A program started after a rebased UNPACK runs on the buffer just filled, and
\* the next one fills the other.
Rebased(w) == w.kind = "write" /\ w.flg
Started(w) == w.kind \in {"mscal", "mscnt"}
InStep(e, offset) ==
    \A i \in DOMAIN e :
        /\ i > 1 /\ Started(e[i]) /\ Rebased(e[i - 1]) =>
              \E j \in 1 .. i - 1 : /\ \A k \in j .. i - 1 : Rebased(e[k])
                                    /\ e[j].addr = e[i].top
        /\ i > 1 /\ Rebased(e[i]) /\ Started(e[i - 1]) /\ offset > 0 => e[i].addr # e[i - 1].top
DoubleBuffered == InStep(effects, vif.offset)

\* The software's part in that: a rebased UNPACK starts at the buffer's start or goes
\* on from another, the buffers are laid out before a list uses them, and both lie
\* in the memory.
RebasedCode(c) == c.op = "unpack" /\ c.flg
Starting(c) == c.op \in {"mscal", "mscnt"}
ValuesOf(op) ==
    {0} \cup UNION { { l[i].to : i \in { k \in DOMAIN l : l[k].op = op } } : l \in List }
Disciplined ==
    /\ \A l \in List : \A i \in DOMAIN l :
        /\ RebasedCode(l[i]) /\ l[i].addr # 0 => i > 1 /\ RebasedCode(l[i - 1])
        /\ l[i].op \in {"base", "offset"} =>
              \A k \in DOMAIN l : k < i => ~RebasedCode(l[k]) /\ ~Starting(l[k])
    /\ \A b \in ValuesOf("base"), o \in ValuesOf("offset") : b + o < DataSize

\* A list of VIF codes as one promise.
ListsExact == InSync /\ EffectsExact /\ DoubleBuffered

VifSpec == VifInit /\ [][VifNext]_vif_vars
=============================================================================
