----------------------------- MODULE GsDisplay -----------------------------
(***************************************************************************)
(* Scanout of interlaced field buffers: framebuffer_woven weaves each      *)
(* field into the last frame, keeps what the deinterlacers compare it      *)
(* with, and rebuilds the other field's rows.  One colour channel at       *)
(* display scale one; a frame is a function of <<x, y>>.                   *)
(*                                                                         *)
(* Each field is half of the picture the program has up: gd_pics holds the *)
(* pictures of the last four fields, newest first; gd_still fields showed  *)
(* the newest one, gd_run were shown in this mode and size.                *)
(***************************************************************************)
EXTENDS Integers, Sequences, FiniteSetsExt

CONSTANTS GdWidth, GdHeight,      \* the displayed frame
          GdPictures,             \* [0 .. GdWidth-1 \X 0 .. GdHeight-1 -> byte]
          GdModes,                \* deinterlacing modes
          GdChanges               \* bound on the changes of picture, mode and size

VARIABLES gd_mode, gd_field, gd_woven, gd_motion, gd_history, gd_out, gd_pics, gd_still, gd_run, gd_changes
gd_vars == <<gd_mode, gd_field, gd_woven, gd_motion, gd_history, gd_out, gd_pics, gd_still, gd_run, gd_changes>>

MOTION_LO == 6
MOTION_HI == 40
Cols == 0 .. GdWidth - 1
Rows == 0 .. GdHeight - 1
Pixels == Cols \X Rows
\* A frame of odd height is cut to the even one below, and one of no height is
\* not woven at all.
ASSUME DisplayAssumption ==
    /\ GdWidth \in Nat \ {0} /\ GdHeight \in Nat \ {0} /\ GdHeight % 2 = 0
    /\ GdPictures \subseteq [Pixels -> 0 .. 255]
    /\ GdModes \subseteq {"weave", "bob", "blend", "adaptive", "yadif", "bwdif"}
Black == [p \in Pixels |-> 0]
Bound(n, lo, hi) == IF n < lo THEN lo ELSE IF n > hi THEN hi ELSE n
Dist(a, b) == IF a < b THEN b - a ELSE a - b

(***************************************************************************)
(* Motion of a row the new field lands on: a soft ramp over the change     *)
(* against the same field two vblanks ago, spread sideways, decaying.      *)
(***************************************************************************)
Fresh(old, new) == Min({((IF Dist(old, new) <= MOTION_LO THEN 0 ELSE Dist(old, new) - MOTION_LO) * 255) \div (MOTION_HI - MOTION_LO), 255})
Motion(pic, y, x) ==
    Max({ Fresh(gd_woven[<<i, y>>], pic[<<i, y>>]) : i \in Max({x - 2, 0}) .. Min({x + 2, GdWidth - 1}) }
        \cup {gd_motion[<<x, y>>] \div 2})

(***************************************************************************)
(* yadif and bwdif for a missing row.  Rows past the edge mirror; wv is    *)
(* the woven frame, hs the history.                                        *)
(***************************************************************************)
Mirror(y) == Bound(IF y < 0 THEN -y ELSE IF y > GdHeight - 1 THEN 2 * (GdHeight - 1) - y ELSE y, 0, GdHeight - 1)
From(buf, x, y) == buf[<<Bound(x, 0, GdWidth - 1), Mirror(y)>>]
Avg(a, b) == (a + b) \div 2
\* The range the temporal neighbours allow: d give or take diff.
Temporal(wv, hs, par, x, y) ==
    LET p == From(hs[par], x, y)
        n == From(wv, x, y)
        moved == Avg(Dist(From(hs[1 - par], x, y - 1), From(wv, x, y - 1)), Dist(From(hs[1 - par], x, y + 1), From(wv, x, y + 1)))
    IN  [d |-> Avg(p, n), diff |-> Max({Dist(p, n) \div 2, moved})]
Widened(wv, hs, par, x, y, t) ==
    LET c == From(wv, x, y - 1)
        e == From(wv, x, y + 1)
        b == Avg(From(hs[par], x, y - 2), From(wv, x, y - 2)) - c
        f == Avg(From(hs[par], x, y + 2), From(wv, x, y + 2)) - e
    IN  Max({t.diff, Min({t.d - e, t.d - c, Max({b, f})}), -Max({t.d - e, t.d - c, Min({b, f})})})
\* The direction whose three-pixel windows match: vertical, then one and two
\* to the left, then to the right, each only while it improves.
Score(wv, x, y, j) ==
    Dist(From(wv, x - 1 + j, y - 1), From(wv, x - 1 - j, y + 1)) + Dist(From(wv, x + j, y - 1), From(wv, x - j, y + 1))
    + Dist(From(wv, x + 1 + j, y - 1), From(wv, x + 1 - j, y + 1))
Spatial(wv, x, y) ==
    LET s(j) == IF j = 0 THEN Score(wv, x, y, 0) - 1 ELSE Score(wv, x, y, j)
        left == IF s(-1) >= s(0) THEN 0 ELSE IF s(-2) < s(-1) THEN -2 ELSE -1
        j == IF s(1) >= s(left) THEN left ELSE IF s(2) < s(1) THEN 2 ELSE 1
    IN  Avg(From(wv, x + j, y - 1), From(wv, x - j, y + 1))
yadif(wv, hs, par, x, y) ==
    LET t == Temporal(wv, hs, par, x, y)
        diff == Widened(wv, hs, par, x, y, t)
    IN  Bound(Bound(Spatial(wv, x, y), t.d - diff, t.d + diff), 0, 255)
bwdif(wv, hs, par, x, y) ==
    LET t == Temporal(wv, hs, par, x, y)
        edge == y < 4 \/ y + 5 > GdHeight
        diff == IF ~edge \/ (y >= 2 /\ y + 3 <= GdHeight) THEN Widened(wv, hs, par, x, y, t) ELSE t.diff
        c == From(wv, x, y - 1)
        e == From(wv, x, y + 1)
        far == From(wv, x, y - 3) + From(wv, x, y + 3)
        two(k) == From(hs[par], x, y - k) + From(wv, x, y - k) + From(hs[par], x, y + k) + From(wv, x, y + k)
        guess == IF edge THEN Avg(c, e)
                 ELSE IF Dist(c, e) > Dist(From(hs[par], x, y), From(wv, x, y))
                 THEN ((5570 * (From(hs[par], x, y) + From(wv, x, y)) - 3801 * two(2) + 1016 * two(4)) \div 4
                       + 4309 * (c + e) - 213 * far) \div 8192
                 ELSE (5077 * (c + e) - 981 * far) \div 8192
    IN  IF t.diff = 0 THEN t.d ELSE Bound(Bound(guess, t.d - diff, t.d + diff), 0, 255)

(***************************************************************************)
(* interpolate_row: rebuilt from the rows above and below along the best   *)
(* direction (the nearest of equals, the left one first), mixed by weight. *)
(***************************************************************************)
Above(y) == IF y = 0 THEN 1 ELSE y - 1
Below(y) == IF y = GdHeight - 1 THEN y - 1 ELSE y + 1
Col(x) == Bound(x, 0, GdWidth - 1)
Rebuilt(wv, x, y) ==
    LET up(i) == wv[<<Col(i), Above(y)>>]
        down(i) == wv[<<Col(i), Below(y)>>]
        score(j) == 4 * (Dist(up(x + j - 1), down(x - j - 1)) + Dist(up(x + j), down(x - j)) + Dist(up(x + j + 1), down(x - j + 1))) + (IF j < 0 THEN -j ELSE j)
        best == CHOOSE j \in -2 .. 2 : \A k \in -2 .. 2 : score(j) < score(k) \/ (score(j) = score(k) /\ j <= k)
    IN  (up(x + best) + down(x - best) + 1) \div 2
Mixed(wv, w, x, y) == (wv[<<x, y>>] * (255 - w) + Rebuilt(wv, x, y) * w + 127) \div 255
RowMotion(mo, x, y) == Max({mo[<<x, Above(y)>>], mo[<<x, Below(y)>>], mo[<<x, y>>]})

(***************************************************************************)
(* framebuffer_woven for the field of parity par, out of the picture.      *)
(***************************************************************************)
\* Fields after which a still picture must be shown as it is.
Settled(mode) == IF mode = "adaptive" THEN 18 ELSE 4
Change(b) == gd_changes' = gd_changes + (IF b THEN 1 ELSE 0) /\ gd_changes' <= GdChanges
Keeps == {"yadif", "bwdif"}
\* Mutant: the rows just scanned are rebuilt instead of the others.
BadShown(mode, par, wv, mo, hs) ==
    [p \in Pixels |-> IF mode \in {"yadif", "bwdif"} /\ p[2] % 2 = par THEN yadif(wv, hs, par, p[1], p[2]) ELSE wv[p]]
Shown(mode, par, wv, mo, hs) ==
    [p \in Pixels |->
        LET x == p[1]
            y == p[2]
            old == y % 2 # par
        IN  CASE mode = "yadif" -> IF old THEN wv[p] ELSE yadif(wv, hs, par, x, y)
              [] mode = "bwdif" -> IF old THEN wv[p] ELSE bwdif(wv, hs, par, x, y)
              [] mode = "blend" -> (wv[<<x, Max({y - 1, 0})>>] + 2 * wv[p] + wv[<<x, Min({y + 1, GdHeight - 1})>>] + 2) \div 4
              [] mode = "bob" -> IF old THEN Rebuilt(wv, x, y) ELSE wv[p]
              [] mode = "adaptive" -> IF old THEN Mixed(wv, RowMotion(mo, x, y), x, y) ELSE wv[p]
              [] OTHER -> wv[p]]
framebuffer_woven ==
    \E pic \in GdPictures :
        LET par == gd_field
            wv == [p \in Pixels |-> IF p[2] % 2 = par THEN pic[p] ELSE gd_woven[p]]
            mo == IF gd_mode = "adaptive"
                  THEN [p \in Pixels |-> IF p[2] % 2 = par THEN Motion(pic, p[2], p[1]) ELSE gd_motion[p]] ELSE gd_motion
            hs == IF gd_mode \in Keeps
                  THEN [gd_history EXCEPT ![par] = [p \in Pixels |-> IF p[2] % 2 = par THEN gd_woven[p] ELSE @[p]]] ELSE gd_history
        IN  /\ Change(pic # gd_pics[1])
            /\ gd_woven' = wv /\ gd_motion' = mo /\ gd_history' = hs
            /\ gd_out' = Shown(gd_mode, par, wv, mo, hs)
            /\ gd_field' = 1 - gd_field
            /\ gd_pics' = <<pic>> \o SubSeq(gd_pics, 1, 3)
            /\ gd_still' = IF pic = gd_pics[1] THEN Min({gd_still + 1, Settled(gd_mode)}) ELSE 1
            /\ gd_run' = Min({gd_run + 1, 4})
            /\ UNCHANGED gd_mode
\* The shell's setting; what the new mode compares with is as old as its last
\* use.
SetDeinterlace ==
    \E m \in GdModes \ {gd_mode} :
        /\ Change(TRUE) /\ gd_mode' = m /\ gd_still' = 0 /\ gd_run' = 0
        /\ UNCHANGED <<gd_field, gd_woven, gd_motion, gd_history, gd_out, gd_pics>>
\* DISPLAY changed size: everything kept is dropped with the first field.
Resized ==
    /\ Change(TRUE) /\ gd_woven' = Black /\ gd_motion' = Black /\ gd_history' = [f \in 0 .. 1 |-> Black]
    /\ gd_still' = 0 /\ gd_run' = 0
    /\ UNCHANGED <<gd_mode, gd_field, gd_out, gd_pics>>
GsDisplayInit ==
    /\ gd_mode \in GdModes /\ gd_field = 0 /\ gd_still = 0 /\ gd_run = 0 /\ gd_changes = 0
    /\ gd_woven = Black /\ gd_motion = Black /\ gd_history = [f \in 0 .. 1 |-> Black] /\ gd_out = Black
    /\ \E p \in GdPictures : gd_pics = [i \in 1 .. 4 |-> p]
GsDisplayNext == framebuffer_woven \/ SetDeinterlace \/ Resized
GsDisplaySpec == GsDisplayInit /\ [][GsDisplayNext]_gd_vars

(***************************************************************************)
(* Properties.                                                             *)
(***************************************************************************)
\* A picture that has stood still is shown as it is: by the weave after two
\* fields, by bwdif after four, by the adaptive mode once the motion it saw has
\* decayed, by yadif wherever a row lies between the rows around it.
Pic == gd_pics[1]
Between(p) ==
    LET up == Pic[<<p[1], Above(p[2])>>]
        down == Pic[<<p[1], Below(p[2])>>]
    IN  p[2] \in 1 .. GdHeight - 2 /\ Min({up, down}) <= Pic[p] /\ Pic[p] <= Max({up, down})
StillIsExact ==
    \A p \in Pixels :
        /\ gd_mode = "weave" /\ gd_still >= 2 => gd_out[p] = Pic[p]
        /\ gd_mode = "bwdif" /\ gd_still >= 4 => gd_out[p] = Pic[p]
        /\ gd_mode = "adaptive" /\ gd_still >= Settled(gd_mode) => gd_out[p] = Pic[p]
        /\ gd_mode = "yadif" /\ gd_still >= 4 /\ Between(p) => gd_out[p] = Pic[p]
\* The row above or below belongs to the field just taken, and differs there from
\* the instance of that field two vblanks before by enough for a full weight.
SeenInFull(p) ==
    gd_run >= 3 /\ \E y \in {Above(p[2]), Below(p[2])} : Dist(gd_pics[3][<<p[1], y>>], Pic[<<p[1], y>>]) >= MOTION_HI
\* No comb: with bob everywhere, and with the adaptive mode wherever it sees a
\* change in full, a pixel shown is made of the new field's rows only.
OnlyNewField ==
    gd_run >= 1 => \A p \in Pixels :
        gd_mode = "bob" \/ (gd_mode = "adaptive" /\ SeenInFull(p)) => \E q \in Pixels, r \in Pixels :
            q[2] % 2 # gd_field /\ r[2] % 2 # gd_field /\ gd_out[p] \in {Pic[q], (Pic[q] + Pic[r]) \div 2, (Pic[q] + Pic[r] + 1) \div 2}
\* What yadif and bwdif compare with once they have run for four fields: the
\* missing rows' own field one vblank before and one after the shown field, and
\* the shown field's previous instance.
NeighboursInTime ==
    gd_mode \in Keeps /\ gd_run >= 4 =>
        \A p \in Pixels :
           IF p[2] % 2 # gd_field THEN gd_woven[p] = gd_pics[1][p] /\ gd_history[p[2] % 2][p] = gd_pics[3][p]
           ELSE gd_woven[p] = gd_pics[2][p] /\ gd_history[p[2] % 2][p] = gd_pics[4][p]
\* What is displayed of interlaced fields.
FieldsShown == StillIsExact /\ OnlyNewField /\ NeighboursInTime
=============================================================================
