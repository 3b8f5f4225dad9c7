------------------------- MODULE PlayerWindowProofs -------------------------
(***************************************************************************)
(* The player's window, whatever the sizes, the ratios, the modes and the  *)
(* limits Windows sets: the cursor is not left hidden over a plain window, *)
(* the sizing policy ends when it enters itself, it holds once everything  *)
(* is handled, and the scene covers the window then.                       *)
(***************************************************************************)
EXTENDS PlayerWindow, TLAPS

Flags ==
    /\ fullscreen \in BOOLEAN /\ maximized \in BOOLEAN /\ iconic \in BOOLEAN
    /\ sized \in BOOLEAN /\ shown \in BOOLEAN /\ timer \in BOOLEAN /\ late \in BOOLEAN

\* CursorComesBack needs, besides itself, that a timer runs only in a window
\* that fills the screen (or one that is about to get WM_SIZE, which settles
\* both cursor and timer), and that a command is handled before any size.
CursorInv ==
    /\ Flags
    /\ command = "maximize" => fullscreen
    /\ sized => command = "none"
    /\ Idle /\ timer => fullscreen \/ maximized
    /\ CursorComesBack

LEMMA CursorInit == Init => CursorInv
BY DEF Init, CursorInv, Flags, CursorComesBack, Idle

\* The commands of the user and the requests of the video threads leave
\* cursor and timer alone; those that change the window's state also leave
\* a command or a WM_SIZE to handle.
LEMMA CursorChoices ==
    ASSUME CursorInv, SetVideoDimensions \/ SetMode \/ SetAspectRatio \/ SetLetterbox
    PROVE  CursorInv'
<1>1. /\ UNCHANGED <<fullscreen, command, cursorVars, maximized, iconic>>
      /\ (UNCHANGED sized) \/ (Idle /\ sized' \in BOOLEAN)
  BY DEF SetVideoDimensions, SetMode, SetAspectRatio, SetLetterbox, PolicyPosts, PolicyResizes,
         system
<1> QED
  BY <1>1 DEF CursorInv, Flags, CursorComesBack, Idle, cursorVars

LEMMA CursorStates ==
    ASSUME CursorInv, DragBorder \/ SysMaximize \/ SysRestore \/ Minimize \/ TakeRequest
    PROVE  CursorInv'
<1>1. CASE DragBorder \/ TakeRequest
  <2>1. /\ UNCHANGED <<fullscreen, command, cursorVars, maximized, iconic>>
        /\ Idle /\ sized' \in BOOLEAN
    BY <1>1 DEF DragBorder, TakeRequest, system
  <2> QED
    BY <2>1 DEF CursorInv, Flags, CursorComesBack, Idle, cursorVars
<1>2. CASE SysMaximize \/ SysRestore
  <2>1. /\ UNCHANGED <<cursorVars, maximized, iconic, sized>> /\ ~sized
        /\ fullscreen' \in BOOLEAN
        /\ command' = IF fullscreen' THEN "maximize" ELSE "restore"
    BY <1>2 DEF SysMaximize, SysRestore, system, Idle
  <2> QED
    BY <2>1 DEF CursorInv, Flags, CursorComesBack, Idle, cursorVars
<1>3. CASE Minimize
  BY <1>3 DEF Minimize, Becomes, CursorInv, Flags, CursorComesBack, Idle, cursorVars
<1> QED
  BY <1>1, <1>2, <1>3

LEMMA CursorCommands ==
    ASSUME CursorInv, DefMaximize \/ DefRestore
    PROVE  CursorInv'
<1>1. CASE DefMaximize
  BY <1>1 DEF DefMaximize, Becomes, system, CursorInv, Flags, CursorComesBack, Idle, cursorVars
<1>2. CASE DefRestore
  BY <1>2 DEF DefRestore, Becomes, CursorInv, Flags, CursorComesBack, Idle, cursorVars
<1> QED
  BY <1>1, <1>2

LEMMA CursorMessages ==
    ASSUME CursorInv, OnSize \/ TimerFires \/ OnTimer \/ MouseMove \/ OpenMenu
    PROVE  CursorInv'
<1>1. CASE OnSize
  <2>1. /\ UNCHANGED <<fullscreen, command, maximized, iconic>> /\ sized
        /\ sized' \in BOOLEAN
        /\ timer' = Zoomed /\ shown' = (shown \/ ~Zoomed) /\ late' = (late /\ ~(shown \/ ~Zoomed))
    BY <1>1 DEF OnSize, Show, system, PolicyResizes
  <2> QED
    BY <2>1 DEF Zoomed, CursorInv, Flags, CursorComesBack, Idle
<1>2. CASE TimerFires
  BY <1>2 DEF TimerFires, sizeVars, system, CursorInv, Flags, CursorComesBack, Idle
<1>3. CASE OnTimer
  BY <1>3 DEF OnTimer, sizeVars, system, CursorInv, Flags, CursorComesBack, Idle
<1>4. CASE MouseMove \/ OpenMenu
  <2>1. /\ UNCHANGED <<fullscreen, command, maximized, iconic, sized, timer>>
        /\ shown' = TRUE /\ late' \in BOOLEAN
    BY <1>4 DEF MouseMove, OpenMenu, Show, sizeVars, system
  <2> QED
    BY <2>1 DEF CursorInv, Flags, CursorComesBack, Idle
<1> QED
  BY <1>1, <1>2, <1>3, <1>4

\* The cursor is never left hidden over a window that is neither full screen
\* nor maximized, except by a tick that was handled after KillTimer: onSize
\* (player_window.cpp:637) shows it whenever Windows has changed the state.
THEOREM CursorAlwaysComesBack == Spec => []CursorComesBack
<1>1. Init => CursorInv
  BY CursorInit
<1>2. CursorInv /\ [Next]_vars => CursorInv'
  <2>1. SUFFICES ASSUME CursorInv, [Next]_vars PROVE CursorInv'
    OBVIOUS
  <2>2. CASE Next
    BY <2>1, <2>2, CursorChoices, CursorStates, CursorCommands, CursorMessages DEF Next
  <2>3. CASE UNCHANGED vars
    BY <2>1, <2>3 DEF vars, sizeVars, system, cursorVars, CursorInv, Flags, CursorComesBack, Idle
  <2> QED
    BY <2>1, <2>2, <2>3
<1>3. CursorInv => CursorComesBack
  BY DEF CursorInv
<1> QED
  BY <1>1, <1>2, <1>3, PTL DEF Spec

-----------------------------------------------------------------------------
(* Rounded sizes: what is scaled and cut down stays inside.                *)

\* Division rounds down.
LEMMA FloorDiv ==
    ASSUME NEW n \in Nat, NEW d \in Nat \ {0}
    PROVE  /\ n \div d \in Nat /\ (n \div d) * d <= n
           /\ n < (n \div d) * d + d
OBVIOUS

\* Products of natural numbers.
LEMMA ProductIn == ASSUME NEW a \in Nat, NEW b \in Nat PROVE a * b \in Nat
OBVIOUS

LEMMA ProductLeq ==
    ASSUME NEW a \in Nat, NEW b \in Nat, NEW c \in Nat, a <= b
    PROVE  a * c <= b * c
OBVIOUS

\* A common factor is dropped.
LEMMA Cancel ==
    ASSUME NEW a \in Nat, NEW b \in Nat, NEW c \in Nat \ {0}, a * c <= b * c
    PROVE  a <= b
<1>1. CASE b + 1 <= a
  <2>1. (b + 1) * c <= a * c
    BY <1>1, ProductLeq
  <2>2. (b + 1) * c = b * c + c
    OBVIOUS
  <2> QED BY <2>1, <2>2
<1> QED BY <1>1

\* Bounds of a quotient.
LEMMA DivLeq ==
    ASSUME NEW n \in Nat, NEW d \in Nat \ {0}, NEW x \in Nat, n <= x * d
    PROVE  n \div d <= x
<1> DEFINE q == n \div d
<1>1. q \in Nat /\ q * d <= n
  BY FloorDiv
<1> HIDE DEF q
<1>2. q * d \in Nat /\ x * d \in Nat
  BY <1>1
<1>3. q * d <= x * d
  BY <1>1, <1>2
<1>4. q <= x
  BY <1>1, <1>3, Cancel
<1> QED BY <1>4 DEF q

LEMMA DivMono ==
    ASSUME NEW m \in Nat, NEW n \in Nat, NEW d \in Nat \ {0}, m <= n
    PROVE  m \div d <= n \div d
<1> DEFINE q == n \div d
<1>1. q \in Nat /\ n < q * d + d
  BY FloorDiv
<1> DEFINE p == m \div d
<1>2. p \in Nat /\ p * d <= m
  BY FloorDiv
<1> HIDE DEF p, q
<1>3. (q + 1) * d = q * d + d
  BY <1>1
<1>4. p * d \in Nat /\ q * d \in Nat
  BY <1>1, <1>2
<1>5. CASE q + 1 <= p
  <2>1. (q + 1) * d <= p * d
    BY <1>1, <1>2, <1>5, ProductLeq
  <2> QED BY <1>1, <1>2, <1>3, <1>4, <2>1
<1>6. p <= q
  BY <1>1, <1>2, <1>5
<1> QED BY <1>6 DEF p, q

LEMMA DivExact ==
    ASSUME NEW k \in Nat, NEW d \in Nat \ {0}
    PROVE  (d * k) \div d = k
OBVIOUS

LEMMA DivAtLeast ==
    ASSUME NEW n \in Nat, NEW d \in Nat \ {0}, NEW x \in Nat, x * d <= n
    PROVE  x <= n \div d
<1>1. x * d \in Nat /\ (x * d) \div d = x
  BY DivExact
<1> QED BY <1>1, DivMono

\* A rectangle that is no higher than a ratio asks is none higher than a
\* narrower one does.
LEMMA Narrower ==
    ASSUME NEW w \in Nat, NEW h \in Nat, NEW an \in Nat \ {0}, NEW ad \in Nat \ {0},
           NEW ln \in Nat \ {0}, NEW ld \in Nat \ {0}, h * an <= w * ad, ln * ad <= an * ld
    PROVE  h * ln <= w * ld
<1>1. h * an \in Nat /\ w * ad \in Nat /\ ln * ad \in Nat /\ an * ld \in Nat /\ h * ln \in Nat /\ w * ld \in Nat
  BY ProductIn
<1>2. (ln * ad) * h <= (an * ld) * h
  BY <1>1, ProductLeq
<1>3. (h * an) * ld <= (w * ad) * ld
  BY <1>1, ProductLeq
<1>4. (ln * ad) * h = (h * ln) * ad /\ (an * ld) * h = (h * an) * ld /\ (w * ad) * ld = (w * ld) * ad
  OBVIOUS
<1>5. (h * ln) * ad <= (w * ld) * ad
  BY <1>1, <1>2, <1>3, <1>4
<1> QED BY <1>1, <1>5, Cancel

Ratios == [num : Nat \ {0}, den : Nat \ {0}]
Positive == [cx : Nat \ {0}, cy : Nat \ {0}]

\* Neither length of a size is more than the other's.
Covers(large, small) == small.cx <= large.cx /\ small.cy <= large.cy

\* FixWidth and FixHeight make a size of a size.
LEMMA FixSizes ==
    ASSUME NEW size \in Sizes, NEW f \in Ratios
    PROVE  /\ FixWidth(size, f) = [cx |-> (size.cy * f.num) \div f.den, cy |-> size.cy]
           /\ FixHeight(size, f) = [cx |-> size.cx, cy |-> (size.cx * f.den) \div f.num]
           /\ FixWidth(size, f) \in Sizes /\ FixHeight(size, f) \in Sizes
<1>1. (size.cy * f.num) \in Nat /\ (size.cx * f.den) \in Nat
  BY ProductIn DEF Sizes, Ratios
<1>2. (size.cy * f.num) \div f.den \in Nat /\ (size.cx * f.den) \div f.num \in Nat
  BY <1>1, FloorDiv DEF Ratios
<1>3. FixWidth(size, f) = [cx |-> (size.cy * f.num) \div f.den, cy |-> size.cy]
  BY DEF FixWidth, Sizes
<1>4. FixHeight(size, f) = [cx |-> size.cx, cy |-> (size.cx * f.den) \div f.num]
  BY DEF FixHeight, Sizes
<1> QED BY <1>2, <1>3, <1>4 DEF Sizes

LEMMA ScaleIn ==
    ASSUME NEW size \in Sizes, NEW f \in [num : Nat, den : Nat \ {0}]
    PROVE  ScaleSize(size, f) \in Sizes
<1>1. (size.cx * f.num) \in Nat /\ (size.cy * f.num) \in Nat
  BY ProductIn DEF Sizes
<1>2. (size.cx * f.num) \div f.den \in Nat /\ (size.cy * f.num) \div f.den \in Nat
  BY <1>1, FloorDiv
<1> QED BY <1>2 DEF ScaleSize, Sizes

\* Scaling keeps a size around another.
LEMMA ScaleCovers ==
    ASSUME NEW large \in Sizes, NEW small \in Sizes, Covers(large, small),
           NEW f \in [num : Nat, den : Nat \ {0}]
    PROVE  Covers(ScaleSize(large, f), ScaleSize(small, f))
<1> DEFINE n == f.num  d == f.den
           lx == large.cx  ly == large.cy  sx == small.cx  sy == small.cy
<1>1. /\ n \in Nat /\ d \in Nat \ {0} /\ lx \in Nat /\ ly \in Nat /\ sx \in Nat /\ sy \in Nat
      /\ sx <= lx /\ sy <= ly
  BY DEF Sizes, Covers
<1>2. /\ ScaleSize(large, f) = [cx |-> (lx * n) \div d, cy |-> (ly * n) \div d]
      /\ ScaleSize(small, f) = [cx |-> (sx * n) \div d, cy |-> (sy * n) \div d]
  BY DEF ScaleSize
<1> HIDE DEF n, d, lx, ly, sx, sy
<1>3. lx * n \in Nat /\ ly * n \in Nat /\ sx * n \in Nat /\ sy * n \in Nat
  BY <1>1, ProductIn
<1>4. sx * n <= lx * n /\ sy * n <= ly * n
  BY <1>1, ProductLeq
<1>5. (sx * n) \div d <= (lx * n) \div d /\ (sy * n) \div d <= (ly * n) \div d
  BY <1>1, <1>3, <1>4, DivMono
<1> QED BY <1>2, <1>5 DEF Covers

\* The part of a picture inside a letterbox is a part of it.
LEMMA ShrinkCovers ==
    ASSUME NEW v \in Positive, NEW a \in Ratios, NEW l \in Ratios
    PROVE  /\ ArFixed(v, a) \in Sizes /\ Protected(v, a, l) \in Sizes
           /\ Covers(ArFixed(v, a), Protected(v, a, l))
<1> DEFINE F == ArFixed(v, a)
           P == Protected(v, a, l)
           an == a.num  ad == a.den  ln == l.num  ld == l.den
<1>1. /\ an \in Nat \ {0} /\ ad \in Nat \ {0} /\ ln \in Nat \ {0} /\ ld \in Nat \ {0}
      /\ v \in Sizes /\ v.cx \in Nat /\ v.cy \in Nat
  BY DEF Ratios, Positive, Sizes
<1>2. /\ an * ld \in Nat /\ ln * ad \in Nat /\ v.cx * ad \in Nat /\ v.cy * an \in Nat /\ an * v.cy = v.cy * an
  BY <1>1, ProductIn
\* What FixEnlarge does.
<1>3. /\ F \in Sizes /\ F.cx \in Nat /\ F.cy \in Nat
      /\ \/ F.cx = v.cx /\ F.cy = (v.cx * ad) \div an
         \/ F.cx = (v.cy * an) \div ad /\ F.cy = v.cy
         \/ F.cx = v.cx /\ F.cy = v.cy /\ v.cx * ad = v.cy * an
  <2>1. Wider(RatioOf(v), a) <=> v.cx * ad > v.cy * an
    BY <1>2 DEF Wider, RatioOf, Ratio
  <2>2. Wider(a, RatioOf(v)) <=> v.cy * an > v.cx * ad
    BY <1>2 DEF Wider, RatioOf, Ratio
  <2>3. F = IF Wider(RatioOf(v), a) THEN FixHeight(v, a) ELSE IF Wider(a, RatioOf(v)) THEN FixWidth(v, a) ELSE v
    BY DEF ArFixed, FixEnlarge
  <2>7. /\ FixWidth(v, a) = [cx |-> (v.cy * an) \div ad, cy |-> v.cy] /\ FixWidth(v, a) \in Sizes
        /\ FixHeight(v, a) = [cx |-> v.cx, cy |-> (v.cx * ad) \div an] /\ FixHeight(v, a) \in Sizes
    BY <1>1, FixSizes
  <2>8. \A s \in Sizes : s.cx \in Nat /\ s.cy \in Nat
    BY DEF Sizes
  <2> HIDE DEF F, an, ad
  <2>4. CASE Wider(RatioOf(v), a)
    BY <2>3, <2>4, <2>7, <2>8
  <2>5. CASE ~Wider(RatioOf(v), a) /\ Wider(a, RatioOf(v))
    BY <2>3, <2>5, <2>7, <2>8
  <2>6. CASE ~Wider(RatioOf(v), a) /\ ~Wider(a, RatioOf(v))
    BY <1>1, <1>2, <2>1, <2>2, <2>3, <2>6
  <2> QED BY <2>4, <2>5, <2>6
\* What FixShrink does.
<1>4. /\ P \in Sizes
      /\ \/ an * ld > ln * ad /\ P.cx = (F.cy * ln) \div ld /\ P.cy = F.cy
         \/ ln * ad > an * ld /\ P.cx = F.cx /\ P.cy = (F.cx * ld) \div ln
         \/ P = F
  <2>1. (Wider(a, l) <=> an * ld > ln * ad) /\ (Wider(l, a) <=> ln * ad > an * ld)
    BY DEF Wider
  <2>2. P = IF Wider(a, l) THEN FixWidth(F, l) ELSE IF Wider(l, a) THEN FixHeight(F, l) ELSE F
    BY DEF Protected, FixShrink
  <2> HIDE DEF F, P
  <2>3. /\ FixWidth(F, l) = [cx |-> (F.cy * ln) \div ld, cy |-> F.cy] /\ FixWidth(F, l) \in Sizes
        /\ FixHeight(F, l) = [cx |-> F.cx, cy |-> (F.cx * ld) \div ln] /\ FixHeight(F, l) \in Sizes
    BY <1>3, FixSizes
  <2>4. CASE Wider(a, l)
    BY <2>1, <2>2, <2>3, <2>4
  <2>5. CASE ~Wider(a, l) /\ Wider(l, a)
    BY <2>1, <2>2, <2>3, <2>5
  <2>6. CASE ~Wider(a, l) /\ ~Wider(l, a)
    BY <1>3, <2>2, <2>6
  <2> QED BY <2>4, <2>5, <2>6
<1> DEFINE x == F.cx  y == F.cy
<1>5. x \in Nat /\ y \in Nat
  BY <1>3
\* Where the letterbox is narrower its width follows the height.
<1>6. ASSUME an * ld > ln * ad PROVE (y * ln) \div ld <= x
  <2>1. ASSUME y * an <= x * ad PROVE (y * ln) \div ld <= x
    <3> HIDE DEF x, y, an, ad, ln, ld
    <3>1. y * ln <= x * ld
      BY <1>1, <1>2, <1>5, <1>6, <2>1, Narrower
    <3>2. y * ln \in Nat
      BY <1>1, <1>5, ProductIn
    <3> QED BY <1>1, <1>5, <3>1, <3>2, DivLeq
  <2>2. CASE F.cx = v.cx /\ F.cy = (v.cx * ad) \div an
    <3>1. y * an <= x * ad
      <4> HIDE DEF F, an, ad, ln, ld
      <4> QED BY <1>1, <1>2, <2>2, FloorDiv
    <3> QED BY <2>1, <3>1
  <2>3. CASE F.cx = v.cx /\ F.cy = v.cy /\ v.cx * ad = v.cy * an
    <3>1. y * an <= x * ad
      <4> HIDE DEF F, an, ad, ln, ld
      <4> QED BY <1>2, <2>3
    <3> QED BY <2>1, <3>1
  <2>4. CASE F.cx = (v.cy * an) \div ad /\ F.cy = v.cy
    <3> HIDE DEF F, an, ad, ln, ld
    <3> DEFINE q == (y * ln) \div ld
    <3>1. y * ln \in Nat /\ x = (y * an) \div ad /\ y * an \in Nat
      BY <1>1, <1>5, <2>4, ProductIn
    <3> HIDE DEF x, y
    <3>2. q \in Nat /\ q * ld <= y * ln
      BY <1>1, <3>1, FloorDiv
    <3> HIDE DEF q
    <3>3. ad * ln <= ld * an
      BY <1>1, <1>2, <1>6
    <3>4. q * ad <= y * an
      BY <1>1, <1>5, <3>2, <3>3, Narrower
    <3>5. q <= x
      BY <1>1, <3>1, <3>2, <3>4, DivAtLeast
    <3> QED BY <3>5 DEF q
  <2> QED BY <1>3, <2>2, <2>3, <2>4
\* Where it is wider its height follows the width.
<1>7. ASSUME ln * ad > an * ld PROVE (x * ld) \div ln <= y
  <2>1. ASSUME x * ad <= y * an PROVE (x * ld) \div ln <= y
    <3> HIDE DEF x, y, an, ad, ln, ld
    <3>0. ld * an <= ad * ln
      BY <1>1, <1>2, <1>7
    <3>1. x * ld <= y * ln
      BY <1>1, <1>5, <2>1, <3>0, Narrower
    <3>2. x * ld \in Nat
      BY <1>1, <1>5, ProductIn
    <3> QED BY <1>1, <1>5, <3>1, <3>2, DivLeq
  <2>2. CASE F.cx = (v.cy * an) \div ad /\ F.cy = v.cy
    <3>1. x * ad <= y * an
      <4> HIDE DEF F, an, ad, ln, ld
      <4> QED BY <1>1, <1>2, <2>2, FloorDiv
    <3> QED BY <2>1, <3>1
  <2>3. CASE F.cx = v.cx /\ F.cy = v.cy /\ v.cx * ad = v.cy * an
    <3>1. x * ad <= y * an
      <4> HIDE DEF F, an, ad, ln, ld
      <4> QED BY <1>2, <2>3
    <3> QED BY <2>1, <3>1
  <2>4. CASE F.cx = v.cx /\ F.cy = (v.cx * ad) \div an
    <3> HIDE DEF F, an, ad, ln, ld
    <3> DEFINE q == (x * ld) \div ln
    <3>1. x * ld \in Nat /\ y = (x * ad) \div an /\ x * ad \in Nat
      BY <1>1, <1>5, <2>4, ProductIn
    <3> HIDE DEF x, y
    <3>2. q \in Nat /\ q * ln <= x * ld
      BY <1>1, <3>1, FloorDiv
    <3> HIDE DEF q
    <3>3. an * ld <= ln * ad
      BY <1>1, <1>2, <1>7
    <3>4. q * an <= x * ad
      BY <1>1, <1>5, <3>2, <3>3, Narrower
    <3>5. q <= y
      BY <1>1, <3>1, <3>2, <3>4, DivAtLeast
    <3> QED BY <3>5 DEF q
  <2> QED BY <1>3, <2>2, <2>3, <2>4
<1> HIDE DEF F, P, an, ad, ln, ld
<1>8. ASSUME P.cx = (F.cy * ln) \div ld, P.cy = F.cy, an * ld > ln * ad PROVE Covers(F, P)
  <2>1. P.cx <= F.cx
    BY <1>6, <1>8
  <2> QED BY <1>5, <1>8, <2>1 DEF Covers
<1>9. ASSUME P.cx = F.cx, P.cy = (F.cx * ld) \div ln, ln * ad > an * ld PROVE Covers(F, P)
  <2>1. P.cy <= F.cy
    BY <1>7, <1>9
  <2> QED BY <1>5, <1>9, <2>1 DEF Covers
<1>10. ASSUME P = F PROVE Covers(F, P)
  BY <1>5, <1>10 DEF Covers
<1>11. F \in Sizes /\ P \in Sizes /\ Covers(F, P)
  BY <1>3, <1>4, <1>8, <1>9, <1>10
<1> QED BY <1>11 DEF F, P

-----------------------------------------------------------------------------
(* The sizing policy, applied again and again.                             *)

\* The limit Windows sets, of a length no part of the screen exceeds.
Wide(size) == size \in Sizes /\ size.cx <= Largest

ChosenOK ==
    /\ video \in VideoSizes \cup {FirstSize}
    /\ ar \in Choices /\ lb \in Choices /\ mode \in Modes
    /\ Wide(known)

Types ==
    /\ ChosenOK
    /\ Wide(window) /\ Wide(normal)
    /\ asked \in Seq(Sizes)
    /\ aspect \in Ratios
    /\ sized \in BOOLEAN /\ depth \in Nat
    /\ sized => command = "none"

\* While no WM_SIZE is on its way awkawk knows the size of the window.
SizeKnown == ~sized => depth = 0 /\ known = window

\* Inside apply_sizing_policy a WM_SIZE is to be handled, of a size that the
\* policy will grant again.
Nested ==
    depth > 0 =>
        /\ sized /\ known # window
        /\ \/ RunsAway
           \/ /\ depth = 1 /\ window = Granted(WindowSize)
              /\ mode = "free" => window.cx = known.cx

\* Whatever is still asked for, the last request is for the right size, or the
\* window has it already.
Applied ==
    Idle /\ ~missed =>
        IF fullscreen THEN scene = FullScene(window)
        ELSE /\ scene = WindowScene
             /\ \/ window = Granted(WindowSize)
                \/ asked # <<>> /\ asked[Len(asked)] = WindowSize

SizeInv == Types /\ SizeKnown /\ Nested /\ Applied

\* The sizes the window and the video start from.
LEMMA Limits ==
    /\ Wide(FirstSize) /\ Wide(Screen) /\ Wide(Work) /\ Wide(Icon)
    /\ Largest \in Nat
    /\ VideoSizes \cup {FirstSize} \subseteq Positive
BY WindowAssumption DEF Wide, Sizes, Positive

\* A size cut to a limit, and one Windows grants.
LEMMA CutWide ==
    ASSUME NEW size \in Sizes, NEW most, Wide(most)
    PROVE  Wide(Within(size, most)) /\ Covers(size, Within(size, most))
BY Limits DEF Wide, Sizes, Within, Covers

LEMMA GrantedWide ==
    ASSUME Wide(window), NEW size \in Sizes
    PROVE  Wide(Granted(size))
<1>1. Within(size, [cx |-> Largest, cy |-> Largest]) \in Sizes
  BY Limits DEF Sizes, Within
<1>2. Within(size, [cx |-> Largest, cy |-> Largest]).cx <= Largest
  BY Limits DEF Sizes, Within
<1> QED BY <1>1, <1>2 DEF Granted, Wide

\* A choice in the menu is a ratio.
LEMMA RatiosOK ==
    ASSUME NEW v \in Positive, NEW a \in Choices, NEW l \in Choices
    PROVE  ArOf(a, v) \in Ratios /\ LbOf(l, a, v) \in Ratios
<1>1. RatioOf(v) \in Ratios
  BY DEF RatioOf, Ratio, Ratios, Positive
<1>2. \A i \in Choices : i # 0 => FixedRatios[i] \in Ratios
  <2>1. FixedRatios \in Seq(Ratios)
    BY WindowAssumption DEF Ratios
  <2> QED BY <2>1 DEF Choices
<1> QED BY <1>1, <1>2 DEF ArOf, LbOf

\* What the policy works out are sizes, and the scene it works out is around
\* the window it does.
LEMMA PolicySizes ==
    ASSUME ChosenOK
    PROVE  /\ LbOf(lb, ar, video) \in Ratios
           /\ Safe \in Sizes /\ Safe.cx \in Nat /\ video.cx \in Nat \ {0} /\ known.cx \in Nat
           /\ WindowSize \in Sizes /\ WindowScene \in Sizes /\ Covers(WindowScene, WindowSize)
<1>1. video \in Positive /\ ArOf(ar, video) \in Ratios /\ LbOf(lb, ar, video) \in Ratios
  BY Limits, RatiosOK DEF ChosenOK
<1>2. Fixed \in Sizes /\ Safe \in Sizes /\ Covers(Fixed, Safe)
  BY <1>1, ShrinkCovers DEF Fixed, Safe
<1>3. video.cx \in Nat \ {0} /\ known.cx \in Nat /\ Safe.cx \in Nat
  BY <1>1, <1>2 DEF Positive, Sizes, ChosenOK, Wide
<1>4. Multiplier \in [num : Nat, den : Nat \ {0}]
  BY <1>3 DEF Multiplier, SizeMultiplier, Ratio, ChosenOK, Modes
<1> QED BY <1>1, <1>2, <1>3, <1>4, ScaleIn, ScaleCovers DEF WindowSize, WindowScene

LEMMA PolicyTypes == ChosenOK => LbOf(lb, ar, video) \in Ratios /\ WindowSize \in Sizes
BY PolicySizes

\* The width of a free window is its own, unless it runs away.
LEMMA FreeWidth ==
    ASSUME ChosenOK, mode = "free", ~RunsAway, ~iconic
    PROVE  Granted(WindowSize).cx = known.cx
<1>1. /\ Safe.cx = video.cx /\ video.cx \in Nat \ {0} /\ known.cx \in Nat /\ known.cx <= Largest
  BY PolicySizes DEF RunsAway, ChosenOK, Wide
<1>2. WindowSize.cx = (Safe.cx * known.cx) \div video.cx
  BY DEF WindowSize, ScaleSize, Multiplier, SizeMultiplier, Ratio
<1>3. WindowSize.cx = known.cx
  BY <1>1, <1>2, DivExact
<1> QED BY <1>1, <1>3, Limits DEF Granted, Within

\* The size worked out depends on what awkawk knows of the window only where
\* the window is free, and then on its width.
LEMMA SameSize ==
    ASSUME ChosenOK, UNCHANGED <<video, ar, lb, mode>>, mode = "free" => known'.cx = known.cx
    PROVE  WindowSize' = WindowSize /\ RunsAway' = RunsAway
<1>1. Safe' = Safe
  BY DEF Safe
<1>2. Multiplier' = Multiplier
  BY DEF Multiplier, SizeMultiplier, ChosenOK, Modes
<1> QED BY <1>1, <1>2 DEF WindowSize, RunsAway

\* apply_sizing_policy on the window thread, with the size of the window known.
LEMMA ResizesInv ==
    ASSUME Types, command = "none", PolicyResizes, known' = window, ChosenOK',
           UNCHANGED <<fullscreen, system, command>>,
           depth = 0 \/ RunsAway' \/ window = Granted(WindowSize')
    PROVE  SizeInv'
<1>1. LbOf(lb', ar', video') \in Ratios /\ WindowSize' \in Sizes
  <2>1. (ChosenOK => LbOf(lb, ar, video) \in Ratios /\ WindowSize \in Sizes)'
    BY PolicyTypes, PTL
  <2> QED BY <2>1
<1>2. /\ window' = IF fullscreen THEN window ELSE Granted(WindowSize')
      /\ sized' = (window' # window) /\ asked' = asked
      /\ depth' = IF window' # window THEN depth + 1 ELSE 0
      /\ Policy
  BY DEF PolicyResizes
<1>3. Types'
  <2>1. Wide(window)'
    BY <1>1, <1>2, GrantedWide DEF Types, Wide
  <2>2. aspect' \in Ratios
    BY <1>1, <1>2 DEF Policy
  <2> QED BY <1>2, <2>1, <2>2 DEF Types, system, Wide
<1>4. ~fullscreen => window' = Granted(WindowSize)'
  BY <1>2 DEF Granted, system
<1>5. SizeKnown'
  BY <1>2 DEF SizeKnown
<1>6. Nested'
  <2> SUFFICES ASSUME window' # window
      PROVE  /\ sized' /\ known' # window'
             /\ \/ RunsAway'
                \/ /\ depth' = 1 /\ window' = Granted(WindowSize)'
                   /\ mode' = "free" => window'.cx = known'.cx
    BY <1>2 DEF Nested
  <2>1. ~fullscreen /\ ~iconic /\ ~iconic'
    BY <1>2 DEF Granted, system
  <2>2. CASE ~RunsAway'
    <3>1. depth = 0
      BY <1>2, <2>1, <2>2
    <3>2. mode' = "free" => Granted(WindowSize)'.cx = known'.cx
      <4>1. (ChosenOK /\ mode = "free" /\ ~RunsAway /\ ~iconic => Granted(WindowSize).cx = known.cx)'
        BY FreeWidth, PTL
      <4> QED BY <2>1, <2>2, <4>1
    <3>3. depth' = 1
      BY <1>2, <3>1
    <3>4. sized' /\ known' # window' /\ window' = Granted(WindowSize)'
      BY <1>2, <1>4, <2>1
    <3>5. mode' = "free" => window'.cx = known'.cx
      BY <3>2, <3>4
    <3> QED BY <3>3, <3>4, <3>5
  <2> QED BY <1>2, <2>2
<1>7. Applied'
  <2> SUFFICES ASSUME Idle', ~missed'
      PROVE  IF fullscreen' THEN scene' = FullScene(window)'
             ELSE scene' = WindowScene' /\ window' = Granted(WindowSize)'
    BY DEF Applied
  <2> QED BY <1>2, <1>4 DEF Policy
<1> QED BY <1>3, <1>5, <1>6, <1>7 DEF SizeInv

\* The choices of the user.
LEMMA ChoicesInv ==
    ASSUME SizeInv, SetMode \/ SetAspectRatio \/ SetLetterbox
    PROVE  SizeInv'
<1>1. /\ Idle /\ PolicyResizes /\ UNCHANGED <<video, known, fullscreen, system, command>>
      /\ mode' \in Modes /\ ar' \in Choices /\ lb' \in Choices
  BY WindowAssumption DEF SetMode, SetAspectRatio, SetLetterbox, SizeInv, Types, ChosenOK
<1>2. ChosenOK'
  BY <1>1 DEF SizeInv, Types, ChosenOK, Wide
<1>3. known' = window /\ depth = 0 /\ command = "none"
  BY <1>1 DEF SizeInv, SizeKnown, Idle
<1> QED BY <1>1, <1>2, <1>3, ResizesInv DEF SizeInv

\* WM_SIZE.
LEMMA OnSizeInv ==
    ASSUME SizeInv, OnSize
    PROVE  SizeInv'
<1>1. /\ sized /\ command = "none" /\ known' = window
      /\ UNCHANGED <<video, ar, lb, mode, fullscreen, system, command>>
  BY DEF OnSize, choices, SizeInv, Types
<1>2. ChosenOK'
  BY <1>1 DEF SizeInv, Types, ChosenOK, Wide
<1>3. CASE known # window
  <2>1. PolicyResizes
    BY <1>3 DEF OnSize
  <2>2. depth = 0 \/ RunsAway' \/ window = Granted(WindowSize')
    <3>1. ASSUME depth # 0, ~RunsAway
          PROVE  window = Granted(WindowSize')
      <4>1. window = Granted(WindowSize) /\ (mode = "free" => window.cx = known.cx)
        BY <3>1 DEF SizeInv, Nested, Types
      <4>2. WindowSize' = WindowSize
        BY <1>1, <4>1, SameSize DEF SizeInv, Types
      <4> QED BY <4>1, <4>2
    <3>2. RunsAway' = RunsAway
      BY <1>1 DEF RunsAway, Safe
    <3> QED BY <3>1, <3>2
  <2> QED BY <1>1, <1>2, <2>1, <2>2, ResizesInv DEF SizeInv
<1>4. CASE known = window
  <2>1. /\ sized' = FALSE /\ depth' = 0 /\ UNCHANGED <<scene, aspect, window, asked>>
        /\ missed' = (missed \/ depth = 0)
    BY <1>4 DEF OnSize
  <2>2. depth = 0
    BY <1>4 DEF SizeInv, Nested, Types
  <2>3. Types'
    BY <1>1, <1>2, <2>1 DEF SizeInv, Types, system, Wide
  <2>4. SizeKnown' /\ Nested'
    BY <1>1, <2>1 DEF SizeKnown, Nested
  <2>5. Applied'
    BY <2>1, <2>2 DEF Applied
  <2> QED BY <2>3, <2>4, <2>5 DEF SizeInv
<1> QED BY <1>3, <1>4

\* A request at the end of the queue.
LEMMA AskedLast ==
    ASSUME NEW q \in Seq(Sizes), NEW x \in Sizes
    PROVE  Append(q, x) \in Seq(Sizes) /\ Append(q, x) # <<>> /\ Append(q, x)[Len(Append(q, x))] = x
OBVIOUS

\* The request at the head is the last one, or leaves that.
LEMMA AskedTail ==
    ASSUME NEW q \in Seq(Sizes), q # <<>>
    PROVE  /\ Head(q) \in Sizes /\ Tail(q) \in Seq(Sizes)
           /\ Tail(q) = <<>> => Head(q) = q[Len(q)]
           /\ Tail(q) # <<>> => Tail(q)[Len(Tail(q))] = q[Len(q)]
<1> DEFINE t == Tail(q)
<1>1. /\ Head(q) \in Sizes /\ Head(q) = q[1] /\ t \in Seq(Sizes) /\ Len(q) \in Nat \ {0}
      /\ Len(t) = Len(q) - 1 /\ \A i \in 1..Len(t) : t[i] = q[i + 1]
  OBVIOUS
<1>2. t # <<>> => Len(t) # 0
  BY <1>1
<1> HIDE DEF t
<1>3. t = <<>> => Len(t) = 0
  OBVIOUS
<1>4. t # <<>> => Len(t) \in 1..Len(t) /\ Len(t) + 1 = Len(q)
  BY <1>1, <1>2
<1>5. t # <<>> => t[Len(t)] = q[Len(q)]
  BY <1>1, <1>4
<1> QED BY <1>1, <1>3, <1>5 DEF t

\* A video thread applies the policy with a new size of the video.
LEMMA VideoInv ==
    ASSUME SizeInv, SetVideoDimensions
    PROVE  SizeInv'
<1>1. /\ depth = 0 /\ depth' = 0 /\ video' \in VideoSizes
      /\ UNCHANGED <<known, ar, lb, mode, fullscreen, window, sized, system, command>>
      /\ asked' = IF fullscreen THEN asked ELSE Append(asked, WindowSize')
      /\ Policy
  BY DEF SetVideoDimensions, PolicyPosts, choices
<1>2. ChosenOK'
  BY <1>1 DEF SizeInv, Types, ChosenOK, Wide
<1>3. LbOf(lb', ar', video') \in Ratios /\ WindowSize' \in Sizes
  <2>1. (ChosenOK => LbOf(lb, ar, video) \in Ratios /\ WindowSize \in Sizes)'
    BY PolicyTypes, PTL
  <2> QED BY <1>2, <2>1
<1>4. /\ asked' \in Seq(Sizes)
      /\ ~fullscreen => asked' # <<>> /\ asked'[Len(asked')] = WindowSize'
  BY <1>1, <1>3, AskedLast DEF SizeInv, Types
<1>5. Types'
  BY <1>1, <1>2, <1>3, <1>4 DEF SizeInv, Types, Policy, system, Wide
<1>6. SizeKnown' /\ Nested'
  BY <1>1 DEF SizeInv, SizeKnown, Nested
<1>7. Applied'
  BY <1>1, <1>4 DEF Applied, Policy
<1> QED BY <1>5, <1>6, <1>7 DEF SizeInv

\* Where nothing the policy is made of changes, what it makes does not.
LEMMA SamePolicy ==
    ASSUME Applied, Idle, UNCHANGED <<video, known, ar, lb, mode, fullscreen, iconic, window, scene, missed, asked>>
    PROVE  Applied'
<1>1. WindowSize' = WindowSize /\ WindowScene' = WindowScene /\ FullScene(window)' = FullScene(window)
  BY DEF WindowSize, WindowScene, FullScene, Multiplier, Safe, Fixed
<1>2. Granted(WindowSize)' = Granted(WindowSize)
  BY <1>1 DEF Granted
<1> QED BY <1>1, <1>2 DEF Applied

\* A posted request is carried out.
LEMMA RequestInv ==
    ASSUME SizeInv, TakeRequest
    PROVE  SizeInv'
<1>1. /\ Idle /\ asked # <<>> /\ asked' = Tail(asked) /\ window' = Granted(Head(asked))
      /\ sized' = (window' # window)
      /\ UNCHANGED <<video, known, ar, lb, mode, scene, fullscreen, aspect, normal, maximized, iconic, depth, command, missed>>
  BY DEF TakeRequest, choices, system
<1>2. /\ Head(asked) \in Sizes /\ asked' \in Seq(Sizes)
      /\ asked' = <<>> => Head(asked) = asked[Len(asked)]
      /\ asked' # <<>> => asked'[Len(asked')] = asked[Len(asked)]
  BY <1>1, AskedTail DEF SizeInv, Types
<1>3. depth = 0 /\ known = window /\ ~sized /\ command = "none"
  BY <1>1 DEF SizeInv, SizeKnown, Idle
<1>4. Types'
  <2>1. Wide(window')
    BY <1>1, <1>2, GrantedWide DEF SizeInv, Types
  <2> QED BY <1>1, <1>2, <1>3, <2>1 DEF SizeInv, Types, ChosenOK, Wide
<1>5. SizeKnown' /\ Nested'
  <2>1. depth' = 0 /\ known' = window /\ (~sized' => window' = window)
    BY <1>1, <1>3
  <2> QED BY <2>1 DEF SizeKnown, Nested
<1>6. Applied'
  <2> SUFFICES ASSUME Idle', ~missed'
      PROVE  IF fullscreen' THEN scene' = FullScene(window)'
             ELSE /\ scene' = WindowScene'
                  /\ \/ window' = Granted(WindowSize)'
                     \/ asked' # <<>> /\ asked'[Len(asked')] = WindowSize'
    BY DEF Applied
  <2>1. window' = window
    BY <1>1 DEF Idle
  <2>2. WindowSize' = WindowSize /\ WindowScene' = WindowScene /\ FullScene(window)' = FullScene(window)
    BY <1>1, <2>1 DEF WindowSize, WindowScene, FullScene, Multiplier, Safe, Fixed
  <2>3. Granted(WindowSize)' = Granted(WindowSize)
    BY <1>1, <2>1, <2>2 DEF Granted
  <2>4. IF fullscreen THEN scene = FullScene(window)
        ELSE /\ scene = WindowScene
             /\ window = Granted(WindowSize) \/ asked[Len(asked)] = WindowSize
    BY <1>1 DEF SizeInv, Applied
  <2>5. CASE fullscreen
    BY <1>1, <2>2, <2>4, <2>5
  <2>6. CASE ~fullscreen /\ window = Granted(WindowSize)
    BY <1>1, <2>1, <2>2, <2>3, <2>4, <2>6
  <2>7. CASE ~fullscreen /\ asked[Len(asked)] = WindowSize /\ asked' = <<>>
    BY <1>1, <1>2, <2>1, <2>2, <2>3, <2>4, <2>7
  <2>8. CASE ~fullscreen /\ asked[Len(asked)] = WindowSize /\ asked' # <<>>
    BY <1>1, <1>2, <2>2, <2>4, <2>8
  <2> QED BY <2>4, <2>5, <2>6, <2>7, <2>8
<1> QED BY <1>4, <1>5, <1>6 DEF SizeInv

\* The border is dragged.
LEMMA DragInv ==
    ASSUME SizeInv, DragBorder
    PROVE  SizeInv'
<1>1. /\ Idle /\ ~fullscreen /\ sized' = (window' # window)
      /\ UNCHANGED <<video, known, ar, lb, mode, scene, fullscreen, aspect, normal, maximized, iconic, asked, depth, command, missed>>
  BY DEF DragBorder, choices, system
<1>2. PICK edge \in {"side", "top", "corner"}, size \in Drags :
        window' = Within(Sizing(edge, size), MaxSize(fullscreen))
  BY DEF DragBorder
<1>3. Sizing(edge, size) \in Sizes
  <2>1. size \in Sizes /\ aspect \in Ratios
    BY WindowAssumption DEF SizeInv, Types, Sizes
  <2>2. FixWidth(size, aspect) \in Sizes /\ FixHeight(size, aspect) \in Sizes
    BY <2>1, FixSizes
  <2> QED BY <2>2 DEF Sizing
<1>4. Wide(window')
  BY <1>1, <1>2, <1>3, CutWide, Limits DEF MaxSize
<1>5. depth = 0 /\ known = window /\ ~sized /\ command = "none"
  BY <1>1 DEF SizeInv, SizeKnown, Idle
<1>6. Types'
  BY <1>1, <1>4, <1>5 DEF SizeInv, Types, ChosenOK, Wide
<1>7. SizeKnown' /\ Nested'
  <2>1. depth' = 0 /\ known' = window /\ (~sized' => window' = window)
    BY <1>1, <1>5
  <2> QED BY <2>1 DEF SizeKnown, Nested
<1>8. Applied'
  <2>1. CASE window' = window
    BY <1>1, <2>1, SamePolicy DEF SizeInv
  <2>2. CASE window' # window
    BY <1>1, <2>2 DEF Applied, Idle
  <2> QED BY <2>1, <2>2
<1> QED BY <1>6, <1>7, <1>8 DEF SizeInv

\* The window changes state: a command on its way, a WM_SIZE to come, or a
\* policy that was missed.
LEMMA StatesInv ==
    ASSUME SizeInv, SysMaximize \/ SysRestore \/ DefMaximize \/ DefRestore \/ Minimize
    PROVE  SizeInv'
<1>1. ~sized /\ depth = 0 /\ known = window
  BY DEF SysMaximize, SysRestore, DefMaximize, DefRestore, Minimize, SizeInv, SizeKnown, Types, Idle
<1>2. CASE SysMaximize \/ SysRestore
  <2>1. /\ UNCHANGED <<video, known, ar, lb, mode, aspect, window, normal, asked, sized, depth>>
        /\ command' # "none"
    BY <1>2 DEF SysMaximize, SysRestore, choices, system
  <2>2. Types'
    BY <1>1, <2>1 DEF SizeInv, Types, ChosenOK, Wide
  <2> QED BY <1>1, <2>1, <2>2 DEF SizeInv, SizeKnown, Nested, Applied, Idle
<1>3. ASSUME NEW max, NEW icon, NEW size, Wide(size), Becomes(max, icon, size), command' = "none"
      PROVE  SizeInv'
  <2>1. /\ UNCHANGED <<video, known, ar, lb, mode, aspect, asked, depth>>
        /\ window' = size /\ sized' = TRUE
        /\ normal' = FirstSize \/ normal' = normal \/ normal' = window
    BY <1>3 DEF Becomes, choices
  <2>2. Wide(normal')
    BY <2>1, Limits DEF SizeInv, Types
  <2>3. Types'
    BY <1>1, <1>3, <2>1, <2>2 DEF SizeInv, Types, ChosenOK, Wide
  <2> QED BY <1>1, <2>1, <2>3 DEF SizeInv, SizeKnown, Nested, Applied, Idle
<1>4. CASE DefMaximize
  <2>1. CASE maximized /\ ~iconic
    <3>1. /\ missed' = TRUE /\ command' = "none"
          /\ UNCHANGED <<video, known, ar, lb, mode, aspect, window, normal, asked, sized, depth>>
      BY <1>4, <2>1 DEF DefMaximize, choices, system
    <3>2. Types'
      BY <1>1, <3>1 DEF SizeInv, Types, ChosenOK, Wide
    <3> QED BY <1>1, <3>1, <3>2 DEF SizeInv, SizeKnown, Nested, Applied
  <2>2. CASE ~(maximized /\ ~iconic)
    <3>1. Becomes(TRUE, FALSE, MaxSize(fullscreen)) /\ command' = "none"
      BY <1>4, <2>2 DEF DefMaximize
    <3> QED BY <1>3, <3>1, Limits DEF MaxSize
  <2> QED BY <2>1, <2>2
<1>5. CASE DefRestore
  <2>1. command' = "none"
    BY <1>5 DEF DefRestore
  <2>2. Becomes(TRUE, FALSE, MaxSize(fullscreen)) \/ Becomes(FALSE, FALSE, normal)
    BY <1>5 DEF DefRestore
  <2>3. Wide(MaxSize(fullscreen)) /\ Wide(normal)
    BY Limits DEF MaxSize, SizeInv, Types
  <2> QED BY <1>3, <2>1, <2>2, <2>3
<1>6. CASE Minimize
  <2>1. Becomes(maximized, TRUE, Icon) /\ command' = "none"
    BY <1>6 DEF Minimize, Idle
  <2> QED BY <1>3, <2>1, Limits
<1> QED BY <1>2, <1>4, <1>5, <1>6

\* Every step keeps the invariant.
LEMMA SizesKept == SizeInv /\ [Next]_vars => SizeInv'
<1> SUFFICES ASSUME SizeInv, [Next]_vars PROVE SizeInv'
  OBVIOUS
<1>1. ASSUME UNCHANGED sizeVars PROVE SizeInv'
  <2>1. UNCHANGED <<video, known, scene, ar, lb, mode, fullscreen, aspect, window, normal, maximized, iconic,
                    asked, sized, depth, command, missed>>
    BY <1>1 DEF sizeVars, choices, system
  <2>2. Types'
    BY <2>1 DEF SizeInv, Types, ChosenOK, Wide
  <2>3. WindowSize' = WindowSize /\ RunsAway' = RunsAway
    BY <2>1 DEF WindowSize, RunsAway, Multiplier, Safe
  <2>4. Granted(WindowSize)' = Granted(WindowSize)
    BY <2>1, <2>3 DEF Granted
  <2>5. SizeKnown' /\ Nested'
    BY <2>1, <2>3, <2>4 DEF SizeInv, SizeKnown, Nested
  <2>6. Applied'
    BY <2>1, SamePolicy DEF SizeInv, Applied, Idle
  <2> QED BY <2>2, <2>5, <2>6 DEF SizeInv
<1>2. CASE TimerFires \/ OnTimer \/ MouseMove \/ OpenMenu
  BY <1>1, <1>2 DEF TimerFires, OnTimer, MouseMove, OpenMenu
<1>3. CASE UNCHANGED vars
  BY <1>1, <1>3 DEF vars
<1> QED BY <1>2, <1>3, ChoicesInv, OnSizeInv, VideoInv, RequestInv, DragInv, StatesInv DEF Next

LEMMA SizesHold == Spec => []SizeInv
<1>1. Init => SizeInv
  <2> SUFFICES ASSUME Init PROVE SizeInv
    OBVIOUS
  <2>1. Types
    <3>1. aspect \in Ratios
      BY Limits DEF Init, RatioOf, Ratio, Ratios, Positive
    <3>2. FixedRatios \in Seq([num : Nat \ {0}, den : Nat \ {0}])
      BY WindowAssumption
    <3>3. 0 \in Choices
      BY <3>2 DEF Choices
    <3>4. ChosenOK
      BY <3>3, Limits DEF Init, ChosenOK, Modes
    <3>5. Wide(window) /\ Wide(normal)
      BY Limits DEF Init
    <3>6. asked = <<>> /\ sized = FALSE /\ depth = 0 /\ command = "none"
      BY DEF Init
    <3>7. <<>> \in Seq(Sizes)
      OBVIOUS
    <3> QED BY <3>1, <3>4, <3>5, <3>6, <3>7 DEF Types
  <2>2. WindowSize = FirstSize /\ WindowScene = FirstSize
    <3>1. FirstSize \in Positive
      BY Limits
    <3>2. ArOf(ar, video) = RatioOf(FirstSize) /\ LbOf(lb, ar, video) = RatioOf(FirstSize)
      BY DEF Init, ArOf, LbOf
    <3>3. Fixed = FirstSize /\ Safe = FirstSize
      BY <3>1, <3>2 DEF Init, Fixed, Safe, ArFixed, Protected, FixEnlarge, FixShrink, Wider, RatioOf, Ratio, Positive
    <3>4. Multiplier = Ratio(1, 1)
      BY DEF Init, Multiplier, SizeMultiplier
    <3>5. ScaleSize(FirstSize, Ratio(1, 1)) = FirstSize
      BY <3>1 DEF ScaleSize, Ratio, Positive
    <3> QED BY <3>3, <3>4, <3>5 DEF WindowSize, WindowScene
  <2>3. ~sized /\ depth = 0 /\ known = window /\ ~fullscreen /\ scene = FirstSize /\ window = FirstSize
    BY DEF Init
  <2>4. Granted(FirstSize) = FirstSize
    <3>1. FirstSize \in Positive /\ FirstSize.cx <= Largest /\ FirstSize.cy <= Largest
      BY Limits, WindowAssumption
    <3>2. Within(FirstSize, [cx |-> Largest, cy |-> Largest]) = FirstSize
      BY <3>1, Limits DEF Within, Positive
    <3> QED BY <3>2 DEF Init, Granted
  <2>5. SizeKnown /\ Nested
    BY <2>3 DEF SizeKnown, Nested
  <2>6. Applied
    BY <2>2, <2>3, <2>4 DEF Applied
  <2> QED BY <2>1, <2>5, <2>6 DEF SizeInv
<1> QED BY <1>1, SizesKept, PTL DEF Spec

\* The policy, entered from inside itself by the WM_SIZE it caused, asks for
\* nothing new, for any video, ratios and limits, except where a free window's
\* safe area has not the video's width.
THEOREM ResizeAlwaysEnds == Spec => []ResizeEnds
<1>1. SizeInv => ResizeEnds
  BY DEF SizeInv, Types, Nested, ResizeEnds
<1> QED BY <1>1, SizesHold, PTL

\* Once all messages and requests are handled, the scene and the window are
\* what the policy makes of the choices, however the requests of the video
\* threads were overtaken by the user's, by full screen and by minimizing.
THEOREM PolicyAlwaysHolds == Spec => []PolicyHolds
<1>1. SizeInv => PolicyHolds
  BY DEF SizeInv, Applied, Quiet, PolicyHolds
<1> QED BY <1>1, SizesHold, PTL

\* The scene covers the window then, for any video, ratio and letterbox: the
\* two roundings down never leave a line of the window uncovered.
THEOREM SceneAlwaysCovers == Spec => []SceneCovers
<1>1. SizeInv => SceneCovers
  <2> SUFFICES ASSUME SizeInv, Quiet, ~missed, ~fullscreen, ~iconic
      PROVE  scene.cx >= window.cx /\ scene.cy >= window.cy
    BY DEF SceneCovers
  <2>1. scene = WindowScene /\ window = Granted(WindowSize)
    BY DEF SizeInv, Applied, Quiet
  <2>2. WindowSize \in Sizes /\ WindowScene \in Sizes /\ Covers(WindowScene, WindowSize)
    BY PolicySizes DEF SizeInv, Types
  <2>3. Granted(WindowSize) = Within(WindowSize, [cx |-> Largest, cy |-> Largest])
    BY DEF Granted
  <2>4. window.cx <= WindowSize.cx /\ window.cy <= WindowSize.cy /\ window.cx \in Nat /\ window.cy \in Nat
    BY <2>1, <2>2, <2>3, Limits DEF Within, Sizes
  <2> QED BY <2>1, <2>2, <2>4 DEF Covers, Sizes
<1> QED BY <1>1, SizesHold, PTL

=============================================================================
