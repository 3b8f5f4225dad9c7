--------------------------- MODULE PlaylistProofs ---------------------------
(***************************************************************************)
(* The playlist is well formed whatever is called on it, for any set of    *)
(* files and any list length; next and previous are inverse on its tracks; *)
(* transitions play all of them in order.                                  *)
(***************************************************************************)
EXTENDS Playlist, TLAPS

WellFormed(p) == p \in Playlists /\ p.pos <= EndPos(p)

\* add_file, clear_files and set_playmode keep a playlist well formed.
LEMMA EditsWellFormed ==
  ASSUME NEW p, WellFormed(p)
  PROVE  /\ \A f \in Files : WellFormed(AddFile(p, f))
         /\ WellFormed(ClearFiles(p))
         /\ \A m \in Modes : WellFormed(SetPlaymode(p, m))
<1>1. ASSUME NEW f \in Files PROVE WellFormed(AddFile(p, f))
  <2>1. Append(p.files, f) \in Seq(Files)
        /\ Len(Append(p.files, f)) = Len(p.files) + 1
    BY DEF WellFormed, Playlists
  <2> QED
    BY <2>1 DEF WellFormed, Playlists, AddFile, AfterEnd, EndPos
<1>2. WellFormed(ClearFiles(p))
  BY DEF WellFormed, Playlists, ClearFiles, EndPos
<1>3. \A m \in Modes : WellFormed(SetPlaymode(p, m))
  BY DEF WellFormed, Playlists, SetPlaymode, EndPos
<1> QED BY <1>1, <1>2, <1>3

\* The three cursor movements keep a playlist well formed: the cursor never
\* leaves the range from <START> to <END>.
LEMMA MovesWellFormed ==
  ASSUME NEW p, WellFormed(p)
  PROVE  /\ WellFormed(MoveNext(p))
         /\ WellFormed(MoveTransition(p))
         /\ WellFormed(MovePrevious(p))
<1>1. /\ p = [files |-> p.files, pos |-> p.pos, mode |-> p.mode]
      /\ p.files \in Seq(Files) /\ p.pos \in Nat /\ p.mode \in Modes
      /\ Len(p.files) \in Nat
      /\ p.pos <= Len(p.files) + 1
  BY DEF WellFormed, Playlists, EndPos
<1>2. ASSUME NEW n \in 0..EndPos(p) PROVE WellFormed([p EXCEPT !.pos = n])
  BY <1>1 DEF WellFormed, Playlists, EndPos
<1>3. ~AfterEnd(p) => WrapForward(p) \in 0..EndPos(p) /\ p.pos + 1 \in 0..EndPos(p)
  BY <1>1 DEF WrapForward, AfterEnd, EndPos
<1>4. ~BeforeStart(p) => WrapBack(p) \in 0..EndPos(p) /\ p.pos - 1 \in 0..EndPos(p)
  BY <1>1 DEF WrapBack, BeforeStart, EndPos
<1>5. WellFormed(MoveNext(p))
  BY <1>2, <1>3 DEF MoveNext
<1>6. WellFormed(MoveTransition(p))
  BY <1>2, <1>3 DEF MoveTransition
<1>7. WellFormed(MovePrevious(p))
  BY <1>2, <1>4 DEF MovePrevious
<1> QED BY <1>5, <1>6, <1>7

\* The new playlist is well formed.
LEMMA EmptyWellFormed == WellFormed(EmptyPlaylist)
BY DEF WellFormed, EmptyPlaylist, Playlists, EndPos, Modes

\* Under any sequence of calls the playlist stays well formed and its cursor
\* between the two sentinels.
THEOREM PlaylistTypeCorrect == PlaylistSpec => []PlaylistTypeOK
<1>1. PlaylistInit => PlaylistTypeOK
  BY EmptyWellFormed DEF PlaylistInit, PlaylistTypeOK, WellFormed
<1>2. PlaylistTypeOK /\ [PlaylistNext]_plist => PlaylistTypeOK'
  <2> SUFFICES ASSUME PlaylistTypeOK, [PlaylistNext]_plist
               PROVE  PlaylistTypeOK'
    OBVIOUS
  <2>1. WellFormed(plist)
    BY DEF PlaylistTypeOK, WellFormed
  <2>2. WellFormed(plist')
    BY <2>1, EditsWellFormed, MovesWellFormed
    DEF PlaylistNext, Add, Clear, ChangeMode, GoNext, GoTransition, GoPrevious
  <2> QED BY <2>2 DEF PlaylistTypeOK, WellFormed, EndPos
<1> QED BY <1>1, <1>2, PTL DEF PlaylistSpec

\* On every track of every well-formed playlist, next and previous undo each
\* other, in each play mode.
THEOREM NextPreviousInvert == PlaylistSpec => []NextPreviousInverse
<1>1. PlaylistTypeOK => NextPreviousInverse
  <2> SUFFICES ASSUME PlaylistTypeOK, OnTrack(plist)
               PROVE  /\ MovePrevious(MoveNext(plist)) = plist
                      /\ MoveNext(MovePrevious(plist)) = plist
    BY DEF NextPreviousInverse
  <2> DEFINE n == Len(plist.files)
             at(i) == [plist EXCEPT !.pos = i]
  <2>1. /\ plist \in Playlists /\ n \in Nat
        /\ plist.pos \in 1..n
    BY DEF PlaylistTypeOK, Playlists, OnTrack
  <2>2. /\ \A i \in Nat : /\ at(i).files = plist.files
                          /\ at(i).pos = i
                          /\ at(i).mode = plist.mode
        /\ \A i, j \in Nat : [at(i) EXCEPT !.pos = j] = at(j)
        /\ at(plist.pos) = plist
    BY <2>1 DEF Playlists
  <2> HIDE DEF at
  <2>3. CASE plist.mode = "normal"
    <3>1. MoveNext(plist) = at(plist.pos + 1)
      BY <2>1, <2>3 DEF MoveNext, AfterEnd, EndPos, at
    <3>2. MovePrevious(plist) = at(plist.pos - 1)
      BY <2>1, <2>3 DEF MovePrevious, BeforeStart, at
    <3>3. MovePrevious(at(plist.pos + 1)) = plist
      <4>1. plist.pos + 1 \in Nat /\ plist.pos + 1 # 0
            /\ plist.pos + 1 - 1 = plist.pos
        BY <2>1
      <4> QED BY <4>1, <2>1, <2>2, <2>3 DEF MovePrevious, BeforeStart
    <3>4. MoveNext(at(plist.pos - 1)) = plist
      <4>1. plist.pos - 1 \in Nat /\ plist.pos - 1 # n + 1
            /\ plist.pos - 1 + 1 = plist.pos
        BY <2>1
      <4> QED BY <4>1, <2>1, <2>2, <2>3 DEF MoveNext, AfterEnd, EndPos
    <3> QED BY <3>1, <3>2, <3>3, <3>4
  <2>4. CASE plist.mode # "normal"
    <3> DEFINE fwd == IF plist.pos = n THEN 1 ELSE plist.pos + 1
               bck == IF plist.pos = 1 THEN n ELSE plist.pos - 1
    <3>1. MoveNext(plist) = at(fwd)
      BY <2>1, <2>4 DEF MoveNext, WrapForward, AfterEnd, EndPos, at
    <3>2. MovePrevious(plist) = at(bck)
      BY <2>1, <2>4 DEF MovePrevious, WrapBack, BeforeStart, EndPos, at
    <3>3. MovePrevious(at(fwd)) = plist
      <4>1. /\ fwd \in 1..n
            /\ (IF fwd - 1 = 0 THEN n + 1 - 1 ELSE fwd - 1) = plist.pos
        BY <2>1
      <4> HIDE DEF fwd
      <4> QED BY <4>1, <2>1, <2>2, <2>4
              DEF MovePrevious, WrapBack, BeforeStart, EndPos
    <3>4. MoveNext(at(bck)) = plist
      <4>1. /\ bck \in 1..n
            /\ (IF bck + 1 = n + 1 THEN 1 ELSE bck + 1) = plist.pos
        BY <2>1
      <4> HIDE DEF bck
      <4> QED BY <4>1, <2>1, <2>2, <2>4
              DEF MoveNext, WrapForward, AfterEnd, EndPos
    <3> QED BY <3>1, <3>2, <3>3, <3>4
  <2> QED BY <2>3, <2>4
<1> QED BY <1>1, PlaylistTypeCorrect, PTL

\* add_file leaves the entry at the cursor, which may be <END>.
LEMMA AddKeepsName ==
  ASSUME NEW p, WellFormed(p), NEW f \in Files
  PROVE  FileName(AddFile(p, f)) = FileName(p)
<1> DEFINE q == AddFile(p, f)
<1>1. p.files \in Seq(Files) /\ p.pos \in Nat /\ p.pos <= Len(p.files) + 1 /\ Len(p.files) \in Nat
  BY DEF WellFormed, Playlists, EndPos
<1>2. /\ Len(q.files) = Len(p.files) + 1
      /\ \A i \in 1..Len(p.files) : q.files[i] = p.files[i]
      /\ q.pos = IF p.pos = Len(p.files) + 1 THEN p.pos + 1 ELSE p.pos
  BY <1>1 DEF AddFile, AfterEnd, EndPos
<1> SUFFICES FileName(q) = FileName(p)
  OBVIOUS
<1> HIDE DEF q
<1>3. CASE p.pos = 0
  BY <1>1, <1>2, <1>3 DEF FileName, BeforeStart
<1>4. CASE p.pos = Len(p.files) + 1
  BY <1>1, <1>2, <1>4 DEF FileName, BeforeStart, AfterEnd, EndPos
<1>5. CASE p.pos \in 1..Len(p.files)
  BY <1>1, <1>2, <1>5 DEF FileName, BeforeStart, AfterEnd, EndPos
<1> QED BY <1>1, <1>3, <1>4, <1>5

\* Whatever is added, the cursor names what it named before.
THEOREM CursorKeepsItsName == PlaylistSpec => CursorSurvivesAdd
<1>1. PlaylistTypeOK /\ [PlaylistNext]_plist
        => [Len(plist'.files) > Len(plist.files) => FileName(plist') = FileName(plist)]_plist
  <2> SUFFICES ASSUME PlaylistTypeOK, PlaylistNext, Len(plist'.files) > Len(plist.files)
               PROVE  FileName(plist') = FileName(plist)
    OBVIOUS
  <2>1. WellFormed(plist) /\ plist \in Playlists /\ Len(plist.files) \in Nat
    BY DEF PlaylistTypeOK, WellFormed, Playlists
  <2>2. ASSUME NEW f \in Files, Add(f) PROVE FileName(plist') = FileName(plist)
    BY <2>1, <2>2, AddKeepsName DEF Add
  <2>3. ~Clear
    <3>1. Clear => Len(plist'.files) = 0
      BY DEF Clear, ClearFiles
    <3> QED BY <2>1, <3>1
  <2>4. ASSUME \/ \E m \in Modes : ChangeMode(m)
               \/ GoNext \/ GoTransition \/ GoPrevious
        PROVE  FALSE
    <3>1. plist'.files = plist.files
      BY <2>1, <2>4
      DEF ChangeMode, GoNext, GoTransition, GoPrevious, SetPlaymode, MoveNext, MoveTransition,
          MovePrevious, Playlists
    <3> QED BY <2>1, <3>1
  <2> QED BY <2>2, <2>3, <2>4 DEF PlaylistNext
<1> QED BY <1>1, PlaylistTypeCorrect, PTL DEF PlaylistSpec, CursorSurvivesAdd

\* TransitionsPlayAllInOrder (player_playlist::do_transition): in every mode but
\* shuffle, from the first track on, transitions visit every track once, in the
\* order of the list, or, in repeat_single, always the first.
THEOREM AllPlayInOrder == PlaylistSpec => []TransitionsPlayAllInOrder
<1>1. PlaylistTypeOK => TransitionsPlayAllInOrder
  <2> DEFINE n      == Len(plist.files)
             At(i)  == [plist EXCEPT !.pos = i]
             played == IF plist.mode = "repeat_single"
                       THEN [i \in 1..(n + 1) |-> plist.files[1]]
                       ELSE Append(plist.files,
                                   IF plist.mode = "normal" THEN EndName ELSE plist.files[1])
             Visits(v) == /\ v[1] = 1
                          /\ \A i \in 1..n : At(v[i + 1]) = MoveTransition(At(v[i]))
                          /\ \A i \in 1..(n + 1) : FileName(At(v[i])) = played[i]
  <2> SUFFICES ASSUME PlaylistTypeOK, n > 0, plist.mode # "shuffle"
               PROVE  \E v \in [1..(n + 1) -> 0..EndPos(plist)] : Visits(v)
    BY DEF TransitionsPlayAllInOrder
  <2>1. plist.files \in Seq(Files) /\ n \in Nat /\ plist.mode \in Modes /\ EndPos(plist) = n + 1
    BY DEF PlaylistTypeOK, Playlists, EndPos
  <2>2. \A i \in Nat : /\ At(i).files = plist.files
                       /\ At(i).pos = i
                       /\ At(i).mode = plist.mode
    BY DEF PlaylistTypeOK, Playlists
  <2>3. \A i, j \in Nat : [At(i) EXCEPT !.pos = j] = At(j)
    BY DEF PlaylistTypeOK, Playlists
  <2>4. \A i \in 1..n : FileName(At(i)) = plist.files[i]
    <3> HIDE DEF At
    <3> QED BY <2>1, <2>2 DEF FileName, BeforeStart, AfterEnd, EndPos
  <2>5. FileName(At(n + 1)) = EndName
    <3> HIDE DEF At
    <3> QED BY <2>1, <2>2 DEF FileName, BeforeStart, AfterEnd, EndPos
  <2>6. ASSUME NEW i \in 1..(n + 1)
        PROVE  played[i] = IF plist.mode = "repeat_single" THEN plist.files[1]
                           ELSE IF i <= n THEN plist.files[i]
                           ELSE IF plist.mode = "normal" THEN EndName ELSE plist.files[1]
    <3>1. \A x : Append(plist.files, x)[i] = IF i <= n THEN plist.files[i] ELSE x
      BY <2>1
    <3>2. CASE plist.mode = "repeat_single"
      BY <3>2
    <3>3. CASE plist.mode # "repeat_single"
      BY <3>1, <3>3
    <3> QED BY <3>2, <3>3
  <2> HIDE DEF At, played
  <2>7. CASE plist.mode = "repeat_single"
    <3> DEFINE v == [i \in 1..(n + 1) |-> 1]
    <3>1. MoveTransition(At(1)) = At(1)
      BY <2>2, <2>7 DEF MoveTransition
    <3>2. v \in [1..(n + 1) -> 0..EndPos(plist)] /\ v[1] = 1
      BY <2>1
    <3>3. \A i \in 1..n : At(v[i + 1]) = MoveTransition(At(v[i]))
      BY <2>1, <3>1
    <3>4. \A i \in 1..(n + 1) : FileName(At(v[i])) = played[i]
      BY <2>1, <2>4, <2>6, <2>7
    <3> QED BY <3>2, <3>3, <3>4
  <2>8. CASE plist.mode = "normal"
    <3> DEFINE v == [i \in 1..(n + 1) |-> i]
    <3>1. ASSUME NEW i \in 1..n PROVE MoveTransition(At(i)) = At(i + 1)
      BY <2>1, <2>2, <2>3, <2>8 DEF MoveTransition, AfterEnd, EndPos
    <3>2. v \in [1..(n + 1) -> 0..EndPos(plist)] /\ v[1] = 1
      BY <2>1
    <3>3. \A i \in 1..n : At(v[i + 1]) = MoveTransition(At(v[i]))
      BY <2>1, <3>1
    <3>4. \A i \in 1..(n + 1) : FileName(At(v[i])) = played[i]
      BY <2>1, <2>4, <2>5, <2>6, <2>8
    <3> QED BY <3>2, <3>3, <3>4
  <2>9. CASE plist.mode \notin {"normal", "repeat_single"}
    <3> DEFINE v == [i \in 1..(n + 1) |-> IF i = n + 1 THEN 1 ELSE i]
    <3>1. ASSUME NEW i \in 1..n PROVE MoveTransition(At(i)) = At(IF i = n THEN 1 ELSE i + 1)
      <4>1. WrapForward(At(i)) = IF i = n THEN 1 ELSE i + 1
        BY <2>1, <2>2 DEF WrapForward, EndPos
      <4> QED BY <2>1, <2>2, <2>3, <2>9, <4>1 DEF MoveTransition, AfterEnd, EndPos
    <3>2. v \in [1..(n + 1) -> 0..EndPos(plist)] /\ v[1] = 1
      BY <2>1
    <3>3. \A i \in 1..n : At(v[i + 1]) = MoveTransition(At(v[i]))
      <4>1. \A i \in 1..n : v[i] = i /\ v[i + 1] = IF i = n THEN 1 ELSE i + 1
        BY <2>1
      <4> QED BY <3>1, <4>1
    <3>4. \A i \in 1..(n + 1) : FileName(At(v[i])) = played[i]
      BY <2>1, <2>4, <2>6, <2>9
    <3> QED BY <3>2, <3>3, <3>4
  <2> QED BY <2>7, <2>8, <2>9
<1> QED BY <1>1, PlaylistTypeCorrect, PTL
=============================================================================
