------------------------------ MODULE Playlist ------------------------------
(***************************************************************************)
(* player_playlist: a std::list of paths between two sentinel entries      *)
(* "<START>" and "<END>", with an iterator to the current entry and a play *)
(* mode.                                                                   *)
(*                                                                         *)
(* The list is the sequence plist.files; the iterator is plist.pos, where  *)
(* 0 is the <START> sentinel and Len(plist.files) + 1 is the <END>         *)
(* sentinel.  Each member function is an operator from a playlist to a     *)
(* playlist, so that a caller which runs several of them in a row (as      *)
(* awkawk::open_single_file does) can compose them.                        *)
(***************************************************************************)
EXTENDS Naturals, Sequences

CONSTANTS
  Files,      \* the paths the user may open
  MaxFiles    \* bound: the longest list explored

Modes == {"normal", "repeat_all", "repeat_single", "shuffle"}

\* The names stored in the sentinel nodes: get_file_name() returns them when
\* the cursor rests on one.
StartName == "<START>"
EndName   == "<END>"

ASSUME PlaylistAssumption ==
  /\ MaxFiles \in Nat
  /\ StartName \notin Files /\ EndName \notin Files

VARIABLE plist

Playlists == [files : Seq(Files), pos : Nat, mode : Modes]

-----------------------------------------------------------------------------
(* Queries *)

EndPos(p)      == Len(p.files) + 1
Empty(p)       == p.files = <<>>
BeforeStart(p) == p.pos = 0
AfterEnd(p)    == p.pos = EndPos(p)

FileName(p) ==
  IF BeforeStart(p) THEN StartName
  ELSE IF AfterEnd(p) THEN EndName
  ELSE p.files[p.pos]

-----------------------------------------------------------------------------
(* Updates *)

EmptyPlaylist == [files |-> <<>>, pos |-> 0, mode |-> "normal"]

\* Mutant of AddFile: the cursor is an index that insertion does not move.
AddFileUnderCursor(p, f) ==
  [files |-> Append(p.files, f), pos |-> p.pos, mode |-> p.mode]

\* Insertion before the <END> node leaves every iterator where it is: a
\* cursor that rests on <END> still does so afterwards.
AddFile(p, f) ==
  [files |-> Append(p.files, f),
   pos   |-> IF AfterEnd(p) THEN p.pos + 1 ELSE p.pos,
   mode  |-> p.mode]

ClearFiles(p) == [files |-> <<>>, pos |-> 0, mode |-> p.mode]

SetPlaymode(p, m) == [p EXCEPT !.mode = m]

\* Mutants of the two wraps: the second step, off the sentinel, is forgotten.
WrapForwardOntoStart(p) == IF p.pos + 1 = EndPos(p) THEN 0 ELSE p.pos + 1
WrapBackOntoEnd(p)      == IF p.pos - 1 = 0 THEN EndPos(p) ELSE p.pos - 1

\* One entry forward, from <END> back to the first entry.
WrapForward(p) == IF p.pos + 1 = EndPos(p) THEN 1 ELSE p.pos + 1

\* One entry back, from <START> to the last entry.
WrapBack(p) == IF p.pos - 1 = 0 THEN EndPos(p) - 1 ELSE p.pos - 1

\* Mutant of MoveNext: the early return at <END> is missing.
MoveNextPastEnd(p) ==
  [p EXCEPT !.pos = IF p.mode = "normal" THEN @ + 1 ELSE WrapForward(p)]

\* The user asks for the next track.
MoveNext(p) ==
  IF AfterEnd(p) THEN p
  ELSE [p EXCEPT !.pos = IF p.mode = "normal" THEN @ + 1 ELSE WrapForward(p)]

\* The current track has ended.
MoveTransition(p) ==
  IF AfterEnd(p) \/ p.mode = "repeat_single" THEN p
  ELSE [p EXCEPT !.pos = IF p.mode = "normal" THEN @ + 1 ELSE WrapForward(p)]

\* The user asks for the previous track.
MovePrevious(p) ==
  IF BeforeStart(p) THEN p
  ELSE [p EXCEPT !.pos = IF p.mode = "normal" THEN @ - 1 ELSE WrapBack(p)]

-----------------------------------------------------------------------------
(* The playlist on its own: any sequence of calls. *)

PlaylistInit == plist = EmptyPlaylist

Add(f)        == Len(plist.files) < MaxFiles /\ plist' = AddFile(plist, f)
Clear         == plist' = ClearFiles(plist)
ChangeMode(m) == plist' = SetPlaymode(plist, m)
GoNext        == plist' = MoveNext(plist)
GoTransition  == plist' = MoveTransition(plist)
GoPrevious    == plist' = MovePrevious(plist)

PlaylistNext ==
  \/ \E f \in Files : Add(f)
  \/ Clear
  \/ \E m \in Modes : ChangeMode(m)
  \/ GoNext
  \/ GoTransition
  \/ GoPrevious

PlaylistSpec == PlaylistInit /\ [][PlaylistNext]_plist

-----------------------------------------------------------------------------
(* Properties *)

OnTrack(p) == p.pos \in 1..Len(p.files)

\* The playlist is well formed and its cursor is on an entry of the list or
\* on one of the two sentinels, never past them (a std::list iterator moved
\* past end() or before begin() is undefined behaviour).
PlaylistTypeOK ==
  /\ plist \in Playlists
  /\ plist.pos <= EndPos(plist)

\* Next and previous are inverse on every track: stepping on and back (or
\* back and on) returns to the same track, across the wrap too; only normal
\* mode's two ends are one-way.
NextPreviousInverse ==
  OnTrack(plist) =>
    /\ MovePrevious(MoveNext(plist)) = plist
    /\ MoveNext(MovePrevious(plist)) = plist

\* As many transitions as there are tracks, from the first one, play every track
\* once, in the order in which they were added: normal mode then rests on <END>,
\* repeat_all is back on the first track, and repeat_single never leaves it.
\* Nothing is said of shuffle: the header promises a random order for it, and
\* do_transition has it to do ("TODO implement shuffling"); until then it takes
\* the steps of repeat_all.
TransitionsPlayAllInOrder ==
  LET n      == Len(plist.files)
      At(i)  == [plist EXCEPT !.pos = i]
      played == IF plist.mode = "repeat_single"
                THEN [i \in 1..(n + 1) |-> plist.files[1]]
                ELSE Append(plist.files,
                            IF plist.mode = "normal" THEN EndName ELSE plist.files[1])
  IN  (n > 0 /\ plist.mode # "shuffle") =>
        \E visits \in [1..(n + 1) -> 0..EndPos(plist)] :
          /\ visits[1] = 1
          /\ \A i \in 1..n : At(visits[i + 1]) = MoveTransition(At(visits[i]))
          /\ \A i \in 1..(n + 1) : FileName(At(visits[i])) = played[i]

\* Changing the list never changes what the cursor names, unless the list is
\* emptied: std::list iterators survive insertion.
CursorSurvivesAdd ==
  [][Len(plist'.files) > Len(plist.files)
       => FileName(plist') = FileName(plist)]_plist
=============================================================================
