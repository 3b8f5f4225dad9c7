------------------------------- MODULE Player -------------------------------
(***************************************************************************)
(* What the player promises the person in front of it: each command, and   *)
(* each end of a track, takes effect at once and as a whole.  There are no *)
(* queues, no threads and only one state.                                  *)
(***************************************************************************)
EXTENDS Playlist

CONSTANTS
  UserModes,
  NoFile

VARIABLES
  state,   \* unloaded, stopped, paused or playing
  file,    \* what is loaded
  ontop    \* is the window topmost?

pvars == <<plist, state, file, ontop>>

PlayerInit ==
  /\ plist = EmptyPlaylist
  /\ state = "unloaded" /\ file = NoFile /\ ontop = FALSE

\* The window is topmost while something is shown.
Become(st, f) ==
  /\ state' = st
  /\ file' = f
  /\ ontop' = (st \in {"playing", "paused"})

\* Both play and pause toggle.
Toggle ==
  /\ state # "unloaded"
  /\ Become(IF state = "playing" THEN "paused" ELSE "playing", file)
  /\ UNCHANGED plist

Stop ==
  /\ state \in {"playing", "paused"}
  /\ Become("stopped", file)
  /\ UNCHANGED plist

\* A track change keeps playing what was playing, and otherwise leaves the
\* new track stopped; past the last track of the list nothing is loaded.
SkipTo(p) ==
  /\ ~Empty(plist)
  /\ plist' = p
  /\ IF AfterEnd(p) THEN Become("unloaded", NoFile)
     ELSE Become(IF state = "playing" THEN "playing" ELSE "stopped",
                 FileName(p))

GoOn   == state # "unloaded" /\ SkipTo(MoveNext(plist))
GoBack == SkipTo(MovePrevious(plist))

TrackOver == state = "playing" /\ SkipTo(MoveTransition(plist))

\* A file opened over a loaded one replaces the list; one opened when nothing
\* is loaded joins whatever the list still holds.
Open(f) ==
  LET base == IF state = "unloaded" THEN plist ELSE ClearFiles(plist)
      p    == MoveNext(AddFile(base, f))
  IN  /\ plist' = p
      /\ Become("playing", FileName(p))

Close ==
  /\ plist' = ClearFiles(plist)
  /\ Become("unloaded", NoFile)

Select(m) ==
  /\ plist' = SetPlaymode(plist, m)
  /\ UNCHANGED <<state, file, ontop>>

PlayerNext ==
  \/ Toggle \/ Stop \/ GoOn \/ GoBack \/ TrackOver \/ Close
  \/ \E f \in Files : Open(f)
  \/ \E m \in UserModes : Select(m)

PlayerSpec == PlayerInit /\ [][PlayerNext]_pvars
=============================================================================
