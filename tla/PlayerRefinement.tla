-------------------------- MODULE PlayerRefinement --------------------------
(***************************************************************************)
(* PlayerControl implements Player as long as commands and ends of tracks  *)
(* come one at a time.  A user who waits (MaxPending = 1) sees to the      *)
(* commands, but cannot keep a track from ending while one is worked off;  *)
(* `overlapped' records that it has happened.  The history variable        *)
(* `settled' is what the player looked like when nothing was last pending; *)
(* the abstract step happens when the last consequence of a command has    *)
(* been carried out.                                                       *)
(***************************************************************************)
EXTENDS PlayerControl

VARIABLE settled

Now == [plist |-> plist, state |-> dstate, file |-> graph, ontop |-> ontop]

HInit == Init /\ settled = Now
HNext == Next /\ settled' = IF Idle' THEN Now' ELSE settled

HSpec     == HInit /\ [][HNext]_<<vars, settled>>
HFairSpec == HSpec /\ Fairness

Abstract == INSTANCE Player
  WITH plist <- settled.plist, state <- settled.state,
       file <- settled.file, ontop <- settled.ontop

\* Whatever the threads and queues do in between, each command of the user
\* and each end of a track has, once everything has settled, exactly the
\* effect Player gives it -- up to the first time that one of them arrives
\* while another is still being worked off.
ImplementsPlayer ==
  Abstract!PlayerInit
    /\ [][overlapped' \/ Abstract!PlayerNext]_(Abstract!pvars)

\* The three places that hold a file name agree once everything has settled:
\* the playlist's cursor, the name on the screen and the graph.  A file that
\* is opened just as the track ends breaks this, whatever the user does.
NowPlayingAgrees ==
  (~overlapped /\ Idle /\ astate # "unloaded") =>
    /\ scene = graph
    /\ scene = FileName(plist)
=============================================================================
