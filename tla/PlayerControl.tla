---------------------------- MODULE PlayerControl ----------------------------
(***************************************************************************)
(* The transport control of awkawk: the window thread, the awkawk          *)
(* controller and the DirectShow controller.                               *)
(*                                                                         *)
(* awkawk and player_direct_show are two finite state machines with the    *)
(* same four states.  Each is run by an event_handler, a serial queue with *)
(* a thread of its own; an event is looked up in the machine's transition  *)
(* table when it reaches the head of the queue, and is dropped when the    *)
(* table has no handler for it.  A handler of awkawk posts the matching    *)
(* event to the DirectShow queue and records the state it expects DirectShow*)
(* to reach, without waiting for it.                                       *)
(*                                                                         *)
(* The window thread posts events, and also reads awkawk's state and edits *)
(* the playlist directly, with no lock; the media event thread posts       *)
(* `transitioning' when the filter graph reports the end of a track.       *)
(*                                                                         *)
(* A step is what one thread does between two accesses that another thread *)
(* can observe: one post, one playlist edit, one dispatched handler up to  *)
(* its first post to its own queue.                                        *)
(***************************************************************************)
EXTENDS Playlist

CONSTANTS
  UserModes,    \* the play modes the user selects from the menu, which
                \* shows shuffle but keeps it greyed
  GraphMayFail, \* may a DirectShow call fail?
  MaxPending,   \* bound: the user gives a command only while fewer items than
                \* this are pending; 1 is a user who waits for the player
  MaxBacklog,   \* bound: a track ends only while fewer items than this are
                \* pending; nobody can make the graph wait, so runs choose it
                \* large enough for a track to end at any step of a command
  NoFile        \* no file name

ASSUME ControlAssumption ==
  /\ UserModes \subseteq Modes
  /\ GraphMayFail \in BOOLEAN
  /\ MaxPending \in Nat \ {0} /\ MaxBacklog \in Nat \ {0}
  /\ NoFile \notin Files \cup {StartName, EndName}

States      == {"unloaded", "stopped", "paused", "playing"}
GraphEvents == {"load", "stop", "pause", "play", "unload"}
Moves       == {"next", "transitioning", "previous"}
Events      == GraphEvents \cup Moves
Names       == Files \cup {StartName, EndName}

VARIABLES
  ui,       \* what is left of the window thread's current command
  aq,       \* awkawk's event queue
  todo,     \* what awkawk's running handler has yet to post to its own queue
  astate,   \* awkawk::current_state
  scene,    \* the file name shown by player_scene
  dq,       \* player_direct_show's event queue
  dstate,   \* player_direct_show::current_state
  graph,    \* the file the filter graph was built from
  ended,    \* the graph has played to the end since it was last run
  complete, \* the media event thread holds an EC_COMPLETE it has not posted
  topq,     \* set_on_top calls queued to the window thread
  ontop,    \* is the window topmost?
  diverged, \* history: the controllers can no longer be in step, because a
            \* DirectShow call failed or a track change found no playlist
  overlapped \* history: a command was given, or a track ended, while an
             \* earlier one was still being worked off

vars == <<plist, ui, aq, todo, astate, scene, dq, dstate, graph, ended,
          complete, topq, ontop, diverged, overlapped>>

-----------------------------------------------------------------------------
(* The transition tables.  The two tables agree on the events they share.  *)
(* The rewind and fast-forward events are never posted by any thread.      *)

Transition(st, evt) ==
  CASE evt = "load"   /\ st = "unloaded"            -> "do_load"
    [] evt = "stop"   /\ st \in {"paused", "playing"} -> "do_stop"
    [] evt \in {"pause", "play"} /\ st = "stopped"  -> "do_play"
    [] evt \in {"pause", "play"} /\ st = "paused"   -> "do_resume"
    [] evt \in {"pause", "play"} /\ st = "playing"  -> "do_pause"
    [] evt = "unload" /\ st = "stopped"             -> "do_unload"
    [] evt = "transitioning" /\ st = "playing"      -> "do_transition"
    [] evt = "next"   /\ st # "unloaded"            -> "do_next"
    [] evt = "previous"                             -> "do_previous"
    [] OTHER                                        -> "null"

\* Mutant of GraphTransition: only play resumes a paused graph.
GraphTransitionResumesOnPlay(st, evt) ==
  CASE evt = "load"   /\ st = "unloaded"            -> "do_load"
    [] evt = "stop"   /\ st \in {"paused", "playing"} -> "do_stop"
    [] evt \in {"pause", "play"} /\ st = "stopped"  -> "do_play"
    [] evt = "play"   /\ st = "paused"              -> "do_resume"
    [] evt \in {"pause", "play"} /\ st = "playing"  -> "do_pause"
    [] evt = "unload" /\ st = "stopped"             -> "do_unload"
    [] OTHER                                        -> "null"

GraphTransition(st, evt) ==
  CASE evt = "load"   /\ st = "unloaded"            -> "do_load"
    [] evt = "stop"   /\ st \in {"paused", "playing"} -> "do_stop"
    [] evt \in {"pause", "play"} /\ st = "stopped"  -> "do_play"
    [] evt \in {"pause", "play"} /\ st = "paused"   -> "do_resume"
    [] evt \in {"pause", "play"} /\ st = "playing"  -> "do_pause"
    [] evt = "unload" /\ st = "stopped"             -> "do_unload"
    [] OTHER                                        -> "null"

\* The state a DirectShow handler returns when its COM calls succeed.
GraphExit(st, evt) ==
  LET h == GraphTransition(st, evt)
  IN  CASE h \in {"do_load", "do_stop"}   -> "stopped"
        [] h \in {"do_play", "do_resume"} -> "playing"
        [] h = "do_pause"                 -> "paused"
        [] h = "do_unload"                -> "unloaded"
        [] OTHER                          -> st

\* The playlist function a track-change event passes to do_track_change.
MoveCursor(p, move) ==
  CASE move = "next"          -> MoveNext(p)
    [] move = "transitioning" -> MoveTransition(p)
    [] move = "previous"      -> MovePrevious(p)

-----------------------------------------------------------------------------
(* Queue items *)

Posted(e)         == [op |-> "post", arg |-> e, resume |-> FALSE]
Sent(e)           == [op |-> "send", arg |-> e, resume |-> FALSE]
Change(m, resume) == [op |-> "change", arg |-> m, resume |-> resume]

AItems == [op : {"post", "send"}, arg : Events, resume : {FALSE}]
            \cup [op : {"change"}, arg : Moves, resume : BOOLEAN]

\* want is a history field: the state awkawk recorded when it posted evt.
DItems == [evt : GraphEvents, want : States]

Step(op, arg) == [op |-> op, arg |-> arg]

UISteps == [op : {"post", "send"}, arg : Events]
             \cup [op : {"add"}, arg : Files]
             \cup [op : {"wait", "check", "clear", "next"}, arg : {NoFile}]

Pending ==
  Len(aq) + Len(todo) + Len(dq) + Len(topq)
    + (IF ui # <<>> THEN 1 ELSE 0) + (IF complete THEN 1 ELSE 0)

Idle == Pending = 0

\* A stimulus arrives from outside: a command of the user, the end of a track.
Arrives == overlapped' = (overlapped \/ ~Idle)

-----------------------------------------------------------------------------
Init ==
  /\ plist = EmptyPlaylist
  /\ ui = <<>>
  /\ aq = <<>> /\ todo = <<>> /\ astate = "unloaded"
  /\ scene = NoFile
  /\ dq = <<>> /\ dstate = "unloaded" /\ graph = NoFile
  /\ ended = FALSE /\ complete = FALSE
  /\ topq = <<>> /\ ontop = FALSE
  /\ diverged = FALSE /\ overlapped = FALSE

-----------------------------------------------------------------------------
(* The window thread: commands of the user *)

\* The window thread is in its message loop.
Ready == ui = <<>> /\ Pending < MaxPending

\* Play, pause, stop, next and previous post one event.  The toolbar buttons
\* are live in every state and a menu may have been opened in another one, so
\* the event is not known to be permitted.
Press(e) ==
  /\ Ready
  /\ aq' = Append(aq, Posted(e))
  /\ Arrives
  /\ UNCHANGED <<plist, ui, todo, astate, scene, dq, dstate, graph, ended,
                 complete, topq, ontop, diverged>>

SelectMode(m) ==
  /\ Ready
  /\ plist' = SetPlaymode(plist, m)
  /\ Arrives
  /\ UNCHANGED <<ui, aq, todo, astate, scene, dq, dstate, graph, ended,
                 complete, topq, ontop, diverged>>

\* Mutant of OpenScript: the events are posted before the list is edited.
OpenScriptPostsFirst(f) ==
  <<Step("post", "load"), Step("post", "play"),
    Step("add", f), Step("next", NoFile)>>

\* open_single_file: unload what is loaded, replace the list, load and play.
\* Nothing is unloaded, and nothing cleared, when awkawk is seen unloaded.
OpenScript(f) ==
  <<Step("add", f), Step("next", NoFile),
    Step("post", "load"), Step("post", "play")>>

OpenFile(f) ==
  /\ Ready
  /\ Len(plist.files) < MaxFiles
  /\ ui' = IF astate = "unloaded" THEN OpenScript(f)
           ELSE <<Step("check", NoFile), Step("send", "unload"),
                  Step("clear", NoFile)>> \o OpenScript(f)
  /\ Arrives
  /\ UNCHANGED <<plist, aq, todo, astate, scene, dq, dstate, graph, ended,
                 complete, topq, ontop, diverged>>

CloseFile ==
  /\ Ready
  /\ ui' = <<Step("post", "stop"), Step("post", "unload"),
             Step("clear", NoFile)>>
  /\ Arrives
  /\ UNCHANGED <<plist, aq, todo, astate, scene, dq, dstate, graph, ended,
                 complete, topq, ontop, diverged>>

-----------------------------------------------------------------------------
(* The window thread: the steps of a command *)

UIAt(op) == ui # <<>> /\ Head(ui).op = op

\* Is there something to stop?  A second, separate read of the state.
UICheck ==
  /\ UIAt("check")
  /\ ui' = (IF astate # "stopped" THEN <<Step("send", "stop")>> ELSE <<>>)
             \o Tail(ui)
  /\ UNCHANGED <<plist, aq, todo, astate, scene, dq, dstate, graph, ended,
                 complete, topq, ontop, diverged, overlapped>>

UIPost ==
  /\ UIAt("post")
  /\ aq' = Append(aq, Posted(Head(ui).arg))
  /\ ui' = Tail(ui)
  /\ UNCHANGED <<plist, todo, astate, scene, dq, dstate, graph, ended,
                 complete, topq, ontop, diverged, overlapped>>

\* A synchronous event: the window thread blocks until awkawk's thread has
\* run it (Dispatched removes the "wait").
UISend ==
  /\ UIAt("send")
  /\ aq' = Append(aq, Sent(Head(ui).arg))
  /\ ui' = <<Step("wait", NoFile)>> \o Tail(ui)
  /\ UNCHANGED <<plist, todo, astate, scene, dq, dstate, graph, ended,
                 complete, topq, ontop, diverged, overlapped>>

UIEdit ==
  /\ \/ UIAt("clear") /\ plist' = ClearFiles(plist)
     \/ UIAt("add")   /\ plist' = AddFile(plist, Head(ui).arg)
     \/ UIAt("next")  /\ plist' = MoveNext(plist)
  /\ ui' = Tail(ui)
  /\ UNCHANGED <<aq, todo, astate, scene, dq, dstate, graph, ended, complete,
                 topq, ontop, diverged, overlapped>>

\* A queued w->set_on_top(...) runs when the window thread is back in its
\* message loop.
UISetOnTop ==
  /\ ui = <<>> /\ topq # <<>>
  /\ ontop' = Head(topq)
  /\ topq' = Tail(topq)
  /\ UNCHANGED <<plist, ui, aq, todo, astate, scene, dq, dstate, graph, ended,
                 complete, diverged, overlapped>>

-----------------------------------------------------------------------------
(* The awkawk thread *)

\* Mutants of Dispatched: the sender resumes when any event has run; the
\* sender is never resumed.
DispatchedWakesEarly ==
  /\ aq' = Tail(aq)
  /\ ui' = IF ui # <<>> /\ Head(ui).op = "wait" THEN Tail(ui) ELSE ui
DispatchedNeverWakes == aq' = Tail(aq) /\ ui' = ui

\* The head of the queue is taken off; a blocked sender resumes.
Dispatched ==
  /\ aq' = Tail(aq)
  /\ ui' = IF Head(aq).op = "send" THEN Tail(ui) ELSE ui

\* The event at the head of the queue selects the handler h.
Runs(h) ==
  /\ todo = <<>> /\ aq # <<>>
  /\ Head(aq).op \in {"post", "send"}
  /\ Transition(astate, Head(aq).arg) = h

\* Post evt to the DirectShow queue and move on to state st.
Command(evt, st) ==
  /\ dq' = Append(dq, [evt |-> evt, want |-> st])
  /\ astate' = st

DoLoad ==
  /\ Runs("do_load") /\ Dispatched
  /\ scene' = FileName(plist)
  /\ Command("load", "stopped")
  /\ UNCHANGED <<plist, todo, dstate, graph, ended, complete, topq, ontop,
                 diverged, overlapped>>

\* Mutant of DoUnload: the name stays on the screen.
DoUnloadKeepsName ==
  /\ Runs("do_unload") /\ Dispatched
  /\ Command("unload", "unloaded")
  /\ UNCHANGED <<plist, todo, scene, dstate, graph, ended, complete, topq,
                 ontop, diverged, overlapped>>

DoUnload ==
  /\ Runs("do_unload") /\ Dispatched
  /\ scene' = NoFile
  /\ Command("unload", "unloaded")
  /\ UNCHANGED <<plist, todo, dstate, graph, ended, complete, topq, ontop,
                 diverged, overlapped>>

\* do_play, do_pause, do_resume and do_stop.  do_resume posts pause: the
\* DirectShow table resumes a paused graph on either event.
DoTransport ==
  /\ \/ Runs("do_play")   /\ Command("play", "playing")
     \/ Runs("do_pause")  /\ Command("pause", "paused")
     \/ Runs("do_resume") /\ Command("pause", "playing")
     \/ Runs("do_stop")   /\ Command("stop", "stopped")
  /\ Dispatched
  /\ UNCHANGED <<plist, todo, scene, dstate, graph, ended, complete, topq,
                 ontop, diverged, overlapped>>

RunsChange == \E m \in {"do_next", "do_previous", "do_transition"} : Runs(m)

\* Mutant of DoTrackChange: the new track plays even if the old one did not.
DoTrackChangePlaysOn ==
  /\ RunsChange /\ ~Empty(plist) /\ Dispatched
  /\ todo' = (IF astate \in {"playing", "paused"}
                THEN <<Posted("stop")>> ELSE <<>>)
             \o (IF astate # "unloaded" THEN <<Posted("unload")>> ELSE <<>>)
             \o <<Change(Head(aq).arg, TRUE)>>
  /\ UNCHANGED <<plist, astate, scene, dq, dstate, graph, ended, complete,
                 topq, ontop, diverged, overlapped>>

\* do_track_change queues the stop and unload that the state calls for, then
\* the callback that moves the cursor; the state itself does not change.
DoTrackChange ==
  /\ RunsChange /\ ~Empty(plist) /\ Dispatched
  /\ todo' = (IF astate \in {"playing", "paused"}
                THEN <<Posted("stop")>> ELSE <<>>)
             \o (IF astate # "unloaded" THEN <<Posted("unload")>> ELSE <<>>)
             \o <<Change(Head(aq).arg, astate = "playing")>>
  /\ UNCHANGED <<plist, astate, scene, dq, dstate, graph, ended, complete,
                 topq, ontop, diverged, overlapped>>

\* With nothing in the list do_track_change returns unloaded, whatever
\* DirectShow is doing.
DoTrackChangeEmpty ==
  /\ RunsChange /\ Empty(plist) /\ Dispatched
  /\ astate' = "unloaded"
  /\ diverged' = (diverged \/ astate # "unloaded")
  /\ UNCHANGED <<plist, todo, scene, dq, dstate, graph, ended, complete, topq,
                 ontop, overlapped>>

\* The callback queued by do_track_change.
DoChange ==
  /\ todo = <<>> /\ aq # <<>> /\ Head(aq).op = "change"
  /\ Dispatched
  /\ plist' = MoveCursor(plist, Head(aq).arg)
  /\ todo' = IF AfterEnd(plist') THEN <<>>
             ELSE <<Posted("load")>>
                    \o (IF Head(aq).resume THEN <<Posted("play")>> ELSE <<>>)
  /\ UNCHANGED <<astate, scene, dq, dstate, graph, ended, complete, topq,
                 ontop, diverged, overlapped>>

\* The running handler posts the next event to its own queue.
PostNext ==
  /\ todo # <<>>
  /\ aq' = Append(aq, Head(todo))
  /\ todo' = Tail(todo)
  /\ UNCHANGED <<plist, ui, astate, scene, dq, dstate, graph, ended, complete,
                 topq, ontop, diverged, overlapped>>

\* Mutant of DropEvent: the event is kept until it is permitted.
DropEventRequeues ==
  /\ Runs("null")
  /\ aq' = Append(Tail(aq), Head(aq))
  /\ UNCHANGED <<plist, ui, todo, astate, scene, dq, dstate, graph, ended,
                 complete, topq, ontop, diverged, overlapped>>

\* An event that is not permitted in the current state is only logged.
DropEvent ==
  /\ Runs("null") /\ Dispatched
  /\ UNCHANGED <<plist, todo, astate, scene, dq, dstate, graph, ended,
                 complete, topq, ontop, diverged, overlapped>>

-----------------------------------------------------------------------------
(* The DirectShow thread and the filter graph *)

GraphRuns(h) == dq # <<>> /\ GraphTransition(dstate, Head(dq).evt) = h

\* Mutant of CallBack: stop is posted without its callback.
CallBackOfPlayOnly ==
  /\ topq' = IF Head(dq).evt = "play" THEN Append(topq, TRUE) ELSE topq
  /\ dq' = Tail(dq)

\* do_stop and do_play were posted with a callback, which runs after the
\* event whether or not the event was permitted.
CallBack ==
  /\ topq' = CASE Head(dq).evt = "play" -> Append(topq, TRUE)
               [] Head(dq).evt = "stop" -> Append(topq, FALSE)
               [] OTHER                 -> topq
  /\ dq' = Tail(dq)

GraphSucceeds == dstate' = GraphExit(dstate, Head(dq).evt)

\* create_graph asks the playlist for the name now, not when load was posted.
GraphLoad ==
  /\ GraphRuns("do_load") /\ CallBack /\ GraphSucceeds
  /\ graph' = FileName(plist)
  /\ ended' = FALSE
  /\ UNCHANGED <<plist, ui, aq, todo, astate, scene, complete, ontop,
                 diverged, overlapped>>

GraphUnload ==
  /\ GraphRuns("do_unload") /\ CallBack /\ GraphSucceeds
  /\ graph' = NoFile
  /\ UNCHANGED <<plist, ui, aq, todo, astate, scene, ended, complete, ontop,
                 diverged, overlapped>>

GraphTransport ==
  /\ \E h \in {"do_play", "do_pause", "do_resume", "do_stop"} : GraphRuns(h)
  /\ CallBack /\ GraphSucceeds
  /\ ended' = (ended /\ ~GraphRuns("do_play"))
  /\ UNCHANGED <<plist, ui, aq, todo, astate, scene, graph, complete, ontop,
                 diverged, overlapped>>

\* Mutant of GraphFails: the failure is taken for a success.
GraphFailsQuietly ==
  /\ GraphMayFail /\ dq # <<>> /\ ~GraphRuns("null")
  /\ CallBack /\ GraphSucceeds
  /\ UNCHANGED <<plist, ui, aq, todo, astate, scene, graph, ended, complete,
                 ontop, diverged, overlapped>>

\* A COM call fails: the handler catches the error and keeps its state.  A
\* load may fail after the file has been rendered into the graph.
GraphFails ==
  /\ GraphMayFail /\ dq # <<>> /\ ~GraphRuns("null")
  /\ CallBack
  /\ graph' \in {graph} \cup (IF GraphRuns("do_load") THEN {FileName(plist)}
                              ELSE {})
  /\ diverged' = TRUE
  /\ UNCHANGED <<plist, ui, aq, todo, astate, scene, dstate, ended, complete,
                 ontop, overlapped>>

GraphDrops ==
  /\ GraphRuns("null") /\ CallBack
  /\ UNCHANGED <<plist, ui, aq, todo, astate, scene, dstate, graph, ended,
                 complete, ontop, diverged, overlapped>>

\* The graph plays its file to the end and signals EC_COMPLETE, once per run,
\* whatever the user, the queues and the window thread are doing.
TrackEnds ==
  /\ dstate = "playing" /\ graph \in Files /\ ~ended
  /\ ~complete /\ Pending < MaxBacklog
  /\ ended' = TRUE /\ complete' = TRUE
  /\ Arrives
  /\ UNCHANGED <<plist, ui, aq, todo, astate, scene, dq, dstate, graph, topq,
                 ontop, diverged>>

\* The media event thread passes the event on.
MediaEvent ==
  /\ complete
  /\ complete' = FALSE
  /\ aq' = Append(aq, Posted("transitioning"))
  /\ UNCHANGED <<plist, ui, todo, astate, scene, dq, dstate, graph, ended,
                 topq, ontop, diverged, overlapped>>

-----------------------------------------------------------------------------
User ==
  \/ \E e \in {"play", "pause", "stop", "next", "previous"} : Press(e)
  \/ \E m \in UserModes : SelectMode(m)
  \/ \E f \in Files : OpenFile(f)
  \/ CloseFile

WindowThread == UICheck \/ UIPost \/ UISend \/ UIEdit \/ UISetOnTop

AwkawkThread ==
  \/ DoLoad \/ DoUnload \/ DoTransport
  \/ DoTrackChange \/ DoTrackChangeEmpty \/ DoChange
  \/ PostNext \/ DropEvent

GraphThread ==
  \/ GraphLoad \/ GraphUnload \/ GraphTransport \/ GraphFails \/ GraphDrops

Next == User \/ WindowThread \/ AwkawkThread \/ GraphThread
          \/ TrackEnds \/ MediaEvent

\* Every thread that has work keeps running; neither the user nor the end of
\* a track can be counted on.
Fairness ==
  /\ WF_vars(WindowThread) /\ WF_vars(AwkawkThread)
  /\ WF_vars(GraphThread)  /\ WF_vars(MediaEvent)

Spec     == Init /\ [][Next]_vars
FairSpec == Spec /\ Fairness
-----------------------------------------------------------------------------
(* Properties *)

\* Every variable holds a value of its type.
TypeOK ==
  /\ PlaylistTypeOK
  /\ ui \in Seq(UISteps)
  /\ aq \in Seq(AItems) /\ todo \in Seq(AItems)
  /\ astate \in States /\ scene \in Names \cup {NoFile}
  /\ dq \in Seq(DItems)
  /\ dstate \in States /\ graph \in Names \cup {NoFile}
  /\ ended \in BOOLEAN /\ complete \in BOOLEAN
  /\ topq \in Seq(BOOLEAN) /\ ontop \in BOOLEAN
  /\ diverged \in BOOLEAN /\ overlapped \in BOOLEAN

\* The state DirectShow will be in when the i-th queued command is dispatched.
Before(i) == IF i = 1 THEN dstate ELSE dq[i - 1].want

\* awkawk records a new state without waiting for DirectShow.  It is never
\* wrong: each command still in DirectShow's queue will be permitted when its
\* turn comes and will bring the graph to the state awkawk recorded, and
\* after the last of them both machines are in the same state -- whatever the
\* user presses and however the queues interleave, until a COM call fails or
\* a track change runs with an empty playlist.
InStep ==
  ~diverged =>
    /\ \A i \in DOMAIN dq :
         /\ GraphTransition(Before(i), dq[i].evt) # "null"
         /\ GraphExit(Before(i), dq[i].evt) = dq[i].want
    /\ astate = Before(Len(dq) + 1)

\* The window is topmost, or has a call queued that will make it so, exactly
\* while DirectShow shows a running or paused file: the two callbacks that
\* set it travel through two queues and are applied in the order of the play
\* and stop events that carried them.
TopmostWhileShowing ==
  ~diverged =>
    (dstate \in {"playing", "paused"}
       <=> IF topq = <<>> THEN ontop ELSE topq[Len(topq)])

\* The file name on screen is set by awkawk's thread and the graph is built
\* by DirectShow's: there is a name exactly while awkawk is loaded, and a
\* graph exactly while DirectShow is.
NamedWhileLoaded ==
  ~diverged => /\ scene = NoFile <=> astate = "unloaded"
               /\ graph = NoFile <=> dstate = "unloaded"

\* A blocked window thread can always be woken: it waits for exactly one
\* synchronous event, which is in awkawk's queue; and no such event is queued
\* when it is not waiting.
Sends == {i \in DOMAIN aq : aq[i].op = "send"}
SenderIsServed ==
  IF UIAt("wait") THEN \E i \in DOMAIN aq : Sends = {i} ELSE Sends = {}

\* The window thread always comes back to its message loop: the synchronous
\* stop and unload of open_single_file cannot hang it.
WindowReturns == (ui # <<>>) ~> (ui = <<>>)

\* The playlist has no lock.  As long as commands and ends of tracks come one
\* at a time, the window thread never edits it while an event that will read
\* or move its cursor is queued or running on another thread.  A user who
\* waits does not ensure that: the track may end while a file is being
\* opened, and then the list is edited and read at once.
NoSharedPlaylistAccess ==
  (~overlapped /\ (UIAt("clear") \/ UIAt("add") \/ UIAt("next"))) =>
    /\ todo = <<>>
    /\ \A i \in DOMAIN aq : aq[i].arg \notin Moves \cup {"load"}
    /\ \A i \in DOMAIN dq : dq[i].evt # "load"

\* With a user who waits, every command runs to completion, tracks that end
\* meanwhile included, unless tracks keep ending for ever.
Settles == []<><<TrackEnds>>_vars \/ (~Idle ~> Idle)

-----------------------------------------------------------------------------
(* What the comments in the source say, and the code does not do *)

\* "normal ... advance through playlist, stop & rewind when the last file is
\* played": when the last file has played and the player has stopped, the
\* cursor is not left on <END>.
StoppedAndRewound ==
  (Idle /\ ended /\ astate = "unloaded") => ~AfterEnd(plist)

\* "case normal: // stop on wraparound" in do_previous: stepping back from
\* the first track stops; it does not go on to load the <START> sentinel.
StopsOnWraparound == graph # StartName
=============================================================================
