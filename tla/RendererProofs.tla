---------------------------- MODULE RendererProofs ----------------------------
(***************************************************************************)
(* For every number of frames, files, errors and late iterations: the      *)
(* types, that the renderer never sleeps on a frame, that it wakes as long *)
(* as timers go off, and what alone can keep stop_rendering waiting.       *)
(***************************************************************************)
EXTENDS Renderer, TLAPS

\* What makes WokenForFrames inductive: a thread that is about to wait will
\* find the event set, unless the presenter has yet to set it; and once the
\* handles are closed there is no thread that could need waking.
NoFrameForgotten ==
    /\ pc \in {"wait", "blocked"} /\ frames > 0 =>
         presenter = "signal" \/ (pc = "wait" /\ render_event)
    /\ ui = "stopped" => pc = "ended"

\* No frame is queued that was not decoded.
Decoded == frames + (IF presenter = "holding" THEN 1 ELSE 0) <= decoded

Inv == TypeOK /\ NoFrameForgotten /\ Decoded

\* The three flags; the prover of Booleans is not the one of numbers.
Flags == render_event \in BOOLEAN /\ cancel_render \in BOOLEAN /\ video \in BOOLEAN

\* It holds at the start.
LEMMA InitInv == Init => Inv
<1> SUFFICES ASSUME Init PROVE Inv
    OBVIOUS
<1>1. Flags
  BY ZenonT(20) DEF Init, Flags
<1>2. NoFrameForgotten /\ Decoded
  BY DEF Init, NoFrameForgotten, Decoded
<1> QED
  BY <1>1, <1>2, RendererAssumption DEF Init, Inv, TypeOK, Flags, RendererAssumption

\* Every step of every thread keeps it.
LEMMA NextInv == Inv /\ [Next]_vars => Inv'
<1> SUFFICES ASSUME Inv, [Next]_vars PROVE Inv'
    OBVIOUS
<1> USE RendererAssumption DEF RendererAssumption, Inv, TypeOK, NoFrameForgotten, Decoded, counts, ScheduleRender, SignalNewFrame, Error
<1>1. CASE TimerFires
  BY <1>1 DEF TimerFires
<1>2. CASE StartRendering
  BY <1>2 DEF StartRendering
<1>3. CASE StartSchedules
  BY <1>3 DEF StartSchedules
<1>4. CASE StopRendering
  <2>1. Flags'
    BY <1>4, Zenon DEF StopRendering, Flags
  <2> QED
    BY <1>4, <2>1 DEF StopRendering, Flags
<1>5. CASE Join
  BY <1>5 DEF Join
<1>6. CASE Create
  BY <1>6 DEF Create, CreateDevice
<1>7. CASE Wait
  <2>1. Flags'
    BY <1>7, Zenon DEF Wait, Flags
  <2> QED
    BY <1>7, <2>1 DEF Wait, Flags
<1>8. CASE Begin
  BY <1>8 DEF Begin
<1>9. CASE Reset
  BY <1>9 DEF Reset
<1>10. CASE Recreate
  BY <1>10 DEF Recreate, CreateDevice
<1>11. CASE Render
  BY <1>11 DEF Render, Taken
<1>12. CASE Finish
  BY <1>12, ZenonT(60) DEF Finish
<1>13. CASE Destroy
  BY <1>13 DEF Destroy
<1>14. CASE Dequeue
  BY <1>14 DEF Dequeue
<1>15. CASE Enqueue
  BY <1>15 DEF Enqueue
<1>16. CASE Drop
  BY <1>16 DEF Drop
<1>17. CASE PresentSignals
  <2>1. Flags'
    BY <1>17, Zenon DEF PresentSignals, Flags
  <2> QED
    BY <1>17, <2>1 DEF PresentSignals, Flags
<1>18. CASE Load
  BY <1>18 DEF Load
<1>19. CASE Unload
  <2>1. Flags'
    BY <1>19, Zenon DEF Unload, Flags
  <2> QED
    BY <1>19, <2>1 DEF Unload, Flags
<1>20. CASE Release
  BY <1>20 DEF Release
<1>21. CASE UnloadSchedules
  BY <1>21 DEF UnloadSchedules
<1>22. CASE UNCHANGED vars
  BY <1>22 DEF vars
<1> QED
  BY <1>1, <1>2, <1>3, <1>4, <1>5, <1>6, <1>7, <1>8, <1>9, <1>10, <1>11, <1>12, <1>13, <1>14,
     <1>15, <1>16, <1>17, <1>18, <1>19, <1>20, <1>21, <1>22 DEF Next, RenderThread

\* So it always holds.
LEMMA Invariant == Spec => []Inv
<1> QED
  BY InitInv, NextInv, PTL DEF Spec

\* Every variable keeps its type, for any bounds: no frame is taken from an
\* empty queue (do_emit_scene) or counted twice (PresentImage).
THEOREM RendererTypeCorrect == Spec => []TypeOK
<1>1. Inv => TypeOK
  BY DEF Inv
<1> QED
  BY <1>1, Invariant, PTL

\* However many frames, files, errors and late timers there are, the render
\* thread never waits with a frame queued, unless the presenter is just about
\* to signal it (signal_new_frame, backlogged, render_thread_proc).
THEOREM NeverSleepsOnAFrame == Spec => []WokenForFrames
<1>1. Inv => WokenForFrames
  BY DEF Inv, TypeOK, NoFrameForgotten, WokenForFrames
<1> QED
  BY <1>1, Invariant, PTL

-----------------------------------------------------------------------------
(* The thread that waits is woken.                                         *)

\* Why no schedule is missing: while the thread waits the timer is armed,
\* unless start_rendering has just made the thread and is about to arm it; and
\* a timer that has fired is seen when the thread comes to wait.
TimerSet ==
    /\ pc = "blocked" => timer # "fired"
    /\ pc # "none" /\ ui # "schedule" => timer # "off"
    /\ ui = "before" <=> pc = "none"

\* Every step of every thread keeps it.
LEMMA TimerKept ==
  ASSUME TypeOK, TimerSet, [Next]_vars
  PROVE  TimerSet'
<1> USE DEF TypeOK, TimerSet, counts, ScheduleRender, SignalNewFrame, Error
<1>1. CASE TimerFires
  BY <1>1 DEF TimerFires
<1>2. CASE StartRendering \/ StartSchedules \/ StopRendering \/ Join
  BY <1>2 DEF StartRendering, StartSchedules, StopRendering, Join
<1>3. CASE Create \/ Recreate \/ Reset
  BY <1>3 DEF Create, Recreate, Reset, CreateDevice
<1>4. CASE Wait
  BY <1>4 DEF Wait
<1>5. CASE Begin \/ Render \/ Finish \/ Destroy
  BY <1>5 DEF Begin, Render, Finish, Destroy
<1>6. CASE Dequeue \/ Enqueue \/ Drop \/ PresentSignals
  BY <1>6 DEF Dequeue, Enqueue, Drop, PresentSignals
<1>7. CASE Load \/ Unload \/ Release \/ UnloadSchedules
  BY <1>7 DEF Load, Unload, Release, UnloadSchedules
<1>8. CASE UNCHANGED vars
  BY <1>8 DEF vars
<1> QED
  BY <1>1, <1>2, <1>3, <1>4, <1>5, <1>6, <1>7, <1>8 DEF Next, RenderThread

\* When TimerFires and StartSchedules can take place.
TimerCan    == timer = "armed" /\ (pc = "blocked" \/ late < MaxLate)
ScheduleCan == ui = "schedule"

\* The part of Fairness that wakes the thread.  WF_vars(A) is: again and again
\* A cannot take place, or again and again it does.  The prover knows nothing of
\* ENABLED, so what A needs is written out.
WakersRun ==
    /\ []<>~TimerCan \/ []<><<TimerFires>>_vars
    /\ []<>~ScheduleCan \/ []<><<StartSchedules>>_vars

Blocked == pc = "blocked"
Armed   == timer = "armed"

\* Where a waiting thread can be next: it has woken, or it still waits and what
\* was armed still is; and what the two wakers do.
LEMMA WakerSteps ==
  ASSUME Inv, TimerSet, Blocked
  PROVE  /\ Armed \/ ScheduleCan
         /\ Armed => TimerCan
         /\ [Next]_vars /\ Armed => ~Blocked' \/ Armed'
         /\ [Next]_vars /\ ~Armed => ~Blocked' \/ Armed' \/ ScheduleCan'
         /\ <<StartSchedules>>_vars => Armed'
         /\ <<TimerFires>>_vars => ~Blocked'
<1>0. TypeOK
  BY DEF Inv
<1> USE <1>0 DEF TypeOK, TimerSet, Blocked, Armed, TimerCan, ScheduleCan, counts, ScheduleRender
<1>1. Armed \/ ScheduleCan
  OBVIOUS
<1>2. Armed => TimerCan
  OBVIOUS
<1>3. <<StartSchedules>>_vars => Armed'
  BY DEF StartSchedules
<1>4. <<TimerFires>>_vars => ~Blocked'
  BY DEF TimerFires
<1>5. [Next]_vars /\ Armed => ~Blocked' \/ Armed'
  <2> SUFFICES ASSUME [Next]_vars, Armed PROVE ~Blocked' \/ Armed'
    OBVIOUS
  <2>1. CASE TimerFires
    BY <2>1 DEF TimerFires
  <2>2. CASE StartRendering \/ StartSchedules \/ StopRendering \/ Join
    BY <2>2 DEF StartRendering, StartSchedules, StopRendering, Join
  <2>3. CASE RenderThread
    BY <2>3 DEF RenderThread, Create, Wait, Begin, Reset, Recreate, Render, Finish, Destroy
  <2>4. CASE Dequeue \/ Enqueue \/ Drop \/ PresentSignals
    BY <2>4 DEF Dequeue, Enqueue, Drop, PresentSignals
  <2>5. CASE Load \/ Unload \/ Release \/ UnloadSchedules
    BY <2>5 DEF Load, Unload, Release, UnloadSchedules
  <2>6. CASE UNCHANGED vars
    BY <2>6 DEF vars
  <2> QED
    BY <2>1, <2>2, <2>3, <2>4, <2>5, <2>6 DEF Next
<1>6. [Next]_vars => ~Blocked' \/ Armed' \/ ScheduleCan'
  <2> SUFFICES ASSUME [Next]_vars PROVE ~Blocked' \/ Armed' \/ ScheduleCan'
    OBVIOUS
  <2>1. TypeOK' /\ TimerSet'
    BY TimerKept, NextInv DEF Inv
  <2> QED
    BY <2>1
<1> QED
  BY <1>1, <1>2, <1>3, <1>4, <1>5, <1>6

\* The render thread never waits for ever (start_rendering, schedule_render,
\* render_thread_proc): as long as timers go off and start_rendering gets to its
\* end, it comes back from its wait, whatever else does or does not happen.
THEOREM AlwaysWakes == Init /\ [][Next]_vars /\ WakersRun => NeverSleepsForever
<1>1. Init => TimerSet
  BY DEF Init, TimerSet
<1>2. Inv /\ TimerSet /\ [Next]_vars => TimerSet'
  BY TimerKept DEF Inv
<1>3. Init /\ [][Next]_vars => [](Inv /\ TimerSet)
  BY <1>1, <1>2, InitInv, NextInv, PTL
<1>4. Inv /\ TimerSet /\ Blocked => (Armed \/ ScheduleCan) /\ (Armed => TimerCan)
  BY WakerSteps
<1>5. Inv /\ TimerSet /\ Blocked /\ [Next]_vars
        => /\ Armed => ~Blocked' \/ Armed'
           /\ ~Armed => ~Blocked' \/ Armed' \/ ScheduleCan'
  BY WakerSteps
<1>6. Inv /\ TimerSet /\ Blocked
        => /\ <<StartSchedules>>_vars => Armed'
           /\ <<TimerFires>>_vars => ~Blocked'
  BY WakerSteps
<1>7. /\ (pc = "blocked") <=> Blocked
      /\ (pc # "blocked") <=> ~Blocked
  BY DEF Blocked
<1> QED
  BY <1>3, <1>4, <1>5, <1>6, <1>7, PTL DEF WakersRun, NeverSleepsForever

-----------------------------------------------------------------------------
(* The thread that is told to stop.                                        *)

Joining == ui = "joining"
Stopped == ui = "stopped"

\* A request to stop is not lost: it stays signalled until the thread has seen
\* it, and a thread that waits has seen it at once.
StopSeen == Joining => (cancel_render /\ pc \notin {"none", "blocked"}) \/ pc \in {"destroy", "ended"}

\* The labels of the render thread from which it is at most so many steps to its
\* end when nothing keeps it from seeing the request.
Near == << {"ended"},
           {"ended", "destroy"},
           {"ended", "destroy", "wait"},
           {"ended", "destroy", "wait", "finish", "create"},
           {"ended", "destroy", "wait", "finish", "create", "render"},
           {"ended", "destroy", "wait", "finish", "create", "render", "recreate"},
           {"ended", "destroy", "wait", "finish", "create", "render", "recreate", "reset"},
           {"ended", "destroy", "wait", "finish", "create", "render", "recreate", "reset", "begin"} >>
Within(k) == pc \in Near[k]

\* The thread comes to wait and finds a frame signalled, or its timer fired while
\* it was painting: both come before cancel_render.
Busy == pc = "wait" /\ (render_event \/ timer = "fired")

\* When RenderThread and Join can take place, and the fairness they need, as in
\* WakersRun.
RenderCan == pc \notin {"none", "blocked", "ended"}
JoinCan   == Joining /\ pc = "ended"
EndersRun ==
    /\ []<>~RenderCan \/ []<><<RenderThread>>_vars
    /\ []<>~JoinCan \/ []<><<Join>>_vars

\* Every step of every thread keeps StopSeen.
LEMMA StopKept ==
  ASSUME Inv, TimerSet, StopSeen, [Next]_vars
  PROVE  StopSeen'
<1> USE DEF Inv, TypeOK, TimerSet, StopSeen, Joining, counts, ScheduleRender, SignalNewFrame, Error
<1>1. CASE TimerFires
  BY <1>1 DEF TimerFires
<1>2. CASE StartRendering \/ StartSchedules \/ Join
  BY <1>2 DEF StartRendering, StartSchedules, Join
<1>3. CASE StopRendering
  BY <1>3 DEF StopRendering
<1>4. CASE Create \/ Recreate \/ Reset
  BY <1>4 DEF Create, Recreate, Reset, CreateDevice
<1>5. CASE Wait
  <2> SUFFICES ASSUME Joining PROVE StopSeen'
    BY <1>5 DEF Wait
  <2>1. pc = "wait" /\ cancel_render
    BY <1>5 DEF Wait
  <2>2. CASE render_event
    BY <1>5, <2>1, <2>2, Zenon DEF Wait, StopSeen, Joining
  <2>3. CASE ~render_event /\ timer = "fired"
    BY <1>5, <2>1, <2>3, Zenon DEF Wait, StopSeen, Joining
  <2>4. CASE ~render_event /\ timer # "fired"
    BY <1>5, <2>1, <2>4, Zenon DEF Wait, StopSeen, Joining
  <2> QED
    BY <2>2, <2>3, <2>4
<1>6. CASE Begin \/ Render \/ Finish \/ Destroy
  BY <1>6 DEF Begin, Render, Finish, Destroy
<1>7. CASE Dequeue \/ Enqueue \/ Drop \/ PresentSignals
  BY <1>7 DEF Dequeue, Enqueue, Drop, PresentSignals
<1>8. CASE Load \/ Unload \/ Release \/ UnloadSchedules
  BY <1>8 DEF Load, Unload, Release, UnloadSchedules
<1>9. CASE UNCHANGED vars
  BY <1>9 DEF vars
<1> QED
  BY <1>1, <1>2, <1>3, <1>4, <1>5, <1>6, <1>7, <1>8, <1>9 DEF Next, RenderThread

\* While the window thread joins it, only the render thread itself moves on, and
\* each of its steps brings it nearer to its end, but for a busy wait.
LEMMA StopSteps ==
  ASSUME Inv, StopSeen, Joining
  PROVE  /\ Within(8)
         /\ [Next]_vars => Joining' \/ Stopped'
         /\ [Next]_vars => \A k \in 1..8 : Within(k) => Within(k)' \/ Busy
         /\ <<RenderThread>>_vars => \A k \in 2..8 : Within(k) => Within(k - 1)' \/ Busy
         /\ \A k \in 2..8 : Within(k) => Within(1) \/ RenderCan
         /\ Within(1) => JoinCan
         /\ <<Join>>_vars => Stopped'
<1> USE DEF Inv, TypeOK, StopSeen, Joining
<1>1. \A k \in 1..8 : \/ k = 1 /\ Near[k] = {"ended"}
                      \/ k = 2 /\ Near[k] = Near[1] \cup {"destroy"}
                      \/ k = 3 /\ Near[k] = Near[2] \cup {"wait"}
                      \/ k = 4 /\ Near[k] = Near[3] \cup {"finish", "create"}
                      \/ k = 5 /\ Near[k] = Near[4] \cup {"render"}
                      \/ k = 6 /\ Near[k] = Near[5] \cup {"recreate"}
                      \/ k = 7 /\ Near[k] = Near[6] \cup {"reset"}
                      \/ k = 8 /\ Near[k] = Near[7] \cup {"begin"}
  BY DEF Near
<1>2. Within(8)
  BY DEF Within, Near
<1>3. ASSUME RenderThread, NEW k \in 1..8, Within(k), ~Busy
      PROVE  Within(k)' /\ (k # 1 => Within(k - 1)')
  <2> USE <1>3 DEF Busy, counts
  <2>1. CASE Create
    BY <2>1, <1>1 DEF Create, CreateDevice, Within
  <2>2. CASE Wait
    <3>1. pc = "wait" /\ pc' = "destroy"
      <4>1. cancel_render /\ ~render_event /\ timer # "fired" /\ pc = "wait"
        BY <2>2 DEF Wait
      <4> QED
        BY <2>2, <4>1, Zenon DEF Wait
    <3> QED
      BY <3>1, <1>1 DEF Within
  <2>3. CASE Begin
    BY <2>3, <1>1 DEF Begin, Within
  <2>4. CASE Reset
    BY <2>4, <1>1 DEF Reset, Within
  <2>5. CASE Recreate
    BY <2>5, <1>1 DEF Recreate, CreateDevice, Within
  <2>6. CASE Render
    BY <2>6, <1>1 DEF Render, Within
  <2>7. CASE Finish
    BY <2>7, <1>1 DEF Finish, Within
  <2>8. CASE Destroy
    BY <2>8, <1>1 DEF Destroy, Within
  <2> QED
    BY <2>1, <2>2, <2>3, <2>4, <2>5, <2>6, <2>7, <2>8 DEF RenderThread
<1>4. ASSUME [Next]_vars, ~RenderThread
      PROVE  pc' = pc /\ (Joining' \/ Stopped')
  <2> USE <1>4 DEF counts, SignalNewFrame, Stopped
  <2>1. CASE TimerFires \/ PresentSignals
    BY <2>1 DEF TimerFires, PresentSignals
  <2>2. CASE StartRendering \/ StartSchedules \/ StopRendering \/ Join
    BY <2>2 DEF StartRendering, StartSchedules, StopRendering, Join
  <2>3. CASE Dequeue \/ Enqueue \/ Drop
    BY <2>3 DEF Dequeue, Enqueue, Drop
  <2>4. CASE Load \/ Unload \/ Release \/ UnloadSchedules
    BY <2>4 DEF Load, Unload, Release, UnloadSchedules
  <2>5. CASE UNCHANGED vars
    BY <2>5 DEF vars
  <2> QED
    BY <2>1, <2>2, <2>3, <2>4, <2>5 DEF Next
<1>5. RenderThread => Joining'
  BY DEF RenderThread, Create, Wait, Begin, Reset, Recreate, Render, Finish, Destroy
<1>6. \A k \in 2..8 : Within(k) => Within(1) \/ RenderCan
  BY <1>1 DEF Within, RenderCan
<1>7. Within(1) => JoinCan
  BY <1>1 DEF Within, JoinCan
<1>8. <<Join>>_vars => Stopped'
  BY DEF Join, Stopped
<1> QED
  BY <1>2, <1>3, <1>4, <1>5, <1>6, <1>7, <1>8 DEF Within

\* stop_rendering returns, unless again and again the render thread comes to wait
\* and finds a frame signalled or its timer fired (render_thread_proc looks at
\* cancel_render last): nothing else can hold it up.
THEOREM StopsUnlessBusy ==
  Init /\ [][Next]_vars /\ EndersRun => (Joining ~> Stopped) \/ []<>Busy
<1>1. Init => TimerSet /\ StopSeen
  BY DEF Init, TimerSet, StopSeen, Joining
<1>2. Inv /\ TimerSet /\ StopSeen /\ [Next]_vars => TimerSet' /\ StopSeen'
  BY TimerKept, StopKept DEF Inv
<1>3. Init /\ [][Next]_vars => [](Inv /\ TimerSet /\ StopSeen)
  BY <1>1, <1>2, InitInv, NextInv, PTL
<1>4. Inv /\ StopSeen /\ Joining
        => /\ Within(8)
           /\ Within(8) => Within(1) \/ RenderCan
           /\ Within(7) => Within(1) \/ RenderCan
           /\ Within(6) => Within(1) \/ RenderCan
           /\ Within(5) => Within(1) \/ RenderCan
           /\ Within(4) => Within(1) \/ RenderCan
           /\ Within(3) => Within(1) \/ RenderCan
           /\ Within(2) => Within(1) \/ RenderCan
           /\ Within(1) => JoinCan
  BY StopSteps
<1>5. Inv /\ StopSeen /\ Joining /\ [Next]_vars => Joining' \/ Stopped'
  BY StopSteps
<1>6. Inv /\ StopSeen /\ Joining /\ ~Busy /\ [Next]_vars
        => /\ Within(7) => Within(7)'
           /\ Within(6) => Within(6)'
           /\ Within(5) => Within(5)'
           /\ Within(4) => Within(4)'
           /\ Within(3) => Within(3)'
           /\ Within(2) => Within(2)'
           /\ Within(1) => Within(1)'
  BY StopSteps
<1>7. Inv /\ StopSeen /\ Joining /\ ~Busy /\ <<RenderThread>>_vars
        => /\ Within(8) => Within(7)'
           /\ Within(7) => Within(6)'
           /\ Within(6) => Within(5)'
           /\ Within(5) => Within(4)'
           /\ Within(4) => Within(3)'
           /\ Within(3) => Within(2)'
           /\ Within(2) => Within(1)'
  <2>1. \A k \in 2..8 : k - 1 \in 1..7 /\ 8 - 1 = 7 /\ 7 - 1 = 6 /\ 6 - 1 = 5 /\ 5 - 1 = 4 /\ 4 - 1 = 3 /\ 3 - 1 = 2 /\ 2 - 1 = 1
    OBVIOUS
  <2> QED
    BY StopSteps, <2>1
<1>8. Inv /\ StopSeen /\ Joining /\ <<Join>>_vars => Stopped'
  BY StopSteps
<1> QED
  BY <1>3, <1>4, <1>5, <1>6, <1>7, <1>8, PTL DEF EndersRun
=============================================================================
