------------------------------- MODULE Renderer -------------------------------
(***************************************************************************)
(* The render thread of d3d_renderer and those who wake it: the presenter  *)
(* (signal_new_frame), the waitable timer, the window thread that starts   *)
(* and joins it, and the DirectShow thread that re-arms the timer when a   *)
(* file is unloaded.  The texture queue is here only the number of frames  *)
(* in it; TextureQueue has the rest.  Nobody calls                         *)
(* signal_new_frame_and_wait, so its two events are left out.              *)
(*                                                                         *)
(* WaitForMultipleObjects returns the lowest index that is signalled; a    *)
(* signal that finds the thread waiting wakes it, and an auto-reset event  *)
(* is then not left set.                                                   *)
(***************************************************************************)
EXTENDS Integers

CONSTANTS MaxFrames,  \* bound: frames decoded
          MaxLoads,   \* bound: files loaded
          MaxErrors,  \* bound: Direct3D calls that fail, devices made again
          MaxLate     \* bound: times the timer fires before the thread waits again

ASSUME RendererAssumption == {MaxFrames, MaxLoads, MaxErrors, MaxLate} \subseteq Nat

VARIABLES
    ui,           \* the window thread: before, schedule, running, joining, stopped
    pc,           \* the render thread
    timer,        \* render_timer: off, armed or fired; manual reset
    render_event, \* set; auto reset
    cancel_render,\* set; auto reset
    device,       \* null, bare (created, but its callbacks have not run) or ready
    frames,       \* frames in texture_queue->produced
    presenter,    \* idle, holding a texture, or about to signal
    dshow, video, \* the DirectShow thread; is a video loaded?
    decoded, loads, errors, late  \* counts, for the bounds

vars == <<ui, pc, timer, render_event, cancel_render, device, frames,
          presenter, dshow, video, decoded, loads, errors, late>>
counts == <<decoded, loads, errors, late>>

Init ==
    /\ ui = "before" /\ pc = "none"
    /\ timer = "off" /\ render_event = FALSE /\ cancel_render = FALSE
    /\ device = "null" /\ frames = 0
    /\ presenter = "idle" /\ dshow = "idle" /\ video = FALSE
    /\ decoded = 0 /\ loads = 0 /\ errors = 0 /\ late = 0

-----------------------------------------------------------------------------
(* The kernel's objects                                                    *)

\* SetEvent(render_event).
SignalNewFrame ==
    IF pc = "blocked" THEN pc' = "begin" /\ UNCHANGED render_event
    ELSE render_event' = TRUE /\ UNCHANGED pc

\* SetWaitableTimer also takes back a signal that was not waited for.
ScheduleRender == timer' = "armed"

\* The timer fires, as a rule while the thread waits for it.
TimerFires ==
    /\ timer = "armed" /\ timer' = "fired"
    /\ IF pc = "blocked" THEN pc' = "begin" /\ UNCHANGED late
       ELSE late < MaxLate /\ late' = late + 1 /\ UNCHANGED pc
    /\ UNCHANGED <<ui, render_event, cancel_render, device, frames, presenter,
                   dshow, video, decoded, loads, errors>>

-----------------------------------------------------------------------------
(* The window thread                                                       *)

\* start_rendering, up to CreateThread.
StartRendering ==
    /\ ui = "before"
    /\ ui' = "schedule" /\ pc' = "create"
    /\ UNCHANGED <<timer, render_event, cancel_render, device, frames,
                   presenter, dshow, video, counts>>

\* Mutant of StartSchedules: the timer is left to the thread.
StartSchedulesNothing ==
    /\ ui = "schedule"
    /\ ui' = "running"
    /\ UNCHANGED <<pc, timer, render_event, cancel_render, device, frames,
                   presenter, dshow, video, counts>>

\* ... and the schedule_render after it, with the thread already running.
StartSchedules ==
    /\ ui = "schedule"
    /\ ScheduleRender
    /\ ui' = "running"
    /\ UNCHANGED <<pc, render_event, cancel_render, device, frames,
                   presenter, dshow, video, counts>>

\* stop_rendering: awkawk is destroyed, whatever DirectShow is doing.
StopRendering ==
    /\ ui = "running"
    /\ ui' = "joining"
    /\ IF pc = "blocked" THEN pc' = "destroy" /\ UNCHANGED cancel_render
       ELSE cancel_render' = TRUE /\ UNCHANGED pc
    /\ UNCHANGED <<timer, render_event, device, frames, presenter, dshow,
                   video, counts>>

Join ==
    /\ ui = "joining" /\ pc = "ended"
    /\ ui' = "stopped"
    /\ UNCHANGED <<pc, timer, render_event, cancel_render, device, frames,
                   presenter, dshow, video, counts>>

-----------------------------------------------------------------------------
(* The render thread                                                       *)

Error == errors < MaxErrors /\ errors' = errors + 1

\* create_device; on_device_created makes a new, empty texture queue.  A call
\* that fails before CreateDeviceEx leaves no device, one after it a bare one.
CreateDevice(good, bad) ==
    \/ device' = "ready" /\ frames' = 0 /\ pc' = good /\ UNCHANGED errors
    \/ device' \in {"null", "bare"} /\ Error /\ pc' = bad /\ UNCHANGED frames

\* The first device; without it the thread ends.
Create ==
    /\ pc = "create"
    /\ CreateDevice("wait", "ended")
    /\ UNCHANGED <<ui, timer, render_event, cancel_render, presenter, dshow,
                   video, decoded, loads, late>>

\* Mutant of Wait: cancel_render is not among the events.
WaitForever ==
    /\ pc = "wait"
    /\ IF render_event THEN pc' = "begin" /\ render_event' = FALSE
       ELSE /\ pc' = IF timer = "fired" THEN "begin" ELSE "blocked"
            /\ UNCHANGED render_event
    /\ UNCHANGED <<ui, timer, cancel_render, device, frames, presenter, dshow,
                   video, counts>>

\* What is already signalled when the thread comes to wait.
Wait ==
    /\ pc = "wait"
    /\ IF render_event
       THEN pc' = "begin" /\ render_event' = FALSE /\ UNCHANGED cancel_render
       ELSE /\ pc' = IF timer = "fired" THEN "begin"
                     ELSE IF cancel_render THEN "destroy" ELSE "blocked"
            /\ cancel_render' = (cancel_render /\ timer = "fired")
            /\ UNCHANGED render_event
    /\ UNCHANGED <<ui, timer, device, frames, presenter, dshow, video, counts>>

\* schedule_render(frame_delay), before anything is drawn.
Begin ==
    /\ pc = "begin"
    /\ ScheduleRender
    /\ pc' = "reset"
    /\ UNCHANGED <<ui, render_event, cancel_render, device, frames, presenter,
                   dshow, video, counts>>

\* reset: the device is good, or occluded, or Reset repairs it, or reports it
\* still lost; or it must be made again, and is destroyed with its textures.
\* With no device to ask, the iteration is over.
Reset ==
    /\ pc = "reset"
    /\ \/ device # "null" /\ pc' = "render" /\ UNCHANGED <<device, frames, errors>>
       \/ device # "null" /\ Error /\ device' = "null" /\ frames' = 0 /\ pc' = "recreate"
       \/ device = "null" /\ pc' = "finish" /\ UNCHANGED <<device, frames, errors>>
    /\ UNCHANGED <<ui, timer, render_event, cancel_render, presenter, dshow,
                   video, decoded, loads, late>>

Recreate ==
    /\ pc = "recreate"
    /\ CreateDevice("render", "finish")
    /\ UNCHANGED <<ui, timer, render_event, cancel_render, presenter, dshow,
                   video, decoded, loads, late>>

\* Mutant of Taken: the queue is not asked whether it is empty.
TakenAlways == IF video THEN frames - 1 ELSE frames

\* What do_emit_scene leaves in the queue: it takes one frame if there is one.
Taken == IF video /\ frames > 0 THEN frames - 1 ELSE frames

\* render: do_emit_scene takes a frame, unless a call before it fails or the
\* scene was never told of the device.
Render ==
    /\ pc = "render"
    /\ \/ device = "ready" /\ frames' = Taken /\ UNCHANGED errors
       \/ device = "ready" /\ Error /\ UNCHANGED frames
       \/ device = "bare" /\ UNCHANGED <<frames, errors>>
    /\ pc' = "finish"
    /\ UNCHANGED <<ui, timer, render_event, cancel_render, device, presenter,
                   dshow, video, decoded, loads, late>>

\* Mutant of Finish: no look at the backlog.
FinishAnyway ==
    /\ pc = "finish"
    /\ pc' = "wait"
    /\ UNCHANGED <<ui, timer, render_event, cancel_render, device, frames,
                   presenter, dshow, video, counts>>

\* Two signals may have become one: look for what is still queued.
Finish ==
    /\ pc = "finish"
    /\ pc' = "wait"
    /\ render_event' = (render_event \/ frames > 0)
    /\ UNCHANGED <<ui, timer, cancel_render, device, frames, presenter, dshow,
                   video, counts>>

\* destroy_device, destroy_d3d.
Destroy ==
    /\ pc = "destroy"
    /\ device' = "null" /\ frames' = 0
    /\ pc' = "ended"
    /\ UNCHANGED <<ui, timer, render_event, cancel_render, presenter, dshow,
                   video, counts>>

RenderThread == Create \/ Wait \/ Begin \/ Reset \/ Recreate \/ Render \/ Finish \/ Destroy

-----------------------------------------------------------------------------
(* The presenter and DirectShow                                            *)

\* PresentImage has a texture, which it can only get while both devices live.
Dequeue ==
    /\ presenter = "idle" /\ video /\ dshow = "idle"
    /\ device = "ready" /\ decoded < MaxFrames
    /\ decoded' = decoded + 1
    /\ presenter' = "holding"
    /\ UNCHANGED <<ui, pc, timer, render_event, cancel_render, device, frames,
                   dshow, video, loads, errors, late>>

Enqueue ==
    /\ presenter = "holding"
    /\ frames' = frames + 1
    /\ presenter' = "signal"
    /\ UNCHANGED <<ui, pc, timer, render_event, cancel_render, device, dshow,
                   video, counts>>

\* A call on the texture fails: the frame is dropped and nobody signalled.
Drop ==
    /\ presenter = "holding" /\ Error
    /\ presenter' = "idle"
    /\ UNCHANGED <<ui, pc, timer, render_event, cancel_render, device, frames,
                   dshow, video, decoded, loads, late>>

\* After stop_rendering the handle is closed and SetEvent only fails.
PresentSignals ==
    /\ presenter = "signal"
    /\ IF ui = "stopped" THEN UNCHANGED <<pc, render_event>> ELSE SignalNewFrame
    /\ presenter' = "idle"
    /\ UNCHANGED <<ui, timer, cancel_render, device, frames, dshow, video, counts>>

\* create_graph; the new presenter's device empties the queue before.
Load ==
    /\ dshow = "idle" /\ ~video /\ loads < MaxLoads
    /\ loads' = loads + 1
    /\ video' = TRUE /\ frames' = 0
    /\ UNCHANGED <<ui, pc, timer, render_event, cancel_render, device,
                   presenter, dshow, decoded, errors, late>>

\* destroy_graph, of a stopped graph: has_video is cleared, ...
Unload ==
    /\ dshow = "idle" /\ video /\ presenter = "idle"
    /\ video' = FALSE /\ dshow' = "release"
    /\ UNCHANGED <<ui, pc, timer, render_event, cancel_render, device, frames,
                   presenter, counts>>

\* ... the presenter goes, and what is queued with it, ...
Release ==
    /\ dshow = "release"
    /\ frames' = 0 /\ dshow' = "schedule"
    /\ UNCHANGED <<ui, pc, timer, render_event, cancel_render, device,
                   presenter, video, counts>>

\* ... and a render of the empty scene is scheduled.
UnloadSchedules ==
    /\ dshow = "schedule"
    /\ IF ui \in {"before", "stopped"} THEN UNCHANGED timer ELSE ScheduleRender
    /\ dshow' = "idle"
    /\ UNCHANGED <<ui, pc, render_event, cancel_render, device, frames,
                   presenter, video, counts>>

-----------------------------------------------------------------------------
Next == \/ TimerFires
        \/ StartRendering \/ StartSchedules \/ StopRendering \/ Join
        \/ RenderThread
        \/ Dequeue \/ Enqueue \/ Drop \/ PresentSignals
        \/ Load \/ Unload \/ Release \/ UnloadSchedules

\* The threads run and a timer goes off in the end; nobody need stop the
\* player, and no frame need be decoded.
Fairness ==
    /\ WF_vars(RenderThread) /\ WF_vars(StartSchedules) /\ WF_vars(Join)
    /\ WF_vars(TimerFires) /\ WF_vars(Enqueue \/ PresentSignals)
    /\ WF_vars(Release \/ UnloadSchedules)

Spec == Init /\ [][Next]_vars /\ Fairness
-----------------------------------------------------------------------------
(* Properties                                                              *)

\* The shape of every variable.
TypeOK ==
    /\ ui \in {"before", "schedule", "running", "joining", "stopped"}
    /\ pc \in {"none", "create", "wait", "blocked", "begin", "reset",
               "recreate", "render", "finish", "destroy", "ended"}
    /\ timer \in {"off", "armed", "fired"}
    /\ render_event \in BOOLEAN /\ cancel_render \in BOOLEAN /\ video \in BOOLEAN
    /\ device \in {"null", "bare", "ready"}
    /\ frames \in 0..MaxFrames
    /\ presenter \in {"idle", "holding", "signal"}
    /\ dshow \in {"idle", "release", "schedule"}
    /\ decoded \in 0..MaxFrames /\ loads \in 0..MaxLoads
    /\ errors \in 0..MaxErrors /\ late \in 0..MaxLate

\* The renderer never sleeps on a frame: one auto-reset event stands for any
\* number of signals and each iteration takes one frame, but the look at the
\* backlog and the order of enqueue and signal make up for it.
WokenForFrames == pc = "blocked" /\ frames > 0 => presenter = "signal"

\* With no video at all the scene is still painted: no order of the first
\* schedule_render, the thread's own and an unload's leaves the thread
\* waiting for a timer that nobody set.
NeverSleepsForever == (pc = "blocked") ~> (pc # "blocked")

\* The window thread gets away from stop_rendering: cancel_render is the last
\* of the events and is seen only when no other is set, but frames end, and so
\* do iterations that outlast the timer.  A device that cannot be made again
\* is the exception: a frame queued then is never taken, the thread never
\* stops signalling itself, and stop_rendering waits for ever.
StopReturns ==
    \/ (ui = "joining") ~> (ui = "stopped")
    \/ <>[](device # "ready")
=============================================================================
