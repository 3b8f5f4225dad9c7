---------------------------- MODULE TextureQueue ----------------------------
(***************************************************************************)
(* The path of a video frame: the VMR9 presenter thread draws each frame   *)
(* into a texture and queues it, the render thread puts it on the screen   *)
(* and gives the texture back (include/shared_texture_queue.h,             *)
(* src/vmr9_allocator.cpp, src/player_scene.cpp).  A texture is created on *)
(* both Direct3D devices and named by its shared handle.                   *)
(*                                                                         *)
(* The queue is five containers behind five pointers.  Each container is   *)
(* lock free (InterlockedQueue), but nothing guards the pointers: reset    *)
(* replaces the containers one after another while other threads use       *)
(* them.  One action is one use of one container, so a reset may fall      *)
(* between any two of another thread's.                                    *)
(***************************************************************************)
EXTENDS Integers, Sequences, FiniteSets, Functions, SequencesExt

CONSTANTS Handles,     \* shared handles; numbers, so that the next is the least unused
          Minimum,     \* minimum_textures, the presenter's *buffer_count
          MaxFrames,   \* bound: frames decoded
          MaxLoads,    \* bound: files loaded
          MaxRebuilds, \* bound: devices lost and created again
          MaxFailures  \* bound: Direct3D calls that fail on a good device

ASSUME TextureAssumption ==
    /\ Handles \subseteq Nat /\ IsFiniteSet(Handles)
    /\ Minimum \in Nat \ {0}
    /\ MaxFrames \in Nat /\ MaxLoads \in Nat /\ MaxRebuilds \in Nat
    /\ MaxFailures \in Nat

Threads == {"vmr", "render", "graph"}

\* nullptr for a texture.
NoTexture == 0 - 1

\* Mutant of Replaced: a reset that forgets one of the queues.
ReplacedButProduced == <<"consumed", "producer_lookup", "consumer_lookup", "metadata">>

\* The order in which reset replaces the containers.
Replaced == <<"produced", "consumed", "producer_lookup", "consumer_lookup", "metadata">>

Blank == [produced |-> <<>>, consumed |-> <<>>, producer_lookup |-> {},
          consumer_lookup |-> {}, metadata |-> {}]

VARIABLES
    box,         \* the five containers
    device,      \* which of "producer", "consumer" the queue has a device of
    described,   \* description is set
    graph, video,\* the graph is loaded (its state), has_video
    alive,       \* the presenter still has its device
    pc,          \* where each thread is
    tex,         \* the texture each thread has in hand
    left,        \* texture pairs its reset has still to generate
    back,        \* where it goes on after a reset or a generate
    previous,    \* previous_texture, the one on screen
    drawn,       \* the frame last drawn into each texture
    stamp,       \* the frame whose timestamp is in each texture's metadata
    shown,       \* history: the last frame put on screen
    frame,       \* frames decoded so far
    first,       \* history: the first frame of the file now loaded
    loads, rebuilds, failures,
    torn         \* history: a reset overlapped another thread's frame or reset

threadVars == <<pc, tex, left, back>>
sceneVars  == <<previous, shown>>
frameVars  == <<drawn, stamp, frame, first>>
graphVars  == <<graph, video, loads>>
queueVars  == <<box, device, described>>
vars == <<queueVars, graphVars, alive, threadVars, sceneVars, frameVars, rebuilds, failures, torn>>

-----------------------------------------------------------------------------
(* reset and generate_texture_pair, run by whichever thread called them.   *)

Goto(t, l) == pc' = [pc EXCEPT ![t] = l]
At(t, l) == pc[t] = l

\* A Direct3D call on a good device fails.
Fails == failures < MaxFailures /\ failures' = failures + 1

\* Every handle some queue, table, texture pointer or stack still names.
InUse == {box.produced[i] : i \in DOMAIN box.produced}
         \cup {box.consumed[i] : i \in DOMAIN box.consumed}
         \cup box.producer_lookup \cup box.consumer_lookup \cup box.metadata
         \cup {tex[t] : t \in Threads} \cup {previous}

\* CreateTexture on the producer's device makes up a new shared handle: here
\* the least that is not in use.  An assumption: a handle that is still in a
\* container, though its texture is gone, is not made up again.  Direct3D does
\* not promise it, and a stale handle might then name the wrong texture.
NewHandle(h) == h \notin InUse /\ \A g \in Handles \ InUse : h <= g

\* Where a thread resumes when Direct3D throws out of its queue call: a
\* presenter's frame goes on after a failed reset() and ends after a failed
\* dequeue; the render thread goes on, unless it was starting; a load fails
\* in the presenter's constructor, but survives a failed InitializeDevice.
Catch(t) == CASE t = "vmr"    -> IF back[t] = "copy" THEN "copy" ELSE "idle"
              [] t = "render" -> IF back[t] = "emit" THEN "idle" ELSE "ended"
              [] t = "graph"  -> IF back[t] = "has video" THEN "loaded" ELSE "idle"

\* A thread enters reset, to continue at l; n is the index of the container.
BeginReset(t, l) == /\ pc' = [pc EXCEPT ![t] = "replace"]
                    /\ left' = [left EXCEPT ![t] = 1]
                    /\ back' = [back EXCEPT ![t] = l]

\* Another thread is inside reset or generate_texture_pair too.
OthersResetting(t) ==
    \E u \in Threads \ {t} : pc[u] \in {"replace", "make", "share", "describe", "offer"}

\* One of the five reset(new ...) lines; then the test that starts the loop.
Replace(t) ==
    /\ At(t, "replace")
    /\ LET c == Replaced[left[t]] IN
       /\ box' = [box EXCEPT ![c] = Blank[c]]
       /\ torn' = (torn \/ (t # "vmr" /\ tex["vmr"] # NoTexture) \/ OthersResetting(t))
       /\ IF left[t] < Len(Replaced)
          THEN left' = [left EXCEPT ![t] = @ + 1] /\ UNCHANGED pc
          ELSE IF device = {"producer", "consumer"} /\ described
          THEN left' = [left EXCEPT ![t] = Minimum] /\ Goto(t, "make")
          ELSE left' = [left EXCEPT ![t] = 0] /\ Goto(t, back[t])
    /\ UNCHANGED <<device, described, graphVars, alive, tex, back, sceneVars, frameVars, rebuilds, failures>>

Throw(t) == /\ Goto(t, Catch(t))
            /\ tex' = [tex EXCEPT ![t] = NoTexture]

\* The producer's half of a pair; throws when the device has gone.
Make(t) ==
    /\ At(t, "make")
    /\ \/ /\ "producer" \in device
          /\ \E h \in Handles :
               /\ NewHandle(h)
               /\ tex' = [tex EXCEPT ![t] = h]
               /\ box' = [box EXCEPT !.producer_lookup = @ \cup {h}]
               /\ drawn' = [drawn EXCEPT ![h] = 0] /\ stamp' = [stamp EXCEPT ![h] = 0]
          /\ Goto(t, "share") /\ UNCHANGED failures
       \/ /\ ("producer" \notin device /\ UNCHANGED failures) \/ Fails
          /\ Throw(t) /\ UNCHANGED <<box, drawn, stamp>>
    /\ torn' = (torn \/ OthersResetting(t))
    /\ UNCHANGED <<device, described, graphVars, alive, left, back, sceneVars, frame, first, rebuilds>>

\* The consumer's half; a throw here leaves the first half in its table.
Share(t) ==
    /\ At(t, "share")
    /\ \/ /\ "consumer" \in device
          /\ box' = [box EXCEPT !.consumer_lookup = @ \cup {tex[t]}]
          /\ Goto(t, "describe") /\ UNCHANGED <<tex, failures>>
       \/ /\ ("consumer" \notin device /\ UNCHANGED failures) \/ Fails
          /\ Throw(t) /\ UNCHANGED box
    /\ UNCHANGED <<device, described, graphVars, alive, left, back, sceneVars, frameVars, rebuilds, torn>>

\* Mutant of Describe: no metadata->insert.
DescribeNothing(t) ==
    /\ At(t, "describe")
    /\ Goto(t, "offer")
    /\ UNCHANGED <<box, device, described, graphVars, alive, tex, left, back, sceneVars, frameVars, rebuilds, torn, failures>>

Describe(t) ==
    /\ At(t, "describe")
    /\ box' = [box EXCEPT !.metadata = @ \cup {tex[t]}]
    /\ Goto(t, "offer")
    /\ UNCHANGED <<device, described, graphVars, alive, tex, left, back, sceneVars, frameVars, rebuilds, torn, failures>>

Offer(t) ==
    /\ At(t, "offer")
    /\ box' = [box EXCEPT !.consumed = Append(@, tex[t])]
    /\ tex' = [tex EXCEPT ![t] = NoTexture]
    /\ left' = [left EXCEPT ![t] = @ - 1]
    /\ Goto(t, IF left[t] > 1 THEN "make" ELSE back[t])
    /\ UNCHANGED <<device, described, graphVars, alive, back, sceneVars, frameVars, rebuilds, torn, failures>>

\* set_producer, set_consumer: the device, then reset.
SetDevice(t, side, present, l) ==
    /\ device' = IF present THEN device \cup {side} ELSE device \ {side}
    /\ BeginReset(t, l)
    /\ UNCHANGED <<box, described, failures>>

\* set_parameters.
SetParameters(t, l) ==
    /\ described' = TRUE
    /\ BeginReset(t, l)
    /\ UNCHANGED <<box, device, failures>>

-----------------------------------------------------------------------------
(* The VMR's streaming thread: PresentImage.                               *)

\* VMR9 presents only while the graph is loaded, one image at a time.
PresentImage ==
    /\ At("vmr", "idle") /\ graph /\ video /\ At("graph", "idle") /\ frame < MaxFrames
    /\ frame' = frame + 1
    /\ Goto("vmr", "check")
    /\ UNCHANGED <<queueVars, graphVars, alive, tex, left, back, sceneVars, drawn, stamp, first, rebuilds, torn, failures>>

\* reset(): CheckDeviceState finds the device good, throws on a null one
\* (and is caught), or the device has to be made again.
CheckDevice ==
    /\ At("vmr", "check")
    /\ Goto("vmr", "copy")
    /\ UNCHANGED <<queueVars, graphVars, alive, tex, left, back, sceneVars, frameVars, rebuilds, torn, failures>>

\* reset_device: Reset says DEVICELOST (and nobody creates the device
\* again), or INVALIDCALL, and the device is destroyed and created.
\* destroy_device ends in on_device_lost twice.
LoseProducer ==
    /\ At("vmr", "check") /\ alive /\ rebuilds < MaxRebuilds
    /\ rebuilds' = rebuilds + 1
    /\ alive' = FALSE
    /\ \E l \in {"copy", "destroy"} : SetDevice("vmr", "producer", FALSE, l)
    /\ UNCHANGED <<graphVars, tex, sceneVars, frameVars, torn, failures>>

DestroyProducer ==
    /\ At("vmr", "destroy")
    /\ SetDevice("vmr", "producer", FALSE, "create")
    /\ UNCHANGED <<graphVars, alive, tex, sceneVars, frameVars, rebuilds, torn, failures>>

CreateProducer ==
    /\ At("vmr", "create")
    /\ alive' = TRUE
    /\ SetDevice("vmr", "producer", TRUE, "copy")
    /\ UNCHANGED <<graphVars, tex, sceneVars, frameVars, rebuilds, torn, failures>>

\* StretchRect into the staging surface; a null device throws.
CopyImage ==
    /\ At("vmr", "copy")
    /\ \/ alive /\ Goto("vmr", "dequeue") /\ UNCHANGED failures
       \/ ((~alive /\ UNCHANGED failures) \/ Fails) /\ Goto("vmr", "idle")
    /\ UNCHANGED <<queueVars, graphVars, alive, tex, left, back, sceneVars, frameVars, rebuilds, torn>>

\* producer_dequeue: pop consumed, or generate a pair and try again.
ProducerDequeue ==
    /\ At("vmr", "dequeue")
    /\ IF box.consumed # <<>>
       THEN /\ tex' = [tex EXCEPT !["vmr"] = Head(box.consumed)]
            /\ box' = [box EXCEPT !.consumed = Tail(@)]
            /\ Goto("vmr", "find") /\ UNCHANGED <<left, back>>
       ELSE /\ left' = [left EXCEPT !["vmr"] = 1]
            /\ back' = [back EXCEPT !["vmr"] = "dequeue"]
            /\ Goto("vmr", "make") /\ UNCHANGED <<tex, box>>
    /\ torn' = (torn \/ OthersResetting("vmr"))
    /\ UNCHANGED <<device, described, graphVars, alive, sceneVars, frameVars, rebuilds, failures>>

\* ...and look it up.  A handle the table lacks is a null texture, which
\* GetSurfaceLevel throws on: the frame is dropped, the handle forgotten.
ProducerFind ==
    /\ At("vmr", "find")
    /\ IF tex["vmr"] \in box.producer_lookup
       THEN Goto("vmr", "draw") /\ UNCHANGED tex
       ELSE Goto("vmr", "idle") /\ tex' = [tex EXCEPT !["vmr"] = NoTexture]
    /\ UNCHANGED <<queueVars, graphVars, alive, left, back, sceneVars, frameVars, rebuilds, torn, failures>>

\* StretchRect and the LockRect that flushes it.  A failure throws with the
\* texture in neither queue.
Draw ==
    /\ At("vmr", "draw")
    /\ \/ /\ drawn' = [drawn EXCEPT ![tex["vmr"]] = frame]
          /\ Goto("vmr", "enqueue") /\ UNCHANGED <<tex, failures>>
       \/ /\ Fails
          /\ Goto("vmr", "idle") /\ tex' = [tex EXCEPT !["vmr"] = NoTexture] /\ UNCHANGED drawn
    /\ UNCHANGED <<queueVars, graphVars, alive, left, back, sceneVars, stamp, frame, first, rebuilds, torn>>

\* Mutant of ProducerEnqueue: the newest frame first, as from a stack.
ProducerEnqueueOnTop ==
    /\ At("vmr", "enqueue")
    /\ box' = [box EXCEPT !.produced = <<tex["vmr"]>> \o @]
    /\ Goto("vmr", "stamp")
    /\ UNCHANGED <<device, described, graphVars, alive, tex, left, back, sceneVars, frameVars, rebuilds, torn, failures>>

ProducerEnqueue ==
    /\ At("vmr", "enqueue")
    /\ box' = [box EXCEPT !.produced = Append(@, tex["vmr"])]
    /\ Goto("vmr", "stamp")
    /\ UNCHANGED <<device, described, graphVars, alive, tex, left, back, sceneVars, frameVars, rebuilds, torn, failures>>

\* Mutant of Stamp: the timestamp is not written.
StampNothing ==
    /\ At("vmr", "stamp")
    /\ Goto("vmr", "idle")
    /\ tex' = [tex EXCEPT !["vmr"] = NoTexture]
    /\ UNCHANGED <<queueVars, graphVars, alive, left, back, sceneVars, frameVars, rebuilds, torn, failures>>

\* get_metadata(...).timestamp = rtStart, after the texture is published.
\* A handle the table lacks is a null pointer dereferenced.
Stamp ==
    /\ At("vmr", "stamp")
    /\ IF tex["vmr"] \in box.metadata
       THEN stamp' = [stamp EXCEPT ![tex["vmr"]] = frame] /\ Goto("vmr", "idle")
       ELSE Goto("vmr", "crashed") /\ UNCHANGED stamp
    /\ tex' = [tex EXCEPT !["vmr"] = NoTexture]
    /\ UNCHANGED <<queueVars, graphVars, alive, left, back, sceneVars, drawn, frame, first, rebuilds, torn, failures>>

\* InitializeDevice again, when the format of a running stream changes.
Reformat ==
    /\ At("vmr", "idle") /\ graph /\ video /\ At("graph", "idle") /\ alive /\ rebuilds < MaxRebuilds
    /\ rebuilds' = rebuilds + 1
    /\ SetParameters("vmr", "idle")
    /\ UNCHANGED <<graphVars, alive, tex, sceneVars, frameVars, torn, failures>>

Vmr == \/ PresentImage \/ CheckDevice \/ LoseProducer \/ DestroyProducer \/ CreateProducer
       \/ CopyImage \/ ProducerDequeue \/ ProducerFind \/ Draw \/ ProducerEnqueue \/ Stamp \/ Reformat

-----------------------------------------------------------------------------
(* The render thread: the part of an iteration that touches the queue.     *)

\* create_device, first thing on the thread and whenever it is made again.
CreateConsumer ==
    /\ pc["render"] \in {"start", "create"}
    /\ SetDevice("render", "consumer", TRUE, IF At("render", "start") THEN "idle" ELSE "emit")
    /\ UNCHANGED <<graphVars, alive, tex, sceneVars, frameVars, rebuilds, torn, failures>>

\* reset() finds the device good...
Wake ==
    /\ At("render", "idle")
    /\ Goto("render", "emit")
    /\ UNCHANGED <<queueVars, graphVars, alive, tex, left, back, sceneVars, frameVars, rebuilds, torn, failures>>

\* ...or destroys it to create it again...
LoseConsumer ==
    /\ At("render", "idle") /\ rebuilds < MaxRebuilds
    /\ rebuilds' = rebuilds + 1
    /\ SetDevice("render", "consumer", FALSE, "create")
    /\ UNCHANGED <<graphVars, alive, tex, sceneVars, frameVars, torn, failures>>

\* ...or cancel_render ends the thread, while the presenter runs on.
Cancel ==
    /\ At("render", "idle") /\ rebuilds < MaxRebuilds
    /\ rebuilds' = rebuilds + 1
    /\ SetDevice("render", "consumer", FALSE, "ended")
    /\ UNCHANGED <<graphVars, alive, tex, sceneVars, frameVars, torn, failures>>

\* do_emit_scene asks DirectShow's state before it asks the queue.
EmitScene ==
    /\ At("render", "emit")
    /\ Goto("render", IF graph /\ video THEN "pop" ELSE "put back")
    /\ UNCHANGED <<queueVars, graphVars, alive, tex, left, back, sceneVars, frameVars, rebuilds, torn, failures>>

\* consumer_dequeue: with no new frame the previous one stays on screen.
ConsumerDequeue ==
    /\ At("render", "pop")
    /\ IF box.produced # <<>>
       THEN /\ tex' = [tex EXCEPT !["render"] = Head(box.produced)]
            /\ box' = [box EXCEPT !.produced = Tail(@)]
            /\ Goto("render", "find")
       ELSE Goto("render", "idle") /\ UNCHANGED <<tex, box>>
    /\ UNCHANGED <<device, described, graphVars, alive, left, back, sceneVars, frameVars, rebuilds, torn, failures>>

\* A handle the table lacks counts as no new frame.
ConsumerFind ==
    /\ At("render", "find")
    /\ IF tex["render"] \in box.consumer_lookup
       THEN Goto("render", "show") /\ UNCHANGED tex
       ELSE Goto("render", "idle") /\ tex' = [tex EXCEPT !["render"] = NoTexture]
    /\ UNCHANGED <<queueVars, graphVars, alive, left, back, sceneVars, frameVars, rebuilds, torn, failures>>

\* Mutants of GiveBack: without the null test; not given back at all.
GiveBackNull == box' = [box EXCEPT !.consumed = Append(@, previous)]
GiveBackNothing == UNCHANGED box

\* consumer_enqueue(previous_texture), if there is one.
GiveBack == box' = [box EXCEPT !.consumed = IF previous = NoTexture THEN @ ELSE Append(@, previous)]

\* Mutant of Show: the new texture is given back instead of the previous one.
ShowGivesBackNew ==
    /\ At("render", "show")
    /\ box' = [box EXCEPT !.consumed = Append(@, tex["render"])]
    /\ previous' = tex["render"] /\ shown' = drawn[tex["render"]]
    /\ tex' = [tex EXCEPT !["render"] = NoTexture]
    /\ Goto("render", "idle")
    /\ UNCHANGED <<device, described, graphVars, alive, left, back, frameVars, rebuilds, torn, failures>>

Show ==
    /\ At("render", "show")
    /\ GiveBack
    /\ previous' = tex["render"] /\ shown' = drawn[tex["render"]]
    /\ tex' = [tex EXCEPT !["render"] = NoTexture]
    /\ Goto("render", "idle")
    /\ UNCHANGED <<device, described, graphVars, alive, left, back, frameVars, rebuilds, torn, failures>>

\* Nothing to show: unloaded, or no video; also player_scene's destructor.
PutBack ==
    /\ pc["render"] \in {"put back", "ended"}
    /\ GiveBack
    /\ previous' = NoTexture
    /\ Goto("render", IF At("render", "ended") THEN "gone" ELSE "idle")
    /\ UNCHANGED <<device, described, graphVars, alive, tex, left, back, shown, frameVars, rebuilds, torn, failures>>

Render == \/ CreateConsumer \/ Wake \/ LoseConsumer \/ Cancel \/ EmitScene
          \/ ConsumerDequeue \/ ConsumerFind \/ Show \/ PutBack

-----------------------------------------------------------------------------
(* The DirectShow thread: building and destroying the graph.               *)

\* add_vmr9 creates the presenter, and with it the producer's device.
\* RenderFile connects it if the file has video.
Load ==
    /\ At("graph", "idle") /\ ~graph /\ loads < MaxLoads
    /\ loads' = loads + 1 /\ first' = frame + 1
    /\ alive' = TRUE
    /\ \E l \in {"connect", "loaded"} : SetDevice("graph", "producer", TRUE, l)
    /\ UNCHANGED <<graph, video, tex, sceneVars, drawn, stamp, frame, rebuilds, torn, failures>>

\* InitializeDevice, called by VMR9 as RenderFile connects it.
InitializeDevice ==
    /\ At("graph", "connect")
    /\ SetParameters("graph", "has video")
    /\ UNCHANGED <<graphVars, alive, tex, sceneVars, frameVars, rebuilds, torn, failures>>

\* has_video, then, once do_load has returned, the state.
Loaded ==
    /\ \/ At("graph", "has video") /\ Goto("graph", "loaded") /\ video' = TRUE /\ UNCHANGED graph
       \/ At("graph", "loaded") /\ Goto("graph", "idle") /\ graph' = TRUE /\ UNCHANGED video
    /\ UNCHANGED <<queueVars, loads, alive, tex, left, back, sceneVars, frameVars, rebuilds, torn, failures>>

\* destroy_graph, on a stopped graph: no image is being presented.
Unload ==
    /\ At("graph", "idle") /\ graph /\ At("vmr", "idle")
    /\ video' = FALSE
    /\ Goto("graph", "release")
    /\ UNCHANGED <<queueVars, graph, loads, alive, tex, left, back, sceneVars, frameVars, rebuilds, torn, failures>>

\* Releasing VMR9 destroys the presenter: on_device_lost runs twice.
Release ==
    /\ pc["graph"] \in {"release", "release again"}
    /\ alive' = FALSE
    /\ SetDevice("graph", "producer", FALSE,
                 IF At("graph", "release") THEN "release again" ELSE "unloaded")
    /\ UNCHANGED <<graphVars, tex, sceneVars, frameVars, rebuilds, torn, failures>>

Unloaded ==
    /\ At("graph", "unloaded")
    /\ graph' = FALSE
    /\ Goto("graph", "idle")
    /\ UNCHANGED <<queueVars, video, loads, alive, tex, left, back, sceneVars, frameVars, rebuilds, torn, failures>>

Graph == Load \/ InitializeDevice \/ Loaded \/ Unload \/ Release \/ Unloaded

-----------------------------------------------------------------------------
Init ==
    /\ box = Blank /\ device = {} /\ described = FALSE
    /\ graph = FALSE /\ video = FALSE /\ alive = FALSE
    /\ pc = [t \in Threads |-> IF t = "render" THEN "start" ELSE "idle"]
    /\ tex = [t \in Threads |-> NoTexture]
    /\ left = [t \in Threads |-> 0]
    /\ back = [t \in Threads |-> "idle"]
    /\ previous = NoTexture /\ shown = 0
    /\ drawn = [h \in Handles |-> 0] /\ stamp = [h \in Handles |-> 0]
    /\ frame = 0 /\ first = 1
    /\ loads = 0 /\ rebuilds = 0 /\ failures = 0 /\ torn = FALSE

Generating(t) == Replace(t) \/ Make(t) \/ Share(t) \/ Describe(t) \/ Offer(t)

\* A null metadata pointer ends the process.
Next == /\ ~At("vmr", "crashed")
        /\ \/ Vmr \/ Render \/ Graph
           \/ \E t \in Threads : Generating(t)

Spec == Init /\ [][Next]_vars

-----------------------------------------------------------------------------
(* Properties.                                                             *)

Labels == {"idle", "replace", "make", "share", "describe", "offer",
           "check", "copy", "destroy", "create", "dequeue", "find", "draw", "enqueue", "stamp", "crashed",
           "start", "emit", "pop", "show", "put back", "ended", "gone",
           "connect", "has video", "loaded", "release", "release again", "unloaded"}

\* The shape of every variable: a handle may be known to some containers and
\* not to others, but no queue ever holds a null texture.
TypeOK ==
    /\ box.produced \in Seq(Handles) /\ box.consumed \in Seq(Handles)
    /\ box.producer_lookup \subseteq Handles /\ box.consumer_lookup \subseteq Handles
    /\ box.metadata \subseteq Handles
    /\ device \subseteq {"producer", "consumer"}
    /\ {described, graph, video, alive, torn} \subseteq BOOLEAN
    /\ pc \in [Threads -> Labels] /\ back \in [Threads -> Labels]
    /\ tex \in [Threads -> Handles \cup {NoTexture}]
    /\ left \in [Threads -> Nat]
    /\ previous \in Handles \cup {NoTexture}
    /\ drawn \in [Handles -> 0..MaxFrames] /\ stamp \in [Handles -> 0..MaxFrames]
    /\ shown \in 0..MaxFrames /\ frame \in 0..MaxFrames /\ first \in 1..MaxFrames + 1
    /\ loads \in 0..MaxLoads /\ rebuilds \in 0..MaxRebuilds
    /\ failures \in 0..MaxFailures

\* The texture a thread alone may touch; after enqueue the presenter only
\* names its texture, to stamp it.
Hand(t) == IF tex[t] = NoTexture \/ At(t, "stamp") THEN <<>> ELSE <<tex[t]>>

OnScreen == IF previous = NoTexture THEN <<>> ELSE <<previous>>

Places == box.produced \o box.consumed \o OnScreen
          \o Hand("vmr") \o Hand("render") \o Hand("graph")

\* No texture is in two places: the presenter never draws into the texture on
\* screen, or into one still queued for it, whatever resets overtake it.
OnePlace == IsInjective(Places)

\* The picture on screen is the frame that was put there: nobody draws into
\* previous_texture between one do_emit_scene and the next.
ShownIsStill == previous # NoTexture => drawn[previous] = shown

\* The screen never goes back to an earlier frame, across queues, devices and
\* files (PresentImage, do_emit_scene).
FramesInOrder == [][previous' \notin {previous, NoTexture} => shown' > shown]_vars

\* PresentImage publishes a texture before it writes the timestamp: that is
\* the only moment at which a queued texture carries an older frame's.
StampedOncePublished ==
    ~At("vmr", "crashed") =>
        \A h \in ToSet(box.produced) \cup ({previous} \ {NoTexture}) :
            stamp[h] = drawn[h] \/ (At("vmr", "stamp") /\ tex["vmr"] = h)

\* get_metadata dereferences what it finds.  It finds the metadata of the
\* presenter's texture unless another thread's reset came between the
\* dequeue and the stamp, or two resets ran at once.
MetadataFound == At("vmr", "stamp") /\ ~torn => tex["vmr"] \in box.metadata

Whole == \A t \in Threads : ~At(t, "replace")

\* While no Direct3D call has failed and no reset overlaps another thread's use, a
\* texture the queue knows is always somewhere it will be used again.
NothingLost == failures = 0 /\ ~torn /\ Whole => box.metadata \subseteq ToSet(Places)

\* The frames waiting while a file plays are that file's: unloading and loading
\* leave none behind, even those the render thread never fetched.
QueueIsOfThisFile ==
    graph /\ video => \A h \in ToSet(box.produced) : drawn[h] >= first

=============================================================================
