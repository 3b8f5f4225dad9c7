# A formal model of awkawk

awkawk is a Windows media player: DirectShow builds and runs a filter graph, a
custom VMR9 allocator-presenter copies each decoded frame into a texture, a
Direct3D 9 renderer with a thread of its own paints frames and on-screen
controls, and two finite state machines on serial queues carry the user's
commands. These TLA+ modules model the part of it in which the difficulty lies:
threads that never wait for each other, share lock-free containers, and tear
down each other's devices. TLC checks them on small instances, TLAPS proves the
most important statements for every value of the constants.

Paths below are relative to `src/awkawk/`.

## 1. Inventory

Six kinds of threads matter:

| thread | runs | created in |
|---|---|---|
| window | message loop, menus, `open_single_file`; executes queued `set_on_top` | `src/main.cpp`, `include/window.h` |
| awkawk queue | the state machine of `awkawk` | `include/state_machine.h` |
| DirectShow queue | the state machine of `player_direct_show`, building and destroying graphs | `include/state_machine.h` |
| media event | waits for `EC_COMPLETE`, posts `transitioning` | `src/player_direct_show.cpp:696` |
| VMR9 streaming | `PresentImage` | external (DirectShow) |
| render | `render_thread_proc` | `src/d3d_renderer.cpp:230` |

| component | state | operations | interacts through | what is hard | what makes it correct |
|---|---|---|---|---|---|
| playlist (`player_playlist`) | a `std::list` with sentinels `<START>`, `<END>`, a cursor, a play mode | add, clear, next, previous, transition, set mode | called with no lock from the window and the awkawk thread | wrap-around, sentinels, insertion under the cursor | cursor stays in range; next and previous are inverse; transitions visit every track in order |
| transport control (`awkawk`, `player_direct_show`, `state_machine.h`) | two current states, two event queues, the file name on screen, the graph | load, play, pause, resume, stop, unload, next, previous, transitioning | each handler of awkawk posts to the DirectShow queue and records the state it expects | the two machines run unsynchronised, events that are not permitted are dropped, track changes post to their own queue, synchronous sends, COM failures | the machines stay in step, the window is topmost just while something is shown, every command finishes, no sender hangs |
| shared texture queue | two FIFO queues, three lookup tables, description, two devices | dequeue and enqueue on both sides, `get_metadata`, `set_producer`, `set_consumer`, `set_parameters`, `reset` | called by the presenter, render and DirectShow threads | `reset` replaces the containers one by one under the other threads | no texture in two places, frames in order, nothing lost, no frame of an old file |
| VMR9 presenter | producer device, staging surface | `PresentImage`, device reset, `InitializeDevice` | texture queue, renderer | device loss in the middle of a frame, calls that throw | as above; a frame gets its own timestamp |
| player scene | `previous_texture`, the name shown | `do_emit_scene`, device callbacks | texture queue, DirectShow state | `previous_texture` outlives the queue it came from | what is on screen is not drawn over |
| renderer | device, timer, events, thread | start, stop, signal, schedule, the loop | presenter signals it, the DirectShow thread re-arms its timer, the window thread joins it | coalesced events, wait order, devices that do not come back | never sleeps on a frame, always wakes again, can be stopped |
| interlocked queue, stack, key-value list | linked lists | push, pop, insert, find, delete, depth | compare-and-swap | node reuse, a lagging tail, marking | a FIFO (a map, a stack) behind one lock |
| safe memory reclamation (`smr.c`) | hazard pointers, retired lists, per-thread records | retire, scan, help_scan, thread start and end | all of the above containers | a node freed while another thread reads it; records handed from dead threads to new ones and to helpers | a retired node is in one place, a record has one owner, a node in use is not freed |
| sizing, aspect ratio, letterbox | four sizes, two choices, the window size mode | `apply_sizing_policy`, `set_video_dimensions`, `set_window_dimensions`, the setters | the window thread and the video threads, under `player_cs` | resizing the window sends `WM_SIZE`, which applies the policy again; on other threads it is posted | it ends; window and scene are what the policy makes of the choices |
| main window | Windows' state of it, full screen flag, cursor, its timer | size and system command messages, the sizing border, mouse | Windows, the sizing members | flag and window change in two steps; late timer ticks | as above; a hidden cursor comes back |
| lock tracker (`locks.hpp`, `locks.cpp`) | recorded lock sequences | record, analyse | debug builds | pure algorithm | reports exactly the inversions |
| shutdown | order of destruction | `~awkawk`, `uninitialize` | all threads | the renderer stops while frames still come | nobody uses what is gone |
| controls and overlay | what is dragged, the offset and percentage of the drag | mouse messages, drawing | the window thread takes the mouse, the render thread computes the percentage, a release posts a seek to DirectShow | a release before the next picture posts the percentage of the drag before; flags that outlive a lost capture | - |
| menus, URL dialog, playlist files | widgets | Win32 calls | post the events of the transport control | little | - |
| libdispatch++, libdispatch, Loki | vendored or thin wrappers | - | - | - | - |

The hazards behind these rows are listed with their lines in `PROJECT.json`.

## 2. Modules

| module | models | kind |
|---|---|---|
| `Playlist` | `player_playlist` | operators, a small machine and its properties |
| `PlaylistProofs` | its theorems | proofs |
| `PlayerControl` | window, awkawk, DirectShow and media event threads | machine, extends `Playlist` |
| `Player` | the player a person sees: one state, no queue, no thread | abstract specification |
| `PlayerRefinement` | `PlayerControl` implements `Player` | refinement |
| `PlayerControlProofs` | theorems about `PlayerControl` and `PlayerRefinement` | proofs |
| `TextureQueue` | `shared_texture_queue` with presenter, scene and device callbacks | machine |
| `TextureQueueProofs` | theorems about `TextureQueue` | proofs |
| `Renderer` | the render thread and everything that wakes it | machine |
| `RendererProofs` | theorems about `Renderer` | proofs |
| `InterlockedQueue` | `interlocked_queue.c`, one action per memory access | machine |
| `Fifo` | the locked `std::queue` still in `interlocked_containers.hpp` as a comment | abstract specification |
| `InterlockedQueueProofs` | theorems about `InterlockedQueue`, that it implements `Fifo` among them | proofs |
| `Smr` | `smr.c`, one action per access to what threads share | machine |
| `SmrProofs` | theorems about `Smr` | proofs |
| `KvList` | `interlocked_kv_list.c`, likewise | machine |
| `KvMap` | a map behind a lock | abstract specification |
| `KvListProofs` | theorems about `KvList`, that it implements `KvMap` among them | proofs |
| `AspectRatio` | `aspect_ratio.cpp` | operators |
| `PlayerWindow` | sizes, full screen, cursor: `awkawk.h`, `player_window.cpp` and Windows | machine, extends `AspectRatio` |
| `PlayerWindowProofs` | the theorem about `PlayerWindow` | proofs |
| `MCInterlockedQueue`, `MCSmr`, `MCKvList`, `MCPlayerWindow` | symmetry and sizes for TLC | |

### PlayerControl

`aq` and `dq` are the two event queues; `astate`, `dstate` the current states.
An action takes the item at the head of one queue, looks it up in the transition
table (`Transition`, `GraphTransition`) and does what the handler does, up to
its first post to its own queue; what it still has to post is in `todo`, so that
other threads' posts fall in between (`PostNext`). A window command is a list of
steps in `ui`: posts, synchronous sends (`wait` until `Dispatched` releases it),
unlocked playlist edits, and the two separate reads of awkawk's state in
`open_single_file` (`OpenFile`, `UICheck`). The callbacks of `do_play` and `do_stop` travel
through DirectShow's queue (`CallBack`) and then the window's (`topq`,
`UISetOnTop`). `GraphFails` is a COM error: the handler catches it and keeps its
state, with the graph possibly built. `diverged` is a history variable: a call
has failed, or a track change has found no playlist. `overlapped` is another: a
command was given, or a track ended, while something was still pending
(`Arrives`). The graph signals the end of a track whenever it comes to it
(`TrackEnds`), between any two steps of a command too; a user who waits
(`MaxPending = 1`) does not overlap commands, but cannot hold back the graph.

Shuffle is in the play modes but plays like repeat-all: `player_playlist.h:48`
promises a random order, `do_next` and `do_transition` have it to do
(`player_playlist.cpp:75`, "TODO implement shuffling"), and the menu greys it
(`player_menus.cpp:48`). So `TransitionsPlayAllInOrder` says nothing of it, and
of the runs only `playlist` selects it.

Two events of the table, rewind and fast-forward, are posted by no thread and
have no handler here. Seeking and volume change no state that is modelled.

### TextureQueue

One action is one use of one container, so a reset by another thread may come
between any two. `reset` is five `Replace` steps and then, per texture, `Make`,
`Share`, `Describe`, `Offer` (the four statements of `generate_texture_pair`).
The presenter's frame is `check .. copy .. dequeue .. find .. draw .. enqueue ..
stamp`; the render thread's part is `emit .. pop .. find .. show` or `put back`;
the DirectShow thread loads (`add_vmr9`, `InitializeDevice`) and unloads (the
presenter's destructor, in which `on_device_lost` runs twice). A Direct3D call
may throw wherever the code has a `FAIL_THROW`; `Catch` says who catches it.
A handle the tables lack is what the code makes of it: a dropped frame, no new
frame, or a null dereference that ends the process (`crashed`).

A new shared handle (`NewHandle`) differs from every handle still in a container.
That is an assumption: a stale handle may be in `consumed` after its texture is
gone, and Direct3D does not promise that its value is not made up again.

The containers are atomic here. `InterlockedQueue` is what justifies that - and
where it does not, see the finding below, `consumed` may lose a texture when two
threads push at once; the presenter then generates another pair.

### Renderer

The wait is modelled as Windows defines it: what is signalled when the thread
comes to wait decides by index (`Wait`), and a signal that finds it blocked
wakes it and is consumed. The timer is a manual-reset one that stays fired until
it is set again. The texture queue is the number of its frames. Handles of a
stopped renderer are closed; the presenter's `SetEvent` on them does nothing.
A device that fails to be made again stays null, one whose setup fails after
`CreateDeviceEx` stays `bare`: nobody tells the scene of it.

### InterlockedQueue

Each read, write and compare-and-swap of shared memory is an action; local
variables are per-thread functions. Nodes are reused (`free`, `retired`,
`Reclaim`), so ABA is possible wherever the hazard pointers do not prevent it.
Memory is sequentially consistent, as on the x86 the player is built for with
interlocked instructions and volatile pointers; a store that passes a later load
is not modelled. Not modelled either: `is_empty`, `depth`, deletion of a whole
queue.

A scan of `smr.c` is one step, `Reclaim`, at any time. It frees what the real one
may free: any retired node, unless that node is all that the hazard pointers name
(`MayMiss`), for `retired_list_contains` compares with one listed pointer and
drops the rest. Which one it keeps depends on the order of the records, so any
may be. `forgot` records that a scan has freed a node that a hazard pointer names;
after that the queue touches memory it no longer owns, and the four properties
say nothing. Up to then they are the queue's half of the contract. (`Smr` has the
scan step by step, with listing and comparing apart.)

### Smr

Thread records and hazard pointer records are numbered in the order in which
they were pushed on `head_thr` and `head_hpr`, so that a walk counts down. A
thread without a record finds or makes both (`Start` .. `HprLink`); it guards,
checks, releases and unlinks nodes as the containers do (`Guard` takes any node,
for the address it holds may be stale; `Unlink` is the compare-and-swap followed
by `smr_free`); it retires, scans and helps (`RetireHead` .. `HelpDone`); it ends
and leaves its records (`EndHpr`, `EndThr`), the cell that cached its hazard
pointers being retired too (`Cell`). `uses` is what it may touch: the nodes it
has guarded and, after that, found still linked. `retired_list_contains` is
translated as it is written: it pushes entries back while walking them, so only
the first, the hazard pointer read last, is looked at (`ListContains`). All
threads ask for the same number of hazard pointers, so `allocate_hpr`'s test for
records that are too small and a thread's list of records are left out.

### KvList

Reads of `*prev`, of the next link, the second look and the compare-and-swap
are actions of a call's own (`FindHead` .. `InsertLink`). Erasing runs alone
(`Alone`, `Close`). The destructor of a list is the only caller, and
`mark_as_deleted` (`ptr & 1`) forgets the link it should mark, so the rest of the
list hangs on the eraser's local variable until `EraseUnlink`. That nobody else is
in the list then is an assumption the player does not keep:
`shared_texture_queue::reset` (`shared_texture_queue.h:113-118`) destroys lists
with no lock while a presenter or the render thread may be in a find or an
insert. What comes of that is outside the model. `Contents` is the map the list stands for,
`KvMap` the map whose calls happen at one moment: an insertion or erasure at its
compare-and-swap, a find that hits where it found the key, a find that misses
anywhere its key was absent (`missing`).

### PlayerWindow

An action is one message, one command or one call of a video thread.
`apply_sizing_policy` on the window thread resizes at once, and `WM_SIZE` comes
from inside it (`PolicyResizes`, `depth`); on a video thread the request is
posted (`PolicyPosts`, `asked`, `TakeRequest`). A system command sets
`fullscreen` first and lets `DefWindowProc` resize after that (`SysMaximize`,
`DefMaximize`). What Windows does - maximize, restore, minimize, ticks of the
timer, limits of a window's size - is modelled from the calls the code makes and
the messages it handles. `missed` records a change of state with no change of
size, in which `set_window_dimensions` does nothing; `late` a tick handled after
`KillTimer`.

## 3. What the runs show

| run | question | states |
|---|---|---|
| `playlist` | any sequence of calls, three entries, four modes | small |
| `control` | a user who keeps pressing, two items pending, tracks that end at any time, COM errors at any point: do the machines stay in step, does a sender ever hang? | 1.3 * 10^6 |
| `serial` | a user who waits, tracks that end at any time, three modes, two entries: is it `Player` until something overlaps? does every command finish? | 7 * 10^5 |
| `rewind`, `wraparound` | two comments of the source that the code does not keep | |
| `textures` | two frames of one or two files, a device rebuilt or the renderer ended anywhere, one failing call | 4.4 * 10^6 |
| `renderer` | wakeups, timer, start and stop | 3.5 * 10^4 |
| `queue_one` | one pusher, two poppers: the list is a FIFO until a scan frees a node in use | 9.2 * 10^5 |
| `queue_lost` | the presenter and the render thread both push on `consumed`: a push can be lost | |
| `smr` | two threads that come and go, three nodes reused: who owns, retires and frees what? | 2.8 * 10^6 |
| `kvlist` | two threads, three keys, four calls: the list is a map | 6.8 * 10^4 |
| `window` | six changes of size, mode or state in any order with messages and ticks | 2.5 * 10^5 |

Properties, by component:

* **Playlist** - `PlaylistTypeOK`; `NextPreviousInverse`;
  `TransitionsPlayAllInOrder`; `CursorSurvivesAdd`.
* **Control** - `InStep`: each queued command will be permitted when its turn
  comes and will bring DirectShow to the state awkawk recorded, until something
  fails. `TopmostWhileShowing`, `NamedWhileLoaded`: the effects that travel by
  other queues agree with the states. `SenderIsServed` and `WindowReturns`: the
  synchronous sends. `ImplementsPlayer`, `NowPlayingAgrees` and
  `NoSharedPlaylistAccess` hold up to the first overlap (`overlapped`). They are
  false after it, and that is the code: two quick track changes leave the player
  stopped, the unlocked list is edited under a cursor, the end of a track skips the
  file just opened, and the name shown may not be the file played. Waiting avoids
  the overlap of two commands, not that of a command and the end of the track:
  opening a file just as one ends is enough. `Settles`, for a user who waits, holds
  after overlaps too, unless tracks keep ending for ever.
* **Textures** - `OnePlace`, `ShownIsStill`, `FramesInOrder`,
  `StampedOncePublished`, `QueueIsOfThisFile` hold whatever resets overlap.
  `MetadataFound` and `NothingLost` hold unless a reset overlaps another
  thread's use of the queue (`torn`): such a reset makes the presenter
  dereference null, a defect that is stated as the limit of the property.
* **Renderer** - `WokenForFrames`, `NeverSleepsForever`, `StopReturns`. The last
  excepts a device that never comes back: a frame queued then makes the thread
  signal itself for ever, and `cancel_render`, last in the wait, is never seen.
* **Interlocked queue** - `NothingFreedInUse`, `TailNotBehindHead`,
  `EmptyPopSawEmpty`, which hold however many threads push, and
  `ImplementsFifo`, which needs that only one does. All four hold until a scan
  frees a node that a hazard pointer names (`forgot`), which `smr.c` as written can
  do: the queue sets and checks its hazard pointers as it should, and is not safe
  for all that.
* **Safe memory reclamation** - `OneOwner`, `RetiredOnce`: threads start, end,
  help and are helped, and still no record has two owners and no retired node
  is in two lists or in none, so that it is freed once. `GarbageBounded`: a
  thread at work holds fewer retired nodes than call for a scan.
  `FreesOnlyForgotten`: a node in use is freed only where
  `retired_list_contains` has forgotten its hazard pointer. That no node in use
  is freed at all is what the module is for, and false of this code; with two
  hazard pointers in use a node is freed under its reader. The property says
  that this one function is the only cause.
* **Key-value list** - `ImplementsMap`: nothing inserted is lost or found twice,
  a find misses only what was absent; `Sorted`, at every step.
* **Window** - `ResizeEnds`: the policy entered from inside itself asks for
  nothing new; `PolicyHolds`, `SceneCovers`: when all messages are handled,
  window and scene are what the policy makes of the choices, as far as Windows
  grants it, and the scene leaves no bare border; `CursorComesBack`. They state their exceptions, which
  are the code's: a free window with another aspect ratio or letterbox resizes
  itself until Windows gives it no more (`RunsAway`), a change of state with no
  change of size leaves the old scene (`missed`), a late tick hides the cursor
  of a window (`late`).

Findings:

1. `rewind`: normal mode never rewinds at the end (`player_playlist.h:45` says
   it does), so a file opened next loads the sentinel `<END>`.
2. `wraparound`: previous on the first track does not stop
   (`player_playlist.cpp:148`), it loads `<START>`.
3. `queue_lost`: `interlocked_queue_pop` cuts the removed node loose
   (`interlocked_queue.c:137`) while a second pusher may still hold it as the
   tail; its compare-and-swap then succeeds on a node outside the list.

### Bounds

The user gives a command while fewer than `MaxPending` items are queued or being
handled, a track ends while fewer than `MaxBacklog` are; events that handlers post
are not held back. With `MaxBacklog = 6` a track can end between any two steps of a
command that runs alone, which never has more than four items pending. Two files and three entries give
the playlist both ends, a middle and a duplicate; `serial` has two entries, an end
each, for the sake of the overlaps it goes on from. In `TextureQueue` two frames put one on screen and one in a queue
or in the presenter's hands; four handles are never exhausted, so `Make` never blocks for
the bound. One rebuild falls anywhere in the frames of all three threads; two
resets at once come from it and a load. In `Renderer` three frames coalesce two
signals and leave a backlog; two errors lose a device and fail to make it again.
In `InterlockedQueue` three pushes and four nodes reuse a node while another
thread still names it. In `Smr` two records of each kind are enough to be
helped, to help and to come back to a record of one's own; with one hazard
pointer each and two records a scan is due at two or four retired nodes, which
three nodes and the cell reach. In `KvList` three keys put an insertion before,
between and after others; four calls are two of each thread. In `PlayerWindow`
two videos, a ratio between theirs, a screen and a working area of other ratios
exercise both cases of every fit; six moves suffice for a request posted before
full screen to be carried out after it, and for every state of the window to be
entered from every other.
`CHECK_DEADLOCK FALSE` is set where the bounds end the run: after the last
frame, load or push, nothing is left to do. The control runs check deadlock:
the window can always take another command.

### Fairness

A thread that has something to do does it (weak fairness for each of the window,
awkawk, DirectShow, media event and render threads, and for the timer): they are
operating-system threads blocked only on their own queues or events. The user,
the end of a track, the next decoded frame and stopping the player are never
assumed. `StopReturns` needs, besides, that late iterations end (`MaxLate`):
Windows picks the timer before `cancel_render`, and a renderer always slower than
its timer would not stop.

## 4. What is proved

`PlaylistProofs`: `PlaylistTypeCorrect` (well-formedness is inductive, one lemma
for edits, one for cursor moves), `NextPreviousInvert`, which follows from it by
arithmetic on the cursor, `CursorKeepsItsName`, the action property: of all
calls only `add_file` makes the list longer, and it inserts before `<END>`; and
`AllPlayInOrder`, for lists of any length: where the transitions lead is given
outright for each mode, so no induction is needed.

`PlayerControlProofs`, for any files, modes and `MaxPending`, from
`ControlAssumption`: `TypeCorrect`; `SenderAlwaysServed`; `StaysInStep`;
`TopmostRight`; `NamedRight`. `InStep` is not inductive by itself. The invariant
adds that the commands in `dq` form a chain: each `want` is the exit state of the
one before, starting at `dstate`, ending at `astate`; a post appends to the
chain a command that the two agreeing tables permit, a dispatch removes its
first link and moves `dstate` to that link's `want`. `TopmostRight` needs, in
addition, that the last queued `set_on_top`, or the window itself, agrees with
`dstate`; `NamedRight` that `scene` and `graph` follow the load and unload at
each end of the chain. `SenderAlwaysServed` counts: a waiting window has exactly
one `send` in `aq`.

Three more theorems are about what happens until something overlaps, for any user
and any bounds: `PlaylistNotShared`, whether or not DirectShow calls fail, and,
when none fails, `NamesAgree` and `PlayerImplemented`, the refinement of `Player`.
They assume nothing of the user: their conclusions end at the first command or end
of a track that comes while another is worked off (`overlapped`), which no user can
rule out. Up to there a command's end is known at its first step, so the invariant
is a prophecy without a variable:

* `Stage(p, st)`: from where all threads are now, the command will leave playlist
  `p` and state `st`. It has a part for each stretch of a command: the window
  thread replacing, adding or closing a file, the media event about to be posted,
  and awkawk toggling, halting, skipping, changing, loading or unloading. Each
  step keeps `p` and `st`, or nothing was pending and it starts a command
  (`OneAtATime`). awkawk's queue and what its handler has yet to post to it count
  as one sequence, `Work`, so a post moves nothing.
* `ListedInv`: what is loaded is in the list, except while the last file is being
  closed. Without it a track change could find no playlist and leave the two
  controllers apart.
* `LoadsLast`: a load waits for DirectShow only when no other thread is going to
  edit the playlist. `create_graph` reads the name as late as that.
* `Named`: while loaded, the name on screen is the one at the cursor, and so will
  the graph's be once the last load in `dq` has run (`Builds`).
* `Course`: what is to be left is one of the things a command of `Player` makes of
  what was settled last (`Legal`).

When nothing is pending the only part of `Stage` that can hold is `Resting`, so
`p` and `st` are there (`AtRest`), and `LegalIsStep` finds the step of `Player`.
That nothing overlaps is used where a stimulus comes: it finds everything at rest
(`ArrivesWhenIdle`). Beyond that the code does not keep the promise: the second of
two quick track changes finds the player stopped by the first and does not play on
(hazard in PROJECT.json). Without the hypothesis that no call fails DirectShow can
be in a state awkawk does not know of.

That everything comes to an end is proved of `PlayerControl` as well, whether or
not DirectShow calls fail. An item of a queue is given as many stones as it can
still cause steps, its own included (`Cost`, `CostToPost`, `UICost`): 3 for an
event (awkawk's dispatch, DirectShow's, the callback), 9 for a track change that
is to load and play, 19 for one that also is to stop and unload first. `Total` is
the cardinality of the set of a queue's stones, so what a queue weighs is known
without recursion: an append adds the item's stones (`TotalAppend`), taking the
head takes them off (`TotalTail`). `WorkLeft` is the sum over all queues.

* `WorkRunsOut`: each step of a thread makes `WorkLeft` smaller, in every state
  and for any bounds: no event makes the threads post to each other for ever.
* `QueuesStayShort`: a stimulus adds at most 22 (opening a file), and what is
  pending is never heavier than 22 times its number, so `WorkLeft`, and with it
  everything queued, stays within 22 times `Most`, the larger of `MaxPending` and
  `MaxBacklog`.
* `AlwaysSettles`, for a user who waits and `MaxBacklog` up to 8: `Settles`. While
  something is pending some thread can go on; what one can do no other takes from
  it, so by fairness it goes on, and there are at most 22 * 8 stones to remove once
  no more tracks end. The prover has no induction over temporal formulas, so
  `Done(n)` (what is worth n stones gets done) is taken from n to n + 1, hence to
  n + 4, + 16, + 64, and so to 192.
* `SenderMovesUp`, for any `MaxPending`: while the window thread waits, what may
  come before its event (`Ahead`) never grows, and each step of awkawk's thread
  makes it smaller; the media event thread and awkawk's handlers post behind it.
* `WindowAlwaysReturns`, for `MaxPending` and `MaxBacklog` up to 8:
  `WindowReturns`. A wait ends within the 768 that `QueuesStayShort` leaves of
  `Ahead` (`SenderResumes`), and a command of the window thread only gets
  shorter. A larger bound needs only more lemmas like `ResumesMore256`.

Their hypothesis `ThreadsRun` is the weak fairness of the four threads, with the
condition under which a thread can take a step (`WindowCan`, ...) in place of
`ENABLED`, of which the prover knows nothing. The conditions are the guards of
the actions: the window thread is not waiting, a queue is not empty.

`RendererProofs`, for any bounds, from `RendererAssumption`:
`RendererTypeCorrect` and `NeverSleepsOnAFrame`. The invariant adds, to
`WokenForFrames`, the moment before the wait (`NoFrameForgotten`: a thread about
to wait with a frame queued will find the event set, or the presenter is still
to set it), that a stopped renderer has no thread left (its handles are closed),
and that queued frames and the one in the presenter's hands were decoded
(`Decoded`).

`AlwaysWakes` is `NeverSleepsForever`. It needs `TimerSet`: while the thread is
blocked its timer is armed, or the window thread is still in `start_rendering`
and about to arm it, so a blocked thread always has somebody who will wake it.
`StopsUnlessBusy` says what alone can keep `stop_rendering` from returning, for
any number of late iterations and lost devices: again and again the
thread comes to its wait and finds a frame signalled or the timer fired, which
come before `cancel_render` in the wait. Between two such moments it is at most
eight steps from its end (`Within`). As above, the fairness (`WakersRun`,
`EndersRun`) has guards in place of `ENABLED`.

`TextureQueueProofs`, for any handles, frames, files, lost devices, failing calls
and pairs per reset, from `TextureAssumption`: `TypesHold`, `OnePlaceHolds`,
`ShownIsStillHolds`, `FramesInOrderHold`, `StampedOncePublishedHolds`,
`QueueIsOfThisFileHolds`, `MetadataFoundHolds` and `NothingLostHolds`. The run allows one or two of
each; what is proved is what a reset in the middle of another thread's use cannot
break. The invariant `IInv` has, beside the types:

* `Stages`: a thread has a texture in hand exactly at the labels `Holding`, and
  where a reset returns to is none of these.
* `Apart`: `OnePlace` said of the containers and hands pair by pair. A reset only
  empties containers and a new handle is unused, so only a step that moves a
  texture can disturb it, and that step takes it from the place it was in.
* `Ordered`: the frames in `produced` rise from head to tail, all are later than
  the one on screen and than the one the render thread has fetched, and while
  the presenter has a frame it has not queued, that frame is later than them all.
* `Stamped`: `StampedOncePublished`, for the texture the render thread has
  fetched as well.

Three more invariants rest on `IInv`:

* `FileInv`, for `QueueIsOfThisFile`: the presenter is idle unless a file is
  loaded and the graph thread at rest, so a frame is queued only for the file
  that plays; and the last reset of a release leaves `produced` empty from its
  first line to the next load.
* `Known`, for `MetadataFound`: while no reset has overlapped another thread's
  use, what the producer's table has of the textures in circulation the metadata
  table has too. A reset empties the former before the latter; `torn` is set when
  the presenter has a texture in hand meanwhile, or another reset runs.
* `Retained`, for `NothingLost`: a texture with metadata is waiting, on screen or
  in hand, and *both* sides' tables know it, so that neither throws it away as one
  of an older device. It gets its metadata after it is in both tables. A thread
  lets a texture go only where it queues or shows it, where a table does not know
  it, or where a call fails (`LetsGo`).

Most steps are `Quiet`: they leave all of this alone. `Kinds` says which do not,
and the three preservation lemmas have one step for each of those.

`SmrProofs`, for any number of threads, nodes, hazard pointers and records, from
`SmrAssumption`: `RecordsHaveOneOwner`, `NodesRetiredOnce`, `ListsStayShort` and
the action property `UsesFreedOnlyForgotten`. The run has two threads with one
hazard pointer each; the theorems say that nothing new goes wrong with more. The
invariant `IInv` has a part for each reason:

* `Stages`: what a thread has and where a walk of its can be, by its `pc`; a walk
  starts at a head and heads only grow, so no record in use is past its start.
* `Owners`: a record is taken only when it is not active, and given up only by
  its owner. So a thread's list stays as it is while others move (`OwnList`).
* `Guarded`: what a thread has checked is still in its hazard pointer.
* `Places`: `memory[n] = "out"` exactly if `n` is in a list or carried to one,
  and then in one place. It makes `Check` right: a node that is still linked is
  in no list, so no scan can already have passed the hazard pointer by.
* `Scans`: while a thread scans, a use of a node of its list is in `danger`
  already or in a slot the scan has not reached. It holds when the scan begins
  because `retire_node` reads the head *before* the node goes into the list; it
  is why that order matters.
* `Short`: a list reaches `R(total)` only in a scan.

When `ScanFree` runs, nothing is unread, so by `Scans` a node in use is in
`danger`; if it is freed all the same it is not the first entry there, the only
one `retired_list_contains` compares (`ListContains`).

`InterlockedQueueProofs`, for any threads, nodes and pushes, from
`QueueAssumption`: `NeverFreedInUse`, `TailKeepsUp`, `EmptyWasEmpty`, with any
number of pushers, and `ImplementsStdQueue`, the refinement of `Fifo`, with one;
all until a scan frees a node that a hazard pointer names (`forgot`), which the
code permits. Up to there the invariant says that some sequence `s` of nodes is the
list, and `ReclaimKeeps` is where a hazard pointer is needed: a node that is freed
is named by none, so it is not one that a thread has checked.

* `List(s)`: from `head` to the last node by `next`, `tail` among them. Linking
  a node appends it, swinging the head drops the first.
* `Placed(s)`: any other node is free, retired, or one thread's own, which has
  not linked it yet or has just taken it off.
* `PushKnows`, `PopKnows`: what a thread's locals have to do with `s`. A hazard
  pointer that has been checked names a node that was in the list and has not
  been reclaimed; a successor read before the second check is the next node of
  the list if the head has not moved.
* `LinksLast`, only with one pusher: its compare-and-swap finds the last node.
  With a second pusher it may find one that has been cut off (finding 3).

The list is the queue from its second node on (`Held`). A push takes effect
where it links, a pop where it swings the head; an empty pop where it saw no
successor. `Chain`, which the model computes by following `next`, is shown to be
that sequence by its first index that differs.

`KvListProofs`, for any threads, nodes, keys and calls, from
`KvListAssumption`: `ListIsSorted` and `ListImplementsMap`. The invariant says
that some *set* `L` of nodes is the list:

* `List(L)`: keys are distinct and the link behind each node, and behind the
  root, leads to the node of `L` with the next larger key, or nowhere. So a
  walk meets the nodes by rank, the number of keys not larger (`WalkOfList`).
* `Placed(L)`: a node that is not in `L` is free, retired or held by the one
  insertion that made it.
* `ErasesAlone`: beside an erasure every thread is idle.
* `Knows`: a find has come to a node of `L` with a smaller key than it looks
  for. The node it looks at may have been overtaken by an insertion, never
  taken out.
* `Misses`: a call whose key is absent now, or that read the end of the list
  with a smaller key before it, began when the key was absent. It is what makes
  a late miss a step of `KvMap`.

`PlayerWindowProofs`, for any sizes, ratios, letterboxes, modes and limits, from
`WindowAssumption`: `CursorAlwaysComesBack`, `ResizeAlwaysEnds`,
`PolicyAlwaysHolds` and `SceneAlwaysCovers`. The assumption has one fact that is
not a type: Windows lets a window be as large as the screen. For the cursor the
invariant has that a timer runs only over a window that fills the screen, or that
is about to get the `WM_SIZE` that settles both, and that a system command is
handled before another size. For the sizes, `SizeInv`:

* `SizeKnown`: with no `WM_SIZE` on its way awkawk knows the window's size.
* `Nested`: inside the policy a `WM_SIZE` is to be handled, and the size it
  brings is the one the policy will grant again, so the second entry is the
  last. A free window keeps its width: the multiplier is that width over the
  video's, and the division gives it back exactly.
* `Applied`: the scene is right, and the window is right or the *last* request
  posted is for the right size; those before it may be for any.

`SceneAlwaysCovers` is arithmetic: `ShrinkCovers` shows that the letterboxed part
of the picture is no larger than the picture although each of its lengths is
rounded down from another one (`Narrower`, `DivLeq`, `DivAtLeast`), and scaling
and rounding keep the order.

Model-checked only: `StopReturns`, which says that the thread is not busy for
ever once late iterations are bounded; for any bounds that is an induction over
the frames and late iterations that are left, and for temporal formulas the
prover has none. For the same reason `WindowReturns` and `Settles` are proved up to
a bound on what is pending. In the theorems about liveness the guards stand for `ENABLED`; that
they are the same is not proved, but TLC has compared `ENABLED <<A>>_vars` with
the guard of `A` in every state of the instances of `control` and `renderer` and
found no difference. Every other property of a passing run is a theorem.

## 5. Plan

Done: playlist and control, textures, interlocked queue, renderer, safe memory
reclamation, key-value list, sizes and window, with the proofs of section 4.
What is left, in order:

1. `SyncCalls`: window, DirectShow and render threads with `send_callback`,
   `player_cs` and cross-thread window messages; who waits for whom. Today
   `PlayerControl` has the sends and `PlayerWindow` the messages, apart.
2. `Shutdown`: `~awkawk`, `uninitialize`, the media event thread, in-flight
   events; use after destruction.
3. `Controls`: the two drags of the on-screen controls and the one of the window,
   which share the mouse capture; the percentage that the render thread computes
   and the window thread posts; seeks queued behind a load or an unload.
4. `LockTracker`: the analysis of recorded lock sequences against a reference
   definition.

## 6. Not modelled

Drawing, Win32 message cracking, XML, dialogs, property pages and crash dumps
are straight calls of libraries. `interlocked_stack` has no user and does not
compile when instantiated. Loki and libdispatch are vendored; they and their
headers are more than half of the lines of the repository (Loki alone about
20 800), so the modules cover a small share of all lines and a larger one of the
15 700 that are the player's own.
