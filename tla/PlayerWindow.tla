---------------------------- MODULE PlayerWindow ----------------------------
(***************************************************************************)
(* The size of the player's window, of the video in it, and its cursor:    *)
(* awkawk's sizing members (awkawk.h, apply_sizing_policy), the handlers   *)
(* of player_window.cpp that change them, and what Windows does when they  *)
(* ask it to.  The window thread handles one message at a time; a video    *)
(* thread (the load of a file, the presenter) changes the video's size     *)
(* under player_cs and asks for another window size, which Windows posts   *)
(* to the window thread (SWP_ASYNCWINDOWPOS).  On the window thread the    *)
(* same call resizes at once and sends WM_SIZE from inside                 *)
(* apply_sizing_policy, which is entered again, player_cs being recursive. *)
(*                                                                         *)
(* The window frame is the whole window (onNCCalcSize), so that its size   *)
(* and its client size are one.  Positions, dragging and snapping are left *)
(* out.                                                                    *)
(***************************************************************************)
EXTENDS Integers, Sequences, AspectRatio

CONSTANTS
    VideoSizes, FixedRatios,  \* what files offer, and the sequence in both menus
    UserModes,                \* the window size modes the user chooses
    Drags,                    \* the sizes a user drags the border to
    FirstSize,                \* 640 x 480
    Screen, Work,             \* the monitor and its working area
    Icon, Largest,            \* a minimized window; the largest width Windows gives
    MaxMoves                  \* bound: what users and files do to the size

Sizes == [cx : Nat, cy : Nat]
Modes == {"free", "50%", "100%", "200%"}   \* window_size_mode
Choices == 0..Len(FixedRatios)

ASSUME WindowAssumption ==
    /\ VideoSizes \cup Drags \cup {FirstSize, Screen, Work, Icon} \subseteq [cx : Nat \ {0}, cy : Nat \ {0}]
    /\ FixedRatios \in Seq([num : Nat \ {0}, den : Nat \ {0}])
    /\ \A size \in {FirstSize, Screen, Work, Icon} : size.cx <= Largest /\ size.cy <= Largest
    /\ UserModes \subseteq Modes /\ Largest \in Nat /\ MaxMoves \in Nat

VARIABLES
    video, known, scene,      \* video_size, window_size, scene_size
    ar, lb, mode, fullscreen, \* chosen_ar, chosen_lb, wnd_size_mode, fullscreen
    aspect,                   \* the window's aspect_ratio
    window, normal,           \* Windows' size of the window, and when restored
    maximized, iconic,        \* its state; a minimized window may be restored to maximized
    asked,                    \* posted size requests
    sized, depth,             \* WM_SIZE to handle; entries of apply_sizing_policy it came from
    command,                  \* the WM_SYSCOMMAND that DefWindowProc is to handle
    shown, timer, tick,       \* the cursor; mouse_kill runs, and has fired
    late, missed,             \* history: a tick that outlived its timer hid the cursor; the
                              \* window changed state and the policy was not applied
    moves                     \* the moves MaxMoves bounds

choices == <<ar, lb, mode>>
system == <<normal, maximized, iconic>>
cursorVars == <<shown, timer, tick, late>>
sizeVars == <<video, known, scene, choices, fullscreen, aspect, window, system,
              asked, sized, depth, command, missed>>
vars == <<sizeVars, cursorVars, moves>>

Move == moves < MaxMoves /\ moves' = moves + 1

-----------------------------------------------------------------------------
(* apply_sizing_policy.                                                    *)

\* available_ratios, available_letterboxes: the natural one, then the fixed.
ArOf(choice, v) == IF choice = 0 THEN RatioOf(v) ELSE FixedRatios[choice]
LbOf(choice, a, v) == IF choice = 0 THEN ArOf(a, v) ELSE FixedRatios[choice]

\* Mutant of SizeMultiplier: the window's width over the video's height.
SizeMultiplierMixed(m, k, v) ==
    CASE m = "free" -> Ratio(k.cx, v.cy)
      [] m = "50%"  -> Ratio(1, 2)
      [] m = "100%" -> Ratio(1, 1)
      [] m = "200%" -> Ratio(2, 1)

SizeMultiplier(m, k, v) ==
    CASE m = "free" -> Ratio(k.cx, v.cx)
      [] m = "50%"  -> Ratio(1, 2)
      [] m = "100%" -> Ratio(1, 1)
      [] m = "200%" -> Ratio(2, 1)

Fixed == ArFixed(video, ArOf(ar, video))
Safe == Protected(video, ArOf(ar, video), LbOf(lb, ar, video))
Multiplier == SizeMultiplier(mode, known, video)

\* What the policy makes of awkawk's members: the scene and, in a window, the
\* size asked of Windows.
FullScene(w) == ScaleSize(Fixed, Ratio(FitToConstraint(Safe, w).cx, Safe.cx))
WindowScene == ScaleSize(Fixed, Multiplier)
WindowSize == ScaleSize(Safe, Multiplier)

\* A size cut to a limit, length by length.
Within(size, most) == [cx |-> IF size.cx > most.cx THEN most.cx ELSE size.cx,
                       cy |-> IF size.cy > most.cy THEN most.cy ELSE size.cy]

\* Windows gives no window more than its limit, and an icon no other size.
Granted(size) == IF iconic THEN window ELSE Within(size, [cx |-> Largest, cy |-> Largest])

\* What apply_sizing_policy sets on any thread.
Policy ==
    /\ aspect' = LbOf(lb', ar', video')
    /\ scene' = IF fullscreen' THEN FullScene(window)' ELSE WindowScene'
    /\ missed' = FALSE

\* On a video thread the size asked for is posted.
PolicyPosts ==
    /\ UNCHANGED <<window, sized, depth>> /\ Policy
    /\ asked' = IF fullscreen THEN asked ELSE Append(asked, WindowSize')

\* On the window thread it is taken at once, and WM_SIZE comes before the
\* call returns; an entry that changes no size ends them all.
PolicyResizes ==
    /\ window' = IF fullscreen THEN window ELSE Granted(WindowSize')
    /\ sized' = (window' # window)
    /\ depth' = IF window' # window THEN depth + 1 ELSE 0
    /\ Policy
    /\ UNCHANGED asked

Init ==
    /\ video = FirstSize /\ known = FirstSize /\ scene = FirstSize
    /\ ar = 0 /\ lb = 0 /\ mode = "100%" /\ fullscreen = FALSE
    /\ aspect = RatioOf(FirstSize)
    /\ window = FirstSize /\ normal = FirstSize /\ maximized = FALSE /\ iconic = FALSE
    /\ asked = <<>> /\ sized = FALSE /\ depth = 0 /\ command = "none"
    /\ shown = TRUE /\ timer = FALSE /\ tick = FALSE /\ late = FALSE /\ missed = FALSE /\ moves = 0

-----------------------------------------------------------------------------
(* The video threads.  player_cs is theirs unless the window thread is     *)
(* inside apply_sizing_policy.                                             *)

SetVideoDimensions ==
    /\ depth = 0 /\ Move
    /\ \E v \in VideoSizes \ {video} : video' = v
    /\ UNCHANGED <<known, choices, fullscreen>>
    /\ PolicyPosts
    /\ UNCHANGED <<system, command, cursorVars>>

-----------------------------------------------------------------------------
(* The window thread: what the user chooses.                               *)

Idle == ~sized /\ command = "none"

SetMode ==
    /\ Idle /\ Move
    /\ \E m \in UserModes : mode' = m
    /\ UNCHANGED <<video, known, ar, lb, fullscreen>>
    /\ PolicyResizes
    /\ UNCHANGED <<system, command, cursorVars>>

SetAspectRatio ==
    /\ Idle /\ Move
    /\ \E a \in Choices : ar' = a
    /\ UNCHANGED <<video, known, lb, mode, fullscreen>>
    /\ PolicyResizes
    /\ UNCHANGED <<system, command, cursorVars>>

SetLetterbox ==
    /\ Idle /\ Move
    /\ \E l \in Choices : lb' = l
    /\ UNCHANGED <<video, known, ar, mode, fullscreen>>
    /\ PolicyResizes
    /\ UNCHANGED <<system, command, cursorVars>>

\* onGetMinMaxInfo: how large a window may be maximized or dragged.  The size
\* it works out for the aspect ratio of a window is not used.
MaxSize(full) == IF full THEN Screen ELSE Work

\* onSizing: the border the user drags decides which length is kept.
Sizing(edge, size) ==
    CASE edge = "side"   -> FixHeight(size, aspect)
      [] edge = "top"    -> FixWidth(size, aspect)
      [] edge = "corner" -> IF Wider(RatioOf(size), aspect) THEN FixHeight(size, aspect)
                            ELSE FixWidth(size, aspect)

\* The border is there only in a window of free size (onNCHitTest); Windows
\* keeps to MaxSize and sends WM_SIZE.
DragBorder ==
    /\ Idle /\ Move /\ mode = "free" /\ ~fullscreen /\ ~maximized /\ ~iconic
    /\ \E edge \in {"side", "top", "corner"}, size \in Drags :
          window' = Within(Sizing(edge, size), MaxSize(fullscreen))
    /\ sized' = (window' # window)
    /\ UNCHANGED <<video, known, scene, choices, fullscreen, aspect, system, asked, depth, command, cursorVars, missed>>

-----------------------------------------------------------------------------
(* Full screen: onSysCommand sets the flag, then DefWindowProc resizes.    *)

SysMaximize ==
    /\ Idle /\ Move /\ ~fullscreen
    /\ fullscreen' = TRUE /\ command' = "maximize"
    /\ UNCHANGED <<video, known, scene, choices, aspect, window, system, asked, sized, depth, cursorVars, missed>>

\* Double click or menu in full screen; the task bar for a minimized window.
SysRestore ==
    /\ Idle /\ Move /\ (fullscreen \/ iconic)
    /\ fullscreen' = FALSE /\ command' = "restore"
    /\ UNCHANGED <<video, known, scene, choices, aspect, window, system, asked, sized, depth, cursorVars, missed>>

\* Windows changes the state of the window and sends WM_SIZE; the size to
\* restore is that of a window neither maximized nor minimized (FirstSize
\* where there is nothing to restore).
Becomes(max, icon, size) ==
    /\ maximized' = max /\ iconic' = icon /\ window' = size
    /\ normal' = IF ~max /\ ~icon THEN FirstSize
                 ELSE IF maximized \/ iconic THEN normal ELSE window
    /\ sized' = TRUE
    /\ UNCHANGED <<video, known, scene, choices, fullscreen, aspect, asked, depth, cursorVars, missed>>

DefMaximize ==
    /\ command = "maximize" /\ command' = "none" /\ UNCHANGED moves
    /\ IF maximized /\ ~iconic
       THEN /\ missed' = TRUE
            /\ UNCHANGED <<video, known, scene, choices, fullscreen, aspect, window, system,
                           asked, sized, depth, cursorVars>>
       ELSE Becomes(TRUE, FALSE, MaxSize(fullscreen))

\* A minimized window that was maximized is maximized again.
DefRestore ==
    /\ command = "restore" /\ command' = "none" /\ UNCHANGED moves
    /\ IF iconic /\ maximized THEN Becomes(TRUE, FALSE, MaxSize(fullscreen))
       ELSE Becomes(FALSE, FALSE, normal)

Minimize ==
    /\ Idle /\ Move /\ ~iconic
    /\ Becomes(maximized, TRUE, Icon)
    /\ UNCHANGED command

-----------------------------------------------------------------------------
(* Messages about the size.                                                *)

Zoomed == maximized /\ ~iconic

Show(yes) == shown' = yes /\ late' = (late /\ ~yes)

\* Mutants of OnSize: only a change of width counts; the cursor is left alone.
OnSizeOfWidth ==
    /\ sized
    /\ timer' = Zoomed /\ Show(shown \/ ~Zoomed)
    /\ UNCHANGED <<video, choices, fullscreen>>
    /\ IF known.cx # window.cx THEN known' = window /\ PolicyResizes
       ELSE /\ sized' = FALSE /\ depth' = 0 /\ missed' = (missed \/ (depth = 0 /\ known = window))
            /\ UNCHANGED <<known, scene, aspect, window, asked>>
    /\ UNCHANGED <<moves, system, command, tick>>

OnSizeNoCursor ==
    /\ sized
    /\ timer' = Zoomed /\ UNCHANGED <<shown, late>>
    /\ known' = window
    /\ UNCHANGED <<video, choices, fullscreen>>
    /\ IF known # window THEN PolicyResizes
       ELSE /\ sized' = FALSE /\ depth' = 0 /\ missed' = (missed \/ depth = 0)
            /\ UNCHANGED <<scene, aspect, window, asked>>
    /\ UNCHANGED <<moves, system, command, tick>>

\* onSize, and set_window_dimensions.
OnSize ==
    /\ sized
    /\ timer' = Zoomed /\ Show(shown \/ ~Zoomed)
    /\ known' = window
    /\ UNCHANGED <<video, choices, fullscreen>>
    /\ IF known # window THEN PolicyResizes
       ELSE /\ sized' = FALSE /\ depth' = 0 /\ missed' = (missed \/ depth = 0)
            /\ UNCHANGED <<scene, aspect, window, asked>>
    /\ UNCHANGED <<moves, system, command, tick>>

\* Windows carries out a posted request, whatever has happened since.
TakeRequest ==
    /\ Idle /\ asked # <<>>
    /\ asked' = Tail(asked)
    /\ window' = Granted(Head(asked))
    /\ sized' = (window' # window)
    /\ UNCHANGED <<moves, video, known, scene, choices, fullscreen, aspect, system, depth, command, cursorVars, missed>>

-----------------------------------------------------------------------------
(* The cursor.                                                             *)

TimerFires ==
    /\ timer /\ ~tick /\ tick' = TRUE
    /\ UNCHANGED <<moves, sizeVars, shown, timer, late>>

\* onTimer; tired: the mouse has not moved for three seconds, with no menu
\* open (menu_visible).
OnTimer ==
    /\ Idle /\ tick /\ tick' = FALSE
    /\ \E tired \in BOOLEAN :
          IF tired THEN shown' = FALSE /\ late' = ~timer
          ELSE UNCHANGED <<shown, late>>
    /\ UNCHANGED <<moves, sizeVars, timer>>

\* update_last_mouse_move_time.
MouseMove ==
    /\ Idle /\ fullscreen
    /\ Show(TRUE)
    /\ UNCHANGED <<moves, sizeVars, timer, tick>>

\* onEnterMenuLoop.
OpenMenu ==
    /\ Idle
    /\ Show(TRUE)
    /\ UNCHANGED <<moves, sizeVars, timer, tick>>

-----------------------------------------------------------------------------
Next == \/ SetVideoDimensions
        \/ SetMode \/ SetAspectRatio \/ SetLetterbox \/ DragBorder
        \/ SysMaximize \/ SysRestore \/ DefMaximize \/ DefRestore \/ Minimize
        \/ OnSize \/ TakeRequest
        \/ TimerFires \/ OnTimer \/ MouseMove \/ OpenMenu

Spec == Init /\ [][Next]_vars

-----------------------------------------------------------------------------
(* Properties.                                                             *)

\* The size multiplier of a free window is its width over the video's, so a
\* safe area of another width asks for another window each time it is applied.
RunsAway == mode = "free" /\ Safe.cx # video.cx

Quiet == Idle /\ asked = <<>>

\* apply_sizing_policy resizes the window, whose WM_SIZE enters it again: the
\* second entry asks for nothing new, except when a free window runs away.
ResizeEnds == depth <= 1 \/ RunsAway

\* When nothing is on its way, the window and the scene are what the policy
\* makes of the choices, the video and the window, whatever the threads did
\* in between; unless the window changed state with no change of size.  An
\* icon stays as it is, and a window that runs away does so to Windows' limit.
PolicyHolds ==
    Quiet /\ ~missed =>
        IF fullscreen THEN scene = FullScene(window)
        ELSE scene = WindowScene /\ window = Granted(WindowSize)

\* "The scene is oversized, with letterbox black bars overflowing."
SceneCovers ==
    Quiet /\ ~missed /\ ~fullscreen /\ ~iconic => scene.cx >= window.cx /\ scene.cy >= window.cy

\* The cursor is not left hidden over a window that is neither full screen nor
\* maximized, but by a tick of the timer that was posted before KillTimer.  No
\* move of the mouse brings it back then: update_last_mouse_move_time shows the
\* cursor only in full screen.
CursorComesBack == Idle => shown \/ fullscreen \/ maximized \/ late

=============================================================================
