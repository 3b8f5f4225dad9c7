------------------------- MODULE PlayerControlProofs -------------------------
(***************************************************************************)
(* Proofs about PlayerControl, for any files, any user, any list length    *)
(* and any number of pending stimuli: its invariants; that it implements   *)
(* Player until one stimulus overlaps another; and that the work a         *)
(* stimulus causes is bounded and runs out, so that, as long as the        *)
(* threads go on, everything settles and the window thread comes back.     *)
(***************************************************************************)
EXTENDS PlayerRefinement, PlaylistProofs, FiniteSetTheorems

-----------------------------------------------------------------------------
(* Sequences used as queues *)

\* Taking the head off a queue of elements of S.
LEMMA QueueHead ==
  ASSUME NEW S, NEW q \in Seq(S), q # <<>>
  PROVE  /\ Head(q) \in S
         /\ Tail(q) \in Seq(S)
         /\ Len(q) \in Nat \ {0}
         /\ Len(Tail(q)) = Len(q) - 1
         /\ \A i \in 1..(Len(q) - 1) : Tail(q)[i] = q[i + 1]
OBVIOUS

\* Putting an element at the end of a queue.
LEMMA QueueAppend ==
  ASSUME NEW S, NEW q \in Seq(S), NEW x \in S
  PROVE  /\ Append(q, x) \in Seq(S)
         /\ Len(Append(q, x)) = Len(q) + 1
         /\ \A i \in 1..Len(q) : Append(q, x)[i] = q[i]
         /\ Append(q, x)[Len(q) + 1] = x
OBVIOUS

\* What an item of awkawk's queue carries.
LEMMA ItemFields ==
  ASSUME NEW x \in AItems
  PROVE  /\ x.op \in {"post", "send", "change"}
         /\ x.op \in {"post", "send"} => x.arg \in Events
         /\ x.op = "change" => x.arg \in Moves /\ x.resume \in BOOLEAN
BY DEF AItems

\* Items built by the program are items.
LEMMA ItemTypes ==
  /\ \A e \in Events : Posted(e) \in AItems /\ Sent(e) \in AItems
  /\ \A m \in Moves, b \in BOOLEAN : Change(m, b) \in AItems
BY DEF AItems, Posted, Sent, Change

\* Only a track change has one of the three handlers that change tracks.
LEMMA ChangeEvents ==
  ASSUME NEW st, NEW e,
         Transition(st, e) \in {"do_next", "do_previous", "do_transition"}
  PROVE  e \in Moves
BY DEF Transition, Moves

\* The cursor movement of a track change keeps the playlist well formed.
LEMMA MoveCursorWellFormed ==
  ASSUME NEW p, WellFormed(p), NEW m \in Moves
  PROVE  WellFormed(MoveCursor(p, m))
BY MovesWellFormed DEF MoveCursor, Moves

\* The name at the cursor is a name.
LEMMA FileNameType ==
  ASSUME NEW p, WellFormed(p)
  PROVE  FileName(p) \in Names
<1>1. CASE BeforeStart(p) \/ AfterEnd(p)
  BY <1>1 DEF FileName, Names
<1>2. CASE ~BeforeStart(p) /\ ~AfterEnd(p)
  <2>1. p.pos \in 1..Len(p.files) /\ p.files \in Seq(Files)
    BY <1>2 DEF WellFormed, Playlists, BeforeStart, AfterEnd, EndPos
  <2> QED BY <1>2, <2>1 DEF FileName, Names
<1> QED BY <1>1, <1>2

-----------------------------------------------------------------------------
(* Type correctness *)

\* The scripts of the window thread are made of its steps.
LEMMA Scripts ==
  /\ \A f \in Files : OpenScript(f) \in Seq(UISteps)
  /\ \A f \in Files :
       <<Step("check", NoFile), Step("send", "unload"),
         Step("clear", NoFile)>> \o OpenScript(f) \in Seq(UISteps)
  /\ <<Step("post", "stop"), Step("post", "unload"),
       Step("clear", NoFile)>> \in Seq(UISteps)
  /\ Step("wait", NoFile) \in UISteps
  /\ Step("send", "stop") \in UISteps
<1>1. /\ \A e \in Events : Step("post", e) \in UISteps
                           /\ Step("send", e) \in UISteps
      /\ \A f \in Files : Step("add", f) \in UISteps
      /\ \A o \in {"wait", "check", "clear", "next"} :
           Step(o, NoFile) \in UISteps
  BY DEF UISteps, Step
<1>2. {"load", "stop", "play", "unload"} \subseteq Events
  BY DEF Events, GraphEvents
<1>3. ASSUME NEW f \in Files PROVE OpenScript(f) \in Seq(UISteps)
  <2>1. /\ Step("add", f) \in UISteps /\ Step("next", NoFile) \in UISteps
        /\ Step("post", "load") \in UISteps
        /\ Step("post", "play") \in UISteps
    BY <1>1, <1>2
  <2> QED BY <2>1 DEF OpenScript
<1>4. <<Step("check", NoFile), Step("send", "unload"),
        Step("clear", NoFile)>> \in Seq(UISteps)
  BY <1>1, <1>2
<1>5. <<Step("post", "stop"), Step("post", "unload"),
        Step("clear", NoFile)>> \in Seq(UISteps)
  BY <1>1, <1>2
<1> QED BY <1>1, <1>2, <1>3, <1>4, <1>5

\* A command for DirectShow is an item of its queue.
LEMMA CommandTypes ==
  \A e \in GraphEvents, st \in States : [evt |-> e, want |-> st] \in DItems
BY DEF DItems

\* The sends in a queue of awkawk.
SendsIn(q) == {i \in DOMAIN q : q[i].op = "send"}

\* A post or a callback adds no send; a send adds one.
LEMMA SendsAppend ==
  ASSUME NEW q \in Seq(AItems), NEW x \in AItems
  PROVE  SendsIn(Append(q, x)) =
           SendsIn(q) \cup (IF x.op = "send" THEN {Len(q) + 1} ELSE {})
BY QueueAppend DEF SendsIn

\* Taking the head off a queue removes its send, or shifts the one it holds.
LEMMA SendsTail ==
  ASSUME NEW q \in Seq(AItems), q # <<>>
  PROVE  /\ Head(q).op = "send" <=> 1 \in SendsIn(q)
         /\ SendsIn(Tail(q)) = {i \in 1..(Len(q) - 1) : i + 1 \in SendsIn(q)}
<1>1. Head(q) = q[1] /\ DOMAIN q = 1..Len(q) /\ Len(q) \in Nat \ {0}
  BY QueueHead
<1>2. DOMAIN Tail(q) = 1..(Len(q) - 1)
  BY <1>1
<1>3. \A i \in 1..(Len(q) - 1) : Tail(q)[i] = q[i + 1]
  BY QueueHead
<1> QED BY <1>1, <1>2, <1>3 DEF SendsIn

-----------------------------------------------------------------------------
(* The inductive invariant: the types are right only because a synchronous *)
(* event is dispatched while its sender waits, so both are proved together. *)

\* The window thread's script waits for nothing but its current step.
WaitsAtHead == \A i \in DOMAIN ui : ui[i].op = "wait" => i = 1

\* A handler of awkawk posts events to its own queue and sends none.
NoQueuedSend == \A i \in DOMAIN todo : todo[i].op # "send"

Served == SenderIsServed /\ WaitsAtHead /\ NoQueuedSend

IndInv == TypeOK /\ Served

\* SenderIsServed, in terms of SendsIn.
LEMMA ServedSends ==
  SenderIsServed <=>
    IF UIAt("wait") THEN \E i \in DOMAIN aq : SendsIn(aq) = {i}
    ELSE SendsIn(aq) = {}
BY DEF SenderIsServed, Sends, SendsIn

\* Dispatching the head of awkawk's queue keeps the types and the service.
LEMMA DispatchedKeeps ==
  ASSUME IndInv, aq # <<>>, Dispatched
  PROVE  /\ aq' \in Seq(AItems) /\ ui' \in Seq(UISteps)
         /\ SenderIsServed' /\ WaitsAtHead'
<1>1. aq \in Seq(AItems) /\ ui \in Seq(UISteps)
  BY DEF IndInv, TypeOK
<1>2. aq' = Tail(aq) /\ aq' \in Seq(AItems)
  BY <1>1, QueueHead DEF Dispatched
<1>3. SendsIn(aq') = {i \in 1..(Len(aq) - 1) : i + 1 \in SendsIn(aq)}
  BY <1>1, <1>2, SendsTail
<1>4. Len(aq) \in Nat \ {0} /\ DOMAIN aq = 1..Len(aq)
      /\ DOMAIN aq' = 1..(Len(aq) - 1)
  BY <1>1, <1>2, QueueHead
<1>5. CASE Head(aq).op = "send"
  <2>1. 1 \in SendsIn(aq)
    BY <1>1, <1>5, SendsTail
  <2>2. UIAt("wait") /\ SendsIn(aq) = {1}
    BY <2>1, ServedSends DEF IndInv, Served
  <2>3. SendsIn(aq') = {}
    BY <1>3, <2>2
  <2>4. ui # <<>> /\ ui' = Tail(ui)
    BY <1>5, <2>2 DEF UIAt, Dispatched
  <2>5. /\ ui' \in Seq(UISteps)
        /\ Len(ui') = Len(ui) - 1 /\ Len(ui) \in Nat \ {0}
        /\ \A i \in 1..(Len(ui) - 1) : ui'[i] = ui[i + 1]
    BY <1>1, <2>4, QueueHead
  <2>6. \A i \in DOMAIN ui' : ui'[i].op # "wait"
    <3>1. DOMAIN ui = 1..Len(ui) /\ DOMAIN ui' = 1..(Len(ui) - 1)
      BY <1>1, <2>5
    <3>2. \A i \in 1..Len(ui) : ui[i].op = "wait" => i = 1
      BY <3>1 DEF IndInv, Served, WaitsAtHead
    <3>3. \A i \in 1..(Len(ui) - 1) : ui[i + 1].op # "wait"
      BY <2>5, <3>2
    <3> QED BY <2>5, <3>1, <3>3
  <2>7. ~UIAt("wait")'
    BY <2>5, <2>6 DEF UIAt
  <2> QED BY <1>2, <2>3, <2>5, <2>6, <2>7 DEF SenderIsServed, Sends, SendsIn, WaitsAtHead
<1>6. CASE Head(aq).op # "send"
  <2>1. ui' = ui /\ 1 \notin SendsIn(aq)
    BY <1>1, <1>6, SendsTail DEF Dispatched
  <2>2. CASE UIAt("wait")
    <3>1. PICK i \in DOMAIN aq : SendsIn(aq) = {i}
      BY <2>2, ServedSends DEF IndInv, Served
    <3>2. i \in Nat /\ i # 1 /\ i - 1 \in 1..(Len(aq) - 1)
      BY <1>4, <2>1, <3>1
    <3>3. SendsIn(aq') = {i - 1}
      BY <1>3, <3>1, <3>2
    <3>4. (\E k \in DOMAIN aq : Sends = {k})'
      BY <1>4, <3>2, <3>3 DEF Sends, SendsIn
    <3> QED BY <1>1, <1>2, <2>1, <2>2, <3>4
            DEF IndInv, Served, SenderIsServed, UIAt, WaitsAtHead
  <2>3. CASE ~UIAt("wait")
    <3>1. SendsIn(aq) = {}
      BY <2>3, ServedSends DEF IndInv, Served
    <3>2. SendsIn(aq') = {}
      BY <1>3, <3>1
    <3> QED BY <1>1, <1>2, <2>1, <2>3, <3>2
            DEF IndInv, Served, SenderIsServed, Sends, SendsIn, UIAt, WaitsAtHead
  <2> QED BY <2>2, <2>3
<1> QED BY <1>5, <1>6
\* Posting something other than a send to awkawk's queue keeps the service.
LEMMA PostKeepsServed ==
  ASSUME SenderIsServed, aq \in Seq(AItems),
         NEW x \in AItems, x.op # "send", aq' = Append(aq, x),
         UIAt("wait")' <=> UIAt("wait")
  PROVE  SenderIsServed'
<1>1. SendsIn(aq') = SendsIn(aq)
  BY SendsAppend
<1>2. DOMAIN aq \subseteq DOMAIN aq'
  BY QueueAppend
<1> QED BY <1>1, <1>2, ServedSends DEF SenderIsServed, Sends, SendsIn

\* The user's commands.
LEMMA UserKeeps ==
  ASSUME IndInv, User
  PROVE  IndInv'
<1>1. /\ WellFormed(plist)
      /\ aq \in Seq(AItems) /\ ui \in Seq(UISteps)
      /\ {"play", "pause", "stop", "next", "previous"} \subseteq Events
      /\ overlapped' \in BOOLEAN
  <2>1. Arrives
    BY DEF User, Press, SelectMode, OpenFile, CloseFile
  <2> QED BY <2>1 DEF IndInv, TypeOK, PlaylistTypeOK, WellFormed, Events, GraphEvents, Moves, Arrives
<1>2. ASSUME NEW e \in {"play", "pause", "stop", "next", "previous"}, Press(e)
      PROVE  IndInv'
  <2>1. Posted(e) \in AItems /\ Posted(e).op # "send"
    BY <1>1, ItemTypes DEF Posted
  <2>2. aq' = Append(aq, Posted(e)) /\ ui' = ui
    BY <1>2 DEF Press
  <2>3. TypeOK'
    BY <1>1, <1>2, <2>1, <2>2, QueueAppend
    DEF IndInv, TypeOK, PlaylistTypeOK, EndPos, Press
  <2>4. UIAt("wait")' <=> UIAt("wait")
    BY <2>2 DEF UIAt
  <2>5. SenderIsServed'
    BY <1>1, <2>1, <2>2, <2>4, PostKeepsServed DEF IndInv, Served
  <2> QED BY <1>2, <2>3, <2>5
          DEF IndInv, Served, Press, WaitsAtHead, NoQueuedSend
<1>3. ASSUME NEW m \in UserModes, SelectMode(m)
      PROVE  IndInv'
  <2>1. WellFormed(plist')
    BY <1>1, <1>3, ControlAssumption, EditsWellFormed DEF SelectMode
  <2> QED BY <1>1, <1>3, <2>1
          DEF IndInv, TypeOK, PlaylistTypeOK, WellFormed, EndPos, SelectMode,
              Served, SenderIsServed, Sends, UIAt, WaitsAtHead, NoQueuedSend
\* A script replaces the empty one; it does not wait yet.
<1>4. ASSUME NEW script \in Seq(UISteps), ui = <<>>, ui' = script,
             \A i \in DOMAIN script : script[i].op # "wait",
             UNCHANGED <<plist, aq, todo, astate, scene, dq, dstate, graph,
                         ended, complete, topq, ontop, diverged>>
      PROVE  IndInv'
  <2>1. TypeOK'
    BY <1>1, <1>4 DEF IndInv, TypeOK, PlaylistTypeOK, EndPos
  <2>2. ~UIAt("wait") /\ ~UIAt("wait")'
    BY <1>4 DEF UIAt
  <2> QED BY <1>4, <2>1, <2>2
          DEF IndInv, Served, SenderIsServed, Sends, WaitsAtHead, NoQueuedSend
<1>5. ASSUME NEW f \in Files, OpenFile(f)
      PROVE  IndInv'
  <2> DEFINE long == <<Step("check", NoFile), Step("send", "unload"),
                       Step("clear", NoFile)>> \o OpenScript(f)
  <2>1. OpenScript(f) \in Seq(UISteps) /\ long \in Seq(UISteps)
    BY Scripts
  <2>2. /\ \A i \in DOMAIN OpenScript(f) : OpenScript(f)[i].op # "wait"
        /\ \A i \in DOMAIN long : long[i].op # "wait"
    BY DEF OpenScript, Step
  <2>3. ui = <<>> /\ ui' \in {OpenScript(f), long}
    BY <1>5 DEF OpenFile, Ready
  <2> HIDE DEF long
  <2> QED BY <1>4, <1>5, <2>1, <2>2, <2>3 DEF OpenFile
<1>6. ASSUME CloseFile
      PROVE  IndInv'
  <2> DEFINE short == <<Step("post", "stop"), Step("post", "unload"),
                        Step("clear", NoFile)>>
  <2>1. short \in Seq(UISteps)
    BY Scripts
  <2>2. \A i \in DOMAIN short : short[i].op # "wait"
    BY DEF Step
  <2>3. ui = <<>> /\ ui' = short
    BY <1>6 DEF CloseFile, Ready
  <2> HIDE DEF short
  <2> QED BY <1>4, <1>6, <2>1, <2>2, <2>3 DEF CloseFile
<1> QED BY <1>2, <1>3, <1>5, <1>6 DEF User
\* The steps of a command.
LEMMA WindowKeeps ==
  ASSUME IndInv, WindowThread
  PROVE  IndInv'
<1>1. /\ WellFormed(plist)
      /\ aq \in Seq(AItems) /\ ui \in Seq(UISteps)
  BY DEF IndInv, TypeOK, PlaylistTypeOK, WellFormed
\* One step of the script has been taken, possibly replaced by others.
<1>2. ASSUME ui # <<>>
      PROVE  /\ Head(ui) \in UISteps /\ Tail(ui) \in Seq(UISteps)
             /\ \A i \in DOMAIN Tail(ui) : Tail(ui)[i].op # "wait"
             /\ Tail(ui) # <<>> => Head(Tail(ui)).op # "wait"
  <2>1. Head(ui) \in UISteps /\ Tail(ui) \in Seq(UISteps)
        /\ DOMAIN ui = 1..Len(ui) /\ DOMAIN Tail(ui) = 1..(Len(ui) - 1)
        /\ Len(ui) \in Nat \ {0}
    BY <1>1, <1>2, QueueHead
  <2>2. \A i \in 1..Len(ui) : ui[i].op = "wait" => i = 1
    BY <2>1 DEF IndInv, Served, WaitsAtHead
  <2>3. \A i \in 1..(Len(ui) - 1) : Tail(ui)[i].op # "wait"
    BY <1>1, <1>2, <2>2, QueueHead
  <2>4. Tail(ui) # <<>> => Head(Tail(ui)) = Tail(ui)[1] /\ 1 \in DOMAIN Tail(ui)
    BY <2>1
  <2> QED BY <2>1, <2>3, <2>4
<1>3. ASSUME UICheck PROVE IndInv'
  <2>1. ui # <<>> /\ ~UIAt("wait")
    BY <1>3 DEF UICheck, UIAt
  <2>2. CASE ui' = Tail(ui)
    <3>1. ~UIAt("wait")'
      BY <1>2, <2>1, <2>2 DEF UIAt
    <3> QED BY <1>2, <1>3, <2>1, <2>2, <3>1
            DEF IndInv, TypeOK, PlaylistTypeOK, EndPos, Served, SenderIsServed,
                Sends, WaitsAtHead, NoQueuedSend, UICheck
  <2>3. CASE ui' = <<Step("send", "stop")>> \o Tail(ui)
    <3>1. ui' \in Seq(UISteps) /\ Head(ui').op # "wait"
          /\ \A i \in DOMAIN ui' : ui'[i].op # "wait"
      <4>1. Step("send", "stop") \in UISteps /\ Step("send", "stop").op # "wait"
        BY Scripts DEF Step
      <4> HIDE DEF Step
      <4> QED BY <1>2, <2>1, <2>3, <4>1
    <3>2. ~UIAt("wait")'
      BY <3>1 DEF UIAt
    <3> QED BY <1>3, <2>1, <3>1, <3>2
            DEF IndInv, TypeOK, PlaylistTypeOK, EndPos, Served, SenderIsServed,
                Sends, WaitsAtHead, NoQueuedSend, UICheck
  <2>4. <<>> \o Tail(ui) = Tail(ui)
    BY <1>2, <2>1
  <2> QED BY <1>3, <2>2, <2>3, <2>4 DEF UICheck
<1>4. ASSUME UIPost PROVE IndInv'
  <2>1. ui # <<>> /\ Head(ui).op = "post" /\ ui' = Tail(ui)
        /\ aq' = Append(aq, Posted(Head(ui).arg))
    BY <1>4 DEF UIPost, UIAt
  <2>2. Head(ui).arg \in Events
    BY <1>2, <2>1 DEF UISteps
  <2>3. Posted(Head(ui).arg) \in AItems /\ Posted(Head(ui).arg).op # "send"
    BY <2>2, ItemTypes DEF Posted
  <2>4. ~UIAt("wait") /\ ~UIAt("wait")'
    BY <1>2, <2>1 DEF UIAt
  <2>5. SenderIsServed'
    BY <1>1, <2>1, <2>3, <2>4, PostKeepsServed DEF IndInv, Served
  <2>6. aq' \in Seq(AItems)
    BY <1>1, <2>1, <2>3, QueueAppend
  <2> QED BY <1>2, <1>4, <2>1, <2>5, <2>6
          DEF IndInv, TypeOK, PlaylistTypeOK, EndPos, Served, WaitsAtHead,
              NoQueuedSend, UIPost
<1>5. ASSUME UISend PROVE IndInv'
  <2>1. /\ ui # <<>> /\ Head(ui).op = "send" /\ ~UIAt("wait")
        /\ ui' = <<Step("wait", NoFile)>> \o Tail(ui)
        /\ aq' = Append(aq, Sent(Head(ui).arg))
    BY <1>5 DEF UISend, UIAt
  <2>2. Head(ui).arg \in Events
    BY <1>2, <2>1 DEF UISteps
  <2>3. Sent(Head(ui).arg) \in AItems /\ Sent(Head(ui).arg).op = "send"
    BY <2>2, ItemTypes DEF Sent
  <2>4. SendsIn(aq) = {}
    BY <2>1, ServedSends DEF IndInv, Served
  <2>5. SendsIn(aq') = {Len(aq) + 1} /\ Len(aq) + 1 \in DOMAIN aq'
        /\ aq' \in Seq(AItems)
    BY <1>1, <2>1, <2>3, <2>4, SendsAppend, QueueAppend
  <2>6. /\ ui' \in Seq(UISteps) /\ ui' # <<>> /\ Head(ui').op = "wait"
        /\ \A i \in DOMAIN ui' : ui'[i].op = "wait" => i = 1
    <3>1. Step("wait", NoFile) \in UISteps /\ Step("wait", NoFile).op = "wait"
      BY Scripts DEF Step
    <3> HIDE DEF Step
    <3> QED BY <1>2, <2>1, <3>1
  <2>7. SenderIsServed'
    BY <2>5, <2>6 DEF SenderIsServed, Sends, SendsIn, UIAt
  <2> QED BY <1>5, <2>5, <2>6, <2>7
          DEF IndInv, TypeOK, PlaylistTypeOK, EndPos, Served, WaitsAtHead,
              NoQueuedSend, UISend
<1>6. ASSUME UIEdit PROVE IndInv'
  <2>1. ui # <<>> /\ ~UIAt("wait") /\ ui' = Tail(ui)
    BY <1>6 DEF UIEdit, UIAt
  <2>2. WellFormed(plist')
    <3>1. UIAt("add") => Head(ui).arg \in Files
      BY <1>2, <2>1 DEF UISteps, UIAt
    <3> QED BY <1>1, <1>6, <3>1, EditsWellFormed, MovesWellFormed DEF UIEdit
  <2>3. ~UIAt("wait")'
    BY <1>2, <2>1 DEF UIAt
  <2> QED BY <1>2, <1>6, <2>1, <2>2, <2>3
          DEF IndInv, TypeOK, PlaylistTypeOK, WellFormed, EndPos, Served,
              SenderIsServed, Sends, WaitsAtHead, NoQueuedSend, UIEdit
<1>7. ASSUME UISetOnTop PROVE IndInv'
  <2>1. ontop' \in BOOLEAN /\ topq' \in Seq(BOOLEAN)
    BY <1>7, QueueHead DEF UISetOnTop, IndInv, TypeOK
  <2> QED BY <1>7, <2>1
          DEF IndInv, TypeOK, PlaylistTypeOK, EndPos, Served, SenderIsServed,
              Sends, UIAt, WaitsAtHead, NoQueuedSend, UISetOnTop
<1> QED BY <1>3, <1>4, <1>5, <1>6, <1>7 DEF WindowThread

\* The items a handler of awkawk may post to its own queue.
Silent == {x \in AItems : x.op # "send"}

LEMMA EmptySilent == <<>> \in Seq(Silent)
OBVIOUS

\* A queue of such items holds no send, and putting two together gives another.
LEMMA SilentConcat ==
  /\ \A q \in Seq(Silent) :
       q \in Seq(AItems) /\ \A i \in DOMAIN q : q[i].op # "send"
  /\ \A q, r \in Seq(Silent) : q \o r \in Seq(Silent)
<1>1. ASSUME NEW q \in Seq(Silent)
      PROVE  q \in Seq(AItems) /\ \A i \in DOMAIN q : q[i].op # "send"
  <2>1. DOMAIN q = 1..Len(q) /\ \A i \in 1..Len(q) : q[i] \in Silent
    OBVIOUS
  <2>2. Silent \subseteq AItems /\ \A x \in Silent : x.op # "send"
    BY DEF Silent
  <2> HIDE DEF Silent
  <2> QED BY <2>1, <2>2
<1>2. \A q, r \in Seq(Silent) : q \o r \in Seq(Silent)
  OBVIOUS
<1> QED BY <1>1, <1>2

\* The handlers of awkawk.
LEMMA AwkawkKeeps ==
  ASSUME IndInv, AwkawkThread
  PROVE  IndInv'
<1>1. /\ WellFormed(plist) /\ dq \in Seq(DItems)
      /\ aq \in Seq(AItems) /\ todo \in Seq(AItems)
      /\ FileName(plist) \in Names
  BY FileNameType DEF IndInv, TypeOK, PlaylistTypeOK, WellFormed
\* A dispatched handler that appends nothing to awkawk's own queue.
<1>2. ASSUME aq # <<>>, Dispatched, WellFormed(plist'),
             todo' \in Seq(AItems), NoQueuedSend',
             astate' \in States, scene' \in Names \cup {NoFile},
             dq' \in Seq(DItems), diverged' \in BOOLEAN,
             UNCHANGED <<dstate, graph, ended, complete, topq, ontop, overlapped>>
      PROVE  IndInv'
  BY <1>2, DispatchedKeeps
  DEF IndInv, TypeOK, PlaylistTypeOK, WellFormed, Served
<1>3. ASSUME NEW e \in GraphEvents, NEW st \in States, Command(e, st)
      PROVE  dq' \in Seq(DItems) /\ astate' \in States
  BY <1>1, <1>3, CommandTypes, QueueAppend DEF Command
<1>4. /\ GraphEvents = {"load", "stop", "pause", "play", "unload"}
      /\ States = {"unloaded", "stopped", "paused", "playing"}
  BY DEF GraphEvents, States
<1>5. \A h : Runs(h) => aq # <<>>
  BY DEF Runs
<1>6. diverged \in BOOLEAN /\ scene \in Names \cup {NoFile}
      /\ astate \in States /\ NoQueuedSend
  BY DEF IndInv, TypeOK, Served
<1>7. ASSUME DoLoad PROVE IndInv'
  BY <1>1, <1>2, <1>3, <1>4, <1>5, <1>6, <1>7 DEF DoLoad, NoQueuedSend
<1>8. ASSUME DoUnload PROVE IndInv'
  BY <1>1, <1>2, <1>3, <1>4, <1>5, <1>6, <1>8 DEF DoUnload, NoQueuedSend
<1>9. ASSUME DoTransport PROVE IndInv'
  <2>1. dq' \in Seq(DItems) /\ astate' \in States /\ aq # <<>>
    BY <1>3, <1>4, <1>5, <1>9 DEF DoTransport
  <2> QED BY <1>1, <1>2, <1>6, <1>9, <2>1 DEF DoTransport, NoQueuedSend
<1>10. ASSUME DoTrackChange PROVE IndInv'
  <2>1. aq # <<>> /\ Head(aq).arg \in Moves
    BY <1>10, ChangeEvents DEF DoTrackChange, RunsChange, Runs
  <2>2. /\ Posted("stop") \in AItems /\ Posted("unload") \in AItems
        /\ Change(Head(aq).arg, astate = "playing") \in AItems
        /\ Posted("stop").op # "send" /\ Posted("unload").op # "send"
        /\ Change(Head(aq).arg, astate = "playing").op # "send"
    <3>1. (astate = "playing") \in BOOLEAN /\ "stop" \in Events
          /\ "unload" \in Events
      BY DEF Events, GraphEvents
    <3> QED BY <2>1, <3>1, ItemTypes DEF Posted, Change
  <2>3. todo' \in Seq(AItems) /\ NoQueuedSend'
    <3> DEFINE s == IF astate \in {"playing", "paused"}
                      THEN <<Posted("stop")>> ELSE <<>>
               u == IF astate # "unloaded" THEN <<Posted("unload")>> ELSE <<>>
               c == <<Change(Head(aq).arg, astate = "playing")>>
    <3>1. s \in Seq(Silent) /\ u \in Seq(Silent) /\ c \in Seq(Silent)
      <4>1. /\ Posted("stop") \in Silent /\ Posted("unload") \in Silent
            /\ Change(Head(aq).arg, astate = "playing") \in Silent
        BY <2>2 DEF Silent
      <4> HIDE DEF Silent
      <4> QED BY <4>1, EmptySilent
    <3>2. todo' = s \o u \o c
      BY <1>10 DEF DoTrackChange
    <3> HIDE DEF s, u, c
    <3> QED BY <3>1, <3>2, SilentConcat DEF NoQueuedSend
  <2> QED BY <1>1, <1>2, <1>6, <1>10, <2>1, <2>3 DEF DoTrackChange
<1>11. ASSUME DoTrackChangeEmpty PROVE IndInv'
  <2>1. aq # <<>>
    BY <1>5, <1>11 DEF DoTrackChangeEmpty, RunsChange
  <2> QED BY <1>1, <1>2, <1>4, <1>6, <1>11, <2>1
          DEF DoTrackChangeEmpty, NoQueuedSend
<1>12. ASSUME DoChange PROVE IndInv'
  <2>1. aq # <<>> /\ Head(aq).op = "change" /\ Head(aq) \in AItems
    BY <1>1, <1>12, QueueHead DEF DoChange
  <2>2. WellFormed(plist')
    BY <1>1, <1>12, <2>1, ItemFields, MoveCursorWellFormed DEF DoChange
  <2>3. todo' \in Seq(AItems) /\ NoQueuedSend'
    <3> DEFINE l == <<Posted("load")>>
               p == IF Head(aq).resume THEN <<Posted("play")>> ELSE <<>>
    <3>1. l \in Seq(Silent) /\ p \in Seq(Silent)
      <4>1. Posted("load") \in Silent /\ Posted("play") \in Silent
        BY ItemTypes DEF Posted, Events, GraphEvents, Silent
      <4> QED BY <4>1, EmptySilent
    <3>2. todo' = <<>> \/ todo' = l \o p
      BY <1>12 DEF DoChange
    <3> HIDE DEF l, p
    <3> QED BY <3>1, <3>2, SilentConcat, EmptySilent DEF NoQueuedSend
  <2> QED BY <1>1, <1>2, <1>6, <1>12, <2>1, <2>2, <2>3 DEF DoChange
<1>13. ASSUME PostNext PROVE IndInv'
  <2>1. /\ Head(todo) \in AItems /\ Tail(todo) \in Seq(AItems)
        /\ Head(todo).op # "send"
        /\ \A i \in DOMAIN Tail(todo) : Tail(todo)[i].op # "send"
    <3>1. \A i \in 1..Len(todo) : todo[i].op # "send"
      BY <1>1, <1>6 DEF NoQueuedSend
    <3>2. todo # <<>> /\ Len(todo) \in Nat \ {0} /\ Head(todo) = todo[1]
          /\ DOMAIN Tail(todo) = 1..(Len(todo) - 1)
      BY <1>1, <1>13, QueueHead DEF PostNext
    <3> QED BY <1>1, <3>1, <3>2, QueueHead
  <2>2. aq' = Append(aq, Head(todo)) /\ todo' = Tail(todo) /\ ui' = ui
    BY <1>13 DEF PostNext
  <2>3. aq' \in Seq(AItems)
    BY <1>1, <2>1, <2>2, QueueAppend
  <2>4. SenderIsServed'
    BY <1>1, <2>1, <2>2, PostKeepsServed DEF IndInv, Served, UIAt
  <2> QED BY <1>13, <2>1, <2>2, <2>3, <2>4
          DEF IndInv, TypeOK, PlaylistTypeOK, EndPos, Served, WaitsAtHead,
              NoQueuedSend, PostNext
<1>14. ASSUME DropEvent PROVE IndInv'
  BY <1>1, <1>2, <1>5, <1>6, <1>14 DEF DropEvent, NoQueuedSend
<1> QED BY <1>7, <1>8, <1>9, <1>10, <1>11, <1>12, <1>13, <1>14
        DEF AwkawkThread
\* The DirectShow thread, the end of a track and the media event thread.
LEMMA GraphKeeps ==
  ASSUME IndInv, GraphThread \/ TrackEnds \/ MediaEvent
  PROVE  IndInv'
<1>1. /\ aq \in Seq(AItems) /\ dq \in Seq(DItems) /\ topq \in Seq(BOOLEAN)
      /\ FileName(plist) \in Names
  BY FileNameType DEF IndInv, TypeOK, PlaylistTypeOK, WellFormed
<1>2. ASSUME CallBack, dq # <<>>
      PROVE  dq' \in Seq(DItems) /\ topq' \in Seq(BOOLEAN)
  <2>1. dq' \in Seq(DItems)
    BY <1>1, <1>2, QueueHead DEF CallBack
  <2>2. topq' \in {Append(topq, TRUE), Append(topq, FALSE), topq}
    BY <1>2 DEF CallBack
  <2>3. Append(topq, TRUE) \in Seq(BOOLEAN) /\ Append(topq, FALSE) \in Seq(BOOLEAN)
    BY <1>1, QueueAppend
  <2> QED BY <1>1, <2>1, <2>2, <2>3
\* A step that leaves the window thread and awkawk alone.
<1>3. ASSUME UNCHANGED <<plist, ui, aq, todo, astate, scene, ontop>>,
             dq' \in Seq(DItems), topq' \in Seq(BOOLEAN),
             dstate' \in States, graph' \in Names \cup {NoFile},
             ended' \in BOOLEAN, complete' \in BOOLEAN, diverged' \in BOOLEAN,
             overlapped' \in BOOLEAN
      PROVE  IndInv'
  BY <1>3
  DEF IndInv, TypeOK, PlaylistTypeOK, EndPos, Served, SenderIsServed, Sends,
      UIAt, WaitsAtHead, NoQueuedSend
<1>4. /\ dstate \in States /\ graph \in Names \cup {NoFile}
      /\ ended \in BOOLEAN /\ complete \in BOOLEAN /\ diverged \in BOOLEAN
      /\ overlapped \in BOOLEAN
  BY DEF IndInv, TypeOK
<1>5. GraphSucceeds => dstate' \in States
  BY <1>4 DEF GraphSucceeds, GraphExit, States
<1>6. \A h : GraphRuns(h) => dq # <<>>
  BY DEF GraphRuns
<1>7. ASSUME GraphLoad PROVE IndInv'
  <2>1. dq' \in Seq(DItems) /\ topq' \in Seq(BOOLEAN) /\ dstate' \in States
    BY <1>2, <1>5, <1>6, <1>7 DEF GraphLoad
  <2> QED BY <1>1, <1>3, <1>4, <1>7, <2>1 DEF GraphLoad
<1>8. ASSUME GraphUnload PROVE IndInv'
  <2>1. dq' \in Seq(DItems) /\ topq' \in Seq(BOOLEAN) /\ dstate' \in States
    BY <1>2, <1>5, <1>6, <1>8 DEF GraphUnload
  <2> QED BY <1>3, <1>4, <1>8, <2>1 DEF GraphUnload
<1>9. ASSUME GraphTransport PROVE IndInv'
  <2>1. dq' \in Seq(DItems) /\ topq' \in Seq(BOOLEAN) /\ dstate' \in States
    BY <1>2, <1>5, <1>6, <1>9 DEF GraphTransport
  <2>2. ended' \in BOOLEAN
    BY <1>9 DEF GraphTransport
  <2> QED BY <1>3, <1>4, <1>9, <2>1, <2>2 DEF GraphTransport
<1>10. ASSUME GraphFails PROVE IndInv'
  <2>1. dq' \in Seq(DItems) /\ topq' \in Seq(BOOLEAN)
    BY <1>2, <1>10 DEF GraphFails
  <2>2. graph' \in Names \cup {NoFile}
    BY <1>1, <1>4, <1>10 DEF GraphFails
  <2> QED BY <1>3, <1>4, <1>10, <2>1, <2>2 DEF GraphFails
<1>11. ASSUME GraphDrops PROVE IndInv'
  <2>1. dq' \in Seq(DItems) /\ topq' \in Seq(BOOLEAN)
    BY <1>2, <1>6, <1>11 DEF GraphDrops
  <2> QED BY <1>3, <1>4, <1>11, <2>1 DEF GraphDrops
<1>12. ASSUME TrackEnds PROVE IndInv'
  <2>1. dq' \in Seq(DItems) /\ topq' \in Seq(BOOLEAN)
    BY <1>1, <1>12 DEF TrackEnds
  <2>2. overlapped' \in BOOLEAN
    BY <1>12 DEF TrackEnds, Arrives
  <2> QED BY <1>3, <1>4, <1>12, <2>1, <2>2 DEF TrackEnds
<1>13. ASSUME MediaEvent PROVE IndInv'
  <2>1. /\ Posted("transitioning") \in AItems
        /\ Posted("transitioning").op # "send"
    BY ItemTypes DEF Posted, Events, Moves
  <2>2. aq' = Append(aq, Posted("transitioning")) /\ ui' = ui
        /\ aq' \in Seq(AItems)
    BY <1>1, <1>13, <2>1, QueueAppend DEF MediaEvent
  <2>3. SenderIsServed'
    BY <1>1, <2>1, <2>2, PostKeepsServed DEF IndInv, Served, UIAt
  <2> QED BY <1>13, <2>2, <2>3
          DEF IndInv, TypeOK, PlaylistTypeOK, EndPos, Served, WaitsAtHead,
              NoQueuedSend, MediaEvent
<1> QED BY <1>7, <1>8, <1>9, <1>10, <1>11, <1>12, <1>13 DEF GraphThread

\* The inductive invariant holds of the specification.
LEMMA Inductive == Spec => []IndInv
<1>1. Init => IndInv
  <2> SUFFICES ASSUME Init PROVE IndInv
    OBVIOUS
  <2>1. TypeOK
    <3>1. PlaylistTypeOK
      BY EmptyWellFormed DEF Init, PlaylistTypeOK, WellFormed
    <3>2. /\ ui \in Seq(UISteps) /\ aq \in Seq(AItems) /\ todo \in Seq(AItems)
          /\ dq \in Seq(DItems) /\ topq \in Seq(BOOLEAN)
      BY DEF Init
    <3> QED BY <3>1, <3>2 DEF Init, TypeOK, States
  <2>2. Served
    BY DEF Init, Served, SenderIsServed, Sends, UIAt, WaitsAtHead, NoQueuedSend
  <2> QED BY <2>1, <2>2 DEF IndInv
<1>2. IndInv /\ [Next]_vars => IndInv'
  <2> SUFFICES ASSUME IndInv, [Next]_vars
               PROVE  IndInv'
    OBVIOUS
  <2>1. CASE UNCHANGED vars
    BY <2>1
    DEF vars, IndInv, TypeOK, PlaylistTypeOK, EndPos, Served, SenderIsServed,
        Sends, UIAt, WaitsAtHead, NoQueuedSend
  <2>2. CASE Next
    BY <2>2, UserKeeps, WindowKeeps, AwkawkKeeps, GraphKeeps DEF Next
  <2> QED BY <2>1, <2>2
<1> QED BY <1>1, <1>2, PTL DEF Spec

\* Every variable keeps its type; in particular the queues hold only items
\* their threads know how to dispatch.
THEOREM TypeCorrect == Spec => []TypeOK
BY Inductive, PTL DEF IndInv

\* A window thread blocked in send_event always has its event in awkawk's
\* queue, and no stray event will try to wake it.
THEOREM SenderAlwaysServed == Spec => []SenderIsServed
BY Inductive, PTL DEF IndInv, Served
-----------------------------------------------------------------------------
(* The two controllers stay in step *)

\* Command c suits DirectShow in state st.  pause would start a stopped graph
\* without the callback of play; awkawk never posts it to one.
Suits(st, c) ==
  /\ GraphTransition(st, c.evt) # "null"
  /\ GraphExit(st, c.evt) = c.want
  /\ c.evt = "pause" => st \in {"playing", "paused"}

\* The state in which the i-th command of queue q is dispatched, from state st.
At(q, st, i) == IF i = 1 THEN st ELSE q[i - 1].want

\* Queue q takes DirectShow from state st to state last.
Leads(q, st, last) ==
  /\ \A i \in 1..Len(q) : Suits(At(q, st, i), q[i])
  /\ last = At(q, st, Len(q) + 1)

Lockstep == ~diverged => Leads(dq, dstate, astate)

LEMMA LockstepInStep == TypeOK /\ Lockstep => InStep
<1>1. TypeOK => DOMAIN dq = 1..Len(dq)
  BY DEF TypeOK
<1> QED BY <1>1 DEF Lockstep, Leads, At, InStep, Before, Suits

\* Appending a command that suits the last state.
LEMMA LeadsAppend ==
  ASSUME NEW q \in Seq(DItems), NEW st, NEW last, NEW c \in DItems,
         Leads(q, st, last), Suits(last, c)
  PROVE  Leads(Append(q, c), st, c.want)
<1> DEFINE r == Append(q, c)
<1>1. /\ Len(r) = Len(q) + 1 /\ Len(q) \in Nat
      /\ \A i \in 1..Len(q) : r[i] = q[i]
      /\ r[Len(q) + 1] = c
  BY QueueAppend
<1> HIDE DEF r
<1>2. \A i \in 1..(Len(q) + 1) : At(r, st, i) = At(q, st, i)
  BY <1>1 DEF At
<1>3. At(r, st, Len(r) + 1) = c.want
  BY <1>1 DEF At
<1>4. \A i \in 1..Len(r) : Suits(At(r, st, i), r[i])
  <2> SUFFICES ASSUME NEW i \in 1..Len(r) PROVE Suits(At(r, st, i), r[i])
    OBVIOUS
  <2>1. CASE i \in 1..Len(q)
    BY <1>1, <1>2, <2>1 DEF Leads
  <2>2. CASE i = Len(q) + 1
    BY <1>1, <1>2, <2>2 DEF Leads
  <2> QED BY <1>1, <2>1, <2>2
<1> QED BY <1>3, <1>4 DEF Leads, r

\* Carrying out the command at the head.
LEMMA LeadsTail ==
  ASSUME NEW q \in Seq(DItems), q # <<>>, NEW st, NEW last,
         Leads(q, st, last)
  PROVE  Leads(Tail(q), GraphExit(st, Head(q).evt), last)
<1> DEFINE r == Tail(q)
           nx == GraphExit(st, Head(q).evt)
<1>1. /\ Len(r) = Len(q) - 1 /\ Len(q) \in Nat \ {0}
      /\ \A i \in 1..(Len(q) - 1) : r[i] = q[i + 1]
      /\ Head(q) = q[1]
  BY QueueHead
<1>2. nx = q[1].want
  <2>1. Suits(At(q, st, 1), q[1])
    BY <1>1 DEF Leads
  <2> QED BY <1>1, <2>1 DEF Suits, At
<1> HIDE DEF r, nx
<1>3. \A i \in 1..Len(q) : At(r, nx, i) = At(q, st, i + 1)
  BY <1>1, <1>2 DEF At
<1>4. \A i \in 1..(Len(q) - 1) : Suits(At(q, st, i + 1), q[i + 1])
  BY <1>1 DEF Leads
<1>5. \A i \in 1..Len(r) : Suits(At(r, nx, i), r[i])
  BY <1>1, <1>3, <1>4
<1>6. last = At(r, nx, Len(r) + 1)
  BY <1>1, <1>3 DEF Leads
<1> QED BY <1>5, <1>6 DEF Leads, r, nx

\* awkawk posts a command that suits the state it is in.
LEMMA CommandLockstep ==
  ASSUME IndInv, Lockstep, NEW e \in GraphEvents, NEW st \in States,
         Command(e, st), Suits(astate, [evt |-> e, want |-> st]),
         UNCHANGED <<dstate, diverged>>
  PROVE  Lockstep'
<1> DEFINE c == [evt |-> e, want |-> st]
<1>1. dq \in Seq(DItems) /\ c \in DItems /\ c.want = st
  BY CommandTypes DEF IndInv, TypeOK
<1>2. dq' = Append(dq, c) /\ astate' = st
  BY DEF Command
<1>3. Suits(astate, c)
  OBVIOUS
<1> HIDE DEF c
<1> QED BY <1>1, <1>2, <1>3, LeadsAppend DEF Lockstep

\* DirectShow carries out the command at the head of its queue.
LEMMA ConsumeLockstep ==
  ASSUME IndInv, Lockstep, dq # <<>>, dq' = Tail(dq), GraphSucceeds,
         UNCHANGED <<astate, diverged>>
  PROVE  Lockstep'
<1>1. dq \in Seq(DItems)
  BY DEF IndInv, TypeOK
<1> QED BY <1>1, LeadsTail DEF Lockstep, GraphSucceeds

\* The head of DirectShow's queue is never dropped, and suits it.
LEMMA HeadSuits ==
  ASSUME IndInv, Lockstep, ~diverged, dq # <<>>
  PROVE  Suits(dstate, Head(dq)) /\ Head(dq) \in DItems
<1>1. dq \in Seq(DItems)
  BY DEF IndInv, TypeOK
<1>2. 1 \in 1..Len(dq) /\ Head(dq) = dq[1] /\ Head(dq) \in DItems
  BY <1>1, QueueHead
<1> QED BY <1>1, <1>2 DEF Lockstep, Leads, At

\* Every step keeps the controllers in step.
LEMMA LockstepKept ==
  ASSUME IndInv, Lockstep, [Next]_vars
  PROVE  Lockstep'
<1>1. ASSUME UNCHANGED <<dq, dstate, astate, diverged>> PROVE Lockstep'
  BY <1>1 DEF Lockstep
<1>2. /\ GraphEvents = {"load", "stop", "pause", "play", "unload"}
      /\ States = {"unloaded", "stopped", "paused", "playing"}
  BY DEF GraphEvents, States
<1>3. CASE User
  BY <1>1, <1>3 DEF User, Press, SelectMode, OpenFile, CloseFile
<1>4. CASE WindowThread
  BY <1>1, <1>4 DEF WindowThread, UICheck, UIPost, UISend, UIEdit, UISetOnTop
<1>5. CASE TrackEnds \/ MediaEvent
  BY <1>1, <1>5 DEF TrackEnds, MediaEvent
<1>6. CASE DoLoad
  <2>1. Suits(astate, [evt |-> "load", want |-> "stopped"])
    BY <1>6 DEF DoLoad, Runs, Transition, Suits, GraphTransition, GraphExit
  <2> QED BY <1>2, <1>6, <2>1, CommandLockstep DEF DoLoad
<1>7. CASE DoUnload
  <2>1. Suits(astate, [evt |-> "unload", want |-> "unloaded"])
    BY <1>7 DEF DoUnload, Runs, Transition, Suits, GraphTransition, GraphExit
  <2> QED BY <1>2, <1>7, <2>1, CommandLockstep DEF DoUnload
<1>8. CASE DoTransport
  <2>1. \/ Command("play", "playing") /\ astate = "stopped"
        \/ Command("pause", "paused") /\ astate = "playing"
        \/ Command("pause", "playing") /\ astate = "paused"
        \/ Command("stop", "stopped") /\ astate \in {"paused", "playing"}
    BY <1>8 DEF DoTransport, Runs, Transition
  <2>2. \E e \in GraphEvents, st \in States :
          Command(e, st) /\ Suits(astate, [evt |-> e, want |-> st])
    BY <1>2, <2>1 DEF Suits, GraphTransition, GraphExit
  <2> QED BY <1>8, <2>2, CommandLockstep DEF DoTransport
<1>9. CASE DoTrackChange \/ DoChange \/ PostNext \/ DropEvent
  BY <1>1, <1>9 DEF DoTrackChange, DoChange, PostNext, DropEvent
<1>10. CASE DoTrackChangeEmpty
  BY <1>10 DEF DoTrackChangeEmpty, Lockstep
<1>11. CASE GraphLoad \/ GraphUnload \/ GraphTransport
  BY <1>11, ConsumeLockstep
  DEF GraphLoad, GraphUnload, GraphTransport, GraphRuns, CallBack
<1>12. CASE GraphFails
  BY <1>12 DEF GraphFails, Lockstep
<1>13. CASE GraphDrops
  <2>1. dq # <<>> /\ GraphTransition(dstate, Head(dq).evt) = "null"
        /\ diverged' = diverged
    BY <1>13 DEF GraphDrops, GraphRuns
  <2>2. diverged
    BY <2>1, HeadSuits DEF Suits
  <2> QED BY <2>1, <2>2 DEF Lockstep
<1>14. CASE UNCHANGED vars
  BY <1>1, <1>14 DEF vars
<1> QED BY <1>3, <1>4, <1>5, <1>6, <1>7, <1>8, <1>9, <1>10, <1>11, <1>12,
           <1>13, <1>14 DEF Next, AwkawkThread, GraphThread

LEMMA LockstepAlways == Spec => []Lockstep
<1>1. Init => Lockstep
  BY DEF Init, Lockstep, Leads, At
<1> QED BY <1>1, LockstepKept, Inductive, PTL DEF Spec

\* Until a COM call fails or a track change finds no playlist, the state
\* awkawk records without waiting is the one DirectShow will reach, for any
\* commands, in any interleaving, with queues of any length.
THEOREM StaysInStep == Spec => []InStep
BY LockstepAlways, TypeCorrect, LockstepInStep, PTL
-----------------------------------------------------------------------------
(* The window is topmost while a file is shown *)

\* What the window will be once the queued set_on_top calls have run.
Final(q, now) == IF q = <<>> THEN now ELSE q[Len(q)]

LEMMA FinalAppend ==
  ASSUME NEW q \in Seq(BOOLEAN), NEW b \in BOOLEAN, NEW now
  PROVE  Final(Append(q, b), now) = b
BY QueueAppend DEF Final

\* A sequence without elements is the empty one.
LEMMA EmptyByLength ==
  ASSUME NEW S, NEW q \in Seq(S)
  PROVE  q = <<>> <=> Len(q) = 0
OBVIOUS

LEMMA FinalTail ==
  ASSUME NEW q \in Seq(BOOLEAN), q # <<>>, NEW now
  PROVE  Final(Tail(q), Head(q)) = Final(q, now)
<1>1. /\ Len(Tail(q)) = Len(q) - 1 /\ Len(q) \in Nat \ {0}
      /\ \A i \in 1..(Len(q) - 1) : Tail(q)[i] = q[i + 1]
      /\ Head(q) = q[1] /\ Tail(q) \in Seq(BOOLEAN)
  BY QueueHead
<1>2. CASE Len(q) = 1
  <2>1. Tail(q) = <<>>
    <3> DEFINE t == Tail(q)
    <3>1. t \in Seq(BOOLEAN) /\ Len(t) = 0
      BY <1>1, <1>2
    <3> HIDE DEF t
    <3>2. t = <<>>
      BY <3>1, EmptyByLength
    <3> QED BY <3>2 DEF t
  <2> QED BY <1>1, <1>2, <2>1 DEF Final
<1>3. CASE Len(q) # 1
  <2>1. Tail(q) # <<>> /\ Len(q) - 1 \in 1..(Len(q) - 1)
    <3>1. Len(q) - 1 \in Nat \ {0}
      BY <1>1, <1>3
    <3> DEFINE t == Tail(q)
    <3>2. Len(t) # 0
      BY <1>1, <3>1
    <3> HIDE DEF t
    <3>3. t # <<>>
      BY <3>2
    <3> QED BY <3>1, <3>3 DEF t
  <2>2. Tail(q)[Len(q) - 1] = q[Len(q)]
    BY <1>1, <2>1
  <2> QED BY <1>1, <2>1, <2>2 DEF Final
<1> QED BY <1>2, <1>3

Showing(st) == st \in {"playing", "paused"}

LEMMA TopmostAsFinal ==
  TopmostWhileShowing <=> (~diverged => (Showing(dstate) <=> Final(topq, ontop)))
BY DEF TopmostWhileShowing, Showing, Final

LEMMA TopmostKept ==
  ASSUME IndInv, Lockstep, TopmostWhileShowing, [Next]_vars
  PROVE  TopmostWhileShowing'
<1>1. ASSUME UNCHANGED <<topq, ontop, dstate, diverged>>
      PROVE  TopmostWhileShowing'
  BY <1>1 DEF TopmostWhileShowing
<1>2. topq \in Seq(BOOLEAN) /\ dstate \in States
  BY DEF IndInv, TypeOK
<1>3. ASSUME UISetOnTop PROVE TopmostWhileShowing'
  <2>1. /\ topq # <<>> /\ topq' = Tail(topq) /\ ontop' = Head(topq)
        /\ dstate' = dstate /\ diverged' = diverged
    BY <1>3 DEF UISetOnTop
  <2>2. Final(topq', ontop') = Final(topq, ontop)
    BY <1>2, <2>1, FinalTail
  <2> QED BY <2>1, <2>2 DEF TopmostWhileShowing, Final
<1>4. ASSUME dq # <<>>, CallBack, GraphSucceeds,
             UNCHANGED <<ontop, diverged>>
      PROVE  TopmostWhileShowing'
  <2> SUFFICES ASSUME ~diverged PROVE Showing(dstate') <=> Final(topq', ontop)
    BY <1>4 DEF TopmostWhileShowing, Showing, Final
  <2>1. Suits(dstate, Head(dq)) /\ Head(dq).evt \in GraphEvents
    BY <1>4, HeadSuits DEF DItems
  <2>2. Showing(dstate) <=> Final(topq, ontop)
    BY TopmostAsFinal
  <2>3. CASE Head(dq).evt = "play"
    <3>1. topq' = Append(topq, TRUE)
      BY <1>4, <2>3 DEF CallBack
    <3>2. Showing(dstate')
      BY <1>4, <2>1, <2>3
      DEF Suits, GraphSucceeds, GraphExit, GraphTransition, Showing
    <3> QED BY <1>2, <3>1, <3>2, FinalAppend
  <2>4. CASE Head(dq).evt = "stop"
    <3>1. topq' = Append(topq, FALSE)
      BY <1>4, <2>4 DEF CallBack
    <3>2. ~Showing(dstate')
      BY <1>4, <2>1, <2>4
      DEF Suits, GraphSucceeds, GraphExit, GraphTransition, Showing
    <3> QED BY <1>2, <3>1, <3>2, FinalAppend
  <2>5. CASE Head(dq).evt \in {"load", "unload", "pause"}
    <3>1. topq' = topq
      BY <1>4, <2>5 DEF CallBack
    <3>2. Showing(dstate') <=> Showing(dstate)
      BY <1>4, <2>1, <2>5
      DEF Suits, GraphSucceeds, GraphExit, GraphTransition, Showing
    <3> QED BY <2>2, <3>1, <3>2
  <2> QED BY <2>1, <2>3, <2>4, <2>5 DEF GraphEvents
<1>5. CASE User
  BY <1>1, <1>5 DEF User, Press, SelectMode, OpenFile, CloseFile
<1>6. CASE WindowThread
  BY <1>1, <1>3, <1>6 DEF WindowThread, UICheck, UIPost, UISend, UIEdit
<1>7. CASE TrackEnds \/ MediaEvent
  BY <1>1, <1>7 DEF TrackEnds, MediaEvent
<1>8. CASE AwkawkThread
  <2>1. UNCHANGED <<topq, ontop, dstate>> /\ (diverged => diverged')
    <3>1. CASE DoLoad \/ DoUnload \/ DoTransport
      BY <3>1 DEF DoLoad, DoUnload, DoTransport
    <3>2. CASE DoTrackChange \/ DoChange
      BY <3>2 DEF DoTrackChange, DoChange
    <3>4. CASE DoTrackChangeEmpty
      BY <3>4 DEF DoTrackChangeEmpty
    <3>3. CASE PostNext \/ DropEvent
      BY <3>3 DEF PostNext, DropEvent
    <3> QED BY <1>8, <3>1, <3>2, <3>3, <3>4 DEF AwkawkThread
  <2> QED BY <2>1 DEF TopmostWhileShowing
<1>9. CASE GraphLoad \/ GraphUnload \/ GraphTransport
  BY <1>4, <1>9 DEF GraphLoad, GraphUnload, GraphTransport, GraphRuns
<1>10. CASE GraphFails
  BY <1>10 DEF GraphFails, TopmostWhileShowing
<1>11. CASE GraphDrops
  <2>1. dq # <<>> /\ GraphTransition(dstate, Head(dq).evt) = "null"
        /\ diverged' = diverged
    BY <1>11 DEF GraphDrops, GraphRuns
  <2>2. diverged
    BY <2>1, HeadSuits DEF Suits
  <2> QED BY <2>1, <2>2 DEF TopmostWhileShowing
<1>12. CASE UNCHANGED vars
  BY <1>1, <1>12 DEF vars
<1> QED BY <1>5, <1>6, <1>7, <1>8, <1>9, <1>10, <1>11, <1>12
        DEF Next, GraphThread

\* While the controllers are in step, the window is topmost, or has a call
\* queued that will make it so, exactly while DirectShow shows a file.
THEOREM TopmostRight == Spec => []TopmostWhileShowing
<1>1. Init => TopmostWhileShowing
  BY DEF Init, TopmostWhileShowing
<1> QED BY <1>1, TopmostKept, LockstepAlways, Inductive, PTL DEF Spec

-----------------------------------------------------------------------------
(* A name on screen while loaded, a graph while DirectShow is *)

LEMMA NamedKept ==
  ASSUME IndInv, NamedWhileLoaded, [Next]_vars
  PROVE  NamedWhileLoaded'
<1>1. ASSUME UNCHANGED <<scene, astate, diverged, graph, dstate>>
      PROVE  NamedWhileLoaded'
  BY <1>1 DEF NamedWhileLoaded
<1>2. FileName(plist) # NoFile
  <2>1. FileName(plist) \in Names
    BY FileNameType DEF IndInv, TypeOK, PlaylistTypeOK, WellFormed
  <2> QED BY <2>1, ControlAssumption DEF Names
<1>3. CASE User
  BY <1>1, <1>3 DEF User, Press, SelectMode, OpenFile, CloseFile
<1>4. CASE WindowThread
  BY <1>1, <1>4 DEF WindowThread, UICheck, UIPost, UISend, UIEdit, UISetOnTop
<1>5. CASE TrackEnds \/ MediaEvent
  BY <1>1, <1>5 DEF TrackEnds, MediaEvent
<1>6. CASE DoLoad \/ DoUnload
  BY <1>2, <1>6 DEF DoLoad, DoUnload, Command, NamedWhileLoaded
<1>7. CASE DoTransport
  <2>1. astate # "unloaded" /\ astate' # "unloaded"
    BY <1>7 DEF DoTransport, Runs, Transition, Command
  <2> QED BY <1>7, <2>1 DEF DoTransport, NamedWhileLoaded
<1>8. CASE DoTrackChange \/ DoChange \/ PostNext \/ DropEvent
  BY <1>1, <1>8 DEF DoTrackChange, DoChange, PostNext, DropEvent
<1>9. CASE DoTrackChangeEmpty
  BY <1>9 DEF DoTrackChangeEmpty, NamedWhileLoaded
<1>10. CASE GraphLoad
  <2>1. dstate' = "stopped"
    BY <1>10 DEF GraphLoad, GraphRuns, GraphSucceeds, GraphExit
  <2> QED BY <1>2, <1>10, <2>1 DEF GraphLoad, NamedWhileLoaded
<1>11. CASE GraphUnload
  <2>1. dstate' = "unloaded"
    BY <1>11 DEF GraphUnload, GraphRuns, GraphSucceeds, GraphExit
  <2> QED BY <1>11, <2>1 DEF GraphUnload, NamedWhileLoaded
<1>12. CASE GraphTransport
  <2>1. dstate # "unloaded" /\ dstate' # "unloaded"
    BY <1>12 DEF GraphTransport, GraphRuns, GraphSucceeds, GraphExit, GraphTransition
  <2> QED BY <1>12, <2>1 DEF GraphTransport, NamedWhileLoaded
<1>13. CASE GraphFails \/ GraphDrops
  BY <1>13 DEF GraphFails, GraphDrops, NamedWhileLoaded
<1>14. CASE UNCHANGED vars
  BY <1>1, <1>14 DEF vars
<1> QED BY <1>3, <1>4, <1>5, <1>6, <1>7, <1>8, <1>9, <1>10, <1>11, <1>12,
           <1>13, <1>14 DEF Next, AwkawkThread, GraphThread

\* While the controllers are in step, a name is shown exactly while awkawk is
\* loaded, and a graph exists exactly while DirectShow is.
THEOREM NamedRight == Spec => []NamedWhileLoaded
<1>1. Init => NamedWhileLoaded
  BY DEF Init, NamedWhileLoaded
<1> QED BY <1>1, NamedKept, Inductive, PTL DEF Spec
-----------------------------------------------------------------------------
(* One at a time.  Until a command is given, or a track ends, while an     *)
(* earlier one is still being worked off, one command is carried out at a  *)
(* time, and what the playlist and awkawk's state will be in the end is    *)
(* known from its first step.                                              *)

\* What awkawk has yet to do; a handler's posts to its own queue are part.
Work == aq \o todo

Do(e) == <<Posted(e)>>

\* What is left of open_single_file at each of its steps.
PlayIt    == <<Step("post", "play")>>
LoadIt    == <<Step("post", "load"), Step("post", "play")>>
MoveToIt  == <<Step("next", NoFile), Step("post", "load"), Step("post", "play")>>
ClearFor(f)  == <<Step("clear", NoFile)>> \o OpenScript(f)
UnloadFor(f) == <<Step("send", "unload")>> \o ClearFor(f)

\* What is left of closing a file.
CloseIt  == <<Step("post", "stop"), Step("post", "unload"), Step("clear", NoFile)>>
UnloadIt == <<Step("post", "unload"), Step("clear", NoFile)>>
ClearIt  == <<Step("clear", NoFile)>>

\* The ends of a command, for awkawk: playlist p and state st.
Toggled(st) == IF st = "unloaded" THEN st ELSE IF st = "playing" THEN "paused" ELSE "playing"
Halted(st)  == IF st \in {"playing", "paused"} THEN "stopped" ELSE st
Skipped(p0, m, resume, p, st) ==
  /\ p = MoveCursor(p0, m)
  /\ st = IF AfterEnd(p) THEN "unloaded" ELSE IF resume THEN "playing" ELSE "stopped"
Skips(p0, st0, m, p, st) ==
  IF Empty(p0) \/ (m = "next" /\ st0 = "unloaded") \/ (m = "transitioning" /\ st0 # "playing")
  THEN p = p0 /\ st = st0
  ELSE Skipped(p0, m, st0 = "playing", p, st)

\* The window thread is done; awkawk is at work, or about to be.
Resting(p, st)  == Work = <<>> /\ p = plist /\ st = astate
Toggling(p, st) == /\ Work \in {Do("play"), Do("pause")}
                   /\ p = plist /\ st = Toggled(astate)
Halting(p, st)  == Work = Do("stop") /\ p = plist /\ st = Halted(astate)
Skipping(p, st) == \E m \in Moves : Work = Do(m) /\ Skips(plist, astate, m, p, st)
Changing(p, st) ==
  \E m \in Moves, resume \in BOOLEAN :
    /\ ~Empty(plist) /\ Skipped(plist, m, resume, p, st)
    /\ \/ astate \in {"playing", "paused"} /\ Work = <<Posted("stop"), Posted("unload"), Change(m, resume)>>
       \/ astate = "stopped" /\ Work = <<Posted("unload"), Change(m, resume)>>
       \/ astate = "unloaded" /\ Work = <<Change(m, resume)>>
Loading(p, st) ==
  /\ astate = "unloaded" /\ ~Empty(plist) /\ p = plist
  /\ \/ Work = <<Posted("load"), Posted("play")>> /\ st = "playing"
     \/ Work = Do("load") /\ st = "stopped"
Unloading(p, st) ==
  /\ p = plist /\ st = "unloaded"
  /\ \/ Work = <<Posted("stop"), Posted("unload")>>
     \/ Work = Do("unload") /\ astate \in {"stopped", "unloaded"}

AwkawkAtWork(p, st) ==
  /\ ui = <<>> /\ ~complete
  /\ \/ Resting(p, st) \/ Toggling(p, st) \/ Halting(p, st) \/ Skipping(p, st)
     \/ Changing(p, st) \/ Loading(p, st) \/ Unloading(p, st)

\* The window thread opens a file: over a loaded one, or into the list.
Replacing(p, st) ==
  \E f \in Files :
    /\ p = MoveNext(AddFile(ClearFiles(plist), f)) /\ st = "playing"
    /\ \/ /\ ui = <<Step("check", NoFile)>> \o UnloadFor(f) /\ aq = <<>>
          /\ astate # "unloaded"
       \/ /\ ui = <<Step("send", "stop")>> \o UnloadFor(f) /\ aq = <<>>
          /\ astate \in {"playing", "paused"}
       \/ /\ ui = <<Step("wait", NoFile)>> \o UnloadFor(f) /\ aq = <<Sent("stop")>>
          /\ astate \in {"playing", "paused"}
       \/ ui = UnloadFor(f) /\ aq = <<>> /\ astate = "stopped"
       \/ /\ ui = <<Step("wait", NoFile)>> \o ClearFor(f) /\ aq = <<Sent("unload")>>
          /\ astate = "stopped"
       \/ ui = ClearFor(f) /\ aq = <<>> /\ astate = "unloaded"
Adding(p, st) ==
  /\ st = "playing"
  /\ \/ /\ \E f \in Files : ui = OpenScript(f) /\ p = MoveNext(AddFile(plist, f))
        /\ aq = <<>> /\ astate = "unloaded"
     \/ /\ ui = MoveToIt /\ ~Empty(plist) /\ p = MoveNext(plist)
        /\ aq = <<>> /\ astate = "unloaded"
     \/ /\ ui = LoadIt /\ ~Empty(plist) /\ p = plist
        /\ aq = <<>> /\ astate = "unloaded"
     \/ /\ ui = PlayIt /\ ~Empty(plist) /\ p = plist
        /\ \/ aq = Do("load") /\ astate = "unloaded"
           \/ aq = <<>> /\ astate = "stopped"

\* The window thread closes the file while awkawk stops and unloads it.
Closing(p, st) ==
  /\ p = ClearFiles(plist) /\ st = "unloaded"
  /\ \/ ui = CloseIt /\ aq = <<>>
     \/ /\ ui = UnloadIt
        /\ aq = Do("stop") \/ (aq = <<>> /\ astate \in {"stopped", "unloaded"})
     \/ /\ ui = ClearIt
        /\ \/ aq = <<Posted("stop"), Posted("unload")>>
           \/ aq = Do("unload") /\ astate \in {"stopped", "unloaded"}
           \/ aq = <<>> /\ astate = "unloaded"

WindowAtWork(p, st) ==
  /\ todo = <<>> /\ ~complete
  /\ Replacing(p, st) \/ Adding(p, st) \/ Closing(p, st)

\* The media event thread is about to post that the track is over.
TrackOver(p, st) ==
  /\ ui = <<>> /\ Work = <<>> /\ complete
  /\ Skips(plist, astate, "transitioning", p, st)

Stage(p, st) == AwkawkAtWork(p, st) \/ WindowAtWork(p, st) \/ TrackOver(p, st)

\* What a command, or the end of a track, makes of playlist p0 and state st0.
Legal(p0, st0, p, st) ==
  \/ p = p0 /\ st \in {st0, Toggled(st0), Halted(st0)}
  \/ \E m \in Moves : Skips(p0, st0, m, p, st)
  \/ \E f \in Files :
       /\ p = MoveNext(AddFile(IF st0 = "unloaded" THEN p0 ELSE ClearFiles(p0), f))
       /\ st = "playing"
  \/ p = ClearFiles(p0) /\ st = "unloaded"
  \/ \E m \in UserModes : p = SetPlaymode(p0, m) /\ st = st0

\* What is loaded is in the list, but while the last of it is being closed.
Emptying == ui = <<>> /\ ~complete /\ Unloading(plist, "unloaded")
ListedInv == astate # "unloaded" => ~Empty(plist) \/ Emptying

\* A load waits for DirectShow only at the end of a command.
Waits(e) == \E i \in 1..Len(dq) : dq[i].evt = e
LoadsLast ==
  Waits("load") => /\ ~complete /\ todo \in {<<>>, Do("play")}
                   /\ ui \in {<<>>, PlayIt} /\ Work \in {<<>>, Do("play")}

\* The name on the screen and the graph's, once its last load has run, are
\* those at the cursor.
Builds ==
  \/ graph = FileName(plist) /\ ~Waits("load") /\ ~Waits("unload")
  \/ \E i \in 1..Len(dq) :
       dq[i].evt = "load" /\ \A j \in (i + 1)..Len(dq) : dq[j].evt \notin {"load", "unload"}
Named ==
  astate # "unloaded" => \/ scene = FileName(plist) /\ Builds
                         \/ Emptying

-----------------------------------------------------------------------------
(* Short queues and scripts *)

LEMMA ShortQueues ==
  ASSUME NEW S, NEW x \in S, NEW y \in S, NEW z \in S
  PROVE  /\ Head(<<x>>) = x /\ Tail(<<x>>) = <<>> /\ <<x>> # <<>>
         /\ Head(<<x, y>>) = x /\ Tail(<<x, y>>) = <<y>> /\ <<x, y>> # <<>>
         /\ Head(<<x, y, z>>) = x /\ Tail(<<x, y, z>>) = <<y, z>> /\ <<x, y, z>> # <<>>
OBVIOUS

LEMMA ByElements ==
  ASSUME NEW S, NEW q \in Seq(S)
  PROVE  /\ Len(q) = 2 => q = <<q[1], q[2]>>
         /\ Len(q) = 3 => q = <<q[1], q[2], q[3]>>
<1>1. Len(q) = 2 => q = <<q[1], q[2]>>
  OBVIOUS
<1>2. Len(q) = 3 => q = <<q[1], q[2], q[3]>>
  OBVIOUS
<1> QED BY <1>1, <1>2

LEMMA AppendShort ==
  ASSUME NEW S, NEW x \in S, NEW y \in S
  PROVE  Append(<<>>, x) = <<x>> /\ Append(<<x>>, y) = <<x, y>>
<1> DEFINE q == Append(<<x>>, y)
<1>1. q \in Seq(S) /\ Len(q) = 2 /\ q[1] = x /\ q[2] = y
  OBVIOUS
<1>2. Append(<<>>, x) = <<x>>
  OBVIOUS
<1> HIDE DEF q
<1>3. q = <<x, y>>
  BY <1>1, ByElements
<1> QED BY <1>2, <1>3 DEF q

LEMMA JoinShort ==
  ASSUME NEW S, NEW x \in S, NEW y \in S, NEW z \in S
  PROVE  /\ <<>> \o <<>> \o <<z>> = <<z>>
         /\ <<>> \o <<y>> \o <<z>> = <<y, z>>
         /\ <<x>> \o <<y>> \o <<z>> = <<x, y, z>>
         /\ <<y>> \o <<z>> = <<y, z>> /\ <<y>> \o <<>> = <<y>>
<1>1. \A a, b \in S : <<a>> \o <<b>> = <<a, b>>
  <2> SUFFICES ASSUME NEW a \in S, NEW b \in S PROVE <<a>> \o <<b>> = <<a, b>>
    OBVIOUS
  <2> DEFINE q == <<a>> \o <<b>>
  <2>1. q \in Seq(S) /\ Len(q) = 2 /\ q[1] = a /\ q[2] = b
    OBVIOUS
  <2> HIDE DEF q
  <2>2. q = <<a, b>>
    BY <2>1, ByElements
  <2> QED BY <2>2 DEF q
<1>2. <<x, y>> \o <<z>> = <<x, y, z>>
  <2> DEFINE q == <<x, y>> \o <<z>>
  <2>1. q \in Seq(S) /\ Len(q) = 3 /\ q[1] = x /\ q[2] = y /\ q[3] = z
    OBVIOUS
  <2> HIDE DEF q
  <2>2. q = <<x, y, z>>
    BY <2>1, ByElements
  <2> QED BY <2>2 DEF q
<1>3. \A a \in S : <<>> \o <<a>> = <<a>> /\ <<a>> \o <<>> = <<a>>
  OBVIOUS
<1>4. <<>> \o <<>> = <<>>
  OBVIOUS
<1> QED BY <1>1, <1>2, <1>3, <1>4

LEMMA JoinQueues ==
  ASSUME NEW S, NEW q \in Seq(S), NEW r \in Seq(S)
  PROVE  /\ q \o <<>> = q /\ <<>> \o q = q
         /\ q \o r = <<>> <=> q = <<>> /\ r = <<>>
         /\ r # <<>> => Append(q, Head(r)) \o Tail(r) = q \o r
<1>1. r # <<>> => Append(q, Head(r)) \o Tail(r) = q \o r
  OBVIOUS
<1>2. q \o <<>> = q /\ <<>> \o q = q
  OBVIOUS
<1>3. q \o r = <<>> <=> q = <<>> /\ r = <<>>
  OBVIOUS
<1> QED BY <1>1, <1>2, <1>3

LEMMA Cons ==
  ASSUME NEW S, NEW x \in S, NEW q \in Seq(S)
  PROVE  <<x>> \o q \in Seq(S) /\ <<x>> \o q # <<>> /\ Head(<<x>> \o q) = x /\ Tail(<<x>> \o q) = q
OBVIOUS

LEMMA ConsThree ==
  ASSUME NEW S, NEW x \in S, NEW y \in S, NEW z \in S, NEW q \in Seq(S)
  PROVE  <<x, y, z>> \o q = <<x>> \o (<<y>> \o (<<z>> \o q))
<1> DEFINE a == <<x, y, z>> \o q
           b == <<z>> \o q
           c == <<y>> \o b
           d == <<x>> \o c
<1>1. b \in Seq(S) /\ Len(b) = Len(q) + 1 /\ b[1] = z /\ \A i \in 1..Len(q) : b[i + 1] = q[i]
  OBVIOUS
<1>2. a \in Seq(S) /\ Len(a) = Len(q) + 3 /\ a[1] = x /\ a[2] = y /\ a[3] = z /\ \A i \in 1..Len(q) : a[i + 3] = q[i]
  OBVIOUS
<1> HIDE DEF a, b
<1>3. c \in Seq(S) /\ Len(c) = Len(b) + 1 /\ c[1] = y /\ \A i \in 1..Len(b) : c[i + 1] = b[i]
  BY <1>1
<1> HIDE DEF c
<1>4. d \in Seq(S) /\ Len(d) = Len(c) + 1 /\ d[1] = x /\ \A i \in 1..Len(c) : d[i + 1] = c[i]
  BY <1>3
<1> HIDE DEF d
<1>5. Len(q) \in Nat /\ Len(d) = Len(a)
  BY <1>1, <1>2, <1>3, <1>4
<1>6. ASSUME NEW i \in 1..Len(a) PROVE d[i] = a[i]
  <2>1. CASE i = 1
    BY <1>2, <1>4, <2>1
  <2>2. CASE i = 2
    <3>1. d[2] = c[1]
      <4>1. 1 \in 1..Len(c) /\ 1 + 1 = 2
        BY <1>1, <1>3, <1>5
      <4> QED BY <1>4, <4>1
    <3> QED BY <1>2, <1>3, <2>2, <3>1
  <2>3. CASE i = 3
    <3>1. d[3] = c[2]
      <4>1. 2 \in 1..Len(c) /\ 2 + 1 = 3
        BY <1>1, <1>3, <1>5
      <4> QED BY <1>4, <4>1
    <3>2. c[2] = b[1]
      <4>1. 1 \in 1..Len(b) /\ 1 + 1 = 2
        BY <1>1, <1>5
      <4> QED BY <1>3, <4>1
    <3> QED BY <1>1, <1>2, <2>3, <3>1, <3>2
  <2>4. CASE i > 3
    <3>1. PICK k \in 1..Len(q) : i = k + 3
      <4>1. i - 3 \in 1..Len(q) /\ i = (i - 3) + 3
        BY <1>2, <1>5, <2>4
      <4> QED BY <4>1
    <3>2. a[i] = q[k] /\ b[k + 1] = q[k]
      BY <1>1, <1>2, <3>1
    <3>3. c[k + 2] = b[k + 1]
      <4>1. k + 1 \in 1..Len(b) /\ (k + 1) + 1 = k + 2
        BY <1>1, <1>5
      <4> QED BY <1>3, <4>1
    <3>4. d[k + 3] = c[k + 2]
      <4>1. k + 2 \in 1..Len(c) /\ (k + 2) + 1 = k + 3
        BY <1>1, <1>3, <1>5
      <4> QED BY <1>4, <4>1
    <3> QED BY <3>1, <3>2, <3>3, <3>4
  <2> QED BY <1>2, <1>5, <2>1, <2>2, <2>3, <2>4
<1>7. a = d
  BY <1>2, <1>4, <1>5, <1>6
<1> QED BY <1>7 DEF a, b, c, d

\* The scripts of open_single_file, step by step.
LEMMA OpenScripts ==
  ASSUME NEW f \in Files
  PROVE  /\ OpenScript(f) # <<>> /\ Head(OpenScript(f)) = Step("add", f) /\ Tail(OpenScript(f)) = MoveToIt
         /\ ClearFor(f) # <<>> /\ Head(ClearFor(f)) = Step("clear", NoFile) /\ Tail(ClearFor(f)) = OpenScript(f)
         /\ UnloadFor(f) # <<>> /\ Head(UnloadFor(f)) = Step("send", "unload") /\ Tail(UnloadFor(f)) = ClearFor(f)
         /\ UnloadFor(f) \in Seq(UISteps) /\ ClearFor(f) \in Seq(UISteps) /\ OpenScript(f) \in Seq(UISteps)
         /\ <<Step("check", NoFile), Step("send", "unload"), Step("clear", NoFile)>> \o OpenScript(f)
              = <<Step("check", NoFile)>> \o UnloadFor(f)
<1>1. /\ OpenScript(f) \in Seq(UISteps)
      /\ Step("check", NoFile) \in UISteps /\ Step("send", "unload") \in UISteps /\ Step("clear", NoFile) \in UISteps
  BY Scripts DEF UISteps, Step, Events, GraphEvents
<1>2. OpenScript(f) # <<>> /\ Head(OpenScript(f)) = Step("add", f) /\ Tail(OpenScript(f)) = MoveToIt
  BY DEF OpenScript, MoveToIt
<1> HIDE DEF OpenScript
<1>3. /\ ClearFor(f) # <<>> /\ Head(ClearFor(f)) = Step("clear", NoFile) /\ Tail(ClearFor(f)) = OpenScript(f)
      /\ ClearFor(f) \in Seq(UISteps)
  BY <1>1, Cons DEF ClearFor
<1>4. /\ UnloadFor(f) # <<>> /\ Head(UnloadFor(f)) = Step("send", "unload") /\ Tail(UnloadFor(f)) = ClearFor(f)
      /\ UnloadFor(f) \in Seq(UISteps)
  BY <1>1, <1>3, Cons DEF UnloadFor
<1>5. <<Step("check", NoFile), Step("send", "unload"), Step("clear", NoFile)>> \o OpenScript(f)
        = <<Step("check", NoFile)>> \o UnloadFor(f)
  <2> DEFINE q == OpenScript(f)
             x == Step("check", NoFile)
             y == Step("send", "unload")
             z == Step("clear", NoFile)
  <2>1. q \in Seq(UISteps) /\ x \in UISteps /\ y \in UISteps /\ z \in UISteps
    BY <1>1
  <2>2. <<x>> \o (<<y>> \o (<<z>> \o q)) = <<x>> \o UnloadFor(f)
    BY DEF UnloadFor, ClearFor
  <2> HIDE DEF q, x, y, z
  <2>3. <<x, y, z>> \o q = <<x>> \o (<<y>> \o (<<z>> \o q))
    BY <2>1, ConsThree, SMTT(30)
  <2>4. <<x, y, z>> \o q = <<x>> \o UnloadFor(f)
    BY <2>2, <2>3
  <2> QED BY <2>4 DEF q, x, y, z
<1> QED BY <1>1, <1>2, <1>3, <1>4, <1>5

\* The last steps of open_single_file, and those of closing a file.
LEMMA LastSteps ==
  /\ MoveToIt # <<>> /\ Head(MoveToIt) = Step("next", NoFile) /\ Tail(MoveToIt) = LoadIt
  /\ LoadIt # <<>> /\ Head(LoadIt) = Step("post", "load") /\ Tail(LoadIt) = PlayIt
  /\ PlayIt # <<>> /\ Head(PlayIt) = Step("post", "play") /\ Tail(PlayIt) = <<>>
<1> DEFINE S == {Step("next", NoFile), Step("post", "load"), Step("post", "play")}
<1>1. Step("next", NoFile) \in S /\ Step("post", "load") \in S /\ Step("post", "play") \in S
  OBVIOUS
<1> HIDE DEF S
<1> QED BY <1>1, ShortQueues DEF MoveToIt, LoadIt, PlayIt


LEMMA CloseSteps ==
  /\ CloseIt # <<>> /\ Head(CloseIt) = Step("post", "stop") /\ Tail(CloseIt) = UnloadIt
  /\ UnloadIt # <<>> /\ Head(UnloadIt) = Step("post", "unload") /\ Tail(UnloadIt) = ClearIt
  /\ ClearIt # <<>> /\ Head(ClearIt) = Step("clear", NoFile) /\ Tail(ClearIt) = <<>>
<1> DEFINE S == {Step("post", "stop"), Step("post", "unload"), Step("clear", NoFile)}
<1>1. Step("post", "stop") \in S /\ Step("post", "unload") \in S /\ Step("clear", NoFile) \in S
  OBVIOUS
<1> HIDE DEF S
<1> QED BY <1>1, ShortQueues DEF CloseIt, UnloadIt, ClearIt

\* The items awkawk may find in its queue.
LEMMA Items ==
  /\ \A e \in Events : Posted(e) \in AItems /\ Posted(e).op = "post" /\ Posted(e).arg = e
  /\ \A e \in Events : Sent(e) \in AItems /\ Sent(e).op = "send" /\ Sent(e).arg = e
  /\ \A m \in Moves, b \in BOOLEAN : /\ Change(m, b) \in AItems /\ Change(m, b).op = "change"
                                     /\ Change(m, b).arg = m /\ Change(m, b).resume = b
  /\ GraphEvents \subseteq Events /\ Moves \subseteq Events /\ GraphEvents \cap Moves = {}
  /\ {"load", "stop", "play", "pause", "unload"} \subseteq GraphEvents
<1>1. \A e \in Events : Posted(e).op = "post" /\ Posted(e).arg = e /\ Sent(e).op = "send" /\ Sent(e).arg = e
  BY DEF Posted, Sent
<1>2. \A m \in Moves, b \in BOOLEAN : Change(m, b).op = "change" /\ Change(m, b).arg = m /\ Change(m, b).resume = b
  BY DEF Change
<1>3. /\ GraphEvents \subseteq Events /\ Moves \subseteq Events /\ GraphEvents \cap Moves = {}
      /\ {"load", "stop", "play", "pause", "unload"} \subseteq GraphEvents
  BY DEF Events, GraphEvents, Moves
<1> QED BY <1>1, <1>2, <1>3, ItemTypes

\* The two tables agree on what awkawk forwards.
LEMMA SameExit ==
  ASSUME NEW st \in States, NEW e \in GraphEvents
  PROVE  Transition(st, e) = GraphTransition(st, e)
BY DEF Transition, GraphTransition, GraphEvents

\* The event at the head of awkawk's queue is handled.
LEMMA Handled ==
  ASSUME IndInv, AwkawkThread, todo = <<>>, aq # <<>>, Head(aq).op # "change"
  PROVE  /\ Dispatched /\ complete' = complete
         /\ Head(aq).arg \in GraphEvents =>
              plist' = plist /\ todo' = <<>> /\ astate' = GraphExit(astate, Head(aq).arg)
         /\ Head(aq).arg \in Moves =>
              /\ plist' = plist
              /\ Transition(astate, Head(aq).arg) = "null" => astate' = astate /\ todo' = <<>>
              /\ Transition(astate, Head(aq).arg) # "null" =>
                   IF Empty(plist) THEN astate' = "unloaded" /\ todo' = <<>>
                   ELSE /\ astate' = astate
                        /\ todo' = (IF astate \in {"playing", "paused"} THEN <<Posted("stop")>> ELSE <<>>)
                                   \o (IF astate # "unloaded" THEN <<Posted("unload")>> ELSE <<>>)
                                   \o <<Change(Head(aq).arg, astate = "playing")>>
<1> DEFINE e == Head(aq).arg
<1>1. /\ aq \in Seq(AItems) /\ astate \in States /\ Head(aq) \in AItems
  BY QueueHead DEF IndInv, TypeOK
<1>2. e \in Moves => Transition(astate, e) \in {"null", "do_next", "do_previous", "do_transition"}
  BY DEF Transition, Moves
<1>3. e \in GraphEvents => Transition(astate, e) \notin {"do_next", "do_previous", "do_transition"}
  BY DEF Transition, GraphEvents
<1>4. e \in GraphEvents \cup Moves
  BY <1>1, ItemFields DEF Events
<1>5. CASE DoLoad
  <2>1. Transition(astate, e) = "do_load" /\ astate' = "stopped" /\ e = "load" /\ astate = "unloaded"
    BY <1>5 DEF DoLoad, Runs, Command, Transition
  <2> QED BY <1>2, <1>5, <2>1 DEF DoLoad, GraphExit, GraphTransition
<1>6. CASE DoUnload
  <2>1. Transition(astate, e) = "do_unload" /\ astate' = "unloaded" /\ e = "unload" /\ astate = "stopped"
    BY <1>6 DEF DoUnload, Runs, Command, Transition
  <2> QED BY <1>2, <1>6, <2>1 DEF DoUnload, GraphExit, GraphTransition
<1>7. CASE DoTransport
  <2>1. \/ e \in {"play", "pause"} /\ astate = "stopped" /\ astate' = "playing"
        \/ e \in {"play", "pause"} /\ astate = "playing" /\ astate' = "paused"
        \/ e \in {"play", "pause"} /\ astate = "paused" /\ astate' = "playing"
        \/ e = "stop" /\ astate \in {"paused", "playing"} /\ astate' = "stopped"
    BY <1>7 DEF DoTransport, Runs, Command, Transition
  <2>2. astate' = GraphExit(astate, e) /\ e \notin Moves
    BY <2>1 DEF GraphExit, GraphTransition, Moves
  <2> QED BY <1>7, <2>2 DEF DoTransport
<1>8. CASE DoTrackChange
  <2>1. Transition(astate, e) \in {"do_next", "do_previous", "do_transition"}
    BY <1>8 DEF DoTrackChange, RunsChange, Runs
  <2> QED BY <1>3, <1>8, <2>1 DEF DoTrackChange
<1>9. CASE DoTrackChangeEmpty
  <2>1. Transition(astate, e) \in {"do_next", "do_previous", "do_transition"}
    BY <1>9 DEF DoTrackChangeEmpty, RunsChange, Runs
  <2> QED BY <1>3, <1>9, <2>1 DEF DoTrackChangeEmpty
<1>10. CASE DropEvent
  <2>1. Transition(astate, e) = "null"
    BY <1>10 DEF DropEvent, Runs
  <2>2. e \in GraphEvents => GraphExit(astate, e) = astate
    BY <1>1, <2>1, SameExit DEF GraphExit
  <2> QED BY <1>10, <2>1, <2>2 DEF DropEvent
<1> QED BY <1>5, <1>6, <1>7, <1>8, <1>9, <1>10 DEF AwkawkThread, DoChange, PostNext


\* awkawk takes an event of the DirectShow controller off its queue.
LEMMA TakeEvent ==
  ASSUME IndInv, AwkawkThread, todo = <<>>, NEW e \in GraphEvents,
         aq # <<>>, Head(aq) \in {Posted(e), Sent(e)}
  PROVE  /\ aq' = Tail(aq) /\ plist' = plist /\ todo' = <<>> /\ complete' = complete
         /\ astate' = GraphExit(astate, e)
         /\ ui' = IF Head(aq).op = "send" THEN Tail(ui) ELSE ui
         /\ Work' = Tail(aq)
<1>1. e \in Events /\ Head(aq).op \in {"post", "send"} /\ Head(aq).arg = e
  BY Items
<1>2. Head(aq).op # "change"
  BY <1>1
<1>3. /\ Dispatched /\ complete' = complete
      /\ plist' = plist /\ todo' = <<>> /\ astate' = GraphExit(astate, Head(aq).arg)
  BY <1>1, <1>2, Handled
<1>4. Tail(aq) \in Seq(AItems)
  BY QueueHead DEF IndInv, TypeOK
<1>5. Work' = Tail(aq)
  BY <1>3, <1>4, JoinQueues DEF Work, Dispatched
<1> QED BY <1>1, <1>3, <1>5 DEF Dispatched

\* The states GraphExit leads to.
LEMMA Exits ==
  ASSUME NEW st \in States
  PROVE  /\ GraphExit(st, "play") = Toggled(st) /\ GraphExit(st, "pause") = Toggled(st)
         /\ GraphExit(st, "stop") = Halted(st)
         /\ st \in {"playing", "paused"} => GraphExit(st, "stop") = "stopped"
         /\ GraphExit(st, "stop") \in {"stopped", "unloaded"}
         /\ st = "unloaded" => GraphExit(st, "load") = "stopped"
         /\ st \in {"stopped", "unloaded"} => GraphExit(st, "unload") = "unloaded"
<1>1. GraphExit(st, "play") = Toggled(st) /\ GraphExit(st, "pause") = Toggled(st)
  BY DEF GraphExit, GraphTransition, Toggled, States
<1>2. /\ GraphExit(st, "stop") = Halted(st)
      /\ st \in {"playing", "paused"} => GraphExit(st, "stop") = "stopped"
      /\ GraphExit(st, "stop") \in {"stopped", "unloaded"}
  BY DEF GraphExit, GraphTransition, Halted, States
<1>3. /\ st = "unloaded" => GraphExit(st, "load") = "stopped"
      /\ st \in {"stopped", "unloaded"} => GraphExit(st, "unload") = "unloaded"
  BY DEF GraphExit, GraphTransition, States
<1> QED BY <1>1, <1>2, <1>3

\* The event a handler posts to its own queue was part of awkawk's work.
LEMMA PostNextWork ==
  ASSUME IndInv, PostNext
  PROVE  Work' = Work
<1>1. aq \in Seq(AItems) /\ todo \in Seq(AItems) /\ todo # <<>>
  BY DEF IndInv, TypeOK, PostNext
<1>2. Append(aq, Head(todo)) \o Tail(todo) = aq \o todo
  BY <1>1, JoinQueues
<1>3. aq' = Append(aq, Head(todo)) /\ todo' = Tail(todo)
  BY DEF PostNext
<1> QED BY <1>2, <1>3 DEF Work

\* awkawk unloads what the window thread has closed.
LEMMA UnloadingGoesOn ==
  ASSUME IndInv, AwkawkThread, NEW p, NEW st, ui = <<>>, ~complete, Unloading(p, st)
  PROVE  ui' = <<>> /\ ~complete' /\ (Unloading(p, st) \/ Resting(p, st))'
<1>1. aq \in Seq(AItems) /\ todo \in Seq(AItems) /\ astate \in States
  BY DEF IndInv, TypeOK
<1>2. CASE todo # <<>>
  <2>1. PostNext
    BY <1>2 DEF AwkawkThread, DoLoad, DoUnload, DoTransport, DoTrackChange, DoTrackChangeEmpty,
                DoChange, DropEvent, Runs, RunsChange
  <2>2. Work' = Work
    BY <2>1, PostNextWork
  <2>3. UNCHANGED <<plist, ui, astate, complete>>
    BY <2>1 DEF PostNext
  <2>4. Unloading(p, st)'
    BY <2>2, <2>3 DEF Unloading
  <2> QED BY <2>3, <2>4
<1> SUFFICES ASSUME todo = <<>>
             PROVE  ui' = <<>> /\ ~complete' /\ (Unloading(p, st) \/ Resting(p, st))'
  BY <1>2
<1>3. Work = aq
  BY <1>1, JoinQueues DEF Work
<1>4. /\ {"stop", "unload"} \subseteq GraphEvents /\ {"stop", "unload"} \subseteq Events
      /\ \A e \in Events : Posted(e) \in AItems /\ Posted(e).op = "post"
  BY Items
<1>5. CASE aq = <<Posted("stop"), Posted("unload")>>
  <2>1. Head(aq) = Posted("stop") /\ Tail(aq) = Do("unload") /\ aq # <<>>
    BY <1>4, <1>5, ShortQueues DEF Do
  <2>2. /\ plist' = plist /\ complete' = complete /\ ui' = ui /\ astate' = GraphExit(astate, "stop")
        /\ Work' = Do("unload")
    BY <1>4, <2>1, TakeEvent
  <2>3. astate' \in {"stopped", "unloaded"}
    BY <1>1, <2>2, Exits
  <2> QED BY <2>2, <2>3 DEF Unloading
<1>6. CASE aq = Do("unload") /\ astate \in {"stopped", "unloaded"}
  <2>1. Head(aq) = Posted("unload") /\ Tail(aq) = <<>> /\ aq # <<>>
    BY <1>4, <1>6, ShortQueues DEF Do
  <2>2. /\ plist' = plist /\ complete' = complete /\ ui' = ui /\ astate' = GraphExit(astate, "unload")
        /\ Work' = <<>>
    BY <1>4, <2>1, TakeEvent
  <2>3. astate' = "unloaded"
    BY <1>1, <1>6, <2>2, Exits
  <2> QED BY <2>2, <2>3 DEF Unloading, Resting
<1> QED BY <1>3, <1>5, <1>6 DEF Unloading

\* awkawk carries a command on: what it will come to in the end stays.
LEMMA AwkawkGoesOn ==
  ASSUME IndInv, ListedInv, AwkawkThread, NEW p, NEW st, AwkawkAtWork(p, st)
  PROVE  AwkawkAtWork(p, st)'
<1>1. aq \in Seq(AItems) /\ todo \in Seq(AItems) /\ astate \in States /\ ui = <<>> /\ ~complete
  BY DEF IndInv, TypeOK, AwkawkAtWork
<1>2. CASE todo # <<>>
  <2>1. PostNext
    BY <1>2 DEF AwkawkThread, DoLoad, DoUnload, DoTransport, DoTrackChange, DoTrackChangeEmpty,
                DoChange, DropEvent, Runs, RunsChange
  <2>2. Work' = Work
    BY <2>1, PostNextWork
  <2>3. UNCHANGED <<plist, ui, astate, complete>>
    BY <2>1 DEF PostNext
  <2> QED BY <2>2, <2>3 DEF AwkawkAtWork, Resting, Toggling, Halting, Skipping, Changing, Loading, Unloading
<1> SUFFICES ASSUME todo = <<>> PROVE AwkawkAtWork(p, st)'
  BY <1>2
<1>3. Work = aq /\ aq # <<>>
  <2>1. Work = aq
    BY <1>1, JoinQueues DEF Work
  <2>2. aq # <<>>
    BY DEF AwkawkThread, DoLoad, DoUnload, DoTransport, DoTrackChange, DoTrackChangeEmpty,
           DoChange, DropEvent, PostNext, Runs, RunsChange
  <2> QED BY <2>1, <2>2
<1>4. /\ \A e \in Events : Posted(e) \in AItems /\ Posted(e).op = "post" /\ Posted(e).arg = e
      /\ {"load", "stop", "play", "pause", "unload"} \subseteq GraphEvents
      /\ GraphEvents \subseteq Events /\ Moves \subseteq Events
  BY Items
<1>5. ASSUME NEW e \in GraphEvents, aq = Do(e)
      PROVE  ui' = <<>> /\ ~complete' /\ Work' = <<>> /\ plist' = plist /\ astate' = GraphExit(astate, e)
  <2>1. Head(aq) = Posted(e) /\ Tail(aq) = <<>>
    BY <1>4, <1>5, ShortQueues DEF Do
  <2> QED BY <1>1, <1>3, <1>4, <2>1, TakeEvent
<1>6. CASE Resting(p, st)
  BY <1>3, <1>6 DEF Resting
<1>7. CASE Toggling(p, st)
  <2>1. PICK e \in {"play", "pause"} : aq = Do(e)
    BY <1>3, <1>7 DEF Toggling
  <2>2. e \in GraphEvents /\ GraphExit(astate, e) = Toggled(astate)
    BY <1>1, <1>4, Exits
  <2> QED BY <1>5, <1>7, <2>1, <2>2 DEF Toggling, Resting, AwkawkAtWork
<1>8. CASE Halting(p, st)
  <2>1. aq = Do("stop")
    BY <1>3, <1>8 DEF Halting
  <2>2. GraphExit(astate, "stop") = Halted(astate)
    BY <1>1, Exits
  <2> QED BY <1>4, <1>5, <1>8, <2>1, <2>2 DEF Halting, Resting, AwkawkAtWork
<1>9. CASE Skipping(p, st)
  <2>1. PICK m \in Moves : aq = Do(m) /\ Skips(plist, astate, m, p, st)
    BY <1>3, <1>9 DEF Skipping
  <2>2. Head(aq) = Posted(m) /\ Tail(aq) = <<>>
    BY <1>4, <2>1, ShortQueues DEF Do
  <2>3. Head(aq).op = "post" /\ Head(aq).arg = m
    BY <1>4, <2>2
  <2>4. /\ Dispatched /\ complete' = complete /\ plist' = plist
        /\ Transition(astate, m) = "null" => astate' = astate /\ todo' = <<>>
        /\ Transition(astate, m) # "null" =>
             IF Empty(plist) THEN astate' = "unloaded" /\ todo' = <<>>
             ELSE /\ astate' = astate
                  /\ todo' = (IF astate \in {"playing", "paused"} THEN <<Posted("stop")>> ELSE <<>>)
                             \o (IF astate # "unloaded" THEN <<Posted("unload")>> ELSE <<>>)
                             \o <<Change(m, astate = "playing")>>
    BY <1>3, <2>3, Handled
  <2>5. aq' = <<>> /\ ui' = <<>> /\ ~complete'
    BY <1>1, <2>2, <2>3, <2>4 DEF Dispatched
  <2>6. todo' \in Seq(AItems) => Work' = todo'
    BY <2>5, JoinQueues DEF Work
  <2>7. <<>> \in Seq(AItems)
    OBVIOUS
  <2>8. CASE Transition(astate, m) = "null"
    <3>1. (m = "next" /\ astate = "unloaded") \/ (m = "transitioning" /\ astate # "playing")
      BY <1>1, <2>8 DEF Transition, Moves, States
    <3>2. p = plist /\ st = astate
      BY <2>1, <3>1 DEF Skips
    <3> QED BY <2>4, <2>5, <2>6, <2>7, <2>8, <3>2 DEF AwkawkAtWork, Resting
  <2>9. CASE Transition(astate, m) # "null" /\ Empty(plist)
    <3>1. astate = "unloaded"
      <4>1. ASSUME Emptying PROVE FALSE
        <5>1. Head(Work) \in {Posted("stop"), Posted("unload")}
          BY <1>4, <4>1, ShortQueues DEF Emptying, Unloading, Do
        <5>2. m \in {"stop", "unload"}
          BY <1>3, <1>4, <2>2, <5>1
        <5> QED BY <5>2 DEF Moves
      <4> QED BY <2>9, <4>1 DEF ListedInv
    <3>2. p = plist /\ st = astate
      BY <2>1, <2>9 DEF Skips
    <3> QED BY <2>4, <2>5, <2>6, <2>7, <2>9, <3>1, <3>2 DEF AwkawkAtWork, Resting
  <2>10. CASE Transition(astate, m) # "null" /\ ~Empty(plist)
    <3>1. ~(m = "next" /\ astate = "unloaded") /\ ~(m = "transitioning" /\ astate # "playing")
      BY <1>1, <2>10 DEF Transition
    <3>2. Skipped(plist, m, astate = "playing", p, st)
      BY <2>1, <2>10, <3>1 DEF Skips
    <3>3. /\ Posted("stop") \in AItems /\ Posted("unload") \in AItems
          /\ Change(m, astate = "playing") \in AItems
      BY <1>4, Items
    <3>4. \/ astate \in {"playing", "paused"} /\ todo' = <<Posted("stop"), Posted("unload"), Change(m, astate = "playing")>>
          \/ astate = "stopped" /\ todo' = <<Posted("unload"), Change(m, astate = "playing")>>
          \/ astate = "unloaded" /\ todo' = <<Change(m, astate = "playing")>>
      <4> DEFINE x == Posted("stop")
                 y == Posted("unload")
                 z == Change(m, astate = "playing")
      <4>1. x \in AItems /\ y \in AItems /\ z \in AItems
        BY <3>3
      <4>2. todo' = (IF astate \in {"playing", "paused"} THEN <<x>> ELSE <<>>)
                    \o (IF astate # "unloaded" THEN <<y>> ELSE <<>>) \o <<z>>
        BY <2>4, <2>10
      <4> HIDE DEF x, y, z
      <4>3. CASE astate \in {"playing", "paused"}
        <5>1. todo' = <<x>> \o <<y>> \o <<z>>
          BY <4>2, <4>3
        <5>2. <<x>> \o <<y>> \o <<z>> = <<x, y, z>>
          BY <4>1, JoinShort
        <5>3. todo' = <<x, y, z>>
          BY <5>1, <5>2
        <5> QED BY <4>3, <5>3 DEF x, y, z
      <4>4. CASE astate = "stopped"
        <5>1. todo' = <<>> \o <<y>> \o <<z>>
          BY <4>2, <4>4
        <5>2. todo' = <<y, z>>
          BY <4>1, <5>1, JoinShort
        <5> QED BY <4>4, <5>2 DEF x, y, z
      <4>5. CASE astate = "unloaded"
        <5>1. todo' = <<>> \o <<>> \o <<z>>
          BY <4>2, <4>5
        <5>2. todo' = <<z>>
          BY <4>1, <5>1, JoinShort
        <5> QED BY <4>5, <5>2 DEF x, y, z
      <4> QED BY <1>1, <4>3, <4>4, <4>5 DEF States
    <3>5. astate' = astate /\ plist' = plist
      BY <2>4, <2>10
    <3>6. todo' \in Seq(AItems)
      <4>1. ASSUME NEW x \in AItems, NEW y \in AItems, NEW z \in AItems
            PROVE  <<x, y, z>> \in Seq(AItems) /\ <<y, z>> \in Seq(AItems) /\ <<z>> \in Seq(AItems)
        OBVIOUS
      <4>2. /\ <<Posted("stop"), Posted("unload"), Change(m, astate = "playing")>> \in Seq(AItems)
            /\ <<Posted("unload"), Change(m, astate = "playing")>> \in Seq(AItems)
            /\ <<Change(m, astate = "playing")>> \in Seq(AItems)
        BY <3>3, <4>1
      <4> QED BY <3>4, <4>2
    <3>7. Work' = todo'
      BY <2>6, <3>6
    <3>8. (astate = "playing") \in BOOLEAN
      OBVIOUS
    <3>9. Changing(p, st)'
      BY <2>10, <3>2, <3>4, <3>5, <3>7, <3>8 DEF Changing
    <3> QED BY <2>5, <3>9 DEF AwkawkAtWork
  <2> QED BY <2>8, <2>9, <2>10
<1>10. CASE Changing(p, st)
  <2>1. PICK m \in Moves, b \in BOOLEAN :
          /\ ~Empty(plist) /\ Skipped(plist, m, b, p, st)
          /\ \/ astate \in {"playing", "paused"} /\ aq = <<Posted("stop"), Posted("unload"), Change(m, b)>>
             \/ astate = "stopped" /\ aq = <<Posted("unload"), Change(m, b)>>
             \/ astate = "unloaded" /\ aq = <<Change(m, b)>>
    BY <1>3, <1>10 DEF Changing
  <2>2. Posted("stop") \in AItems /\ Posted("unload") \in AItems /\ Change(m, b) \in AItems
    BY <1>4, Items
  <2>3. CASE astate \in {"playing", "paused"} /\ aq = <<Posted("stop"), Posted("unload"), Change(m, b)>>
    <3>1. Head(aq) = Posted("stop") /\ Tail(aq) = <<Posted("unload"), Change(m, b)>>
      BY <2>2, <2>3, ShortQueues
    <3>2. /\ plist' = plist /\ complete' = complete /\ ui' = ui /\ astate' = GraphExit(astate, "stop")
          /\ Work' = <<Posted("unload"), Change(m, b)>>
      BY <1>3, <1>4, <3>1, TakeEvent
    <3>3. astate' = "stopped"
      BY <1>1, <2>3, <3>2, Exits
    <3> QED BY <1>1, <2>1, <3>2, <3>3 DEF AwkawkAtWork, Changing
  <2>4. CASE astate = "stopped" /\ aq = <<Posted("unload"), Change(m, b)>>
    <3>1. Head(aq) = Posted("unload") /\ Tail(aq) = <<Change(m, b)>>
      BY <2>2, <2>4, ShortQueues
    <3>2. /\ plist' = plist /\ complete' = complete /\ ui' = ui /\ astate' = GraphExit(astate, "unload")
          /\ Work' = <<Change(m, b)>>
      BY <1>3, <1>4, <3>1, TakeEvent
    <3>3. astate' = "unloaded"
      BY <1>1, <2>4, <3>2, Exits
    <3> QED BY <1>1, <2>1, <3>2, <3>3 DEF AwkawkAtWork, Changing
  <2>5. CASE astate = "unloaded" /\ aq = <<Change(m, b)>>
    <3>1. Head(aq) = Change(m, b) /\ Tail(aq) = <<>>
      BY <2>2, <2>5, ShortQueues
    <3>2. Head(aq).op = "change" /\ Head(aq).arg = m /\ Head(aq).resume = b
      BY <3>1, Items
    <3>3. DoChange
      BY <3>2 DEF AwkawkThread, DoLoad, DoUnload, DoTransport, DoTrackChange, DoTrackChangeEmpty,
                  PostNext, DropEvent, Runs, RunsChange
    <3>4. /\ plist' = MoveCursor(plist, m) /\ aq' = <<>> /\ ui' = <<>> /\ ~complete' /\ astate' = "unloaded"
          /\ todo' = IF AfterEnd(plist') THEN <<>>
                     ELSE <<Posted("load")>> \o (IF b THEN <<Posted("play")>> ELSE <<>>)
      BY <1>1, <2>5, <3>1, <3>2, <3>3 DEF DoChange, Dispatched
    <3>5. Posted("load") \in AItems /\ Posted("play") \in AItems
      BY <1>4
    <3>6. /\ <<Posted("load")>> \o <<Posted("play")>> = <<Posted("load"), Posted("play")>>
          /\ <<Posted("load")>> \o <<>> = <<Posted("load")>>
      BY <3>5, JoinShort
    <3>7. plist' = p
      BY <2>1, <3>4 DEF Skipped
    <3>8. CASE AfterEnd(p)
      <4>1. todo' = <<>> /\ <<>> \in Seq(AItems)
        BY <3>4, <3>7, <3>8
      <4>2. Work' = <<>>
        BY <3>4, <4>1, JoinQueues DEF Work
      <4> QED BY <2>1, <3>4, <3>7, <3>8, <4>2 DEF AwkawkAtWork, Resting, Skipped
    <3>9. CASE ~AfterEnd(p)
      <4>1. todo' = IF b THEN <<Posted("load"), Posted("play")>> ELSE <<Posted("load")>>
        BY <3>4, <3>6, <3>7, <3>9
      <4>2. todo' \in Seq(AItems)
        BY <3>5, <4>1
      <4>3. Work' = todo'
        BY <3>4, <4>2, JoinQueues DEF Work
      <4>4. ~Empty(p)
        <5>1. WellFormed(plist)
          BY DEF IndInv, TypeOK, PlaylistTypeOK, WellFormed
        <5> QED BY <2>1, <3>4, <3>7, <5>1 DEF MoveCursor, Moves, MoveNext, MoveTransition, MovePrevious, Empty,
                    WellFormed, Playlists
      <4>5. st = IF b THEN "playing" ELSE "stopped"
        BY <2>1, <3>9 DEF Skipped
      <4>6. Loading(p, st)'
        BY <3>4, <3>7, <4>1, <4>3, <4>4, <4>5 DEF Loading, Do
      <4> QED BY <3>4, <4>6 DEF AwkawkAtWork
    <3> QED BY <3>8, <3>9
  <2> QED BY <2>1, <2>3, <2>4, <2>5
<1>11. CASE Loading(p, st)
  <2>1. CASE aq = <<Posted("load"), Posted("play")>> /\ st = "playing"
    <3>1. Head(aq) = Posted("load") /\ Tail(aq) = Do("play")
      BY <1>4, <2>1, ShortQueues DEF Do
    <3>2. /\ plist' = plist /\ complete' = complete /\ ui' = ui /\ astate' = GraphExit(astate, "load")
          /\ Work' = Do("play")
      BY <1>3, <1>4, <3>1, TakeEvent
    <3>3. astate' = "stopped"
      BY <1>1, <1>11, <3>2, Exits DEF Loading
    <3> QED BY <1>1, <1>11, <2>1, <3>2, <3>3 DEF AwkawkAtWork, Toggling, Toggled, Loading
  <2>2. CASE aq = Do("load") /\ st = "stopped"
    <3>1. GraphExit(astate, "load") = "stopped"
      BY <1>1, <1>11, Exits DEF Loading
    <3> QED BY <1>4, <1>5, <1>11, <2>2, <3>1 DEF AwkawkAtWork, Resting, Loading
  <2> QED BY <1>3, <1>11, <2>1, <2>2 DEF Loading
<1>12. CASE Unloading(p, st)
  BY <1>1, <1>12, UnloadingGoesOn DEF AwkawkAtWork
<1> QED BY <1>6, <1>7, <1>8, <1>9, <1>10, <1>11, <1>12 DEF AwkawkAtWork


\* awkawk does its part of a command of the window thread.
LEMMA AwkawkHelps ==
  ASSUME IndInv, AwkawkThread, NEW p, NEW st, WindowAtWork(p, st)
  PROVE  WindowAtWork(p, st)'
<1>1. aq \in Seq(AItems) /\ astate \in States /\ todo = <<>> /\ ~complete
  BY DEF IndInv, TypeOK, WindowAtWork
<1>2. aq # <<>>
  BY <1>1 DEF AwkawkThread, DoLoad, DoUnload, DoTransport, DoTrackChange, DoTrackChangeEmpty,
              DoChange, DropEvent, PostNext, Runs, RunsChange
<1>3. /\ \A e \in Events : /\ Posted(e) \in AItems /\ Posted(e).op = "post"
                           /\ Sent(e) \in AItems /\ Sent(e).op = "send"
      /\ {"load", "stop", "play", "pause", "unload"} \subseteq GraphEvents
      /\ {"load", "stop", "play", "pause", "unload"} \subseteq Events
  BY Items
<1>4. ASSUME NEW e \in {"load", "stop", "unload"}, aq = Do(e)
      PROVE  ui' = ui /\ ~complete' /\ todo' = <<>> /\ aq' = <<>> /\ plist' = plist /\ astate' = GraphExit(astate, e)
  <2>1. Head(aq) = Posted(e) /\ Tail(aq) = <<>>
    BY <1>3, <1>4, ShortQueues DEF Do
  <2> QED BY <1>1, <1>2, <1>3, <2>1, TakeEvent
<1>5. ASSUME NEW e \in {"stop", "unload"}, aq = <<Sent(e)>>
      PROVE  ui' = Tail(ui) /\ ~complete' /\ todo' = <<>> /\ aq' = <<>> /\ plist' = plist /\ astate' = GraphExit(astate, e)
  <2>1. Head(aq) = Sent(e) /\ Tail(aq) = <<>>
    BY <1>3, <1>5, ShortQueues
  <2> QED BY <1>1, <1>2, <1>3, <2>1, TakeEvent
<1>6. Step("wait", NoFile) \in UISteps
  BY Scripts
<1>7. CASE Replacing(p, st)
  <2>1. PICK f \in Files :
          /\ p = MoveNext(AddFile(ClearFiles(plist), f)) /\ st = "playing"
          /\ \/ /\ ui = <<Step("wait", NoFile)>> \o UnloadFor(f) /\ aq = <<Sent("stop")>>
                /\ astate \in {"playing", "paused"}
             \/ /\ ui = <<Step("wait", NoFile)>> \o ClearFor(f) /\ aq = <<Sent("unload")>>
                /\ astate = "stopped"
    BY <1>2, <1>7 DEF Replacing
  <2>2. CASE /\ ui = <<Step("wait", NoFile)>> \o UnloadFor(f) /\ aq = <<Sent("stop")>>
             /\ astate \in {"playing", "paused"}
    <3>1. ui' = UnloadFor(f)
      <4>1. Tail(ui) = UnloadFor(f)
        BY <1>6, <2>2, OpenScripts, Cons
      <4> QED BY <1>5, <2>2, <4>1
    <3>2. astate' = "stopped"
      BY <1>1, <1>5, <2>2, Exits
    <3>3. Replacing(p, st)'
      BY <1>5, <2>1, <2>2, <3>1, <3>2 DEF Replacing
    <3> QED BY <1>5, <2>2, <3>3 DEF WindowAtWork
  <2>3. CASE /\ ui = <<Step("wait", NoFile)>> \o ClearFor(f) /\ aq = <<Sent("unload")>>
             /\ astate = "stopped"
    <3>1. ui' = ClearFor(f)
      <4>1. Tail(ui) = ClearFor(f)
        BY <1>6, <2>3, OpenScripts, Cons
      <4> QED BY <1>5, <2>3, <4>1
    <3>2. astate' = "unloaded"
      BY <1>1, <1>5, <2>3, Exits
    <3>3. Replacing(p, st)'
      BY <1>5, <2>1, <2>3, <3>1, <3>2 DEF Replacing
    <3> QED BY <1>5, <2>3, <3>3 DEF WindowAtWork
  <2> QED BY <2>1, <2>2, <2>3
<1>8. CASE Adding(p, st)
  <2>1. /\ ui = PlayIt /\ ~Empty(plist) /\ p = plist /\ st = "playing"
        /\ aq = Do("load") /\ astate = "unloaded"
    BY <1>2, <1>8 DEF Adding
  <2>2. astate' = "stopped"
    BY <1>1, <1>4, <2>1, Exits
  <2>3. Adding(p, st)'
    BY <1>4, <2>1, <2>2 DEF Adding
  <2> QED BY <1>4, <2>1, <2>3 DEF WindowAtWork
<1>9. CASE Closing(p, st)
  <2>1. CASE ui = UnloadIt /\ aq = Do("stop")
    <3>1. astate' \in {"stopped", "unloaded"}
      BY <1>1, <1>4, <2>1, Exits
    <3>2. Closing(p, st)'
      BY <1>4, <1>9, <2>1, <3>1 DEF Closing
    <3> QED BY <1>4, <2>1, <3>2 DEF WindowAtWork
  <2>2. CASE ui = ClearIt /\ aq = <<Posted("stop"), Posted("unload")>>
    <3>1. Head(aq) = Posted("stop") /\ Tail(aq) = Do("unload")
      BY <1>3, <2>2, ShortQueues DEF Do
    <3>2. /\ plist' = plist /\ complete' = complete /\ ui' = ui /\ todo' = <<>> /\ aq' = Do("unload")
          /\ astate' = GraphExit(astate, "stop")
      BY <1>1, <1>2, <1>3, <3>1, TakeEvent
    <3>3. astate' \in {"stopped", "unloaded"}
      BY <1>1, <3>2, Exits
    <3>4. Closing(p, st)'
      BY <1>9, <2>2, <3>2, <3>3 DEF Closing
    <3> QED BY <1>1, <3>2, <3>4 DEF WindowAtWork
  <2>3. CASE ui = ClearIt /\ aq = Do("unload") /\ astate \in {"stopped", "unloaded"}
    <3>1. astate' = "unloaded"
      BY <1>1, <1>4, <2>3, Exits
    <3>2. Closing(p, st)'
      BY <1>4, <1>9, <2>3, <3>1 DEF Closing
    <3> QED BY <1>4, <2>3, <3>2 DEF WindowAtWork
  <2> QED BY <1>2, <1>9, <2>1, <2>2, <2>3 DEF Closing
<1> QED BY <1>7, <1>8, <1>9 DEF WindowAtWork

\* What the window thread does with the step at the head of its script.
LEMMA WindowSteps ==
  ASSUME IndInv, WindowThread, ui # <<>>
  PROVE  /\ todo' = todo /\ astate' = astate /\ complete' = complete
         /\ Head(ui).op # "wait"
         /\ Head(ui).op = "check" => /\ UNCHANGED <<aq, plist>>
                                     /\ ui' = (IF astate # "stopped" THEN <<Step("send", "stop")>> ELSE <<>>) \o Tail(ui)
         /\ Head(ui).op = "post" => /\ UNCHANGED plist /\ ui' = Tail(ui)
                                    /\ aq' = Append(aq, Posted(Head(ui).arg))
         /\ Head(ui).op = "send" => /\ UNCHANGED plist /\ ui' = <<Step("wait", NoFile)>> \o Tail(ui)
                                    /\ aq' = Append(aq, Sent(Head(ui).arg))
         /\ Head(ui).op = "clear" => aq' = aq /\ ui' = Tail(ui) /\ plist' = ClearFiles(plist)
         /\ Head(ui).op = "add" => aq' = aq /\ ui' = Tail(ui) /\ plist' = AddFile(plist, Head(ui).arg)
         /\ Head(ui).op = "next" => aq' = aq /\ ui' = Tail(ui) /\ plist' = MoveNext(plist)
<1>1. CASE UICheck
  BY <1>1 DEF UICheck, UIAt
<1>2. CASE UIPost
  BY <1>2 DEF UIPost, UIAt
<1>3. CASE UISend
  BY <1>3 DEF UISend, UIAt
<1>4. CASE UIEdit
  BY <1>4 DEF UIEdit, UIAt
<1>5. CASE UISetOnTop
  BY <1>5 DEF UISetOnTop
<1> QED BY <1>1, <1>2, <1>3, <1>4, <1>5 DEF WindowThread


\* The fields of a step.
LEMMA StepFields == \A o, a : Step(o, a).op = o /\ Step(o, a).arg = a
BY DEF Step

\* Adding a file to a list and moving on leaves a list that is not empty.
LEMMA NotEmpty ==
  ASSUME NEW q, WellFormed(q), NEW f \in Files
  PROVE  ~Empty(AddFile(q, f)) /\ (~Empty(q) => ~Empty(MoveNext(q)))
<1>1. q.files \in Seq(Files) /\ q \in Playlists
  BY DEF WellFormed, Playlists
<1>2. Append(q.files, f) # <<>>
  BY <1>1
<1>3. MoveNext(q).files = q.files
  BY <1>1 DEF MoveNext, Playlists
<1> QED BY <1>2, <1>3 DEF AddFile, Empty

\* The window thread carries a command on, up to its last step.
LEMMA WindowGoesOn ==
  ASSUME IndInv, WindowThread, NEW p, NEW st, WindowAtWork(p, st)
  PROVE  Stage(p, st)'
<1>1. aq \in Seq(AItems) /\ astate \in States /\ todo = <<>> /\ ~complete /\ plist \in Playlists
  BY DEF IndInv, TypeOK, PlaylistTypeOK, WindowAtWork
<1>2. WellFormed(plist)
  BY DEF IndInv, TypeOK, PlaylistTypeOK, WellFormed
<1>3. /\ \A e \in Events : Posted(e) \in AItems /\ Sent(e) \in AItems
      /\ {"load", "stop", "play", "pause", "unload"} \subseteq Events
  BY Items
<1>4. ASSUME NEW q \in Seq(AItems), aq' = q, ui' = <<>>, todo' = todo
      PROVE  Work' = q
  BY <1>1, <1>4, JoinQueues DEF Work
<1>5. \A e \in Events : Append(<<>>, Posted(e)) = Do(e) /\ Append(<<>>, Sent(e)) = <<Sent(e)>> /\ Do(e) \in Seq(AItems)
  <2> SUFFICES ASSUME NEW e \in Events
               PROVE  Append(<<>>, Posted(e)) = Do(e) /\ Append(<<>>, Sent(e)) = <<Sent(e)>> /\ Do(e) \in Seq(AItems)
    OBVIOUS
  <2>1. Posted(e) \in AItems /\ Sent(e) \in AItems
    BY <1>3
  <2> QED BY <2>1, AppendShort DEF Do
<1>6. ASSUME NEW d \in Events, NEW e \in Events
      PROVE  /\ Append(Do(d), Posted(e)) = <<Posted(d), Posted(e)>>
             /\ <<Posted(d), Posted(e)>> \in Seq(AItems)
  <2>1. Posted(d) \in AItems /\ Posted(e) \in AItems
    BY <1>3
  <2> QED BY <2>1, AppendShort DEF Do
<1>7. CASE Replacing(p, st)
  <2>1. PICK f \in Files :
          /\ p = MoveNext(AddFile(ClearFiles(plist), f)) /\ st = "playing"
          /\ \/ /\ ui = <<Step("check", NoFile)>> \o UnloadFor(f) /\ aq = <<>>
                /\ astate # "unloaded"
             \/ /\ ui = <<Step("send", "stop")>> \o UnloadFor(f) /\ aq = <<>>
                /\ astate \in {"playing", "paused"}
             \/ /\ ui = <<Step("wait", NoFile)>> \o UnloadFor(f) /\ aq = <<Sent("stop")>>
                /\ astate \in {"playing", "paused"}
             \/ ui = UnloadFor(f) /\ aq = <<>> /\ astate = "stopped"
             \/ /\ ui = <<Step("wait", NoFile)>> \o ClearFor(f) /\ aq = <<Sent("unload")>>
                /\ astate = "stopped"
             \/ ui = ClearFor(f) /\ aq = <<>> /\ astate = "unloaded"
    BY <1>7 DEF Replacing
  <2>2. /\ Step("check", NoFile) \in UISteps /\ Step("send", "stop") \in UISteps /\ Step("wait", NoFile) \in UISteps
        /\ UnloadFor(f) \in Seq(UISteps) /\ ClearFor(f) \in Seq(UISteps)
    BY Scripts, OpenScripts DEF UISteps, Step
  <2>3. ASSUME NEW x \in UISteps, NEW q \in Seq(UISteps), ui = <<x>> \o q
        PROVE  ui # <<>> /\ Head(ui) = x /\ Tail(ui) = q
    BY <2>3, Cons
  <2>4. CASE /\ ui = <<Step("check", NoFile)>> \o UnloadFor(f) /\ aq = <<>>
             /\ astate # "unloaded"
    <3>1. ui # <<>> /\ Head(ui).op = "check" /\ Tail(ui) = UnloadFor(f)
      BY <2>2, <2>3, <2>4, StepFields
    <3>2. /\ UNCHANGED <<aq, plist, todo, astate, complete>>
          /\ ui' = (IF astate # "stopped" THEN <<Step("send", "stop")>> ELSE <<>>) \o UnloadFor(f)
      BY <3>1, WindowSteps
    <3>3. CASE astate = "stopped"
      <4>1. ui' = UnloadFor(f)
        <5>1. ui' = <<>> \o UnloadFor(f)
          BY <3>2, <3>3
        <5> QED BY <2>2, <5>1, JoinQueues
      <4>2. Replacing(p, st)'
        BY <2>1, <2>4, <3>2, <3>3, <4>1 DEF Replacing
      <4> QED BY <1>1, <3>2, <4>2 DEF WindowAtWork, Stage
    <3>4. CASE astate \in {"playing", "paused"}
      <4>1. ui' = <<Step("send", "stop")>> \o UnloadFor(f)
        BY <3>2, <3>4
      <4>2. Replacing(p, st)'
        BY <2>1, <2>4, <3>2, <3>4, <4>1 DEF Replacing
      <4> QED BY <1>1, <3>2, <4>2 DEF WindowAtWork, Stage
    <3> QED BY <1>1, <2>4, <3>3, <3>4 DEF States
  <2>5. CASE /\ ui = <<Step("send", "stop")>> \o UnloadFor(f) /\ aq = <<>>
             /\ astate \in {"playing", "paused"}
    <3>1. ui # <<>> /\ Head(ui).op = "send" /\ Head(ui).arg = "stop" /\ Tail(ui) = UnloadFor(f)
      BY <2>2, <2>3, <2>5, StepFields
    <3>2. /\ UNCHANGED <<plist, todo, astate, complete>>
          /\ ui' = <<Step("wait", NoFile)>> \o UnloadFor(f) /\ aq' = Append(aq, Sent("stop"))
      BY <3>1, WindowSteps
    <3>3. aq' = <<Sent("stop")>>
      BY <1>3, <1>5, <2>5, <3>2
    <3>4. Replacing(p, st)'
      BY <2>1, <2>5, <3>2, <3>3 DEF Replacing
    <3> QED BY <1>1, <3>2, <3>4 DEF WindowAtWork, Stage
  <2>6. CASE ui = <<Step("wait", NoFile)>> \o UnloadFor(f) \/ ui = <<Step("wait", NoFile)>> \o ClearFor(f)
    <3>1. ui # <<>> /\ Head(ui).op = "wait"
      BY <2>2, <2>3, <2>6, StepFields
    <3> QED BY <3>1, WindowSteps
  <2>7. CASE ui = UnloadFor(f) /\ aq = <<>> /\ astate = "stopped"
    <3>1. ui # <<>> /\ Head(ui).op = "send" /\ Head(ui).arg = "unload" /\ Tail(ui) = ClearFor(f)
      BY <2>7, OpenScripts, StepFields
    <3>2. /\ UNCHANGED <<plist, todo, astate, complete>>
          /\ ui' = <<Step("wait", NoFile)>> \o ClearFor(f) /\ aq' = Append(aq, Sent("unload"))
      BY <3>1, WindowSteps
    <3>3. aq' = <<Sent("unload")>>
      BY <1>3, <1>5, <2>7, <3>2
    <3>4. Replacing(p, st)'
      BY <2>1, <2>7, <3>2, <3>3 DEF Replacing
    <3> QED BY <1>1, <3>2, <3>4 DEF WindowAtWork, Stage
  <2>8. CASE ui = ClearFor(f) /\ aq = <<>> /\ astate = "unloaded"
    <3>1. ui # <<>> /\ Head(ui).op = "clear" /\ Tail(ui) = OpenScript(f)
      BY <2>8, OpenScripts, StepFields
    <3>2. /\ UNCHANGED <<aq, todo, astate, complete>>
          /\ ui' = OpenScript(f) /\ plist' = ClearFiles(plist)
      BY <3>1, WindowSteps
    <3>3. Adding(p, st)'
      BY <2>1, <2>8, <3>2 DEF Adding
    <3> QED BY <1>1, <3>2, <3>3 DEF WindowAtWork, Stage
  <2> QED BY <2>1, <2>4, <2>5, <2>6, <2>7, <2>8
<1>8. CASE Adding(p, st)
  <2>1. ASSUME NEW f \in Files, ui = OpenScript(f), p = MoveNext(AddFile(plist, f)), aq = <<>>, astate = "unloaded"
        PROVE  Stage(p, st)'
    <3>1. ui # <<>> /\ Head(ui).op = "add" /\ Head(ui).arg = f /\ Tail(ui) = MoveToIt
      BY <2>1, OpenScripts, StepFields
    <3>2. /\ UNCHANGED <<aq, todo, astate, complete>>
          /\ ui' = MoveToIt /\ plist' = AddFile(plist, f)
      BY <3>1, WindowSteps
    <3>3. ~Empty(plist')
      BY <1>2, <3>2, NotEmpty
    <3>4. Adding(p, st)'
      BY <1>8, <2>1, <3>2, <3>3 DEF Adding
    <3> QED BY <1>1, <3>2, <3>4 DEF WindowAtWork, Stage
  <2>2. CASE ui = MoveToIt /\ ~Empty(plist) /\ p = MoveNext(plist) /\ aq = <<>> /\ astate = "unloaded"
    <3>1. ui # <<>> /\ Head(ui).op = "next" /\ Tail(ui) = LoadIt
      BY <2>2, LastSteps, StepFields
    <3>2. /\ UNCHANGED <<aq, todo, astate, complete>>
          /\ ui' = LoadIt /\ plist' = MoveNext(plist)
      BY <3>1, WindowSteps
    <3>3. ~Empty(plist')
      BY <1>1, <2>2, <3>2 DEF MoveNext, Empty, Playlists
    <3>4. Adding(p, st)'
      BY <1>8, <2>2, <3>2, <3>3 DEF Adding
    <3> QED BY <1>1, <3>2, <3>4 DEF WindowAtWork, Stage
  <2>3. CASE ui = LoadIt /\ ~Empty(plist) /\ p = plist /\ aq = <<>> /\ astate = "unloaded"
    <3>1. ui # <<>> /\ Head(ui).op = "post" /\ Head(ui).arg = "load" /\ Tail(ui) = PlayIt
      BY <2>3, LastSteps, StepFields
    <3>2. /\ UNCHANGED <<plist, todo, astate, complete>>
          /\ ui' = PlayIt /\ aq' = Append(aq, Posted("load"))
      BY <3>1, WindowSteps
    <3>3. aq' = Do("load")
      BY <1>3, <1>5, <2>3, <3>2
    <3>4. Adding(p, st)'
      BY <1>8, <2>3, <3>2, <3>3 DEF Adding
    <3> QED BY <1>1, <3>2, <3>4 DEF WindowAtWork, Stage
  <2>4. CASE /\ ui = PlayIt /\ ~Empty(plist) /\ p = plist
             /\ \/ aq = Do("load") /\ astate = "unloaded"
                \/ aq = <<>> /\ astate = "stopped"
    <3>1. ui # <<>> /\ Head(ui).op = "post" /\ Head(ui).arg = "play" /\ Tail(ui) = <<>>
      BY <2>4, LastSteps, StepFields
    <3>2. /\ UNCHANGED <<plist, todo, astate, complete>>
          /\ ui' = <<>> /\ aq' = Append(aq, Posted("play"))
      BY <3>1, WindowSteps
    <3>3. CASE aq = Do("load") /\ astate = "unloaded"
      <4>1. aq' = <<Posted("load"), Posted("play")>> /\ <<Posted("load"), Posted("play")>> \in Seq(AItems)
        BY <1>3, <1>6, <3>2, <3>3
      <4>2. Work' = <<Posted("load"), Posted("play")>>
        BY <1>4, <3>2, <4>1
      <4>3. Loading(p, st)'
        BY <1>8, <2>4, <3>2, <3>3, <4>2 DEF Loading, Adding
      <4> QED BY <1>1, <3>2, <4>3 DEF AwkawkAtWork, Stage
    <3>4. CASE aq = <<>> /\ astate = "stopped"
      <4>1. aq' = Do("play") /\ Do("play") \in Seq(AItems)
        BY <1>3, <1>5, <3>2, <3>4
      <4>2. Work' = Do("play")
        BY <1>4, <3>2, <4>1
      <4>3. Toggling(p, st)'
        BY <1>8, <2>4, <3>2, <3>4, <4>2 DEF Toggling, Toggled, Adding
      <4> QED BY <1>1, <3>2, <4>3 DEF AwkawkAtWork, Stage
    <3> QED BY <2>4, <3>3, <3>4
  <2> QED BY <1>8, <2>1, <2>2, <2>3, <2>4 DEF Adding
<1>9. CASE Closing(p, st)
  <2>1. p = ClearFiles(plist) /\ st = "unloaded"
    BY <1>9 DEF Closing
  <2>2. CASE ui = CloseIt /\ aq = <<>>
    <3>1. ui # <<>> /\ Head(ui).op = "post" /\ Head(ui).arg = "stop" /\ Tail(ui) = UnloadIt
      BY <2>2, CloseSteps, StepFields
    <3>2. /\ UNCHANGED <<plist, todo, astate, complete>>
          /\ ui' = UnloadIt /\ aq' = Append(aq, Posted("stop"))
      BY <3>1, WindowSteps
    <3>3. aq' = Do("stop")
      BY <1>3, <1>5, <2>2, <3>2
    <3>4. Closing(p, st)'
      BY <2>1, <3>2, <3>3 DEF Closing
    <3> QED BY <1>1, <3>2, <3>4 DEF WindowAtWork, Stage
  <2>3. CASE ui = UnloadIt /\ (aq = Do("stop") \/ (aq = <<>> /\ astate \in {"stopped", "unloaded"}))
    <3>1. ui # <<>> /\ Head(ui).op = "post" /\ Head(ui).arg = "unload" /\ Tail(ui) = ClearIt
      BY <2>3, CloseSteps, StepFields
    <3>2. /\ UNCHANGED <<plist, todo, astate, complete>>
          /\ ui' = ClearIt /\ aq' = Append(aq, Posted("unload"))
      BY <3>1, WindowSteps
    <3>3. \/ aq' = <<Posted("stop"), Posted("unload")>>
          \/ aq' = Do("unload") /\ astate \in {"stopped", "unloaded"}
      <4>1. CASE aq = Do("stop")
        BY <1>3, <1>6, <3>2, <4>1
      <4>2. CASE aq = <<>> /\ astate \in {"stopped", "unloaded"}
        BY <1>3, <1>5, <3>2, <4>2
      <4> QED BY <2>3, <4>1, <4>2
    <3>4. Closing(p, st)'
      BY <2>1, <3>2, <3>3 DEF Closing
    <3> QED BY <1>1, <3>2, <3>4 DEF WindowAtWork, Stage
  <2>4. CASE /\ ui = ClearIt
             /\ \/ aq = <<Posted("stop"), Posted("unload")>>
                \/ aq = Do("unload") /\ astate \in {"stopped", "unloaded"}
                \/ aq = <<>> /\ astate = "unloaded"
    <3>1. ui # <<>> /\ Head(ui).op = "clear" /\ Tail(ui) = <<>>
      BY <2>4, CloseSteps, StepFields
    <3>2. /\ UNCHANGED <<aq, todo, astate, complete>>
          /\ ui' = <<>> /\ plist' = p
      BY <2>1, <3>1, WindowSteps
    <3>3. Work' = aq
      BY <1>1, <1>4, <3>2
    <3>4. Unloading(p, st)' \/ Resting(p, st)'
      <4>1. CASE aq = <<Posted("stop"), Posted("unload")>>
        BY <2>1, <3>2, <3>3, <4>1 DEF Unloading
      <4>2. CASE aq = Do("unload") /\ astate \in {"stopped", "unloaded"}
        BY <2>1, <3>2, <3>3, <4>2 DEF Unloading
      <4>3. CASE aq = <<>> /\ astate = "unloaded"
        BY <2>1, <3>2, <3>3, <4>3 DEF Resting
      <4> QED BY <2>4, <4>1, <4>2, <4>3
    <3> QED BY <1>1, <3>2, <3>4 DEF AwkawkAtWork, Stage
  <2> QED BY <1>9, <2>2, <2>3, <2>4 DEF Closing
<1> QED BY <1>7, <1>8, <1>9 DEF WindowAtWork


\* Nothing is pending when every queue is empty.
LEMMA IdleEmpty ==
  ASSUME IndInv
  PROVE  Idle <=> /\ ui = <<>> /\ aq = <<>> /\ todo = <<>> /\ dq = <<>> /\ topq = <<>>
                  /\ ~complete
<1>1. aq \in Seq(AItems) /\ todo \in Seq(AItems) /\ dq \in Seq(DItems) /\ topq \in Seq(BOOLEAN)
  BY DEF IndInv, TypeOK
<1>2. /\ Len(aq) \in Nat /\ Len(todo) \in Nat /\ Len(dq) \in Nat /\ Len(topq) \in Nat
      /\ (aq = <<>> <=> Len(aq) = 0) /\ (todo = <<>> <=> Len(todo) = 0)
      /\ (dq = <<>> <=> Len(dq) = 0) /\ (topq = <<>> <=> Len(topq) = 0)
  <2>1. Len(aq) \in Nat /\ Len(todo) \in Nat /\ Len(dq) \in Nat /\ Len(topq) \in Nat
    BY <1>1
  <2>2. (aq = <<>> <=> Len(aq) = 0) /\ (todo = <<>> <=> Len(todo) = 0)
    BY <1>1, EmptyByLength
  <2>3. dq = <<>> <=> Len(dq) = 0
    BY <1>1, EmptyByLength
  <2>4. topq = <<>> <=> Len(topq) = 0
    BY <1>1, EmptyByLength
  <2> QED BY <2>1, <2>2, <2>3, <2>4
<1>3. Idle <=> /\ Len(aq) = 0 /\ Len(todo) = 0 /\ Len(dq) = 0 /\ Len(topq) = 0
               /\ ui = <<>> /\ ~complete
  <2>1. CASE ui = <<>> /\ ~complete
    BY <1>2, <2>1 DEF Idle, Pending
  <2>2. CASE ~(ui = <<>> /\ ~complete)
    BY <1>2, <2>2 DEF Idle, Pending
  <2> QED BY <2>1, <2>2
<1> QED BY <1>2, <1>3

\* What arrives without overlapping anything arrives when nothing is pending.
LEMMA ArrivesWhenIdle ==
  ASSUME User \/ TrackEnds, ~overlapped'
  PROVE  Idle
<1>1. Arrives
  <2>1. User => Arrives
    BY DEF User, Press, SelectMode, OpenFile, CloseFile
  <2> QED BY <2>1 DEF TrackEnds
<1> QED BY <1>1 DEF Arrives

\* Once a command has overlapped another, it has.
LEMMA OverlapStays ==
  ASSUME [Next]_vars, overlapped
  PROVE  overlapped'
<1>1. CASE User \/ TrackEnds
  BY <1>1 DEF User, Press, SelectMode, OpenFile, CloseFile, TrackEnds, Arrives
<1>2. CASE WindowThread \/ MediaEvent \/ UNCHANGED vars
  BY <1>2 DEF WindowThread, UICheck, UIPost, UISend, UIEdit, UISetOnTop, MediaEvent, vars
<1>3. CASE AwkawkThread
  BY <1>3 DEF AwkawkThread, DoLoad, DoUnload, DoTransport, DoTrackChange, DoTrackChangeEmpty,
              DoChange, PostNext, DropEvent
<1>4. CASE GraphThread
  BY <1>4 DEF GraphThread, GraphLoad, GraphUnload, GraphTransport, GraphFails, GraphDrops
<1> QED BY <1>1, <1>2, <1>3, <1>4 DEF Next

\* Every track change has its end.
LEMMA SkipEnds ==
  ASSUME NEW p0, NEW st0, NEW m
  PROVE  \E p, st : Skips(p0, st0, m, p, st)
<1>1. CASE Empty(p0) \/ (m = "next" /\ st0 = "unloaded") \/ (m = "transitioning" /\ st0 # "playing")
  BY <1>1 DEF Skips
<1>2. CASE ~(Empty(p0) \/ (m = "next" /\ st0 = "unloaded") \/ (m = "transitioning" /\ st0 # "playing"))
  <2> DEFINE p == MoveCursor(p0, m)
             st == IF AfterEnd(p) THEN "unloaded" ELSE IF st0 = "playing" THEN "playing" ELSE "stopped"
  <2>1. Skipped(p0, m, st0 = "playing", p, st)
    BY DEF Skipped
  <2> QED BY <1>2, <2>1 DEF Skips
<1> QED BY <1>1, <1>2

\* A command starts when nothing is pending, and what it will come to in the
\* end is known then.
LEMMA CommandStarts ==
  ASSUME IndInv, Idle, User \/ TrackEnds
  PROVE  \E p, st : Stage(p, st)' /\ Legal(plist, astate, p, st)
<1>1. /\ ui = <<>> /\ aq = <<>> /\ todo = <<>> /\ ~complete
      /\ astate \in States
  BY IdleEmpty DEF IndInv, TypeOK
<1>2. /\ \A e \in Events : Posted(e) \in AItems
      /\ {"play", "pause", "stop", "next", "previous"} \subseteq Events
      /\ Moves \subseteq Events
  BY Items DEF Moves
<1>3. ASSUME NEW e \in {"play", "pause", "stop", "next", "previous"}, Press(e)
      PROVE  \E p, st : Stage(p, st)' /\ Legal(plist, astate, p, st)
  <2>1. aq' = Append(<<>>, Posted(e)) /\ UNCHANGED <<plist, ui, todo, astate, complete>>
    BY <1>1, <1>3 DEF Press
  <2>2. Posted(e) \in AItems
    BY <1>2
  <2>3. aq' = Do(e) /\ Do(e) \in Seq(AItems)
    BY <2>1, <2>2, AppendShort DEF Do
  <2>4. Work' = Do(e)
    BY <1>1, <2>1, <2>3, JoinQueues DEF Work
  <2>5. CASE e \in {"play", "pause"}
    <3>1. Toggling(plist, Toggled(astate))'
      BY <2>1, <2>4, <2>5 DEF Toggling
    <3>2. Stage(plist, Toggled(astate))'
      BY <1>1, <2>1, <3>1 DEF Stage, AwkawkAtWork
    <3>3. plist' = plist /\ astate' = astate
      BY <2>1
    <3>4. Legal(plist, astate, plist, Toggled(astate))
      BY DEF Legal
    <3> QED BY <3>2, <3>3, <3>4
  <2>6. CASE e = "stop"
    <3>1. Halting(plist, Halted(astate))'
      BY <2>1, <2>4, <2>6 DEF Halting
    <3>2. Stage(plist, Halted(astate))'
      BY <1>1, <2>1, <3>1 DEF Stage, AwkawkAtWork
    <3>3. plist' = plist /\ astate' = astate
      BY <2>1
    <3>4. Legal(plist, astate, plist, Halted(astate))
      BY DEF Legal
    <3> QED BY <3>2, <3>3, <3>4
  <2>7. CASE e \in {"next", "previous"}
    <3>1. PICK p, st : Skips(plist, astate, e, p, st)
      BY SkipEnds
    <3>2. e \in Moves
      BY <2>7 DEF Moves
    <3>3. Skipping(p, st)'
      BY <2>1, <2>4, <3>1, <3>2 DEF Skipping
    <3>4. Stage(p, st)'
      BY <1>1, <2>1, <3>3 DEF Stage, AwkawkAtWork
    <3>5. Legal(plist, astate, p, st)
      BY <3>1, <3>2 DEF Legal
    <3> QED BY <3>4, <3>5
  <2> QED BY <2>5, <2>6, <2>7
<1>4. ASSUME NEW m \in UserModes, SelectMode(m)
      PROVE  \E p, st : Stage(p, st)' /\ Legal(plist, astate, p, st)
  <2> DEFINE q == SetPlaymode(plist, m)
             s == astate
  <2>1. plist' = q /\ UNCHANGED <<ui, aq, todo, astate, complete>>
    BY <1>4 DEF SelectMode
  <2>2. Legal(plist, astate, q, s)
    BY DEF Legal
  <2>3. <<>> \in Seq(AItems)
    OBVIOUS
  <2>4. aq' = <<>> /\ todo' = <<>>
    BY <1>1, <2>1
  <2>5. Work' = <<>>
    BY <2>3, <2>4, JoinQueues DEF Work
  <2> HIDE DEF q
  <2>6. s = astate'
    BY <2>1
  <2> HIDE DEF s
  <2>7. Work' = <<>> /\ q = plist' /\ s = astate' /\ ui' = <<>> /\ ~complete'
    BY <1>1, <2>1, <2>5, <2>6
  <2>8. PICK p, st : p = q /\ st = s
    OBVIOUS
  <2>9. Stage(p, st)'
    BY <2>7, <2>8 DEF Stage, AwkawkAtWork, Resting
  <2> QED BY <2>2, <2>8, <2>9
<1>5. ASSUME NEW f \in Files, OpenFile(f)
      PROVE  \E p, st : Stage(p, st)' /\ Legal(plist, astate, p, st)
  <2>1. UNCHANGED <<plist, aq, todo, astate, complete>>
    BY <1>5 DEF OpenFile
  <2>2. PICK p : p = MoveNext(AddFile(IF astate = "unloaded" THEN plist ELSE ClearFiles(plist), f))
    OBVIOUS
  <2>3. CASE astate = "unloaded"
    <3>1. ui' = OpenScript(f)
      BY <1>5, <2>3 DEF OpenFile
    <3>2. p = MoveNext(AddFile(plist, f))
      BY <2>2, <2>3
    <3>3. Adding(p, "playing")'
      BY <1>1, <2>1, <2>3, <3>1, <3>2 DEF Adding
    <3>4. Stage(p, "playing")'
      BY <1>1, <2>1, <3>3 DEF Stage, WindowAtWork
    <3> QED BY <2>2, <3>4 DEF Legal
  <2>4. CASE astate # "unloaded"
    <3>1. ui' = <<Step("check", NoFile)>> \o UnloadFor(f)
      BY <1>5, <2>4, OpenScripts DEF OpenFile
    <3>2. p = MoveNext(AddFile(ClearFiles(plist), f))
      BY <2>2, <2>4
    <3>3. Replacing(p, "playing")'
      BY <1>1, <2>1, <2>4, <3>1, <3>2 DEF Replacing
    <3>4. Stage(p, "playing")'
      BY <1>1, <2>1, <3>3 DEF Stage, WindowAtWork
    <3> QED BY <2>2, <3>4 DEF Legal
  <2> QED BY <2>3, <2>4
<1>6. ASSUME CloseFile
      PROVE  \E p, st : Stage(p, st)' /\ Legal(plist, astate, p, st)
  <2>1. UNCHANGED <<plist, aq, todo, astate, complete>> /\ ui' = CloseIt
    BY <1>6 DEF CloseFile, CloseIt
  <2>2. PICK p : p = ClearFiles(plist)
    OBVIOUS
  <2>3. Closing(p, "unloaded")'
    BY <1>1, <2>1, <2>2 DEF Closing
  <2>4. Stage(p, "unloaded")'
    BY <1>1, <2>1, <2>3 DEF Stage, WindowAtWork
  <2> QED BY <2>2, <2>4 DEF Legal
<1>7. ASSUME TrackEnds
      PROVE  \E p, st : Stage(p, st)' /\ Legal(plist, astate, p, st)
  <2>1. UNCHANGED <<plist, ui, aq, todo, astate>> /\ complete'
    BY <1>7 DEF TrackEnds
  <2>2. PICK p, st : Skips(plist, astate, "transitioning", p, st)
    BY SkipEnds
  <2>3. <<>> \in Seq(AItems)
    OBVIOUS
  <2>4. Work' = <<>>
    BY <1>1, <2>1, <2>3, JoinQueues DEF Work
  <2>5. Stage(p, st)'
    BY <1>1, <2>1, <2>2, <2>4 DEF Stage, TrackOver
  <2> QED BY <2>2, <2>5 DEF Legal, Moves
<1> QED BY <1>3, <1>4, <1>5, <1>6, <1>7 DEF User

\* The media event thread posts the end of the track.
LEMMA MediaGoesOn ==
  ASSUME IndInv, MediaEvent, NEW p, NEW st, Stage(p, st)
  PROVE  Stage(p, st)'
<1>1. complete /\ ~complete' /\ UNCHANGED <<plist, ui, todo, astate>> /\ aq' = Append(aq, Posted("transitioning"))
  BY DEF MediaEvent
<1>2. TrackOver(p, st)
  BY <1>1 DEF Stage, AwkawkAtWork, WindowAtWork
<1>3. aq \in Seq(AItems) /\ todo \in Seq(AItems)
  BY DEF IndInv, TypeOK
<1>4. aq = <<>> /\ todo = <<>>
  BY <1>2, <1>3, JoinQueues DEF TrackOver, Work
<1>5. Posted("transitioning") \in AItems /\ "transitioning" \in Moves
  BY Items DEF Moves
<1>6. aq' = Do("transitioning") /\ Do("transitioning") \in Seq(AItems)
  BY <1>1, <1>4, <1>5, AppendShort DEF Do
<1>7. Work' = Do("transitioning")
  BY <1>1, <1>4, <1>6, JoinQueues DEF Work
<1>8. Skipping(p, st)'
  BY <1>1, <1>2, <1>5, <1>7 DEF Skipping, TrackOver
<1> QED BY <1>1, <1>2, <1>8 DEF Stage, AwkawkAtWork, TrackOver

\* What the graph does changes neither the playlist nor awkawk's work.
LEMMA GraphLeaves ==
  ASSUME GraphThread
  PROVE  UNCHANGED <<plist, ui, aq, todo, astate, scene, complete>>
BY DEF GraphThread, GraphLoad, GraphUnload, GraphTransport, GraphFails, GraphDrops

\* What a stage is made of.
LEMMA StageKept ==
  ASSUME UNCHANGED <<plist, ui, aq, todo, astate, complete>>, NEW p, NEW st, Stage(p, st)
  PROVE  Stage(p, st)'
<1>1. Work' = Work
  BY DEF Work
<1>2. CASE AwkawkAtWork(p, st)
  <2>1. AwkawkAtWork(p, st)'
    BY <1>1, <1>2
    DEF AwkawkAtWork, Resting, Toggling, Halting, Skipping, Changing, Loading, Unloading
  <2> QED BY <2>1 DEF Stage
<1>3. CASE WindowAtWork(p, st)
  <2>1. CASE Replacing(p, st)
    <3>1. Replacing(p, st)'
      BY <2>1 DEF Replacing
    <3> QED BY <1>3, <3>1 DEF Stage, WindowAtWork
  <2>2. CASE Adding(p, st)
    <3>1. Adding(p, st)'
      BY <2>2 DEF Adding
    <3> QED BY <1>3, <3>1 DEF Stage, WindowAtWork
  <2>3. CASE Closing(p, st)
    <3>1. Closing(p, st)'
      BY <2>3 DEF Closing
    <3> QED BY <1>3, <3>1 DEF Stage, WindowAtWork
  <2> QED BY <1>3, <2>1, <2>2, <2>3 DEF WindowAtWork
<1>4. CASE TrackOver(p, st)
  BY <1>1, <1>4 DEF Stage, TrackOver
<1> QED BY <1>2, <1>3, <1>4 DEF Stage

\* As long as nothing overlaps, each step carries the current command on or,
\* with nothing pending, starts one.
LEMMA OneAtATime ==
  ASSUME IndInv, ListedInv, ~overlapped', [Next]_vars, NEW p, NEW st, Stage(p, st)
  PROVE  \/ Stage(p, st)'
         \/ Idle /\ \E q, s : Stage(q, s)' /\ Legal(plist, astate, q, s)
<1>1. CASE User \/ TrackEnds
  BY <1>1, ArrivesWhenIdle, CommandStarts
<1>2. CASE WindowThread
  <2>1. CASE UISetOnTop
    BY <2>1, StageKept DEF UISetOnTop
  <2>2. CASE ~UISetOnTop
    <3>1. ui # <<>>
      BY <1>2, <2>2 DEF WindowThread, UICheck, UIPost, UISend, UIEdit, UIAt
    <3>2. WindowAtWork(p, st)
      BY <3>1 DEF Stage, AwkawkAtWork, TrackOver
    <3> QED BY <1>2, <3>2, WindowGoesOn
  <2> QED BY <2>1, <2>2
<1>3. CASE AwkawkThread
  <2>1. ~TrackOver(p, st)
    <3>1. aq \in Seq(AItems) /\ todo \in Seq(AItems)
      BY DEF IndInv, TypeOK
    <3>2. aq # <<>> \/ todo # <<>>
      BY <1>3 DEF AwkawkThread, DoLoad, DoUnload, DoTransport, DoTrackChange, DoTrackChangeEmpty,
                  DoChange, DropEvent, PostNext, Runs, RunsChange
    <3> QED BY <3>1, <3>2, JoinQueues DEF TrackOver, Work
  <2> QED BY <1>3, <2>1, AwkawkGoesOn, AwkawkHelps DEF Stage
<1>4. CASE GraphThread
  BY <1>4, GraphLeaves, StageKept
<1>5. CASE MediaEvent
  BY <1>5, MediaGoesOn
<1>6. CASE UNCHANGED vars
  BY <1>6, StageKept DEF vars
<1> QED BY <1>1, <1>2, <1>3, <1>4, <1>5, <1>6 DEF Next


\* Where the window thread clears the list, or awkawk loads a file.
LEMMA Edits ==
  ASSUME IndInv, NEW p, NEW st, Stage(p, st)
  PROVE  /\ UIAt("clear") => /\ todo = <<>> /\ ~complete
                             /\ \/ astate = "unloaded" /\ aq = <<>>
                                \/ /\ Tail(ui) = <<>>
                                   /\ \/ aq = <<Posted("stop"), Posted("unload")>>
                                      \/ aq = Do("unload") /\ astate \in {"stopped", "unloaded"}
                                      \/ aq = <<>> /\ astate = "unloaded"
         /\ UIAt("add") \/ UIAt("next") => todo = <<>> /\ aq = <<>> /\ astate = "unloaded" /\ ~complete
         /\ (todo = <<>> /\ aq # <<>> /\ Head(aq).arg = "load") =>
              /\ ~Empty(plist) /\ astate = "unloaded" /\ ~complete
              /\ \/ ui = PlayIt /\ Tail(aq) = <<>>
                 \/ ui = <<>> /\ Tail(aq) \in {<<>>, Do("play")}
<1>1. /\ \A e \in Events : /\ Posted(e) \in AItems /\ Posted(e).arg = e
                           /\ Sent(e) \in AItems /\ Sent(e).arg = e
      /\ {"load", "stop", "play", "pause", "unload"} \subseteq Events
      /\ \A m \in Moves, b \in BOOLEAN : Change(m, b) \in AItems /\ Change(m, b).arg = m
      /\ Moves \subseteq Events /\ "load" \notin Moves
  BY Items DEF Moves
<1>2. aq \in Seq(AItems) /\ todo \in Seq(AItems)
  BY DEF IndInv, TypeOK
<1>3. CASE AwkawkAtWork(p, st)
  <2>1. ui = <<>> /\ ~complete
    BY <1>3 DEF AwkawkAtWork
  <2>2. ASSUME todo = <<>>, aq # <<>>, Head(aq).arg = "load"
        PROVE  ~Empty(plist) /\ astate = "unloaded" /\ Tail(aq) \in {<<>>, Do("play")}
    <3>1. Work = aq
      BY <1>2, <2>2, JoinQueues DEF Work
    <3>2. ASSUME NEW x \in AItems, x.arg # "load", Head(aq) = x PROVE FALSE
      BY <2>2, <3>2
    <3>3. CASE Resting(p, st)
      BY <2>2, <3>1, <3>3 DEF Resting
    <3>4. CASE Toggling(p, st)
      <4>1. Head(aq) \in {Posted("play"), Posted("pause")}
        BY <1>1, <3>1, <3>4, ShortQueues DEF Toggling, Do
      <4> QED BY <1>1, <3>2, <4>1
    <3>5. CASE Halting(p, st)
      <4>1. Head(aq) = Posted("stop")
        BY <1>1, <3>1, <3>5, ShortQueues DEF Halting, Do
      <4> QED BY <1>1, <3>2, <4>1
    <3>6. CASE Skipping(p, st)
      <4>1. PICK m \in Moves : aq = <<Posted(m)>>
        BY <3>1, <3>6 DEF Skipping, Do
      <4>2. Head(aq) = Posted(m)
        BY <1>1, <4>1, ShortQueues
      <4> QED BY <1>1, <3>2, <4>2
    <3>7. CASE Changing(p, st)
      <4>1. PICK m \in Moves, b \in BOOLEAN :
              \/ aq = <<Posted("stop"), Posted("unload"), Change(m, b)>>
              \/ aq = <<Posted("unload"), Change(m, b)>>
              \/ aq = <<Change(m, b)>>
        BY <3>1, <3>7 DEF Changing
      <4>2. Head(aq) \in {Posted("stop"), Posted("unload"), Change(m, b)}
        BY <1>1, <4>1, ShortQueues
      <4> QED BY <1>1, <3>2, <4>2
    <3>8. CASE Loading(p, st)
      <4>1. \/ aq = <<Posted("load"), Posted("play")>>
            \/ aq = Do("load")
        BY <3>1, <3>8 DEF Loading
      <4>2. Tail(aq) \in {<<>>, Do("play")}
        <5>1. CASE aq = <<Posted("load"), Posted("play")>>
          <6>1. Tail(aq) = <<Posted("play")>>
            BY <1>1, <5>1, ShortQueues
          <6> QED BY <6>1 DEF Do
        <5>2. CASE aq = Do("load")
          BY <1>1, <5>2, ShortQueues DEF Do
        <5> QED BY <4>1, <5>1, <5>2
      <4> QED BY <3>8, <4>2 DEF Loading
    <3>9. CASE Unloading(p, st)
      <4>1. Head(aq) \in {Posted("stop"), Posted("unload")}
        BY <1>1, <3>1, <3>9, ShortQueues DEF Unloading, Do
      <4> QED BY <1>1, <3>2, <4>1
    <3> QED BY <1>3, <3>3, <3>4, <3>5, <3>6, <3>7, <3>8, <3>9 DEF AwkawkAtWork
  <2> QED BY <2>1, <2>2 DEF UIAt
<1>4. CASE TrackOver(p, st)
  <2>1. ui = <<>> /\ aq = <<>>
    BY <1>2, <1>4, JoinQueues DEF TrackOver, Work
  <2> QED BY <2>1 DEF UIAt
<1>5. CASE WindowAtWork(p, st)
  <2>1. todo = <<>> /\ ~complete
    BY <1>5 DEF WindowAtWork
  <2>2. CASE Replacing(p, st)
    <3>1. PICK f \in Files :
            \/ ui = <<Step("check", NoFile)>> \o UnloadFor(f) /\ aq = <<>>
            \/ ui = <<Step("send", "stop")>> \o UnloadFor(f) /\ aq = <<>>
            \/ ui = <<Step("wait", NoFile)>> \o UnloadFor(f) /\ aq = <<Sent("stop")>>
            \/ ui = UnloadFor(f) /\ aq = <<>>
            \/ ui = <<Step("wait", NoFile)>> \o ClearFor(f) /\ aq = <<Sent("unload")>>
            \/ ui = ClearFor(f) /\ aq = <<>> /\ astate = "unloaded"
      BY <2>2 DEF Replacing
    <3>2. /\ Step("check", NoFile) \in UISteps /\ Step("send", "stop") \in UISteps /\ Step("wait", NoFile) \in UISteps
          /\ UnloadFor(f) \in Seq(UISteps) /\ ClearFor(f) \in Seq(UISteps)
      BY Scripts, OpenScripts DEF UISteps, Step
    <3>3. \/ Head(ui) \in {Step("check", NoFile), Step("send", "stop"), Step("wait", NoFile), Step("send", "unload")}
          \/ Head(ui) = Step("clear", NoFile) /\ aq = <<>> /\ astate = "unloaded"
      <4>1. CASE ui = <<Step("check", NoFile)>> \o UnloadFor(f)
        BY <3>2, <4>1, Cons
      <4>2. CASE ui = <<Step("send", "stop")>> \o UnloadFor(f)
        BY <3>2, <4>2, Cons
      <4>3. CASE ui = <<Step("wait", NoFile)>> \o UnloadFor(f) \/ ui = <<Step("wait", NoFile)>> \o ClearFor(f)
        BY <3>2, <4>3, Cons
      <4>4. CASE ui = UnloadFor(f) \/ (ui = ClearFor(f) /\ aq = <<>> /\ astate = "unloaded")
        BY <4>4, OpenScripts
      <4> QED BY <3>1, <4>1, <4>2, <4>3, <4>4
    <3>4. /\ UIAt("clear") => aq = <<>> /\ astate = "unloaded"
          /\ ~UIAt("add") /\ ~UIAt("next")
      BY <3>3, StepFields DEF UIAt
    <3>5. aq = <<>> \/ Head(aq).arg \in {"stop", "unload"}
      <4>1. ASSUME NEW e \in {"stop", "unload"}, aq = <<Sent(e)>> PROVE Head(aq).arg = e
        <5>1. Head(aq) = Sent(e)
          BY <1>1, <4>1, ShortQueues
        <5> QED BY <1>1, <5>1
      <4> QED BY <3>1, <4>1
    <3> QED BY <2>1, <3>4, <3>5
  <2>3. CASE Adding(p, st)
    <3>1. \/ /\ \E f \in Files : ui = OpenScript(f)
             /\ aq = <<>> /\ astate = "unloaded"
          \/ ui = MoveToIt /\ aq = <<>> /\ astate = "unloaded"
          \/ ui = LoadIt /\ aq = <<>>
          \/ /\ ui = PlayIt /\ ~Empty(plist)
             /\ \/ aq = Do("load") /\ astate = "unloaded"
                \/ aq = <<>>
      BY <2>3 DEF Adding
    <3>2. CASE \E f \in Files : ui = OpenScript(f) /\ aq = <<>> /\ astate = "unloaded"
      <4>1. Head(ui).op = "add"
        BY <3>2, OpenScripts, StepFields
      <4> QED BY <2>1, <3>2, <4>1 DEF UIAt
    <3>3. CASE ui = MoveToIt /\ aq = <<>> /\ astate = "unloaded"
      <4>1. Head(ui).op = "next"
        BY <3>3, LastSteps, StepFields
      <4> QED BY <2>1, <3>3, <4>1 DEF UIAt
    <3>4. CASE ui = LoadIt /\ aq = <<>>
      <4>1. Head(ui).op = "post"
        BY <3>4, LastSteps, StepFields
      <4> QED BY <2>1, <3>4, <4>1 DEF UIAt
    <3>5. CASE /\ ui = PlayIt /\ ~Empty(plist)
               /\ \/ aq = Do("load") /\ astate = "unloaded"
                  \/ aq = <<>>
      <4>1. Head(ui).op = "post"
        BY <3>5, LastSteps, StepFields
      <4>2. aq = Do("load") => Tail(aq) = <<>>
        BY <1>1, ShortQueues DEF Do
      <4> QED BY <2>1, <3>5, <4>1, <4>2 DEF UIAt
    <3> QED BY <3>1, <3>2, <3>3, <3>4, <3>5
  <2>4. CASE Closing(p, st)
    <3>1. \/ ui = CloseIt /\ aq = <<>>
          \/ ui = UnloadIt /\ (aq = Do("stop") \/ aq = <<>>)
          \/ /\ ui = ClearIt
             /\ \/ aq = <<Posted("stop"), Posted("unload")>>
                \/ aq = Do("unload") /\ astate \in {"stopped", "unloaded"}
                \/ aq = <<>> /\ astate = "unloaded"
      BY <2>4 DEF Closing
    <3>2. aq = <<>> \/ Head(aq).arg \in {"stop", "unload"}
      <4>1. ASSUME NEW e \in {"stop", "unload"}, aq = Do(e) PROVE Head(aq).arg = e
        <5>1. Head(aq) = Posted(e)
          BY <1>1, <4>1, ShortQueues DEF Do
        <5> QED BY <1>1, <5>1
      <4>2. ASSUME aq = <<Posted("stop"), Posted("unload")>> PROVE Head(aq).arg = "stop"
        <5>1. Head(aq) = Posted("stop")
          BY <1>1, <4>2, ShortQueues
        <5> QED BY <1>1, <5>1
      <4> QED BY <3>1, <4>1, <4>2
    <3>3. CASE ui = CloseIt \/ ui = UnloadIt
      <4>1. Head(ui).op = "post"
        BY <3>3, CloseSteps, StepFields
      <4> QED BY <2>1, <3>2, <4>1 DEF UIAt
    <3>4. CASE /\ ui = ClearIt
               /\ \/ aq = <<Posted("stop"), Posted("unload")>>
                  \/ aq = Do("unload") /\ astate \in {"stopped", "unloaded"}
                  \/ aq = <<>> /\ astate = "unloaded"
      <4>1. Head(ui).op = "clear" /\ Tail(ui) = <<>>
        BY <3>4, CloseSteps, StepFields
      <4> QED BY <2>1, <3>2, <3>4, <4>1 DEF UIAt
    <3> QED BY <3>1, <3>3, <3>4
  <2> QED BY <1>5, <2>2, <2>3, <2>4 DEF WindowAtWork
<1> QED BY <1>3, <1>4, <1>5 DEF Stage


\* awkawk leaves what the window thread's list holds.
LEMMA FilesStay ==
  ASSUME IndInv, AwkawkThread
  PROVE  Empty(plist') = Empty(plist)
<1>1. CASE DoChange
  <2>1. Head(aq).arg \in Moves
    <3>1. Head(aq) \in AItems
      BY <1>1, QueueHead DEF IndInv, TypeOK, DoChange
    <3> QED BY <1>1, <3>1, ItemFields DEF DoChange
  <2>2. plist' = MoveCursor(plist, Head(aq).arg) /\ plist \in Playlists
    BY <1>1 DEF DoChange, IndInv, TypeOK, PlaylistTypeOK
  <2>3. plist'.files = plist.files
    BY <2>1, <2>2 DEF MoveCursor, Moves, MoveNext, MoveTransition, MovePrevious, Playlists
  <2> QED BY <2>3 DEF Empty
<1>2. CASE ~DoChange
  <2>1. plist' = plist
    BY <1>2 DEF AwkawkThread, DoLoad, DoUnload, DoTransport, DoTrackChange, DoTrackChangeEmpty,
                DropEvent, PostNext
  <2> QED BY <2>1
<1> QED BY <1>1, <1>2

\* Nothing is being closed when nothing is pending.
LEMMA EmptyingWork ==
  ASSUME IndInv, Emptying
  PROVE  ~Idle /\ (aq # <<>> \/ todo # <<>>)
<1>1. Work # <<>>
  <2>1. Posted("stop") \in AItems /\ Posted("unload") \in AItems
    BY Items
  <2> QED BY <2>1, ShortQueues DEF Emptying, Unloading, Do
<1>2. aq \in Seq(AItems) /\ todo \in Seq(AItems)
  BY DEF IndInv, TypeOK
<1>3. aq # <<>> \/ todo # <<>>
  BY <1>1, <1>2, JoinQueues DEF Work
<1> QED BY <1>3, IdleEmpty

LEMMA ListedKept ==
  ASSUME IndInv, ListedInv, ~overlapped', [Next]_vars, NEW p, NEW st, Stage(p, st)
  PROVE  ListedInv'
<1>1. ASSUME UNCHANGED <<plist, ui, aq, todo, astate, complete>> PROVE ListedInv'
  <2>1. Emptying => Emptying'
    BY <1>1 DEF Emptying, Unloading, Work
  <2> QED BY <1>1, <2>1 DEF ListedInv
<1>2. ASSUME UNCHANGED astate, ~Emptying, ~Empty(plist) => ~Empty(plist')
      PROVE  ListedInv'
  BY <1>2 DEF ListedInv
<1>3. plist \in Playlists /\ aq \in Seq(AItems) /\ todo \in Seq(AItems) /\ WellFormed(plist)
  BY DEF IndInv, TypeOK, PlaylistTypeOK, WellFormed
<1>4. CASE User \/ TrackEnds
  <2>2. ~Emptying
    BY <1>4, ArrivesWhenIdle, EmptyingWork
  <2>3. UNCHANGED astate /\ (~Empty(plist) => ~Empty(plist'))
    <3>1. ASSUME NEW m \in UserModes, SelectMode(m)
          PROVE  UNCHANGED astate /\ (~Empty(plist) => ~Empty(plist'))
      BY <1>3, <3>1 DEF SelectMode, SetPlaymode, Empty, Playlists
    <3>2. CASE ~(\E m \in UserModes : SelectMode(m))
      BY <1>4, <3>2 DEF User, Press, OpenFile, CloseFile, TrackEnds
    <3> QED BY <3>1, <3>2
  <2> QED BY <1>2, <2>2, <2>3
<1>5. CASE WindowThread
  <2>1. CASE UISetOnTop
    BY <1>1, <2>1 DEF UISetOnTop
  <2>2. CASE UIEdit
    <3>1. ui # <<>> /\ ui' = Tail(ui) /\ UNCHANGED <<aq, todo, astate, complete>>
      BY <2>2 DEF UIEdit, UIAt
    <3>2. ~Emptying
      BY <3>1 DEF Emptying
    <3>3. CASE UIAt("clear") /\ plist' = ClearFiles(plist)
      <4>1. CASE astate = "unloaded"
        BY <3>1, <4>1 DEF ListedInv
      <4>2. CASE astate # "unloaded"
        <5>1. /\ todo = <<>> /\ ~complete /\ Tail(ui) = <<>>
              /\ \/ aq = <<Posted("stop"), Posted("unload")>>
                 \/ aq = Do("unload") /\ astate \in {"stopped", "unloaded"}
          BY <3>3, <4>2, Edits
        <5>2. Work' = aq
          BY <1>3, <3>1, <5>1, JoinQueues DEF Work
        <5>3. Unloading(plist, "unloaded")'
          BY <3>1, <5>1, <5>2 DEF Unloading
        <5>4. ui' = <<>> /\ ~complete'
          BY <3>1, <5>1
        <5> QED BY <5>3, <5>4 DEF ListedInv, Emptying
      <4> QED BY <4>1, <4>2
    <3>4. CASE UIAt("add") \/ UIAt("next")
      <4>1. astate = "unloaded"
        BY <3>4, Edits
      <4> QED BY <3>1, <4>1 DEF ListedInv
    <3> QED BY <2>2, <3>3, <3>4 DEF UIEdit
  <2>3. CASE UICheck \/ UIPost \/ UISend
    <3>1. ui # <<>> /\ UNCHANGED <<plist, astate>>
      BY <2>3 DEF UICheck, UIPost, UISend, UIAt
    <3>2. ~Emptying
      BY <3>1 DEF Emptying
    <3> QED BY <1>2, <3>1, <3>2
  <2> QED BY <1>5, <2>1, <2>2, <2>3 DEF WindowThread
<1>6. CASE AwkawkThread
  <2>1. CASE Emptying
    <3>1. ui' = <<>> /\ ~complete' /\ (Unloading(plist, "unloaded")' \/ Resting(plist, "unloaded")')
      <4>1. PICK q : q = plist
        OBVIOUS
      <4>2. Unloading(q, "unloaded") /\ ui = <<>> /\ ~complete
        BY <2>1, <4>1 DEF Emptying
      <4>3. ui' = <<>> /\ ~complete' /\ (Unloading(q, "unloaded") \/ Resting(q, "unloaded"))'
        BY <1>6, <4>2, UnloadingGoesOn
      <4>4. q = plist'
        BY <4>3 DEF Unloading, Resting
      <4> QED BY <4>3, <4>4
    <3> QED BY <3>1 DEF ListedInv, Emptying, Resting
  <2>2. CASE ~Emptying /\ ~Empty(plist)
    BY <1>6, <2>2, FilesStay DEF ListedInv
  <2>3. CASE ~Emptying /\ Empty(plist)
    <3>1. astate = "unloaded"
      BY <2>3 DEF ListedInv
    <3>2. ~DoLoad
      <4>1. DoLoad => todo = <<>> /\ aq # <<>> /\ Head(aq).arg = "load"
        BY DEF DoLoad, Runs, Transition
      <4> QED BY <2>3, <4>1, Edits
    <3>3. astate' = "unloaded"
      <4>1. CASE DoUnload \/ DoTransport
        BY <3>1, <4>1 DEF DoUnload, DoTransport, Runs, Transition
      <4>2. CASE DoTrackChange \/ DoTrackChangeEmpty \/ DoChange
        BY <3>1, <4>2 DEF DoTrackChange, DoTrackChangeEmpty, DoChange
      <4>3. CASE PostNext \/ DropEvent
        BY <3>1, <4>3 DEF PostNext, DropEvent
      <4> QED BY <1>6, <3>2, <4>1, <4>2, <4>3 DEF AwkawkThread
    <3> QED BY <3>3 DEF ListedInv
  <2> QED BY <2>1, <2>2, <2>3
<1>7. CASE GraphThread
  BY <1>1, <1>7, GraphLeaves
<1>8. CASE MediaEvent
  <2>1. complete /\ UNCHANGED <<plist, astate>>
    BY <1>8 DEF MediaEvent
  <2>2. ~Emptying
    BY <2>1 DEF Emptying
  <2> QED BY <1>2, <2>1, <2>2
<1>9. CASE UNCHANGED vars
  BY <1>1, <1>9 DEF vars
<1> QED BY <1>4, <1>5, <1>6, <1>7, <1>8, <1>9 DEF Next


\* A command added to the queue, or taken off it, and what waits there.
LEMMA WaitsFor ==
  ASSUME NEW e, dq \in Seq(DItems)
  PROVE  /\ dq' = dq => (Waits(e)' <=> Waits(e))
         /\ \A c \in DItems : dq' = Append(dq, c) => (Waits(e)' <=> Waits(e) \/ c.evt = e)
         /\ dq # <<>> /\ dq' = Tail(dq) => /\ Waits(e)' => Waits(e)
                                           /\ Head(dq).evt # e => (Waits(e)' <=> Waits(e))
         /\ dq = <<>> => ~Waits(e)
<1>1. dq' = dq => (Waits(e)' <=> Waits(e))
  BY DEF Waits
<1>2. ASSUME NEW c \in DItems, dq' = Append(dq, c)
      PROVE  Waits(e)' <=> Waits(e) \/ c.evt = e
  <2>1. /\ Len(dq') = Len(dq) + 1 /\ Len(dq) \in Nat
        /\ \A i \in 1..Len(dq) : dq'[i] = dq[i]
        /\ dq'[Len(dq) + 1] = c
    BY <1>2, QueueAppend
  <2> QED BY <2>1 DEF Waits
<1>3. ASSUME dq # <<>>, dq' = Tail(dq)
      PROVE  /\ Waits(e)' => Waits(e)
             /\ Head(dq).evt # e => (Waits(e)' <=> Waits(e))
  <2>1. /\ Len(dq') = Len(dq) - 1 /\ Len(dq) \in Nat \ {0}
        /\ \A i \in 1..(Len(dq) - 1) : dq'[i] = dq[i + 1]
        /\ Head(dq) = dq[1]
    BY <1>3, QueueHead
  <2>2. Waits(e)' => Waits(e)
    <3> SUFFICES ASSUME NEW i \in 1..Len(dq'), dq'[i].evt = e PROVE Waits(e)
      BY DEF Waits
    <3>1. i + 1 \in 1..Len(dq) /\ dq[i + 1].evt = e
      BY <2>1
    <3> QED BY <3>1 DEF Waits
  <2>3. ASSUME Head(dq).evt # e, NEW i \in 1..Len(dq), dq[i].evt = e PROVE Waits(e)'
    <3>1. i # 1
      BY <2>1, <2>3
    <3>2. i - 1 \in 1..Len(dq') /\ dq'[i - 1].evt = e
      <4>1. i - 1 \in 1..(Len(dq) - 1) /\ (i - 1) + 1 = i
        BY <2>1, <3>1
      <4> QED BY <2>1, <2>3, <4>1
    <3> QED BY <3>2 DEF Waits
  <2> QED BY <2>2, <2>3 DEF Waits
<1>4. dq = <<>> => ~Waits(e)
  BY DEF Waits
<1> QED BY <1>1, <1>2, <1>3, <1>4

LEMMA LoadsLastKept ==
  ASSUME IndInv, LoadsLast, ~overlapped', [Next]_vars, NEW p, NEW st, Stage(p, st)
  PROVE  LoadsLast'
<1>1. /\ dq \in Seq(DItems) /\ aq \in Seq(AItems) /\ todo \in Seq(AItems)
      /\ \A e \in Events : Posted(e) \in AItems /\ Posted(e).op = "post" /\ Posted(e).arg = e
      /\ "play" \in Events
  BY Items DEF IndInv, TypeOK
<1>2. ASSUME UNCHANGED <<ui, aq, todo, complete>>, Waits("load")' => Waits("load") PROVE LoadsLast'
  BY <1>2 DEF LoadsLast, Work
<1>3. CASE User \/ TrackEnds
  <2>1. UNCHANGED dq
    BY <1>3 DEF User, Press, SelectMode, OpenFile, CloseFile, TrackEnds
  <2>2. dq = <<>>
    BY <1>3, ArrivesWhenIdle, IdleEmpty
  <2> QED BY <1>1, <2>1, <2>2, WaitsFor DEF LoadsLast
<1>4. CASE WindowThread
  <2>1. Waits("load")' => Waits("load")
    <3>1. dq' = dq
      BY <1>4 DEF WindowThread, UICheck, UIPost, UISend, UIEdit, UISetOnTop
    <3> QED BY <1>1, <3>1, WaitsFor
  <2>2. CASE UISetOnTop
    BY <1>2, <2>1, <2>2 DEF UISetOnTop
  <2>3. CASE ~UISetOnTop
    <3> SUFFICES ASSUME Waits("load")
                 PROVE  /\ ~complete' /\ todo' \in {<<>>, Do("play")}
                        /\ ui' \in {<<>>, PlayIt} /\ Work' \in {<<>>, Do("play")}
      BY <2>1 DEF LoadsLast
    <3>1. ui # <<>>
      BY <1>4, <2>3 DEF WindowThread, UICheck, UIPost, UISend, UIEdit, UIAt
    <3>2. ui = PlayIt /\ ~complete /\ Work \in {<<>>, Do("play")}
      BY <3>1 DEF LoadsLast
    <3>3. Head(ui).op = "post" /\ Head(ui).arg = "play" /\ Tail(ui) = <<>>
      BY <3>2, LastSteps, StepFields
    <3>4. ui' = <<>> /\ aq' = Append(aq, Posted("play")) /\ todo' = todo /\ complete' = complete
      BY <1>4, <3>1, <3>3, WindowSteps
    <3>5. WindowAtWork(p, st)
      BY <3>1 DEF Stage, AwkawkAtWork, TrackOver
    <3>6. todo = <<>>
      BY <3>5 DEF WindowAtWork
    <3>7. aq = <<>> \/ aq = Do("load")
      <4>1. CASE Replacing(p, st)
        <5>1. PICK f \in Files :
                 \/ aq = <<>>
                 \/ ui = <<Step("wait", NoFile)>> \o UnloadFor(f)
                 \/ ui = <<Step("wait", NoFile)>> \o ClearFor(f)
          BY <4>1 DEF Replacing
        <5>2. CASE \/ ui = <<Step("wait", NoFile)>> \o UnloadFor(f)
                   \/ ui = <<Step("wait", NoFile)>> \o ClearFor(f)
          <6>1. Head(ui) = Step("wait", NoFile)
            BY <5>2, OpenScripts, Scripts, Cons
          <6> QED BY <3>3, <6>1, StepFields
        <5> QED BY <5>1, <5>2
      <4>2. CASE Adding(p, st)
        BY <4>2 DEF Adding
      <4>3. CASE Closing(p, st)
        <5>1. ui \in {CloseIt, UnloadIt, ClearIt}
          BY <4>3 DEF Closing
        <5>2. Head(ui) \in {Step("post", "stop"), Step("post", "unload"), Step("clear", NoFile)}
          BY <5>1, CloseSteps
        <5> QED BY <3>3, <5>2, StepFields
      <4> QED BY <3>5, <4>1, <4>2, <4>3 DEF WindowAtWork
    <3>8. aq = <<>>
      <4>1. Work = aq
        BY <1>1, <3>6, JoinQueues DEF Work
      <4>2. ASSUME aq = Do("load") PROVE FALSE
        <5>1. Posted("load") \in AItems /\ Posted("load").arg = "load"
          BY <1>1 DEF Events, GraphEvents
        <5>2. Head(aq) = Posted("load") /\ aq # <<>>
          BY <4>2, <5>1, ShortQueues DEF Do
        <5>3. aq = Do("play")
          BY <3>2, <4>1, <5>2
        <5>4. Head(aq) = Posted("play")
          BY <1>1, <5>3, ShortQueues DEF Do
        <5> QED BY <1>1, <5>1, <5>2, <5>4
      <4> QED BY <3>7, <4>2
    <3>9. aq' = Do("play") /\ Do("play") \in Seq(AItems)
      BY <1>1, <3>4, <3>8, AppendShort DEF Do
    <3>10. Work' = Do("play")
      BY <1>1, <3>4, <3>6, <3>9, JoinQueues DEF Work
    <3> QED BY <3>2, <3>4, <3>6, <3>10
  <2> QED BY <2>2, <2>3
<1>5. CASE AwkawkThread
  <2>1. CASE PostNext
    <3>1. UNCHANGED <<ui, dq, complete>> /\ todo # <<>> /\ todo' = Tail(todo)
      BY <2>1 DEF PostNext
    <3>2. Work' = Work
      BY <2>1, PostNextWork
    <3>3. todo = Do("play") => todo' = <<>>
      BY <1>1, <3>1, ShortQueues DEF Do
    <3>4. Waits("load")' <=> Waits("load")
      BY <1>1, <3>1, WaitsFor
    <3> QED BY <3>1, <3>2, <3>3, <3>4 DEF LoadsLast
  <2>2. CASE ~PostNext
    <3>1. todo = <<>> /\ aq # <<>> /\ Work = aq
      <4>1. todo = <<>> /\ aq # <<>>
        BY <1>5, <2>2 DEF AwkawkThread, DoLoad, DoUnload, DoTransport, DoTrackChange,
                          DoTrackChangeEmpty, DoChange, DropEvent, Runs, RunsChange
      <4> QED BY <1>1, <4>1, JoinQueues DEF Work
    <3>2. CASE DoLoad
      <4>1. Head(aq).arg = "load"
        BY <3>2 DEF DoLoad, Runs, Transition
      <4>2. /\ ~complete
            /\ \/ ui = PlayIt /\ Tail(aq) = <<>>
               \/ ui = <<>> /\ Tail(aq) \in {<<>>, Do("play")}
        BY <3>1, <4>1, Edits
      <4>3. Head(aq).op # "send"
        <5>1. ~UIAt("wait")
          BY <4>2, LastSteps, StepFields DEF UIAt
        <5>2. Sends = {}
          BY <5>1 DEF IndInv, Served, SenderIsServed
        <5>3. 1 \in DOMAIN aq /\ Head(aq) = aq[1]
          BY <1>1, <3>1, QueueHead
        <5> QED BY <5>2, <5>3 DEF Sends
      <4>4. aq' = Tail(aq) /\ ui' = ui /\ complete' = complete /\ todo' = <<>>
        BY <3>1, <3>2, <4>3 DEF DoLoad, Dispatched
      <4>5. Work' = aq'
        <5>1. Tail(aq) \in Seq(AItems)
          BY <1>1, <3>1, QueueHead
        <5> QED BY <4>4, <5>1, JoinQueues DEF Work
      <4> QED BY <4>2, <4>4, <4>5 DEF LoadsLast
    <3>3. CASE ~DoLoad
      <4>1. Waits("load")' => Waits("load")
        <5>1. CASE DoUnload \/ DoTransport
          <6>1. PICK e \in GraphEvents \ {"load"}, s \in States : dq' = Append(dq, [evt |-> e, want |-> s])
            <7>1. CASE DoUnload
              BY <7>1 DEF DoUnload, Command, GraphEvents, States
            <7>2. CASE DoTransport
              BY <7>2 DEF DoTransport, Command, GraphEvents, States
            <7> QED BY <5>1, <7>1, <7>2
          <6>2. [evt |-> e, want |-> s] \in DItems /\ [evt |-> e, want |-> s].evt # "load"
            BY CommandTypes
          <6> QED BY <1>1, <6>1, <6>2, WaitsFor
        <5>2. CASE DoTrackChange \/ DoTrackChangeEmpty \/ DoChange \/ DropEvent
          <6>1. dq' = dq
            BY <5>2 DEF DoTrackChange, DoTrackChangeEmpty, DoChange, DropEvent
          <6> QED BY <1>1, <6>1, WaitsFor
        <5> QED BY <1>5, <2>2, <3>3, <5>1, <5>2 DEF AwkawkThread
      <4> SUFFICES ASSUME Waits("load")
                   PROVE  /\ ~complete' /\ todo' \in {<<>>, Do("play")}
                          /\ ui' \in {<<>>, PlayIt} /\ Work' \in {<<>>, Do("play")}
        BY <4>1 DEF LoadsLast
      <4>2. aq = Do("play") /\ ~complete /\ ui \in {<<>>, PlayIt}
        BY <3>1 DEF LoadsLast
      <4>3. Head(aq) = Posted("play") /\ Tail(aq) = <<>>
        BY <1>1, <4>2, ShortQueues DEF Do
      <4>4. "play" \in GraphEvents
        BY Items
      <4>5. /\ todo' = <<>> /\ complete' = complete /\ Work' = <<>>
            /\ ui' = IF Head(aq).op = "send" THEN Tail(ui) ELSE ui
        BY <1>5, <3>1, <4>3, <4>4, TakeEvent
      <4>6. ui' = ui
        BY <1>1, <4>3, <4>5
      <4> QED BY <4>2, <4>5, <4>6
    <3> QED BY <3>2, <3>3
  <2> QED BY <2>1, <2>2
<1>6. CASE GraphThread
  <2>1. UNCHANGED <<ui, aq, todo, complete>>
    BY <1>6, GraphLeaves
  <2>2. dq # <<>> /\ dq' = Tail(dq)
    BY <1>6 DEF GraphThread, GraphLoad, GraphUnload, GraphTransport, GraphFails, GraphDrops, GraphRuns, CallBack
  <2>3. Waits("load")' => Waits("load")
    BY <1>1, <2>2, WaitsFor
  <2> QED BY <1>2, <2>1, <2>3
<1>7. CASE MediaEvent
  <2>1. complete /\ dq' = dq
    BY <1>7 DEF MediaEvent
  <2>2. ~Waits("load")
    BY <2>1 DEF LoadsLast
  <2> QED BY <1>1, <2>1, <2>2, WaitsFor DEF LoadsLast
<1>8. CASE UNCHANGED vars
  <2>1. UNCHANGED <<ui, aq, todo, complete, dq>>
    BY <1>8 DEF vars
  <2> QED BY <1>1, <1>2, <2>1, WaitsFor
<1> QED BY <1>3, <1>4, <1>5, <1>6, <1>7, <1>8 DEF Next

\* What holds while one command is carried out at a time.
OneCommand ==
  /\ \E p, st : Stage(p, st)
  /\ ListedInv /\ LoadsLast

Serial == ~overlapped => OneCommand

LEMMA SerialAlways == Spec => []Serial
<1>1. Init => Serial
  <2> SUFFICES ASSUME Init PROVE Serial
    OBVIOUS
  <2>1. Work = <<>>
    <3>1. <<>> \in Seq(AItems)
      OBVIOUS
    <3> QED BY <3>1, JoinQueues DEF Init, Work
  <2>2. Stage(plist, astate)
    BY <2>1 DEF Init, Stage, AwkawkAtWork, Resting
  <2>3. ListedInv
    BY DEF Init, ListedInv
  <2>4. LoadsLast
    BY DEF Init, LoadsLast, Waits
  <2> QED BY <2>2, <2>3, <2>4 DEF OneCommand, Serial
<1>2. IndInv /\ Serial /\ [Next]_vars => Serial'
  <2> SUFFICES ASSUME IndInv, Serial, [Next]_vars, ~overlapped' PROVE OneCommand'
    BY DEF Serial
  <2>1. OneCommand
    BY OverlapStays DEF Serial
  <2>2. PICK p, st : Stage(p, st)
    BY <2>1 DEF OneCommand
  <2>3. ListedInv'
    BY <2>1, <2>2, ListedKept DEF OneCommand
  <2>4. LoadsLast'
    BY <2>1, <2>2, LoadsLastKept DEF OneCommand
  <2>5. \E q, s : Stage(q, s)'
    BY <2>1, <2>2, OneAtATime DEF OneCommand
  <2> QED BY <2>3, <2>4, <2>5 DEF OneCommand
<1> QED BY <1>1, <1>2, Inductive, PTL DEF Spec

\* Until a command is given, or a track ends, while an earlier one is still
\* being worked off, the window thread never edits the playlist while an event
\* that reads or moves its cursor is queued or running on another thread,
\* whether or not DirectShow calls fail and however eager the user is.
THEOREM PlaylistNotShared == Spec => []NoSharedPlaylistAccess
<1>1. IndInv /\ Serial => NoSharedPlaylistAccess
  <2> SUFFICES ASSUME IndInv, OneCommand, UIAt("clear") \/ UIAt("add") \/ UIAt("next")
               PROVE  /\ todo = <<>>
                      /\ \A i \in DOMAIN aq : aq[i].arg \notin Moves \cup {"load"}
                      /\ \A i \in DOMAIN dq : dq[i].evt # "load"
    BY DEF NoSharedPlaylistAccess, Serial
  <2>1. PICK p, st : Stage(p, st)
    BY DEF OneCommand
  <2>2. /\ todo = <<>>
        /\ \/ aq = <<>>
           \/ aq = <<Posted("stop"), Posted("unload")>>
           \/ aq = Do("unload")
    BY <2>1, Edits
  <2>3. \A i \in DOMAIN aq : aq[i].arg \in {"stop", "unload"}
    BY <2>2 DEF Do, Posted
  <2>4. ~Waits("load")
    <3>1. ui # <<>> /\ Head(ui).op # "post"
      BY DEF UIAt
    <3>2. ui # PlayIt
      BY <3>1, LastSteps, StepFields
    <3> QED BY <3>1, <3>2 DEF OneCommand, LoadsLast
  <2>5. DOMAIN dq = 1..Len(dq)
    BY DEF IndInv, TypeOK
  <2> QED BY <2>2, <2>3, <2>4, <2>5 DEF Waits, Moves
<1> QED BY <1>1, SerialAlways, Inductive, PTL


-----------------------------------------------------------------------------
(* One command at a time, and a DirectShow that does not fail: each command *)
(* has the effect Player gives it.                                          *)

\* An event that changes tracks is not what empties the list.
LEMMA NotEmptying ==
  ASSUME IndInv, Emptying, todo = <<>>, aq # <<>>
  PROVE  Head(aq).op = "post" /\ Head(aq).arg \in {"stop", "unload"}
<1>1. /\ \A e \in Events : Posted(e) \in AItems /\ Posted(e).op = "post" /\ Posted(e).arg = e
      /\ {"stop", "unload"} \subseteq Events
  BY Items
<1>2. Work = aq
  BY JoinQueues DEF Work, IndInv, TypeOK
<1>3. Head(aq) \in {Posted("stop"), Posted("unload")}
  BY <1>1, <1>2, ShortQueues DEF Emptying, Unloading, Do
<1> QED BY <1>1, <1>3

\* The controllers never get out of step.
LEMMA NothingDiverges ==
  ASSUME IndInv, ListedInv, ~GraphMayFail, ~diverged, [Next]_vars
  PROVE  ~diverged'
<1>1. CASE DoTrackChangeEmpty
  <2>1. /\ todo = <<>> /\ aq # <<>> /\ Head(aq).arg \in Moves /\ Empty(plist)
    BY <1>1, ChangeEvents DEF DoTrackChangeEmpty, RunsChange, Runs
  <2>2. ~Emptying
    BY <2>1, NotEmptying DEF Moves
  <2> QED BY <1>1, <2>1, <2>2 DEF DoTrackChangeEmpty, ListedInv
<1>2. CASE User \/ TrackEnds \/ MediaEvent
  BY <1>2 DEF User, Press, SelectMode, OpenFile, CloseFile, TrackEnds, MediaEvent
<1>3. CASE WindowThread
  BY <1>3 DEF WindowThread, UICheck, UIPost, UISend, UIEdit, UISetOnTop
<1>4. CASE AwkawkThread /\ ~DoTrackChangeEmpty
  BY <1>4 DEF AwkawkThread, DoLoad, DoUnload, DoTransport, DoTrackChange, DoChange, PostNext, DropEvent
<1>5. CASE GraphThread
  BY <1>5 DEF GraphThread, GraphLoad, GraphUnload, GraphTransport, GraphFails, GraphDrops
<1>6. CASE UNCHANGED vars
  BY <1>6 DEF vars
<1> QED BY <1>1, <1>2, <1>3, <1>4, <1>5, <1>6 DEF Next

\* A command that is neither a load nor an unload.
LEMMA BuildsAppend ==
  ASSUME dq \in Seq(DItems), Builds, NEW c \in DItems, dq' = Append(dq, c),
         c.evt \notin {"load", "unload"}, UNCHANGED <<plist, graph>>
  PROVE  Builds'
<1>1. /\ Len(dq') = Len(dq) + 1 /\ Len(dq) \in Nat
      /\ \A i \in 1..Len(dq) : dq'[i] = dq[i]
      /\ dq'[Len(dq) + 1] = c
  BY QueueAppend
<1>2. CASE graph = FileName(plist) /\ ~Waits("load") /\ ~Waits("unload")
  BY <1>2, WaitsFor DEF Builds
<1>3. ASSUME NEW i \in 1..Len(dq), dq[i].evt = "load",
             \A j \in (i + 1)..Len(dq) : dq[j].evt \notin {"load", "unload"}
      PROVE  Builds'
  <2>1. i \in 1..Len(dq') /\ dq'[i].evt = "load"
    BY <1>1, <1>3
  <2>2. ASSUME NEW j \in (i + 1)..Len(dq') PROVE dq'[j].evt \notin {"load", "unload"}
    <3>1. j \in (i + 1)..Len(dq) \/ j = Len(dq) + 1
      BY <1>1
    <3>2. j \in (i + 1)..Len(dq) => dq'[j] = dq[j]
      BY <1>1
    <3> QED BY <1>1, <1>3, <3>1, <3>2
  <2> QED BY <2>1, <2>2 DEF Builds
<1> QED BY <1>2, <1>3 DEF Builds

\* A load.
LEMMA LoadBuilds ==
  ASSUME dq \in Seq(DItems), NEW c \in DItems, dq' = Append(dq, c), c.evt = "load"
  PROVE  Builds'
<1>1. Len(dq') = Len(dq) + 1 /\ Len(dq) \in Nat /\ dq'[Len(dq) + 1] = c
  BY QueueAppend
<1>2. /\ Len(dq') \in 1..Len(dq') /\ dq'[Len(dq')].evt = "load"
      /\ (Len(dq') + 1)..Len(dq') = {}
  BY <1>1
<1> QED BY <1>2 DEF Builds

\* DirectShow carries out the command at the head of its queue.
LEMMA BuildsTail ==
  ASSUME dq \in Seq(DItems), dq # <<>>, Builds, dq' = Tail(dq), UNCHANGED plist,
         Head(dq).evt = "load" => graph' = FileName(plist),
         Head(dq).evt \notin {"load", "unload"} => graph' = graph
  PROVE  Builds'
<1>1. /\ Len(dq') = Len(dq) - 1 /\ Len(dq) \in Nat \ {0}
      /\ \A i \in 1..(Len(dq) - 1) : dq'[i] = dq[i + 1]
      /\ Head(dq) = dq[1]
  BY QueueHead
<1>2. CASE graph = FileName(plist) /\ ~Waits("load") /\ ~Waits("unload")
  <2>1. Head(dq).evt \notin {"load", "unload"}
    BY <1>1, <1>2 DEF Waits
  <2> QED BY <1>2, <2>1, WaitsFor DEF Builds
<1>3. ASSUME NEW i \in 1..Len(dq), dq[i].evt = "load",
             \A j \in (i + 1)..Len(dq) : dq[j].evt \notin {"load", "unload"}
      PROVE  Builds'
  <2>1. CASE i = 1
    <3>1. \A j \in 1..Len(dq') : dq'[j].evt \notin {"load", "unload"}
      <4> SUFFICES ASSUME NEW j \in 1..Len(dq') PROVE dq'[j].evt \notin {"load", "unload"}
        OBVIOUS
      <4>1. j + 1 \in (i + 1)..Len(dq) /\ dq'[j] = dq[j + 1]
        BY <1>1, <2>1
      <4> QED BY <1>3, <4>1
    <3>2. graph' = FileName(plist')
      BY <1>1, <1>3, <2>1
    <3> QED BY <3>1, <3>2 DEF Builds, Waits
  <2>2. CASE i # 1
    <3>1. i - 1 \in 1..Len(dq') /\ dq'[i - 1].evt = "load"
      <4>1. i - 1 \in 1..(Len(dq) - 1) /\ (i - 1) + 1 = i
        BY <1>1, <2>2
      <4> QED BY <1>1, <1>3, <4>1
    <3>2. ASSUME NEW j \in ((i - 1) + 1)..Len(dq') PROVE dq'[j].evt \notin {"load", "unload"}
      <4>1. j + 1 \in (i + 1)..Len(dq) /\ dq'[j] = dq[j + 1]
        BY <1>1, <2>2
      <4> QED BY <1>3, <4>1
    <3> QED BY <3>1, <3>2 DEF Builds
  <2> QED BY <2>1, <2>2
<1> QED BY <1>2, <1>3 DEF Builds

\* The cursor is moved when nothing is loaded.
LEMMA ChangesUnloaded ==
  ASSUME IndInv, NEW p, NEW st, Stage(p, st), DoChange
  PROVE  astate = "unloaded"
<1>1. aq \in Seq(AItems) /\ todo = <<>> /\ aq # <<>> /\ Head(aq).op = "change"
  BY DEF IndInv, TypeOK, DoChange
<1>2. Work = aq
  BY <1>1, JoinQueues DEF Work, IndInv, TypeOK
<1>3. /\ \A e \in Events : /\ Posted(e) \in AItems /\ Posted(e).op = "post"
                           /\ Sent(e) \in AItems /\ Sent(e).op = "send"
      /\ {"load", "stop", "play", "pause", "unload"} \subseteq Events
      /\ Moves \subseteq Events
      /\ \A m \in Moves, b \in BOOLEAN : Change(m, b) \in AItems
  BY Items
<1>4. ASSUME NEW e \in Events, NEW y \in AItems, NEW z \in AItems,
             aq = <<Posted(e), y>> \/ aq = <<Posted(e), y, z>>
      PROVE  FALSE
  <2>1. Head(aq) = Posted(e)
    BY <1>3, <1>4, ShortQueues
  <2> QED BY <1>1, <1>3, <2>1
<1>5. ASSUME NEW e \in Events, aq = <<Posted(e)>> \/ aq = <<Sent(e)>> PROVE FALSE
  <2>1. Head(aq) \in {Posted(e), Sent(e)}
    BY <1>3, <1>5, ShortQueues
  <2> QED BY <1>1, <1>3, <2>1
<1>6. CASE AwkawkAtWork(p, st)
  <2>1. CASE Resting(p, st)
    BY <1>1, <1>2, <2>1 DEF Resting
  <2>2. CASE Toggling(p, st)
    BY <1>2, <1>3, <1>5, <2>2 DEF Toggling, Do
  <2>3. CASE Halting(p, st)
    BY <1>2, <1>3, <1>5, <2>3 DEF Halting, Do
  <2>4. CASE Skipping(p, st)
    BY <1>2, <1>3, <1>5, <2>4 DEF Skipping, Do
  <2>5. CASE Changing(p, st)
    <3>1. PICK m \in Moves, b \in BOOLEAN :
            \/ aq = <<Posted("stop"), Posted("unload"), Change(m, b)>>
            \/ aq = <<Posted("unload"), Change(m, b)>>
            \/ astate = "unloaded"
      BY <1>2, <2>5 DEF Changing
    <3> QED BY <1>3, <1>4, <3>1
  <2>6. CASE Loading(p, st)
    BY <2>6 DEF Loading
  <2>7. CASE Unloading(p, st)
    BY <1>2, <1>3, <1>4, <1>5, <2>7 DEF Unloading, Do
  <2> QED BY <1>6, <2>1, <2>2, <2>3, <2>4, <2>5, <2>6, <2>7 DEF AwkawkAtWork
<1>7. CASE WindowAtWork(p, st)
  <2>1. \/ aq = Do("load") \/ aq = Do("stop") \/ aq = Do("unload")
        \/ aq = <<Sent("stop")>> \/ aq = <<Sent("unload")>>
        \/ aq = <<Posted("stop"), Posted("unload")>>
    BY <1>1, <1>7 DEF WindowAtWork, Replacing, Adding, Closing
  <2> QED BY <1>3, <1>4, <1>5, <2>1 DEF Do
<1>8. CASE TrackOver(p, st)
  BY <1>1, <1>2, <1>8 DEF TrackOver
<1> QED BY <1>6, <1>7, <1>8 DEF Stage

LEMMA NamesKept ==
  ASSUME IndInv, OneCommand, Lockstep, Named, ~GraphMayFail, ~diverged, ~overlapped', [Next]_vars
  PROVE  Named'
<1>1. PICK p, st : Stage(p, st)
  BY DEF OneCommand
<1>2. dq \in Seq(DItems) /\ plist \in Playlists /\ aq \in Seq(AItems) /\ todo \in Seq(AItems) /\ ListedInv
  BY DEF IndInv, TypeOK, PlaylistTypeOK, OneCommand
<1>3. ASSUME UNCHANGED <<dq, graph>>, FileName(plist') = FileName(plist), Builds PROVE Builds'
  BY <1>3 DEF Builds, Waits
<1>4. ASSUME UNCHANGED <<astate, scene, dq, graph>>, FileName(plist') = FileName(plist), ~Emptying
      PROVE  Named'
  BY <1>3, <1>4 DEF Named
<1>5. ASSUME UNCHANGED <<plist, ui, aq, todo, astate, complete, scene>>, Builds => Builds'
      PROVE  Named'
  <2>1. Emptying => Emptying'
    BY <1>5 DEF Emptying, Unloading, Work
  <2> QED BY <1>5, <2>1 DEF Named
<1>6. CASE User \/ TrackEnds
  <2>1. UNCHANGED <<astate, scene, dq, graph>>
    BY <1>6 DEF User, Press, SelectMode, OpenFile, CloseFile, TrackEnds
  <2>2. ~Emptying
    BY <1>6, ArrivesWhenIdle, EmptyingWork
  <2>3. FileName(plist') = FileName(plist)
    <3>1. ASSUME NEW m \in UserModes, SelectMode(m)
          PROVE  FileName(plist') = FileName(plist)
      <4>1. plist' = SetPlaymode(plist, m)
        BY <3>1 DEF SelectMode
      <4>2. plist'.files = plist.files /\ plist'.pos = plist.pos
        BY <1>2, <4>1 DEF SetPlaymode, Playlists
      <4> QED BY <4>2 DEF FileName, BeforeStart, AfterEnd, EndPos
    <3>2. CASE ~(\E m \in UserModes : SelectMode(m))
      <4>1. plist' = plist
        BY <1>6, <3>2 DEF User, Press, OpenFile, CloseFile, TrackEnds
      <4> QED BY <4>1
    <3> QED BY <3>1, <3>2
  <2> QED BY <1>4, <2>1, <2>2, <2>3
<1>7. CASE WindowThread
  <2>1. CASE UISetOnTop
    <3>1. UNCHANGED <<plist, ui, aq, todo, astate, complete, scene, dq, graph>>
      BY <2>1 DEF UISetOnTop
    <3> QED BY <1>3, <1>5, <3>1
  <2>2. CASE UIEdit
    <3>1. ui # <<>> /\ ui' = Tail(ui) /\ UNCHANGED <<aq, todo, astate, complete>>
      BY <2>2 DEF UIEdit, UIAt
    <3>2. CASE astate = "unloaded"
      BY <3>1, <3>2 DEF Named
    <3>3. CASE astate # "unloaded"
      <4>1. UIAt("clear") /\ plist' = ClearFiles(plist)
        BY <1>1, <2>2, <3>3, Edits DEF UIEdit
      <4>2. /\ todo = <<>> /\ ~complete /\ Tail(ui) = <<>>
            /\ \/ aq = <<Posted("stop"), Posted("unload")>>
               \/ aq = Do("unload") /\ astate \in {"stopped", "unloaded"}
        BY <1>1, <3>3, <4>1, Edits
      <4>3. Work' = aq
        BY <1>2, <3>1, <4>2, JoinQueues DEF Work
      <4>4. Unloading(plist, "unloaded")'
        BY <3>1, <4>2, <4>3 DEF Unloading
      <4> QED BY <3>1, <4>2, <4>4 DEF Named, Emptying
    <3> QED BY <3>2, <3>3
  <2>3. CASE UICheck \/ UIPost \/ UISend
    <3>1. ui # <<>> /\ UNCHANGED <<plist, astate, scene, dq, graph>>
      BY <2>3 DEF UICheck, UIPost, UISend, UIAt
    <3>2. ~Emptying
      BY <3>1 DEF Emptying
    <3> QED BY <1>4, <3>1, <3>2
  <2> QED BY <1>7, <2>1, <2>2, <2>3 DEF WindowThread
<1>8. CASE AwkawkThread
  <2>1. CASE Emptying
    <3>1. PICK q : q = plist
      OBVIOUS
    <3>2. Unloading(q, "unloaded") /\ ui = <<>> /\ ~complete
      BY <2>1, <3>1 DEF Emptying
    <3>3. ui' = <<>> /\ ~complete' /\ (Unloading(q, "unloaded") \/ Resting(q, "unloaded"))'
      BY <1>8, <3>2, UnloadingGoesOn
    <3>4. q = plist'
      BY <3>3 DEF Unloading, Resting
    <3> QED BY <3>3, <3>4 DEF Named, Emptying, Resting
  <2>2. CASE ~Emptying
    <3>1. CASE DoLoad
      <4>1. /\ dq' = Append(dq, [evt |-> "load", want |-> "stopped"])
            /\ scene' = FileName(plist) /\ plist' = plist
        BY <3>1 DEF DoLoad, Command
      <4>2. [evt |-> "load", want |-> "stopped"] \in DItems
        BY CommandTypes DEF GraphEvents, States
      <4>3. Builds'
        BY <1>2, <4>1, <4>2, LoadBuilds
      <4> QED BY <4>1, <4>3 DEF Named
    <3>2. CASE DoUnload
      BY <3>2 DEF DoUnload, Command, Named
    <3>3. CASE DoTransport
      <4>1. astate # "unloaded" /\ UNCHANGED <<plist, scene, graph>>
        BY <3>3 DEF DoTransport, Runs, Transition
      <4>2. PICK e \in {"play", "pause", "stop"}, s \in States : dq' = Append(dq, [evt |-> e, want |-> s])
        BY <3>3 DEF DoTransport, Command, States
      <4>3. /\ [evt |-> e, want |-> s] \in DItems
            /\ [evt |-> e, want |-> s].evt \notin {"load", "unload"}
        BY CommandTypes DEF GraphEvents
      <4>4. Builds => Builds'
        BY <1>2, <4>1, <4>2, <4>3, BuildsAppend
      <4> QED BY <2>2, <4>1, <4>4 DEF Named
    <3>4. CASE DoTrackChange \/ PostNext \/ DropEvent
      <4>1. UNCHANGED <<plist, astate, scene, dq, graph>>
        BY <3>4 DEF DoTrackChange, PostNext, DropEvent
      <4> QED BY <1>4, <2>2, <4>1
    <3>5. CASE DoTrackChangeEmpty
      BY <3>5 DEF DoTrackChangeEmpty, Named
    <3>6. CASE DoChange
      <4>1. astate = "unloaded"
        BY <1>1, <3>6, ChangesUnloaded
      <4> QED BY <3>6, <4>1 DEF DoChange, Named
    <3> QED BY <1>8, <3>1, <3>2, <3>3, <3>4, <3>5, <3>6 DEF AwkawkThread
  <2> QED BY <2>1, <2>2
<1>9. CASE GraphThread
  <2>1. UNCHANGED <<plist, ui, aq, todo, astate, scene, complete>>
    BY <1>9, GraphLeaves
  <2>2. dq # <<>> /\ dq' = Tail(dq)
    BY <1>9 DEF GraphThread, GraphLoad, GraphUnload, GraphTransport, GraphFails, GraphDrops, GraphRuns, CallBack
  <2>3. Suits(dstate, Head(dq))
    BY <2>2, HeadSuits
  <2>4. /\ Head(dq).evt = "load" => graph' = FileName(plist)
        /\ Head(dq).evt \notin {"load", "unload"} => graph' = graph
    <3>1. CASE GraphLoad
      <4>1. Head(dq).evt = "load" /\ graph' = FileName(plist)
        BY <3>1 DEF GraphLoad, GraphRuns, GraphTransition
      <4> QED BY <4>1
    <3>2. CASE GraphUnload
      <4>1. Head(dq).evt = "unload"
        BY <3>2 DEF GraphUnload, GraphRuns, GraphTransition
      <4> QED BY <4>1
    <3>3. CASE GraphTransport
      <4>1. Head(dq).evt # "load" /\ graph' = graph
        BY <3>3 DEF GraphTransport, GraphRuns, GraphTransition
      <4> QED BY <4>1
    <3>4. ~GraphFails
      BY DEF GraphFails
    <3>5. ~GraphDrops
      BY <2>3 DEF GraphDrops, GraphRuns, Suits
    <3> QED BY <1>9, <3>1, <3>2, <3>3, <3>4, <3>5 DEF GraphThread
  <2>5. Builds => Builds'
    BY <1>2, <2>1, <2>2, <2>4, BuildsTail
  <2> QED BY <1>5, <2>1, <2>5
<1>10. CASE MediaEvent
  <2>1. complete /\ UNCHANGED <<plist, astate, scene, dq, graph>>
    BY <1>10 DEF MediaEvent
  <2>2. ~Emptying
    BY <2>1 DEF Emptying
  <2> QED BY <1>4, <2>1, <2>2
<1>11. CASE UNCHANGED vars
  <2>1. UNCHANGED <<plist, ui, aq, todo, astate, complete, scene, dq, graph>>
    BY <1>11 DEF vars
  <2> QED BY <1>3, <1>5, <2>1
<1> QED BY <1>6, <1>7, <1>8, <1>9, <1>10, <1>11 DEF Next


\* With no failure the controllers stay in step and the names are right.
Faultless == ~overlapped => ~diverged /\ Named

LEMMA FaultlessAlways ==
  ASSUME ~GraphMayFail
  PROVE  Spec => []Faultless
<1>1. Init => Faultless
  BY DEF Init, Faultless, Named
<1>2. IndInv /\ Serial /\ Lockstep /\ Faultless /\ [Next]_vars => Faultless'
  <2> SUFFICES ASSUME IndInv, Serial, Lockstep, Faultless, [Next]_vars, ~overlapped'
               PROVE  ~diverged' /\ Named'
    BY DEF Faultless
  <2>1. OneCommand /\ ~diverged /\ Named
    BY OverlapStays DEF Faultless, Serial
  <2>2. ~diverged'
    BY <2>1, NothingDiverges DEF OneCommand
  <2>3. Named'
    BY <2>1, NamesKept
  <2> QED BY <2>2, <2>3
<1> QED BY <1>1, <1>2, Inductive, LockstepAlways, SerialAlways, PTL DEF Spec

\* All that holds of the controllers, the window and the names.
Whole ==
  /\ IndInv /\ Lockstep /\ TopmostWhileShowing /\ NamedWhileLoaded
  /\ Serial /\ Faultless

LEMMA WholeAlways ==
  ASSUME ~GraphMayFail
  PROVE  Spec => []Whole
<1>1. IndInv /\ Lockstep /\ TopmostWhileShowing /\ NamedWhileLoaded /\ Serial /\ Faultless => Whole
  BY DEF Whole
<1> QED BY <1>1, Inductive, LockstepAlways, TopmostRight, NamedRight, SerialAlways, FaultlessAlways, PTL

\* What the player looks like in playlist q and state s.
FileAt(q, s) == IF s = "unloaded" THEN NoFile ELSE FileName(q)

\* Everything shows what the command came to.
Shown ==
  /\ \A p, st : Stage(p, st) => p = plist /\ st = astate
  /\ dstate = astate
  /\ graph = FileAt(plist, astate) /\ scene = graph
  /\ ontop \in BOOLEAN /\ (ontop <=> Showing(astate))
  /\ plist \in Playlists /\ astate \in States

\* When nothing is pending the command has come to its end.
LEMMA AtRest == Whole /\ ~overlapped /\ Idle => Shown
<1> SUFFICES ASSUME Whole, ~overlapped, Idle PROVE Shown
  OBVIOUS
<1>1. IndInv /\ ~diverged
  BY DEF Whole, Faultless
<1>2. ui = <<>> /\ aq = <<>> /\ todo = <<>> /\ dq = <<>> /\ topq = <<>> /\ ~complete
  BY <1>1, IdleEmpty
<1>3. dq \in Seq(DItems) /\ ontop \in BOOLEAN /\ plist \in Playlists /\ astate \in States
  BY <1>1 DEF IndInv, TypeOK, PlaylistTypeOK
<1>4. dstate = astate
  <2>1. Len(dq) = 0
    BY <1>2
  <2> QED BY <1>1, <2>1 DEF Whole, Lockstep, Leads, At
<1>5. Work = <<>>
  BY <1>1, <1>2, JoinQueues DEF Work, IndInv, TypeOK
<1>6. ~Waits("load") /\ ~Waits("unload")
  BY <1>2, <1>3, WaitsFor
<1>7. ~Emptying
  BY <1>1, EmptyingWork
<1>8. astate # "unloaded" => scene = FileName(plist) /\ graph = FileName(plist)
  <2>1. Builds => graph = FileName(plist)
    BY <1>6 DEF Builds, Waits
  <2> QED BY <1>7, <2>1 DEF Whole, Faultless, Named
<1>9. graph = FileAt(plist, astate) /\ scene = graph
  BY <1>1, <1>4, <1>8 DEF FileAt, Whole, NamedWhileLoaded
<1>10. ontop <=> Showing(astate)
  BY <1>1, <1>2, <1>4 DEF Whole, TopmostWhileShowing, Showing
<1>11. ASSUME NEW p, NEW st, Stage(p, st) PROVE p = plist /\ st = astate
  <2>1. ~TrackOver(p, st)
    BY <1>2 DEF TrackOver
  <2>2. ~WindowAtWork(p, st)
    <3>1. ASSUME NEW f \in Files
          PROVE  /\ OpenScript(f) # <<>> /\ ClearFor(f) # <<>> /\ UnloadFor(f) # <<>>
                 /\ \A o, a : Step(o, a) \in UISteps =>
                      <<Step(o, a)>> \o UnloadFor(f) # <<>> /\ <<Step(o, a)>> \o ClearFor(f) # <<>>
      BY OpenScripts, Cons
    <3>2. /\ Step("check", NoFile) \in UISteps /\ Step("send", "stop") \in UISteps /\ Step("wait", NoFile) \in UISteps
      BY Scripts DEF UISteps, Step
    <3>3. ~Replacing(p, st)
      BY <1>2, <3>1, <3>2 DEF Replacing
    <3>4. ~Adding(p, st)
      BY <1>2, <3>1, LastSteps DEF Adding
    <3>5. ~Closing(p, st)
      BY <1>2, CloseSteps DEF Closing
    <3> QED BY <3>3, <3>4, <3>5 DEF WindowAtWork
  <2>3. AwkawkAtWork(p, st)
    BY <1>11, <2>1, <2>2 DEF Stage
  <2>4. Resting(p, st)
    <3>1. ~Toggling(p, st) /\ ~Halting(p, st) /\ ~Skipping(p, st)
      BY <1>5 DEF Toggling, Halting, Skipping, Do
    <3>2. ~Changing(p, st)
      BY <1>5 DEF Changing
    <3>3. ~Loading(p, st) /\ ~Unloading(p, st)
      BY <1>5 DEF Loading, Unloading, Do
    <3> QED BY <2>3, <3>1, <3>2, <3>3 DEF AwkawkAtWork
  <2> QED BY <2>4 DEF Resting
<1> QED BY <1>3, <1>4, <1>9, <1>10, <1>11 DEF Shown

\* The three places that hold a file name agree whenever nothing is pending,
\* when DirectShow does not fail and until a command is given, or a track
\* ends, while an earlier one is still being worked off.
THEOREM NamesAgree ==
  ASSUME ~GraphMayFail
  PROVE  Spec => []NowPlayingAgrees
<1>1. Whole => NowPlayingAgrees
  BY AtRest DEF Shown, NowPlayingAgrees, FileAt
<1> QED BY <1>1, WholeAlways, PTL


-----------------------------------------------------------------------------
(* The refinement of Player *)

\* What settled records, and how far the command begun since then has come.
Course ==
  /\ settled.plist \in Playlists /\ settled.state \in States
  /\ settled.file = FileAt(settled.plist, settled.state)
  /\ settled.ontop \in BOOLEAN /\ (settled.ontop <=> Showing(settled.state))
  /\ Idle => settled = Now
  /\ \E p, st : Stage(p, st) /\ Legal(settled.plist, settled.state, p, st)

\* Player's playlist is the same playlist.
LEMMA SamePlaylist ==
  ASSUME NEW p
  PROVE  /\ Abstract!Empty(p) = Empty(p) /\ Abstract!AfterEnd(p) = AfterEnd(p)
         /\ Abstract!FileName(p) = FileName(p)
         /\ Abstract!MoveNext(p) = MoveNext(p) /\ Abstract!MovePrevious(p) = MovePrevious(p)
         /\ Abstract!MoveTransition(p) = MoveTransition(p)
         /\ Abstract!ClearFiles(p) = ClearFiles(p)
         /\ \A f : Abstract!AddFile(p, f) = AddFile(p, f)
         /\ \A m : Abstract!SetPlaymode(p, m) = SetPlaymode(p, m)
<1>1. Abstract!Empty(p) = Empty(p) /\ Abstract!AfterEnd(p) = AfterEnd(p)
  BY DEF Abstract!Empty, Empty, Abstract!AfterEnd, AfterEnd, Abstract!EndPos, EndPos
<1>2. Abstract!FileName(p) = FileName(p)
  BY <1>1 DEF Abstract!FileName, FileName, Abstract!BeforeStart, BeforeStart, Abstract!StartName,
              StartName, Abstract!EndName, EndName
<1>3. Abstract!MoveNext(p) = MoveNext(p)
  BY <1>1 DEF Abstract!MoveNext, MoveNext, Abstract!WrapForward, WrapForward, Abstract!EndPos, EndPos
<1>4. Abstract!MovePrevious(p) = MovePrevious(p)
  BY DEF Abstract!MovePrevious, MovePrevious, Abstract!BeforeStart, BeforeStart,
         Abstract!WrapBack, WrapBack, Abstract!EndPos, EndPos
<1>5. Abstract!MoveTransition(p) = MoveTransition(p)
  BY <1>1 DEF Abstract!MoveTransition, MoveTransition, Abstract!WrapForward, WrapForward,
              Abstract!EndPos, EndPos
<1>6. Abstract!ClearFiles(p) = ClearFiles(p)
  BY DEF Abstract!ClearFiles, ClearFiles
<1>7. \A f : Abstract!AddFile(p, f) = AddFile(p, f)
  BY <1>1 DEF Abstract!AddFile, AddFile
<1>8. \A m : Abstract!SetPlaymode(p, m) = SetPlaymode(p, m)
  BY DEF Abstract!SetPlaymode, SetPlaymode
<1> QED BY <1>1, <1>2, <1>3, <1>4, <1>5, <1>6, <1>7, <1>8

\* A command that has settled is a step of Player, or none.
LEMMA LegalIsStep ==
  ASSUME NEW p \in Playlists, NEW st \in States, Course,
         Legal(settled.plist, settled.state, p, st),
         settled'.plist = p, settled'.state = st, settled'.file = FileAt(p, st),
         settled'.ontop \in BOOLEAN, settled'.ontop <=> Showing(st)
  PROVE  [Abstract!PlayerNext]_(Abstract!pvars)
<1> DEFINE p0 == settled.plist
           st0 == settled.state
<1>1. /\ p0 \in Playlists /\ st0 \in States /\ settled.file = FileAt(p0, st0)
      /\ settled.ontop \in BOOLEAN /\ (settled.ontop <=> Showing(st0))
  BY DEF Course
<1>2. settled'.ontop = (st \in {"playing", "paused"})
  BY DEF Showing
<1>3. Abstract!Become(st, FileAt(p, st))
  BY <1>2 DEF Abstract!Become
<1>4. ASSUME p = p0, st = st0 PROVE UNCHANGED Abstract!pvars
  <2>1. settled'.file = settled.file
    BY <1>1, <1>4
  <2>2. settled'.ontop = settled.ontop
    BY <1>1, <1>4
  <2> QED BY <1>4, <2>1, <2>2 DEF Abstract!pvars
<1>5. CASE p = p0 /\ st \in {st0, Toggled(st0), Halted(st0)}
  <2>1. CASE st = st0
    BY <1>4, <1>5, <2>1
  <2>2. CASE st # st0
    <3>1. st0 # "unloaded" /\ st # "unloaded"
      BY <1>1, <1>5, <2>2 DEF Toggled, Halted
    <3>2. FileAt(p, st) = settled.file
      BY <1>1, <1>5, <3>1 DEF FileAt
    <3>3. Abstract!Become(st, settled.file)
      BY <1>3, <3>2
    <3>4. CASE st = Toggled(st0)
      <4>1. st = IF st0 = "playing" THEN "paused" ELSE "playing"
        BY <3>1, <3>4 DEF Toggled
      <4>2. Abstract!Toggle
        BY <1>5, <3>1, <3>3, <4>1 DEF Abstract!Toggle
      <4> QED BY <4>2 DEF Abstract!PlayerNext
    <3>5. CASE st = Halted(st0)
      <4>1. st0 \in {"playing", "paused"} /\ st = "stopped"
        BY <2>2, <3>5 DEF Halted
      <4>2. Abstract!Stop
        BY <1>5, <3>3, <4>1 DEF Abstract!Stop
      <4> QED BY <4>2 DEF Abstract!PlayerNext
    <3> QED BY <1>5, <2>2, <3>4, <3>5
  <2> QED BY <2>1, <2>2
<1>6. ASSUME NEW m \in Moves, Skips(p0, st0, m, p, st)
      PROVE  [Abstract!PlayerNext]_(Abstract!pvars)
  <2>1. CASE Empty(p0) \/ (m = "next" /\ st0 = "unloaded") \/ (m = "transitioning" /\ st0 # "playing")
    <3>1. p = p0 /\ st = st0
      BY <1>6, <2>1 DEF Skips
    <3> QED BY <1>4, <3>1
  <2>2. CASE ~(Empty(p0) \/ (m = "next" /\ st0 = "unloaded") \/ (m = "transitioning" /\ st0 # "playing"))
    <3>1. /\ p = MoveCursor(p0, m)
          /\ st = IF AfterEnd(p) THEN "unloaded" ELSE IF st0 = "playing" THEN "playing" ELSE "stopped"
      BY <1>6, <2>2 DEF Skips, Skipped
    <3>2. Abstract!SkipTo(p)
      <4>1. CASE AfterEnd(p)
        <5>1. st = "unloaded" /\ FileAt(p, st) = NoFile
          BY <3>1, <4>1 DEF FileAt
        <5>2. Abstract!Become("unloaded", NoFile)
          BY <1>3, <5>1
        <5> QED BY <2>2, <4>1, <5>2, SamePlaylist DEF Abstract!SkipTo
      <4>2. CASE ~AfterEnd(p)
        <5>1. /\ st = IF st0 = "playing" THEN "playing" ELSE "stopped"
              /\ FileAt(p, st) = FileName(p)
          BY <3>1, <4>2 DEF FileAt
        <5>2. Abstract!Become(IF st0 = "playing" THEN "playing" ELSE "stopped", FileName(p))
          BY <1>3, <5>1
        <5> QED BY <2>2, <4>2, <5>2, SamePlaylist DEF Abstract!SkipTo
      <4> QED BY <4>1, <4>2
    <3>3. CASE m = "next"
      <4>1. Abstract!GoOn
        BY <2>2, <3>1, <3>2, <3>3, SamePlaylist DEF Abstract!GoOn, MoveCursor
      <4> QED BY <4>1 DEF Abstract!PlayerNext
    <3>4. CASE m = "previous"
      <4>1. Abstract!GoBack
        BY <3>1, <3>2, <3>4, SamePlaylist DEF Abstract!GoBack, MoveCursor
      <4> QED BY <4>1 DEF Abstract!PlayerNext
    <3>5. CASE m = "transitioning"
      <4>1. Abstract!TrackOver
        BY <2>2, <3>1, <3>2, <3>5, SamePlaylist DEF Abstract!TrackOver, MoveCursor
      <4> QED BY <4>1 DEF Abstract!PlayerNext
    <3> QED BY <3>3, <3>4, <3>5 DEF Moves
  <2> QED BY <2>1, <2>2
<1>7. ASSUME NEW f \in Files, st = "playing",
             p = MoveNext(AddFile(IF st0 = "unloaded" THEN p0 ELSE ClearFiles(p0), f))
      PROVE  [Abstract!PlayerNext]_(Abstract!pvars)
  <2>1. p = Abstract!MoveNext(Abstract!AddFile(IF st0 = "unloaded" THEN p0 ELSE Abstract!ClearFiles(p0), f))
    BY <1>7, SamePlaylist
  <2>2. Abstract!Become("playing", Abstract!FileName(p))
    BY <1>3, <1>7, SamePlaylist DEF FileAt
  <2>3. Abstract!Open(f)
    BY <2>1, <2>2 DEF Abstract!Open
  <2> QED BY <2>3 DEF Abstract!PlayerNext
<1>8. CASE p = ClearFiles(p0) /\ st = "unloaded"
  <2>1. Abstract!Become("unloaded", NoFile)
    BY <1>3, <1>8 DEF FileAt
  <2>2. Abstract!Close
    BY <1>8, <2>1, SamePlaylist DEF Abstract!Close
  <2> QED BY <2>2 DEF Abstract!PlayerNext
<1>9. ASSUME NEW m \in UserModes, p = SetPlaymode(p0, m), st = st0
      PROVE  [Abstract!PlayerNext]_(Abstract!pvars)
  <2>1. p.files = p0.files /\ p.pos = p0.pos
    BY <1>1, <1>9 DEF SetPlaymode, Playlists
  <2>2. FileName(p) = FileName(p0)
    BY <2>1 DEF FileName, BeforeStart, AfterEnd, EndPos
  <2>3. settled'.file = settled.file
    BY <1>1, <1>9, <2>2 DEF FileAt
  <2>4. settled'.ontop = settled.ontop
    BY <1>1, <1>9
  <2>5. Abstract!Select(m)
    BY <1>9, <2>3, <2>4, SamePlaylist DEF Abstract!Select
  <2> QED BY <2>5 DEF Abstract!PlayerNext
<1> QED BY <1>5, <1>6, <1>7, <1>8, <1>9 DEF Legal

\* At each step the command goes on, or it settles and is a step of Player.
LEMMA CourseKept ==
  ASSUME ~overlapped', Whole, Whole', Course, [HNext]_<<vars, settled>>
  PROVE  Course' /\ [Abstract!PlayerNext]_(Abstract!pvars)
<1>1. [Next]_vars /\ settled' = IF Idle' THEN Now' ELSE settled
  <2>1. CASE HNext
    BY <2>1 DEF HNext
  <2>2. CASE UNCHANGED <<vars, settled>>
    <3>1. Idle' = Idle /\ Now' = Now
      BY <2>2 DEF vars, Idle, Pending, Now
    <3> QED BY <2>2, <3>1 DEF Course
  <2> QED BY <2>1, <2>2
<1>2. IndInv /\ ListedInv /\ ~overlapped
  <2>1. ~overlapped
    BY <1>1, OverlapStays
  <2> QED BY <2>1 DEF Whole, Serial, OneCommand
<1>3. PICK p, st : Stage(p, st) /\ Legal(settled.plist, settled.state, p, st)
  BY DEF Course
<1>4. Idle => settled.plist = plist /\ settled.state = astate
  BY <1>2, AtRest DEF Course, Now, Shown
<1>5. PICK q, s : Stage(q, s)' /\ Legal(settled.plist, settled.state, q, s)
  <2>1. CASE Stage(p, st)'
    BY <1>3, <2>1
  <2>2. CASE Idle /\ \E r, t : Stage(r, t)' /\ Legal(plist, astate, r, t)
    BY <1>4, <2>2
  <2> QED BY <1>1, <1>2, <1>3, <2>1, <2>2, OneAtATime
<1>6. CASE Idle'
  <2>1. /\ \A r, t : Stage(r, t)' => r = plist' /\ t = astate'
        /\ dstate' = astate'
        /\ graph' = FileAt(plist', astate')
        /\ ontop' \in BOOLEAN /\ (ontop' <=> Showing(astate'))
        /\ plist' \in Playlists /\ astate' \in States
    <3>1. (Whole /\ ~overlapped /\ Idle => Shown)'
      BY AtRest, PTL
    <3> QED BY <1>6, <3>1 DEF Shown, FileAt, Showing
  <2>2. q = plist' /\ s = astate'
    BY <1>5, <2>1
  <2>3. settled' = Now'
    BY <1>1, <1>6
  <2>4. /\ settled'.plist = q /\ settled'.state = s /\ settled'.file = FileAt(q, s)
        /\ settled'.ontop \in BOOLEAN /\ (settled'.ontop <=> Showing(s))
        /\ q \in Playlists /\ s \in States
    BY <2>1, <2>2, <2>3 DEF Now
  <2>5. [Abstract!PlayerNext]_(Abstract!pvars)
    BY <1>5, <2>4, LegalIsStep
  <2>6. Legal(settled'.plist, settled'.state, q, s)
    BY <2>4 DEF Legal
  <2>7. Course'
    BY <1>5, <2>3, <2>4, <2>6 DEF Course, FileAt, Showing
  <2> QED BY <2>5, <2>7
<1>7. CASE ~Idle'
  <2>1. settled' = settled
    BY <1>1, <1>7
  <2>2. UNCHANGED Abstract!pvars
    BY <2>1 DEF Abstract!pvars
  <2>3. Course'
    BY <1>5, <1>7, <2>1 DEF Course, FileAt, Showing
  <2> QED BY <2>2, <2>3
<1> QED BY <1>6, <1>7

LEMMA CourseInit == HInit => Course /\ Abstract!PlayerInit
<1> SUFFICES ASSUME HInit PROVE Course /\ Abstract!PlayerInit
  OBVIOUS
<1>1. Init /\ settled = Now
  BY DEF HInit
<1>2. /\ settled.plist = EmptyPlaylist /\ settled.state = "unloaded"
      /\ settled.file = NoFile /\ settled.ontop = FALSE
  BY <1>1 DEF Init, Now
<1>3. EmptyPlaylist \in Playlists
  BY EmptyWellFormed DEF WellFormed
<1>4. <<>> \in Seq(AItems)
  OBVIOUS
<1>5. Work = <<>>
  BY <1>1, <1>4, JoinQueues DEF Init, Work
<1>6. Stage(plist, astate)
  BY <1>1, <1>5 DEF Init, Stage, AwkawkAtWork, Resting
<1>7. plist = EmptyPlaylist /\ astate = "unloaded"
  BY <1>1 DEF Init
<1>8. Legal(settled.plist, settled.state, plist, astate)
  BY <1>2, <1>7 DEF Legal
<1>9. Course
  BY <1>1, <1>2, <1>3, <1>6, <1>8 DEF Course, FileAt, Showing, States
<1>10. Abstract!PlayerInit
  BY <1>2 DEF Abstract!PlayerInit, Abstract!EmptyPlaylist, EmptyPlaylist
<1> QED BY <1>9, <1>10

\* What settled records, until something overlaps.
OnCourse == ~overlapped => Course

\* Whatever the threads and queues do in between, each command of the user
\* and each end of a track has, once everything has settled, exactly the
\* effect Player gives it, when DirectShow does not fail and up to the first
\* time that one of them arrives while another is still being worked off.
THEOREM PlayerImplemented ==
  ASSUME ~GraphMayFail
  PROVE  HSpec => ImplementsPlayer
<1>1. HSpec => Spec
  <2>1. HInit => Init
    BY DEF HInit
  <2>2. [HNext]_<<vars, settled>> => [Next]_vars
    BY DEF HNext
  <2> QED BY <2>1, <2>2, PTL DEF HSpec, Spec
<1>2. HInit => OnCourse /\ Abstract!PlayerInit
  BY CourseInit DEF OnCourse
<1>3. Whole /\ Whole' /\ OnCourse /\ [HNext]_<<vars, settled>>
        => OnCourse' /\ [overlapped' \/ Abstract!PlayerNext]_(Abstract!pvars)
  <2> SUFFICES ASSUME Whole, Whole', OnCourse, [HNext]_<<vars, settled>>, ~overlapped'
               PROVE  Course' /\ [Abstract!PlayerNext]_(Abstract!pvars)
    BY DEF OnCourse
  <2>1. [Next]_vars
    BY DEF HNext, vars
  <2>2. Course
    BY <2>1, OverlapStays DEF OnCourse
  <2> QED BY <2>2, CourseKept
<1> QED BY <1>1, <1>2, <1>3, WholeAlways, PTL DEF HSpec, ImplementsPlayer

-----------------------------------------------------------------------------
(* The weight of a queue *)

\* The work a queue stands for, when an item x of it stands for w[x] steps:
\* x is given w[x] stones, at most 22, and the stones are counted.
Stones(q, w) == {s \in (1..Len(q)) \X (1..22) : s[2] <= w[q[s[1]]]}
Total(q, w)  == Cardinality(Stones(q, w))

\* The stones of one place of a queue.
StonesAt(i, n) == {s \in {i} \X (1..22) : s[2] <= n}

\* An interval that starts at 1 has as many elements as its end says.
LEMMA CountUpTo ==
  ASSUME NEW n \in Nat
  PROVE  IsFiniteSet(1..n) /\ Cardinality(1..n) = n
<1>1. 1 \in Int /\ n \in Int
  OBVIOUS
<1>2. IsFiniteSet(1..n) /\ Cardinality(1..n) = IF 1 > n THEN 0 ELSE n - 1 + 1
  BY <1>1, FS_Interval, Zenon
<1>3. (IF 1 > n THEN 0 ELSE n - 1 + 1) = n
  OBVIOUS
<1> QED BY <1>2, <1>3

\* A place of weight n has n stones.
LEMMA OnePlaceTotal ==
  ASSUME NEW i \in Nat, NEW n \in 0..22
  PROVE  IsFiniteSet(StonesAt(i, n)) /\ Cardinality(StonesAt(i, n)) = n
<1> DEFINE f == [k \in 1..n |-> <<i, k>>]
<1>1. f \in Bijection(1..n, StonesAt(i, n))
  <2>1. f \in [1..n -> StonesAt(i, n)]
    BY DEF StonesAt
  <2>2. ASSUME NEW a \in 1..n, NEW b \in 1..n, f[a] = f[b] PROVE a = b
    BY <2>2
  <2>3. ASSUME NEW t \in StonesAt(i, n) PROVE \E k \in 1..n : f[k] = t
    <3>1. t = <<i, t[2]>> /\ t[2] \in 1..n
      BY DEF StonesAt
    <3> QED BY <3>1
  <2> QED BY <2>1, <2>2, <2>3 DEF Bijection, Injection, Surjection, IsInjective
<1>2. ExistsBijection(1..n, StonesAt(i, n))
  BY <1>1 DEF ExistsBijection
<1>3. IsFiniteSet(1..n) /\ Cardinality(1..n) = n
  BY CountUpTo
<1> QED BY <1>2, <1>3, FS_Bijection

\* A queue has finitely many stones, an empty one none.
LEMMA TotalType ==
  ASSUME NEW S, NEW w \in [S -> 0..22], NEW q \in Seq(S)
  PROVE  /\ IsFiniteSet(Stones(q, w))
         /\ Total(q, w) \in Nat
         /\ Total(q, w) <= Len(q) * 22
         /\ q = <<>> => Total(q, w) = 0
<1>1. /\ IsFiniteSet((1..Len(q)) \X (1..22))
      /\ Cardinality((1..Len(q)) \X (1..22)) = Len(q) * 22
  <2>1. IsFiniteSet(1..Len(q)) /\ Cardinality(1..Len(q)) = Len(q)
    BY CountUpTo
  <2>2. IsFiniteSet(1..22) /\ Cardinality(1..22) = 22
    BY CountUpTo
  <2> DEFINE places == 1..Len(q)
             stones == 1..22
  <2> HIDE DEF places, stones
  <2>3. /\ IsFiniteSet(places \X stones)
        /\ Cardinality(places \X stones) = Cardinality(places) * Cardinality(stones)
    <3>1. IsFiniteSet(places) /\ IsFiniteSet(stones)
      BY <2>1, <2>2 DEF places, stones
    <3> QED BY <3>1, FS_Product, Zenon
  <2> QED BY <2>1, <2>2, <2>3, Zenon DEF places, stones
<1>2. Stones(q, w) \in SUBSET ((1..Len(q)) \X (1..22))
  BY DEF Stones
<1>3. q = <<>> => Stones(q, w) = {}
  BY DEF Stones
<1> QED BY <1>1, <1>2, <1>3, FS_Subset, FS_EmptySet, FS_CardinalityType DEF Total

\* An item put at the end of a queue adds its weight.
LEMMA TotalAppend ==
  ASSUME NEW S, NEW w \in [S -> 0..22], NEW q \in Seq(S), NEW x \in S
  PROVE  Total(Append(q, x), w) = Total(q, w) + w[x]
<1> DEFINE new == StonesAt(Len(q) + 1, w[x])
<1>1. Len(q) + 1 \in Nat /\ w[x] \in 0..22 /\ w[x] \in Nat
  OBVIOUS
<1>2. IsFiniteSet(new) /\ Cardinality(new) = w[x]
  BY <1>1, OnePlaceTotal, Zenon
<1>3. Stones(Append(q, x), w) = Stones(q, w) \cup new
  BY QueueAppend DEF Stones, StonesAt
<1>4. Stones(q, w) \cap new = {}
  BY DEF Stones, StonesAt
<1>5. Cardinality({}) = 0
  BY FS_EmptySet
<1>6. IsFiniteSet(Stones(q, w)) /\ Total(q, w) \in Nat
  BY TotalType
<1> HIDE DEF new
<1>7. Cardinality(Stones(q, w) \cup new)
        = Cardinality(Stones(q, w)) + Cardinality(new) - Cardinality(Stones(q, w) \cap new)
  BY <1>2, <1>6, FS_Union, Zenon
<1>8. Total(Append(q, x), w) = Total(q, w) + w[x] - 0
  BY <1>2, <1>3, <1>4, <1>5, <1>7, Zenon DEF Total
<1>9. \A a, b \in Nat : a + b - 0 = a + b
  OBVIOUS
<1> QED BY <1>1, <1>6, <1>8, <1>9, Zenon

\* The head of a queue takes its weight with it.
LEMMA TotalTail ==
  ASSUME NEW S, NEW w \in [S -> 0..22], NEW q \in Seq(S), q # <<>>
  PROVE  Total(q, w) = w[Head(q)] + Total(Tail(q), w)
<1> DEFINE old  == StonesAt(1, w[Head(q)])
           rest == {s \in Stones(q, w) : s[1] # 1}
           f == [s \in Stones(Tail(q), w) |-> <<s[1] + 1, s[2]>>]
<1>1. /\ Head(q) \in S /\ Head(q) = q[1] /\ Tail(q) \in Seq(S) /\ Len(q) \in Nat \ {0}
      /\ Len(Tail(q)) = Len(q) - 1 /\ \A i \in 1..(Len(q) - 1) : Tail(q)[i] = q[i + 1]
  BY QueueHead
<1>2. IsFiniteSet(old) /\ Cardinality(old) = w[Head(q)] /\ w[Head(q)] \in 0..22
  BY <1>1, OnePlaceTotal
<1>3. Stones(q, w) = old \cup rest /\ old \cap rest = {}
  BY <1>1 DEF Stones, StonesAt
<1>4. f \in Bijection(Stones(Tail(q), w), rest)
  <2>1. f \in [Stones(Tail(q), w) -> rest]
    BY <1>1 DEF Stones
  <2>2. ASSUME NEW a \in Stones(Tail(q), w), NEW b \in Stones(Tail(q), w), f[a] = f[b]
        PROVE  a = b
    BY <2>2 DEF Stones
  <2>3. ASSUME NEW t \in rest PROVE \E s \in Stones(Tail(q), w) : f[s] = t
    <3>1. /\ t = <<t[1], t[2]>> /\ t[1] \in 2..Len(q) /\ t[2] \in 1..22
          /\ t[2] <= w[q[t[1]]]
      BY <1>1 DEF Stones
    <3>2. <<t[1] - 1, t[2]>> \in Stones(Tail(q), w)
      BY <1>1, <3>1 DEF Stones
    <3>3. f[<<t[1] - 1, t[2]>>] = t
      BY <3>1, <3>2
    <3> QED BY <3>2, <3>3
  <2> QED BY <2>1, <2>2, <2>3 DEF Bijection, Injection, Surjection, IsInjective
<1>5. IsFiniteSet(rest) /\ Cardinality(rest) = Total(Tail(q), w) /\ Total(Tail(q), w) \in Nat
  <2>1. ExistsBijection(Stones(Tail(q), w), rest)
    BY <1>4 DEF ExistsBijection
  <2>2. IsFiniteSet(Stones(Tail(q), w)) /\ Total(Tail(q), w) \in Nat
    BY <1>1, TotalType
  <2> HIDE DEF rest
  <2> QED BY <2>1, <2>2, FS_Bijection DEF Total
<1>6. Cardinality({}) = 0
  BY FS_EmptySet
<1> HIDE DEF old, rest
<1>7. Cardinality(old \cup rest) = Cardinality(old) + Cardinality(rest) - Cardinality(old \cap rest)
  BY <1>2, <1>5, FS_Union, Zenon
<1>8. Total(q, w) = w[Head(q)] + Total(Tail(q), w) - 0
  BY <1>2, <1>3, <1>5, <1>6, <1>7, Zenon DEF Total
<1>9. w[Head(q)] \in Nat
  BY <1>2, SMTT(30)
<1>10. \A a, b \in Nat : a + b - 0 = a + b
  OBVIOUS
<1> QED BY <1>5, <1>8, <1>9, <1>10, Zenon

-----------------------------------------------------------------------------
(* The work that is left *)

\* How many steps an item of awkawk's queue can still cause, its own included:
\* an event is at most one command for DirectShow and its callback; a change of
\* track may stop and unload, load and play.
Cost == [x \in AItems |->
           IF x.op = "change" THEN 9 ELSE IF x.arg \in Moves THEN 19 ELSE 3]

\* One that its handler has yet to post.
CostToPost == [x \in AItems |-> Cost[x] + 1]

\* A step of the window thread: check may still add a send.
UICost == [s \in UISteps |->
             CASE s.op = "post"  -> Cost[Posted(s.arg)] + 1
               [] s.op = "send"  -> Cost[Sent(s.arg)] + 2
               [] s.op = "check" -> 6
               [] OTHER          -> 1]

\* The steps left to all threads if nothing new comes in.
WorkLeft == Total(ui, UICost) + Total(aq, Cost) + Total(todo, CostToPost)
              + 2 * Len(dq) + Len(topq) + (IF complete THEN 20 ELSE 0)

\* The weights are small numbers, and nothing that is pending weighs nothing.
LEMMA Costs ==
  /\ Cost \in [AItems -> 3..19]
  /\ CostToPost \in [AItems -> 4..20]
  /\ UICost \in [UISteps -> 1..21]
  /\ Cost \in [AItems -> 0..22] /\ CostToPost \in [AItems -> 0..22] /\ UICost \in [UISteps -> 0..22]
<1>1. Cost \in [AItems -> 3..19]
  BY DEF Cost
<1>2. CostToPost \in [AItems -> 4..20]
  BY <1>1 DEF CostToPost
<1>3. UICost \in [UISteps -> 1..21]
  <2> SUFFICES ASSUME NEW s \in UISteps PROVE UICost[s] \in 1..21
    BY DEF UICost
  <2>1. CASE s.op \in {"post", "send"}
    <3>1. s.arg \in Events
      BY <2>1 DEF UISteps
    <3>2. Cost[Posted(s.arg)] \in 3..19 /\ Cost[Sent(s.arg)] \in 3..19
      BY <1>1, <3>1, ItemTypes
    <3> QED BY <2>1, <3>2 DEF UICost
  <2>2. CASE s.op \notin {"post", "send"}
    BY <2>2 DEF UICost
  <2> QED BY <2>1, <2>2
<1> QED BY <1>1, <1>2, <1>3

\* The summands are numbers; without any work nothing is pending.
LEMMA WorkLeftType ==
  ASSUME IndInv
  PROVE  /\ Total(ui, UICost) \in Nat /\ Total(aq, Cost) \in Nat
         /\ Total(todo, CostToPost) \in Nat
         /\ Len(dq) \in Nat /\ Len(topq) \in Nat
         /\ WorkLeft \in Nat
         /\ Idle <=> WorkLeft = 0
<1>0. /\ ui \in Seq(UISteps) /\ aq \in Seq(AItems) /\ todo \in Seq(AItems)
      /\ dq \in Seq(DItems) /\ topq \in Seq(BOOLEAN) /\ complete \in BOOLEAN
  BY DEF IndInv, TypeOK
<1>1. /\ Total(ui, UICost) \in Nat /\ Total(aq, Cost) \in Nat
      /\ Total(todo, CostToPost) \in Nat
  BY <1>0, Costs, TotalType
<1>2. Len(dq) \in Nat /\ Len(topq) \in Nat /\ Len(aq) \in Nat /\ Len(todo) \in Nat
  BY <1>0
<1>3. WorkLeft \in Nat
  BY <1>1, <1>2 DEF WorkLeft
<1>4. /\ Total(ui, UICost) = 0 <=> ui = <<>>
      /\ Total(aq, Cost) = 0 <=> aq = <<>>
      /\ Total(todo, CostToPost) = 0 <=> todo = <<>>
  <2>1. ASSUME NEW S, NEW q \in Seq(S), NEW w \in [S -> 0..22], \A x \in S : w[x] # 0
        PROVE  Total(q, w) = 0 <=> q = <<>>
    <3>1. CASE q = <<>>
      BY <3>1, TotalType
    <3>2. CASE q # <<>>
      <4>1. Head(q) \in S /\ Tail(q) \in Seq(S)
        BY <3>2
      <4>2. w[Head(q)] \in 1..22
        BY <2>1, <4>1
      <4>3. Total(Tail(q), w) \in Nat
        BY <4>1, TotalType
      <4>4. Total(q, w) = w[Head(q)] + Total(Tail(q), w)
        BY <3>2, TotalTail
      <4>5. \A a \in 1..22, b \in Nat : a + b # 0
        OBVIOUS
      <4> QED BY <3>2, <4>2, <4>3, <4>4, <4>5, Zenon
    <3> QED BY <3>1, <3>2
  <2>2. /\ \A x \in UISteps : UICost[x] # 0
        /\ \A x \in AItems : Cost[x] # 0 /\ CostToPost[x] # 0
    BY Costs
  <2> QED BY <1>0, <2>1, <2>2, Costs
<1>5. Idle <=> ui = <<>> /\ aq = <<>> /\ todo = <<>> /\ dq = <<>> /\ topq = <<>> /\ ~complete
  BY IdleEmpty
<1>6. dq = <<>> <=> Len(dq) = 0
  BY <1>0
<1>7. topq = <<>> <=> Len(topq) = 0
  BY <1>0
<1> QED BY <1>0, <1>1, <1>2, <1>3, <1>4, <1>5, <1>6, <1>7, SMTT(30) DEF WorkLeft

\* The same after a step.
LEMMA WorkLeftNext ==
  ASSUME IndInv'
  PROVE  /\ Total(ui', UICost) \in Nat /\ Total(aq', Cost) \in Nat
         /\ Total(todo', CostToPost) \in Nat
         /\ Len(dq') \in Nat /\ Len(topq') \in Nat
         /\ WorkLeft' \in Nat
<1>1. /\ ui' \in Seq(UISteps) /\ aq' \in Seq(AItems) /\ todo' \in Seq(AItems)
      /\ dq' \in Seq(DItems) /\ topq' \in Seq(BOOLEAN)
  BY DEF IndInv, TypeOK
<1>2. Len(dq') \in Nat /\ Len(topq') \in Nat
  BY <1>1
<1>3. /\ Total(ui', UICost) \in Nat /\ Total(aq', Cost) \in Nat
      /\ Total(todo', CostToPost) \in Nat
  BY <1>1, Costs, TotalType
<1>4. (IF complete' THEN 20 ELSE 0) \in Nat
  OBVIOUS
<1>5. WorkLeft' \in Nat
  BY <1>2, <1>3, <1>4 DEF WorkLeft
<1> QED BY <1>2, <1>3, <1>5

\* Posting to awkawk's queue adds the item's cost.
LEMMA PostCost ==
  ASSUME IndInv, NEW x \in AItems
  PROVE  Total(Append(aq, x), Cost) = Total(aq, Cost) + Cost[x]
BY Costs, TotalAppend DEF IndInv, TypeOK

\* A step of the window thread uses up what it stood for, and never lengthens
\* its own command.
LEMMA WindowWorks ==
  ASSUME IndInv, IndInv', WindowThread
  PROVE  /\ WorkLeft' < WorkLeft /\ Total(ui', UICost) <= Total(ui, UICost)
         /\ ui # <<>> => Total(ui', UICost) < Total(ui, UICost)
<1>0. /\ ui \in Seq(UISteps) /\ aq \in Seq(AItems) /\ topq \in Seq(BOOLEAN)
      /\ ui' \in Seq(UISteps)
  BY DEF IndInv, TypeOK
<1>1. /\ Total(ui, UICost) \in Nat /\ Total(aq, Cost) \in Nat
      /\ Total(todo, CostToPost) \in Nat
      /\ Len(dq) \in Nat /\ Len(topq) \in Nat
      /\ Total(ui', UICost) \in Nat /\ Total(aq', Cost) \in Nat /\ Len(topq') \in Nat
  BY WorkLeftType, WorkLeftNext
<1>2. (IF complete THEN 20 ELSE 0) \in Nat
  OBVIOUS
<1>3. SUFFICES \/ /\ UNCHANGED <<todo, dq, topq, complete>>
                  /\ Total(ui', UICost) < Total(ui, UICost)
                  /\ Total(ui', UICost) + Total(aq', Cost) < Total(ui, UICost) + Total(aq, Cost)
               \/ /\ UNCHANGED <<ui, aq, todo, dq, complete>> /\ ui = <<>>
                  /\ Len(topq') < Len(topq)
  <2>1. CASE /\ UNCHANGED <<todo, dq, topq, complete>>
             /\ Total(ui', UICost) < Total(ui, UICost)
             /\ Total(ui', UICost) + Total(aq', Cost) < Total(ui, UICost) + Total(aq, Cost)
    BY <1>1, <1>2, <2>1, SMTT(30) DEF WorkLeft
  <2>2. CASE UNCHANGED <<ui, aq, todo, dq, complete>> /\ ui = <<>> /\ Len(topq') < Len(topq)
    <3>1. Total(ui', UICost) = Total(ui, UICost) /\ Total(aq', Cost) = Total(aq, Cost)
      BY <2>2
    <3> QED BY <1>1, <1>2, <2>2, <3>1 DEF WorkLeft
  <2> QED BY <1>3, <2>1, <2>2
<1>4. /\ \A c \in 1..21, i, j \in Nat : i + j < c + i + j /\ i < c + i
      /\ \A k, i, j \in Nat : i + (j + k) < k + 1 + i + j /\ i < k + 1 + i
      /\ \A k, i, j \in Nat : 1 + i + (j + k) < k + 2 + i + j /\ 1 + i < k + 2 + i
  OBVIOUS
<1>5. CASE UISetOnTop
  BY <1>0, <1>5 DEF UISetOnTop
<1>6. ASSUME ui # <<>>
      PROVE  /\ Head(ui) \in UISteps /\ Tail(ui) \in Seq(UISteps)
             /\ UICost[Head(ui)] \in 1..21
             /\ Total(Tail(ui), UICost) \in Nat
             /\ Total(ui, UICost) = UICost[Head(ui)] + Total(Tail(ui), UICost)
  <2>1. Head(ui) \in UISteps /\ Tail(ui) \in Seq(UISteps)
    BY <1>0, <1>6
  <2> QED BY <1>0, <1>6, <2>1, Costs, TotalTail, TotalType
<1>7. ASSUME ui # <<>>, Head(ui).op \in {"post", "send"}
      PROVE  /\ Posted(Head(ui).arg) \in AItems /\ Cost[Posted(Head(ui).arg)] \in Nat
             /\ Sent(Head(ui).arg) \in AItems /\ Cost[Sent(Head(ui).arg)] \in Nat
  <2>1. Head(ui).arg \in Events
    BY <1>6, <1>7 DEF UISteps
  <2> QED BY <2>1, ItemTypes, Costs
<1>8. ASSUME NEW st \in UISteps, NEW q \in Seq(UISteps)
      PROVE  Total(<<st>> \o q, UICost) = UICost[st] + Total(q, UICost)
  <2>1. /\ <<st>> \o q \in Seq(UISteps) /\ <<st>> \o q # <<>>
        /\ Head(<<st>> \o q) = st /\ Tail(<<st>> \o q) = q
    BY Cons
  <2> QED BY <2>1, Costs, TotalTail
<1>9. CASE UICheck
  <2>1. ui # <<>> /\ Head(ui).op = "check" /\ UNCHANGED <<aq, todo, dq, topq, complete>>
    BY <1>9 DEF UICheck, UIAt
  <2>2. UICost[Head(ui)] = 6
    BY <2>1, <1>6 DEF UICost
  <2>3. Total(aq', Cost) = Total(aq, Cost)
    BY <2>1
  <2>4. CASE astate = "stopped"
    <3>1. ui' = Tail(ui)
      BY <1>9, <2>1, <2>4, <1>6 DEF UICheck
    <3> QED BY <1>1, <1>6, <2>1, <2>2, <2>3, <3>1
  <2>5. CASE astate # "stopped"
    <3>1. ui' = <<Step("send", "stop")>> \o Tail(ui)
      BY <1>9, <2>5 DEF UICheck
    <3>2. /\ Step("send", "stop") \in UISteps /\ Sent("stop") \in AItems
          /\ Step("send", "stop").op = "send" /\ Step("send", "stop").arg = "stop"
      BY Scripts, ItemTypes, StepFields DEF Events, GraphEvents
    <3>3. Cost[Sent("stop")] = 3
      BY <3>2 DEF Cost, Sent, Moves
    <3>4. UICost[Step("send", "stop")] = 5
      BY <3>2, <3>3 DEF UICost
    <3>5. Total(ui', UICost) = 5 + Total(Tail(ui), UICost)
      BY <3>1, <3>2, <3>4, <1>6, <1>8, <2>1
    <3> QED BY <1>1, <1>6, <2>1, <2>2, <2>3, <3>5
  <2> QED BY <2>4, <2>5
<1>10. CASE UIPost
  <2>1. /\ ui # <<>> /\ Head(ui).op = "post" /\ ui' = Tail(ui)
        /\ aq' = Append(aq, Posted(Head(ui).arg)) /\ UNCHANGED <<todo, dq, topq, complete>>
    BY <1>10 DEF UIPost, UIAt
  <2>2. UICost[Head(ui)] = Cost[Posted(Head(ui).arg)] + 1
    BY <2>1, <1>6 DEF UICost
  <2>3. Total(aq', Cost) = Total(aq, Cost) + Cost[Posted(Head(ui).arg)]
    BY <2>1, <1>7, PostCost
  <2>4. Total(ui', UICost) = Total(Tail(ui), UICost) /\ ui # <<>> /\ UNCHANGED <<todo, dq, topq, complete>>
    BY <2>1
  <2> QED BY <1>1, <1>6, <1>7, <1>4, <2>1, <2>2, <2>3, <2>4, ZenonT(60)
<1>11. CASE UISend
  <2>1. /\ ui # <<>> /\ Head(ui).op = "send" /\ ui' = <<Step("wait", NoFile)>> \o Tail(ui)
        /\ aq' = Append(aq, Sent(Head(ui).arg)) /\ UNCHANGED <<todo, dq, topq, complete>>
    BY <1>11 DEF UISend, UIAt
  <2>2. UICost[Head(ui)] = Cost[Sent(Head(ui).arg)] + 2
    BY <2>1, <1>6 DEF UICost
  <2>3. Total(aq', Cost) = Total(aq, Cost) + Cost[Sent(Head(ui).arg)]
    BY <2>1, <1>7, PostCost
  <2>4. Step("wait", NoFile) \in UISteps /\ UICost[Step("wait", NoFile)] = 1
    BY Scripts, StepFields DEF UICost
  <2>5. Total(ui', UICost) = 1 + Total(Tail(ui), UICost)
    BY <2>1, <2>4, <1>6, <1>8
  <2>6. ui # <<>> /\ UNCHANGED <<todo, dq, topq, complete>>
    BY <2>1
  <2> QED BY <1>1, <1>6, <1>7, <1>4, <2>1, <2>2, <2>3, <2>5, <2>6, ZenonT(60)
<1>12. CASE UIEdit
  <2>1. /\ ui # <<>> /\ ui' = Tail(ui) /\ UNCHANGED <<aq, todo, dq, topq, complete>>
    BY <1>12 DEF UIEdit, UIAt
  <2>2. Total(aq', Cost) = Total(aq, Cost)
    BY <2>1
  <2>3. Total(ui', UICost) = Total(Tail(ui), UICost) /\ ui # <<>> /\ UNCHANGED <<todo, dq, topq, complete>>
    BY <2>1
  <2> QED BY <1>1, <1>6, <1>4, <2>2, <2>3, Zenon
<1> QED BY <1>5, <1>9, <1>10, <1>11, <1>12 DEF WindowThread

\* Taking the head off awkawk's queue uses up its cost.
LEMMA DispatchedCost ==
  ASSUME IndInv, IndInv', aq # <<>>, Dispatched
  PROVE  /\ Head(aq) \in AItems /\ Cost[Head(aq)] \in 3..19
         /\ Total(aq, Cost) = Cost[Head(aq)] + Total(aq', Cost)
         /\ Total(ui', UICost) <= Total(ui, UICost)
<1>0. /\ ui \in Seq(UISteps) /\ aq \in Seq(AItems)
      /\ aq' = Tail(aq) /\ ui' = IF Head(aq).op = "send" THEN Tail(ui) ELSE ui
  BY DEF IndInv, TypeOK, Dispatched
<1>1. Head(aq) \in AItems
  BY <1>0
<1>2. Total(aq, Cost) = Cost[Head(aq)] + Total(Tail(aq), Cost)
  BY <1>0, Costs, TotalTail
<1>3. Total(ui', UICost) <= Total(ui, UICost)
  <2>1. CASE Head(aq).op # "send" \/ ui = <<>>
    <3>1. ui' = ui
      <4>1. SendsIn(aq) # {} => ui # <<>>
        BY ServedSends DEF IndInv, Served, UIAt
      <4>2. Head(aq).op = "send" => SendsIn(aq) # {}
        BY <1>0, SendsTail
      <4> QED BY <2>1, <4>1, <4>2, <1>0
    <3>2. Total(ui', UICost) = Total(ui, UICost)
      BY <3>1
    <3> QED BY <3>2, WorkLeftType
  <2>2. CASE Head(aq).op = "send" /\ ui # <<>>
    <3>1. /\ Head(ui) \in UISteps /\ Tail(ui) \in Seq(UISteps)
      BY <1>0, <2>2
    <3>2. /\ UICost[Head(ui)] \in Nat /\ Total(Tail(ui), UICost) \in Nat
          /\ Total(ui, UICost) = UICost[Head(ui)] + Total(Tail(ui), UICost)
      <4>1. UICost[Head(ui)] \in Nat
        BY <3>1, Costs, SMTT(30)
      <4>2. Total(Tail(ui), UICost) \in Nat
        BY <3>1, Costs, TotalType
      <4>3. Total(ui, UICost) = UICost[Head(ui)] + Total(Tail(ui), UICost)
        BY <1>0, <2>2, Costs, TotalTail
      <4> QED BY <4>1, <4>2, <4>3
    <3>3. Total(ui', UICost) = Total(Tail(ui), UICost)
      BY <1>0, <2>2
    <3>4. \A i, j \in Nat : j <= i + j
      OBVIOUS
    <3> QED BY <3>2, <3>3, <3>4, Zenon
  <2> QED BY <2>1, <2>2
<1> QED BY <1>0, <1>1, <1>2, <1>3, Costs

\* Taking c off one queue pays for what is added to two others.
LEMMA LessLeft ==
  ASSUME NEW u \in Nat, NEW v \in Nat, NEW a \in Nat, NEW b \in Nat, NEW t \in Nat, NEW r \in Nat,
         NEW d \in Nat, NEW e \in Nat, NEW p \in Nat, NEW k \in Nat, NEW c \in Nat,
         v <= u, a = c + b, r + 2 * e + 1 <= t + 2 * d + c
  PROVE  v + b + r + 2 * e + p + k < u + a + t + 2 * d + p + k
<1>1. v + b + (r + 2 * e) + 1 <= u + b + (t + 2 * d + c)
  OBVIOUS
<1> QED BY <1>1

\* A step of the awkawk thread uses up more than it leaves behind.
LEMMA AwkawkWorks ==
  ASSUME IndInv, IndInv', AwkawkThread
  PROVE  WorkLeft' < WorkLeft
<1> DEFINE cost == Cost[Head(aq)]
<1>0. /\ aq \in Seq(AItems) /\ todo \in Seq(AItems) /\ dq \in Seq(DItems)
      /\ todo' \in Seq(AItems) /\ dq' \in Seq(DItems)
  BY DEF IndInv, TypeOK
<1>1. /\ Total(ui, UICost) \in Nat /\ Total(aq, Cost) \in Nat
      /\ Total(todo, CostToPost) \in Nat
      /\ Len(dq) \in Nat /\ Len(topq) \in Nat
      /\ Total(ui', UICost) \in Nat /\ Total(aq', Cost) \in Nat
      /\ Total(todo', CostToPost) \in Nat
      /\ Len(dq') \in Nat /\ Len(topq') \in Nat
  BY WorkLeftType, WorkLeftNext
<1>2. ASSUME UNCHANGED <<topq, complete>>
      PROVE  \E m \in Nat :
               /\ WorkLeft = Total(ui, UICost) + Total(aq, Cost) + Total(todo, CostToPost)
                               + 2 * Len(dq) + Len(topq) + m
               /\ WorkLeft' = Total(ui', UICost) + Total(aq', Cost) + Total(todo', CostToPost)
                               + 2 * Len(dq') + Len(topq) + m
  <2> DEFINE m == IF complete THEN 20 ELSE 0
  <2>1. m \in Nat
    OBVIOUS
  <2>2. topq' = topq /\ complete' = complete
    BY <1>2
  <2> QED BY <2>1, <2>2, Zenon DEF WorkLeft
<1>3. ASSUME aq # <<>>, Dispatched, UNCHANGED <<topq, complete>>,
             Total(todo', CostToPost) + 2 * Len(dq') + 1
               <= Total(todo, CostToPost) + 2 * Len(dq) + cost
      PROVE  WorkLeft' < WorkLeft
  <2>1. /\ cost \in 3..19
        /\ Total(aq, Cost) = cost + Total(aq', Cost)
        /\ Total(ui', UICost) <= Total(ui, UICost)
    BY <1>3, DispatchedCost
  <2>2. PICK m \in Nat :
               /\ WorkLeft = Total(ui, UICost) + Total(aq, Cost) + Total(todo, CostToPost)
                               + 2 * Len(dq) + Len(topq) + m
               /\ WorkLeft' = Total(ui', UICost) + Total(aq', Cost) + Total(todo', CostToPost)
                               + 2 * Len(dq') + Len(topq) + m
    BY <1>2, <1>3
  <2>3. Total(todo', CostToPost) + 2 * Len(dq') + 1
          <= Total(todo, CostToPost) + 2 * Len(dq) + cost
    BY <1>3
  <2> HIDE DEF cost
  <2>4. cost \in Nat
    BY <2>1
  <2> QED BY <1>1, <2>1, <2>2, <2>3, <2>4, LessLeft, ZenonT(60)
<1>4. CASE DoLoad \/ DoUnload \/ DoTransport
  <2>1. aq # <<>> /\ Dispatched /\ UNCHANGED <<todo, topq, complete>>
    BY <1>4 DEF DoLoad, DoUnload, DoTransport, Runs
  <2>2. \E x \in DItems : dq' = Append(dq, x)
    <3>1. \E e \in GraphEvents, st \in States : Command(e, st)
      BY <1>4 DEF DoLoad, DoUnload, DoTransport, GraphEvents, States
    <3> QED BY <3>1, CommandTypes DEF Command
  <2>3. Len(dq') = Len(dq) + 1
    BY <1>0, <2>2
  <2>4. Total(todo', CostToPost) = Total(todo, CostToPost)
    BY <2>1
  <2>5. cost \in 3..19
    BY <2>1, DispatchedCost
  <2>6. Total(todo', CostToPost) + 2 * Len(dq') + 1
          <= Total(todo, CostToPost) + 2 * Len(dq) + cost
    <3> HIDE DEF cost
    <3> QED BY <1>1, <2>3, <2>4, <2>5, SMTT(30)
  <2> QED BY <1>3, <2>1, <2>6
<1>5. CASE DoTrackChangeEmpty \/ DropEvent
  <2>1. aq # <<>> /\ Dispatched /\ UNCHANGED <<todo, dq, topq, complete>>
    BY <1>5 DEF DoTrackChangeEmpty, RunsChange, DropEvent, Runs
  <2>2. Total(todo', CostToPost) = Total(todo, CostToPost) /\ Len(dq') = Len(dq)
    BY <2>1
  <2>3. cost \in 3..19
    BY <2>1, DispatchedCost
  <2>4. Total(todo', CostToPost) + 2 * Len(dq') + 1
          <= Total(todo, CostToPost) + 2 * Len(dq) + cost
    <3> HIDE DEF cost
    <3> QED BY <1>1, <2>2, <2>3
  <2> QED BY <1>3, <2>1, <2>4
<1>6. ASSUME NEW x \in AItems, NEW q \in Seq(AItems)
      PROVE  /\ <<x>> \o q \in Seq(AItems)
             /\ Total(q, CostToPost) \in Nat
             /\ Total(<<x>> \o q, CostToPost) = Cost[x] + 1 + Total(q, CostToPost)
  <2>1. /\ <<x>> \o q \in Seq(AItems) /\ <<x>> \o q # <<>>
        /\ Head(<<x>> \o q) = x /\ Tail(<<x>> \o q) = q
    BY Cons
  <2> QED BY <2>1, Costs, TotalTail, TotalType DEF CostToPost
<1>7. /\ \A e \in {"stop", "unload", "load", "play"} : Posted(e) \in AItems /\ Cost[Posted(e)] = 3
      /\ \A mv \in Moves, r \in BOOLEAN : Change(mv, r) \in AItems /\ Cost[Change(mv, r)] = 9
  <2>1. /\ \A e \in {"stop", "unload", "load", "play"} : Posted(e) \in AItems
        /\ \A mv \in Moves, r \in BOOLEAN : Change(mv, r) \in AItems
    BY ItemTypes DEF Events, GraphEvents
  <2> QED BY <2>1 DEF Cost, Posted, Change, Moves
<1>8. <<>> \in Seq(AItems) /\ Total(<<>>, CostToPost) = 0 /\ \A q \in Seq(AItems) : <<>> \o q = q
  <2>1. <<>> \in Seq(AItems) /\ \A q \in Seq(AItems) : <<>> \o q = q
    OBVIOUS
  <2> QED BY <2>1, Costs, TotalType
<1>9. CASE DoTrackChange
  <2>1. /\ aq # <<>> /\ todo = <<>> /\ Dispatched /\ UNCHANGED <<dq, topq, complete>>
        /\ Head(aq).arg \in Moves /\ Head(aq).op \in {"post", "send"}
    BY <1>9, ChangeEvents DEF DoTrackChange, RunsChange, Runs
  <2>2. cost = 19
    BY <2>1, DispatchedCost DEF Cost
  <2> DEFINE ch == Change(Head(aq).arg, astate = "playing")
             c == <<ch>> \o <<>>
             u == <<Posted("unload")>> \o c
             h == <<Posted("stop")>> \o u
  <2>3. /\ c \in Seq(AItems) /\ Total(c, CostToPost) = 10
        /\ u \in Seq(AItems) /\ Total(u, CostToPost) = 14
        /\ Total(h, CostToPost) = 18
        /\ Total(<<Posted("stop")>> \o c, CostToPost) = 14
    <3>1. ch \in AItems /\ Cost[ch] = 9
      BY <1>7, <2>1
    <3>2. 9 + 1 + 0 = 10 /\ 3 + 1 + 10 = 14 /\ 3 + 1 + 14 = 18
      OBVIOUS
    <3>3. c \in Seq(AItems) /\ Total(c, CostToPost) = 10
      <4> HIDE DEF ch
      <4> QED BY <1>6, <1>8, <3>1, <3>2, ZenonT(60)
    <3> HIDE DEF c
    <3>4. /\ Posted("stop") \in AItems /\ Cost[Posted("stop")] = 3
          /\ Posted("unload") \in AItems /\ Cost[Posted("unload")] = 3
      BY <1>7
    <3>5. u \in Seq(AItems) /\ Total(u, CostToPost) = 14
      BY <1>6, <3>2, <3>3, <3>4, Zenon
    <3>6. Total(<<Posted("stop")>> \o c, CostToPost) = 14
      BY <1>6, <3>2, <3>3, <3>4, Zenon
    <3> HIDE DEF u
    <3>7. Total(h, CostToPost) = 18
      BY <1>6, <3>2, <3>4, <3>5, Zenon
    <3> HIDE DEF h
    <3> QED BY <3>3, <3>5, <3>6, <3>7
  <2>4. todo' \in {c, u, h, <<Posted("stop")>> \o c}
    <3>1. c = <<ch>>
      OBVIOUS
    <3>2. \A x, y, z \in AItems : <<x>> \o <<y>> \o <<z>> = <<x>> \o (<<y>> \o <<z>>)
      OBVIOUS
    <3>3. /\ Posted("stop") \in AItems /\ Posted("unload") \in AItems
          /\ ch \in AItems
      BY <1>7, <2>1
    <3>4. <<Posted("stop")>> \in Seq(AItems)  /\ <<Posted("unload")>> \in Seq(AItems) /\ <<>> \in Seq(AItems)
      BY <3>3
    <3>5. \A q \in Seq(AItems) : q \o <<>> = q /\ <<>> \o q = q
      OBVIOUS
    <3>6. todo' = (IF astate \in {"playing", "paused"} THEN <<Posted("stop")>> ELSE <<>>)
                    \o (IF astate # "unloaded" THEN <<Posted("unload")>> ELSE <<>>)
                    \o <<ch>>
      BY <1>9 DEF DoTrackChange
    <3> HIDE DEF c, ch
    <3> QED BY <2>3, <3>1, <3>2, <3>3, <3>4, <3>5, <3>6
  <2>5. Total(todo', CostToPost) <= 18 /\ Total(todo, CostToPost) = 0 /\ Len(dq') = Len(dq)
    <3> HIDE DEF c, u, h
    <3>1. Total(todo', CostToPost) \in {10, 14, 18}
      BY <2>3, <2>4, Zenon
    <3>2. Total(todo, CostToPost) = 0 /\ Len(dq') = Len(dq)
      BY <2>1, <1>8, Zenon
    <3> QED BY <3>1, <3>2
  <2> HIDE DEF c, u, h
  <2>6. Total(todo', CostToPost) + 2 * Len(dq') + 1
          <= Total(todo, CostToPost) + 2 * Len(dq) + cost
    <3> HIDE DEF cost
    <3> QED BY <1>1, <2>2, <2>5
  <2> QED BY <1>3, <2>1, <2>6
<1>10. CASE DoChange
  <2>1. /\ aq # <<>> /\ todo = <<>> /\ Dispatched /\ UNCHANGED <<dq, topq, complete>>
        /\ Head(aq).op = "change"
    BY <1>10 DEF DoChange
  <2>2. cost = 9
    BY <2>1, DispatchedCost DEF Cost
  <2> DEFINE y == <<Posted("play")>> \o <<>>
  <2>3. todo' \in {<<>>, <<Posted("load")>> \o <<>>, <<Posted("load")>> \o y}
    <3>1. y = <<Posted("play")>>
      OBVIOUS
    <3> QED BY <3>1, <1>10 DEF DoChange
  <2>4. /\ Posted("load") \in AItems /\ Cost[Posted("load")] = 3
        /\ Posted("play") \in AItems /\ Cost[Posted("play")] = 3
        /\ 3 + 1 + 0 = 4 /\ 3 + 1 + 4 = 8
    BY <1>7
  <2>5. y \in Seq(AItems) /\ Total(y, CostToPost) = 4
    BY <1>6, <1>8, <2>4, Zenon
  <2> HIDE DEF y
  <2>6. Total(<<Posted("load")>> \o <<>>, CostToPost) = 4
    BY <1>6, <1>8, <2>4, Zenon
  <2>7. Total(<<Posted("load")>> \o y, CostToPost) = 8
    BY <1>6, <2>4, <2>5, Zenon
  <2>8. Total(todo', CostToPost) \in {0, 4, 8}
    BY <2>3, <2>6, <2>7, <1>8, Zenon
  <2>9. Total(todo, CostToPost) = 0 /\ Len(dq') = Len(dq)
    BY <2>1, <1>8, Zenon
  <2>10. Total(todo', CostToPost) + 2 * Len(dq') + 1
           <= Total(todo, CostToPost) + 2 * Len(dq) + cost
    <3> HIDE DEF cost
    <3> QED BY <1>1, <2>2, <2>8, <2>9
  <2> QED BY <1>3, <2>1, <2>10
<1>11. CASE PostNext
  <2>1. /\ todo # <<>> /\ todo' = Tail(todo) /\ aq' = Append(aq, Head(todo))
        /\ UNCHANGED <<ui, dq, topq, complete>>
    BY <1>11 DEF PostNext
  <2>2. Head(todo) \in AItems /\ Tail(todo) \in Seq(AItems)
    BY <1>0, <2>1
  <2>3. Cost[Head(todo)] \in Nat /\ CostToPost[Head(todo)] = Cost[Head(todo)] + 1
    BY <2>2, Costs DEF CostToPost
  <2>4. Total(aq', Cost) = Total(aq, Cost) + Cost[Head(todo)]
    BY <2>1, <2>2, PostCost
  <2>5. Total(todo, CostToPost) = Cost[Head(todo)] + 1 + Total(todo', CostToPost)
    BY <1>0, <2>1, <2>3, Costs, TotalTail
  <2>6. Total(ui', UICost) = Total(ui, UICost) /\ Len(dq') = Len(dq)
    BY <2>1
  <2> DEFINE k == Cost[Head(todo)]
  <2>7. /\ k \in Nat /\ Total(aq', Cost) = Total(aq, Cost) + k
        /\ Total(todo, CostToPost) = k + 1 + Total(todo', CostToPost)
    BY <2>3, <2>4, <2>5
  <2>8. PICK m \in Nat :
               /\ WorkLeft = Total(ui, UICost) + Total(aq, Cost) + Total(todo, CostToPost)
                               + 2 * Len(dq) + Len(topq) + m
               /\ WorkLeft' = Total(ui', UICost) + Total(aq', Cost) + Total(todo', CostToPost)
                               + 2 * Len(dq') + Len(topq) + m
    BY <1>2, <2>1
  <2> HIDE DEF k
  <2>9. \A u, a, r, d, p, q \in Nat :
          u + (a + k) + r + 2 * d + p + q < u + a + (k + 1 + r) + 2 * d + p + q
    BY <2>7
  <2> QED BY <1>1, <2>6, <2>7, <2>8, <2>9, ZenonT(60)
<1> QED BY <1>4, <1>5, <1>9, <1>10, <1>11 DEF AwkawkThread

\* A step of DirectShow's thread uses up a command; at most its callback is left.
LEMMA GraphWorks ==
  ASSUME IndInv, IndInv', GraphThread
  PROVE  WorkLeft' < WorkLeft
<1>0. dq \in Seq(DItems) /\ topq \in Seq(BOOLEAN) /\ dq' \in Seq(DItems) /\ topq' \in Seq(BOOLEAN)
  BY DEF IndInv, TypeOK
<1>1. /\ Total(ui, UICost) \in Nat /\ Total(aq, Cost) \in Nat
      /\ Total(todo, CostToPost) \in Nat
      /\ Len(dq) \in Nat /\ Len(topq) \in Nat
      /\ Len(dq') \in Nat /\ Len(topq') \in Nat
  BY WorkLeftType, WorkLeftNext
<1>2. (IF complete THEN 20 ELSE 0) \in Nat
  OBVIOUS
<1>3. dq # <<>> /\ CallBack /\ UNCHANGED <<ui, aq, todo, complete>>
  BY DEF GraphThread, GraphLoad, GraphUnload, GraphTransport, GraphFails, GraphDrops, GraphRuns
<1>4. Len(dq) = Len(dq') + 1
  BY <1>0, <1>3 DEF CallBack
<1>5. Len(topq') <= Len(topq) + 1
  BY <1>0, <1>1, <1>3 DEF CallBack
<1>6. /\ Total(ui', UICost) = Total(ui, UICost) /\ Total(aq', Cost) = Total(aq, Cost)
      /\ Total(todo', CostToPost) = Total(todo, CostToPost)
      /\ (IF complete' THEN 20 ELSE 0) = (IF complete THEN 20 ELSE 0)
  BY <1>3
<1> QED BY <1>1, <1>2, <1>4, <1>5, <1>6, SMTT(30) DEF WorkLeft

\* The end of a track is held by the media event thread or is in the queue.
LEMMA MediaWorks ==
  ASSUME IndInv, IndInv', MediaEvent
  PROVE  WorkLeft' < WorkLeft
<1>1. /\ Total(ui, UICost) \in Nat /\ Total(aq, Cost) \in Nat
      /\ Total(todo, CostToPost) \in Nat
      /\ Len(dq) \in Nat /\ Len(topq) \in Nat
  BY WorkLeftType
<1>2. complete /\ ~complete' /\ UNCHANGED <<ui, todo, dq, topq>>
      /\ aq' = Append(aq, Posted("transitioning"))
  BY DEF MediaEvent
<1>3. Posted("transitioning") \in AItems /\ Cost[Posted("transitioning")] = 19
  <2>1. Posted("transitioning") \in AItems
    BY ItemTypes DEF Events, Moves
  <2> QED BY <2>1 DEF Cost, Posted, Moves
<1>4. Total(aq', Cost) = Total(aq, Cost) + 19
  BY <1>2, <1>3, PostCost
<1>5. /\ Total(ui', UICost) = Total(ui, UICost)
      /\ Total(todo', CostToPost) = Total(todo, CostToPost)
      /\ Len(dq') = Len(dq) /\ Len(topq') = Len(topq)
      /\ (IF complete' THEN 20 ELSE 0) = 0 /\ (IF complete THEN 20 ELSE 0) = 20
  BY <1>2
<1> QED BY <1>1, <1>4, <1>5, SMTT(30) DEF WorkLeft

\* As long as nobody asks for anything the work runs out: no command or event,
\* whatever the states of the machines and however the threads interleave, has
\* them post events to each other for ever.  (Each step of a thread leaves less
\* to be done than it found, for any number of pending stimuli.)
THEOREM WorkRunsOut ==
  Spec => [][WindowThread \/ AwkawkThread \/ GraphThread \/ MediaEvent
               => WorkLeft' < WorkLeft]_vars
<1>1. IndInv /\ IndInv'
        => (WindowThread \/ AwkawkThread \/ GraphThread \/ MediaEvent => WorkLeft' < WorkLeft)
  BY WindowWorks, AwkawkWorks, GraphWorks, MediaWorks
<1> QED BY <1>1, Inductive, PTL

-----------------------------------------------------------------------------
(* The backlog *)

\* A queue has no more items than stones.
LEMMA TotalAtLeast ==
  ASSUME NEW S, NEW w \in [S -> 0..22], \A x \in S : w[x] # 0, NEW q \in Seq(S)
  PROVE  Len(q) <= Total(q, w)
<1> DEFINE f == [i \in 1..Len(q) |-> <<i, 1>>]
<1>1. f \in Injection(1..Len(q), Stones(q, w))
  <2>1. ASSUME NEW i \in 1..Len(q) PROVE <<i, 1>> \in Stones(q, w)
    <3>1. q[i] \in S
      OBVIOUS
    <3>2. w[q[i]] \in 1..22
      BY <3>1
    <3> QED BY <3>2, SMTT(30) DEF Stones
  <2>2. f \in [1..Len(q) -> Stones(q, w)]
    BY <2>1
  <2>3. ASSUME NEW i \in 1..Len(q), NEW j \in 1..Len(q), f[i] = f[j] PROVE i = j
    BY <2>3
  <2> QED BY <2>2, <2>3 DEF Injection, IsInjective
<1>2. IsFiniteSet(Stones(q, w))
  BY TotalType
<1>3. Len(q) \in Nat
  OBVIOUS
<1> HIDE DEF f
<1>4. Cardinality(1..Len(q)) <= Cardinality(Stones(q, w))
  BY <1>1, <1>2, FS_Injection
<1> QED BY <1>3, <1>4, CountUpTo DEF Total

\* A command of the window thread, however far it has come, is at most 22 steps.
ShortCommand == Total(ui, UICost) <= 22

\* What is pending, step by step.
LEMMA PendingWork ==
  ASSUME IndInv, ShortCommand
  PROVE  Pending \in Nat /\ Pending <= WorkLeft /\ WorkLeft <= 22 * Pending
<1>0. /\ ui \in Seq(UISteps) /\ aq \in Seq(AItems) /\ todo \in Seq(AItems)
      /\ dq \in Seq(DItems) /\ topq \in Seq(BOOLEAN)
  BY DEF IndInv, TypeOK
<1>1. /\ Total(ui, UICost) \in Nat /\ Total(aq, Cost) \in Nat
      /\ Total(todo, CostToPost) \in Nat
      /\ Len(dq) \in Nat /\ Len(topq) \in Nat
  BY WorkLeftType
<1>2. Len(ui) \in Nat /\ Len(aq) \in Nat /\ Len(todo) \in Nat
  BY <1>0
<1>3. /\ \A x \in UISteps : UICost[x] # 0
      /\ \A x \in AItems : Cost[x] # 0 /\ CostToPost[x] # 0
  BY Costs
<1>4. /\ Len(ui) <= Total(ui, UICost) /\ Len(aq) <= Total(aq, Cost)
      /\ Len(todo) <= Total(todo, CostToPost)
  BY <1>0, <1>3, Costs, TotalAtLeast
<1>5. Total(aq, Cost) <= Len(aq) * 22 /\ Total(todo, CostToPost) <= Len(todo) * 22
  BY <1>0, Costs, TotalType
<1> DEFINE u == IF ui # <<>> THEN 1 ELSE 0
           c == IF complete THEN 1 ELSE 0
<1>6. u \in Nat /\ u <= Total(ui, UICost) /\ Total(ui, UICost) <= 22 * u
  <2>1. CASE ui = <<>>
    <3>1. Total(ui, UICost) = 0
      BY <2>1, <1>0, Costs, TotalType
    <3>2. u = 0
      BY <2>1
    <3> HIDE DEF u
    <3> QED BY <3>1, <3>2
  <2>2. CASE ui # <<>>
    <3>1. Len(ui) # 0
      BY <1>0, <2>2
    <3>2. u = 1
      BY <2>2
    <3> HIDE DEF u
    <3> QED BY <1>1, <1>2, <1>4, <3>1, <3>2 DEF ShortCommand
  <2> QED BY <2>1, <2>2
<1>7. c \in Nat /\ (IF complete THEN 20 ELSE 0) = 20 * c
  OBVIOUS
<1>8. Pending = Len(aq) + Len(todo) + Len(dq) + Len(topq) + u + c
  BY DEF Pending
<1>9. WorkLeft = Total(ui, UICost) + Total(aq, Cost) + Total(todo, CostToPost)
                   + 2 * Len(dq) + Len(topq) + 20 * c
  <2> HIDE DEF u, c
  <2> QED BY <1>7, Zenon DEF WorkLeft
<1> DEFINE tu == Total(ui, UICost)
           ta == Total(aq, Cost)
           tt == Total(todo, CostToPost)
           la == Len(aq)
           lt == Len(todo)
           ld == Len(dq)
           lp == Len(topq)
<1>10. /\ tu \in Nat /\ ta \in Nat /\ tt \in Nat /\ la \in Nat /\ lt \in Nat /\ ld \in Nat /\ lp \in Nat
       /\ la <= ta /\ ta <= la * 22 /\ lt <= tt /\ tt <= lt * 22 /\ u <= tu /\ tu <= 22 * u
       /\ u \in Nat /\ c \in Nat
  BY <1>1, <1>2, <1>4, <1>5, <1>6, <1>7
<1>11. Pending = la + lt + ld + lp + u + c /\ WorkLeft = tu + ta + tt + 2 * ld + lp + 20 * c
  BY <1>8, <1>9, Zenon
<1> HIDE DEF u, c, tu, ta, tt, la, lt, ld, lp
<1> QED BY <1>10, <1>11

\* The larger of the two bounds on what may be pending when a stimulus comes.
Most == IF MaxPending <= MaxBacklog THEN MaxBacklog ELSE MaxPending

\* What the user asks for, or the end of a track, is at most 22 steps: opening a
\* file takes most.
LEMMA StimulusAdds ==
  ASSUME IndInv, User \/ TrackEnds
  PROVE  /\ Pending < Most /\ UNCHANGED <<todo, dq, topq>>
         /\ \/ UNCHANGED <<ui, aq, complete>>
            \/ /\ UNCHANGED <<ui, aq>> /\ ~complete /\ complete'
            \/ /\ UNCHANGED <<ui, complete>>
               /\ \E e \in Events : aq' = Append(aq, Posted(e))
            \/ /\ UNCHANGED <<aq, complete>> /\ ui = <<>>
               /\ \/ \E f \in Files : ui' \in {OpenScript(f), <<Step("check", NoFile), Step("send", "unload"), Step("clear", NoFile)>> \o OpenScript(f)}
                  \/ ui' = CloseIt
<1>0. Pending < MaxPending \/ Pending < MaxBacklog => Pending < Most
  <2>1. Len(aq) \in Nat /\ Len(todo) \in Nat /\ Len(dq) \in Nat /\ Len(topq) \in Nat
    BY DEF IndInv, TypeOK
  <2>2. Pending \in Nat
    BY <2>1 DEF Pending
  <2> QED BY <2>2, ControlAssumption DEF Most
<1>1. CASE \E e \in {"play", "pause", "stop", "next", "previous"} : Press(e)
  BY <1>0, <1>1 DEF Press, Ready, Events, GraphEvents, Moves
<1>2. CASE \E m \in UserModes : SelectMode(m)
  BY <1>0, <1>2 DEF SelectMode, Ready
<1>3. CASE \E f \in Files : OpenFile(f)
  BY <1>0, <1>3 DEF OpenFile, Ready
<1>4. CASE CloseFile
  BY <1>0, <1>4 DEF CloseFile, Ready, CloseIt
<1>5. CASE TrackEnds
  BY <1>0, <1>5 DEF TrackEnds
<1> QED BY <1>1, <1>2, <1>3, <1>4, <1>5 DEF User

\* The steps of the window thread's commands.
LEMMA CommandCost ==
  /\ Total(CloseIt, UICost) = 9
  /\ \A f \in Files :
       /\ Total(OpenScript(f), UICost) = 10
       /\ Total(<<Step("check", NoFile), Step("send", "unload"), Step("clear", NoFile)>> \o OpenScript(f), UICost) = 22
<1>1. /\ \A e \in {"stop", "unload", "load", "play"} :
           Step("post", e) \in UISteps /\ UICost[Step("post", e)] = 4
      /\ Step("send", "unload") \in UISteps /\ UICost[Step("send", "unload")] = 5
      /\ \A o \in {"clear", "next"} : Step(o, NoFile) \in UISteps /\ UICost[Step(o, NoFile)] = 1
      /\ Step("check", NoFile) \in UISteps /\ UICost[Step("check", NoFile)] = 6
      /\ \A f \in Files : Step("add", f) \in UISteps /\ UICost[Step("add", f)] = 1
  <2>1. \A e \in {"stop", "unload", "load", "play"} :
          /\ Posted(e) \in AItems /\ Cost[Posted(e)] = 3 /\ Sent(e) \in AItems /\ Cost[Sent(e)] = 3
    <3>1. \A e \in {"stop", "unload", "load", "play"} : Posted(e) \in AItems /\ Sent(e) \in AItems
      BY ItemTypes DEF Events, GraphEvents
    <3> QED BY <3>1 DEF Cost, Posted, Sent, Moves
  <2>2. /\ \A e \in {"stop", "unload", "load", "play"} : Step("post", e) \in UISteps
        /\ Step("send", "unload") \in UISteps /\ Step("check", NoFile) \in UISteps
        /\ \A o \in {"clear", "next"} : Step(o, NoFile) \in UISteps
        /\ \A f \in Files : Step("add", f) \in UISteps
    BY DEF UISteps, Step, Events, GraphEvents
  <2> QED BY <2>1, <2>2, StepFields DEF UICost
<1>2. <<>> \in Seq(UISteps) /\ Total(<<>>, UICost) = 0
  <2>1. <<>> \in Seq(UISteps)
    OBVIOUS
  <2> QED BY <2>1, Costs, TotalType
<1>3. ASSUME NEW q \in Seq(UISteps), q # <<>>
      PROVE  Total(q, UICost) = UICost[Head(q)] + Total(Tail(q), UICost)
  BY <1>3, Costs, TotalTail
<1>4. /\ MoveToIt \in Seq(UISteps) /\ LoadIt \in Seq(UISteps) /\ PlayIt \in Seq(UISteps)
      /\ CloseIt \in Seq(UISteps) /\ UnloadIt \in Seq(UISteps) /\ ClearIt \in Seq(UISteps)
  BY <1>1 DEF MoveToIt, LoadIt, PlayIt, CloseIt, UnloadIt, ClearIt
<1> DEFINE post(e) == UICost[Step("post", e)]
           edit(o) == UICost[Step(o, NoFile)]
           add(f)  == UICost[Step("add", f)]
           send    == UICost[Step("send", "unload")]
<1>5. /\ post("stop") = 4 /\ post("unload") = 4 /\ post("load") = 4 /\ post("play") = 4
      /\ edit("clear") = 1 /\ edit("next") = 1 /\ edit("check") = 6 /\ send = 5
      /\ \A f \in Files : add(f) = 1
  BY <1>1
<1>6. /\ Total(PlayIt, UICost) = post("play") + Total(<<>>, UICost)
      /\ Total(LoadIt, UICost) = post("load") + Total(PlayIt, UICost)
      /\ Total(MoveToIt, UICost) = edit("next") + Total(LoadIt, UICost)
  <2>1. Total(PlayIt, UICost) = post("play") + Total(<<>>, UICost)
    BY <1>3, <1>4, LastSteps, Zenon
  <2>2. Total(LoadIt, UICost) = post("load") + Total(PlayIt, UICost)
    BY <1>3, <1>4, LastSteps, Zenon
  <2>3. Total(MoveToIt, UICost) = edit("next") + Total(LoadIt, UICost)
    BY <1>3, <1>4, LastSteps, Zenon
  <2> QED BY <2>1, <2>2, <2>3
<1>7. /\ Total(ClearIt, UICost) = edit("clear") + Total(<<>>, UICost)
      /\ Total(UnloadIt, UICost) = post("unload") + Total(ClearIt, UICost)
      /\ Total(CloseIt, UICost) = post("stop") + Total(UnloadIt, UICost)
  <2>1. Total(ClearIt, UICost) = edit("clear") + Total(<<>>, UICost)
    BY <1>3, <1>4, CloseSteps, Zenon
  <2>2. Total(UnloadIt, UICost) = post("unload") + Total(ClearIt, UICost)
    BY <1>3, <1>4, CloseSteps, Zenon
  <2>3. Total(CloseIt, UICost) = post("stop") + Total(UnloadIt, UICost)
    BY <1>3, <1>4, CloseSteps, Zenon
  <2> QED BY <2>1, <2>2, <2>3
<1>8. ASSUME NEW f \in Files
      PROVE  /\ Total(OpenScript(f), UICost) = add(f) + Total(MoveToIt, UICost)
             /\ Total(ClearFor(f), UICost) = edit("clear") + Total(OpenScript(f), UICost)
             /\ Total(UnloadFor(f), UICost) = send + Total(ClearFor(f), UICost)
             /\ Total(<<Step("check", NoFile), Step("send", "unload"), Step("clear", NoFile)>> \o OpenScript(f), UICost)
                  = edit("check") + Total(UnloadFor(f), UICost)
  <2>1. Total(OpenScript(f), UICost) = add(f) + Total(MoveToIt, UICost)
    BY <1>3, OpenScripts, Zenon
  <2>2. Total(ClearFor(f), UICost) = edit("clear") + Total(OpenScript(f), UICost)
    BY <1>3, OpenScripts, Zenon
  <2>3. Total(UnloadFor(f), UICost) = send + Total(ClearFor(f), UICost)
    BY <1>3, OpenScripts, Zenon
  <2> DEFINE q == <<Step("check", NoFile)>> \o UnloadFor(f)
  <2>4. q \in Seq(UISteps) /\ q # <<>> /\ Head(q) = Step("check", NoFile) /\ Tail(q) = UnloadFor(f)
    BY <1>1, OpenScripts, Cons
  <2>5. q = <<Step("check", NoFile), Step("send", "unload"), Step("clear", NoFile)>> \o OpenScript(f)
    BY OpenScripts, Zenon
  <2> HIDE DEF q
  <2>6. Total(q, UICost) = edit("check") + Total(UnloadFor(f), UICost)
    BY <1>3, <2>4, Zenon
  <2> QED BY <2>1, <2>2, <2>3, <2>5, <2>6, Zenon
<1> HIDE DEF post, edit, add, send
<1>9. Total(CloseIt, UICost) = 9
  BY <1>2, <1>5, <1>7
<1>10. Total(MoveToIt, UICost) = 9
  BY <1>2, <1>5, <1>6
<1>11. ASSUME NEW f \in Files
       PROVE  /\ Total(OpenScript(f), UICost) = 10
              /\ Total(<<Step("check", NoFile), Step("send", "unload"), Step("clear", NoFile)>> \o OpenScript(f), UICost) = 22
  <2> DEFINE script == <<Step("check", NoFile), Step("send", "unload"), Step("clear", NoFile)>> \o OpenScript(f)
  <2>1. /\ Total(OpenScript(f), UICost) = add(f) + Total(MoveToIt, UICost)
        /\ Total(ClearFor(f), UICost) = edit("clear") + Total(OpenScript(f), UICost)
        /\ Total(UnloadFor(f), UICost) = send + Total(ClearFor(f), UICost)
        /\ Total(script, UICost) = edit("check") + Total(UnloadFor(f), UICost)
        /\ add(f) = 1
    BY <1>5, <1>8
  <2> HIDE DEF script
  <2>2. Total(OpenScript(f), UICost) = 10
    BY <1>10, <2>1
  <2>3. Total(script, UICost) = 22
    BY <1>5, <2>1, <2>2
  <2> QED BY <2>2, <2>3 DEF script
<1> QED BY <1>9, <1>11

\* A stimulus adds at most 22 steps.
LEMMA StimulusCost ==
  ASSUME IndInv, IndInv', User \/ TrackEnds
  PROVE  /\ Pending < Most
         /\ WorkLeft' <= WorkLeft + 22
         /\ Total(ui', UICost) = Total(ui, UICost) \/ Total(ui', UICost) <= 22
<1>0. aq \in Seq(AItems) /\ ui \in Seq(UISteps) /\ complete \in BOOLEAN
  BY DEF IndInv, TypeOK
<1>1. /\ Total(ui, UICost) \in Nat /\ Total(aq, Cost) \in Nat
      /\ Total(todo, CostToPost) \in Nat
      /\ Len(dq) \in Nat /\ Len(topq) \in Nat
  BY WorkLeftType
<1>2. Pending < Most /\ UNCHANGED <<todo, dq, topq>>
  BY StimulusAdds
<1> DEFINE c == IF complete THEN 20 ELSE 0
<1>3. /\ Total(todo', CostToPost) = Total(todo, CostToPost) /\ Len(dq') = Len(dq) /\ Len(topq') = Len(topq)
  BY <1>2
<1>4. c \in Nat
  OBVIOUS
<1>5. /\ WorkLeft = Total(ui, UICost) + Total(aq, Cost) + Total(todo, CostToPost) + 2 * Len(dq) + Len(topq) + c
      /\ WorkLeft' = Total(ui', UICost) + Total(aq', Cost) + Total(todo, CostToPost) + 2 * Len(dq) + Len(topq) + c'
  BY <1>3, Zenon DEF WorkLeft
<1> DEFINE rest == Total(todo, CostToPost) + 2 * Len(dq) + Len(topq)
           u == Total(ui, UICost)
           a == Total(aq, Cost)
<1>6. rest \in Nat /\ u \in Nat /\ a \in Nat
  BY <1>1
<1>7. c' \in Nat /\ Total(ui', UICost) \in Nat /\ Total(aq', Cost) \in Nat
  BY WorkLeftNext
<1>8. /\ WorkLeft = u + a + rest + c
      /\ WorkLeft' = Total(ui', UICost) + Total(aq', Cost) + rest + c'
  <2> DEFINE t == Total(todo, CostToPost)
             d == Len(dq)
             p == Len(topq)
             v == Total(ui', UICost)
             b == Total(aq', Cost)
             k == c'
  <2>1. /\ t \in Nat /\ d \in Nat /\ p \in Nat /\ v \in Nat /\ b \in Nat /\ k \in Nat
        /\ u \in Nat /\ a \in Nat /\ c \in Nat
    BY <1>1, <1>4, <1>7
  <2>2. WorkLeft = u + a + t + 2 * d + p + c /\ WorkLeft' = v + b + t + 2 * d + p + k
    BY <1>5, Zenon
  <2>3. rest = t + 2 * d + p
    OBVIOUS
  <2> HIDE DEF rest, u, a, c, t, d, p, v, b, k
  <2>4. WorkLeft = u + a + rest + c /\ WorkLeft' = v + b + rest + k
    BY <2>1, <2>2, <2>3
  <2> QED BY <2>4, Zenon DEF v, b, k
<1>9. CASE UNCHANGED <<ui, aq, complete>>
  <2>1. c' = c /\ Total(ui', UICost) = Total(ui, UICost) /\ Total(aq', Cost) = Total(aq, Cost)
    BY <1>9
  <2> HIDE DEF c
  <2> QED BY <1>1, <1>2, <1>4, <1>5, <2>1
<1>10. CASE UNCHANGED <<ui, aq>> /\ ~complete /\ complete'
  <2>1. c = 0 /\ c' = 20 /\ Total(ui', UICost) = Total(ui, UICost) /\ Total(aq', Cost) = Total(aq, Cost)
    BY <1>10
  <2> HIDE DEF c
  <2> QED BY <1>1, <1>2, <1>5, <2>1, SMTT(30)
<1>11. CASE UNCHANGED <<ui, complete>> /\ \E e \in Events : aq' = Append(aq, Posted(e))
  <2>1. PICK e \in Events : aq' = Append(aq, Posted(e))
    BY <1>11
  <2> DEFINE k == Cost[Posted(e)]
  <2>2. Posted(e) \in AItems
    BY ItemTypes
  <2>3. k \in 3..19 /\ Total(aq', Cost) = Total(aq, Cost) + k
    BY <2>1, <2>2, Costs, PostCost
  <2>4. c' = c /\ Total(ui', UICost) = Total(ui, UICost)
    BY <1>11
  <2> HIDE DEF c, k, rest
  <2> QED BY <1>2, <1>4, <1>6, <1>8, <2>3, <2>4
<1>12. CASE /\ UNCHANGED <<aq, complete>> /\ ui = <<>>
            /\ \/ \E f \in Files : ui' \in {OpenScript(f), <<Step("check", NoFile), Step("send", "unload"), Step("clear", NoFile)>> \o OpenScript(f)}
               \/ ui' = CloseIt
  <2>1. Total(ui', UICost) \in {9, 10, 22}
    BY <1>12, CommandCost, Zenon
  <2>2. c' = c /\ Total(aq', Cost) = Total(aq, Cost)
    BY <1>12
  <2> HIDE DEF c, rest
  <2> QED BY <1>2, <1>4, <1>6, <1>8, <2>1, <2>2
<1> QED BY <1>9, <1>10, <1>11, <1>12, StimulusAdds

\* The other steps do not lengthen the window thread's command.
LEMMA CommandShrinks ==
  ASSUME IndInv, IndInv', AwkawkThread \/ GraphThread \/ MediaEvent
  PROVE  Total(ui', UICost) <= Total(ui, UICost)
<1>1. CASE AwkawkThread
  <2>1. CASE aq # <<>> /\ Dispatched
    BY <2>1, DispatchedCost
  <2>2. CASE ui' = ui
    <3>1. Total(ui', UICost) = Total(ui, UICost)
      BY <2>2
    <3> QED BY <3>1, WorkLeftType
  <2> QED BY <1>1, <2>1, <2>2
        DEF AwkawkThread, DoLoad, DoUnload, DoTransport, DoTrackChange, DoTrackChangeEmpty, DoChange,
            PostNext, DropEvent, Runs, RunsChange
<1>2. CASE GraphThread \/ MediaEvent
  <2>1. ui' = ui
    BY <1>2 DEF GraphThread, GraphLoad, GraphUnload, GraphTransport, GraphFails, GraphDrops, MediaEvent
  <2>2. Total(ui', UICost) = Total(ui, UICost)
    BY <2>1
  <2> QED BY <2>2, WorkLeftType
<1> QED BY <1>1, <1>2

Backlog == ShortCommand /\ WorkLeft <= 22 * Most

\* A stimulus comes only when little is pending, and every other step works
\* the backlog off.
LEMMA BacklogKept ==
  ASSUME IndInv, IndInv', Backlog, [Next]_vars
  PROVE  Backlog'
<1>1. /\ WorkLeft \in Nat /\ WorkLeft' \in Nat /\ Most \in Nat
      /\ Total(ui, UICost) \in Nat /\ Total(ui', UICost) \in Nat
  BY WorkLeftType, WorkLeftNext, ControlAssumption DEF Most
<1>2. SUFFICES Total(ui', UICost) <= 22 /\ WorkLeft' <= 22 * Most
  BY DEF Backlog, ShortCommand
<1> USE DEF Backlog, ShortCommand
<1>3. CASE WindowThread
  BY <1>1, <1>3, WindowWorks
<1>4. CASE AwkawkThread
  BY <1>1, <1>4, AwkawkWorks, CommandShrinks
<1>5. CASE GraphThread
  BY <1>1, <1>5, GraphWorks, CommandShrinks
<1>6. CASE MediaEvent
  BY <1>1, <1>6, MediaWorks, CommandShrinks
<1>7. CASE User \/ TrackEnds
  <2>1. /\ Pending < Most /\ WorkLeft' <= WorkLeft + 22
        /\ Total(ui', UICost) = Total(ui, UICost) \/ Total(ui', UICost) <= 22
    BY <1>7, StimulusCost
  <2>2. Pending \in Nat /\ WorkLeft <= 22 * Pending
    BY PendingWork
  <2> QED BY <1>1, <2>1, <2>2
<1>8. CASE UNCHANGED vars
  <2>1. UNCHANGED <<ui, aq, todo, dq, topq, complete>>
    BY <1>8 DEF vars
  <2>2. Total(ui', UICost) = Total(ui, UICost) /\ WorkLeft' = WorkLeft
    BY <2>1, Zenon DEF WorkLeft
  <2> QED BY <2>2
<1> QED BY <1>3, <1>4, <1>5, <1>6, <1>7, <1>8 DEF Next

\* At the start nothing is pending.
LEMMA BacklogInit == IndInv /\ Init => Backlog
<1> SUFFICES ASSUME IndInv, Init PROVE Backlog
  OBVIOUS
<1>1. Idle
  BY IdleEmpty DEF Init
<1>2. WorkLeft = 0
  BY <1>1, WorkLeftType
<1>3. Total(ui, UICost) = 0
  <2>1. ui = <<>> /\ ui \in Seq(UISteps)
    BY DEF Init
  <2> QED BY <2>1, Costs, TotalType
<1> QED BY <1>2, <1>3, ControlAssumption DEF Backlog, ShortCommand, Most

\* The queues stay short: however the user and the end of a track are timed, a
\* bound on what may be pending when a stimulus comes (Most) bounds everything
\* that is ever queued between the threads, 22 times over.
THEOREM QueuesStayShort ==
  Spec => [](Pending <= WorkLeft /\ WorkLeft <= 22 * Most)
<1>1. IndInv /\ Backlog => Pending <= WorkLeft /\ WorkLeft <= 22 * Most
  BY PendingWork DEF Backlog
<1>2. IndInv /\ IndInv' /\ Backlog /\ [Next]_vars => Backlog'
  BY BacklogKept
<1> QED BY <1>1, <1>2, BacklogInit, Inductive, PTL DEF Spec

-----------------------------------------------------------------------------
(* Everything that is asked for is done *)

\* When the threads can take a step, and the fairness they need: WF_vars(A) is
\* that again and again A cannot take place, or again and again it does.  The
\* prover knows nothing of ENABLED, so what each thread needs is written out.
WindowCan == IF ui = <<>> THEN topq # <<>> ELSE Head(ui).op # "wait"
AwkawkCan == todo # <<>> \/ aq # <<>>
GraphCan  == dq # <<>>
MediaCan  == complete

ThreadsRun ==
  /\ []<>~WindowCan \/ []<><<WindowThread>>_vars
  /\ []<>~AwkawkCan \/ []<><<AwkawkThread>>_vars
  /\ []<>~GraphCan  \/ []<><<GraphThread>>_vars
  /\ []<>~MediaCan  \/ []<><<MediaEvent>>_vars

Left(n)  == WorkLeft <= n
Done(n)  == <>[](Left(n) => <>Idle)

\* The threads never wait for each other in a circle: while anything is pending
\* one of them can go on, and what it does leaves less to do, unless a track
\* ends.
LEMMA BusySteps ==
  ASSUME MaxPending = 1, IndInv, ~Idle, NEW n \in Nat, NEW m \in Nat, m = n + 1, Left(m)
  PROVE  /\ WindowCan \/ AwkawkCan \/ GraphCan \/ MediaCan
         /\ IndInv' /\ [Next]_vars /\ ~<<TrackEnds>>_vars
              => \/ Left(n)'
                 \/ /\ Left(m)'
                    /\ WindowCan => WindowCan'
                    /\ AwkawkCan => AwkawkCan'
                    /\ GraphCan => GraphCan'
                    /\ MediaCan => MediaCan'
         /\ IndInv' /\ <<WindowThread>>_vars => Left(n)'
         /\ IndInv' /\ <<AwkawkThread>>_vars => Left(n)'
         /\ IndInv' /\ <<GraphThread>>_vars => Left(n)'
         /\ IndInv' /\ <<MediaEvent>>_vars => Left(n)'
<1>1. WindowCan \/ AwkawkCan \/ GraphCan \/ MediaCan
  <2>1. aq \in Seq(AItems)
    BY DEF IndInv, TypeOK
  <2>2. ~(ui = <<>> /\ aq = <<>> /\ todo = <<>> /\ dq = <<>> /\ topq = <<>> /\ ~complete)
    BY IdleEmpty
  <2>3. UIAt("wait") => aq # <<>>
    BY <2>1, ServedSends DEF IndInv, Served, SendsIn
  <2> QED BY <2>2, <2>3 DEF WindowCan, AwkawkCan, GraphCan, MediaCan, UIAt
<1>2. ASSUME IndInv', WindowThread \/ AwkawkThread \/ GraphThread \/ MediaEvent
      PROVE  Left(n)'
  <2>1. WorkLeft' < WorkLeft
    BY <1>2, WindowWorks, AwkawkWorks, GraphWorks, MediaWorks
  <2>2. WorkLeft \in Nat /\ WorkLeft' \in Nat
    BY <1>2, WorkLeftType, WorkLeftNext
  <2> QED BY <2>1, <2>2 DEF Left
<1>3. ~User
  <2>1. User => Pending < MaxPending
    BY DEF User, Press, SelectMode, OpenFile, CloseFile, Ready
  <2>2. Pending \in Nat /\ Pending # 0
    <3>1. aq \in Seq(AItems) /\ todo \in Seq(AItems) /\ dq \in Seq(DItems) /\ topq \in Seq(BOOLEAN)
      BY DEF IndInv, TypeOK
    <3>2. Len(aq) \in Nat /\ Len(todo) \in Nat /\ Len(dq) \in Nat /\ Len(topq) \in Nat
      BY <3>1
    <3>3. Pending \in Nat
      BY <3>2 DEF Pending
    <3> QED BY <3>3 DEF Idle
  <2> QED BY <2>1, <2>2
<1>4. ASSUME UNCHANGED vars
      PROVE  /\ Left(m)'
             /\ WindowCan => WindowCan'
             /\ AwkawkCan => AwkawkCan'
             /\ GraphCan => GraphCan'
             /\ MediaCan => MediaCan'
  <2>1. UNCHANGED <<ui, aq, todo, dq, topq, complete>>
    BY <1>4 DEF vars
  <2>2. WorkLeft' = WorkLeft
    BY <2>1, Zenon DEF WorkLeft
  <2> QED BY <2>1, <2>2 DEF Left, WindowCan, AwkawkCan, GraphCan, MediaCan
<1> QED BY <1>1, <1>2, <1>3, <1>4 DEF Next

\* If what stands for n steps gets done once tracks have stopped ending, so does
\* what stands for one more.
LEMMA StepMore ==
  ASSUME MaxPending = 1, NEW CONSTANT n \in Nat, NEW CONSTANT m \in Nat, m = n + 1
  PROVE  Spec /\ ThreadsRun /\ ~[]<><<TrackEnds>>_vars => (Done(n) => Done(m))
<1>1. IndInv /\ ~Idle /\ Left(m) => WindowCan \/ AwkawkCan \/ GraphCan \/ MediaCan
  BY BusySteps
<1>2. IndInv /\ ~Idle /\ Left(m) /\ IndInv' /\ [Next]_vars /\ ~<<TrackEnds>>_vars
        => \/ Left(n)'
           \/ /\ Left(m)'
              /\ WindowCan => WindowCan'
              /\ AwkawkCan => AwkawkCan'
              /\ GraphCan => GraphCan'
              /\ MediaCan => MediaCan'
  BY BusySteps
<1>3. IndInv /\ ~Idle /\ Left(m) /\ IndInv'
        => /\ <<WindowThread>>_vars => Left(n)'
           /\ <<AwkawkThread>>_vars => Left(n)'
           /\ <<GraphThread>>_vars => Left(n)'
           /\ <<MediaEvent>>_vars => Left(n)'
  BY BusySteps
<1> QED BY <1>1, <1>2, <1>3, Inductive, PTL DEF Spec, ThreadsRun, Done

\* Four steps more.
LEMMA FourMore ==
  ASSUME MaxPending = 1, NEW CONSTANT n \in Nat, NEW CONSTANT m \in Nat, m = n + 4
  PROVE  Spec /\ ThreadsRun /\ ~[]<><<TrackEnds>>_vars => (Done(n) => Done(m))
<1>1. Spec /\ ThreadsRun /\ ~[]<><<TrackEnds>>_vars => (Done(n) => Done(n + 1))
  BY StepMore
<1>2. Spec /\ ThreadsRun /\ ~[]<><<TrackEnds>>_vars => (Done(n + 1) => Done(n + 2))
  BY StepMore
<1>3. Spec /\ ThreadsRun /\ ~[]<><<TrackEnds>>_vars => (Done(n + 2) => Done(n + 3))
  BY StepMore
<1>4. Spec /\ ThreadsRun /\ ~[]<><<TrackEnds>>_vars => (Done(n + 3) => Done(m))
  BY StepMore
<1> QED BY <1>1, <1>2, <1>3, <1>4, PTL

\* Sixteen steps more.
LEMMA SixteenMore ==
  ASSUME MaxPending = 1, NEW CONSTANT n \in Nat, NEW CONSTANT m \in Nat, m = n + 16
  PROVE  Spec /\ ThreadsRun /\ ~[]<><<TrackEnds>>_vars => (Done(n) => Done(m))
<1>1. Spec /\ ThreadsRun /\ ~[]<><<TrackEnds>>_vars => (Done(n) => Done(n + 4))
  BY FourMore
<1>2. Spec /\ ThreadsRun /\ ~[]<><<TrackEnds>>_vars => (Done(n + 4) => Done(n + 8))
  BY FourMore
<1>3. Spec /\ ThreadsRun /\ ~[]<><<TrackEnds>>_vars => (Done(n + 8) => Done(n + 12))
  BY FourMore
<1>4. Spec /\ ThreadsRun /\ ~[]<><<TrackEnds>>_vars => (Done(n + 12) => Done(m))
  BY FourMore
<1> QED BY <1>1, <1>2, <1>3, <1>4, PTL

\* Sixty-four steps more.
LEMMA SixtyFourMore ==
  ASSUME MaxPending = 1, NEW CONSTANT n \in Nat, NEW CONSTANT m \in Nat, m = n + 64
  PROVE  Spec /\ ThreadsRun /\ ~[]<><<TrackEnds>>_vars => (Done(n) => Done(m))
<1>1. Spec /\ ThreadsRun /\ ~[]<><<TrackEnds>>_vars => (Done(n) => Done(n + 16))
  BY SixteenMore
<1>2. Spec /\ ThreadsRun /\ ~[]<><<TrackEnds>>_vars => (Done(n + 16) => Done(n + 32))
  BY SixteenMore
<1>3. Spec /\ ThreadsRun /\ ~[]<><<TrackEnds>>_vars => (Done(n + 32) => Done(n + 48))
  BY SixteenMore
<1>4. Spec /\ ThreadsRun /\ ~[]<><<TrackEnds>>_vars => (Done(n + 48) => Done(m))
  BY SixteenMore
<1> QED BY <1>1, <1>2, <1>3, <1>4, PTL

\* A user who waits always gets there: as long as each of the four threads that
\* has something to do goes on with it, every command and every end of a track
\* runs to completion, whatever DirectShow calls fail, unless tracks keep ending
\* for ever.
THEOREM AlwaysSettles ==
  ASSUME MaxPending = 1, MaxBacklog <= 8
  PROVE  Spec /\ ThreadsRun => Settles
<1>1. IndInv /\ Left(0) => Idle
  BY WorkLeftType DEF Left
<1>2. IndInv /\ Backlog => Left(192)
  <2> SUFFICES ASSUME IndInv, Backlog PROVE WorkLeft <= 192
    BY DEF Left
  <2>1. Most \in 1..8
    BY ControlAssumption DEF Most
  <2> QED BY <2>1, WorkLeftType DEF Backlog
<1>3. IndInv /\ IndInv' /\ Backlog /\ [Next]_vars => Backlog'
  BY BacklogKept
<1>4. Spec /\ ThreadsRun /\ ~[]<><<TrackEnds>>_vars => (Done(0) => Done(64))
  BY SixtyFourMore
<1>5. Spec /\ ThreadsRun /\ ~[]<><<TrackEnds>>_vars => (Done(64) => Done(128))
  BY SixtyFourMore
<1>6. Spec /\ ThreadsRun /\ ~[]<><<TrackEnds>>_vars => (Done(128) => Done(192))
  BY SixtyFourMore
<1>7. Spec => Done(0)
  BY <1>1, Inductive, PTL DEF Done
<1>8. Spec => [](IndInv /\ Backlog)
  BY <1>3, BacklogInit, Inductive, PTL DEF Spec
<1>9. Done(192) /\ [](IndInv /\ Backlog) => (~Idle ~> Idle)
  BY <1>2, PTL DEF Done
<1> QED BY <1>4, <1>5, <1>6, <1>7, <1>8, <1>9, PTL DEF Settles

-----------------------------------------------------------------------------
(* The window thread comes back from its commands *)

Waiting == UIAt("wait")

\* The place of the synchronous event in awkawk's queue, and what may still come
\* before it: a dispatched event at most three more, which queue up behind it.
Place(q) == CHOOSE i : SendsIn(q) = {i}
Ahead    == 4 * Place(aq) + Len(todo)

\* The place of an event that is queued once.
LEMMA PlaceIs ==
  ASSUME NEW q, NEW i, SendsIn(q) = {i}
  PROVE  Place(q) = i
<1>1. \A k : SendsIn(q) = {k} => k = i
  OBVIOUS
<1> QED BY <1>1 DEF Place

\* While the window thread waits its event is in awkawk's queue.
LEMMA EventWaits ==
  ASSUME IndInv, Waiting
  PROVE  /\ SendsIn(aq) = {Place(aq)} /\ Place(aq) \in 1..Len(aq)
         /\ Len(aq) \in Nat /\ Len(todo) \in Nat
         /\ Ahead \in Nat /\ Ahead <= 4 * Len(aq) + Len(todo)
<1>1. aq \in Seq(AItems) /\ todo \in Seq(AItems)
  BY DEF IndInv, TypeOK
<1>2. PICK i \in DOMAIN aq : SendsIn(aq) = {i}
  BY ServedSends DEF IndInv, Served, Waiting
<1>3. Place(aq) = i
  BY <1>2, PlaceIs
<1>4. i \in 1..Len(aq) /\ Len(aq) \in Nat /\ Len(todo) \in Nat
  BY <1>1, <1>2
<1>5. 4 * Place(aq) + Len(todo) \in Nat /\ 4 * Place(aq) + Len(todo) <= 4 * Len(aq) + Len(todo)
  BY <1>3, <1>4
<1> QED BY <1>2, <1>3, <1>4, <1>5 DEF Ahead

\* Posting behind it does not move it.
LEMMA PostedBehind ==
  ASSUME IndInv, Waiting, NEW x \in AItems, x.op # "send", aq' = Append(aq, x)
  PROVE  Place(aq') = Place(aq)
<1>1. SendsIn(aq') = SendsIn(aq)
  BY SendsAppend DEF IndInv, TypeOK
<1> QED BY <1>1, EventWaits, PlaceIs

\* A dispatched event either is the one waited for or lets it move up.
LEMMA DispatchedBefore ==
  ASSUME IndInv, Waiting, Dispatched, Waiting'
  PROVE  Place(aq') = Place(aq) - 1
<1>1. aq \in Seq(AItems) /\ ui \in Seq(UISteps) /\ aq # <<>>
  BY EventWaits DEF IndInv, TypeOK, SendsIn
<1>2. Head(aq).op # "send"
  <2>1. SUFFICES ASSUME Head(aq).op = "send" PROVE FALSE
    OBVIOUS
  <2>2. ui' = Tail(ui) /\ ui # <<>>
    BY <2>1 DEF Dispatched, Waiting, UIAt
  <2>3. ui' # <<>> /\ Head(ui').op = "wait"
    BY DEF Waiting, UIAt
  <2>4. Len(ui) \in Nat /\ 2 \in DOMAIN ui /\ ui[2] = Head(ui')
    BY <1>1, <2>2, <2>3
  <2> QED BY <2>3, <2>4 DEF IndInv, Served, WaitsAtHead
<1>3. aq' = Tail(aq)
  BY DEF Dispatched
<1>4. /\ 1 \notin SendsIn(aq)
      /\ SendsIn(aq') = {i \in 1..(Len(aq) - 1) : i + 1 \in SendsIn(aq)}
  BY <1>1, <1>2, <1>3, SendsTail
<1>5. SendsIn(aq') = {Place(aq) - 1}
  <2>1. Place(aq) \in 2..Len(aq) /\ Len(aq) \in Nat /\ SendsIn(aq) = {Place(aq)}
    BY <1>4, EventWaits
  <2> QED BY <1>4, <2>1
<1> QED BY <1>5, PlaceIs

\* A running handler has at most three events to post.
LEMMA ShortHandler ==
  ASSUME IndInv, AwkawkThread, ~PostNext
  PROVE  aq # <<>> /\ todo = <<>> /\ Dispatched /\ Len(todo') \in 0..3
<1> DEFINE stop   == IF astate \in {"playing", "paused"} THEN <<Posted("stop")>> ELSE <<>>
           unload == IF astate # "unloaded" THEN <<Posted("unload")>> ELSE <<>>
           change == <<Change(Head(aq).arg, astate = "playing")>>
           play   == IF Head(aq).resume THEN <<Posted("play")>> ELSE <<>>
<1>1. \A A, B, C : Len(<<A>> \o <<B>> \o <<C>>) = 3 /\ Len(<<A>> \o <<>> \o <<B>>) = 2
                   /\ Len(<<>> \o <<A>> \o <<B>>) = 2 /\ Len(<<>> \o <<>> \o <<A>>) = 1
                   /\ Len(<<A>> \o <<B>>) = 2 /\ Len(<<A>> \o <<>>) = 1 /\ Len(<<>>) = 0
  OBVIOUS
<1>2. CASE DoTrackChange
  <2>1. todo' = stop \o unload \o change
    BY <1>2 DEF DoTrackChange
  <2>2. Len(stop \o unload \o change) \in 0..3
    BY <1>1
  <2> QED BY <1>2, <2>1, <2>2 DEF DoTrackChange, RunsChange, Runs
<1>3. CASE DoChange
  <2>1. todo' = <<>> \/ todo' = <<Posted("load")>> \o play
    BY <1>3 DEF DoChange
  <2>2. Len(<<Posted("load")>> \o play) \in 0..3
    BY <1>1
  <2> QED BY <1>1, <1>3, <2>1, <2>2 DEF DoChange
<1>4. CASE DoLoad \/ DoUnload \/ DoTransport \/ DoTrackChangeEmpty \/ DropEvent
  <2>1. aq # <<>> /\ todo = <<>> /\ Dispatched /\ todo' = todo
    BY <1>4 DEF DoLoad, DoUnload, DoTransport, DoTrackChangeEmpty, DropEvent, RunsChange, Runs
  <2> QED BY <1>1, <2>1
<1> QED BY <1>2, <1>3, <1>4 DEF AwkawkThread

\* While the window thread waits it does nothing, awkawk's thread brings its
\* event forward, and no other thread moves it back.
LEMMA SenderSteps ==
  ASSUME IndInv, IndInv', Waiting
  PROVE  /\ ~WindowThread /\ ~User
         /\ AwkawkThread /\ Waiting' => Ahead' < Ahead
         /\ GraphThread \/ TrackEnds \/ MediaEvent \/ UNCHANGED vars
              => Waiting' /\ Ahead' = Ahead
<1>0. /\ Place(aq) \in Nat /\ Len(todo) \in Nat /\ Ahead = 4 * Place(aq) + Len(todo)
      /\ aq \in Seq(AItems) /\ todo \in Seq(AItems)
  BY EventWaits DEF Ahead, IndInv, TypeOK
<1>1. ~WindowThread /\ ~User
  BY DEF Waiting, UIAt, WindowThread, UICheck, UIPost, UISend, UIEdit, UISetOnTop,
         User, Press, SelectMode, OpenFile, CloseFile, Ready
<1>2. ASSUME PostNext, Waiting'
      PROVE  Ahead' < Ahead
  <2>1. todo # <<>> /\ aq' = Append(aq, Head(todo)) /\ todo' = Tail(todo)
    BY <1>2 DEF PostNext
  <2>2. Head(todo) \in AItems /\ Len(todo') = Len(todo) - 1
    BY <1>0, <2>1
  <2>3. Head(todo).op # "send"
    <3>1. 1 \in DOMAIN todo /\ Head(todo) = todo[1]
      BY <1>0, <2>1
    <3> QED BY <3>1 DEF IndInv, Served, NoQueuedSend
  <2>4. Place(aq') = Place(aq)
    BY <2>1, <2>2, <2>3, PostedBehind
  <2> QED BY <1>0, <2>2, <2>4 DEF Ahead
<1>3. ASSUME AwkawkThread, ~PostNext, Waiting'
      PROVE  Ahead' < Ahead
  <2>1. todo = <<>> /\ Dispatched /\ Len(todo') \in 0..3
    BY <1>3, ShortHandler
  <2>2. Place(aq') = Place(aq) - 1
    BY <1>3, <2>1, DispatchedBefore
  <2>3. Ahead' = 4 * Place(aq') + Len(todo')
    BY DEF Ahead
  <2> DEFINE p == Place(aq)
             r == Place(aq')
             t == Len(todo')
  <2>4. /\ p \in Nat /\ r = p - 1 /\ t \in 0..3
        /\ Ahead = 4 * p + Len(todo) /\ Ahead' = 4 * r + t
    BY <1>0, <2>1, <2>2, <2>3
  <2>5. Len(todo) = 0
    BY <2>1
  <2> HIDE DEF p, r, t
  <2> QED BY <2>4, <2>5
<1>4. ASSUME MediaEvent
      PROVE  Waiting' /\ Ahead' = Ahead
  <2>1. aq' = Append(aq, Posted("transitioning")) /\ UNCHANGED <<ui, todo>>
    BY <1>4 DEF MediaEvent
  <2>2. Posted("transitioning") \in AItems /\ Posted("transitioning").op # "send"
    BY ItemTypes DEF Posted, Events, Moves
  <2>3. Place(aq') = Place(aq)
    BY <2>1, <2>2, PostedBehind
  <2> QED BY <2>1, <2>3 DEF Ahead, Waiting, UIAt
<1>5. ASSUME GraphThread \/ TrackEnds \/ UNCHANGED vars
      PROVE  Waiting' /\ Ahead' = Ahead
  <2>1. UNCHANGED <<ui, aq, todo>>
    BY <1>5 DEF vars, GraphThread, GraphLoad, GraphUnload, GraphTransport, GraphFails, GraphDrops,
                TrackEnds
  <2> QED BY <2>1 DEF Ahead, Waiting, UIAt
<1> QED BY <1>1, <1>2, <1>3, <1>4, <1>5

\* The window thread waits for one event only as long as awkawk's thread has
\* something to do before it: whatever is posted meanwhile, by the media event
\* thread or by awkawk's own handlers, goes behind the event and never ahead.
THEOREM SenderMovesUp ==
  Spec => [][Waiting /\ Waiting'
               => Ahead' <= Ahead /\ (AwkawkThread => Ahead' < Ahead)]_vars
<1>1. IndInv /\ IndInv' /\ [Next]_vars
        => (Waiting /\ Waiting' => Ahead' <= Ahead /\ (AwkawkThread => Ahead' < Ahead))
  <2> SUFFICES ASSUME IndInv, IndInv', [Next]_vars, Waiting, Waiting'
               PROVE  Ahead' <= Ahead /\ (AwkawkThread => Ahead' < Ahead)
    OBVIOUS
  <2>1. Ahead \in Nat
    BY EventWaits
  <2>2. Ahead' \in Nat
    <3>1. aq' \in Seq(AItems) /\ todo' \in Seq(AItems)
      BY DEF IndInv, TypeOK
    <3>2. PICK i \in DOMAIN aq' : SendsIn(aq') = {i}
      BY DEF IndInv, Served, SenderIsServed, Sends, SendsIn, Waiting
    <3>3. Place(aq') = i
      BY <3>2, PlaceIs
    <3> QED BY <3>1, <3>2, <3>3 DEF Ahead
  <2> QED BY <2>1, <2>2, SenderSteps DEF Next
<1> QED BY <1>1, Inductive, PTL DEF Spec

-----------------------------------------------------------------------------
(* The window thread comes back to its message loop *)

AheadIs(n)  == Waiting /\ Ahead <= n
Resumes(n)  == [](AheadIs(n) => <>~Waiting)

\* The bound on the backlog bounds what may come before the event.
LEMMA AheadBound ==
  ASSUME MaxPending <= 8, MaxBacklog <= 8, IndInv, Backlog, Waiting
  PROVE  Ahead \in Nat /\ Ahead <= 704
<1>1. /\ Len(aq) \in Nat /\ Len(todo) \in Nat /\ Ahead \in Nat
      /\ Ahead <= 4 * Len(aq) + Len(todo)
  BY EventWaits
<1>2. Len(dq) \in Nat /\ Len(topq) \in Nat
  BY WorkLeftType
<1>3. Len(aq) + Len(todo) <= Pending /\ Pending \in Nat
  BY <1>1, <1>2 DEF Pending
<1>4. WorkLeft \in Nat /\ Pending <= WorkLeft /\ WorkLeft <= 22 * Most
  BY PendingWork, WorkLeftType DEF Backlog
<1>5. WorkLeft <= 176
  <2>1. Most \in 1..8
    BY ControlAssumption DEF Most
  <2> QED BY <1>4, <2>1
<1>6. Len(aq) + Len(todo) <= 176
  BY <1>1, <1>3, <1>4, <1>5
<1> QED BY <1>1, <1>6

\* One step of awkawk's thread brings the event forward or runs it.
LEMMA SenderNears ==
  ASSUME NEW n \in Nat, NEW m \in Nat, m = n + 1, IndInv, IndInv', [Next]_vars, AheadIs(m)
  PROVE  /\ AwkawkCan
         /\ ~Waiting' \/ AheadIs(n)' \/ (AheadIs(m)' /\ ~AwkawkThread)
<1>1. aq # <<>> /\ Ahead \in Nat
  BY EventWaits DEF AheadIs
<1>2. Waiting' => Ahead' \in Nat
  <2> SUFFICES ASSUME Waiting' PROVE Ahead' \in Nat
    OBVIOUS
  <2>1. aq' \in Seq(AItems) /\ todo' \in Seq(AItems)
    BY DEF IndInv, TypeOK
  <2>2. PICK i \in DOMAIN aq' : SendsIn(aq') = {i}
    BY DEF IndInv, Served, SenderIsServed, Sends, SendsIn, Waiting
  <2>3. Place(aq') = i
    BY <2>2, PlaceIs
  <2> QED BY <2>1, <2>2, <2>3 DEF Ahead
<1>3. Waiting /\ Ahead <= m
  BY DEF AheadIs
<1>4. AwkawkThread /\ Waiting' => Ahead' <= n
  <2> SUFFICES ASSUME AwkawkThread, Waiting' PROVE Ahead' <= n
    OBVIOUS
  <2>1. Ahead' < Ahead /\ Ahead' \in Nat
    BY <1>2, <1>3, SenderSteps
  <2> QED BY <1>1, <1>3, <2>1
<1>5. ~AwkawkThread => Waiting' /\ Ahead' = Ahead
  BY <1>3, SenderSteps DEF Next
<1> QED BY <1>1, <1>3, <1>4, <1>5 DEF AwkawkCan, AheadIs

\* If a sender with n items and posts before its event resumes, so does one with
\* one more.
LEMMA ResumesMore ==
  ASSUME NEW CONSTANT n \in Nat, NEW CONSTANT m \in Nat, m = n + 1
  PROVE  Spec /\ ThreadsRun => (Resumes(n) => Resumes(m))
<1>1. IndInv /\ IndInv' /\ [Next]_vars /\ AheadIs(m)
        => /\ AwkawkCan
           /\ ~Waiting' \/ AheadIs(n)' \/ (AheadIs(m)' /\ ~AwkawkThread)
  BY SenderNears
<1>2. AheadIs(m) => Waiting
  BY DEF AheadIs
<1>3. <<AwkawkThread>>_vars => AwkawkThread
  OBVIOUS
<1> QED BY <1>1, <1>2, <1>3, Inductive, PTL DEF Spec, ThreadsRun, Resumes

\* Four more.
LEMMA ResumesMore4 ==
  ASSUME NEW CONSTANT n \in Nat, NEW CONSTANT m \in Nat, m = n + 4
  PROVE  Spec /\ ThreadsRun => (Resumes(n) => Resumes(m))
<1>1. Spec /\ ThreadsRun => (Resumes(n) => Resumes(n + 1))
  BY ResumesMore
<1>2. Spec /\ ThreadsRun => (Resumes(n + 1) => Resumes(n + 2))
  BY ResumesMore
<1>3. Spec /\ ThreadsRun => (Resumes(n + 2) => Resumes(n + 3))
  BY ResumesMore
<1>4. Spec /\ ThreadsRun => (Resumes(n + 3) => Resumes(m))
  BY ResumesMore
<1> QED BY <1>1, <1>2, <1>3, <1>4, PTL

\* Sixteen more.
LEMMA ResumesMore16 ==
  ASSUME NEW CONSTANT n \in Nat, NEW CONSTANT m \in Nat, m = n + 16
  PROVE  Spec /\ ThreadsRun => (Resumes(n) => Resumes(m))
<1>1. Spec /\ ThreadsRun => (Resumes(n) => Resumes(n + 4))
  BY ResumesMore4
<1>2. Spec /\ ThreadsRun => (Resumes(n + 4) => Resumes(n + 8))
  BY ResumesMore4
<1>3. Spec /\ ThreadsRun => (Resumes(n + 8) => Resumes(n + 12))
  BY ResumesMore4
<1>4. Spec /\ ThreadsRun => (Resumes(n + 12) => Resumes(m))
  BY ResumesMore4
<1> QED BY <1>1, <1>2, <1>3, <1>4, PTL

\* Sixty-four more.
LEMMA ResumesMore64 ==
  ASSUME NEW CONSTANT n \in Nat, NEW CONSTANT m \in Nat, m = n + 64
  PROVE  Spec /\ ThreadsRun => (Resumes(n) => Resumes(m))
<1>1. Spec /\ ThreadsRun => (Resumes(n) => Resumes(n + 16))
  BY ResumesMore16
<1>2. Spec /\ ThreadsRun => (Resumes(n + 16) => Resumes(n + 32))
  BY ResumesMore16
<1>3. Spec /\ ThreadsRun => (Resumes(n + 32) => Resumes(n + 48))
  BY ResumesMore16
<1>4. Spec /\ ThreadsRun => (Resumes(n + 48) => Resumes(m))
  BY ResumesMore16
<1> QED BY <1>1, <1>2, <1>3, <1>4, PTL

\* Two hundred and fifty-six more.
LEMMA ResumesMore256 ==
  ASSUME NEW CONSTANT n \in Nat, NEW CONSTANT m \in Nat, m = n + 256
  PROVE  Spec /\ ThreadsRun => (Resumes(n) => Resumes(m))
<1>1. Spec /\ ThreadsRun => (Resumes(n) => Resumes(n + 64))
  BY ResumesMore64
<1>2. Spec /\ ThreadsRun => (Resumes(n + 64) => Resumes(n + 128))
  BY ResumesMore64
<1>3. Spec /\ ThreadsRun => (Resumes(n + 128) => Resumes(n + 192))
  BY ResumesMore64
<1>4. Spec /\ ThreadsRun => (Resumes(n + 192) => Resumes(m))
  BY ResumesMore64
<1> QED BY <1>1, <1>2, <1>3, <1>4, PTL

\* A thread that waits for a synchronous event is not left waiting: awkawk's
\* thread gets to the event, whatever is queued before it.
LEMMA SenderResumes ==
  ASSUME MaxPending <= 8, MaxBacklog <= 8
  PROVE  Spec /\ ThreadsRun => [](Waiting => <>~Waiting)
<1>1. IndInv => ~AheadIs(0)
  <2> SUFFICES ASSUME IndInv, Waiting, Ahead <= 0 PROVE FALSE
    BY DEF AheadIs
  <2>1. Place(aq) \in 1..Len(aq) /\ Len(aq) \in Nat /\ Len(todo) \in Nat
    BY EventWaits
  <2> QED BY <2>1 DEF Ahead
<1>2. IndInv /\ Backlog /\ Waiting => AheadIs(768)
  <2> SUFFICES ASSUME IndInv, Backlog, Waiting PROVE Ahead <= 768
    BY DEF AheadIs
  <2> QED BY AheadBound
<1>3. IndInv /\ IndInv' /\ Backlog /\ [Next]_vars => Backlog'
  BY BacklogKept
<1>4. Spec => [](IndInv /\ Backlog)
  BY <1>3, BacklogInit, Inductive, PTL DEF Spec
<1>5. Spec => Resumes(0)
  BY <1>1, Inductive, PTL DEF Resumes
<1>6. Spec /\ ThreadsRun => (Resumes(0) => Resumes(256))
  BY ResumesMore256
<1>7. Spec /\ ThreadsRun => (Resumes(256) => Resumes(512))
  BY ResumesMore256
<1>8. Spec /\ ThreadsRun => (Resumes(512) => Resumes(768))
  BY ResumesMore256
<1>9. Resumes(768) /\ [](IndInv /\ Backlog) => [](Waiting => <>~Waiting)
  BY <1>2, PTL DEF Resumes
<1> QED BY <1>4, <1>5, <1>6, <1>7, <1>8, <1>9, PTL

Script(n) == Total(ui, UICost) <= n
Back(n)   == [](Script(n) => <>(ui = <<>>))

\* While a command is under way each step leaves as much of it, or less; a step
\* of the window thread, and the one that ends a wait, leave less.
LEMMA ScriptSteps ==
  ASSUME NEW n \in Nat, NEW m \in Nat, m = n + 1, IndInv, ui # <<>>, Script(m)
  PROVE  /\ ~Waiting => WindowCan
         /\ IndInv' /\ [Next]_vars
              => Script(n)' \/ (Script(m)' /\ (Waiting <=> Waiting') /\ ~WindowThread)
<1>1. ~Waiting => WindowCan
  BY DEF WindowCan, Waiting, UIAt
<1> SUFFICES ASSUME IndInv', [Next]_vars
             PROVE  Script(n)' \/ (Script(m)' /\ (Waiting <=> Waiting') /\ ~WindowThread)
  BY <1>1
<1>2. Total(ui, UICost) \in Nat /\ Total(ui', UICost) \in Nat
  BY WorkLeftType, WorkLeftNext
<1>3. CASE WindowThread
  <2>1. Total(ui', UICost) < Total(ui, UICost)
    BY <1>3, WindowWorks
  <2> QED BY <1>2, <2>1 DEF Script
<1>4. CASE ui' = ui /\ ~WindowThread
  <2>1. Total(ui', UICost) = Total(ui, UICost)
    BY <1>4
  <2> QED BY <1>4, <2>1 DEF Script, Waiting, UIAt
<1>5. CASE ui' = Tail(ui) /\ ~WindowThread
  <2>1. ui \in Seq(UISteps)
    BY DEF IndInv, TypeOK
  <2>2. Head(ui) \in UISteps /\ UICost[Head(ui)] \in 1..21
    BY <2>1, Costs
  <2>3. Total(ui, UICost) = UICost[Head(ui)] + Total(ui', UICost)
    BY <1>5, <2>1, Costs, TotalTail
  <2> DEFINE k == UICost[Head(ui)]
  <2>4. k \in 1..21 /\ Total(ui, UICost) = k + Total(ui', UICost)
    BY <2>2, <2>3
  <2> HIDE DEF k
  <2> QED BY <1>2, <2>4 DEF Script
<1>6. ~User
  BY DEF User, Press, SelectMode, OpenFile, CloseFile, Ready
<1>7. AwkawkThread => ui' = ui \/ ui' = Tail(ui)
  BY DEF AwkawkThread, DoLoad, DoUnload, DoTransport, DoTrackChange, DoTrackChangeEmpty, DoChange,
         PostNext, DropEvent, Dispatched
<1>8. GraphThread \/ TrackEnds \/ MediaEvent \/ UNCHANGED vars => ui' = ui
  BY DEF vars, GraphThread, GraphLoad, GraphUnload, GraphTransport, GraphFails, GraphDrops,
         TrackEnds, MediaEvent
<1> QED BY <1>3, <1>4, <1>5, <1>6, <1>7, <1>8 DEF Next

\* If the window thread comes back from what stands for n steps, so it does from
\* what stands for one more: it goes on, or waits and then resumes.
LEMMA BackMore ==
  ASSUME MaxPending <= 8, MaxBacklog <= 8, NEW CONSTANT n \in Nat, NEW CONSTANT m \in Nat, m = n + 1
  PROVE  Spec /\ ThreadsRun => (Back(n) => Back(m))
<1>1. IndInv /\ ~(ui = <<>>) /\ Script(m) => (~Waiting => WindowCan)
  BY ScriptSteps
<1>2. IndInv /\ ~(ui = <<>>) /\ Script(m) /\ IndInv' /\ [Next]_vars
        => Script(n)' \/ (Script(m)' /\ (Waiting <=> Waiting') /\ ~WindowThread)
  BY ScriptSteps
<1>3. <<WindowThread>>_vars => WindowThread
  OBVIOUS
<1>4. Spec /\ ThreadsRun => [](Waiting => <>~Waiting)
  BY SenderResumes
<1> QED BY <1>1, <1>2, <1>3, <1>4, Inductive, PTL DEF Spec, ThreadsRun, Back

\* Four steps more.
LEMMA BackMore4 ==
  ASSUME MaxPending <= 8, MaxBacklog <= 8, NEW CONSTANT n \in Nat, NEW CONSTANT m \in Nat, m = n + 4
  PROVE  Spec /\ ThreadsRun => (Back(n) => Back(m))
<1>1. Spec /\ ThreadsRun => (Back(n) => Back(n + 1))
  BY BackMore
<1>2. Spec /\ ThreadsRun => (Back(n + 1) => Back(n + 2))
  BY BackMore
<1>3. Spec /\ ThreadsRun => (Back(n + 2) => Back(n + 3))
  BY BackMore
<1>4. Spec /\ ThreadsRun => (Back(n + 3) => Back(m))
  BY BackMore
<1> QED BY <1>1, <1>2, <1>3, <1>4, PTL

\* WindowReturns (awkawk::open_single_file): the window thread always comes back
\* to its message loop; the synchronous stop and unload of a command cannot hang
\* it, whatever is queued before them and whatever DirectShow calls fail.
THEOREM WindowAlwaysReturns ==
  ASSUME MaxPending <= 8, MaxBacklog <= 8
  PROVE  Spec /\ ThreadsRun => WindowReturns
<1>1. IndInv /\ Script(0) => ui = <<>>
  <2> SUFFICES ASSUME IndInv, Script(0), ui # <<>> PROVE FALSE
    OBVIOUS
  <2>1. ui \in Seq(UISteps)
    BY DEF IndInv, TypeOK
  <2>2. Head(ui) \in UISteps /\ UICost[Head(ui)] \in 1..21 /\ Tail(ui) \in Seq(UISteps)
    BY <2>1, Costs
  <2>3. /\ Total(ui, UICost) = UICost[Head(ui)] + Total(Tail(ui), UICost)
        /\ Total(Tail(ui), UICost) \in Nat
    BY <2>1, <2>2, Costs, TotalTail, TotalType
  <2> DEFINE k == UICost[Head(ui)]
  <2>4. k \in 1..21 /\ Total(ui, UICost) = k + Total(Tail(ui), UICost)
    BY <2>2, <2>3
  <2> HIDE DEF k
  <2> QED BY <2>3, <2>4 DEF Script
<1>2. IndInv /\ Backlog => Script(24)
  <2> SUFFICES ASSUME IndInv, Backlog PROVE Script(24)
    OBVIOUS
  <2>1. Total(ui, UICost) \in Nat /\ Total(ui, UICost) <= 22
    BY WorkLeftType DEF Backlog, ShortCommand
  <2> QED BY <2>1 DEF Script
<1>3. IndInv /\ IndInv' /\ Backlog /\ [Next]_vars => Backlog'
  BY BacklogKept
<1>4. Spec => [](IndInv /\ Backlog)
  BY <1>3, BacklogInit, Inductive, PTL DEF Spec
<1>5. Spec => Back(0)
  BY <1>1, Inductive, PTL DEF Back
<1>6. Spec /\ ThreadsRun => (Back(0) => Back(4))
  BY BackMore4
<1>7. Spec /\ ThreadsRun => (Back(4) => Back(8))
  BY BackMore4
<1>8. Spec /\ ThreadsRun => (Back(8) => Back(12))
  BY BackMore4
<1>9. Spec /\ ThreadsRun => (Back(12) => Back(16))
  BY BackMore4
<1>10. Spec /\ ThreadsRun => (Back(16) => Back(20))
  BY BackMore4
<1>11. Spec /\ ThreadsRun => (Back(20) => Back(24))
  BY BackMore4
<1>12. Back(24) /\ [](IndInv /\ Backlog) => WindowReturns
  BY <1>2, PTL DEF Back, WindowReturns
<1> QED BY <1>4, <1>5, <1>6, <1>7, <1>8, <1>9, <1>10, <1>11, <1>12, PTL
=============================================================================
