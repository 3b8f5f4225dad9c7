------------------------- MODULE TextureQueueProofs -------------------------
(***************************************************************************)
(* The path of a video frame, for any number of frames, files, lost        *)
(* devices and failing calls: no texture is in two places, what is on      *)
(* screen is not drawn over, the screen never goes back, a frame on its    *)
(* way carries its own timestamp, a loaded file meets no frame of the one  *)
(* before it, the presenter finds the metadata of what it queues, and      *)
(* where no call fails nothing is lost.                                    *)
(***************************************************************************)
EXTENDS TextureQueue, TLAPS

Boxes == [produced : Seq(Handles), consumed : Seq(Handles), producer_lookup : SUBSET Handles,
          consumer_lookup : SUBSET Handles, metadata : SUBSET Handles]

\* The types, by what they are about.
ThreadsOK ==
    /\ pc \in [Threads -> Labels] /\ back \in [Threads -> Labels]
    /\ tex \in [Threads -> Handles \cup {NoTexture}]
    /\ left \in [Threads -> Nat]

PictureOK ==
    /\ previous \in Handles \cup {NoTexture} /\ shown \in 0..MaxFrames
    /\ drawn \in [Handles -> 0..MaxFrames] /\ stamp \in [Handles -> 0..MaxFrames]
    /\ frame \in 0..MaxFrames

CountsOK ==
    /\ device \subseteq {"producer", "consumer"}
    /\ first \in 1..MaxFrames + 1 /\ loads \in 0..MaxLoads
    /\ rebuilds \in 0..MaxRebuilds /\ failures \in 0..MaxFailures

FlagsOK == /\ described \in BOOLEAN /\ graph \in BOOLEAN /\ video \in BOOLEAN
           /\ alive \in BOOLEAN /\ torn \in BOOLEAN

Types == box \in Boxes /\ ThreadsOK /\ PictureOK /\ CountsOK

\* Where a thread has a texture in its hand, and where it generates one.
Holding == {"share", "describe", "offer", "find", "draw", "enqueue", "stamp", "show"}
Making == {"make", "share", "describe", "offer"}

Stage(t) ==
    /\ tex[t] # NoTexture <=> pc[t] \in Holding
    /\ pc[t] = "replace" => left[t] \in 1..5
    /\ pc[t] \in Making => left[t] >= 1
    /\ back[t] \notin Holding \cup Making \cup {"replace"}
Stages == \A t \in Threads : Stage(t)

\* The thread alone may touch its texture; after enqueue it only names it.
Held(t) == pc[t] \in Holding \ {"stamp"}

Apart ==
    /\ IsInjective(box.produced) /\ IsInjective(box.consumed)
    /\ \A h \in ToSet(box.produced) : h \notin ToSet(box.consumed) /\ h # previous
    /\ \A h \in ToSet(box.consumed) : h # previous
    /\ \A t \in Threads : Held(t) =>
          tex[t] \notin ToSet(box.produced) /\ tex[t] \notin ToSet(box.consumed) /\ tex[t] # previous
    /\ \A t, u \in Threads : t # u /\ Held(t) /\ Held(u) => tex[t] # tex[u]

\* The presenter has a frame that it has not yet queued.
Unpublished ==
    \/ pc["vmr"] \in {"check", "copy", "destroy", "create", "dequeue", "find", "draw", "enqueue"}
    \/ pc["vmr"] \in Making \cup {"replace"} /\ back["vmr"] # "idle"

\* The textures between the presenter and the screen.
Fetched == pc["render"] \in {"find", "show"}
Published == ToSet(box.produced) \cup {h \in {tex["render"]} : Fetched}

Rising(list, number) == \A i, j \in 1..Len(list) : i < j => number[list[i]] < number[list[j]]

Ordered ==
    /\ Rising(box.produced, drawn)
    /\ Fetched => \A h \in ToSet(box.produced) : drawn[tex["render"]] < drawn[h]
    /\ \A h \in Published : shown < drawn[h] /\ drawn[h] <= frame /\ (Unpublished => drawn[h] < frame)
    /\ shown <= frame /\ (Unpublished => shown < frame)
    /\ pc["vmr"] \in {"enqueue", "stamp"} => drawn[tex["vmr"]] = frame
    /\ previous # NoTexture => drawn[previous] = shown

\* A texture that carries another timestamp is the one about to be stamped.
Stamped ==
    pc["vmr"] # "crashed" =>
        \A h \in Published \cup ({previous} \ {NoTexture}) :
            stamp[h] = drawn[h] \/ (pc["vmr"] = "stamp" /\ tex["vmr"] = h)

IInv == Types /\ Stages /\ Apart /\ Ordered /\ Stamped

-----------------------------------------------------------------------------
(* Lists.                                                                  *)

\* A push on an interlocked queue.
LEMMA AppendList ==
    ASSUME NEW S, NEW x \in S, NEW list \in Seq(S)
    PROVE  /\ Append(list, x) \in Seq(S)
           /\ Len(Append(list, x)) = Len(list) + 1 /\ Len(list) \in Nat
           /\ Append(list, x)[Len(list) + 1] = x
           /\ \A i \in 1..Len(list) : Append(list, x)[i] = list[i]
           /\ ToSet(Append(list, x)) = ToSet(list) \cup {x}
<1> DEFINE new == Append(list, x)
<1>1. new \in Seq(S) /\ Len(new) = Len(list) + 1 /\ Len(list) \in Nat
  OBVIOUS
<1>2. new[Len(list) + 1] = x /\ \A i \in 1..Len(list) : new[i] = list[i]
  OBVIOUS
<1>3. DOMAIN new = 1..(Len(list) + 1) /\ DOMAIN list = 1..Len(list)
  BY <1>1
<1> HIDE DEF new
<1>4. ToSet(new) \subseteq ToSet(list) \cup {x}
  BY <1>1, <1>2, <1>3 DEF ToSet
<1>5. ToSet(list) \subseteq ToSet(new)
  BY <1>1, <1>2, <1>3 DEF ToSet
<1>6. x \in ToSet(new)
  BY <1>1, <1>2, <1>3 DEF ToSet
<1> QED
  BY <1>1, <1>2, <1>4, <1>5, <1>6 DEF new

\* ... and a pop.
LEMMA TailList ==
    ASSUME NEW S, NEW list \in Seq(S), list # <<>>
    PROVE  /\ Head(list) \in S /\ Tail(list) \in Seq(S)
           /\ Len(Tail(list)) = Len(list) - 1 /\ Len(list) \in Nat \ {0}
           /\ Head(list) = list[1]
           /\ \A i \in 1..(Len(list) - 1) : Tail(list)[i] = list[i + 1]
           /\ ToSet(list) = {Head(list)} \cup ToSet(Tail(list))
<1> DEFINE rest == Tail(list)
<1>1. rest \in Seq(S) /\ Len(list) \in Nat \ {0} /\ Len(rest) = Len(list) - 1
  OBVIOUS
<1>2. Head(list) \in S /\ Head(list) = list[1]
  OBVIOUS
<1>3. \A i \in 1..(Len(list) - 1) : rest[i] = list[i + 1]
  OBVIOUS
<1>4. DOMAIN rest = 1..(Len(list) - 1) /\ DOMAIN list = 1..Len(list)
  BY <1>1
<1> HIDE DEF rest
<1>5. ToSet(list) \subseteq {list[1]} \cup ToSet(rest)
  <2>1. SUFFICES ASSUME NEW i \in 1..Len(list), i # 1
                 PROVE  list[i] \in ToSet(rest)
    BY <1>4 DEF ToSet
  <2>2. i - 1 \in 1..(Len(list) - 1) /\ (i - 1) + 1 = i
    BY <2>1, <1>1
  <2>3. rest[i - 1] = list[i]
    BY <2>2, <1>3
  <2> QED
    BY <2>2, <2>3, <1>4 DEF ToSet
<1>6. {list[1]} \cup ToSet(rest) \subseteq ToSet(list)
  <2>1. list[1] \in ToSet(list)
    BY <1>1, <1>4 DEF ToSet
  <2>2. ASSUME NEW i \in 1..(Len(list) - 1) PROVE rest[i] \in ToSet(list)
    <3>1. i + 1 \in 1..Len(list)
      BY <1>1
    <3> QED
      BY <3>1, <1>3, <1>4 DEF ToSet
  <2> QED
    BY <2>1, <2>2, <1>4 DEF ToSet
<1> QED
  BY <1>1, <1>2, <1>3, <1>5, <1>6 DEF rest

LEMMA AppendOnce ==
    ASSUME NEW S, NEW x \in S, NEW list \in Seq(S), IsInjective(list), x \notin ToSet(list)
    PROVE  Append(list, x) \in Seq(S) /\ IsInjective(Append(list, x))
<1> DEFINE new == Append(list, x)
<1>1. /\ new \in Seq(S) /\ Len(new) = Len(list) + 1 /\ Len(list) \in Nat
      /\ new[Len(list) + 1] = x /\ \A k \in 1..Len(list) : new[k] = list[k]
  BY AppendList
<1>2. DOMAIN new = 1..(Len(list) + 1) /\ DOMAIN list = 1..Len(list)
  BY <1>1
<1>3. \A k \in 1..Len(list) : list[k] # x
  BY <1>2 DEF ToSet
<1>4. \A k, l \in 1..Len(list) : list[k] = list[l] => k = l
  BY <1>2 DEF IsInjective
<1> HIDE DEF new
<1>5. ASSUME NEW i \in 1..(Len(list) + 1), NEW j \in 1..(Len(list) + 1), new[i] = new[j]
      PROVE  i = j
  <2>1. i = Len(list) + 1 \/ i \in 1..Len(list)
    BY <1>1, <1>5
  <2>2. j = Len(list) + 1 \/ j \in 1..Len(list)
    BY <1>1, <1>5
  <2>3. CASE i \in 1..Len(list) /\ j \in 1..Len(list)
    BY <1>1, <1>4, <1>5, <2>3
  <2>4. CASE i = Len(list) + 1 /\ j \in 1..Len(list)
    BY <1>1, <1>3, <1>5, <2>4
  <2>5. CASE i \in 1..Len(list) /\ j = Len(list) + 1
    BY <1>1, <1>3, <1>5, <2>5
  <2> QED
    BY <2>1, <2>2, <2>3, <2>4, <2>5
<1>6. IsInjective(new)
  BY <1>2, <1>5 DEF IsInjective
<1> QED
  BY <1>1, <1>6 DEF new

LEMMA TailOnce ==
    ASSUME NEW S, NEW list \in Seq(S), list # <<>>, IsInjective(list)
    PROVE  IsInjective(Tail(list)) /\ Head(list) \notin ToSet(Tail(list))
<1> DEFINE rest == Tail(list)
<1>1. /\ rest \in Seq(S) /\ Len(list) \in Nat \ {0} /\ Len(rest) = Len(list) - 1
      /\ Head(list) = list[1] /\ \A i \in 1..(Len(list) - 1) : rest[i] = list[i + 1]
  BY TailList
<1>2. DOMAIN rest = 1..(Len(list) - 1) /\ DOMAIN list = 1..Len(list)
  BY <1>1
<1>3. \A i, j \in 1..Len(list) : list[i] = list[j] => i = j
  BY <1>2 DEF IsInjective
<1> HIDE DEF rest
<1>4. \A i \in 1..(Len(list) - 1) : i + 1 \in 1..Len(list) /\ i + 1 # 1
  BY <1>1
<1>5. 1 \in 1..Len(list)
  BY <1>1
<1>6. \A i \in 1..(Len(list) - 1) : rest[i] # list[1]
  BY <1>1, <1>3, <1>4, <1>5
<1>7. \A i, j \in 1..(Len(list) - 1) : rest[i] = rest[j] => i = j
  BY <1>1, <1>3, <1>4
<1> QED
  BY <1>1, <1>2, <1>6, <1>7 DEF IsInjective, ToSet, rest

LEMMA EmptyList == ToSet(<<>>) = {} /\ IsInjective(<<>>)
BY DEF ToSet, IsInjective

\* Lists that share nothing.
LEMMA ConcatOnce ==
    ASSUME NEW S, NEW a \in Seq(S), NEW b \in Seq(S), IsInjective(a), IsInjective(b),
           \A x \in ToSet(a) : x \notin ToSet(b)
    PROVE  a \o b \in Seq(S) /\ IsInjective(a \o b) /\ ToSet(a \o b) = ToSet(a) \cup ToSet(b)
<1> DEFINE c == a \o b  m == Len(a)  n == Len(b)
<1>1. c \in Seq(S) /\ m \in Nat /\ n \in Nat /\ Len(c) = m + n
  OBVIOUS
<1>2. \A i \in 1..m : c[i] = a[i]
  OBVIOUS
<1>3. \A i \in 1..n : c[m + i] = b[i]
  OBVIOUS
<1>4. DOMAIN a = 1..m /\ DOMAIN b = 1..n /\ DOMAIN c = 1..(m + n)
  BY <1>1
<1> HIDE DEF c, m, n
<1>5. \A k \in 1..(m + n) : k \in 1..m \/ (k - m \in 1..n /\ m + (k - m) = k)
  BY <1>1
<1>6. \A k \in 1..(m + n) : (k \in 1..m /\ c[k] = a[k]) \/ (k - m \in 1..n /\ c[k] = b[k - m])
  BY <1>2, <1>3, <1>5
<1>7. ToSet(c) \subseteq ToSet(a) \cup ToSet(b)
  BY <1>4, <1>6 DEF ToSet
<1>8. ToSet(a) \subseteq ToSet(c)
  <2>1. \A i \in 1..m : i \in 1..(m + n)
    BY <1>1
  <2> QED
    BY <1>2, <1>4, <2>1 DEF ToSet
<1>9. ToSet(b) \subseteq ToSet(c)
  <2>1. \A i \in 1..n : m + i \in 1..(m + n)
    BY <1>1
  <2> QED
    BY <1>3, <1>4, <2>1 DEF ToSet
<1>10. \A i \in 1..m, j \in 1..n : a[i] # b[j]
  BY <1>4 DEF ToSet
<1>11. /\ \A i, j \in 1..m : a[i] = a[j] => i = j
       /\ \A i, j \in 1..n : b[i] = b[j] => i = j
  BY <1>4 DEF IsInjective
<1>12. ASSUME NEW i \in 1..(m + n), NEW j \in 1..(m + n), c[i] = c[j] PROVE i = j
  <2>1. CASE i \in 1..m /\ c[i] = a[i]
    BY <1>6, <1>10, <1>11, <1>12, <2>1
  <2>2. CASE i - m \in 1..n /\ c[i] = b[i - m]
    <3>1. j - m \in 1..n /\ c[j] = b[j - m]
      BY <1>6, <1>10, <1>12, <2>2
    <3>2. i - m = j - m
      BY <1>11, <1>12, <2>2, <3>1
    <3> QED
      BY <1>1, <3>2
  <2> QED
    BY <1>6, <2>1, <2>2
<1>13. IsInjective(c)
  BY <1>4, <1>12 DEF IsInjective
<1> QED
  BY <1>1, <1>7, <1>8, <1>9, <1>13 DEF c

LEMMA OneElement == ASSUME NEW x PROVE ToSet(<<x>>) = {x} /\ IsInjective(<<x>>)
<1> DEFINE c == <<x>>
<1>1. DOMAIN c = {1} /\ c[1] = x
  OBVIOUS
<1> HIDE DEF c
<1>2. ToSet(c) = {x} /\ IsInjective(c)
  BY <1>1 DEF ToSet, IsInjective
<1> QED
  BY <1>2 DEF c

\* A later frame goes to the end of the queue, the earliest one leaves it.
LEMMA AppendRising ==
    ASSUME NEW S, NEW x \in S, NEW list \in Seq(S), NEW f,
           Rising(list, f), \A h \in ToSet(list) : f[h] < f[x]
    PROVE  Rising(Append(list, x), f)
<1> DEFINE new == Append(list, x)
<1>1. /\ Len(new) = Len(list) + 1 /\ Len(list) \in Nat
      /\ new[Len(list) + 1] = x /\ \A i \in 1..Len(list) : new[i] = list[i]
  BY AppendList
<1>2. \A i \in 1..Len(list) : f[list[i]] < f[x]
  BY DEF ToSet
<1>3. \A i, j \in 1..Len(list) : i < j => f[list[i]] < f[list[j]]
  BY DEF Rising
<1> HIDE DEF new
<1>4. ASSUME NEW i \in 1..(Len(list) + 1), NEW j \in 1..(Len(list) + 1), i < j
      PROVE  f[new[i]] < f[new[j]]
  <2>1. i \in 1..Len(list) /\ (j = Len(list) + 1 \/ j \in 1..Len(list))
    BY <1>1, <1>4
  <2> QED
    BY <1>1, <1>2, <1>3, <1>4, <2>1
<1>5. Rising(new, f)
  BY <1>1, <1>4 DEF Rising
<1> QED
  BY <1>5 DEF new

LEMMA TailRising ==
    ASSUME NEW S, NEW list \in Seq(S), list # <<>>, NEW f, Rising(list, f)
    PROVE  Rising(Tail(list), f) /\ \A h \in ToSet(Tail(list)) : f[Head(list)] < f[h]
<1> DEFINE rest == Tail(list)
<1>1. /\ rest \in Seq(S) /\ Len(list) \in Nat \ {0} /\ Len(rest) = Len(list) - 1
      /\ Head(list) = list[1] /\ \A i \in 1..(Len(list) - 1) : rest[i] = list[i + 1]
  BY TailList
<1>2. DOMAIN rest = 1..(Len(list) - 1)
  BY <1>1
<1>3. \A i, j \in 1..Len(list) : i < j => f[list[i]] < f[list[j]]
  BY DEF Rising
<1> HIDE DEF rest
<1>4. \A i \in 1..(Len(list) - 1) : i + 1 \in 1..Len(list) /\ 1 < i + 1 /\ 1 \in 1..Len(list)
  BY <1>1
<1>5. \A i \in 1..(Len(list) - 1) : f[list[1]] < f[rest[i]]
  BY <1>1, <1>3, <1>4
<1>6. \A i, j \in 1..(Len(list) - 1) : i < j => f[rest[i]] < f[rest[j]]
  <2>1. SUFFICES ASSUME NEW i \in 1..(Len(list) - 1), NEW j \in 1..(Len(list) - 1), i < j
                 PROVE  f[rest[i]] < f[rest[j]]
    OBVIOUS
  <2>2. i + 1 < j + 1
    BY <2>1
  <2> QED
    BY <1>1, <1>3, <1>4, <2>1, <2>2
<1>7. Rising(rest, f)
  BY <1>1, <1>6 DEF Rising
<1>8. \A h \in ToSet(rest) : f[Head(list)] < f[h]
  BY <1>1, <1>2, <1>5 DEF ToSet
<1> QED
  BY <1>7, <1>8 DEF rest

LEMMA SameRising ==
    ASSUME NEW S, NEW list \in Seq(S), NEW f, NEW g, Rising(list, f),
           \A h \in ToSet(list) : g[h] = f[h]
    PROVE  Rising(list, g)
<1>1. \A i \in 1..Len(list) : g[list[i]] = f[list[i]]
  BY DEF ToSet
<1> QED
  BY <1>1 DEF Rising

-----------------------------------------------------------------------------
(* Where the threads are.  A step moves one thread, in one of a few ways.  *)

Plain == Labels \ (Holding \cup Making \cup {"replace"})

Moves(t, l) == Goto(t, l) /\ UNCHANGED <<left, back>>

Walks(t) == pc[t] \in Plain /\ \E l \in Plain : Moves(t, l) /\ UNCHANGED tex
Resets(t) == pc[t] \in Plain /\ \E l \in Plain : BeginReset(t, l) /\ UNCHANGED tex
Takes(t) ==
    pc[t] \in Plain /\ \E h \in Handles : tex' = [tex EXCEPT ![t] = h] /\ Moves(t, "find")
Keeps(t) ==
    pc[t] \in Holding
    /\ \E l \in Holding : (l \in Making => pc[t] \in Making) /\ Moves(t, l) /\ UNCHANGED tex
Drops(t) ==
    pc[t] \in Holding \cup Making
    /\ \E l \in Plain : Moves(t, l) /\ tex' = [tex EXCEPT ![t] = NoTexture]
Makes(t) ==
    pc[t] = "make" /\ \E h \in Handles : tex' = [tex EXCEPT ![t] = h] /\ Moves(t, "share")
Starts(t) ==
    /\ pc[t] \in Plain /\ Goto(t, "make") /\ UNCHANGED tex
    /\ left' = [left EXCEPT ![t] = 1] /\ back' = [back EXCEPT ![t] = "dequeue"]

Moved(t) == Walks(t) \/ Resets(t) \/ Takes(t) \/ Keeps(t) \/ Drops(t) \/ Makes(t) \/ Starts(t)
            \/ Replace(t) \/ Offer(t)

LEMMA NoTextureFact == NoTexture \notin Handles /\ \A h \in Handles : h # NoTexture
BY TextureAssumption DEF NoTexture

LEMMA CatchFact == ASSUME NEW t \in Threads PROVE Catch(t) \in Plain
BY DEF Catch, Threads, Plain, Labels, Holding, Making

LEMMA VmrMoves == Vmr /\ ThreadsOK /\ box \in Boxes => Moved("vmr")
<1> SUFFICES ASSUME Vmr, ThreadsOK, box \in Boxes PROVE Moved("vmr")
  OBVIOUS
<1>1. CASE PresentImage \/ CheckDevice \/ CopyImage
  <2>1. Walks("vmr")
    BY <1>1 DEF PresentImage, CheckDevice, CopyImage, Goto, At, Walks, Moves, Plain, Labels,
       Holding, Making
  <2> QED
    BY <2>1 DEF Moved
<1>2. CASE LoseProducer \/ DestroyProducer \/ CreateProducer \/ Reformat
  <2>1. Resets("vmr")
    BY <1>2 DEF LoseProducer, DestroyProducer, CreateProducer, Reformat, SetDevice, SetParameters,
       At, Resets, Plain, Labels, Holding, Making
  <2> QED
    BY <2>1 DEF Moved
<1>3. CASE ProducerDequeue
  <2>1. CASE box.consumed # <<>>
    <3>1. Head(box.consumed) \in Handles
      BY <2>1, TailList DEF Boxes
    <3>2. Takes("vmr")
      BY <1>3, <2>1, <3>1 DEF ProducerDequeue, At, Goto, Takes, Moves, Plain, Labels, Holding, Making
    <3> QED
      BY <3>2 DEF Moved
  <2>2. CASE box.consumed = <<>>
    <3>1. Starts("vmr")
      BY <1>3, <2>2 DEF ProducerDequeue, At, Starts, Plain, Labels, Holding, Making
    <3> QED
      BY <3>1 DEF Moved
  <2> QED
    BY <2>1, <2>2
<1>4. CASE ProducerFind
  <2>1. Keeps("vmr") \/ Drops("vmr")
    BY <1>4 DEF ProducerFind, At, Goto, Keeps, Drops, Moves, Plain, Labels, Holding, Making
  <2> QED
    BY <2>1 DEF Moved
<1>5. CASE Draw
  <2>1. Keeps("vmr") \/ Drops("vmr")
    BY <1>5 DEF Draw, At, Goto, Keeps, Drops, Moves, Plain, Labels, Holding, Making
  <2> QED
    BY <2>1 DEF Moved
<1>6. CASE ProducerEnqueue
  <2>1. Keeps("vmr")
    BY <1>6 DEF ProducerEnqueue, At, Goto, Keeps, Moves, Plain, Labels, Holding, Making
  <2> QED
    BY <2>1 DEF Moved
<1>7. CASE Stamp
  <2>1. Drops("vmr")
    BY <1>7 DEF Stamp, At, Goto, Drops, Moves, Plain, Labels, Holding, Making
  <2> QED
    BY <2>1 DEF Moved
<1> QED
  BY <1>1, <1>2, <1>3, <1>4, <1>5, <1>6, <1>7 DEF Vmr

LEMMA RenderMoves == Render /\ ThreadsOK /\ box \in Boxes => Moved("render")
<1> SUFFICES ASSUME Render, ThreadsOK, box \in Boxes PROVE Moved("render")
  OBVIOUS
<1>1. CASE Wake \/ EmitScene \/ PutBack
  <2>1. Walks("render")
    BY <1>1 DEF Wake, EmitScene, PutBack, Goto, At, Walks, Moves, Plain, Labels, Holding, Making
  <2> QED
    BY <2>1 DEF Moved
<1>2. CASE CreateConsumer \/ LoseConsumer \/ Cancel
  <2>1. Resets("render")
    BY <1>2 DEF CreateConsumer, LoseConsumer, Cancel, SetDevice, At, Resets, Plain, Labels,
       Holding, Making
  <2> QED
    BY <2>1 DEF Moved
<1>3. CASE ConsumerDequeue
  <2>1. CASE box.produced # <<>>
    <3>1. Head(box.produced) \in Handles
      BY <2>1, TailList DEF Boxes
    <3>2. Takes("render")
      BY <1>3, <2>1, <3>1 DEF ConsumerDequeue, At, Goto, Takes, Moves, Plain, Labels, Holding, Making
    <3> QED
      BY <3>2 DEF Moved
  <2>2. CASE box.produced = <<>>
    <3>1. Walks("render")
      BY <1>3, <2>2 DEF ConsumerDequeue, At, Goto, Walks, Moves, Plain, Labels, Holding, Making
    <3> QED
      BY <3>1 DEF Moved
  <2> QED
    BY <2>1, <2>2
<1>4. CASE ConsumerFind
  <2>1. Keeps("render") \/ Drops("render")
    BY <1>4 DEF ConsumerFind, At, Goto, Keeps, Drops, Moves, Plain, Labels, Holding, Making
  <2> QED
    BY <2>1 DEF Moved
<1>5. CASE Show
  <2>1. Drops("render")
    BY <1>5 DEF Show, At, Goto, Drops, Moves, Plain, Labels, Holding, Making
  <2> QED
    BY <2>1 DEF Moved
<1> QED
  BY <1>1, <1>2, <1>3, <1>4, <1>5 DEF Render

LEMMA GraphMoves == Graph => Moved("graph")
<1> SUFFICES ASSUME Graph PROVE Moved("graph")
  OBVIOUS
<1>1. CASE Loaded \/ Unload \/ Unloaded
  <2>1. Walks("graph")
    BY <1>1 DEF Loaded, Unload, Unloaded, Goto, At, Walks, Moves, Plain, Labels, Holding, Making
  <2> QED
    BY <2>1 DEF Moved
<1>2. CASE Load \/ InitializeDevice \/ Release
  <2>1. Resets("graph")
    BY <1>2 DEF Load, InitializeDevice, Release, SetDevice, SetParameters, At, Resets, Plain,
       Labels, Holding, Making
  <2> QED
    BY <2>1 DEF Moved
<1> QED
  BY <1>1, <1>2 DEF Graph

LEMMA GeneratingMoves == ASSUME NEW t \in Threads, Generating(t) PROVE Moved(t)
<1>1. CASE Replace(t) \/ Offer(t)
  BY <1>1 DEF Moved
<1>2. CASE Make(t)
  <2>1. Makes(t) \/ Drops(t)
    BY <1>2, CatchFact DEF Make, Throw, At, Goto, Makes, Drops, Moves, Holding, Making
  <2> QED
    BY <2>1 DEF Moved
<1>3. CASE Share(t)
  <2>1. Keeps(t) \/ Drops(t)
    BY <1>3, CatchFact DEF Share, Throw, At, Goto, Keeps, Drops, Moves, Holding, Making
  <2> QED
    BY <2>1 DEF Moved
<1>4. CASE Describe(t)
  <2>1. Keeps(t)
    BY <1>4 DEF Describe, At, Goto, Keeps, Moves, Holding, Making
  <2> QED
    BY <2>1 DEF Moved
<1> QED
  BY <1>1, <1>2, <1>3, <1>4 DEF Generating

LEMMA NextMoves == Next /\ ThreadsOK /\ box \in Boxes => \E t \in Threads : Moved(t)
BY VmrMoves, RenderMoves, GraphMoves, GeneratingMoves DEF Next, Threads

\* The other threads stay where they are.
LEMMA OthersStay ==
    ASSUME ThreadsOK, NEW t \in Threads, Moved(t)
    PROVE  \A u \in Threads \ {t} : pc'[u] = pc[u] /\ tex'[u] = tex[u] /\ left'[u] = left[u]
                                    /\ back'[u] = back[u]
<1>1. CASE Walks(t) \/ Resets(t) \/ Takes(t) \/ Keeps(t)
  BY <1>1 DEF ThreadsOK, Walks, Resets, Takes, Keeps, Moves, Goto, BeginReset
<1>2. CASE Drops(t) \/ Makes(t) \/ Starts(t)
  BY <1>2 DEF ThreadsOK, Drops, Makes, Starts, Moves, Goto
<1>3. CASE Offer(t)
  BY <1>3 DEF ThreadsOK, Offer, Goto
<1>4. CASE Replace(t)
  <2>1. CASE left[t] < Len(Replaced)
    BY <1>4, <2>1 DEF ThreadsOK, Replace
  <2>2. CASE ~(left[t] < Len(Replaced)) /\ device = {"producer", "consumer"} /\ described
    BY <1>4, <2>2 DEF ThreadsOK, Replace, Goto
  <2>3. CASE ~(left[t] < Len(Replaced)) /\ ~(device = {"producer", "consumer"} /\ described)
    BY <1>4, <2>3 DEF ThreadsOK, Replace, Goto
  <2> QED
    BY <2>1, <2>2, <2>3
<1> QED
  BY <1>1, <1>2, <1>3, <1>4 DEF Moved

\* Where a reset goes next.
LEMMA ReplaceMove ==
    ASSUME ThreadsOK, Stages, NEW t \in Threads, Replace(t)
    PROVE  /\ pc[t] = "replace" /\ left[t] \in 1..5 /\ UNCHANGED <<tex, back>>
           /\ \/ UNCHANGED pc /\ left[t] < 5 /\ left' = [left EXCEPT ![t] = left[t] + 1]
              \/ Goto(t, "make") /\ left' = [left EXCEPT ![t] = Minimum]
              \/ Goto(t, back[t]) /\ left' = [left EXCEPT ![t] = 0]
<1>1. pc[t] = "replace" /\ left[t] \in 1..5 /\ Len(Replaced) = 5 /\ UNCHANGED <<tex, back>>
  BY DEF Replace, At, Stages, Stage, Replaced
<1>2. CASE left[t] < 5
  BY <1>1, <1>2 DEF Replace
<1>3. CASE ~(left[t] < 5) /\ device = {"producer", "consumer"} /\ described
  BY <1>1, <1>3 DEF Replace
<1>4. CASE ~(left[t] < 5) /\ ~(device = {"producer", "consumer"} /\ described)
  BY <1>1, <1>4 DEF Replace
<1> QED
  BY <1>1, <1>2, <1>3, <1>4

LEMMA ThreadsStep ==
    ASSUME ThreadsOK, Stages, NEW t \in Threads, Moved(t)
    PROVE  ThreadsOK' /\ Stages'
<1> USE TextureAssumption
<1>0. Stage(t)
  BY DEF Stages
<1>1. ThreadsOK' /\ Stage(t)'
  <2>1. CASE Walks(t)
    <3>1. PICK l \in Plain : Moves(t, l)
      BY <2>1 DEF Walks
    <3> QED
      BY <1>0, <2>1, <3>1 DEF ThreadsOK, Stage, Walks, Moves, Goto, Plain
  <2>2. CASE Resets(t)
    <3>1. PICK l \in Plain : BeginReset(t, l)
      BY <2>2 DEF Resets
    <3>2. "replace" \in Labels /\ "replace" \notin Holding \cup Making
      BY DEF Labels, Holding, Making
    <3> QED
      BY <1>0, <2>2, <3>1, <3>2 DEF ThreadsOK, Stage, Resets, BeginReset, Plain
  <2>3. CASE Takes(t)
    <3>1. PICK h \in Handles : tex' = [tex EXCEPT ![t] = h]
      BY <2>3 DEF Takes
    <3>2. "find" \in Labels /\ "find" \in Holding /\ "find" \notin Making /\ Moves(t, "find")
      BY <2>3 DEF Labels, Holding, Making, Takes
    <3> QED
      BY <1>0, <3>1, <3>2, NoTextureFact DEF ThreadsOK, Stage, Moves, Goto
  <2>4. CASE Keeps(t)
    <3>1. PICK l \in Holding : (l \in Making => pc[t] \in Making) /\ Moves(t, l)
      BY <2>4 DEF Keeps
    <3>2. l \in Labels /\ l # "replace"
      BY DEF Labels, Holding
    <3> QED
      BY <1>0, <2>4, <3>1, <3>2 DEF ThreadsOK, Stage, Keeps, Moves, Goto
  <2>5. CASE Drops(t)
    <3>1. PICK l \in Plain : Moves(t, l)
      BY <2>5 DEF Drops
    <3> QED
      BY <1>0, <2>5, <3>1 DEF ThreadsOK, Stage, Drops, Moves, Goto, Plain
  <2>6. CASE Makes(t)
    <3>1. PICK h \in Handles : tex' = [tex EXCEPT ![t] = h]
      BY <2>6 DEF Makes
    <3>2. "share" \in Labels /\ "share" \in Holding /\ Moves(t, "share") /\ pc[t] \in Making
      BY <2>6 DEF Labels, Holding, Making, Makes
    <3> QED
      BY <1>0, <3>1, <3>2, NoTextureFact DEF ThreadsOK, Stage, Moves, Goto
  <2>7. CASE Starts(t)
    <3>1. /\ "make" \in Labels /\ "make" \notin Holding
          /\ "dequeue" \in Labels /\ "dequeue" \notin Holding \cup Making \cup {"replace"}
      BY DEF Labels, Holding, Making
    <3> QED
      BY <1>0, <2>7, <3>1 DEF ThreadsOK, Stage, Starts, Goto, Plain
  <2>8. CASE Offer(t)
    <3>1. /\ pc[t] \in Making /\ left[t] \in Nat /\ left[t] >= 1
          /\ "make" \in Labels /\ "make" \notin Holding
      BY <1>0, <2>8 DEF Offer, At, Making, Labels, Holding, ThreadsOK, Stage
    <3>2. /\ tex' = [tex EXCEPT ![t] = NoTexture] /\ left' = [left EXCEPT ![t] = left[t] - 1]
          /\ UNCHANGED back
      BY <2>8 DEF Offer
    <3>3. CASE left[t] > 1
      <4>1. Goto(t, "make")
        BY <2>8, <3>3 DEF Offer
      <4> QED
        BY <1>0, <3>1, <3>2, <3>3, <4>1 DEF ThreadsOK, Stage, Goto
    <3>4. CASE ~(left[t] > 1)
      <4>1. Goto(t, back[t])
        BY <2>8, <3>4 DEF Offer
      <4> QED
        BY <1>0, <3>1, <3>2, <3>4, <4>1 DEF ThreadsOK, Stage, Goto
    <3> QED
      BY <3>3, <3>4
  <2>9. CASE Replace(t)
    <3>1. /\ pc[t] = "replace" /\ left[t] \in 1..5 /\ UNCHANGED <<tex, back>>
          /\ "make" \in Labels /\ "make" \notin Holding /\ "replace" \notin Holding \cup Making
      BY <2>9, ReplaceMove DEF Labels, Holding, Making
    <3>2. CASE UNCHANGED pc /\ left[t] < 5 /\ left' = [left EXCEPT ![t] = left[t] + 1]
      BY <1>0, <3>1, <3>2 DEF ThreadsOK, Stage
    <3>3. CASE Goto(t, "make") /\ left' = [left EXCEPT ![t] = Minimum]
      BY <1>0, <3>1, <3>3 DEF ThreadsOK, Stage, Goto
    <3>4. CASE Goto(t, back[t]) /\ left' = [left EXCEPT ![t] = 0]
      BY <1>0, <3>1, <3>4 DEF ThreadsOK, Stage, Goto
    <3> QED
      BY <2>9, <3>2, <3>3, <3>4, ReplaceMove
  <2> QED
    BY <2>1, <2>2, <2>3, <2>4, <2>5, <2>6, <2>7, <2>8, <2>9 DEF Moved
<1>2. \A u \in Threads \ {t} : Stage(u)'
  BY OthersStay DEF Stages, Stage
<1> QED
  BY <1>1, <1>2 DEF Stages

-----------------------------------------------------------------------------
(* What a step does to the picture: mostly nothing, or one of a few things. *)

SamePicture ==
    /\ box'.produced = box.produced /\ box'.consumed = box.consumed
    /\ UNCHANGED <<previous, drawn, stamp, shown, frame>>

Quiet ==
    /\ SamePicture
    /\ \A u \in Threads : Held(u)' => Held(u) /\ tex'[u] = tex[u]
    /\ Fetched' => Fetched
    /\ Unpublished' => Unpublished
    /\ pc'["vmr"] \in {"enqueue", "stamp"} => pc["vmr"] = pc'["vmr"] /\ tex'["vmr"] = tex["vmr"]
    /\ pc["vmr"] = "stamp" => pc'["vmr"] = "stamp" /\ tex'["vmr"] = tex["vmr"]
    /\ pc'["vmr"] \in {"find", "draw"} => pc["vmr"] \in {"find", "draw"}

\* The parts of Make, ProducerDequeue, Draw and ConsumerDequeue that succeed.
Made(t) ==
    /\ pc[t] = "make" /\ Moves(t, "share")
    /\ box'.produced = box.produced /\ box'.consumed = box.consumed
    /\ UNCHANGED <<previous, shown, frame>>
    /\ \E h \in Handles :
         /\ NewHandle(h) /\ tex' = [tex EXCEPT ![t] = h]
         /\ drawn' = [drawn EXCEPT ![h] = 0] /\ stamp' = [stamp EXCEPT ![h] = 0]

Reused ==
    /\ pc["vmr"] = "dequeue" /\ Moves("vmr", "find") /\ box.consumed # <<>>
    /\ box'.produced = box.produced /\ box'.consumed = Tail(box.consumed)
    /\ tex' = [tex EXCEPT !["vmr"] = Head(box.consumed)]
    /\ UNCHANGED <<previous, drawn, stamp, shown, frame>>

Drawn ==
    /\ pc["vmr"] = "draw" /\ Moves("vmr", "enqueue")
    /\ drawn' = [drawn EXCEPT ![tex["vmr"]] = frame]
    /\ UNCHANGED <<box, tex, previous, stamp, shown, frame>>

Fetch ==
    /\ pc["render"] = "pop" /\ Moves("render", "find") /\ box.produced # <<>>
    /\ box'.produced = Tail(box.produced) /\ box'.consumed = box.consumed
    /\ tex' = [tex EXCEPT !["render"] = Head(box.produced)]
    /\ UNCHANGED <<previous, drawn, stamp, shown, frame>>

\* A thread that has no texture after its step disturbs nothing.
LEMMA QuietMove ==
    ASSUME ThreadsOK, NEW t \in Threads, SamePicture,
           Walks(t) \/ Resets(t) \/ Drops(t) \/ Starts(t),
           t = "vmr" => pc["vmr"] # "stamp" /\ (Unpublished' => Unpublished)
    PROVE  Quiet
<1>1. Moved(t)
  BY DEF Moved
<1>2. pc'[t] \in Plain \cup {"replace", "make"}
  <2>1. CASE Walks(t)
    BY <2>1 DEF ThreadsOK, Walks, Moves, Goto
  <2>2. CASE Resets(t)
    BY <2>2 DEF ThreadsOK, Resets, BeginReset
  <2>3. CASE Drops(t)
    BY <2>3 DEF ThreadsOK, Drops, Moves, Goto
  <2>4. CASE Starts(t)
    BY <2>4 DEF ThreadsOK, Starts, Goto
  <2> QED
    BY <2>1, <2>2, <2>3, <2>4
<1>3. pc'[t] \notin Holding
  BY <1>2 DEF Plain, Holding
<1>4. \A u \in Threads \ {t} : pc'[u] = pc[u] /\ tex'[u] = tex[u] /\ back'[u] = back[u]
  BY <1>1, OthersStay
<1>5. \A u \in Threads : Held(u)' => Held(u) /\ tex'[u] = tex[u]
  BY <1>3, <1>4 DEF Held
<1>6. Fetched' => Fetched
  BY <1>3, <1>4 DEF Fetched, Threads, Holding
<1>7. CASE t = "vmr"
  <2>1. pc'["vmr"] \notin {"find", "draw", "enqueue", "stamp"}
    BY <1>3, <1>7 DEF Holding
  <2> QED
    BY <1>5, <1>6, <1>7, <2>1 DEF Quiet
<1>8. CASE t # "vmr"
  <2>1. pc'["vmr"] = pc["vmr"] /\ tex'["vmr"] = tex["vmr"] /\ back'["vmr"] = back["vmr"]
    BY <1>4, <1>8 DEF Threads
  <2>2. Unpublished' => Unpublished
    BY <2>1 DEF Unpublished
  <2> QED
    BY <1>5, <1>6, <2>1, <2>2 DEF Quiet
<1> QED
  BY <1>7, <1>8

LEMMA VmrKinds ==
    ASSUME Vmr, ThreadsOK, Stages, box \in Boxes
    PROVE  Quiet \/ PresentImage \/ Reused \/ Drawn \/ ProducerEnqueue \/ Stamp
<1> USE DEF Threads
<1>1. CASE CheckDevice \/ CopyImage
  <2>1. Walks("vmr")
    BY <1>1 DEF CheckDevice, CopyImage, Goto, At, Walks, Moves, Plain, Labels, Holding, Making
  <2>2. SamePicture
    BY <1>1 DEF CheckDevice, CopyImage, SamePicture, queueVars, sceneVars, frameVars
  <2>3. pc["vmr"] \in {"check", "copy"}
    BY <1>1 DEF CheckDevice, CopyImage, At
  <2> QED
    BY <2>1, <2>2, <2>3, QuietMove DEF Unpublished
<1>2. CASE LoseProducer \/ DestroyProducer \/ CreateProducer \/ Reformat
  <2>1. Resets("vmr")
    BY <1>2 DEF LoseProducer, DestroyProducer, CreateProducer, Reformat, SetDevice, SetParameters,
       At, Resets, Plain, Labels, Holding, Making
  <2>2. SamePicture
    BY <1>2 DEF LoseProducer, DestroyProducer, CreateProducer, Reformat, SetDevice, SetParameters,
       SamePicture, sceneVars, frameVars
  <2>3. CASE LoseProducer \/ DestroyProducer \/ CreateProducer
    <3>1. pc["vmr"] \in {"check", "destroy", "create"}
      BY <2>3 DEF LoseProducer, DestroyProducer, CreateProducer, At
    <3> QED
      BY <2>1, <2>2, <3>1, QuietMove DEF Unpublished
  <2>4. CASE Reformat
    <3>1. pc["vmr"] = "idle" /\ pc'["vmr"] = "replace" /\ back'["vmr"] = "idle"
      BY <2>4 DEF Reformat, SetParameters, BeginReset, At, ThreadsOK
    <3>2. ~Unpublished'
      BY <3>1 DEF Unpublished
    <3> QED
      BY <2>1, <2>2, <3>1, <3>2, QuietMove
  <2> QED
    BY <1>2, <2>3, <2>4
<1>3. CASE ProducerDequeue
  <2>1. CASE box.consumed # <<>>
    <3>1. Reused
      BY <1>3, <2>1 DEF ProducerDequeue, At, Goto, Reused, Moves, sceneVars, frameVars, Boxes
    <3> QED
      BY <3>1
  <2>2. CASE box.consumed = <<>>
    <3>1. Starts("vmr")
      BY <1>3, <2>2 DEF ProducerDequeue, At, Starts, Plain, Labels, Holding, Making
    <3>2. SamePicture
      BY <1>3, <2>2 DEF ProducerDequeue, SamePicture, sceneVars, frameVars
    <3>3. pc["vmr"] = "dequeue"
      BY <1>3 DEF ProducerDequeue, At
    <3> QED
      BY <3>1, <3>2, <3>3, QuietMove DEF Unpublished
  <2> QED
    BY <2>1, <2>2
<1>4. CASE ProducerFind
  <2>1. pc["vmr"] = "find" /\ SamePicture /\ UNCHANGED <<left, back>>
    BY <1>4 DEF ProducerFind, At, SamePicture, queueVars, sceneVars, frameVars
  <2>2. CASE tex["vmr"] \in box.producer_lookup
    <3>1. Goto("vmr", "draw") /\ UNCHANGED tex
      BY <1>4, <2>2 DEF ProducerFind
    <3>2. pc'["vmr"] = "draw" /\ \A u \in Threads \ {"vmr"} : pc'[u] = pc[u]
      BY <3>1 DEF Goto, ThreadsOK
    <3>3. \A u \in Threads : Held(u)' => Held(u) /\ tex'[u] = tex[u]
      BY <2>1, <3>1, <3>2 DEF Held, Holding
    <3> QED
      BY <2>1, <3>1, <3>2, <3>3 DEF Quiet, Fetched, Unpublished
  <2>3. CASE tex["vmr"] \notin box.producer_lookup
    <3>1. Drops("vmr")
      BY <1>4, <2>3 DEF ProducerFind, At, Goto, Drops, Moves, Plain, Labels, Holding, Making
    <3> QED
      BY <2>1, <3>1, QuietMove DEF Unpublished
  <2> QED
    BY <2>2, <2>3
<1>5. CASE Draw
  <2>1. Drawn \/ (SamePicture /\ Drops("vmr"))
    BY <1>5 DEF Draw, Drawn, At, Goto, Drops, Moves, Plain, Labels, Holding, Making, SamePicture,
       queueVars, sceneVars
  <2>2. pc["vmr"] = "draw"
    BY <1>5 DEF Draw, At
  <2> QED
    BY <2>1, <2>2, QuietMove DEF Unpublished
<1> QED
  BY <1>1, <1>2, <1>3, <1>4, <1>5 DEF Vmr

LEMMA RenderKinds ==
    ASSUME Render, ThreadsOK, Stages, box \in Boxes
    PROVE  Quiet \/ Fetch \/ Show \/ PutBack
<1> USE DEF Threads
<1>1. CASE Wake \/ EmitScene
  <2>1. Walks("render")
    BY <1>1 DEF Wake, EmitScene, Goto, At, Walks, Moves, Plain, Labels, Holding, Making
  <2>2. SamePicture
    BY <1>1 DEF Wake, EmitScene, SamePicture, queueVars, sceneVars, frameVars
  <2> QED
    BY <2>1, <2>2, QuietMove
<1>2. CASE CreateConsumer \/ LoseConsumer \/ Cancel
  <2>1. Resets("render")
    BY <1>2 DEF CreateConsumer, LoseConsumer, Cancel, SetDevice, At, Resets, Plain, Labels,
       Holding, Making
  <2>2. SamePicture
    BY <1>2 DEF CreateConsumer, LoseConsumer, Cancel, SetDevice, SamePicture, sceneVars, frameVars
  <2> QED
    BY <2>1, <2>2, QuietMove
<1>3. CASE ConsumerDequeue
  <2>1. CASE box.produced # <<>>
    <3>1. Fetch
      BY <1>3, <2>1 DEF ConsumerDequeue, At, Goto, Fetch, Moves, sceneVars, frameVars, Boxes
    <3> QED
      BY <3>1
  <2>2. CASE box.produced = <<>>
    <3>1. Walks("render")
      BY <1>3, <2>2 DEF ConsumerDequeue, At, Goto, Walks, Moves, Plain, Labels, Holding, Making
    <3>2. SamePicture
      BY <1>3, <2>2 DEF ConsumerDequeue, SamePicture, sceneVars, frameVars
    <3> QED
      BY <3>1, <3>2, QuietMove
  <2> QED
    BY <2>1, <2>2
<1>4. CASE ConsumerFind
  <2>1. pc["render"] = "find" /\ SamePicture /\ UNCHANGED <<left, back>>
    BY <1>4 DEF ConsumerFind, At, SamePicture, queueVars, sceneVars, frameVars
  <2>2. CASE tex["render"] \in box.consumer_lookup
    <3>1. Goto("render", "show") /\ UNCHANGED tex
      BY <1>4, <2>2 DEF ConsumerFind
    <3>2. pc'["render"] = "show" /\ \A u \in Threads \ {"render"} : pc'[u] = pc[u]
      BY <3>1 DEF Goto, ThreadsOK
    <3>3. \A u \in Threads : Held(u)' => Held(u) /\ tex'[u] = tex[u]
      BY <2>1, <3>1, <3>2 DEF Held, Holding
    <3>4. pc'["vmr"] = pc["vmr"]
      BY <3>2
    <3> QED
      BY <2>1, <3>1, <3>3, <3>4 DEF Quiet, Fetched, Unpublished
  <2>3. CASE tex["render"] \notin box.consumer_lookup
    <3>1. Drops("render")
      BY <1>4, <2>3 DEF ConsumerFind, At, Goto, Drops, Moves, Plain, Labels, Holding, Making
    <3> QED
      BY <2>1, <3>1, QuietMove
  <2> QED
    BY <2>2, <2>3
<1> QED
  BY <1>1, <1>2, <1>3, <1>4 DEF Render

LEMMA GraphKinds == ASSUME Graph, ThreadsOK PROVE Quiet
<1> USE DEF Threads
<1>1. CASE Loaded \/ Unload \/ Unloaded
  <2>1. Walks("graph")
    BY <1>1 DEF Loaded, Unload, Unloaded, Goto, At, Walks, Moves, Plain, Labels, Holding, Making
  <2>2. SamePicture
    BY <1>1 DEF Loaded, Unload, Unloaded, SamePicture, queueVars, sceneVars, frameVars
  <2> QED
    BY <2>1, <2>2, QuietMove
<1>2. CASE Load \/ InitializeDevice \/ Release
  <2>1. Resets("graph")
    BY <1>2 DEF Load, InitializeDevice, Release, SetDevice, SetParameters, At, Resets, Plain,
       Labels, Holding, Making
  <2>2. SamePicture
    BY <1>2 DEF Load, InitializeDevice, Release, SetDevice, SetParameters, SamePicture, sceneVars,
       frameVars
  <2> QED
    BY <2>1, <2>2, QuietMove
<1> QED
  BY <1>1, <1>2 DEF Graph

\* A throw leaves the presenter's frame unpublished or ends it.
LEMMA QuietThrow ==
    ASSUME ThreadsOK, NEW t \in Threads, SamePicture, Throw(t), pc[t] \in Making, UNCHANGED <<left, back>>
    PROVE  Quiet
<1>1. Drops(t)
  BY CatchFact DEF Throw, Goto, Drops, Moves
<1>2. ASSUME t = "vmr" PROVE pc["vmr"] # "stamp" /\ (Unpublished' => Unpublished)
  <2>1. pc'["vmr"] = IF back["vmr"] = "copy" THEN "copy" ELSE "idle"
    BY <1>2 DEF Throw, Goto, Catch, ThreadsOK, Threads
  <2> QED
    BY <1>2, <2>1 DEF Unpublished, Making
<1> QED
  BY <1>1, <1>2, QuietMove

LEMMA GeneratingKinds ==
    ASSUME NEW t \in Threads, Generating(t), ThreadsOK, Stages, box \in Boxes
    PROVE  Quiet \/ Replace(t) \/ Made(t) \/ Offer(t)
<1>1. CASE Make(t)
  <2>1. Made(t) \/ (SamePicture /\ Throw(t) /\ UNCHANGED <<left, back>>)
    BY <1>1 DEF Make, Made, At, Goto, Moves, SamePicture, sceneVars, Boxes
  <2>2. pc[t] \in Making
    BY <1>1 DEF Make, At, Making
  <2> QED
    BY <2>1, <2>2, QuietThrow
<1>2. CASE Share(t)
  <2>1. pc[t] = "share" /\ SamePicture /\ UNCHANGED <<left, back>>
    BY <1>2 DEF Share, At, SamePicture, sceneVars, frameVars, Boxes
  <2>2. CASE Throw(t)
    BY <2>1, <2>2, QuietThrow DEF Making
  <2>3. CASE Goto(t, "describe") /\ UNCHANGED tex
    <3>1. pc'[t] = "describe" /\ \A u \in Threads \ {t} : pc'[u] = pc[u]
      BY <2>3 DEF Goto, ThreadsOK
    <3>2. \A u \in Threads : Held(u)' => Held(u) /\ tex'[u] = tex[u]
      BY <2>1, <2>3, <3>1 DEF Held, Holding
    <3> QED
      BY <2>1, <2>3, <3>1, <3>2 DEF Quiet, Fetched, Unpublished, Threads, Making
  <2> QED
    BY <1>2, <2>2, <2>3 DEF Share
<1>3. CASE Describe(t)
  <2>1. pc[t] = "describe" /\ SamePicture /\ UNCHANGED <<tex, left, back>>
    BY <1>3 DEF Describe, At, SamePicture, sceneVars, frameVars, Boxes
  <2>2. pc'[t] = "offer" /\ \A u \in Threads \ {t} : pc'[u] = pc[u]
    BY <1>3 DEF Describe, Goto, ThreadsOK
  <2>3. \A u \in Threads : Held(u)' => Held(u) /\ tex'[u] = tex[u]
    BY <2>1, <2>2 DEF Held, Holding
  <2> QED
    BY <2>1, <2>2, <2>3 DEF Quiet, Fetched, Unpublished, Threads, Making
<1> QED
  BY <1>1, <1>2, <1>3 DEF Generating

-----------------------------------------------------------------------------
(* Types.                                                                  *)

\* reset empties one of the containers.
LEMMA ReplaceBox ==
    ASSUME box \in Boxes, ThreadsOK, Stages, NEW t \in Threads, Replace(t)
    PROVE  /\ box' \in Boxes
           /\ box'.produced = box.produced \/ box'.produced = <<>>
           /\ box'.consumed = box.consumed \/ box'.consumed = <<>>
<1>1. left[t] \in 1..5
  BY ReplaceMove
<1>2. PICK c \in {"produced", "consumed", "producer_lookup", "consumer_lookup", "metadata"} :
         box' = [box EXCEPT ![c] = Blank[c]]
  <2>1. Replaced[left[t]]
           \in {"produced", "consumed", "producer_lookup", "consumer_lookup", "metadata"}
    BY <1>1 DEF Replaced
  <2> QED
    BY <2>1 DEF Replace
<1>3. <<>> \in Seq(Handles)
  OBVIOUS
<1>4. CASE c = "produced"
  BY <1>2, <1>3, <1>4 DEF Boxes, Blank
<1>5. CASE c = "consumed"
  BY <1>2, <1>3, <1>5 DEF Boxes, Blank
<1>6. CASE c = "producer_lookup"
  BY <1>2, <1>6 DEF Boxes, Blank
<1>7. CASE c = "consumer_lookup"
  BY <1>2, <1>7 DEF Boxes, Blank
<1>8. CASE c = "metadata"
  BY <1>2, <1>8 DEF Boxes, Blank
<1> QED
  BY <1>4, <1>5, <1>6, <1>7, <1>8

\* ... and a texture given back goes to the end of consumed.
LEMMA GiveBackBox ==
    ASSUME box \in Boxes, PictureOK, GiveBack
    PROVE  /\ box' \in Boxes /\ box'.produced = box.produced
           /\ previous = NoTexture => box'.consumed = box.consumed
           /\ previous # NoTexture => previous \in Handles
                                      /\ box'.consumed = Append(box.consumed, previous)
<1>1. CASE previous = NoTexture
  <2>1. box' = [box EXCEPT !.consumed = box.consumed]
    BY <1>1 DEF GiveBack
  <2> QED
    BY <1>1, <2>1 DEF Boxes
<1>2. CASE previous # NoTexture
  <2>1. box' = [box EXCEPT !.consumed = Append(box.consumed, previous)]
    BY <1>2 DEF GiveBack
  <2>2. previous \in Handles
    BY <1>2 DEF PictureOK
  <2>3. Append(box.consumed, previous) \in Seq(Handles)
    BY <2>2 DEF Boxes
  <2> QED
    BY <1>2, <2>1, <2>2, <2>3 DEF Boxes
<1> QED
  BY <1>1, <1>2

\* What a thread holds is a handle.
LEMMA HeldHandle ==
    ASSUME ThreadsOK, Stages, NEW t \in Threads, pc[t] \in Holding
    PROVE  tex[t] \in Handles
BY DEF ThreadsOK, Stages, Stage

LEMMA BoxFrame ==
    Next => \/ UNCHANGED box
            \/ \E t \in Threads : Replace(t) \/ Make(t) \/ Share(t) \/ Describe(t) \/ Offer(t)
            \/ ProducerDequeue \/ ProducerEnqueue \/ ConsumerDequeue
            \/ GiveBack
BY DEF Next, Generating, Vmr, Render, Graph, PresentImage, CheckDevice, LoseProducer,
   DestroyProducer, CreateProducer, CopyImage, ProducerFind, Draw, Stamp, Reformat,
   CreateConsumer, Wake, LoseConsumer, Cancel, EmitScene, ConsumerFind, Show, PutBack,
   Load, InitializeDevice, Loaded, Unload, Release, Unloaded, SetDevice, SetParameters, queueVars

LEMMA BoxStep ==
    ASSUME box \in Boxes, ThreadsOK, PictureOK, Stages, Next
    PROVE  box' \in Boxes
<1>1. ASSUME NEW t \in Threads, Replace(t) PROVE box' \in Boxes
  BY <1>1, ReplaceBox
<1>2. ASSUME NEW t \in Threads, Make(t) PROVE box' \in Boxes
  <2>1. UNCHANGED box \/ \E h \in Handles : box' = [box EXCEPT !.producer_lookup = @ \cup {h}]
    BY <1>2 DEF Make
  <2> QED
    BY <2>1 DEF Boxes
<1>3. ASSUME NEW t \in Threads, Share(t) PROVE box' \in Boxes
  <2>1. tex[t] \in Handles
    BY <1>3, HeldHandle DEF Share, At, Holding
  <2>2. UNCHANGED box \/ box' = [box EXCEPT !.consumer_lookup = @ \cup {tex[t]}]
    BY <1>3 DEF Share
  <2> QED
    BY <2>1, <2>2 DEF Boxes
<1>4. ASSUME NEW t \in Threads, Describe(t) PROVE box' \in Boxes
  <2>1. tex[t] \in Handles
    BY <1>4, HeldHandle DEF Describe, At, Holding
  <2> QED
    BY <1>4, <2>1 DEF Describe, Boxes
<1>5. ASSUME NEW t \in Threads, Offer(t) PROVE box' \in Boxes
  <2>1. tex[t] \in Handles
    BY <1>5, HeldHandle DEF Offer, At, Holding
  <2>2. Append(box.consumed, tex[t]) \in Seq(Handles)
    BY <2>1 DEF Boxes
  <2> QED
    BY <1>5, <2>2 DEF Offer, Boxes
<1>6. CASE ProducerDequeue
  <2>1. UNCHANGED box \/ (box.consumed # <<>> /\ box' = [box EXCEPT !.consumed = Tail(@)])
    BY <1>6 DEF ProducerDequeue
  <2>2. box.consumed # <<>> => Tail(box.consumed) \in Seq(Handles)
    BY TailList DEF Boxes
  <2> QED
    BY <2>1, <2>2 DEF Boxes
<1>7. CASE ConsumerDequeue
  <2>1. UNCHANGED box \/ (box.produced # <<>> /\ box' = [box EXCEPT !.produced = Tail(@)])
    BY <1>7 DEF ConsumerDequeue
  <2>2. box.produced # <<>> => Tail(box.produced) \in Seq(Handles)
    BY TailList DEF Boxes
  <2> QED
    BY <2>1, <2>2 DEF Boxes
<1>8. CASE ProducerEnqueue
  <2>1. tex["vmr"] \in Handles
    BY <1>8, HeldHandle DEF ProducerEnqueue, At, Holding, Threads
  <2>2. Append(box.produced, tex["vmr"]) \in Seq(Handles)
    BY <2>1 DEF Boxes
  <2> QED
    BY <1>8, <2>2 DEF ProducerEnqueue, Boxes
<1>9. CASE GiveBack
  BY <1>9, GiveBackBox
<1> QED
  BY <1>1, <1>2, <1>3, <1>4, <1>5, <1>6, <1>7, <1>8, <1>9, BoxFrame

LEMMA PictureFrame ==
    Next => \/ UNCHANGED <<previous, shown, drawn, stamp, frame>>
            \/ \E t \in Threads : Make(t)
            \/ PresentImage \/ Draw \/ Stamp \/ Show \/ PutBack
BY DEF Next, Generating, Vmr, Render, Graph, CheckDevice, LoseProducer,
   DestroyProducer, CreateProducer, CopyImage, ProducerDequeue, ProducerFind, ProducerEnqueue,
   Reformat, CreateConsumer, Wake, LoseConsumer, Cancel, EmitScene, ConsumerDequeue, ConsumerFind,
   Load, InitializeDevice, Loaded, Unload, Release, Unloaded, Replace, Share, Describe, Offer,
   sceneVars, frameVars

LEMMA PictureStep ==
    ASSUME ThreadsOK, PictureOK, Stages, Next
    PROVE  PictureOK'
<1> USE TextureAssumption
<1>1. ASSUME NEW t \in Threads, Make(t) PROVE PictureOK'
  <2>1. /\ UNCHANGED <<previous, shown, frame>>
        /\ \/ UNCHANGED <<drawn, stamp>>
           \/ \E h \in Handles : drawn' = [drawn EXCEPT ![h] = 0] /\ stamp' = [stamp EXCEPT ![h] = 0]
    BY <1>1 DEF Make, sceneVars
  <2> QED
    BY <2>1 DEF PictureOK
<1>2. CASE PresentImage
  BY <1>2 DEF PresentImage, PictureOK, sceneVars
<1>3. CASE Draw
  <2>1. UNCHANGED <<previous, shown, stamp, frame>>
        /\ (drawn' = [drawn EXCEPT ![tex["vmr"]] = frame] \/ UNCHANGED drawn)
    BY <1>3 DEF Draw, sceneVars
  <2> QED
    BY <2>1 DEF PictureOK
<1>4. CASE Stamp
  <2>1. UNCHANGED <<previous, shown, drawn, frame>>
        /\ (stamp' = [stamp EXCEPT ![tex["vmr"]] = frame] \/ UNCHANGED stamp)
    BY <1>4 DEF Stamp, sceneVars
  <2> QED
    BY <2>1 DEF PictureOK
<1>5. CASE Show
  <2>1. tex["render"] \in Handles
    BY <1>5, HeldHandle DEF Show, At, Holding, Threads
  <2> QED
    BY <1>5, <2>1 DEF Show, PictureOK, frameVars
<1>6. CASE PutBack
  BY <1>6 DEF PutBack, PictureOK, frameVars
<1>7. CASE UNCHANGED <<previous, shown, drawn, stamp, frame>>
  BY <1>7 DEF PictureOK
<1> QED
  BY <1>1, <1>2, <1>3, <1>4, <1>5, <1>6, <1>7, PictureFrame

LEMMA FlagsFrame ==
    Next => /\ described' = TRUE \/ UNCHANGED described
            /\ graph' = TRUE \/ graph' = FALSE \/ UNCHANGED graph
            /\ video' = TRUE \/ video' = FALSE \/ UNCHANGED video
            /\ alive' = TRUE \/ alive' = FALSE \/ UNCHANGED alive
BY DEF Next, Generating, Vmr, Render, Graph, PresentImage, CheckDevice, LoseProducer,
   DestroyProducer, CreateProducer, CopyImage, ProducerDequeue, ProducerFind, Draw,
   ProducerEnqueue, Stamp, Reformat, CreateConsumer, Wake, LoseConsumer, Cancel, EmitScene,
   ConsumerDequeue, ConsumerFind, Show, PutBack, Load, InitializeDevice, Loaded, Unload, Release,
   Unloaded, Replace, Make, Share, Describe, Offer, SetDevice, SetParameters, queueVars, graphVars

LEMMA TornFrame ==
    Next => UNCHANGED torn \/ (\E t \in Threads : Replace(t) \/ Make(t)) \/ ProducerDequeue
BY DEF Next, Generating, Vmr, Render, Graph, PresentImage, CheckDevice, LoseProducer,
   DestroyProducer, CreateProducer, CopyImage, ProducerFind, Draw,
   ProducerEnqueue, Stamp, Reformat, CreateConsumer, Wake, LoseConsumer, Cancel, EmitScene,
   ConsumerDequeue, ConsumerFind, Show, PutBack, Load, InitializeDevice, Loaded, Unload, Release,
   Unloaded, Share, Describe, Offer

LEMMA FlagsStep == FlagsOK /\ Next => FlagsOK'
<1> SUFFICES ASSUME FlagsOK, Next PROVE FlagsOK'
  OBVIOUS
<1>1. torn' \in BOOLEAN
  <2>1. ASSUME NEW t \in Threads, Replace(t) PROVE torn' \in BOOLEAN
    BY <2>1, Zenon DEF Replace
  <2>2. ASSUME NEW t \in Threads, Make(t) PROVE torn' \in BOOLEAN
    BY <2>2, Zenon DEF Make
  <2>3. CASE ProducerDequeue
    BY <2>3, Zenon DEF ProducerDequeue
  <2> QED
    BY <2>1, <2>2, <2>3, TornFrame DEF FlagsOK
<1> QED
  BY <1>1, FlagsFrame, Zenon DEF FlagsOK

LEMMA CountsFrame ==
    ASSUME Next
    PROVE  /\ \/ UNCHANGED device
              \/ \E side \in {"producer", "consumer"} : device' = device \cup {side}
              \/ \E side \in {"producer", "consumer"} : device' = device \ {side}
           /\ UNCHANGED first \/ first' = frame + 1
           /\ UNCHANGED loads \/ (loads < MaxLoads /\ loads' = loads + 1)
           /\ UNCHANGED rebuilds \/ (rebuilds < MaxRebuilds /\ rebuilds' = rebuilds + 1)
           /\ UNCHANGED failures \/ (failures < MaxFailures /\ failures' = failures + 1)
<1>1. CASE Vmr
  BY <1>1 DEF Vmr, PresentImage, CheckDevice, LoseProducer, DestroyProducer, CreateProducer,
     CopyImage, ProducerDequeue, ProducerFind, Draw, ProducerEnqueue, Stamp, Reformat, SetDevice,
     SetParameters, Fails, queueVars, graphVars, frameVars
<1>2. CASE Render
  BY <1>2 DEF Render, CreateConsumer, Wake, LoseConsumer, Cancel, EmitScene, ConsumerDequeue,
     ConsumerFind, Show, PutBack, SetDevice, queueVars, graphVars, frameVars
<1>3. CASE Graph
  BY <1>3 DEF Graph, Load, InitializeDevice, Loaded, Unload, Release, Unloaded, SetDevice,
     SetParameters, queueVars, graphVars, frameVars
<1>4. ASSUME NEW t \in Threads, Generating(t)
      PROVE  /\ UNCHANGED <<device, first, loads, rebuilds>>
             /\ UNCHANGED failures \/ (failures < MaxFailures /\ failures' = failures + 1)
  BY <1>4 DEF Generating, Replace, Make, Share, Describe, Offer, Fails, graphVars, frameVars
<1> QED
  BY <1>1, <1>2, <1>3, <1>4 DEF Next

LEMMA CountsStep == PictureOK /\ CountsOK /\ Next => CountsOK'
<1> SUFFICES ASSUME PictureOK, CountsOK, Next PROVE CountsOK'
  OBVIOUS
<1> USE TextureAssumption
<1>1. device' \subseteq {"producer", "consumer"}
  BY CountsFrame DEF CountsOK
<1>2. first' \in 1..MaxFrames + 1
  BY CountsFrame DEF PictureOK, CountsOK
<1>3. loads' \in 0..MaxLoads
  BY CountsFrame DEF CountsOK
<1>4. rebuilds' \in 0..MaxRebuilds
  BY CountsFrame DEF CountsOK
<1>5. failures' \in 0..MaxFailures
  BY CountsFrame DEF CountsOK
<1> QED
  BY <1>1, <1>2, <1>3, <1>4, <1>5 DEF CountsOK

LEMMA TypesStep == Types /\ Stages /\ Next => Types' /\ Stages'
BY NextMoves, ThreadsStep, BoxStep, PictureStep, CountsStep DEF Types

LEMMA TypesFact == Types /\ FlagsOK => TypeOK
BY DEF Types, FlagsOK, TypeOK, Boxes, ThreadsOK, PictureOK, CountsOK

LEMMA InitTypes == Init => Types /\ FlagsOK /\ Stages
<1> SUFFICES ASSUME Init PROVE Types /\ FlagsOK /\ Stages
  OBVIOUS
<1> USE TextureAssumption
<1>1. box \in Boxes
  BY DEF Init, Blank, Boxes
<1>2. ThreadsOK
  BY DEF Init, ThreadsOK, Labels, Threads
<1>3. PictureOK /\ CountsOK
  BY DEF Init, PictureOK, CountsOK
<1>4. FlagsOK
  BY Zenon DEF Init, FlagsOK
<1>5. Stages
  BY DEF Init, Stages, Stage, Holding, Making, Threads
<1> QED
  BY <1>1, <1>2, <1>3, <1>4, <1>5 DEF Types

-----------------------------------------------------------------------------
(* No texture in two places.                                               *)

LEMMA Kinds ==
    ASSUME Types, Stages, Next
    PROVE  \/ Quiet \/ PresentImage \/ Reused \/ Drawn \/ ProducerEnqueue \/ Stamp
           \/ Fetch \/ Show \/ PutBack
           \/ \E t \in Threads : Replace(t) \/ Made(t) \/ Offer(t)
<1>1. CASE Vmr
  BY <1>1, VmrKinds DEF Types
<1>2. CASE Render
  BY <1>2, RenderKinds DEF Types
<1>3. CASE Graph
  BY <1>3, GraphKinds DEF Types
<1>4. ASSUME NEW t \in Threads, Generating(t) PROVE Quiet \/ Replace(t) \/ Made(t) \/ Offer(t)
  BY <1>4, GeneratingKinds DEF Types
<1> QED
  BY <1>1, <1>2, <1>3, <1>4 DEF Next

\* When nothing more is held, queued or on screen than before.
LEMMA ApartLess ==
    ASSUME Apart,
           IsInjective(box'.produced), ToSet(box'.produced) \subseteq ToSet(box.produced),
           IsInjective(box'.consumed), ToSet(box'.consumed) \subseteq ToSet(box.consumed),
           previous' = previous,
           \A u \in Threads : Held(u)' => Held(u) /\ tex'[u] = tex[u]
    PROVE  Apart'
BY DEF Apart

\* The textures a thread may not make: those it would be in two places with.
LEMMA NewIsNew ==
    ASSUME NEW h, NewHandle(h)
    PROVE  /\ h \notin ToSet(box.produced) /\ h \notin ToSet(box.consumed)
           /\ h # previous /\ \A t \in Threads : h # tex[t]
BY DEF NewHandle, InUse, ToSet

LEMMA ApartMade ==
    ASSUME Types, Apart, NEW t \in Threads, Made(t)
    PROVE  Apart'
<1>1. PICK h \in Handles : NewHandle(h) /\ tex' = [tex EXCEPT ![t] = h]
  BY DEF Made
<1>2. /\ h \notin ToSet(box.produced) /\ h \notin ToSet(box.consumed)
      /\ h # previous /\ \A u \in Threads : h # tex[u]
  BY <1>1, NewIsNew
<1>3. box'.produced = box.produced /\ box'.consumed = box.consumed /\ previous' = previous
  BY DEF Made
<1>4. tex'[t] = h /\ \A u \in Threads \ {t} : tex'[u] = tex[u] /\ pc'[u] = pc[u]
  BY <1>1 DEF Made, Moves, Goto, Types, ThreadsOK
<1>5. \A u \in Threads \ {t} : Held(u)' => Held(u) /\ tex'[u] = tex[u]
  BY <1>4 DEF Held
<1> QED
  BY <1>2, <1>3, <1>4, <1>5 DEF Apart

\* A texture moves from the end of one list into a hand, or the other way.
LEMMA ApartTaken ==
    ASSUME Types, Apart, NEW t \in Threads, ~Held(t), NEW h,
           tex' = [tex EXCEPT ![t] = h], Moves(t, "find"), previous' = previous,
           \/ /\ box.produced # <<>> /\ h = Head(box.produced)
              /\ box'.produced = Tail(box.produced) /\ box'.consumed = box.consumed
           \/ /\ box.consumed # <<>> /\ h = Head(box.consumed)
              /\ box'.consumed = Tail(box.consumed) /\ box'.produced = box.produced
    PROVE  Apart'
<1>1. tex'[t] = h /\ \A u \in Threads \ {t} : tex'[u] = tex[u] /\ pc'[u] = pc[u]
  BY DEF Moves, Goto, Types, ThreadsOK
<1>2. \A u \in Threads \ {t} : Held(u)' => Held(u) /\ tex'[u] = tex[u]
  BY <1>1 DEF Held
<1>3. box.produced \in Seq(Handles) /\ box.consumed \in Seq(Handles)
  BY DEF Types, Boxes
<1>4. CASE /\ box.produced # <<>> /\ h = Head(box.produced)
           /\ box'.produced = Tail(box.produced) /\ box'.consumed = box.consumed
  <2>1. /\ ToSet(box.produced) = {h} \cup ToSet(box'.produced)
        /\ IsInjective(box'.produced) /\ h \notin ToSet(box'.produced)
    BY <1>3, <1>4, TailList, TailOnce DEF Apart
  <2> QED
    BY <1>1, <1>2, <1>4, <2>1 DEF Apart
<1>5. CASE /\ box.consumed # <<>> /\ h = Head(box.consumed)
           /\ box'.consumed = Tail(box.consumed) /\ box'.produced = box.produced
  <2>1. /\ ToSet(box.consumed) = {h} \cup ToSet(box'.consumed)
        /\ IsInjective(box'.consumed) /\ h \notin ToSet(box'.consumed)
    BY <1>3, <1>5, TailList, TailOnce DEF Apart
  <2> QED
    BY <1>1, <1>2, <1>5, <2>1 DEF Apart
<1> QED
  BY <1>4, <1>5

LEMMA ApartGiven ==
    ASSUME Types, Apart, NEW t \in Threads, Held(t), tex[t] \in Handles, ~Held(t)',
           \A u \in Threads \ {t} : tex'[u] = tex[u] /\ pc'[u] = pc[u], previous' = previous,
           \/ box'.produced = Append(box.produced, tex[t]) /\ box'.consumed = box.consumed
           \/ box'.consumed = Append(box.consumed, tex[t]) /\ box'.produced = box.produced
    PROVE  Apart'
<1>1. \A u \in Threads : Held(u)' => u # t /\ Held(u) /\ tex'[u] = tex[u]
  BY DEF Held
<1>2. box.produced \in Seq(Handles) /\ box.consumed \in Seq(Handles)
  BY DEF Types, Boxes
<1>3. tex[t] \notin ToSet(box.produced) /\ tex[t] \notin ToSet(box.consumed) /\ tex[t] # previous
  BY DEF Apart
<1>4. CASE box'.produced = Append(box.produced, tex[t]) /\ box'.consumed = box.consumed
  <2>1. IsInjective(box'.produced) /\ ToSet(box'.produced) = ToSet(box.produced) \cup {tex[t]}
    BY <1>2, <1>3, <1>4, AppendList, AppendOnce DEF Apart
  <2> QED
    BY <1>1, <1>3, <1>4, <2>1 DEF Apart
<1>5. CASE box'.consumed = Append(box.consumed, tex[t]) /\ box'.produced = box.produced
  <2>1. IsInjective(box'.consumed) /\ ToSet(box'.consumed) = ToSet(box.consumed) \cup {tex[t]}
    BY <1>2, <1>3, <1>5, AppendList, AppendOnce DEF Apart
  <2> QED
    BY <1>1, <1>3, <1>5, <2>1 DEF Apart
<1> QED
  BY <1>4, <1>5

\* The texture that was on screen goes into consumed; at most the one the
\* render thread held takes its place.
LEMMA ApartGivenBack ==
    ASSUME Types, Apart, GiveBack, NEW now,
           previous' = now, now = NoTexture \/ (now = tex["render"] /\ Held("render") /\ ~Held("render")'),
           \A u \in Threads : Held(u)' => Held(u) /\ tex'[u] = tex[u],
           \A u \in Threads : Held(u) => tex[u] # NoTexture
    PROVE  Apart'
<1>1. box \in Boxes /\ PictureOK /\ box.consumed \in Seq(Handles)
  BY DEF Types, Boxes
<1>2. box'.produced = box.produced
  BY <1>1, GiveBackBox
<1>3. /\ IsInjective(box'.consumed)
      /\ ToSet(box'.consumed) = ToSet(box.consumed) \cup ({previous} \ {NoTexture})
  <2>1. CASE previous = NoTexture
    BY <1>1, <2>1, GiveBackBox DEF Apart
  <2>2. CASE previous # NoTexture
    <3>1. previous \in Handles /\ box'.consumed = Append(box.consumed, previous)
      BY <1>1, <2>2, GiveBackBox
    <3>2. previous \notin ToSet(box.consumed) /\ IsInjective(box.consumed)
      BY DEF Apart
    <3> QED
      BY <1>1, <2>2, <3>1, <3>2, AppendList, AppendOnce
  <2> QED
    BY <2>1, <2>2
<1>4. \A h \in ToSet(box.produced) \cup ToSet(box'.consumed) : h # NoTexture
  <2>1. \A h \in ToSet(box.produced) \cup ToSet(box.consumed) : h \in Handles
    BY DEF Types, Boxes, ToSet
  <2> QED
    BY <1>3, <2>1, NoTextureFact
<1>5. "render" \in Threads
  BY DEF Threads
<1>6. /\ \A h \in ToSet(box.produced) : h \notin ToSet(box'.consumed) /\ h # now
      /\ \A h \in ToSet(box'.consumed) : h # now
  BY <1>3, <1>4, <1>5 DEF Apart
<1>7. ASSUME NEW u \in Threads, Held(u)'
      PROVE  tex'[u] \notin ToSet(box.produced) /\ tex'[u] \notin ToSet(box'.consumed) /\ tex'[u] # now
  <2>1. Held(u) /\ tex'[u] = tex[u] /\ tex[u] # NoTexture
    BY <1>7
  <2>2. CASE now = NoTexture
    BY <1>3, <2>1, <2>2 DEF Apart
  <2>3. CASE now = tex["render"] /\ Held("render") /\ ~Held("render")'
    <3>1. u # "render"
      BY <1>7, <2>3
    <3> QED
      BY <1>3, <1>5, <2>1, <2>3, <3>1 DEF Apart
  <2> QED
    BY <2>2, <2>3
<1>8. \A u, w \in Threads : u # w /\ Held(u)' /\ Held(w)' => tex'[u] # tex'[w]
  BY DEF Apart
<1> QED
  BY <1>2, <1>3, <1>6, <1>7, <1>8 DEF Apart

LEMMA ApartStep ==
    ASSUME Types, Stages, Apart, Next
    PROVE  Apart'
<1>0. \A u \in Threads : Held(u) => tex[u] \in Handles /\ tex[u] # NoTexture
  BY HeldHandle, NoTextureFact DEF Held, Types
<1>1. CASE Quiet
  BY <1>1, ApartLess DEF Quiet, SamePicture, Apart
<1>2. CASE PresentImage
  <2>1. UNCHANGED <<box, previous, tex>> /\ Goto("vmr", "check")
    BY <1>2 DEF PresentImage, queueVars, sceneVars
  <2>2. \A u \in Threads : Held(u)' => Held(u) /\ tex'[u] = tex[u]
    BY <2>1 DEF Held, Goto, Types, ThreadsOK, Holding
  <2> QED
    BY <2>1, <2>2, ApartLess DEF Apart
<1>3. CASE Reused
  <2>1. ~Held("vmr") /\ "vmr" \in Threads
    BY <1>3 DEF Reused, Held, Holding, Threads
  <2> QED
    BY <1>3, <2>1, ApartTaken DEF Reused
<1>4. CASE Drawn
  <2>1. UNCHANGED <<box, previous, tex>> /\ Goto("vmr", "enqueue") /\ pc["vmr"] = "draw"
    BY <1>4 DEF Drawn, Moves
  <2>2. \A u \in Threads : Held(u)' => Held(u) /\ tex'[u] = tex[u]
    BY <2>1 DEF Held, Goto, Types, ThreadsOK, Holding
  <2> QED
    BY <2>1, <2>2, ApartLess DEF Apart
<1>5. CASE ProducerEnqueue
  <2>1. /\ pc["vmr"] = "enqueue" /\ Goto("vmr", "stamp") /\ UNCHANGED <<tex, previous>>
        /\ box'.produced = Append(box.produced, tex["vmr"]) /\ box'.consumed = box.consumed
    BY <1>5 DEF ProducerEnqueue, At, sceneVars, Types, Boxes
  <2>2. \A u \in Threads \ {"vmr"} : tex'[u] = tex[u] /\ pc'[u] = pc[u]
    BY <2>1 DEF Goto, Types, ThreadsOK
  <2>3. "vmr" \in Threads /\ Held("vmr") /\ ~Held("vmr")'
    BY <2>1 DEF Held, Holding, Goto, Types, ThreadsOK, Threads
  <2> QED
    BY <1>0, <2>1, <2>2, <2>3, ApartGiven
<1>6. CASE Stamp
  <2>1. UNCHANGED <<box, previous>> /\ tex' = [tex EXCEPT !["vmr"] = NoTexture]
        /\ (Goto("vmr", "idle") \/ Goto("vmr", "crashed"))
    BY <1>6 DEF Stamp, queueVars, sceneVars
  <2>2. \A u \in Threads : Held(u)' => Held(u) /\ tex'[u] = tex[u]
    BY <2>1 DEF Held, Goto, Types, ThreadsOK, Holding
  <2> QED
    BY <2>1, <2>2, ApartLess DEF Apart
<1>7. CASE Fetch
  <2>1. ~Held("render") /\ "render" \in Threads
    BY <1>7 DEF Fetch, Held, Holding, Threads
  <2> QED
    BY <1>7, <2>1, ApartTaken DEF Fetch
<1>8. CASE Show
  <2>1. /\ GiveBack /\ previous' = tex["render"] /\ pc["render"] = "show"
        /\ tex' = [tex EXCEPT !["render"] = NoTexture] /\ Goto("render", "idle")
    BY <1>8 DEF Show, At
  <2>2. Held("render") /\ ~Held("render")'
    BY <2>1 DEF Held, Holding, Goto, Types, ThreadsOK, Threads
  <2>3. \A u \in Threads : Held(u)' => Held(u) /\ tex'[u] = tex[u]
    BY <2>1 DEF Held, Goto, Types, ThreadsOK, Holding
  <2> QED
    BY <1>0, <2>1, <2>2, <2>3, ApartGivenBack
<1>9. CASE PutBack
  <2>1. GiveBack /\ previous' = NoTexture /\ UNCHANGED tex
        /\ (Goto("render", "gone") \/ Goto("render", "idle"))
    BY <1>9 DEF PutBack
  <2>2. \A u \in Threads : Held(u)' => Held(u) /\ tex'[u] = tex[u]
    BY <2>1 DEF Held, Goto, Types, ThreadsOK, Holding
  <2> QED
    BY <1>0, <2>1, <2>2, ApartGivenBack
<1>10. ASSUME NEW t \in Threads, Replace(t) PROVE Apart'
  <2>1. /\ box'.produced = box.produced \/ box'.produced = <<>>
        /\ box'.consumed = box.consumed \/ box'.consumed = <<>>
    BY <1>10, ReplaceBox DEF Types
  <2>2. UNCHANGED <<tex, previous>>
    BY <1>10 DEF Replace, sceneVars
  <2>3. Moved(t)
    BY <1>10 DEF Moved
  <2>4. pc'[t] \notin Holding
    BY <1>10, ReplaceMove, <2>3, ThreadsStep DEF Types, ThreadsOK, Stages, Stage, Goto, Holding
  <2>5. \A u \in Threads : Held(u)' => Held(u) /\ tex'[u] = tex[u]
    BY <2>2, <2>3, <2>4, OthersStay DEF Held, Types
  <2> QED
    BY <2>1, <2>2, <2>5, ApartLess, EmptyList DEF Apart
<1>11. ASSUME NEW t \in Threads, Made(t) PROVE Apart'
  BY <1>11, ApartMade
<1>12. ASSUME NEW t \in Threads, Offer(t) PROVE Apart'
  <2>1. /\ pc[t] = "offer" /\ UNCHANGED previous /\ tex' = [tex EXCEPT ![t] = NoTexture]
        /\ box'.consumed = Append(box.consumed, tex[t]) /\ box'.produced = box.produced
    BY <1>12 DEF Offer, At, sceneVars, Types, Boxes
  <2>2. Moved(t)
    BY <1>12 DEF Moved
  <2>3. tex'[t] = NoTexture
    BY <2>1 DEF Types, ThreadsOK
  <2>4. ~Held(t)' /\ Held(t)
    BY <2>1, <2>2, <2>3, ThreadsStep DEF Types, Stages, Stage, Held, Holding
  <2>5. \A u \in Threads \ {t} : tex'[u] = tex[u] /\ pc'[u] = pc[u]
    BY <2>2, OthersStay DEF Types
  <2> QED
    BY <1>0, <2>1, <2>4, <2>5, ApartGiven
<1> QED
  BY <1>1, <1>2, <1>3, <1>4, <1>5, <1>6, <1>7, <1>8, <1>9, <1>10, <1>11, <1>12, Kinds

-----------------------------------------------------------------------------
(* Frames in order.                                                        *)

LEMMA PublishedFact ==
    ASSUME Types, Stages
    PROVE  /\ ToSet(box.produced) \subseteq Published /\ Published \subseteq Handles
           /\ Fetched => tex["render"] \in Published
           /\ \A h \in Handles : drawn[h] \in Nat /\ frame \in Nat /\ shown \in Nat
<1>1. ToSet(box.produced) \subseteq Handles
  BY DEF Types, Boxes, ToSet
<1>2. Fetched => tex["render"] \in Handles
  BY HeldHandle DEF Fetched, Types, Threads, Holding
<1>3. \A h \in Handles : drawn[h] \in Nat /\ frame \in Nat /\ shown \in Nat
  BY TextureAssumption DEF Types, PictureOK
<1> QED
  BY <1>1, <1>2, <1>3 DEF Published

\* When no frame is published, and none of those on their way changes.
LEMMA OrderedLess ==
    ASSUME Types, Stages, Ordered,
           box'.produced = box.produced \/ box'.produced = <<>>,
           Fetched' => Fetched /\ tex'["render"] = tex["render"],
           \A h \in Published : drawn'[h] = drawn[h],
           previous # NoTexture => drawn'[previous] = drawn[previous],
           Unpublished' => Unpublished, frame' = frame, shown' = shown,
           previous' = previous \/ previous' = NoTexture,
           pc'["vmr"] \in {"enqueue", "stamp"} => drawn'[tex'["vmr"]] = frame
    PROVE  Ordered'
<1>1. ToSet(box'.produced) \subseteq ToSet(box.produced)
  BY EmptyList
<1>2. Published' \subseteq Published
  BY <1>1 DEF Published
<1>3. Rising(box'.produced, drawn')
  <2>1. CASE box'.produced = <<>>
    BY <2>1 DEF Rising
  <2>2. CASE box'.produced = box.produced
    <3>1. box.produced \in Seq(Handles)
      BY DEF Types, Boxes
    <3>2. \A h \in ToSet(box.produced) : drawn'[h] = drawn[h]
      BY DEF Published
    <3>3. Rising(box.produced, drawn)
      BY DEF Ordered
    <3>4. Rising(box.produced, drawn')
      BY <3>1, <3>2, <3>3, SameRising
    <3> QED
      BY <2>2, <3>4
  <2> QED
    BY <2>1, <2>2
<1>4. Fetched' => \A h \in ToSet(box'.produced) : drawn'[tex'["render"]] < drawn'[h]
  <2>1. Fetched => tex["render"] \in Published
    BY DEF Published
  <2>2. ToSet(box.produced) \subseteq Published
    BY DEF Published
  <2> QED
    BY <1>1, <2>1, <2>2 DEF Ordered
<1>5. \A h \in Published' : shown' < drawn'[h] /\ drawn'[h] <= frame' /\ (Unpublished' => drawn'[h] < frame')
  BY <1>2 DEF Ordered
<1>6. shown' <= frame' /\ (Unpublished' => shown' < frame')
  BY DEF Ordered
<1>7. previous' # NoTexture => drawn'[previous'] = shown'
  BY DEF Ordered
<1> QED
  BY <1>3, <1>4, <1>5, <1>6, <1>7 DEF Ordered

\* A step that leaves drawn alone leaves the frame at hand in its texture.
LEMMA SameFrameAtHand ==
    ASSUME Ordered, frame' = frame, drawn' = drawn,
           pc'["vmr"] \in {"enqueue", "stamp"} => pc["vmr"] = pc'["vmr"] /\ tex'["vmr"] = tex["vmr"]
    PROVE  pc'["vmr"] \in {"enqueue", "stamp"} => drawn'[tex'["vmr"]] = frame
BY DEF Ordered

\* Replace and Offer leave the presenter before or between its frames.
LEMMA ResettingThread ==
    ASSUME Types, Stages, NEW t \in Threads, Replace(t) \/ Offer(t)
    PROVE  /\ pc[t] \in Making \cup {"replace"} /\ pc[t] # "stamp" /\ Moved(t)
           /\ pc'[t] \notin Holding
           /\ Unpublished' => Unpublished
           /\ Fetched' => Fetched /\ tex'["render"] = tex["render"]
           /\ pc'["vmr"] \in {"enqueue", "stamp"} => pc["vmr"] = pc'["vmr"] /\ tex'["vmr"] = tex["vmr"]
           /\ pc["vmr"] = "stamp" => pc'["vmr"] = "stamp" /\ tex'["vmr"] = tex["vmr"]
<1>1. Moved(t) /\ pc[t] \in {"replace", "offer"}
  BY DEF Moved, Replace, Offer, At
<1>2. ThreadsOK /\ ThreadsOK' /\ Stages'
  BY <1>1, ThreadsStep DEF Types
<1>3. \A u \in Threads \ {t} : pc'[u] = pc[u] /\ tex'[u] = tex[u] /\ back'[u] = back[u]
  BY <1>1, <1>2, OthersStay
<1>4. back'[t] = back[t] /\ pc'[t] \in {"replace", "make", back[t]}
  <2>1. CASE Replace(t)
    BY <2>1, <1>1, <1>2, ReplaceMove DEF Goto, ThreadsOK
  <2>2. CASE Offer(t)
    BY <2>2, <1>2 DEF Offer, Goto, ThreadsOK
  <2> QED
    BY <2>1, <2>2
<1>5. back[t] \notin Holding \cup Making \cup {"replace"}
  BY DEF Stages, Stage
<1>6. pc'[t] \notin Holding
  BY <1>4, <1>5 DEF Holding
<1>7. Unpublished' => Unpublished
  <2>1. CASE t = "vmr"
    BY <1>1, <1>4, <1>5, <2>1 DEF Unpublished, Making
  <2>2. CASE t # "vmr"
    BY <1>3, <2>2 DEF Unpublished, Threads
  <2> QED
    BY <2>1, <2>2
<1>8. Fetched' => Fetched /\ tex'["render"] = tex["render"]
  BY <1>3, <1>6 DEF Fetched, Holding, Threads
<1>9. pc'["vmr"] \in {"enqueue", "stamp"} => pc["vmr"] = pc'["vmr"] /\ tex'["vmr"] = tex["vmr"]
  BY <1>3, <1>6 DEF Holding, Threads
<1>10. pc["vmr"] = "stamp" => pc'["vmr"] = "stamp" /\ tex'["vmr"] = tex["vmr"]
  BY <1>1, <1>3 DEF Threads
<1> QED
  BY <1>1, <1>6, <1>7, <1>8, <1>9, <1>10 DEF Making

\* A new texture is no published one, nor the one on screen or at hand.
LEMMA MadeElsewhere ==
    ASSUME Types, Stages, NEW t \in Threads, Made(t)
    PROVE  /\ \A h \in Published : drawn'[h] = drawn[h] /\ stamp'[h] = stamp[h]
           /\ previous # NoTexture => drawn'[previous] = drawn[previous] /\ stamp'[previous] = stamp[previous]
           /\ Unpublished' => Unpublished
           /\ Fetched' => Fetched /\ tex'["render"] = tex["render"]
           /\ pc'["vmr"] \in {"enqueue", "stamp"} =>
                 /\ pc["vmr"] = pc'["vmr"] /\ tex'["vmr"] = tex["vmr"]
                 /\ drawn'[tex'["vmr"]] = drawn[tex["vmr"]]
           /\ pc["vmr"] = "stamp" => pc'["vmr"] = "stamp" /\ tex'["vmr"] = tex["vmr"]
<1>1. PICK h \in Handles : NewHandle(h) /\ tex' = [tex EXCEPT ![t] = h]
                           /\ drawn' = [drawn EXCEPT ![h] = 0] /\ stamp' = [stamp EXCEPT ![h] = 0]
  BY DEF Made
<1>2. h \notin ToSet(box.produced) /\ h # previous /\ \A u \in Threads : h # tex[u]
  BY <1>1, NewIsNew
<1>3. \A g \in Handles \ {h} : drawn'[g] = drawn[g] /\ stamp'[g] = stamp[g]
  BY <1>1 DEF Types, PictureOK
<1>4. pc[t] = "make" /\ pc'[t] = "share" /\ UNCHANGED back
      /\ \A u \in Threads \ {t} : tex'[u] = tex[u] /\ pc'[u] = pc[u]
  BY <1>1 DEF Made, Moves, Goto, Types, ThreadsOK
<1>5. Published \subseteq Handles \ {h}
  BY <1>2, PublishedFact DEF Published, Threads
<1>6. Unpublished' => Unpublished
  BY <1>4 DEF Unpublished, Making, Threads
<1>7. Fetched' => Fetched /\ tex'["render"] = tex["render"]
  BY <1>4 DEF Fetched, Threads
<1>8. pc'["vmr"] \in {"enqueue", "stamp"} => pc["vmr"] = pc'["vmr"] /\ tex'["vmr"] = tex["vmr"]
  BY <1>4 DEF Threads
<1>9. pc["vmr"] \in {"enqueue", "stamp"} => tex["vmr"] \in Handles \ {h}
  BY <1>2, HeldHandle DEF Types, Threads, Holding
<1>10. previous # NoTexture => previous \in Handles \ {h}
  BY <1>2 DEF Types, PictureOK
<1>11. pc["vmr"] = "stamp" => pc'["vmr"] = "stamp" /\ tex'["vmr"] = tex["vmr"]
  BY <1>4 DEF Threads
<1> QED
  BY <1>3, <1>5, <1>6, <1>7, <1>8, <1>9, <1>10, <1>11

\* The texture the presenter draws into is its own.
LEMMA DrawnElsewhere ==
    ASSUME Types, Stages, Apart, Drawn
    PROVE  /\ \A h \in Published : drawn'[h] = drawn[h]
           /\ previous # NoTexture => drawn'[previous] = drawn[previous]
           /\ drawn'[tex["vmr"]] = frame /\ tex' = tex
           /\ pc'["vmr"] = "enqueue" /\ pc'["render"] = pc["render"]
<1>1. "vmr" \in Threads /\ "render" \in Threads /\ Held("vmr") /\ tex["vmr"] \in Handles
  BY HeldHandle DEF Drawn, Held, Holding, Threads, Types
<1>2. tex["vmr"] \notin ToSet(box.produced) /\ tex["vmr"] # previous
  BY <1>1 DEF Apart
<1>3. Fetched => Held("render")
  BY DEF Fetched, Held, Holding
<1>4. Fetched => tex["render"] # tex["vmr"]
  BY <1>1, <1>3 DEF Apart
<1>5. \A g \in Handles \ {tex["vmr"]} : drawn'[g] = drawn[g]
  BY DEF Drawn, Types, PictureOK
<1>6. Published \subseteq Handles \ {tex["vmr"]}
  BY <1>2, <1>4, PublishedFact DEF Published
<1>7. previous # NoTexture => previous \in Handles \ {tex["vmr"]}
  BY <1>2 DEF Types, PictureOK
<1>8. drawn'[tex["vmr"]] = frame /\ tex' = tex
  BY <1>1 DEF Drawn, Types, PictureOK
<1>9. pc'["vmr"] = "enqueue" /\ pc'["render"] = pc["render"]
  BY <1>1 DEF Drawn, Moves, Goto, Types, ThreadsOK
<1> QED
  BY <1>5, <1>6, <1>7, <1>8, <1>9

LEMMA OrderedStep ==
    ASSUME Types, Stages, Apart, Ordered, Next
    PROVE  Ordered'
<1>1. CASE Quiet
  <2>1. tex'["render"] = tex["render"] \/ ~Fetched'
    BY <1>1 DEF Quiet, Held, Fetched, Holding, Threads
  <2>2. pc'["vmr"] \in {"enqueue", "stamp"} => drawn'[tex'["vmr"]] = frame
    BY <1>1, SameFrameAtHand DEF Quiet, SamePicture
  <2> QED
    BY <1>1, <2>1, <2>2, OrderedLess DEF Quiet, SamePicture
<1>2. CASE PresentImage
  <2>1. /\ UNCHANGED <<box, previous, tex, shown, drawn>> /\ Goto("vmr", "check")
        /\ frame' = frame + 1
    BY <1>2 DEF PresentImage, queueVars, sceneVars
  <2>2. pc'["vmr"] = "check" /\ pc'["render"] = pc["render"]
    BY <2>1 DEF Goto, Types, ThreadsOK, Threads
  <2>3. Published' = Published /\ (Fetched' <=> Fetched)
    BY <2>1, <2>2 DEF Published, Fetched
  <2>4. \A h \in Published' : shown' < drawn'[h] /\ drawn'[h] <= frame' /\ drawn'[h] < frame'
    <3>1. \A h \in Published : drawn[h] \in Nat /\ frame \in Nat
      BY PublishedFact
    <3> QED
      BY <2>1, <2>3, <3>1 DEF Ordered
  <2>5. shown' <= frame' /\ shown' < frame'
    BY <2>1 DEF Ordered, Types, PictureOK
  <2>6. Rising(box'.produced, drawn')
    BY <2>1 DEF Ordered
  <2> QED
    BY <2>1, <2>2, <2>3, <2>4, <2>5, <2>6 DEF Ordered
<1>3. CASE Reused
  <2>1. /\ pc["vmr"] = "dequeue" /\ Moves("vmr", "find")
        /\ tex' = [tex EXCEPT !["vmr"] = Head(box.consumed)]
        /\ box'.produced = box.produced /\ UNCHANGED <<previous, drawn, shown, frame>>
    BY <1>3 DEF Reused
  <2>2. pc'["vmr"] = "find" /\ pc'["render"] = pc["render"] /\ tex'["render"] = tex["render"]
    BY <2>1 DEF Moves, Goto, Types, ThreadsOK, Threads
  <2>3. Unpublished
    BY <2>1 DEF Unpublished
  <2> QED
    BY <2>1, <2>2, <2>3, OrderedLess DEF Fetched
<1>4. CASE Drawn
  <2>1. pc["vmr"] = "draw" /\ UNCHANGED <<box, previous, shown, frame>>
    BY <1>4 DEF Drawn
  <2>2. Unpublished
    BY <2>1 DEF Unpublished
  <2> QED
    BY <1>4, <2>1, <2>2, DrawnElsewhere, OrderedLess DEF Fetched
<1>5. CASE ProducerEnqueue
  <2>1. /\ pc["vmr"] = "enqueue" /\ Goto("vmr", "stamp")
        /\ UNCHANGED <<tex, previous, shown, drawn, frame>>
        /\ box'.produced = Append(box.produced, tex["vmr"])
    BY <1>5 DEF ProducerEnqueue, At, sceneVars, frameVars, Types, Boxes
  <2>2. pc'["vmr"] = "stamp" /\ pc'["render"] = pc["render"]
    BY <2>1 DEF Goto, Types, ThreadsOK, Threads
  <2>3. tex["vmr"] \in Handles /\ box.produced \in Seq(Handles)
    BY <2>1, HeldHandle DEF Types, Holding, Threads, Boxes
  <2>4. ToSet(box'.produced) = ToSet(box.produced) \cup {tex["vmr"]}
    BY <2>1, <2>3, AppendList
  <2>5. Unpublished /\ ~Unpublished' /\ (Fetched' <=> Fetched)
    BY <2>1, <2>2 DEF Unpublished, Fetched, Making
  <2>6. drawn[tex["vmr"]] = frame /\ \A h \in Published : drawn[h] < frame
    BY <2>1, <2>5 DEF Ordered
  <2>7. Published' = Published \cup {tex["vmr"]}
    BY <2>1, <2>4, <2>5 DEF Published
  <2>8. Rising(box'.produced, drawn)
    <3>1. \A h \in ToSet(box.produced) : drawn[h] < drawn[tex["vmr"]]
      BY <2>6 DEF Published
    <3>2. Rising(box.produced, drawn)
      BY DEF Ordered
    <3> QED
      BY <2>1, <2>3, <3>1, <3>2, AppendRising
  <2>9. Fetched => \A h \in ToSet(box'.produced) : drawn[tex["render"]] < drawn[h]
    BY <2>4, <2>6, PublishedFact DEF Ordered
  <2>10. \A h \in Published' : shown < drawn[h] /\ drawn[h] <= frame
    <3>1. shown < frame /\ frame \in Nat
      BY <2>5, TextureAssumption DEF Ordered, Types, PictureOK
    <3> QED
      BY <2>6, <2>7, <3>1 DEF Ordered
  <2>11. shown <= frame
    BY DEF Ordered
  <2>12. previous # NoTexture => drawn[previous] = shown
    BY DEF Ordered
  <2> QED
    BY <2>1, <2>5, <2>6, <2>8, <2>9, <2>10, <2>11, <2>12 DEF Ordered
<1>6. CASE Stamp
  <2>1. /\ UNCHANGED <<box, previous, shown, drawn, frame>>
        /\ pc["vmr"] = "stamp" /\ tex' = [tex EXCEPT !["vmr"] = NoTexture]
        /\ (Goto("vmr", "idle") \/ Goto("vmr", "crashed"))
    BY <1>6 DEF Stamp, At, queueVars, sceneVars
  <2>2. /\ pc'["vmr"] \in {"idle", "crashed"} /\ pc'["render"] = pc["render"]
        /\ tex'["render"] = tex["render"]
    BY <2>1 DEF Goto, Types, ThreadsOK, Threads
  <2>3. ~Unpublished'
    BY <2>2 DEF Unpublished, Making
  <2> QED
    BY <2>1, <2>2, <2>3, OrderedLess DEF Fetched
<1>7. CASE Fetch
  <2>1. /\ pc["render"] = "pop" /\ Moves("render", "find") /\ box.produced # <<>>
        /\ box'.produced = Tail(box.produced) /\ tex' = [tex EXCEPT !["render"] = Head(box.produced)]
        /\ UNCHANGED <<previous, drawn, shown, frame>>
    BY <1>7 DEF Fetch
  <2>2. /\ pc'["render"] = "find" /\ pc'["vmr"] = pc["vmr"] /\ UNCHANGED back
        /\ tex'["render"] = Head(box.produced) /\ tex'["vmr"] = tex["vmr"]
    BY <2>1 DEF Moves, Goto, Types, ThreadsOK, Threads
  <2>3. box.produced \in Seq(Handles) /\ Rising(box.produced, drawn)
    BY DEF Types, Boxes, Ordered
  <2>4. ToSet(box.produced) = {Head(box.produced)} \cup ToSet(box'.produced)
    BY <2>1, <2>3, TailList
  <2>5. Rising(box'.produced, drawn) /\ \A h \in ToSet(box'.produced) : drawn[Head(box.produced)] < drawn[h]
    BY <2>1, <2>3, TailRising
  <2>6. Published' = Published
    BY <2>1, <2>2, <2>4 DEF Published, Fetched
  <2>7. Unpublished' <=> Unpublished
    BY <2>2 DEF Unpublished
  <2>8. \A h \in Published' :
           shown' < drawn'[h] /\ drawn'[h] <= frame' /\ (Unpublished' => drawn'[h] < frame')
    BY <2>1, <2>6, <2>7 DEF Ordered
  <2>9. shown' <= frame' /\ (Unpublished' => shown' < frame')
    BY <2>1, <2>7 DEF Ordered
  <2>10. pc'["vmr"] \in {"enqueue", "stamp"} => drawn'[tex'["vmr"]] = frame'
    BY <2>1, <2>2 DEF Ordered
  <2>11. previous' # NoTexture => drawn'[previous'] = shown'
    BY <2>1 DEF Ordered
  <2>12. Rising(box'.produced, drawn') /\ \A h \in ToSet(box'.produced) : drawn'[tex'["render"]] < drawn'[h]
    BY <2>1, <2>2, <2>5
  <2> QED
    BY <2>8, <2>9, <2>10, <2>11, <2>12 DEF Ordered
<1>8. CASE Show
  <2>1. /\ GiveBack /\ previous' = tex["render"] /\ shown' = drawn[tex["render"]]
        /\ pc["render"] = "show" /\ Goto("render", "idle") /\ UNCHANGED <<drawn, frame, back>>
        /\ tex' = [tex EXCEPT !["render"] = NoTexture]
    BY <1>8 DEF Show, At, frameVars
  <2>2. pc'["render"] = "idle" /\ pc'["vmr"] = pc["vmr"] /\ tex'["vmr"] = tex["vmr"]
    BY <2>1 DEF Goto, Types, ThreadsOK, Threads
  <2>3. box'.produced = box.produced
    BY <2>1, GiveBackBox DEF Types
  <2>4. Fetched /\ ~Fetched' /\ (Unpublished' <=> Unpublished)
    BY <2>1, <2>2 DEF Fetched, Unpublished
  <2>5. tex["render"] \in Published
    BY <2>4 DEF Published
  <2>6. Published' = ToSet(box.produced)
    BY <2>3, <2>4 DEF Published
  <2>7. \A h \in Published' :
           shown' < drawn'[h] /\ drawn'[h] <= frame' /\ (Unpublished' => drawn'[h] < frame')
    <3>1. \A h \in ToSet(box.produced) : h \in Published /\ drawn[tex["render"]] < drawn[h]
      BY <2>4 DEF Ordered, Published
    <3> QED
      BY <2>1, <2>4, <2>6, <3>1 DEF Ordered
  <2>8. shown' <= frame' /\ (Unpublished' => shown' < frame')
    BY <2>1, <2>4, <2>5 DEF Ordered
  <2>9. pc'["vmr"] \in {"enqueue", "stamp"} => drawn'[tex'["vmr"]] = frame'
    BY <2>1, <2>2 DEF Ordered
  <2>10. drawn'[previous'] = shown'
    BY <2>1
  <2>11. Rising(box'.produced, drawn')
    BY <2>1, <2>3 DEF Ordered
  <2> QED
    BY <2>4, <2>7, <2>8, <2>9, <2>10, <2>11 DEF Ordered
<1>9. CASE PutBack
  <2>1. /\ GiveBack /\ previous' = NoTexture /\ UNCHANGED <<tex, back, shown, drawn, frame>>
        /\ (Goto("render", "gone") \/ Goto("render", "idle"))
    BY <1>9 DEF PutBack, frameVars
  <2>2. pc'["render"] \in {"gone", "idle"} /\ pc'["vmr"] = pc["vmr"]
    BY <2>1 DEF Goto, Types, ThreadsOK, Threads
  <2>3. box'.produced = box.produced
    BY <2>1, GiveBackBox DEF Types
  <2>4. ~Fetched' /\ (Unpublished' <=> Unpublished)
    BY <2>1, <2>2 DEF Fetched, Unpublished
  <2>5. pc'["vmr"] \in {"enqueue", "stamp"} => drawn'[tex'["vmr"]] = frame
    BY <2>1, <2>2, SameFrameAtHand
  <2> QED
    BY <2>1, <2>3, <2>4, <2>5, OrderedLess
<1>10. ASSUME NEW t \in Threads, Replace(t) \/ Offer(t) PROVE Ordered'
  <2>1. UNCHANGED <<previous, shown, drawn, frame>>
    BY <1>10 DEF Replace, Offer, sceneVars, frameVars
  <2>2. box'.produced = box.produced \/ box'.produced = <<>>
    <3>1. CASE Replace(t)
      BY <3>1, ReplaceBox DEF Types
    <3>2. CASE Offer(t)
      BY <3>2 DEF Offer, Types, Boxes
    <3> QED
      BY <1>10, <3>1, <3>2
  <2>3. /\ Unpublished' => Unpublished
        /\ Fetched' => Fetched /\ tex'["render"] = tex["render"]
        /\ pc'["vmr"] \in {"enqueue", "stamp"} => pc["vmr"] = pc'["vmr"] /\ tex'["vmr"] = tex["vmr"]
    BY <1>10, ResettingThread
  <2>4. pc'["vmr"] \in {"enqueue", "stamp"} => drawn'[tex'["vmr"]] = frame
    BY <2>1, <2>3, SameFrameAtHand
  <2> QED
    BY <2>1, <2>2, <2>3, <2>4, OrderedLess
<1>11. ASSUME NEW t \in Threads, Made(t) PROVE Ordered'
  <2>1. box'.produced = box.produced /\ UNCHANGED <<previous, shown, frame>>
    BY <1>11 DEF Made
  <2>2. /\ \A h \in Published : drawn'[h] = drawn[h]
        /\ previous # NoTexture => drawn'[previous] = drawn[previous]
        /\ Unpublished' => Unpublished
        /\ Fetched' => Fetched /\ tex'["render"] = tex["render"]
        /\ pc'["vmr"] \in {"enqueue", "stamp"} =>
              pc["vmr"] = pc'["vmr"] /\ drawn'[tex'["vmr"]] = drawn[tex["vmr"]]
    BY <1>11, MadeElsewhere
  <2>3. pc'["vmr"] \in {"enqueue", "stamp"} => drawn'[tex'["vmr"]] = frame
    BY <2>2 DEF Ordered
  <2> QED
    BY <2>1, <2>2, <2>3, OrderedLess
<1> QED
  BY <1>1, <1>2, <1>3, <1>4, <1>5, <1>6, <1>7, <1>8, <1>9, <1>10, <1>11, Kinds

-----------------------------------------------------------------------------
(* Timestamps.                                                             *)

\* When no frame is published or drawn over, and none is being stamped.
LEMMA StampedLess ==
    ASSUME Stamped, pc["vmr"] # "crashed",
           Published' \subseteq Published,
           previous' = previous \/ previous' = NoTexture \/ previous' \in Published,
           \A h \in Published : drawn'[h] = drawn[h] /\ stamp'[h] = stamp[h],
           previous # NoTexture => drawn'[previous] = drawn[previous] /\ stamp'[previous] = stamp[previous],
           pc["vmr"] = "stamp" => pc'["vmr"] = "stamp" /\ tex'["vmr"] = tex["vmr"]
    PROVE  Stamped'
BY DEF Stamped

LEMMA PublishedLess ==
    ASSUME box'.produced = box.produced \/ box'.produced = <<>>,
           Fetched' => Fetched /\ tex'["render"] = tex["render"]
    PROVE  Published' \subseteq Published
<1>1. ToSet(box'.produced) \subseteq ToSet(box.produced)
  BY EmptyList
<1> QED
  BY <1>1 DEF Published

LEMMA StampedStep ==
    ASSUME Types, Stages, Apart, Ordered, Stamped, Next
    PROVE  Stamped'
<1>0. pc["vmr"] # "crashed"
  BY DEF Next, At
<1>1. CASE Quiet
  <2>1. Fetched' => Fetched /\ tex'["render"] = tex["render"]
    BY <1>1 DEF Quiet, Held, Fetched, Holding, Threads
  <2>2. Published' \subseteq Published
    BY <1>1, <2>1, PublishedLess DEF Quiet, SamePicture
  <2> QED
    BY <1>0, <1>1, <2>2, StampedLess DEF Quiet, SamePicture
<1>2. CASE PresentImage
  <2>1. UNCHANGED <<box, previous, tex, drawn, stamp>> /\ Goto("vmr", "check") /\ pc["vmr"] = "idle"
    BY <1>2 DEF PresentImage, At, queueVars, sceneVars
  <2>2. pc'["render"] = pc["render"]
    BY <2>1 DEF Goto, Types, ThreadsOK, Threads
  <2>3. Published' \subseteq Published
    BY <2>1, <2>2, PublishedLess DEF Fetched
  <2> QED
    BY <1>0, <2>1, <2>3, StampedLess
<1>3. CASE Reused
  <2>1. /\ pc["vmr"] = "dequeue" /\ Moves("vmr", "find")
        /\ tex' = [tex EXCEPT !["vmr"] = Head(box.consumed)]
        /\ box'.produced = box.produced /\ UNCHANGED <<previous, drawn, stamp>>
    BY <1>3 DEF Reused
  <2>2. pc'["render"] = pc["render"] /\ tex'["render"] = tex["render"]
    BY <2>1 DEF Moves, Goto, Types, ThreadsOK, Threads
  <2>3. Published' \subseteq Published
    BY <2>1, <2>2, PublishedLess DEF Fetched
  <2> QED
    BY <1>0, <2>1, <2>3, StampedLess
<1>4. CASE Drawn
  <2>1. pc["vmr"] = "draw" /\ UNCHANGED <<box, previous, stamp>>
    BY <1>4 DEF Drawn
  <2>2. Published' \subseteq Published
    BY <1>4, <2>1, DrawnElsewhere, PublishedLess DEF Fetched
  <2> QED
    BY <1>0, <1>4, <2>1, <2>2, DrawnElsewhere, StampedLess
<1>5. CASE ProducerEnqueue
  <2>1. /\ pc["vmr"] = "enqueue" /\ Goto("vmr", "stamp")
        /\ UNCHANGED <<tex, previous, drawn, stamp>>
        /\ box'.produced = Append(box.produced, tex["vmr"])
    BY <1>5 DEF ProducerEnqueue, At, sceneVars, frameVars, Types, Boxes
  <2>2. pc'["vmr"] = "stamp" /\ pc'["render"] = pc["render"]
    BY <2>1 DEF Goto, Types, ThreadsOK, Threads
  <2>3. tex["vmr"] \in Handles /\ box.produced \in Seq(Handles)
    BY <2>1, HeldHandle DEF Types, Holding, Threads, Boxes
  <2>4. ToSet(box'.produced) = ToSet(box.produced) \cup {tex["vmr"]}
    BY <2>1, <2>3, AppendList
  <2>5. Published' = Published \cup {tex["vmr"]}
    BY <2>1, <2>2, <2>4 DEF Published, Fetched
  <2>6. \A h \in Published \cup ({previous} \ {NoTexture}) : stamp[h] = drawn[h]
    BY <1>0, <2>1 DEF Stamped
  <2> QED
    BY <2>1, <2>2, <2>5, <2>6 DEF Stamped
<1>6. CASE Stamp
  <2>1. /\ UNCHANGED <<box, previous, drawn>>
        /\ pc["vmr"] = "stamp" /\ tex' = [tex EXCEPT !["vmr"] = NoTexture]
    BY <1>6 DEF Stamp, At, queueVars, sceneVars
  <2>2. CASE tex["vmr"] \in box.metadata
    <3>1. stamp' = [stamp EXCEPT ![tex["vmr"]] = frame] /\ Goto("vmr", "idle")
      BY <1>6, <2>2 DEF Stamp
    <3>2. pc'["vmr"] = "idle" /\ pc'["render"] = pc["render"] /\ tex'["render"] = tex["render"]
      BY <2>1, <3>1 DEF Goto, Types, ThreadsOK, Threads
    <3>3. Published' \subseteq Published
      BY <2>1, <3>2, PublishedLess DEF Fetched
    <3>4. Published \cup ({previous} \ {NoTexture}) \subseteq Handles
      BY PublishedFact DEF Types, PictureOK
    <3>5. drawn[tex["vmr"]] = frame
      BY <2>1 DEF Ordered
    <3>6. ASSUME NEW h \in Published \cup ({previous} \ {NoTexture}) PROVE stamp'[h] = drawn[h]
      <4>1. CASE h = tex["vmr"]
        BY <3>1, <3>4, <3>5, <4>1 DEF Types, PictureOK
      <4>2. CASE h # tex["vmr"]
        <5>1. stamp[h] = drawn[h]
          BY <1>0, <4>2 DEF Stamped
        <5> QED
          BY <3>1, <3>4, <4>2, <5>1 DEF Types, PictureOK
      <4> QED
        BY <4>1, <4>2
    <3> QED
      BY <2>1, <3>3, <3>6 DEF Stamped
  <2>3. CASE tex["vmr"] \notin box.metadata
    <3>1. Goto("vmr", "crashed")
      BY <1>6, <2>3 DEF Stamp
    <3>2. pc'["vmr"] = "crashed"
      BY <3>1 DEF Goto, Types, ThreadsOK, Threads
    <3> QED
      BY <3>2 DEF Stamped
  <2> QED
    BY <2>2, <2>3
<1>7. CASE Fetch
  <2>1. /\ pc["render"] = "pop" /\ Moves("render", "find") /\ box.produced # <<>>
        /\ box'.produced = Tail(box.produced) /\ tex' = [tex EXCEPT !["render"] = Head(box.produced)]
        /\ UNCHANGED <<previous, drawn, stamp>>
    BY <1>7 DEF Fetch
  <2>2. /\ pc'["render"] = "find" /\ pc'["vmr"] = pc["vmr"]
        /\ tex'["render"] = Head(box.produced) /\ tex'["vmr"] = tex["vmr"]
    BY <2>1 DEF Moves, Goto, Types, ThreadsOK, Threads
  <2>3. ToSet(box.produced) = {Head(box.produced)} \cup ToSet(box'.produced)
    BY <2>1, TailList DEF Types, Boxes
  <2>4. Published' = Published
    BY <2>1, <2>2, <2>3 DEF Published, Fetched
  <2> QED
    BY <1>0, <2>1, <2>2, <2>4, StampedLess
<1>8. CASE Show
  <2>1. /\ GiveBack /\ previous' = tex["render"] /\ pc["render"] = "show"
        /\ Goto("render", "idle") /\ UNCHANGED <<drawn, stamp>>
        /\ tex' = [tex EXCEPT !["render"] = NoTexture]
    BY <1>8 DEF Show, At, frameVars
  <2>2. pc'["render"] = "idle" /\ pc'["vmr"] = pc["vmr"] /\ tex'["vmr"] = tex["vmr"]
    BY <2>1 DEF Goto, Types, ThreadsOK, Threads
  <2>3. box'.produced = box.produced
    BY <2>1, GiveBackBox DEF Types
  <2>4. Published' \subseteq Published
    BY <2>2, <2>3, PublishedLess DEF Fetched
  <2>5. previous' \in Published
    BY <2>1 DEF Published, Fetched
  <2> QED
    BY <1>0, <2>1, <2>2, <2>4, <2>5, StampedLess
<1>9. CASE PutBack
  <2>1. /\ GiveBack /\ previous' = NoTexture /\ UNCHANGED <<tex, drawn, stamp>>
        /\ (Goto("render", "gone") \/ Goto("render", "idle"))
    BY <1>9 DEF PutBack, frameVars
  <2>2. pc'["render"] \in {"gone", "idle"} /\ pc'["vmr"] = pc["vmr"]
    BY <2>1 DEF Goto, Types, ThreadsOK, Threads
  <2>3. box'.produced = box.produced
    BY <2>1, GiveBackBox DEF Types
  <2>4. Published' \subseteq Published
    BY <2>2, <2>3, PublishedLess DEF Fetched
  <2> QED
    BY <1>0, <2>1, <2>2, <2>4, StampedLess
<1>10. ASSUME NEW t \in Threads, Replace(t) \/ Offer(t) PROVE Stamped'
  <2>1. UNCHANGED <<previous, drawn, stamp>>
    BY <1>10 DEF Replace, Offer, sceneVars, frameVars
  <2>2. box'.produced = box.produced \/ box'.produced = <<>>
    <3>1. CASE Replace(t)
      BY <3>1, ReplaceBox DEF Types
    <3>2. CASE Offer(t)
      BY <3>2 DEF Offer, Types, Boxes
    <3> QED
      BY <1>10, <3>1, <3>2
  <2>3. /\ Fetched' => Fetched /\ tex'["render"] = tex["render"]
        /\ pc["vmr"] = "stamp" => pc'["vmr"] = "stamp" /\ tex'["vmr"] = tex["vmr"]
    BY <1>10, ResettingThread
  <2>4. Published' \subseteq Published
    BY <2>2, <2>3, PublishedLess
  <2> QED
    BY <1>0, <2>1, <2>3, <2>4, StampedLess
<1>11. ASSUME NEW t \in Threads, Made(t) PROVE Stamped'
  <2>1. box'.produced = box.produced /\ UNCHANGED previous
    BY <1>11 DEF Made
  <2>2. /\ \A h \in Published : drawn'[h] = drawn[h] /\ stamp'[h] = stamp[h]
        /\ previous # NoTexture => drawn'[previous] = drawn[previous] /\ stamp'[previous] = stamp[previous]
        /\ Fetched' => Fetched /\ tex'["render"] = tex["render"]
        /\ pc["vmr"] = "stamp" => pc'["vmr"] = "stamp" /\ tex'["vmr"] = tex["vmr"]
    BY <1>11, MadeElsewhere
  <2>3. Published' \subseteq Published
    BY <2>1, <2>2, PublishedLess
  <2> QED
    BY <1>0, <2>1, <2>2, <2>3, StampedLess
<1> QED
  BY <1>1, <1>2, <1>3, <1>4, <1>5, <1>6, <1>7, <1>8, <1>9, <1>10, <1>11, Kinds

-----------------------------------------------------------------------------
(* The theorems.                                                           *)

LEMMA InitInvariant == Init => IInv
<1> SUFFICES ASSUME Init PROVE IInv
  OBVIOUS
<1>1. Types /\ Stages
  BY InitTypes
<1>2. /\ box.produced = <<>> /\ box.consumed = <<>> /\ previous = NoTexture
      /\ shown = 0 /\ frame = 0
      /\ \A t \in Threads : pc[t] \in {"start", "idle"} /\ back[t] = "idle"
  BY DEF Init, Blank
<1>3. \A t \in Threads : ~Held(t)
  BY <1>2 DEF Held, Holding
<1>4. Apart
  BY <1>2, <1>3, EmptyList DEF Apart
<1>5. pc["vmr"] \in {"start", "idle"} /\ pc["render"] \in {"start", "idle"}
  BY <1>2 DEF Threads
<1>6. Published = {} /\ ~Fetched /\ ~Unpublished
  BY <1>2, <1>5, EmptyList DEF Published, Fetched, Unpublished, Making
<1>7. Rising(box.produced, drawn)
  BY <1>2 DEF Rising
<1>8. Ordered
  BY <1>2, <1>5, <1>6, <1>7 DEF Ordered
<1>9. Stamped
  BY <1>2, <1>6 DEF Stamped
<1> QED
  BY <1>1, <1>4, <1>8, <1>9 DEF IInv

LEMMA StepInvariant == IInv /\ [Next]_vars => IInv'
<1> SUFFICES ASSUME IInv, [Next]_vars PROVE IInv'
  OBVIOUS
<1>1. CASE Next
  BY <1>1, TypesStep, ApartStep, OrderedStep, StampedStep DEF IInv
<1>2. CASE UNCHANGED vars
  <2>1. /\ UNCHANGED <<box, device, described, graph, video, alive, pc, tex, left, back, previous>>
        /\ UNCHANGED <<drawn, stamp, shown, frame, first, loads, rebuilds, failures, torn>>
    BY <1>2 DEF vars, queueVars, graphVars, threadVars, sceneVars, frameVars
  <2>2. Types' /\ Stages'
    BY <2>1 DEF IInv, Types, ThreadsOK, PictureOK, CountsOK, Stages, Stage
  <2>3. Apart'
    BY <2>1 DEF IInv, Apart, Held
  <2>4. Ordered' /\ Stamped'
    BY <2>1 DEF IInv, Ordered, Stamped, Rising, Published, Fetched, Unpublished
  <2> QED
    BY <2>2, <2>3, <2>4 DEF IInv
<1> QED
  BY <1>1, <1>2

LEMMA InvariantHolds == Spec => []IInv
BY InitInvariant, StepInvariant, PTL DEF Spec

\* Every variable keeps its shape: in particular no queue ever holds a null
\* texture, and what is drawn into or stamped is a texture.
THEOREM TypesHold == Spec => []TypeOK
<1>1. FlagsOK /\ UNCHANGED vars => FlagsOK'
  BY Zenon DEF FlagsOK, vars, queueVars, graphVars
<1>2. FlagsOK /\ [Next]_vars => FlagsOK'
  BY <1>1, FlagsStep
<1>3. Init => FlagsOK
  BY InitTypes
<1>4. Spec => []FlagsOK
  BY <1>2, <1>3, PTL DEF Spec
<1>5. IInv /\ FlagsOK => TypeOK
  BY TypesFact DEF IInv
<1> QED
  BY <1>4, <1>5, InvariantHolds, PTL

LEMMA ApartPlaces == Types /\ Stages /\ Apart => OnePlace
<1> SUFFICES ASSUME Types, Stages, Apart PROVE OnePlace
  OBVIOUS
<1> DEFINE S == Handles
           a == box.produced  b == box.consumed  c == OnScreen
           d == Hand("vmr")  e == Hand("render")  f == Hand("graph")
<1>1. a \in Seq(S) /\ b \in Seq(S)
  BY DEF Types, Boxes
<1>2. /\ c \in Seq(S) /\ IsInjective(c) /\ ToSet(c) = {previous} \ {NoTexture}
  <2>1. CASE previous = NoTexture
    BY <2>1, EmptyList DEF OnScreen
  <2>2. CASE previous # NoTexture
    <3>1. previous \in Handles /\ OnScreen = <<previous>>
      BY <2>2 DEF Types, PictureOK, OnScreen
    <3> QED
      BY <2>2, <3>1, OneElement
  <2> QED
    BY <2>1, <2>2
<1>3. ASSUME NEW t \in Threads
      PROVE  /\ Hand(t) \in Seq(S) /\ IsInjective(Hand(t))
             /\ \A h \in ToSet(Hand(t)) : Held(t) /\ h = tex[t]
  <2>1. Stage(t) /\ tex[t] \in Handles \cup {NoTexture}
    BY DEF Stages, Types, ThreadsOK
  <2>2. CASE tex[t] = NoTexture \/ At(t, "stamp")
    BY <2>2, EmptyList DEF Hand
  <2>3. CASE ~(tex[t] = NoTexture \/ At(t, "stamp"))
    <3>1. Hand(t) = <<tex[t]>> /\ Held(t) /\ tex[t] \in Handles
      BY <2>1, <2>3 DEF Hand, Held, Stage, At
    <3> QED
      BY <3>1, OneElement
  <2> QED
    BY <2>2, <2>3
<1>4. "vmr" \in Threads /\ "render" \in Threads /\ "graph" \in Threads
  BY DEF Threads
<1>5. /\ d \in Seq(S) /\ IsInjective(d) /\ \A h \in ToSet(d) : Held("vmr") /\ h = tex["vmr"]
      /\ e \in Seq(S) /\ IsInjective(e) /\ \A h \in ToSet(e) : Held("render") /\ h = tex["render"]
      /\ f \in Seq(S) /\ IsInjective(f) /\ \A h \in ToSet(f) : Held("graph") /\ h = tex["graph"]
  BY <1>3, <1>4
<1>6. IsInjective(a) /\ IsInjective(b) /\ \A h \in ToSet(a) : h \notin ToSet(b)
  BY DEF Apart
<1>7. \A h \in ToSet(c) : h \notin ToSet(a) /\ h \notin ToSet(b)
  BY <1>2 DEF Apart
<1>8. \A h \in ToSet(d) : h \notin ToSet(a) \cup ToSet(b) \cup ToSet(c)
  BY <1>2, <1>4, <1>5 DEF Apart
<1>9. \A h \in ToSet(e) : h \notin ToSet(a) \cup ToSet(b) \cup ToSet(c) \cup ToSet(d)
  BY <1>2, <1>4, <1>5 DEF Apart
<1>10. \A h \in ToSet(f) : h \notin ToSet(a) \cup ToSet(b) \cup ToSet(c) \cup ToSet(d) \cup ToSet(e)
  BY <1>2, <1>4, <1>5 DEF Apart
<1> DEFINE ab == a \o b  abc == ab \o c  abcd == abc \o d  abcde == abcd \o e
<1> HIDE DEF S, a, b, c, d, e, f
<1>11. ab \in Seq(S) /\ IsInjective(ab) /\ ToSet(ab) = ToSet(a) \cup ToSet(b)
  BY <1>1, <1>6, ConcatOnce
<1> HIDE DEF ab
<1>12. abc \in Seq(S) /\ IsInjective(abc) /\ ToSet(abc) = ToSet(ab) \cup ToSet(c)
  BY <1>2, <1>7, <1>11, ConcatOnce
<1> HIDE DEF abc
<1>13. abcd \in Seq(S) /\ IsInjective(abcd) /\ ToSet(abcd) = ToSet(abc) \cup ToSet(d)
  BY <1>5, <1>8, <1>11, <1>12, ConcatOnce
<1> HIDE DEF abcd
<1>14. abcde \in Seq(S) /\ IsInjective(abcde) /\ ToSet(abcde) = ToSet(abcd) \cup ToSet(e)
  BY <1>5, <1>9, <1>11, <1>12, <1>13, ConcatOnce
<1> HIDE DEF abcde
<1>15. IsInjective(abcde \o f)
  BY <1>5, <1>10, <1>11, <1>12, <1>13, <1>14, ConcatOnce
<1> QED
  BY <1>15 DEF OnePlace, Places, a, b, c, d, e, f, ab, abc, abcd, abcde

\* A texture is in one queue, in one thread's hands or on screen, never two of
\* these, whatever resets overtake its user: the presenter never draws into a
\* texture that is shown or waits to be.
THEOREM OnePlaceHolds == Spec => []OnePlace
<1>1. IInv => OnePlace
  BY ApartPlaces DEF IInv
<1> QED
  BY <1>1, InvariantHolds, PTL

\* The picture on screen is the frame that was put there.
THEOREM ShownIsStillHolds == Spec => []ShownIsStill
<1>1. IInv => ShownIsStill
  BY DEF IInv, Ordered, ShownIsStill
<1> QED
  BY <1>1, InvariantHolds, PTL

LEMMA ScreenFrame ==
    Next => previous' \in {previous, NoTexture} \/ Show
BY DEF Next, Generating, Vmr, Render, Graph, PresentImage, CheckDevice, LoseProducer,
   DestroyProducer, CreateProducer, CopyImage, ProducerDequeue, ProducerFind, Draw,
   ProducerEnqueue, Stamp, Reformat, CreateConsumer, Wake, LoseConsumer, Cancel, EmitScene,
   ConsumerDequeue, ConsumerFind, PutBack, Load, InitializeDevice, Loaded, Unload, Release,
   Unloaded, Replace, Make, Share, Describe, Offer, sceneVars

\* The screen never goes back to an earlier frame, or shows one again as new,
\* across queues, devices and files.
THEOREM FramesInOrderHold == Spec => FramesInOrder
<1>1. IInv /\ [Next]_vars => (previous' \notin {previous, NoTexture} => shown' > shown)
  <2> SUFFICES ASSUME IInv, [Next]_vars, previous' \notin {previous, NoTexture} PROVE shown' > shown
    OBVIOUS
  <2>1. Show
    BY ScreenFrame DEF vars, sceneVars
  <2>2. tex["render"] \in Published /\ shown' = drawn[tex["render"]]
    BY <2>1 DEF Show, At, Published, Fetched
  <2>3. shown < drawn[tex["render"]] /\ tex["render"] \in Handles
    BY <2>2, PublishedFact DEF IInv, Ordered
  <2> QED
    BY <2>2, <2>3, PublishedFact DEF IInv
<1> QED
  BY <1>1, InvariantHolds, PTL DEF Spec, FramesInOrder

\* A frame that waits or is shown carries its own timestamp, except the one the
\* presenter has published and not yet stamped.
THEOREM StampedOncePublishedHolds == Spec => []StampedOncePublished
<1>1. IInv => StampedOncePublished
  BY DEF IInv, Stamped, StampedOncePublished, Published, At
<1> QED
  BY <1>1, InvariantHolds, PTL

-----------------------------------------------------------------------------
(* The queue is this file's.  A file ends with the presenter idle, and its *)
(* release resets the queue before the next load can begin.                *)

Releasing == {"release again", "unloaded"}

Playing == pc["vmr"] # "idle" => graph /\ video /\ pc["graph"] = "idle"

GraphStage ==
    /\ graph => \/ pc["graph"] \in {"idle", "release"} \cup Releasing
                \/ pc["graph"] = "replace" /\ back["graph"] \in Releasing /\ "producer" \notin device
    /\ ~graph => \/ pc["graph"] \in {"idle", "connect", "has video", "loaded"}
                 \/ /\ pc["graph"] \in Making \cup {"replace"}
                    /\ back["graph"] \in {"connect", "has video", "loaded"}

\* Nothing is queued from the first line of the last reset to the next load.
Emptied ==
    ~graph \/ pc["graph"] \in Releasing \/ (pc["graph"] = "replace" /\ left["graph"] > 1)
        => box.produced = <<>>

OfThisFile ==
    /\ first <= frame + 1 /\ (Unpublished => first <= frame)
    /\ graph => \A h \in ToSet(box.produced) : drawn[h] >= first

FileInv == Playing /\ GraphStage /\ Emptied /\ OfThisFile

LEMMA GraphFrame ==
    Next => \/ UNCHANGED <<graph, video, first>>
            \/ Load \/ Loaded \/ Unload \/ Unloaded
BY DEF Next, Generating, Vmr, Render, Graph, PresentImage, CheckDevice, LoseProducer,
   DestroyProducer, CreateProducer, CopyImage, ProducerDequeue, ProducerFind, Draw,
   ProducerEnqueue, Stamp, Reformat, CreateConsumer, Wake, LoseConsumer, Cancel, EmitScene,
   ConsumerDequeue, ConsumerFind, Show, PutBack, InitializeDevice, Release,
   Replace, Make, Share, Describe, Offer, graphVars, frameVars

\* Which thread a step is of.
LEMMA OneThread ==
    ASSUME Types, Stages, Next
    PROVE  \/ Vmr \/ Generating("vmr") \/ Render \/ Generating("render")
           \/ (Graph \/ Generating("graph")) /\ pc'["vmr"] = pc["vmr"] /\ back'["vmr"] = back["vmr"]
<1>1. CASE Graph
  <2>1. Moved("graph")
    BY <1>1, GraphMoves
  <2> QED
    BY <1>1, <2>1, OthersStay DEF Types, Threads
<1>2. CASE Generating("graph")
  <2>1. Moved("graph")
    BY <1>2, GeneratingMoves DEF Threads
  <2> QED
    BY <1>2, <2>1, OthersStay DEF Types, Threads
<1> QED
  BY <1>1, <1>2 DEF Next, Threads

\* What a step of the presenter or of the render thread leaves to the graph.
LEMMA GraphStays ==
    ASSUME Types, Stages, Next, ~Graph, ~Generating("graph")
    PROVE  /\ UNCHANGED <<graph, video, first>>
           /\ pc'["graph"] = pc["graph"] /\ back'["graph"] = back["graph"] /\ left'["graph"] = left["graph"]
           /\ Render \/ Generating("render") => pc'["vmr"] = pc["vmr"]
<1>1. UNCHANGED <<graph, video, first>>
  BY GraphFrame DEF Graph
<1>2. CASE Vmr \/ Generating("vmr")
  <2>1. Moved("vmr")
    BY <1>2, VmrMoves, GeneratingMoves DEF Types, Threads
  <2>2. ~(Render \/ Generating("render")) \/ pc'["vmr"] = pc["vmr"]
    <3>1. ASSUME Render \/ Generating("render") PROVE pc'["vmr"] = pc["vmr"]
      <4>1. Moved("render")
        BY <3>1, RenderMoves, GeneratingMoves DEF Types, Threads
      <4> QED
        BY <4>1, OthersStay DEF Types, Threads
    <3> QED
      BY <3>1
  <2> QED
    BY <1>1, <2>1, <2>2, OthersStay DEF Types, Threads
<1>3. CASE Render \/ Generating("render")
  <2>1. Moved("render")
    BY <1>3, RenderMoves, GeneratingMoves DEF Types, Threads
  <2> QED
    BY <1>1, <2>1, OthersStay DEF Types, Threads
<1> QED
  BY <1>2, <1>3, OneThread

LEMMA PlayingStep ==
    ASSUME Types, Stages, FileInv, Next
    PROVE  Playing'
<1>1. CASE Graph \/ Generating("graph")
  <2>1. pc'["vmr"] = pc["vmr"]
    <3>1. Moved("graph")
      BY <1>1, GraphMoves, GeneratingMoves DEF Threads
    <3> QED
      BY <3>1, OthersStay DEF Types, Threads
  <2>2. pc["vmr"] = "idle"
    <3>1. CASE Graph
      BY <3>1 DEF FileInv, Playing, Graph, Load, InitializeDevice, Loaded, Unload, Release,
         Unloaded, At
    <3>2. CASE Generating("graph")
      BY <3>2 DEF FileInv, Playing, Generating, Replace, Make, Share, Describe, Offer, At
    <3> QED
      BY <1>1, <3>1, <3>2
  <2> QED
    BY <2>1, <2>2 DEF Playing
<1>2. CASE ~Graph /\ ~Generating("graph")
  <2>1. UNCHANGED <<graph, video>> /\ pc'["graph"] = pc["graph"]
        /\ (Render \/ Generating("render") => pc'["vmr"] = pc["vmr"])
    BY <1>2, GraphStays
  <2>2. CASE Render \/ Generating("render")
    BY <2>1, <2>2 DEF FileInv, Playing
  <2>3. CASE Vmr
    <3>1. graph /\ video /\ pc["graph"] = "idle"
      BY <2>3 DEF FileInv, Playing, Vmr, PresentImage, CheckDevice, LoseProducer,
         DestroyProducer, CreateProducer, CopyImage, ProducerDequeue, ProducerFind, Draw,
         ProducerEnqueue, Stamp, Reformat, At
    <3> QED
      BY <2>1, <3>1 DEF Playing
  <2>4. CASE Generating("vmr")
    <3>1. graph /\ video /\ pc["graph"] = "idle"
      BY <2>4 DEF FileInv, Playing, Generating, Replace, Make, Share, Describe, Offer, At
    <3> QED
      BY <2>1, <3>1 DEF Playing
  <2> QED
    BY <1>2, <2>2, <2>3, <2>4, OneThread
<1> QED
  BY <1>1, <1>2

LEMMA DeviceFrame ==
    ASSUME Next, ~Graph, "producer" \notin device
    PROVE  "producer" \notin device' \/ pc["vmr"] # "idle"
<1>1. CASE Vmr
  <2>1. pc["vmr"] # "idle" \/ PresentImage \/ Reformat
    BY <1>1 DEF Vmr, CheckDevice, LoseProducer, DestroyProducer, CreateProducer, CopyImage,
       ProducerDequeue, ProducerFind, Draw, ProducerEnqueue, Stamp, At
  <2>2. PresentImage \/ Reformat => UNCHANGED device
    BY DEF PresentImage, Reformat, SetParameters, queueVars
  <2> QED
    BY <2>1, <2>2
<1>2. CASE Render
  <2>1. \/ UNCHANGED device \/ device' = device \cup {"consumer"} \/ device' = device \ {"consumer"}
    BY <1>2 DEF Render, CreateConsumer, Wake, LoseConsumer, Cancel, EmitScene, ConsumerDequeue,
       ConsumerFind, Show, PutBack, SetDevice, queueVars
  <2> QED
    BY <2>1
<1>3. ASSUME NEW t \in Threads, Generating(t) PROVE UNCHANGED device
  BY <1>3 DEF Generating, Replace, Make, Share, Describe, Offer
<1> QED
  BY <1>1, <1>2, <1>3 DEF Next

LEMMA GraphStageStep ==
    ASSUME Types, Stages, FileInv, Next
    PROVE  GraphStage'
<1> USE DEF Threads
<1>1. CASE ~Graph /\ ~Generating("graph")
  <2>1. /\ UNCHANGED <<graph, video>> /\ pc'["graph"] = pc["graph"]
        /\ back'["graph"] = back["graph"]
    BY <1>1, GraphStays
  <2>2. pc["graph"] = "replace" /\ "producer" \notin device => "producer" \notin device'
    BY <1>1, DeviceFrame DEF FileInv, Playing
  <2> QED
    BY <2>1, <2>2 DEF FileInv, GraphStage
<1>2. CASE Load
  <2>1. PICK l \in {"connect", "loaded"} : BeginReset("graph", l)
    BY <1>2 DEF Load, SetDevice
  <2>2. pc'["graph"] = "replace" /\ back'["graph"] = l /\ ~graph /\ graph' = graph
    BY <1>2, <2>1 DEF Load, BeginReset, Types, ThreadsOK
  <2> QED
    BY <2>2 DEF GraphStage
<1>3. CASE InitializeDevice
  <2>1. pc'["graph"] = "replace" /\ back'["graph"] = "has video" /\ pc["graph"] = "connect" /\ graph' = graph
    BY <1>3 DEF InitializeDevice, SetParameters, BeginReset, At, Types, ThreadsOK, graphVars
  <2>2. ~graph
    BY <2>1 DEF FileInv, GraphStage, Releasing
  <2> QED
    BY <2>1, <2>2 DEF GraphStage
<1>4. CASE Loaded
  <2>1. \/ pc["graph"] = "has video" /\ pc'["graph"] = "loaded" /\ graph' = graph
        \/ pc'["graph"] = "idle" /\ graph' = TRUE
    BY <1>4 DEF Loaded, Goto, At, Types, ThreadsOK
  <2>2. CASE pc["graph"] = "has video" /\ pc'["graph"] = "loaded" /\ graph' = graph
    <3>1. ~graph
      BY <2>2 DEF FileInv, GraphStage, Releasing
    <3> QED
      BY <2>2, <3>1 DEF GraphStage
  <2>3. CASE pc'["graph"] = "idle" /\ graph' = TRUE
    BY <2>3 DEF GraphStage
  <2> QED
    BY <2>1, <2>2, <2>3
<1>5. CASE Unload
  <2>1. pc'["graph"] = "release" /\ graph /\ graph' = graph
    BY <1>5 DEF Unload, Goto, Types, ThreadsOK
  <2> QED
    BY <2>1 DEF GraphStage
<1>6. CASE Release
  <2>1. /\ pc["graph"] \in {"release", "release again"} /\ pc'["graph"] = "replace"
        /\ back'["graph"] \in Releasing /\ device' = device \ {"producer"} /\ graph' = graph
    BY <1>6 DEF Release, SetDevice, BeginReset, Releasing, Types, ThreadsOK, graphVars
  <2>2. graph
    BY <2>1 DEF FileInv, GraphStage, Making
  <2> QED
    BY <2>1, <2>2 DEF GraphStage
<1>7. CASE Unloaded
  <2>1. pc'["graph"] = "idle"
    BY <1>7 DEF Unloaded, Goto, Types, ThreadsOK
  <2> QED
    BY <2>1 DEF GraphStage
<1>8. CASE Generating("graph")
  <2>1. UNCHANGED graph /\ UNCHANGED device /\ UNCHANGED back
    BY <1>8 DEF Generating, Replace, Make, Share, Describe, Offer, graphVars
  <2>2. CASE Replace("graph")
    <3>1. pc["graph"] = "replace" /\ pc'["graph"] \in {"replace", "make", back["graph"]}
      BY <2>2, ReplaceMove DEF Types, ThreadsOK, Goto
    <3>2. pc'["graph"] = "make" => device = {"producer", "consumer"} \/ back["graph"] = "make"
      <4>1. CASE left["graph"] < Len(Replaced)
        BY <2>2, <3>1, <4>1 DEF Replace
      <4>2. CASE ~(left["graph"] < Len(Replaced)) /\ device = {"producer", "consumer"} /\ described
        BY <4>2
      <4>3. CASE ~(left["graph"] < Len(Replaced)) /\ ~(device = {"producer", "consumer"} /\ described)
        BY <2>2, <4>3 DEF Replace, Goto, Types, ThreadsOK
      <4> QED
        BY <4>1, <4>2, <4>3
    <3>3. CASE graph
      BY <2>1, <3>1, <3>2, <3>3 DEF FileInv, GraphStage, Releasing
    <3>4. CASE ~graph
      BY <2>1, <3>1, <3>4 DEF FileInv, GraphStage, Making
    <3> QED
      BY <3>3, <3>4
  <2>3. CASE Make("graph") \/ Share("graph") \/ Describe("graph") \/ Offer("graph")
    <3>1. pc["graph"] \in Making
      BY <2>3 DEF Make, Share, Describe, Offer, At, Making
    <3>2. ~graph /\ back["graph"] \in {"connect", "has video", "loaded"}
      BY <3>1 DEF FileInv, GraphStage, Making, Releasing
    <3>3. pc'["graph"] \in Making \cup {Catch("graph"), back["graph"]}
      <4>1. CASE Make("graph")
        BY <4>1 DEF Make, Throw, Goto, Making, Types, ThreadsOK
      <4>2. CASE Share("graph")
        BY <4>2 DEF Share, Throw, Goto, Making, Types, ThreadsOK
      <4>3. CASE Describe("graph")
        BY <4>3 DEF Describe, Goto, Making, Types, ThreadsOK
      <4>4. CASE Offer("graph")
        BY <4>4 DEF Offer, Goto, Making, Types, ThreadsOK
      <4> QED
        BY <2>3, <4>1, <4>2, <4>3, <4>4
    <3>4. Catch("graph") \in {"idle", "loaded"}
      BY DEF Catch
    <3> QED
      BY <2>1, <3>2, <3>3, <3>4 DEF GraphStage
  <2> QED
    BY <1>8, <2>2, <2>3 DEF Generating
<1> QED
  BY <1>1, <1>2, <1>3, <1>4, <1>5, <1>6, <1>7, <1>8 DEF Graph

\* What a step does to the frames that wait.
LEMMA Waiting ==
    ASSUME Types, Stages, Apart, Next
    PROVE  \A h \in ToSet(box'.produced) :
              \/ h \in ToSet(box.produced) /\ drawn'[h] = drawn[h]
              \/ ProducerEnqueue /\ h = tex["vmr"] /\ drawn'[h] = drawn[h]
<1>1. CASE Quiet
  BY <1>1 DEF Quiet, SamePicture
<1>2. CASE PresentImage \/ Stamp
  BY <1>2 DEF PresentImage, Stamp, queueVars
<1>3. CASE Reused
  BY <1>3 DEF Reused
<1>4. CASE Drawn
  BY <1>4, DrawnElsewhere DEF Drawn, Published
<1>5. CASE ProducerEnqueue
  <2>1. box'.produced = Append(box.produced, tex["vmr"]) /\ UNCHANGED drawn /\ pc["vmr"] = "enqueue"
    BY <1>5 DEF ProducerEnqueue, frameVars, Types, Boxes, At
  <2>2. tex["vmr"] \in Handles /\ box.produced \in Seq(Handles)
    BY <2>1, HeldHandle DEF Types, Boxes, Holding, Threads
  <2>3. ToSet(box'.produced) = ToSet(box.produced) \cup {tex["vmr"]}
    BY <2>1, <2>2, AppendList
  <2> QED
    BY <1>5, <2>1, <2>3
<1>6. CASE Fetch
  <2>1. ToSet(box.produced) = {Head(box.produced)} \cup ToSet(box'.produced)
    BY <1>6, TailList DEF Fetch, Types, Boxes
  <2> QED
    BY <1>6, <2>1 DEF Fetch
<1>7. CASE Show \/ PutBack
  <2>1. GiveBack /\ UNCHANGED drawn
    BY <1>7 DEF Show, PutBack, frameVars
  <2> QED
    BY <2>1, GiveBackBox DEF Types
<1>8. ASSUME NEW t \in Threads, Replace(t)
      PROVE  UNCHANGED drawn /\ ToSet(box'.produced) \subseteq ToSet(box.produced)
  BY <1>8, ReplaceBox, EmptyList DEF Types, Replace, frameVars
<1>9. ASSUME NEW t \in Threads, Made(t)
      PROVE  box'.produced = box.produced /\ \A h \in ToSet(box.produced) : drawn'[h] = drawn[h]
  BY <1>9, MadeElsewhere DEF Made, Published
<1>10. ASSUME NEW t \in Threads, Offer(t)
       PROVE  box'.produced = box.produced /\ UNCHANGED drawn
  BY <1>10 DEF Offer, frameVars, Types, Boxes
<1> QED
  BY <1>1, <1>2, <1>3, <1>4, <1>5, <1>6, <1>7, <1>8, <1>9, <1>10, Kinds

LEMMA EmptyStays ==
    ASSUME Types, Stages, Apart, Next, box.produced = <<>>, ~ProducerEnqueue
    PROVE  box'.produced = <<>>
<1>1. ToSet(box'.produced) = {}
  BY Waiting, EmptyList
<1>2. box'.produced \in Seq(Handles)
  BY TypesStep DEF Types, Boxes
<1>3. ASSUME box'.produced # <<>> PROVE FALSE
  <2> DEFINE list == box'.produced
  <2>1. list \in Seq(Handles) /\ list # <<>> /\ ToSet(list) = {}
    BY <1>1, <1>2, <1>3
  <2> HIDE DEF list
  <2> QED
    BY <2>1, TailList
<1> QED
  BY <1>3

LEMMA EmptiedStep ==
    ASSUME Types, Stages, Apart, FileInv, Next
    PROVE  Emptied'
<1> USE DEF Threads
<1>1. CASE ProducerEnqueue
  <2>1. pc["vmr"] = "enqueue" /\ UNCHANGED graph /\ Moved("vmr")
    BY <1>1, VmrMoves DEF ProducerEnqueue, At, graphVars, Vmr, Types
  <2>2. graph /\ pc["graph"] = "idle" /\ pc'["graph"] = pc["graph"]
    BY <2>1, OthersStay DEF FileInv, Playing, Types
  <2> QED
    BY <2>1, <2>2 DEF Emptied, Releasing
<1>2. CASE ~ProducerEnqueue /\ box.produced = <<>>
  BY <1>2, EmptyStays DEF Emptied
<1>3. CASE ~ProducerEnqueue /\ box.produced # <<>>
  <2>1. graph /\ pc["graph"] \notin Releasing /\ ~(pc["graph"] = "replace" /\ left["graph"] > 1)
    BY <1>3 DEF FileInv, Emptied
  <2>2. CASE ~Graph /\ ~Generating("graph")
    <3>1. graph' = graph /\ pc'["graph"] = pc["graph"] /\ left'["graph"] = left["graph"]
      BY <2>2, GraphStays
    <3> QED
      BY <2>1, <3>1 DEF Emptied
  <2>3. CASE Graph
    <3>1. Unload \/ Release
      BY <2>1, <2>3 DEF Graph, Load, InitializeDevice, Loaded, Unload, Release, Unloaded, At,
         FileInv, GraphStage, Releasing
    <3>2. CASE Unload
      <4>1. pc'["graph"] = "release" /\ graph' = graph
        BY <3>2 DEF Unload, Goto, Types, ThreadsOK
      <4> QED
        BY <2>1, <4>1 DEF Emptied, Releasing
    <3>3. CASE Release
      <4>1. pc'["graph"] = "replace" /\ left'["graph"] = 1 /\ graph' = graph
        BY <3>3 DEF Release, SetDevice, BeginReset, Types, ThreadsOK, graphVars
      <4>2. graph'
        BY <2>1, <4>1, Zenon
      <4>3. pc'["graph"] \notin Releasing
        BY <4>1 DEF Releasing
      <4>4. ~(left'["graph"] > 1)
        BY <4>1
      <4> QED
        BY <4>2, <4>3, <4>4 DEF Emptied
    <3> QED
      BY <3>1, <3>2, <3>3
  <2>4. CASE Generating("graph")
    <3>1. Replace("graph")
      BY <2>1, <2>4 DEF Generating, Make, Share, Describe, Offer, At, FileInv, GraphStage, Releasing
    <3>2. left["graph"] = 1
      <4>1. left["graph"] \in 1..5 /\ pc["graph"] = "replace"
        BY <3>1, ReplaceMove DEF Types
      <4> QED
        BY <2>1, <4>1
    <3>3. box'.produced = <<>>
      <4>1. Replaced[left["graph"]] = "produced" /\ Blank["produced"] = <<>>
        BY <3>2 DEF Replaced, Blank
      <4>2. box' = [box EXCEPT !["produced"] = <<>>]
        BY <3>1, <4>1 DEF Replace
      <4> QED
        BY <4>2 DEF Types, Boxes
    <3> QED
      BY <3>3 DEF Emptied
  <2> QED
    BY <2>2, <2>3, <2>4
<1> QED
  BY <1>1, <1>2, <1>3

LEMMA FrameFrame ==
    Next => UNCHANGED frame \/ PresentImage
BY DEF Next, Generating, Vmr, Render, Graph, CheckDevice, LoseProducer,
   DestroyProducer, CreateProducer, CopyImage, ProducerDequeue, ProducerFind, Draw,
   ProducerEnqueue, Stamp, Reformat, CreateConsumer, Wake, LoseConsumer, Cancel, EmitScene,
   ConsumerDequeue, ConsumerFind, Show, PutBack, Load, InitializeDevice, Loaded, Unload, Release,
   Unloaded, Replace, Make, Share, Describe, Offer, frameVars

\* Only PresentImage begins a frame.
LEMMA UnpublishedFrame ==
    ASSUME Types, Stages, Next, ~PresentImage
    PROVE  Unpublished' => Unpublished
<1>1. CASE Quiet
  BY <1>1 DEF Quiet
<1>2. CASE Reused
  BY <1>2 DEF Reused, Unpublished
<1>3. CASE Drawn
  BY <1>3 DEF Drawn, Unpublished
<1>4. CASE ProducerEnqueue
  BY <1>4 DEF ProducerEnqueue, Unpublished, At
<1>5. CASE Stamp
  <2>1. pc'["vmr"] \in {"idle", "crashed"}
    BY <1>5 DEF Stamp, Goto, Types, ThreadsOK, Threads
  <2> QED
    BY <2>1 DEF Unpublished, Making
<1>6. CASE Fetch \/ Show \/ PutBack
  <2>1. Moved("render")
    <3>1. CASE Show \/ PutBack
      BY <3>1, RenderMoves DEF Render, Types
    <3>2. CASE Fetch
      <4>1. Head(box.produced) \in Handles
        BY <3>2, TailList DEF Fetch, Types, Boxes
      <4>2. Takes("render")
        BY <3>2, <4>1 DEF Fetch, Takes, Plain, Labels, Holding, Making
      <4> QED
        BY <4>2 DEF Moved
    <3> QED
      BY <1>6, <3>1, <3>2
  <2>2. pc'["vmr"] = pc["vmr"] /\ back'["vmr"] = back["vmr"]
    BY <2>1, OthersStay DEF Types, Threads
  <2> QED
    BY <2>2 DEF Unpublished
<1>7. ASSUME NEW t \in Threads, Replace(t) \/ Offer(t) PROVE Unpublished' => Unpublished
  BY <1>7, ResettingThread
<1>8. ASSUME NEW t \in Threads, Made(t) PROVE Unpublished' => Unpublished
  BY <1>8, MadeElsewhere
<1> QED
  BY <1>1, <1>2, <1>3, <1>4, <1>5, <1>6, <1>7, <1>8, Kinds

LEMMA OfThisFileStep ==
    ASSUME Types, Stages, Apart, Ordered, FileInv, Next
    PROVE  OfThisFile'
<1>0. first \in Nat /\ frame \in Nat
  BY TextureAssumption DEF Types, PictureOK, CountsOK
<1>1. first' <= frame' + 1 /\ (Unpublished' => first' <= frame')
  <2>1. CASE Load
    <3>1. first' = frame + 1 /\ frame' = frame /\ ~graph
      BY <2>1 DEF Load
    <3>2. ~Unpublished
      BY <3>1 DEF FileInv, Playing, Unpublished, Making
    <3>3. ~PresentImage
      BY <3>1 DEF PresentImage
    <3> QED
      BY <1>0, <3>1, <3>2, <3>3, UnpublishedFrame
  <2>2. CASE ~Load
    <3>1. first' = first
      BY <2>2, GraphFrame DEF Loaded, Unload, Unloaded, frameVars
    <3>2. CASE PresentImage
      BY <1>0, <3>1, <3>2 DEF PresentImage, FileInv, OfThisFile
    <3>3. CASE ~PresentImage
      BY <3>1, <3>3, FrameFrame, UnpublishedFrame DEF FileInv, OfThisFile
    <3> QED
      BY <3>2, <3>3
  <2> QED
    BY <2>1, <2>2
<1>2. ASSUME graph', NEW h \in ToSet(box'.produced) PROVE drawn'[h] >= first'
  <2>1. CASE ~graph
    <3>1. Loaded
      BY <1>2, <2>1, GraphFrame DEF Load, Unload, Unloaded
    <3>2. box'.produced = <<>>
      BY <2>1, <3>1 DEF Loaded, queueVars, FileInv, Emptied
    <3> QED
      BY <1>2, <3>2, EmptyList
  <2>2. CASE graph
    <3>1. first' = first
      BY <2>2, GraphFrame DEF Load, Loaded, Unload, Unloaded, frameVars
    <3>2. CASE h \in ToSet(box.produced) /\ drawn'[h] = drawn[h]
      BY <2>2, <3>1, <3>2 DEF FileInv, OfThisFile
    <3>3. CASE ProducerEnqueue /\ h = tex["vmr"] /\ drawn'[h] = drawn[h]
      <4>1. pc["vmr"] = "enqueue" /\ Unpublished
        BY <3>3 DEF ProducerEnqueue, At, Unpublished
      <4>2. drawn[h] = frame /\ first <= frame
        BY <3>3, <4>1 DEF Ordered, FileInv, OfThisFile
      <4> QED
        BY <1>0, <3>1, <3>3, <4>2
    <3> QED
      BY <1>2, <3>2, <3>3, Waiting
  <2> QED
    BY <2>1, <2>2
<1> QED
  BY <1>1, <1>2 DEF OfThisFile

LEMMA FileStep == IInv /\ FileInv /\ [Next]_vars => FileInv'
<1> SUFFICES ASSUME IInv, FileInv, [Next]_vars PROVE FileInv'
  OBVIOUS
<1>1. CASE Next
  BY <1>1, PlayingStep, GraphStageStep, EmptiedStep, OfThisFileStep DEF IInv, FileInv
<1>2. CASE UNCHANGED vars
  <2>1. UNCHANGED <<box, device, graph, video, pc, left, back, drawn, frame, first>>
    BY <1>2 DEF vars, queueVars, graphVars, threadVars, frameVars
  <2> QED
    BY <2>1 DEF FileInv, Playing, GraphStage, Emptied, OfThisFile, Unpublished
<1> QED
  BY <1>1, <1>2

LEMMA InitFile == Init => FileInv
<1> SUFFICES ASSUME Init PROVE FileInv
  OBVIOUS
<1>1. /\ pc["vmr"] = "idle" /\ pc["graph"] = "idle" /\ graph = FALSE /\ box.produced = <<>>
      /\ first = 1 /\ frame = 0
  BY DEF Init, Threads, Blank
<1> QED
  BY <1>1 DEF FileInv, Playing, GraphStage, Emptied, OfThisFile, Unpublished, Making

\* While a file plays, the frames that wait are that file's: one that the render
\* thread never fetched is gone before the next file's first.
THEOREM QueueIsOfThisFileHolds == Spec => []QueueIsOfThisFile
<1>1. Spec => []FileInv
  BY InvariantHolds, InitFile, FileStep, PTL DEF Spec
<1>2. FileInv => QueueIsOfThisFile
  BY DEF FileInv, OfThisFile, QueueIsOfThisFile
<1> QED
  BY <1>1, <1>2, PTL

-----------------------------------------------------------------------------
(* The metadata.                                                           *)

\* Where a texture may be that has been offered.
Circulating ==
    ToSet(box.produced) \cup ToSet(box.consumed) \cup {previous}
    \cup {h \in {tex["render"]} : Fetched}
    \cup {h \in {tex["vmr"]} : pc["vmr"] \in {"find", "draw", "enqueue", "stamp"}}

\* What the producer can look up it can look up the metadata of.
Known ==
    ~torn =>
        /\ \A h \in Circulating : h \in box.producer_lookup => h \in box.metadata
        /\ \A t \in Threads : pc[t] = "offer" => tex[t] \in box.metadata
        /\ \A t \in Threads : pc[t] = "replace" /\ left[t] > 3 => box.producer_lookup = {}
        /\ pc["vmr"] \in {"draw", "enqueue", "stamp"} => tex["vmr"] \in box.metadata

SameTables ==
    /\ box'.metadata = box.metadata /\ box'.producer_lookup = box.producer_lookup
    /\ box'.consumer_lookup = box.consumer_lookup

MadeTables(t) ==
    /\ Made(t) /\ ~OthersResetting(t)
    /\ box'.metadata = box.metadata /\ box'.consumer_lookup = box.consumer_lookup
    /\ box'.producer_lookup = box.producer_lookup \cup {tex'[t]}

SharedTables(t) ==
    /\ Share(t) /\ pc'[t] = "describe" /\ tex'[t] = tex[t]
    /\ box'.metadata = box.metadata /\ box'.producer_lookup = box.producer_lookup
    /\ box'.consumer_lookup = box.consumer_lookup \cup {tex[t]}

DescribedTables(t) ==
    /\ Describe(t) /\ pc'[t] = "offer" /\ tex'[t] = tex[t]
    /\ box'.producer_lookup = box.producer_lookup /\ box'.consumer_lookup = box.consumer_lookup
    /\ box'.metadata = box.metadata \cup {tex[t]}

\* Only these change the tables.
LEMMA TablesFrame ==
    ASSUME Types, Next, ~torn', \A t \in Threads : ~Replace(t)
    PROVE  /\ \/ SameTables
              \/ \E t \in Threads : MadeTables(t) \/ SharedTables(t) \/ DescribedTables(t)
           /\ \A t \in Threads : Describe(t) => DescribedTables(t)
<1>0. box \in Boxes /\ ThreadsOK
  BY DEF Types
<1>1. ASSUME UNCHANGED box PROVE SameTables
  BY <1>1 DEF SameTables
<1>2. ASSUME NEW t \in Threads, Make(t)
      PROVE  SameTables \/ MadeTables(t)
  <2>1. ~OthersResetting(t)
    BY <1>2 DEF Make
  <2>2. CASE UNCHANGED box
    BY <2>2 DEF SameTables
  <2>3. ASSUME NEW h \in Handles, NewHandle(h), Goto(t, "share"),
               box' = [box EXCEPT !.producer_lookup = @ \cup {h}], tex' = [tex EXCEPT ![t] = h],
               drawn' = [drawn EXCEPT ![h] = 0], stamp' = [stamp EXCEPT ![h] = 0]
        PROVE  MadeTables(t)
    <3>1. pc[t] = "make" /\ UNCHANGED <<left, back, previous, shown, frame>>
      BY <1>2 DEF Make, At, sceneVars
    <3>2. /\ box'.metadata = box.metadata /\ box'.consumer_lookup = box.consumer_lookup
          /\ box'.producer_lookup = box.producer_lookup \cup {h}
          /\ box'.produced = box.produced /\ box'.consumed = box.consumed
      BY <1>0, <2>3 DEF Boxes
    <3>3. tex'[t] = h
      BY <1>0, <2>3 DEF ThreadsOK
    <3>4. Made(t)
      BY <2>3, <3>1, <3>2 DEF Made, Moves
    <3> QED
      BY <2>1, <3>2, <3>3, <3>4 DEF MadeTables
  <2> QED
    BY <1>2, <2>2, <2>3 DEF Make
<1>3. ASSUME NEW t \in Threads, Share(t)
      PROVE  SameTables \/ SharedTables(t)
  <2>1. CASE UNCHANGED box
    BY <2>1 DEF SameTables
  <2>2. CASE /\ box' = [box EXCEPT !.consumer_lookup = @ \cup {tex[t]}]
             /\ Goto(t, "describe") /\ UNCHANGED tex
    BY <1>0, <1>3, <2>2 DEF SharedTables, Boxes, Goto, ThreadsOK
  <2> QED
    BY <1>3, <2>1, <2>2 DEF Share
<1>4. ASSUME NEW t \in Threads, Describe(t)
      PROVE  DescribedTables(t)
  <2>1. box' = [box EXCEPT !.metadata = @ \cup {tex[t]}] /\ Goto(t, "offer") /\ UNCHANGED tex
    BY <1>4 DEF Describe
  <2> QED
    BY <1>0, <1>4, <2>1 DEF DescribedTables, Boxes, Goto, ThreadsOK
<1>5. ASSUME NEW t \in Threads, Offer(t) PROVE SameTables
  BY <1>0, <1>5 DEF Offer, Boxes, SameTables
<1>6. ASSUME ProducerDequeue PROVE SameTables
  <2>1. UNCHANGED box \/ box' = [box EXCEPT !.consumed = Tail(@)]
    BY <1>6 DEF ProducerDequeue
  <2> QED
    BY <1>0, <2>1 DEF Boxes, SameTables
<1>7. ASSUME ProducerEnqueue PROVE SameTables
  BY <1>0, <1>7 DEF ProducerEnqueue, Boxes, SameTables
<1>8. ASSUME ConsumerDequeue PROVE SameTables
  <2>1. UNCHANGED box \/ box' = [box EXCEPT !.produced = Tail(@)]
    BY <1>8 DEF ConsumerDequeue
  <2> QED
    BY <1>0, <2>1 DEF Boxes, SameTables
<1>9. ASSUME GiveBack PROVE SameTables
  <2>1. CASE previous = NoTexture
    <3>1. box' = [box EXCEPT !.consumed = box.consumed]
      BY <1>9, <2>1 DEF GiveBack
    <3> QED
      BY <1>0, <3>1 DEF Boxes, SameTables
  <2>2. CASE previous # NoTexture
    <3>1. box' = [box EXCEPT !.consumed = Append(box.consumed, previous)]
      BY <1>9, <2>2 DEF GiveBack
    <3> QED
      BY <1>0, <3>1 DEF Boxes, SameTables
  <2> QED
    BY <2>1, <2>2
<1>10. \/ SameTables
       \/ \E t \in Threads : MadeTables(t) \/ SharedTables(t) \/ DescribedTables(t)
  BY <1>1, <1>2, <1>3, <1>4, <1>5, <1>6, <1>7, <1>8, <1>9, BoxFrame
<1> QED
  BY <1>4, <1>10

\* What circulates has circulated or has been offered.
LEMMA CirculatingStep ==
    ASSUME Types, Stages, Next
    PROVE  \A h \in Circulating' :
              \/ h \in Circulating \/ h = NoTexture
              \/ \E t \in Threads : Offer(t) /\ h = tex[t]
<1>1. CASE Quiet
  <2>1. pc'["vmr"] \in {"find", "draw", "enqueue", "stamp"} =>
           pc["vmr"] \in {"find", "draw", "enqueue", "stamp"} /\ tex'["vmr"] = tex["vmr"]
    <3>1. CASE pc'["vmr"] \in {"find", "draw"}
      BY <1>1, <3>1 DEF Quiet, Held, Holding, Threads
    <3>2. CASE pc'["vmr"] \in {"enqueue", "stamp"}
      BY <1>1, <3>2 DEF Quiet
    <3> QED
      BY <3>1, <3>2
  <2>2. Fetched' => Fetched /\ tex'["render"] = tex["render"]
    BY <1>1 DEF Quiet, Held, Fetched, Holding, Threads
  <2> QED
    BY <1>1, <2>1, <2>2 DEF Quiet, SamePicture, Circulating
<1>2. CASE PresentImage
  <2>1. UNCHANGED <<box, previous, tex>> /\ pc'["vmr"] = "check" /\ pc'["render"] = pc["render"]
    BY <1>2 DEF PresentImage, Goto, queueVars, sceneVars, Types, ThreadsOK, Threads
  <2> QED
    BY <2>1 DEF Circulating, Fetched
<1>3. CASE Reused
  <2>1. /\ tex'["vmr"] = Head(box.consumed) /\ tex'["render"] = tex["render"]
        /\ pc'["render"] = pc["render"]
    BY <1>3 DEF Reused, Moves, Goto, Types, ThreadsOK, Threads
  <2>2. ToSet(box.consumed) = {Head(box.consumed)} \cup ToSet(box'.consumed)
    BY <1>3, TailList DEF Reused, Types, Boxes
  <2> QED
    BY <1>3, <2>1, <2>2 DEF Reused, Circulating, Fetched
<1>4. CASE Drawn
  <2>1. pc["vmr"] = "draw" /\ UNCHANGED <<box, previous, tex>> /\ pc'["render"] = pc["render"]
    BY <1>4 DEF Drawn, Moves, Goto, Types, ThreadsOK, Threads
  <2> QED
    BY <2>1 DEF Circulating, Fetched
<1>5. CASE ProducerEnqueue
  <2>1. /\ pc["vmr"] = "enqueue" /\ UNCHANGED <<previous, tex>> /\ pc'["render"] = pc["render"]
        /\ box'.produced = Append(box.produced, tex["vmr"]) /\ box'.consumed = box.consumed
    BY <1>5 DEF ProducerEnqueue, At, Goto, sceneVars, Types, ThreadsOK, Boxes, Threads
  <2>2. tex["vmr"] \in Handles /\ box.produced \in Seq(Handles)
    BY <2>1, HeldHandle DEF Types, Boxes, Holding, Threads
  <2>3. ToSet(box'.produced) = ToSet(box.produced) \cup {tex["vmr"]}
    BY <2>1, <2>2, AppendList
  <2> QED
    BY <2>1, <2>3 DEF Circulating, Fetched
<1>6. CASE Stamp
  <2>1. /\ UNCHANGED <<box, previous>> /\ tex'["render"] = tex["render"]
        /\ pc'["vmr"] \in {"idle", "crashed"} /\ pc'["render"] = pc["render"]
    BY <1>6 DEF Stamp, Goto, queueVars, sceneVars, Types, ThreadsOK, Threads
  <2> QED
    BY <2>1 DEF Circulating, Fetched
<1>7. CASE Fetch
  <2>1. /\ tex'["render"] = Head(box.produced) /\ tex'["vmr"] = tex["vmr"] /\ pc'["vmr"] = pc["vmr"]
    BY <1>7 DEF Fetch, Moves, Goto, Types, ThreadsOK, Threads
  <2>2. ToSet(box.produced) = {Head(box.produced)} \cup ToSet(box'.produced)
    BY <1>7, TailList DEF Fetch, Types, Boxes
  <2> QED
    BY <1>7, <2>1, <2>2 DEF Fetch, Circulating
<1>8. CASE Show \/ PutBack
  <2>1. /\ GiveBack /\ tex'["vmr"] = tex["vmr"] /\ pc'["vmr"] = pc["vmr"] /\ ~Fetched'
        /\ previous' = NoTexture \/ (previous' = tex["render"] /\ Fetched)
    BY <1>8 DEF Show, PutBack, At, Goto, Fetched, Types, ThreadsOK, Threads
  <2>2. box'.produced = box.produced /\ ToSet(box'.consumed) \subseteq ToSet(box.consumed) \cup {previous}
    <3>1. CASE previous = NoTexture
      BY <2>1, <3>1, GiveBackBox DEF Types
    <3>2. CASE previous # NoTexture
      <4>1. /\ box'.consumed = Append(box.consumed, previous) /\ box'.produced = box.produced
            /\ previous \in Handles
        BY <2>1, <3>2, GiveBackBox DEF Types
      <4> QED
        BY <4>1, AppendList DEF Types, Boxes
    <3> QED
      BY <3>1, <3>2
  <2> QED
    BY <2>1, <2>2 DEF Circulating
<1>9. ASSUME NEW t \in Threads, Replace(t) \/ Offer(t)
      PROVE  \A h \in Circulating' : h \in Circulating \/ (Offer(t) /\ h = tex[t])
  <2>1. UNCHANGED previous
    BY <1>9 DEF Replace, Offer, sceneVars
  <2>2. /\ ToSet(box'.produced) \subseteq ToSet(box.produced)
        /\ \A h \in ToSet(box'.consumed) : h \in ToSet(box.consumed) \/ (Offer(t) /\ h = tex[t])
    <3>1. CASE Replace(t)
      BY <3>1, ReplaceBox, EmptyList DEF Types
    <3>2. CASE Offer(t)
      <4>1. box'.produced = box.produced /\ box'.consumed = Append(box.consumed, tex[t])
        BY <3>2 DEF Offer, Types, Boxes
      <4>2. tex[t] \in Handles
        BY <3>2, HeldHandle DEF Offer, At, Holding, Types
      <4> QED
        BY <3>2, <4>1, <4>2, AppendList DEF Types, Boxes
    <3> QED
      BY <1>9, <3>1, <3>2
  <2>3. Moved(t) /\ pc'[t] \notin Holding /\ (Fetched' => Fetched /\ tex'["render"] = tex["render"])
    BY <1>9, ResettingThread
  <2>4. pc'["vmr"] \in {"find", "draw", "enqueue", "stamp"} =>
           pc["vmr"] = pc'["vmr"] /\ tex'["vmr"] = tex["vmr"]
    BY <2>3, OthersStay DEF Types, Threads, Holding
  <2> QED
    BY <2>1, <2>2, <2>3, <2>4 DEF Circulating
<1>10. ASSUME NEW t \in Threads, Made(t) PROVE Circulating' \subseteq Circulating
  <2>1. /\ box'.produced = box.produced /\ box'.consumed = box.consumed /\ previous' = previous
        /\ pc'[t] = "share" /\ \A u \in Threads \ {t} : pc'[u] = pc[u] /\ tex'[u] = tex[u]
    BY <1>10 DEF Made, Moves, Goto, Types, ThreadsOK
  <2> QED
    BY <2>1 DEF Circulating, Fetched, Threads
<1> QED
  BY <1>1, <1>2, <1>3, <1>4, <1>5, <1>6, <1>7, <1>8, <1>9, <1>10, Kinds

LEMMA TornStays == Next /\ ~torn' => ~torn
<1> SUFFICES ASSUME Next, ~torn' PROVE ~torn
  OBVIOUS
<1>1. ASSUME NEW t \in Threads, Replace(t) PROVE ~torn
  BY <1>1 DEF Replace
<1>2. ASSUME NEW t \in Threads, Make(t) PROVE ~torn
  BY <1>2 DEF Make
<1>3. CASE ProducerDequeue
  BY <1>3 DEF ProducerDequeue
<1> QED
  BY <1>1, <1>2, <1>3, TornFrame

\* Where a step that is no Replace may take a thread.
LEMMA Arriving ==
    ASSUME Types, Stages, Next, \A t \in Threads : ~Replace(t), NEW u \in Threads
    PROVE  /\ pc'[u] = "offer" => (pc[u] = "offer" /\ tex'[u] = tex[u]) \/ Describe(u)
           /\ pc'[u] = "replace" => (pc[u] = "replace" /\ left'[u] = left[u]) \/ left'[u] = 1
           /\ pc'[u] \in {"draw", "enqueue", "stamp"} /\ u = "vmr" =>
                \/ pc[u] \in {"draw", "enqueue", "stamp"} /\ tex'[u] = tex[u]
                \/ ProducerFind /\ tex'[u] = tex[u] /\ tex[u] \in box.producer_lookup /\ pc[u] = "find"
<1>0. ThreadsOK
  BY DEF Types
<1>1. ASSUME NEW t \in Threads \ {u}, Moved(t)
      PROVE  pc'[u] = pc[u] /\ tex'[u] = tex[u] /\ left'[u] = left[u]
  BY <1>0, <1>1, OthersStay
<1>2. ASSUME Generating(u)
      PROVE  /\ pc'[u] # "replace" /\ pc'[u] \notin {"draw", "enqueue", "stamp"}
             /\ pc'[u] = "offer" => Describe(u)
  <2>1. back[u] \notin Holding \cup Making \cup {"replace"} /\ Catch(u) \in Plain
    BY CatchFact DEF Stages, Stage
  <2>2. CASE Make(u) \/ Share(u)
    <3>1. pc'[u] \in {"share", "describe", Catch(u)}
      BY <1>0, <2>2 DEF Make, Share, Throw, Goto, ThreadsOK
    <3> QED
      BY <2>1, <3>1 DEF Plain, Holding, Making
  <2>3. CASE Describe(u)
    <3>1. pc'[u] = "offer"
      BY <1>0, <2>3 DEF Describe, Goto, ThreadsOK
    <3> QED
      BY <2>3, <3>1
  <2>4. CASE Offer(u)
    <3>1. pc'[u] \in {"make", back[u]}
      BY <1>0, <2>4 DEF Offer, Goto, ThreadsOK
    <3> QED
      BY <2>1, <3>1 DEF Holding, Making
  <2> QED
    BY <1>2, <2>2, <2>3, <2>4 DEF Generating
<1>3. CASE Vmr
  <2>1. Moved("vmr") /\ "vmr" \in Threads
    BY <1>3, VmrMoves DEF Types, Threads
  <2>2. CASE u # "vmr"
    BY <1>1, <2>1, <2>2
  <2>3. CASE u = "vmr"
    <3>1. CASE PresentImage \/ CheckDevice \/ CopyImage
      <4>1. Walks("vmr")
        BY <3>1 DEF PresentImage, CheckDevice, CopyImage, Goto, At, Walks, Moves, Plain, Labels,
           Holding, Making
      <4>2. pc'["vmr"] \in Plain
        BY <1>0, <2>1, <4>1 DEF Walks, Moves, Goto, ThreadsOK
      <4> QED
        BY <2>3, <4>2 DEF Plain, Holding, Making
    <3>2. CASE LoseProducer \/ DestroyProducer \/ CreateProducer \/ Reformat
      <4>1. pc'["vmr"] = "replace" /\ left'["vmr"] = 1
        BY <1>0, <2>1, <3>2 DEF LoseProducer, DestroyProducer, CreateProducer, Reformat, SetDevice,
           SetParameters, BeginReset, ThreadsOK
      <4> QED
        BY <2>3, <4>1
    <3>3. CASE ProducerDequeue
      <4>1. pc'["vmr"] \in {"find", "make"}
        BY <1>0, <2>1, <3>3 DEF ProducerDequeue, Goto, ThreadsOK
      <4> QED
        BY <2>3, <4>1
    <3>4. CASE ProducerFind
      <4>1. /\ pc["vmr"] = "find"
            /\ \/ pc'["vmr"] = "draw" /\ tex' = tex /\ tex["vmr"] \in box.producer_lookup
               \/ pc'["vmr"] = "idle"
        BY <1>0, <2>1, <3>4 DEF ProducerFind, At, Goto, ThreadsOK
      <4> QED
        BY <2>3, <3>4, <4>1
    <3>5. CASE Draw \/ ProducerEnqueue \/ Stamp
      <4>1. /\ pc["vmr"] \in {"draw", "enqueue", "stamp"}
            /\ pc'["vmr"] \in {"idle", "crashed"} \/ (pc'["vmr"] \in {"enqueue", "stamp"} /\ tex' = tex)
        BY <1>0, <2>1, <3>5 DEF Draw, ProducerEnqueue, Stamp, At, Goto, ThreadsOK
      <4> QED
        BY <2>3, <4>1
    <3> QED
      BY <1>3, <3>1, <3>2, <3>3, <3>4, <3>5 DEF Vmr
  <2> QED
    BY <2>2, <2>3
<1>4. CASE Render
  <2>1. Moved("render") /\ "render" \in Threads
    BY <1>4, RenderMoves DEF Types, Threads
  <2>2. CASE u # "render"
    BY <1>1, <2>1, <2>2
  <2>3. CASE u = "render"
    <3>1. \/ pc'["render"] = "replace" /\ left'["render"] = 1
          \/ pc'["render"] \in {"emit", "pop", "put back", "find", "idle", "show", "gone"}
      BY <1>0, <1>4, <2>1 DEF Render, CreateConsumer, Wake, LoseConsumer, Cancel, EmitScene,
         ConsumerDequeue, ConsumerFind, Show, PutBack, SetDevice, BeginReset, Goto, ThreadsOK
    <3> QED
      BY <2>3, <3>1
  <2> QED
    BY <2>2, <2>3
<1>5. CASE Graph
  <2>1. Moved("graph") /\ "graph" \in Threads
    BY <1>5, GraphMoves DEF Threads
  <2>2. CASE u # "graph"
    BY <1>1, <2>1, <2>2
  <2>3. CASE u = "graph"
    <3>1. \/ pc'["graph"] = "replace" /\ left'["graph"] = 1
          \/ pc'["graph"] \in {"loaded", "idle", "release"}
      BY <1>0, <1>5, <2>1 DEF Graph, Load, InitializeDevice, Loaded, Unload, Release, Unloaded,
         SetDevice, SetParameters, BeginReset, Goto, ThreadsOK
    <3> QED
      BY <2>3, <3>1
  <2> QED
    BY <2>2, <2>3
<1>6. ASSUME NEW t \in Threads, Generating(t), t # u
      PROVE  pc'[u] = pc[u] /\ tex'[u] = tex[u] /\ left'[u] = left[u]
  BY <1>1, <1>6, GeneratingMoves
<1>7. ASSUME NEW t \in Threads, Generating(t)
      PROVE  /\ pc'[u] = "offer" => (pc[u] = "offer" /\ tex'[u] = tex[u]) \/ Describe(u)
             /\ pc'[u] = "replace" => (pc[u] = "replace" /\ left'[u] = left[u])
             /\ pc'[u] \in {"draw", "enqueue", "stamp"} /\ u = "vmr" =>
                  pc[u] \in {"draw", "enqueue", "stamp"} /\ tex'[u] = tex[u]
  <2>1. CASE t = u
    BY <1>2, <1>7, <2>1
  <2>2. CASE t # u
    BY <1>6, <1>7, <2>2
  <2> QED
    BY <2>1, <2>2
<1> QED
  BY <1>3, <1>4, <1>5, <1>7 DEF Next

\* A reset that overlaps no other thread's use of the queue.
LEMMA QuietReset ==
    ASSUME Types, Stages, NEW t \in Threads, Replace(t), ~torn'
    PROVE  /\ t = "vmr" \/ tex["vmr"] = NoTexture
           /\ \A u \in Threads \ {t} :
                 pc[u] \notin {"replace", "make", "share", "describe", "offer"}
                 /\ pc'[u] = pc[u] /\ tex'[u] = tex[u]
           /\ pc'[t] \notin Holding
           /\ pc'[t] = "replace" => left[t] < 5 /\ left'[t] = left[t] + 1
<1>1. (t = "vmr" \/ tex["vmr"] = NoTexture) /\ ~OthersResetting(t)
  BY DEF Replace
<1>2. Moved(t)
  BY DEF Moved
<1>3. \A u \in Threads \ {t} : pc'[u] = pc[u] /\ tex'[u] = tex[u]
  BY <1>2, OthersStay DEF Types
<1>4. pc'[t] \notin Holding
  BY ResettingThread
<1>5. pc'[t] = "replace" => left[t] < 5 /\ left'[t] = left[t] + 1
  <2>1. back[t] # "replace" /\ ThreadsOK
    BY DEF Stages, Stage, Types
  <2> QED
    BY <2>1, ReplaceMove DEF Goto, ThreadsOK
<1> QED
  BY <1>1, <1>3, <1>4, <1>5 DEF OthersResetting

\* What the n-th line of reset empties.
LEMMA ReplaceTables ==
    ASSUME Types, Stages, NEW t \in Threads, Replace(t)
    PROVE  /\ left[t] # 3 => box'.producer_lookup = box.producer_lookup
           /\ left[t] = 3 => box'.producer_lookup = {}
           /\ left[t] # 5 => box'.metadata = box.metadata
           /\ left[t] = 5 => box'.metadata = {}
           /\ left[t] \in 1..5 /\ pc[t] = "replace"
<1>1. left[t] \in 1..5 /\ pc[t] = "replace"
  BY ReplaceMove DEF Types
<1>2. box \in Boxes
  BY DEF Types
<1>3. CASE left[t] = 1
  <2>1. Replaced[left[t]] = "produced"
    BY <1>3 DEF Replaced
  <2>2. box' = [box EXCEPT !["produced"] = Blank["produced"]]
    BY <2>1 DEF Replace
  <2> QED
    BY <1>1, <1>2, <1>3, <2>2 DEF Boxes
<1>4. CASE left[t] = 2
  <2>1. Replaced[left[t]] = "consumed"
    BY <1>4 DEF Replaced
  <2>2. box' = [box EXCEPT !["consumed"] = Blank["consumed"]]
    BY <2>1 DEF Replace
  <2> QED
    BY <1>1, <1>2, <1>4, <2>2 DEF Boxes
<1>5. CASE left[t] = 3
  <2>1. Replaced[left[t]] = "producer_lookup" /\ Blank["producer_lookup"] = {}
    BY <1>5 DEF Replaced, Blank
  <2>2. box' = [box EXCEPT !["producer_lookup"] = {}]
    BY <2>1 DEF Replace
  <2> QED
    BY <1>1, <1>2, <1>5, <2>2 DEF Boxes
<1>6. CASE left[t] = 4
  <2>1. Replaced[left[t]] = "consumer_lookup"
    BY <1>6 DEF Replaced
  <2>2. box' = [box EXCEPT !["consumer_lookup"] = Blank["consumer_lookup"]]
    BY <2>1 DEF Replace
  <2> QED
    BY <1>1, <1>2, <1>6, <2>2 DEF Boxes
<1>7. CASE left[t] = 5
  <2>1. Replaced[left[t]] = "metadata" /\ Blank["metadata"] = {}
    BY <1>7 DEF Replaced, Blank
  <2>2. box' = [box EXCEPT !["metadata"] = {}]
    BY <2>1 DEF Replace
  <2> QED
    BY <1>1, <1>2, <1>7, <2>2 DEF Boxes
<1> QED
  BY <1>1, <1>3, <1>4, <1>5, <1>6, <1>7

LEMMA KnownStep ==
    ASSUME Types, Stages, Known, Next
    PROVE  Known'
<1> SUFFICES ASSUME ~torn'
             PROVE  /\ \A h \in Circulating' : h \in box'.producer_lookup => h \in box'.metadata
                    /\ \A t \in Threads : pc'[t] = "offer" => tex'[t] \in box'.metadata
                    /\ \A t \in Threads : pc'[t] = "replace" /\ left'[t] > 3 => box'.producer_lookup = {}
                    /\ pc'["vmr"] \in {"draw", "enqueue", "stamp"} => tex'["vmr"] \in box'.metadata
  BY DEF Known
<1>1. /\ \A h \in Circulating : h \in box.producer_lookup => h \in box.metadata
      /\ \A t \in Threads : pc[t] = "offer" => tex[t] \in box.metadata
      /\ \A t \in Threads : pc[t] = "replace" /\ left[t] > 3 => box.producer_lookup = {}
      /\ pc["vmr"] \in {"draw", "enqueue", "stamp"} => tex["vmr"] \in box.metadata
  BY TornStays DEF Known
<1>2. NoTexture \notin box'.producer_lookup
  BY TypesStep, NoTextureFact DEF Types, Boxes
<1>3. ASSUME NEW t \in Threads, Replace(t)
      PROVE  /\ \A h \in Circulating' : h \in box'.producer_lookup => h \in box'.metadata
             /\ \A u \in Threads : pc'[u] = "offer" => tex'[u] \in box'.metadata
             /\ \A u \in Threads : pc'[u] = "replace" /\ left'[u] > 3 => box'.producer_lookup = {}
             /\ pc'["vmr"] \in {"draw", "enqueue", "stamp"} => tex'["vmr"] \in box'.metadata
  <2>1. /\ t = "vmr" \/ tex["vmr"] = NoTexture
        /\ \A u \in Threads \ {t} :
              pc[u] \notin {"replace", "make", "share", "describe", "offer"}
              /\ pc'[u] = pc[u] /\ tex'[u] = tex[u]
        /\ pc'[t] \notin Holding
        /\ pc'[t] = "replace" => left[t] < 5 /\ left'[t] = left[t] + 1
    BY <1>3, QuietReset
  <2>2. /\ left[t] # 3 => box'.producer_lookup = box.producer_lookup
        /\ left[t] = 3 => box'.producer_lookup = {}
        /\ left[t] # 5 => box'.metadata = box.metadata
        /\ left[t] \in 1..5 /\ pc[t] = "replace"
    BY <1>3, ReplaceTables
  <2>3. left[t] \in {4, 5} => box.producer_lookup = {}
    BY <1>1, <2>2
  <2>4. \A h \in Circulating' : h \in Circulating \/ h = NoTexture \/ \E u \in Threads : Offer(u) /\ h = tex[u]
    BY CirculatingStep
  <2>5. \A u \in Threads : ~Offer(u)
    BY <2>1, <2>2 DEF Offer, At
  <2>6. \A h \in Circulating' : h \in box'.producer_lookup => h \in box'.metadata
    <3>1. CASE left[t] \in {3, 5}
      BY <2>2, <2>3, <3>1
    <3>2. CASE left[t] \notin {3, 5}
      BY <1>1, <1>2, <2>2, <2>4, <2>5, <3>2
    <3> QED
      BY <3>1, <3>2
  <2>7. \A u \in Threads : pc'[u] # "offer"
    BY <2>1 DEF Holding
  <2>8. \A u \in Threads : pc'[u] = "replace" /\ left'[u] > 3 => box'.producer_lookup = {}
    <3>1. ASSUME NEW u \in Threads, pc'[u] = "replace", left'[u] > 3 PROVE box'.producer_lookup = {}
      <4>1. u = t /\ left[t] \in {3, 4}
        BY <2>1, <2>2, <3>1
      <4> QED
        BY <2>2, <2>3, <4>1
    <3> QED
      BY <3>1
  <2>9. pc'["vmr"] \notin {"draw", "enqueue", "stamp"}
    <3>1. CASE t = "vmr"
      BY <2>1, <3>1 DEF Holding
    <3>2. CASE t # "vmr"
      <4>1. pc'["vmr"] = pc["vmr"] /\ tex["vmr"] = NoTexture /\ "vmr" \in Threads
        BY <2>1, <3>2 DEF Threads
      <4> QED
        BY <4>1 DEF Stages, Stage, Holding
    <3> QED
      BY <3>1, <3>2
  <2> QED
    BY <2>6, <2>7, <2>8, <2>9
<1>4. CASE \A t \in Threads : ~Replace(t)
  <2>0. /\ \/ SameTables
           \/ \E t \in Threads : MadeTables(t) \/ SharedTables(t) \/ DescribedTables(t)
        /\ \A t \in Threads : Describe(t) => DescribedTables(t)
    BY <1>4, TablesFrame
  <2>1. box.metadata \subseteq box'.metadata
    BY <2>0 DEF SameTables, MadeTables, SharedTables, DescribedTables
  <2>2. \A t \in Threads : Describe(t) => tex'[t] \in box'.metadata
    BY <2>0 DEF DescribedTables
  <2>3. ASSUME NEW h \in Circulating' PROVE h \in Circulating \/ h = NoTexture \/ \E t \in Threads : Offer(t) /\ h = tex[t]
    BY CirculatingStep
  <2>4. ASSUME NEW t \in Threads, MadeTables(t) PROVE tex'[t] \notin Circulating'
    <3>1. PICK h \in Handles : NewHandle(h) /\ tex' = [tex EXCEPT ![t] = h]
      BY <2>4 DEF MadeTables, Made
    <3>2. tex'[t] = h /\ h # NoTexture
      BY <3>1, NoTextureFact DEF Types, ThreadsOK
    <3>3. /\ h \notin ToSet(box.produced) /\ h \notin ToSet(box.consumed)
          /\ h # previous /\ \A u \in Threads : h # tex[u]
      BY <3>1, NewIsNew
    <3>4. h \notin Circulating
      BY <3>3 DEF Circulating, Threads
    <3> QED
      BY <2>3, <3>2, <3>3, <3>4
  <2>5. ASSUME NEW h \in Circulating', h \in box'.producer_lookup PROVE h \in box'.metadata
    <3>1. h \in box.producer_lookup
      BY <2>0, <2>4, <2>5 DEF SameTables, MadeTables, SharedTables, DescribedTables
    <3>2. h \in Handles
      BY <3>1 DEF Types, Boxes
    <3>3. h # NoTexture
      BY <3>2, NoTextureFact
    <3>4. ASSUME NEW t \in Threads, Offer(t), h = tex[t] PROVE h \in box.metadata
      BY <1>1, <3>4 DEF Offer, At
    <3>5. h \in box.metadata
      BY <1>1, <2>3, <2>5, <3>1, <3>3, <3>4
    <3> QED
      BY <2>1, <3>5
  <2>6. ASSUME NEW u \in Threads, pc'[u] = "offer" PROVE tex'[u] \in box'.metadata
    <3>1. (pc[u] = "offer" /\ tex'[u] = tex[u]) \/ Describe(u)
      BY <1>4, <2>6, Arriving
    <3> QED
      BY <1>1, <2>1, <2>2, <3>1
  <2>7. ASSUME NEW u \in Threads, pc'[u] = "replace", left'[u] > 3 PROVE box'.producer_lookup = {}
    <3>1. pc[u] = "replace" /\ left'[u] = left[u]
      <4>1. (pc[u] = "replace" /\ left'[u] = left[u]) \/ left'[u] = 1
        BY <1>4, <2>7, Arriving
      <4> QED
        BY <2>7, <4>1
    <3>2. box.producer_lookup = {}
      BY <1>1, <2>7, <3>1
    <3>3. ASSUME NEW t \in Threads, MadeTables(t) PROVE FALSE
      <4>1. pc[t] = "make" /\ ~OthersResetting(t)
        BY <3>3 DEF MadeTables, Made
      <4> QED
        BY <3>1, <4>1 DEF OthersResetting
    <3> QED
      BY <2>0, <3>2, <3>3 DEF SameTables, SharedTables, DescribedTables
  <2>8. ASSUME pc'["vmr"] \in {"draw", "enqueue", "stamp"} PROVE tex'["vmr"] \in box'.metadata
    <3>1. \/ pc["vmr"] \in {"draw", "enqueue", "stamp"} /\ tex'["vmr"] = tex["vmr"]
          \/ tex'["vmr"] = tex["vmr"] /\ tex["vmr"] \in box.producer_lookup /\ pc["vmr"] = "find"
      BY <1>4, <2>8, Arriving DEF Threads
    <3>2. pc["vmr"] = "find" => tex["vmr"] \in Circulating
      BY DEF Circulating
    <3> QED
      BY <1>1, <2>1, <3>1, <3>2
  <2> QED
    BY <2>5, <2>6, <2>7, <2>8
<1> QED
  BY <1>3, <1>4

\* get_metadata finds the metadata of the presenter's texture, unless a reset by
\* another thread came between the dequeue and the stamp, or two ran at once.
THEOREM MetadataFoundHolds == Spec => []MetadataFound
<1>1. Init => Known
  <2> SUFFICES ASSUME Init PROVE Known
    OBVIOUS
  <2>1. box.producer_lookup = {} /\ \A t \in Threads : pc[t] \in {"start", "idle"}
    BY DEF Init, Blank
  <2> QED
    BY <2>1 DEF Known, Threads
<1>2. IInv /\ Known /\ [Next]_vars => Known'
  <2> SUFFICES ASSUME IInv, Known, [Next]_vars PROVE Known'
    OBVIOUS
  <2>1. CASE Next
    BY <2>1, KnownStep DEF IInv
  <2>2. CASE UNCHANGED vars
    <3>1. UNCHANGED <<box, previous, pc, tex, left, torn>>
      BY <2>2 DEF vars, queueVars, threadVars, sceneVars
    <3> QED
      BY <3>1 DEF Known, Circulating, Fetched
  <2> QED
    BY <2>1, <2>2
<1>3. Known => MetadataFound
  BY DEF Known, MetadataFound, At
<1> QED
  BY <1>1, <1>2, <1>3, InvariantHolds, PTL DEF Spec

-----------------------------------------------------------------------------
(* Nothing is lost.                                                        *)

\* Where a texture will be used again.
Kept(h) ==
    \/ h \in ToSet(box.produced) \/ h \in ToSet(box.consumed) \/ h = previous
    \/ \E t \in Threads : Held(t) /\ tex[t] = h

\* Every texture with metadata is kept, and both sides will find it in their
\* tables, so that neither drops it.  A pair gets its metadata last.
Retained ==
    failures = 0 /\ ~torn /\ (\A t \in Threads : pc[t] # "replace") =>
        /\ \A h \in box.metadata : Kept(h) /\ h \in box.producer_lookup /\ h \in box.consumer_lookup
        /\ \A t \in Threads : pc[t] \in {"share", "describe"} =>
              tex[t] \in box.producer_lookup /\ tex[t] \notin box.metadata
        /\ \A t \in Threads : pc[t] = "describe" => tex[t] \in box.consumer_lookup

\* A thread keeps its texture but for these steps.
LEMMA LetsGo ==
    ASSUME Types, Stages, Next, NEW t \in Threads, Held(t), ~(Held(t)' /\ tex'[t] = tex[t])
    PROVE  \/ t = "vmr" /\ tex[t] \notin box.producer_lookup
           \/ t = "render" /\ tex[t] \notin box.consumer_lookup
           \/ Share(t) \/ failures' = failures + 1
           \/ t = "vmr" /\ ProducerEnqueue
           \/ t = "render" /\ Show
           \/ Offer(t)
<1>0. ThreadsOK
  BY DEF Types
<1>1. ASSUME NEW u \in Threads, Moved(u) PROVE u = t
  <2>1. u # t => pc'[t] = pc[t] /\ tex'[t] = tex[t]
    BY <1>0, <1>1, OthersStay
  <2> QED BY <2>1 DEF Held
<1>2. CASE Vmr
  <2>1. t = "vmr"
    BY <1>0, <1>1, <1>2, VmrMoves DEF Types, Threads
  <2>2. ProducerFind \/ Draw \/ ProducerEnqueue
    BY <1>2, <2>1 DEF Vmr, PresentImage, CheckDevice, LoseProducer, DestroyProducer, CreateProducer,
       CopyImage, ProducerDequeue, Stamp, Reformat, At, Held, Holding
  <2>3. CASE ProducerFind
    BY <1>0, <2>1, <2>3 DEF ProducerFind, Goto, Held, Holding, ThreadsOK
  <2>4. CASE Draw
    <3>1. \/ Goto("vmr", "enqueue") /\ UNCHANGED tex
          \/ failures' = failures + 1
      BY <2>4 DEF Draw, Fails
    <3> QED BY <1>0, <2>1, <3>1 DEF Goto, Held, Holding, ThreadsOK
  <2> QED BY <2>1, <2>2, <2>3, <2>4
<1>3. CASE Render
  <2>1. t = "render"
    BY <1>0, <1>1, <1>3, RenderMoves DEF Types, Threads
  <2>2. ConsumerFind \/ Show
    BY <1>3, <2>1 DEF Render, CreateConsumer, Wake, LoseConsumer, Cancel, EmitScene, ConsumerDequeue,
       PutBack, At, Held, Holding
  <2>3. CASE ConsumerFind
    BY <1>0, <2>1, <2>3 DEF ConsumerFind, Goto, Held, Holding, ThreadsOK
  <2> QED BY <2>1, <2>2, <2>3
<1>4. CASE Graph
  <2>1. t = "graph"
    BY <1>1, <1>4, GraphMoves DEF Threads
  <2> QED BY <1>4, <2>1 DEF Graph, Load, InitializeDevice, Loaded, Unload, Release, Unloaded, At, Held, Holding
<1>5. ASSUME NEW u \in Threads, Generating(u)
      PROVE  Share(t) \/ Offer(t)
  <2>1. u = t
    BY <1>1, <1>5, GeneratingMoves
  <2>2. Share(t) \/ Describe(t) \/ Offer(t)
    BY <1>5, <2>1 DEF Generating, Replace, Make, At, Held, Holding
  <2>3. ~Describe(t)
    BY <1>0 DEF Describe, Goto, Held, Holding, ThreadsOK
  <2> QED BY <2>2, <2>3
<1> QED BY <1>2, <1>3, <1>4, <1>5 DEF Next

\* Where the picture on screen goes.
LEMMA PreviousKept ==
    ASSUME Types, Next, previous \in Handles
    PROVE  previous' = previous \/ previous \in ToSet(box'.consumed)
<1>1. ASSUME GiveBack PROVE previous \in ToSet(box'.consumed)
  <2>1. box'.consumed = Append(box.consumed, previous)
    BY <1>1, GiveBackBox, NoTextureFact DEF Types
  <2> QED BY <2>1, AppendList DEF Types, Boxes
<1>2. previous' = previous \/ Show \/ PutBack
  <2>1. ASSUME NEW t \in Threads, Make(t) PROVE previous' = previous
    BY <2>1 DEF Make, sceneVars
  <2>2. ASSUME PresentImage \/ Draw \/ Stamp PROVE previous' = previous
    BY <2>2 DEF PresentImage, Draw, Stamp, sceneVars
  <2> QED BY <2>1, <2>2, PictureFrame
<1> QED BY <1>1, <1>2 DEF Show, PutBack

\* ... and what is queued.
LEMMA QueuedKept ==
    ASSUME Types, Stages, Next, \A t \in Threads : ~Replace(t), NEW h \in Handles,
           h \in ToSet(box.produced) \cup ToSet(box.consumed)
    PROVE  Kept(h)'
<1>0. box \in Boxes /\ ThreadsOK /\ box.produced \in Seq(Handles) /\ box.consumed \in Seq(Handles)
  BY DEF Types, Boxes
<1>1. ASSUME ToSet(box.produced) \subseteq ToSet(box'.produced), ToSet(box.consumed) \subseteq ToSet(box'.consumed)
      PROVE  Kept(h)'
  BY <1>1 DEF Kept
<1>2. ASSUME UNCHANGED box PROVE Kept(h)'
  BY <1>1, <1>2
<1>3. ASSUME NEW t \in Threads, Make(t) \/ Share(t) \/ Describe(t) PROVE Kept(h)'
  <2>1. box'.produced = box.produced /\ box'.consumed = box.consumed
    <3>1. CASE Make(t)
      <4>1. UNCHANGED box \/ \E g \in Handles : box' = [box EXCEPT !.producer_lookup = @ \cup {g}]
        BY <3>1 DEF Make
      <4> QED BY <1>0, <4>1 DEF Boxes
    <3>2. CASE Share(t)
      <4>1. UNCHANGED box \/ box' = [box EXCEPT !.consumer_lookup = @ \cup {tex[t]}]
        BY <3>2 DEF Share
      <4> QED BY <1>0, <4>1 DEF Boxes
    <3>3. CASE Describe(t)
      BY <1>0, <3>3 DEF Describe, Boxes
    <3> QED BY <1>3, <3>1, <3>2, <3>3
  <2> QED BY <1>1, <2>1
<1>4. ASSUME NEW t \in Threads, Offer(t) PROVE Kept(h)'
  <2>1. box'.produced = box.produced /\ box'.consumed = Append(box.consumed, tex[t]) /\ pc[t] = "offer"
    BY <1>0, <1>4 DEF Offer, At, Boxes
  <2>2. tex[t] \in Handles
    BY <1>0, <2>1, HeldHandle DEF Holding
  <2>3. ToSet(box.consumed) \subseteq ToSet(box'.consumed)
    BY <1>0, <2>1, <2>2, AppendList
  <2> QED BY <1>1, <2>1, <2>3
<1>5. CASE ProducerDequeue
  <2>1. CASE box.consumed = <<>>
    BY <1>2, <1>5, <2>1 DEF ProducerDequeue
  <2>2. CASE box.consumed # <<>>
    <3>1. /\ tex' = [tex EXCEPT !["vmr"] = Head(box.consumed)]
          /\ box' = [box EXCEPT !.consumed = Tail(box.consumed)] /\ Goto("vmr", "find")
      BY <1>5, <2>2 DEF ProducerDequeue
    <3>2. "vmr" \in Threads
      BY DEF Threads
    <3>3. tex'["vmr"] = Head(box.consumed) /\ Held("vmr")'
      BY <1>0, <3>1, <3>2 DEF ThreadsOK, Goto, Held, Holding
    <3>4. box'.produced = box.produced /\ box'.consumed = Tail(box.consumed)
      BY <1>0, <3>1 DEF Boxes
    <3>5. ToSet(box.consumed) = {Head(box.consumed)} \cup ToSet(box'.consumed)
      BY <1>0, <2>2, <3>4, TailList
    <3> QED BY <3>2, <3>3, <3>4, <3>5 DEF Kept
  <2> QED BY <2>1, <2>2
<1>6. CASE ProducerEnqueue
  <2>1. box'.produced = Append(box.produced, tex["vmr"]) /\ box'.consumed = box.consumed /\ pc["vmr"] = "enqueue"
    BY <1>0, <1>6 DEF ProducerEnqueue, At, Boxes
  <2>2. tex["vmr"] \in Handles
    BY <1>0, <2>1, HeldHandle DEF Holding, Threads
  <2>3. ToSet(box.produced) \subseteq ToSet(box'.produced)
    BY <1>0, <2>1, <2>2, AppendList
  <2> QED BY <1>1, <2>1, <2>3
<1>7. CASE ConsumerDequeue
  <2>1. CASE box.produced = <<>>
    BY <1>2, <1>7, <2>1 DEF ConsumerDequeue
  <2>2. CASE box.produced # <<>>
    <3>1. /\ tex' = [tex EXCEPT !["render"] = Head(box.produced)]
          /\ box' = [box EXCEPT !.produced = Tail(box.produced)] /\ Goto("render", "find")
      BY <1>7, <2>2 DEF ConsumerDequeue
    <3>2. "render" \in Threads
      BY DEF Threads
    <3>3. tex'["render"] = Head(box.produced) /\ Held("render")'
      BY <1>0, <3>1, <3>2 DEF ThreadsOK, Goto, Held, Holding
    <3>4. box'.consumed = box.consumed /\ box'.produced = Tail(box.produced)
      BY <1>0, <3>1 DEF Boxes
    <3>5. ToSet(box.produced) = {Head(box.produced)} \cup ToSet(box'.produced)
      BY <1>0, <2>2, <3>4, TailList
    <3> QED BY <3>2, <3>3, <3>4, <3>5 DEF Kept
  <2> QED BY <2>1, <2>2
<1>8. CASE GiveBack
  <2>1. box'.produced = box.produced
    BY <1>8, GiveBackBox DEF Types
  <2>2. ToSet(box.consumed) \subseteq ToSet(box'.consumed)
    <3>1. CASE previous = NoTexture
      BY <1>8, <3>1, GiveBackBox DEF Types
    <3>2. CASE previous # NoTexture
      <4>1. box'.consumed = Append(box.consumed, previous) /\ previous \in Handles
        BY <1>8, <3>2, GiveBackBox DEF Types
      <4> QED BY <1>0, <4>1, AppendList
    <3> QED BY <3>1, <3>2
  <2> QED BY <1>1, <2>1, <2>2
<1> QED BY <1>2, <1>3, <1>4, <1>5, <1>6, <1>7, <1>8, BoxFrame

LEMMA KeptStep ==
    ASSUME Types, Stages, Next, ~torn', failures' = failures, \A t \in Threads : ~Replace(t),
           NEW h \in Handles, Kept(h), h \in box.producer_lookup, h \in box.consumer_lookup,
           \A t \in Threads : pc[t] = "share" => tex[t] # h
    PROVE  Kept(h)'
<1>0. box \in Boxes /\ ThreadsOK
  BY DEF Types
<1>1. CASE h \in ToSet(box.produced) \cup ToSet(box.consumed)
  BY <1>1, QueuedKept
<1>2. CASE h = previous
  BY <1>2, PreviousKept DEF Kept
<1>3. ASSUME NEW t \in Threads, Held(t), tex[t] = h PROVE Kept(h)'
  <2>1. CASE Held(t)' /\ tex'[t] = tex[t]
    BY <1>3, <2>1 DEF Kept
  <2>2. CASE t = "vmr" /\ ProducerEnqueue
    <3>1. box'.produced = Append(box.produced, h)
      BY <1>0, <1>3, <2>2 DEF ProducerEnqueue, Boxes
    <3> QED BY <1>0, <3>1, AppendList DEF Kept, Boxes
  <2>3. CASE t = "render" /\ Show
    BY <1>3, <2>3 DEF Show, Kept
  <2>4. CASE Offer(t)
    <3>1. box'.consumed = Append(box.consumed, h)
      BY <1>0, <1>3, <2>4 DEF Offer, Boxes
    <3> QED BY <1>0, <3>1, AppendList DEF Kept, Boxes
  <2>5. ~Share(t)
    BY <1>3 DEF Share, At
  <2>6. failures' # failures + 1
    BY DEF Types, CountsOK
  <2> QED BY <1>3, <2>1, <2>2, <2>3, <2>4, <2>5, <2>6, LetsGo
<1> QED BY <1>1, <1>2, <1>3 DEF Kept

\* How a thread comes to have half a pair.
LEMMA MakingStep ==
    ASSUME Types, Stages, Next, NEW t \in Threads
    PROVE  /\ pc'[t] = "share" => Make(t) \/ (pc[t] = "share" /\ tex'[t] = tex[t])
           /\ pc'[t] = "describe" => Share(t) \/ (pc[t] = "describe" /\ tex'[t] = tex[t])
           /\ pc[t] = "replace" /\ ~Replace(t) => pc'[t] = "replace"
<1>0. ThreadsOK
  BY DEF Types
<1>1. ASSUME NEW u \in Threads, Moved(u), u # t
      PROVE  pc'[t] = pc[t] /\ tex'[t] = tex[t]
  BY <1>0, <1>1, OthersStay
<1>2. CASE Vmr
  <2>1. Moved("vmr") /\ "vmr" \in Threads
    BY <1>2, VmrMoves DEF Types, Threads
  <2>2. pc'["vmr"] \in {"check", "copy", "replace", "dequeue", "find", "make", "draw", "idle", "enqueue",
                        "stamp", "crashed"}
    BY <1>0, <1>2, <2>1 DEF Vmr, PresentImage, CheckDevice, LoseProducer, DestroyProducer, CreateProducer,
       CopyImage, ProducerDequeue, ProducerFind, Draw, ProducerEnqueue, Stamp, Reformat, SetDevice,
       SetParameters, BeginReset, Goto, ThreadsOK
  <2>3. pc["vmr"] # "replace"
    BY <1>2 DEF Vmr, PresentImage, CheckDevice, LoseProducer, DestroyProducer, CreateProducer,
       CopyImage, ProducerDequeue, ProducerFind, Draw, ProducerEnqueue, Stamp, Reformat, At
  <2> QED BY <1>1, <2>1, <2>2, <2>3
<1>3. CASE Render
  <2>1. Moved("render") /\ "render" \in Threads
    BY <1>3, RenderMoves DEF Types, Threads
  <2>2. pc'["render"] \in {"replace", "emit", "pop", "put back", "find", "idle", "show", "gone"}
    BY <1>0, <1>3, <2>1 DEF Render, CreateConsumer, Wake, LoseConsumer, Cancel, EmitScene,
       ConsumerDequeue, ConsumerFind, Show, PutBack, SetDevice, BeginReset, Goto, ThreadsOK
  <2>3. pc["render"] # "replace"
    BY <1>3 DEF Render, CreateConsumer, Wake, LoseConsumer, Cancel, EmitScene,
       ConsumerDequeue, ConsumerFind, Show, PutBack, At
  <2> QED BY <1>1, <2>1, <2>2, <2>3
<1>4. CASE Graph
  <2>1. Moved("graph") /\ "graph" \in Threads
    BY <1>4, GraphMoves DEF Threads
  <2>2. pc'["graph"] \in {"replace", "loaded", "idle", "release"}
    BY <1>0, <1>4, <2>1 DEF Graph, Load, InitializeDevice, Loaded, Unload, Release, Unloaded,
       SetDevice, SetParameters, BeginReset, Goto, ThreadsOK
  <2>3. pc["graph"] # "replace"
    BY <1>4 DEF Graph, Load, InitializeDevice, Loaded, Unload, Release, Unloaded, At
  <2> QED BY <1>1, <2>1, <2>2, <2>3
<1>5. ASSUME Generating(t)
      PROVE  /\ pc'[t] = "share" => Make(t)
             /\ pc'[t] = "describe" => Share(t)
             /\ pc[t] = "replace" => Replace(t)
  <2>1. back[t] \notin Holding /\ Catch(t) \notin Holding
    BY CatchFact DEF Stages, Stage, Plain
  <2>2. CASE Make(t) \/ Share(t)
    <3>1. Make(t) => pc'[t] = "share" \/ pc'[t] = Catch(t)
      <4>1. Make(t) => Goto(t, "share") \/ Goto(t, Catch(t))
        BY DEF Make, Throw
      <4> QED BY <1>0, <4>1 DEF Goto, ThreadsOK
    <3>2. Share(t) => pc'[t] = "describe" \/ pc'[t] = Catch(t)
      <4>1. Share(t) => Goto(t, "describe") \/ Goto(t, Catch(t))
        BY DEF Share, Throw
      <4> QED BY <1>0, <4>1 DEF Goto, ThreadsOK
    <3>3. pc[t] # "replace"
      BY <2>2 DEF Make, Share, At
    <3> QED BY <2>1, <2>2, <3>1, <3>2, <3>3 DEF Holding
  <2>3. CASE Describe(t) \/ Offer(t)
    <3>1. pc'[t] \in {"offer", "make", back[t]} /\ pc[t] # "replace"
      BY <1>0, <2>3 DEF Describe, Offer, Goto, At, ThreadsOK
    <3> QED BY <2>1, <3>1 DEF Holding
  <2>4. CASE Replace(t)
    BY <2>4, ResettingThread DEF Holding
  <2> QED BY <1>5, <2>2, <2>3, <2>4 DEF Generating
<1>6. ASSUME NEW u \in Threads, Generating(u), u # t PROVE pc'[t] = pc[t] /\ tex'[t] = tex[t]
  BY <1>1, <1>6, GeneratingMoves
<1> QED BY <1>2, <1>3, <1>4, <1>5, <1>6 DEF Next

\* The new half of a pair, in the producer's table.
LEMMA MakeIs ==
    ASSUME Types, NEW t \in Threads, Make(t), pc'[t] = "share"
    PROVE  /\ tex'[t] \in box'.producer_lookup /\ box'.metadata = box.metadata
           /\ tex'[t] \notin box.metadata
<1>1. ~Goto(t, Catch(t))
  BY CatchFact DEF Goto, Types, ThreadsOK, Plain, Holding
<1>2. PICK h \in Handles : /\ NewHandle(h) /\ tex' = [tex EXCEPT ![t] = h]
                           /\ box' = [box EXCEPT !.producer_lookup = @ \cup {h}]
  BY <1>1 DEF Make, Throw
<1>3. h \notin box.metadata
  BY <1>2 DEF NewHandle, InUse
<1>4. tex'[t] = h /\ box'.metadata = box.metadata /\ box'.producer_lookup = box.producer_lookup \cup {h}
  BY <1>2 DEF Types, ThreadsOK, Boxes
<1> QED BY <1>3, <1>4

LEMMA ShareIs ==
    ASSUME Types, NEW t \in Threads, Share(t), pc'[t] = "describe"
    PROVE  /\ pc[t] = "share" /\ tex'[t] = tex[t] /\ tex[t] \in box'.consumer_lookup
           /\ box'.metadata = box.metadata /\ box'.producer_lookup = box.producer_lookup
<1>1. ~Goto(t, Catch(t))
  BY CatchFact DEF Goto, Types, ThreadsOK, Plain, Holding
<1>2. box' = [box EXCEPT !.consumer_lookup = @ \cup {tex[t]}] /\ UNCHANGED tex
  BY <1>1 DEF Share, Throw
<1> QED BY <1>2 DEF Share, At, Types, Boxes

LEMMA RetainedStep ==
    ASSUME Types, Stages, Apart, Retained, Next
    PROVE  Retained'
<1> SUFFICES ASSUME failures' = 0, ~torn', \A t \in Threads : pc'[t] # "replace"
             PROVE  /\ \A h \in box'.metadata : Kept(h)' /\ h \in box'.producer_lookup /\ h \in box'.consumer_lookup
                    /\ \A t \in Threads : pc'[t] \in {"share", "describe"} =>
                          tex'[t] \in box'.producer_lookup /\ tex'[t] \notin box'.metadata
                    /\ \A t \in Threads : pc'[t] = "describe" => tex'[t] \in box'.consumer_lookup
  BY DEF Retained
<1>1. ASSUME NEW t \in Threads, Replace(t)
      PROVE  box'.metadata = {} /\ \A u \in Threads : pc'[u] \notin {"share", "describe"}
  <2>1. left[t] = 5
    <3>1. ThreadsOK
      BY DEF Types
    <3>2. pc[t] = "replace" /\ left[t] \in 1..5 /\ (UNCHANGED pc \/ ~(left[t] < Len(Replaced)))
      BY <1>1, <3>1, ReplaceMove DEF Replace
    <3>3. Len(Replaced) = 5
      BY DEF Replaced
    <3> QED BY <3>2, <3>3
  <2>2. box'.metadata = {}
    BY <1>1, <2>1, ReplaceTables
  <2>3. /\ \A u \in Threads \ {t} : pc[u] \notin {"share", "describe"} /\ pc'[u] = pc[u]
        /\ pc'[t] \notin Holding
    BY <1>1, QuietReset
  <2> QED BY <2>2, <2>3 DEF Holding
<1>2. CASE \A t \in Threads : ~Replace(t)
  <2>1. failures' = failures /\ failures = 0 /\ ~torn
    <3>1. UNCHANGED failures \/ failures' = failures + 1
      BY CountsFrame
    <3>2. failures \in Nat
      BY TextureAssumption DEF Types, CountsOK
    <3> QED BY <3>1, <3>2, TornStays
  <2>2. \A t \in Threads : pc[t] # "replace"
    BY <1>2, MakingStep
  <2>3. /\ \A h \in box.metadata : Kept(h) /\ h \in box.producer_lookup /\ h \in box.consumer_lookup
        /\ \A t \in Threads : pc[t] \in {"share", "describe"} =>
              tex[t] \in box.producer_lookup /\ tex[t] \notin box.metadata
        /\ \A t \in Threads : pc[t] = "describe" => tex[t] \in box.consumer_lookup
    BY <2>1, <2>2 DEF Retained
  <2>4. /\ \/ SameTables
           \/ \E t \in Threads : MadeTables(t) \/ SharedTables(t) \/ DescribedTables(t)
        /\ \A t \in Threads : Describe(t) => DescribedTables(t)
    BY <1>2, TablesFrame
  <2>5. box.producer_lookup \subseteq box'.producer_lookup /\ box.consumer_lookup \subseteq box'.consumer_lookup
    BY <2>4 DEF SameTables, MadeTables, SharedTables, DescribedTables
  <2>6. \A h \in box'.metadata : h \in box.metadata \/ \E t \in Threads : DescribedTables(t) /\ h = tex[t]
    BY <2>4 DEF SameTables, MadeTables, SharedTables, DescribedTables
  <2>7. ASSUME NEW h \in box.metadata
        PROVE  Kept(h)' /\ h \in box'.producer_lookup /\ h \in box'.consumer_lookup
    <3>1. h \in Handles
      BY DEF Types, Boxes
    <3>2. \A t \in Threads : pc[t] = "share" => tex[t] # h
      BY <2>3
    <3> QED BY <1>2, <2>1, <2>3, <2>5, <3>1, <3>2, KeptStep
  <2>8. ASSUME NEW t \in Threads, DescribedTables(t)
        PROVE  tex[t] \in box'.producer_lookup /\ tex[t] \in box'.consumer_lookup
    <3>1. pc[t] = "describe" /\ pc'[t] = "offer" /\ tex'[t] = tex[t]
      BY <2>8 DEF DescribedTables, Describe, At
    <3> QED BY <2>3, <2>5, <3>1
  <2>9. ASSUME NEW h \in box'.metadata
        PROVE  Kept(h)' /\ h \in box'.producer_lookup /\ h \in box'.consumer_lookup
    <3>1. CASE h \in box.metadata
      BY <2>7, <3>1
    <3>2. ASSUME NEW t \in Threads, DescribedTables(t), h = tex[t]
          PROVE  Kept(h)' /\ h \in box'.producer_lookup /\ h \in box'.consumer_lookup
      <4>1. h \in box'.producer_lookup /\ h \in box'.consumer_lookup
        BY <2>8, <3>2
      <4>2. tex'[t] = h /\ Held(t)'
        BY <3>2 DEF DescribedTables, Held, Holding
      <4> QED BY <4>1, <4>2 DEF Kept
    <3> QED BY <2>6, <3>1, <3>2
  <2>10. ASSUME NEW t \in Threads, pc[t] \in {"share", "describe"}, pc'[t] \in {"share", "describe"}
         PROVE  tex[t] \notin box'.metadata
    <3>1. ASSUME NEW u \in Threads, DescribedTables(u), tex[u] = tex[t] PROVE FALSE
      <4>1. pc[u] = "describe" /\ pc'[u] = "offer"
        BY <3>1 DEF DescribedTables, Describe, At
      <4>2. Held(u) /\ Held(t) /\ u # t
        BY <2>10, <4>1 DEF Held, Holding
      <4> QED BY <3>1, <4>2 DEF Apart
    <3> QED BY <2>3, <2>6, <2>10, <3>1
  <2>11. ASSUME NEW t \in Threads, pc'[t] = "share"
         PROVE  tex'[t] \in box'.producer_lookup /\ tex'[t] \notin box'.metadata
    <3>1. CASE Make(t)
      BY <2>11, <3>1, MakeIs
    <3>2. CASE pc[t] = "share" /\ tex'[t] = tex[t]
      BY <2>3, <2>5, <2>10, <2>11, <3>2
    <3> QED BY <2>11, <3>1, <3>2, MakingStep
  <2>12. ASSUME NEW t \in Threads, pc'[t] = "describe"
         PROVE  /\ tex'[t] \in box'.producer_lookup /\ tex'[t] \notin box'.metadata
                /\ tex'[t] \in box'.consumer_lookup
    <3>1. CASE Share(t)
      BY <2>3, <2>12, <3>1, ShareIs
    <3>2. CASE pc[t] = "describe" /\ tex'[t] = tex[t]
      BY <2>3, <2>5, <2>10, <2>12, <3>2
    <3> QED BY <2>12, <3>1, <3>2, MakingStep
  <2> QED BY <2>9, <2>11, <2>12
<1> QED BY <1>1, <1>2

LEMMA ConcatSet ==
    ASSUME NEW S, NEW a \in Seq(S), NEW b \in Seq(S), NEW x, x \in ToSet(a) \/ x \in ToSet(b)
    PROVE  a \o b \in Seq(S) /\ x \in ToSet(a \o b)
<1> DEFINE c == a \o b  m == Len(a)  n == Len(b)
<1>1. c \in Seq(S) /\ m \in Nat /\ n \in Nat /\ Len(c) = m + n
  OBVIOUS
<1>2. (\A i \in 1..m : c[i] = a[i]) /\ (\A i \in 1..n : c[m + i] = b[i])
  OBVIOUS
<1>3. DOMAIN a = 1..m /\ DOMAIN b = 1..n /\ DOMAIN c = 1..(m + n)
  BY <1>1
<1> HIDE DEF c, m, n
<1>4. (\A i \in 1..m : i \in 1..(m + n)) /\ (\A i \in 1..n : m + i \in 1..(m + n))
  BY <1>1
<1>5. \A i \in DOMAIN c : c[i] \in ToSet(c)
  BY DEF ToSet
<1>6. CASE x \in ToSet(a)
  <2>1. PICK i \in 1..m : x = a[i]
    BY <1>3, <1>6 DEF ToSet
  <2> QED BY <1>1, <1>2, <1>3, <1>4, <1>5, <2>1 DEF c
<1>7. CASE x \in ToSet(b)
  <2>1. PICK i \in 1..n : x = b[i]
    BY <1>3, <1>7 DEF ToSet
  <2> QED BY <1>1, <1>2, <1>3, <1>4, <1>5, <2>1 DEF c
<1> QED BY <1>6, <1>7

LEMMA ConcatAll ==
    ASSUME NEW S, NEW a \in Seq(S), NEW b \in Seq(S), NEW c \in Seq(S),
           NEW d \in Seq(S), NEW e \in Seq(S), NEW f \in Seq(S), NEW x,
           \/ x \in ToSet(a) \/ x \in ToSet(b) \/ x \in ToSet(c)
           \/ x \in ToSet(d) \/ x \in ToSet(e) \/ x \in ToSet(f)
    PROVE  x \in ToSet(a \o b \o c \o d \o e \o f)
<1> DEFINE ab == a \o b  abc == ab \o c  abcd == abc \o d  abcde == abcd \o e
<1>1. ab \in Seq(S) /\ (x \in ToSet(a) \/ x \in ToSet(b) => x \in ToSet(ab))
  BY ConcatSet
<1> HIDE DEF ab
<1>2. abc \in Seq(S) /\ (x \in ToSet(ab) \/ x \in ToSet(c) => x \in ToSet(abc))
  BY <1>1, ConcatSet
<1> HIDE DEF abc
<1>3. abcd \in Seq(S) /\ (x \in ToSet(abc) \/ x \in ToSet(d) => x \in ToSet(abcd))
  BY <1>2, ConcatSet
<1> HIDE DEF abcd
<1>4. abcde \in Seq(S) /\ (x \in ToSet(abcd) \/ x \in ToSet(e) => x \in ToSet(abcde))
  BY <1>3, ConcatSet
<1> HIDE DEF abcde
<1>5. x \in ToSet(abcde) \/ x \in ToSet(f) => x \in ToSet(abcde \o f)
  BY <1>4, ConcatSet
<1>6. x \in ToSet(abcde \o f)
  BY <1>1, <1>2, <1>3, <1>4, <1>5
<1> QED BY <1>6 DEF ab, abc, abcd, abcde

\* The list of the places is the set of them.
LEMMA KeptPlaces ==
    ASSUME Types, NEW h \in Handles, Kept(h)
    PROVE  h \in ToSet(Places)
<1> DEFINE a == box.produced  b == box.consumed  c == OnScreen
           d == Hand("vmr")  e == Hand("render")  f == Hand("graph")
<1>1. a \in Seq(Handles) /\ b \in Seq(Handles)
  BY DEF Types, Boxes
<1>2. c \in Seq(Handles) /\ (h = previous => h \in ToSet(c))
  <2>1. CASE previous = NoTexture
    BY <2>1, NoTextureFact DEF OnScreen
  <2>2. CASE previous # NoTexture
    BY <2>2, OneElement DEF OnScreen, Types, PictureOK
  <2> QED BY <2>1, <2>2
<1>3. ASSUME NEW t \in Threads
      PROVE  Hand(t) \in Seq(Handles) /\ (Held(t) /\ tex[t] = h => h \in ToSet(Hand(t)))
  <2>1. CASE tex[t] = NoTexture \/ At(t, "stamp")
    BY <2>1, NoTextureFact DEF Hand, Held, At
  <2>2. CASE ~(tex[t] = NoTexture \/ At(t, "stamp"))
    <3>1. tex[t] \in Handles /\ Hand(t) = <<tex[t]>>
      BY <2>2 DEF Hand, Types, ThreadsOK
    <3> QED BY <3>1, OneElement
  <2> QED BY <2>1, <2>2
<1>4. d \in Seq(Handles) /\ e \in Seq(Handles) /\ f \in Seq(Handles)
  BY <1>3 DEF Threads
<1>5. \/ h \in ToSet(a) \/ h \in ToSet(b) \/ h \in ToSet(c)
      \/ h \in ToSet(d) \/ h \in ToSet(e) \/ h \in ToSet(f)
  BY <1>2, <1>3 DEF Kept, Threads
<1> HIDE DEF a, b, c, d, e, f
<1>6. h \in ToSet(a \o b \o c \o d \o e \o f)
  BY <1>1, <1>2, <1>4, <1>5, ConcatAll
<1> QED BY <1>6 DEF Places, a, b, c, d, e, f

\* While no Direct3D call fails and no reset overlaps another thread's use of
\* the queue, a texture the queue has metadata of is in a queue, on screen or in
\* a thread's hands: every texture dequeued is given back (producer_dequeue,
\* consumer_enqueue, do_emit_scene), through any number of resets.
THEOREM NothingLostHolds == Spec => []NothingLost
<1>1. Init => Retained
  <2> SUFFICES ASSUME Init PROVE Retained
    OBVIOUS
  <2>1. box.metadata = {} /\ \A t \in Threads : pc[t] \in {"start", "idle"}
    BY DEF Init, Blank
  <2> QED BY <2>1 DEF Retained
<1>2. IInv /\ Retained /\ [Next]_vars => Retained'
  <2> SUFFICES ASSUME IInv, Retained, [Next]_vars PROVE Retained'
    OBVIOUS
  <2>1. CASE Next
    BY <2>1, RetainedStep DEF IInv
  <2>2. CASE UNCHANGED vars
    <3>1. UNCHANGED <<box, previous, pc, tex, torn, failures>>
      BY <2>2 DEF vars, queueVars, threadVars, sceneVars
    <3> QED BY <3>1 DEF Retained, Kept, Held
  <2> QED BY <2>1, <2>2
<1>3. IInv /\ Retained => NothingLost
  <2> SUFFICES ASSUME IInv, Retained, failures = 0, ~torn, Whole PROVE box.metadata \subseteq ToSet(Places)
    BY DEF NothingLost
  <2>1. \A t \in Threads : pc[t] # "replace"
    BY DEF Whole, At
  <2>2. ASSUME NEW h \in box.metadata PROVE h \in ToSet(Places)
    <3>1. h \in Handles /\ Types
      BY DEF IInv, Types, Boxes
    <3> QED BY <2>1, <3>1, KeptPlaces DEF Retained
  <2> QED BY <2>2
<1> QED
  BY <1>1, <1>2, <1>3, InvariantHolds, PTL DEF Spec

=============================================================================
