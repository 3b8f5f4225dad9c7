-------------------------- MODULE InterlockedQueue --------------------------
(***************************************************************************)
(* The lock-free queue under the texture queue                             *)
(* (include/utility/interlocked_queue.c): Michael and Scott's linked list  *)
(* with hazard pointers, except that pop cuts the node it removes loose    *)
(* (h->next = nullptr) before freeing it.  One action is one access to     *)
(* shared memory.  smr.c's scan is one step here, and it may free a node   *)
(* in use: it compares with one of the hazard pointers it has listed and   *)
(* forgets the others (Smr models it step by step).  The properties say    *)
(* what the queue does until such a node is freed.                         *)
(***************************************************************************)
EXTENDS Integers, Sequences, FiniteSets, SequencesExt

CONSTANTS Pushers, Poppers, \* threads that push, threads that pop; they may overlap
          Nodes,            \* the memory nodes are made of; a bound on live nodes
          Null,             \* nullptr
          MaxPushes         \* bound: values pushed

ASSUME QueueAssumption ==
    /\ Null \notin Nodes /\ IsFiniteSet(Nodes) /\ Nodes # {}
    /\ Pushers \cup Poppers # {} /\ MaxPushes \in Nat

Threads == Pushers \cup Poppers

\* The values: the n-th push pushes n.
Values == 1..MaxPushes

\* No value: what an unused node or an idle thread holds.
Nothing == 0

VARIABLES
    head, tail,      \* q->head, q->tail
    next, data,      \* the fields of every node
    free,            \* memory that is no node now
    retired,         \* nodes given to smr_free
    hazards,         \* hazard pointers of each thread
    pc, h, t, nxt, node, \* each thread's place and local variables
    value,           \* what it pushes or has read
    pushes,          \* history: values taken to push
    wasEmpty,        \* history: the queue was empty at some moment of this pop
    forgot           \* history: a scan has freed a node some hazard pointer names

localVars == <<pc, h, t, nxt, node, value>>
vars == <<head, tail, next, data, free, retired, hazards, localVars, pushes, wasEmpty, forgot>>

At(p, l) == pc[p] = l
Goto(p, l) == pc' = [pc EXCEPT ![p] = l]

NoHazards == [i \in 1..2 |-> Null]

-----------------------------------------------------------------------------
(* What the list holds: the values in the nodes after head, in order.      *)

Chain[i \in 0..Cardinality(Nodes)] ==
    IF i = 0 THEN head
    ELSE IF Chain[i - 1] = Null THEN Null ELSE next[Chain[i - 1]]

Linked == {i \in 1..Cardinality(Nodes) : Chain[i] # Null}

Contents == [i \in 1..Cardinality(Linked) |-> data[Chain[i]]]

\* new_interlocked_queue: one dummy node, head and tail.
Init ==
    \E dummy \in Nodes :
        /\ head = dummy /\ tail = dummy
        /\ free = Nodes \ {dummy}
        /\ next = [n \in Nodes |-> Null] /\ data = [n \in Nodes |-> Nothing]
        /\ retired = {}
        /\ hazards = [p \in Threads |-> NoHazards]
        /\ pc = [p \in Threads |-> "idle"]
        /\ h = [p \in Threads |-> Null] /\ t = [p \in Threads |-> Null]
        /\ nxt = [p \in Threads |-> Null] /\ node = [p \in Threads |-> Null]
        /\ value = [p \in Threads |-> Nothing]
        /\ pushes = 0 /\ wasEmpty = [p \in Threads |-> FALSE] /\ forgot = FALSE

-----------------------------------------------------------------------------
(* interlocked_queue_push.                                                 *)

\* The new node and its value.
PushNew(p) ==
    /\ At(p, "idle") /\ pushes < MaxPushes
    /\ pushes' = pushes + 1
    /\ \E n \in free :
          /\ free' = free \ {n}
          /\ next' = [next EXCEPT ![n] = Null] /\ data' = [data EXCEPT ![n] = pushes + 1]
          /\ node' = [node EXCEPT ![p] = n]
    /\ value' = [value EXCEPT ![p] = pushes + 1]
    /\ Goto(p, "push tail")
    /\ UNCHANGED <<head, tail, retired, hazards, h, t, nxt, wasEmpty, forgot>>

PushTail(p) ==
    /\ At(p, "push tail")
    /\ t' = [t EXCEPT ![p] = tail]
    /\ Goto(p, "push guard")
    /\ UNCHANGED <<head, tail, next, data, free, retired, hazards, h, nxt, node, value, pushes, wasEmpty, forgot>>

\* Mutant of PushGuard: no hazard pointer.
PushGuardNothing(p) ==
    /\ At(p, "push guard")
    /\ Goto(p, "push check")
    /\ UNCHANGED <<head, tail, next, data, free, retired, hazards, h, t, nxt, node, value, pushes, wasEmpty, forgot>>

PushGuard(p) ==
    /\ At(p, "push guard")
    /\ hazards' = [hazards EXCEPT ![p][1] = t[p]]
    /\ Goto(p, "push check")
    /\ UNCHANGED <<head, tail, next, data, free, retired, h, t, nxt, node, value, pushes, wasEmpty, forgot>>

\* if(q->tail != t) continue;
PushCheck(p) ==
    /\ At(p, "push check")
    /\ Goto(p, IF tail = t[p] THEN "push next" ELSE "push tail")
    /\ UNCHANGED <<head, tail, next, data, free, retired, hazards, h, t, nxt, node, value, pushes, wasEmpty, forgot>>

PushNext(p) ==
    /\ At(p, "push next")
    /\ nxt' = [nxt EXCEPT ![p] = next[t[p]]]
    /\ Goto(p, "push check again")
    /\ UNCHANGED <<head, tail, next, data, free, retired, hazards, h, t, node, value, pushes, wasEmpty, forgot>>

PushCheckAgain(p) ==
    /\ At(p, "push check again")
    /\ Goto(p, IF tail # t[p] THEN "push tail" ELSE IF nxt[p] # Null THEN "push help" ELSE "push link")
    /\ UNCHANGED <<head, tail, next, data, free, retired, hazards, h, t, nxt, node, value, pushes, wasEmpty, forgot>>

\* Somebody linked a node and has yet to move the tail: move it for them.
Help(p, from, to) ==
    /\ At(p, from)
    /\ tail' = IF tail = t[p] THEN nxt[p] ELSE tail
    /\ Goto(p, to)
    /\ UNCHANGED <<head, next, data, free, retired, hazards, h, t, nxt, node, value, pushes, wasEmpty, forgot>>

\* casp(&t->next, nullptr, node).
PushLink(p) ==
    /\ At(p, "push link")
    /\ IF next[t[p]] = Null
       THEN next' = [next EXCEPT ![t[p]] = node[p]] /\ Goto(p, "push swing")
       ELSE Goto(p, "push tail") /\ UNCHANGED next
    /\ UNCHANGED <<head, tail, data, free, retired, hazards, h, t, nxt, node, value, pushes, wasEmpty, forgot>>

\* Mutant of PushSwing: the wrong local.
PushSwingToNext(p) ==
    /\ At(p, "push swing")
    /\ tail' = IF tail = t[p] THEN nxt[p] ELSE tail
    /\ hazards' = [hazards EXCEPT ![p][1] = Null]
    /\ Goto(p, "idle")
    /\ t' = [t EXCEPT ![p] = Null] /\ nxt' = [nxt EXCEPT ![p] = Null]
    /\ node' = [node EXCEPT ![p] = Null] /\ value' = [value EXCEPT ![p] = Nothing]
    /\ UNCHANGED <<head, next, data, free, retired, h, pushes, wasEmpty, forgot>>

\* casp(&q->tail, t, node), and the hazard pointer is dropped.
PushSwing(p) ==
    /\ At(p, "push swing")
    /\ tail' = IF tail = t[p] THEN node[p] ELSE tail
    /\ hazards' = [hazards EXCEPT ![p][1] = Null]
    /\ Goto(p, "idle")
    /\ t' = [t EXCEPT ![p] = Null] /\ nxt' = [nxt EXCEPT ![p] = Null]
    /\ node' = [node EXCEPT ![p] = Null] /\ value' = [value EXCEPT ![p] = Nothing]
    /\ UNCHANGED <<head, next, data, free, retired, h, pushes, wasEmpty, forgot>>

Push(p) == \/ PushNew(p) \/ PushTail(p) \/ PushGuard(p) \/ PushCheck(p) \/ PushNext(p)
           \/ PushCheckAgain(p) \/ Help(p, "push help", "push tail") \/ PushLink(p) \/ PushSwing(p)

-----------------------------------------------------------------------------
(* interlocked_queue_pop.                                                  *)

PopBegin(p) ==
    /\ At(p, "idle")
    /\ Goto(p, "pop head")
    /\ wasEmpty' = [wasEmpty EXCEPT ![p] = FALSE]
    /\ UNCHANGED <<head, tail, next, data, free, retired, hazards, h, t, nxt, node, value, pushes, forgot>>

PopHead(p) ==
    /\ At(p, "pop head")
    /\ h' = [h EXCEPT ![p] = head]
    /\ Goto(p, "pop guard")
    /\ UNCHANGED <<head, tail, next, data, free, retired, hazards, t, nxt, node, value, pushes, wasEmpty, forgot>>

\* Mutant of PopGuard: no hazard pointer.
PopGuardNothing(p) ==
    /\ At(p, "pop guard")
    /\ Goto(p, "pop check")
    /\ UNCHANGED <<head, tail, next, data, free, retired, hazards, h, t, nxt, node, value, pushes, wasEmpty, forgot>>

PopGuard(p) ==
    /\ At(p, "pop guard")
    /\ hazards' = [hazards EXCEPT ![p][1] = h[p]]
    /\ Goto(p, "pop check")
    /\ UNCHANGED <<head, tail, next, data, free, retired, h, t, nxt, node, value, pushes, wasEmpty, forgot>>

PopCheck(p) ==
    /\ At(p, "pop check")
    /\ Goto(p, IF head = h[p] THEN "pop tail" ELSE "pop head")
    /\ UNCHANGED <<head, tail, next, data, free, retired, hazards, h, t, nxt, node, value, pushes, wasEmpty, forgot>>

PopTail(p) ==
    /\ At(p, "pop tail")
    /\ t' = [t EXCEPT ![p] = tail]
    /\ Goto(p, "pop next")
    /\ UNCHANGED <<head, tail, next, data, free, retired, hazards, h, nxt, node, value, pushes, wasEmpty, forgot>>

PopNext(p) ==
    /\ At(p, "pop next")
    /\ nxt' = [nxt EXCEPT ![p] = next[h[p]]]
    /\ wasEmpty' = [wasEmpty EXCEPT ![p] = @ \/ Contents = <<>>]
    /\ Goto(p, "pop guard next")
    /\ UNCHANGED <<head, tail, next, data, free, retired, hazards, h, t, node, value, pushes, forgot>>

PopGuardNext(p) ==
    /\ At(p, "pop guard next")
    /\ hazards' = [hazards EXCEPT ![p][2] = nxt[p]]
    /\ Goto(p, "pop check again")
    /\ UNCHANGED <<head, tail, next, data, free, retired, h, t, nxt, node, value, pushes, wasEmpty, forgot>>

\* Mutants of PopCheckAgain: the tail is not helped; the head not checked again.
PopCheckAgainNoHelp(p) ==
    /\ At(p, "pop check again")
    /\ Goto(p, IF head # h[p] THEN "pop head" ELSE IF nxt[p] = Null THEN "pop empty" ELSE "pop read")
    /\ UNCHANGED <<head, tail, next, data, free, retired, hazards, h, t, nxt, node, value, pushes, wasEmpty, forgot>>
PopCheckAgainBlind(p) ==
    /\ At(p, "pop check again")
    /\ Goto(p, IF nxt[p] = Null THEN "pop empty" ELSE IF h[p] = t[p] THEN "pop help" ELSE "pop read")
    /\ UNCHANGED <<head, tail, next, data, free, retired, hazards, h, t, nxt, node, value, pushes, wasEmpty, forgot>>

PopCheckAgain(p) ==
    /\ At(p, "pop check again")
    /\ Goto(p, IF head # h[p] THEN "pop head"
               ELSE IF nxt[p] = Null THEN "pop empty"
               ELSE IF h[p] = t[p] THEN "pop help" ELSE "pop read")
    /\ UNCHANGED <<head, tail, next, data, free, retired, hazards, h, t, nxt, node, value, pushes, wasEmpty, forgot>>

\* The end of every pop; v is what it returns, Nothing if there was nothing.
PopReturn(p) ==
    /\ hazards' = [hazards EXCEPT ![p] = NoHazards]
    /\ Goto(p, "idle")
    /\ h' = [h EXCEPT ![p] = Null] /\ t' = [t EXCEPT ![p] = Null]
    /\ nxt' = [nxt EXCEPT ![p] = Null] /\ value' = [value EXCEPT ![p] = Nothing]

PopEmpty(p) ==
    /\ At(p, "pop empty")
    /\ PopReturn(p)
    /\ UNCHANGED <<head, tail, next, data, free, retired, node, pushes, wasEmpty, forgot>>

PopRead(p) ==
    /\ At(p, "pop read")
    /\ value' = [value EXCEPT ![p] = data[nxt[p]]]
    /\ Goto(p, "pop swing")
    /\ UNCHANGED <<head, tail, next, data, free, retired, hazards, h, t, nxt, node, pushes, wasEmpty, forgot>>

\* Mutant of PopSwing: a store where the cas is.
PopSwingBlind(p) ==
    /\ At(p, "pop swing")
    /\ head' = nxt[p] /\ Goto(p, "pop cut")
    /\ UNCHANGED <<tail, next, data, free, retired, hazards, h, t, nxt, node, value, pushes, wasEmpty, forgot>>

\* casp(&q->head, h, next).
PopSwing(p) ==
    /\ At(p, "pop swing")
    /\ IF head = h[p]
       THEN head' = nxt[p] /\ Goto(p, "pop cut") /\ UNCHANGED value
       ELSE /\ Goto(p, "pop head") /\ UNCHANGED head
            /\ value' = [value EXCEPT ![p] = Nothing]
    /\ UNCHANGED <<tail, next, data, free, retired, hazards, h, t, nxt, node, pushes, wasEmpty, forgot>>

\* h->next = nullptr.
PopCut(p) ==
    /\ At(p, "pop cut")
    /\ next' = [next EXCEPT ![h[p]] = Null]
    /\ Goto(p, "pop free")
    /\ UNCHANGED <<head, tail, data, free, retired, hazards, h, t, nxt, node, value, pushes, wasEmpty, forgot>>

\* smr_free(h), and the value is returned.
PopFree(p) ==
    /\ At(p, "pop free")
    /\ retired' = retired \cup {h[p]}
    /\ PopReturn(p)
    /\ UNCHANGED <<head, tail, next, data, free, node, pushes, wasEmpty, forgot>>

Pop(p) == \/ PopBegin(p) \/ PopHead(p) \/ PopGuard(p) \/ PopCheck(p) \/ PopTail(p) \/ PopNext(p)
          \/ PopGuardNext(p) \/ PopCheckAgain(p) \/ Help(p, "pop help", "pop head") \/ PopEmpty(p)
          \/ PopRead(p) \/ PopSwing(p) \/ PopCut(p) \/ PopFree(p)

\* What scan lists: every hazard pointer that is not null.
Named == (UNION {{hazards[p][1], hazards[p][2]} : p \in Threads}) \ {Null}

\* retired_list_contains may say that n is not listed.  It empties the list it
\* searches and pushes an entry back before it follows its Next, which is null
\* by then: n is compared with one listed pointer and the rest are dropped.  So
\* it is sure to find n only if nothing else is listed.
MayMiss(n) == Named # {n}

\* smr.c's scan frees n.
Reclaim(n) ==
    /\ n \in retired /\ MayMiss(n)
    /\ retired' = retired \ {n} /\ free' = free \cup {n}
    /\ forgot' = (forgot \/ n \in Named)
    /\ UNCHANGED <<head, tail, next, data, hazards, localVars, pushes, wasEmpty>>

Next == \/ \E p \in Pushers : Push(p)
        \/ \E p \in Poppers : Pop(p)
        \/ \E n \in Nodes : Reclaim(n)

Spec == Init /\ [][Next]_vars
-----------------------------------------------------------------------------
(* Properties.                                                             *)

Labels == {"idle", "push tail", "push guard", "push check", "push next", "push check again", "push help",
           "push link", "push swing", "pop head", "pop guard", "pop check", "pop tail", "pop next",
           "pop guard next", "pop check again", "pop help", "pop empty", "pop read", "pop swing",
           "pop cut", "pop free"}

\* The shape of every variable.
TypeOK ==
    /\ head \in Nodes /\ tail \in Nodes
    /\ next \in [Nodes -> Nodes \cup {Null}] /\ data \in [Nodes -> Values \cup {Nothing}]
    /\ free \subseteq Nodes /\ retired \subseteq Nodes
    /\ hazards \in [Threads -> [1..2 -> Nodes \cup {Null}]]
    /\ pc \in [Threads -> Labels]
    /\ {h, t, nxt, node} \subseteq [Threads -> Nodes \cup {Null}]
    /\ value \in [Threads -> Values \cup {Nothing}]
    /\ pushes \in 0..MaxPushes /\ wasEmpty \in [Threads -> BOOLEAN] /\ forgot \in BOOLEAN

\* The node whose fields thread p is about to read or write.
Touched(p) ==
    IF pc[p] \in {"push next", "push link"} THEN {t[p]}
    ELSE IF pc[p] \in {"pop next", "pop cut"} THEN {h[p]}
    ELSE IF pc[p] = "pop read" THEN {nxt[p]} ELSE {}

\* The queue's half of the contract with smr.c: the hazard pointers are set
\* early enough and checked, so no thread touches a node whose memory has been
\* given back - as long as no scan frees a node that a hazard pointer names.
NothingFreedInUse == ~forgot => \A p \in Threads : Touched(p) \cap free = {}

\* head and tail point at nodes of the list, and the tail, though it may lag,
\* never falls behind the head: pop moves it along before it passes it.  Until
\* a scan frees a node in use.
TailNotBehindHead ==
    ~forgot => /\ {head, tail} \cap (free \cup retired) = {}
               /\ \E i \in 0..Cardinality(Nodes) : Chain[i] = tail

\* A pop that reports an empty queue ran while the queue was empty.  Until a
\* scan frees a node in use.
EmptyPopSawEmpty == ~forgot => \A p \in Poppers : At(p, "pop empty") => wasEmpty[p]

\* The refinement: a push takes effect when its node is linked, a pop when
\* the head moves.
Before == {"push tail", "push guard", "push check", "push next", "push check again", "push help", "push link"}
Pushing == [p \in Pushers |-> IF pc[p] \in Before THEN value[p] ELSE Nothing]
Popped == [p \in Poppers |-> IF pc[p] \in {"pop cut", "pop free"} THEN value[p] ELSE Nothing]

Abstract == INSTANCE Fifo WITH q <- Contents, pushing <- Pushing, popped <- Popped

\* Every value pushed is popped once, in order, until a scan frees a node in
\* use.  It holds for one pusher.  With two it does not, whatever the scans do:
\* while one stands before the cas that links its node to t, the other's push
\* and a pop may take t off the list, and h->next = nullptr makes the cas
\* succeed on a node nobody will read again.
ImplementsFifo == Abstract!Init /\ [][forgot' \/ Abstract!Next]_(Abstract!vars)

=============================================================================
