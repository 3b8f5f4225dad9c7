------------------------------- MODULE KvList -------------------------------
(***************************************************************************)
(* The lock-free sorted list under the lookup tables of the texture queue  *)
(* (include/utility/interlocked_kv_list.c).  One action is one access to a *)
(* link other threads may change; keys and values do not change.           *)
(*                                                                         *)
(* Insertions and finds run concurrently.  An erasure runs alone here: the *)
(* player erases only in the destructor of a list, and as written          *)
(* (mark_as_deleted) an erasure loses what is inserted meanwhile.  So no   *)
(* node is freed under a find, and hazard pointers are left out.  Nothing  *)
(* in the player makes it so: shared_texture_queue::reset lets go of the   *)
(* lists with no lock while a presenter or the render thread may be in a   *)
(* find or an insert.  What that destructor does to them is not modelled.  *)
(***************************************************************************)
EXTENDS Integers, FiniteSets

CONSTANTS Threads, Nodes, Null,
          Root,      \* s->head, as the link before the first node
          Keys,      \* numbers, compared by cmp
          MaxCalls   \* bound: calls begun

ASSUME KvListAssumption ==
    /\ Null \notin Nodes \cup {Root} \cup Threads \cup BOOLEAN /\ Root \notin Nodes
    /\ IsFiniteSet(Nodes) /\ Keys \subseteq Nat \ {0} /\ MaxCalls \in Nat

Ops == {"insert", "find", "erase"}

\* A value is the name of the thread that inserts it; no key is 0.
NoKey == 0

VARIABLES
    next,            \* the link in each node, and the one before them all
    key, value,      \* of each node
    free, retired,   \* memory that is no node; nodes given to smr_free
    pc, op, sought, node, prev, current, nxt, \* a call: where it is, arguments, locals
    missing,         \* history: the key was absent when the call began
    answer,          \* what it returns
    calls, closed    \* calls begun; the list is deleted, or being deleted

nodeVars == <<key, value, free, retired>>
callVars == <<op, sought, node, missing>>
walkVars == <<prev, current, nxt>>
vars == <<next, nodeVars, pc, callVars, walkVars, answer, calls, closed>>

At(p, l) == pc[p] = l
Goto(p, l) == pc' = [pc EXCEPT ![p] = l]

NoOp == "none"

Init ==
    /\ next = [n \in Nodes \cup {Root} |-> Null]
    /\ key = [n \in Nodes |-> NoKey] /\ value = [n \in Nodes |-> Null]
    /\ free = Nodes /\ retired = {}
    /\ pc = [p \in Threads |-> "idle"] /\ op = [p \in Threads |-> NoOp]
    /\ sought = [p \in Threads |-> NoKey] /\ node = [p \in Threads |-> Null]
    /\ prev = [p \in Threads |-> Root] /\ current = [p \in Threads |-> Null]
    /\ nxt = [p \in Threads |-> Null]
    /\ missing = [p \in Threads |-> FALSE] /\ answer = [p \in Threads |-> Null]
    /\ calls = 0 /\ closed = FALSE

-----------------------------------------------------------------------------
(* What the list holds.  An erasure marks its node, which cuts the list    *)
(* behind it, before it takes the node out: until then the rest is in nxt. *)

After(n) ==
    IF n = Null THEN Null
    ELSE LET cutting == {p \in Threads : At(p, "unlink") /\ current[p] = n}
         IN  IF cutting = {} THEN next[n] ELSE nxt[CHOOSE p \in cutting : TRUE]

Walk[i \in 0..Cardinality(Nodes)] ==
    IF i = 0 THEN Root ELSE After(Walk[i - 1])

Linked == {Walk[i] : i \in 1..Cardinality(Nodes)} \ {Null}

Contents ==
    LET list == Linked
    IN  [k \in Keys |-> IF \E n \in list : key[n] = k
                        THEN value[CHOOSE n \in list : key[n] = k] ELSE Null]

-----------------------------------------------------------------------------
(* The beginning of a call, and its end.                                   *)

Alone(p) == \A q \in Threads \ {p} : At(q, "idle")
NobodyErases == \A p \in Threads : op[p] # "erase"

Begin(p, o, k) ==
    /\ At(p, "idle") /\ calls < MaxCalls /\ ~closed /\ NobodyErases
    /\ o = "erase" => Alone(p)
    /\ calls' = calls + 1
    /\ op' = [op EXCEPT ![p] = o] /\ sought' = [sought EXCEPT ![p] = k]
    /\ missing' = [missing EXCEPT ![p] = Contents[k] = Null]
    /\ Goto(p, "head")

BeginFind(p) ==
    /\ \E o \in {"find", "erase"}, k \in Keys : Begin(p, o, k)
    /\ UNCHANGED <<next, nodeVars, node, walkVars, answer, closed>>

\* interlocked_kv_list_insert: new_interlocked_kv_list_node.
BeginInsert(p) ==
    \E k \in Keys, n \in free :
        /\ Begin(p, "insert", k)
        /\ free' = free \ {n}
        /\ key' = [key EXCEPT ![n] = k] /\ value' = [value EXCEPT ![n] = p]
        /\ node' = [node EXCEPT ![p] = n]
        /\ UNCHANGED <<next, retired, walkVars, answer, closed>>

Answer(p, a) ==
    /\ answer' = [answer EXCEPT ![p] = a]
    /\ Goto(p, "return")

Return(p) ==
    /\ At(p, "return") /\ Goto(p, "idle")
    /\ op' = [op EXCEPT ![p] = NoOp] /\ sought' = [sought EXCEPT ![p] = NoKey]
    /\ node' = [node EXCEPT ![p] = Null] /\ missing' = [missing EXCEPT ![p] = FALSE]
    /\ prev' = [prev EXCEPT ![p] = Root] /\ current' = [current EXCEPT ![p] = Null]
    /\ nxt' = [nxt EXCEPT ![p] = Null] /\ answer' = [answer EXCEPT ![p] = Null]
    /\ UNCHANGED <<next, nodeVars, calls, closed>>

-----------------------------------------------------------------------------
(* find.                                                                   *)

\* The end of find: the caller goes on.  An insertion whose key is taken
\* returns false, and forgets its node.
Found(p) ==
    \/ op[p] = "insert" /\ Answer(p, FALSE)
    \/ op[p] = "find" /\ Goto(p, "value") /\ UNCHANGED answer
    \/ op[p] = "erase" /\ Goto(p, "mark") /\ UNCHANGED answer

NotFound(p) ==
    \/ op[p] = "insert" /\ Goto(p, "link") /\ UNCHANGED answer
    \/ op[p] # "insert" /\ Answer(p, FALSE)

\* At v->current: the end of the list, or a node to look at.
Arrive(p) ==
    IF current'[p] = Null THEN NotFound(p) ELSE Goto(p, "check") /\ UNCHANGED answer

FindHead(p) ==
    /\ At(p, "head")
    /\ prev' = [prev EXCEPT ![p] = Root]
    /\ current' = [current EXCEPT ![p] = next[Root]]
    /\ Arrive(p)
    /\ UNCHANGED <<next, nodeVars, callVars, nxt, calls, closed>>

\* if(*v->prev != v->current) goto try_again;
FindCheck(p) ==
    /\ At(p, "check")
    /\ Goto(p, IF next[prev[p]] = current[p] THEN "next" ELSE "head")
    /\ UNCHANGED <<next, nodeVars, callVars, walkVars, answer, calls, closed>>

\* v->next = v->current->next; no link ever has the deleted bit.
FindNext(p) ==
    /\ At(p, "next")
    /\ nxt' = [nxt EXCEPT ![p] = next[current[p]]]
    /\ Goto(p, "compare")
    /\ UNCHANGED <<next, nodeVars, callVars, prev, current, answer, calls, closed>>

\* Mutant of FindCompare: stops one node late.
FindComparePast(p) ==
    /\ At(p, "compare") /\ next[prev[p]] = current[p]
    /\ IF key[current[p]] > sought[p]
       THEN NotFound(p) /\ UNCHANGED <<prev, current>>
       ELSE /\ prev' = [prev EXCEPT ![p] = current[p]]
            /\ current' = [current EXCEPT ![p] = nxt[p]]
            /\ Arrive(p)
    /\ UNCHANGED <<next, nodeVars, callVars, nxt, calls, closed>>

FindCompare(p) ==
    /\ At(p, "compare") /\ next[prev[p]] = current[p]
    /\ IF key[current[p]] >= sought[p]
       THEN /\ UNCHANGED <<prev, current>>
            /\ IF key[current[p]] = sought[p] THEN Found(p) ELSE NotFound(p)
       ELSE /\ prev' = [prev EXCEPT ![p] = current[p]]
            /\ current' = [current EXCEPT ![p] = nxt[p]]
            /\ Arrive(p)
    /\ UNCHANGED <<next, nodeVars, callVars, nxt, calls, closed>>

FindAgain(p) ==
    /\ At(p, "compare") /\ next[prev[p]] # current[p]
    /\ Goto(p, "head")
    /\ UNCHANGED <<next, nodeVars, callVars, walkVars, answer, calls, closed>>

\* *value = v.current->value.
FindValue(p) ==
    /\ At(p, "value")
    /\ Answer(p, value[current[p]])
    /\ UNCHANGED <<next, nodeVars, callVars, walkVars, calls, closed>>

-----------------------------------------------------------------------------
(* insert and del.                                                         *)

\* Mutant of InsertLink: a store where the compare-and-swap is.
InsertLinkBlind(p) ==
    /\ At(p, "link")
    /\ next' = [next EXCEPT ![node[p]] = current[p], ![prev[p]] = node[p]]
    /\ Answer(p, TRUE)
    /\ UNCHANGED <<nodeVars, callVars, walkVars, calls, closed>>

\* node->next = v->current; casp(v->prev, v->current, node)
InsertLink(p) ==
    /\ At(p, "link")
    /\ IF next[prev[p]] = current[p]
       THEN /\ next' = [next EXCEPT ![node[p]] = current[p], ![prev[p]] = node[p]]
            /\ Answer(p, TRUE)
       ELSE /\ next' = [next EXCEPT ![node[p]] = current[p]]
            /\ Goto(p, "head") /\ UNCHANGED answer
    /\ UNCHANGED <<nodeVars, callVars, walkVars, calls, closed>>

\* ptr & 1, and a node's address is even.
mark_as_deleted(ptr) == Null

\* casp(&v->current->next, v->next, mark_as_deleted(v->next)); it cannot fail
\* for a thread that is alone.
EraseMark(p) ==
    /\ At(p, "mark") /\ next[current[p]] = nxt[p]
    /\ next' = [next EXCEPT ![current[p]] = mark_as_deleted(nxt[p])]
    /\ Goto(p, "unlink")
    /\ UNCHANGED <<nodeVars, callVars, walkVars, answer, calls, closed>>

\* Mutant of EraseUnlink: the marked link is read again.
EraseUnlinkMarked(p) ==
    /\ At(p, "unlink") /\ next[prev[p]] = current[p]
    /\ next' = [next EXCEPT ![prev[p]] = next[current[p]]]
    /\ retired' = retired \cup {current[p]}
    /\ Answer(p, TRUE)
    /\ UNCHANGED <<key, value, free, callVars, walkVars, calls, closed>>

\* casp(v->prev, v->current, v->next) and smr_free_with_finalizer.
EraseUnlink(p) ==
    /\ At(p, "unlink") /\ next[prev[p]] = current[p]
    /\ next' = [next EXCEPT ![prev[p]] = nxt[p]]
    /\ retired' = retired \cup {current[p]}
    /\ Answer(p, TRUE)
    /\ UNCHANGED <<key, value, free, callVars, walkVars, calls, closed>>

\* smr.c frees a retired node, and finalize_node its key and value.
Reclaim(n) ==
    /\ n \in retired
    /\ retired' = retired \ {n} /\ free' = free \cup {n}
    /\ key' = [key EXCEPT ![n] = NoKey] /\ value' = [value EXCEPT ![n] = Null]
    /\ next' = [next EXCEPT ![n] = Null]
    /\ UNCHANGED <<pc, callVars, walkVars, answer, calls, closed>>

\* delete_interlocked_kv_list: erase the first node until there is none.  Its
\* smr_free of the list itself is left out: no call comes after Close.
Close(p) ==
    /\ At(p, "idle") /\ Alone(p) /\ next[Root] # Null
    /\ closed' = TRUE
    /\ op' = [op EXCEPT ![p] = "erase"]
    /\ sought' = [sought EXCEPT ![p] = key[next[Root]]]
    /\ missing' = [missing EXCEPT ![p] = FALSE]
    /\ Goto(p, "head")
    /\ UNCHANGED <<next, nodeVars, node, walkVars, answer, calls>>

Step(p) == \/ BeginFind(p) \/ BeginInsert(p) \/ FindHead(p) \/ FindCheck(p) \/ FindNext(p)
           \/ FindCompare(p) \/ FindAgain(p) \/ FindValue(p) \/ InsertLink(p)
           \/ EraseMark(p) \/ EraseUnlink(p) \/ Return(p) \/ Close(p)

Next == \/ \E p \in Threads : Step(p)
        \/ \E n \in Nodes : Reclaim(n)

Spec == Init /\ [][Next]_vars
-----------------------------------------------------------------------------
(* Properties.                                                             *)

\* Every call takes effect at one moment.  A call that has passed it has its
\* answer, or (a find at "value") is about to read it.
Pending(p) == ~At(p, "idle") /\ ~At(p, "return") /\ ~At(p, "value")
Calls == [p \in Threads |-> IF Pending(p) THEN <<op[p], sought[p]>> ELSE Null]
Answers == [p \in Threads |-> IF At(p, "value") THEN value[current[p]] ELSE answer[p]]
Missing == [p \in Threads |-> Pending(p) /\ missing[p]]

Abstract == INSTANCE KvMap WITH Values <- Threads, None <- Null,
                map <- Contents, call <- Calls, absent <- Missing, answer <- Answers

\* Insertions and finds of several threads, and erasures with nobody else
\* there, are those of a map behind a lock: no insertion is lost or made
\* twice, and a find misses only a key that was absent when it began.
ImplementsMap == Abstract!Spec

\* The list stays sorted, without duplicates and without a retired or free
\* node, at every step of every insertion.
Sorted ==
    /\ Linked \cap (free \cup retired) = {}
    /\ \A i \in 1..Cardinality(Nodes) - 1 :
          Walk[i] # Null /\ Walk[i + 1] # Null => key[Walk[i]] < key[Walk[i + 1]]

=============================================================================
