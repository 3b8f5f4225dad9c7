------------------------------- MODULE KvMap -------------------------------
(***************************************************************************)
(* What interlocked_kv_list promises its users: a map behind one lock, in  *)
(* which an insertion of a key that is there changes nothing.  A call has  *)
(* three moments, its beginning, the one at which it takes effect and its  *)
(* end.  A find that misses may be late: the key was absent when it began. *)
(***************************************************************************)
EXTENDS Integers

CONSTANTS Threads, Keys, Values,
          None     \* no call, no answer

VARIABLES map,     \* the value of each key; None when the key is absent
          call,    \* the call of each thread that has not taken effect
          absent,  \* its key was absent when the call began
          answer   \* what it will return

vars == <<map, call, absent, answer>>

Init ==
    /\ map = [k \in Keys |-> None]
    /\ call = [p \in Threads |-> None]
    /\ absent = [p \in Threads |-> FALSE]
    /\ answer = [p \in Threads |-> None]

Begin(p) ==
    /\ call[p] = None /\ answer[p] = None
    /\ \E op \in {"insert", "find", "erase"}, k \in Keys :
          /\ call' = [call EXCEPT ![p] = <<op, k>>]
          /\ absent' = [absent EXCEPT ![p] = map[k] = None]
    /\ UNCHANGED <<map, answer>>

\* The call takes effect and will return a.
Answer(p, a) ==
    /\ call' = [call EXCEPT ![p] = None]
    /\ answer' = [answer EXCEPT ![p] = a]
    /\ absent' = [absent EXCEPT ![p] = FALSE]

Insert(p) ==
    \E k \in Keys, v \in Values :
        /\ call[p] = <<"insert", k>>
        /\ map[k] = None
        /\ map' = [map EXCEPT ![k] = v]
        /\ Answer(p, TRUE)

Erase(p) ==
    \E k \in Keys :
        /\ call[p] = <<"erase", k>>
        /\ map[k] # None
        /\ map' = [map EXCEPT ![k] = None]
        /\ Answer(p, TRUE)

Hit(p) ==
    \E k \in Keys :
        /\ call[p] = <<"find", k>>
        /\ map[k] # None
        /\ Answer(p, map[k])
        /\ UNCHANGED map

Miss(p) ==
    /\ absent[p]
    /\ call[p][1] \in {"find", "erase"}
    /\ Answer(p, FALSE)
    /\ UNCHANGED map

\* An insertion that finds its key taken.
Taken(p) ==
    \E k \in Keys :
        /\ call[p] = <<"insert", k>>
        /\ map[k] # None
        /\ Answer(p, FALSE)
        /\ UNCHANGED map

Return(p) ==
    /\ answer[p] # None
    /\ answer' = [answer EXCEPT ![p] = None]
    /\ UNCHANGED <<map, call, absent>>

Next == \E p \in Threads : Begin(p) \/ Insert(p) \/ Erase(p) \/ Hit(p) \/ Miss(p) \/ Taken(p) \/ Return(p)

Spec == Init /\ [][Next]_vars
=============================================================================
