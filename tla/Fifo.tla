-------------------------------- MODULE Fifo --------------------------------
(***************************************************************************)
(* What utility::interlocked_queue promises: the std::queue behind one     *)
(* lock that it replaced, still there as a comment                         *)
(* (include/utility/interlocked_containers.hpp).  A push takes effect at   *)
(* one moment between its call and its return, and so does a pop.          *)
(***************************************************************************)
EXTENDS Integers, Sequences

CONSTANTS Pushers, Poppers, Values, Nothing

VARIABLES q,       \* the std::queue
          pushing, \* what each pusher has still to push
          popped   \* what each popper has still to return

vars == <<q, pushing, popped>>

Init == /\ q = <<>>
        /\ pushing = [p \in Pushers |-> Nothing]
        /\ popped = [p \in Poppers |-> Nothing]

CallPush(p) == /\ pushing[p] = Nothing
               /\ \E v \in Values : pushing' = [pushing EXCEPT ![p] = v]
               /\ UNCHANGED <<q, popped>>

\* q.push(val)
Push(p) == /\ pushing[p] # Nothing
           /\ q' = Append(q, pushing[p])
           /\ pushing' = [pushing EXCEPT ![p] = Nothing]
           /\ UNCHANGED popped

\* result.second = q.front(); q.pop();
Pop(p) == /\ q # <<>> /\ popped[p] = Nothing
          /\ popped' = [popped EXCEPT ![p] = Head(q)]
          /\ q' = Tail(q)
          /\ UNCHANGED pushing

ReturnPop(p) == /\ popped' = [popped EXCEPT ![p] = Nothing]
                /\ UNCHANGED <<q, pushing>>

Next == \/ \E p \in Pushers : CallPush(p) \/ Push(p)
        \/ \E p \in Poppers : Pop(p) \/ ReturnPop(p)

Spec == Init /\ [][Next]_vars
=============================================================================
