----------------------- MODULE InterlockedQueueProofs -----------------------
(***************************************************************************)
(* interlocked_queue.c, for any number of threads, nodes and pushes, until *)
(* a scan of smr.c frees a node that a hazard pointer names: no thread     *)
(* touches memory that has been given back, the tail never falls behind    *)
(* the head, a pop that reports an empty queue saw it empty; and with one  *)
(* pusher the queue is the std::queue behind a lock that it replaced.      *)
(*                                                                         *)
(* The inductive invariant says that some sequence of nodes is the list:   *)
(* from head to the last by next, tail among them (List).  A linked node   *)
(* is appended, a popped one taken off the front.  Placed says that every  *)
(* other node is free, retired, or one thread's own; PushKnows and         *)
(* PopKnows, what a thread's locals have to do with the list.              *)
(***************************************************************************)
EXTENDS InterlockedQueue, TLAPS, FiniteSetTheorems, SequenceTheorems

-----------------------------------------------------------------------------
(* The inductive invariant.                                                *)

On(s) == {s[i] : i \in 1..Len(s)}

\* s is the list.
List(s) ==
    /\ s # <<>>
    /\ \A i, j \in 1..Len(s) : s[i] = s[j] => i = j
    /\ s[1] = head /\ next[s[Len(s)]] = Null
    /\ \A i \in 1..Len(s) - 1 : next[s[i]] = s[i + 1]
    /\ tail \in On(s)

\* A thread's own node: one it has not linked yet, or one it has taken off.
NewOf(p, n) == pc[p] \in Before /\ node[p] = n
CutOf(p, n) == pc[p] \in {"pop cut", "pop free"} /\ h[p] = n
Own(p, n) == NewOf(p, n) \/ CutOf(p, n)

Placed(s) ==
    /\ On(s) \cap free = {} /\ On(s) \cap retired = {} /\ free \cap retired = {}
    /\ \A p \in Threads : \A n \in Nodes : Own(p, n) => n \notin On(s) \cup free \cup retired
    /\ \A p, q \in Threads : \A n \in Nodes : Own(p, n) /\ Own(q, n) => p = q
    /\ \A p \in Threads : \A n \in Nodes : NewOf(p, n) => next[n] = Null

\* n has been linked, and its memory is not given back while a thread has a
\* hazard pointer to it.  It is on the list, or never will be again.
Used(n) == n \in Nodes \ free /\ \A p \in Threads : ~NewOf(p, n)

PushLabels == Before \cup {"push swing"}
PushChecked == {"push next", "push check again", "push help", "push link", "push swing"}

PushKnows(p, s) ==
    /\ pc[p] \in PushLabels => node[p] \in Nodes
    /\ pc[p] \in PushChecked \cup {"push check"} => hazards[p][1] = t[p]
    /\ pc[p] \in PushChecked => Used(t[p])
    /\ pc[p] = "push help" => nxt[p] # Null
    /\ pc[p] \in {"push check again", "push help"} /\ t[p] \in On(s) /\ nxt[p] # Null => next[t[p]] = nxt[p]
    /\ pc[p] = "push swing" /\ t[p] \in On(s) => next[t[p]] = node[p]

PopChecked == {"pop tail", "pop next", "pop guard next", "pop check again", "pop help", "pop read", "pop swing"}

PopKnows(p, s) ==
    /\ pc[p] \in PopChecked \cup {"pop check"} => hazards[p][1] = h[p]
    /\ pc[p] \in PopChecked => Used(h[p]) /\ (h[p] \in On(s) => h[p] = head)
    /\ pc[p] \in {"pop next", "pop guard next", "pop check again"} /\ head = h[p] /\ t[p] # h[p] => tail # head
    /\ pc[p] \in PopChecked \ {"pop tail", "pop next"} /\ head = h[p] =>
          /\ nxt[p] # Null => next[head] = nxt[p]
          /\ nxt[p] = Null => wasEmpty[p]
    /\ pc[p] \in {"pop check again", "pop read"} => hazards[p][2] = nxt[p]
    /\ pc[p] = "pop help" => nxt[p] # Null /\ t[p] = h[p]
    /\ pc[p] \in {"pop read", "pop swing"} => nxt[p] # Null /\ (head = h[p] => tail # head)
    /\ pc[p] = "pop read" => Used(nxt[p])
    /\ pc[p] \in {"pop cut", "pop free"} => h[p] \in Nodes
    /\ pc[p] = "pop empty" => wasEmpty[p]

\* What the values are: for the refinement.
ValueKnown(p) ==
    /\ pc[p] \in Before => value[p] \in Values /\ data[node[p]] = value[p]
    /\ pc[p] = "pop swing" /\ head = h[p] => value[p] = data[nxt[p]]

\* A thread that is the only one to push links its node to the last one.
LinksLast(p, s) ==
    /\ pc[p] = "push check again" /\ t[p] \in On(s) /\ nxt[p] = Null => t[p] = s[Len(s)]
    /\ pc[p] = "push link" => t[p] = s[Len(s)]

OnePusher == \A p, q \in Pushers : p = q

Inv(s) ==
    /\ List(s) /\ Placed(s)
    /\ \A p \in Threads : PushKnows(p, s) /\ PopKnows(p, s) /\ ValueKnown(p)
    /\ OnePusher => \A p \in Threads : LinksLast(p, s)
    /\ \A p \in Threads : pc[p] \in PushLabels => p \in Pushers

IInv == TypeOK /\ \E s \in Seq(Nodes) : Inv(s)

\* It holds until a scan frees a node that a hazard pointer names.
Sound == ~forgot => IInv

-----------------------------------------------------------------------------
(* The list and the operators of the specification that read it.           *)

\* A list is no longer than there are nodes.
LEMMA ListFits ==
    ASSUME NEW s \in Seq(Nodes), List(s)
    PROVE  /\ Len(s) \in 1..Cardinality(Nodes) /\ Cardinality(Nodes) \in Nat
           /\ Len(s) \in Nat /\ Len(s) >= 1
           /\ head = s[1] /\ head \in On(s) /\ s[Len(s)] \in On(s)
<1>1. Len(s) \in Nat /\ Len(s) # 0 /\ \A i \in 1..Len(s) : s[i] \in Nodes
  BY DEF List
<1>2. s \in Injection(1..Len(s), Nodes)
  BY <1>1 DEF List, Injection, IsInjective
<1>3. Cardinality(1..Len(s)) <= Cardinality(Nodes)
  BY <1>2, FS_Injection, QueueAssumption
<1>4. Cardinality(1..Len(s)) = Len(s)
  BY <1>1, FS_Interval
<1>5. Cardinality(Nodes) \in Nat
  BY FS_CardinalityType, QueueAssumption
<1> QED BY <1>1, <1>3, <1>4, <1>5 DEF List, On

\* One step of Chain, as a function of the whole.
Follow(f) == [i \in 0..Cardinality(Nodes) |->
    IF i = 0 THEN head ELSE IF f[i - 1] = Null THEN Null ELSE next[f[i - 1]]]

\* Chain is what its definition says: there is such a function.
LEMMA ChainDefined ==
    ASSUME NEW f, f = Follow(f)
    PROVE  Chain = Follow(Chain)
BY DEF Chain, Follow

\* Chain follows the list to its end.
LEMMA ChainOfList ==
    ASSUME NEW s \in Seq(Nodes), List(s)
    PROVE  \A i \in 0..Cardinality(Nodes) : Chain[i] = IF i < Len(s) THEN s[i + 1] ELSE Null
<1> DEFINE N == Cardinality(Nodes)
           f == [i \in 0..N |-> IF i < Len(s) THEN s[i + 1] ELSE Null]
           wrong == {i \in 0..N : Chain[i] # f[i]}
<1>1. Len(s) \in 1..N /\ N \in Nat /\ head = s[1]
  BY ListFits
<1>2. \A i \in 1..Len(s) : s[i] \in Nodes /\ s[i] # Null
  BY QueueAssumption
<1>3. ASSUME NEW i \in 1..N
      PROVE  f[i] = IF f[i - 1] = Null THEN Null ELSE next[f[i - 1]]
  <2>1. i \in 0..N /\ i - 1 \in 0..N
    BY <1>1
  <2>2. CASE i < Len(s)
    BY <2>1, <2>2, <1>1, <1>2 DEF List
  <2>3. CASE i = Len(s)
    BY <2>1, <2>3, <1>1, <1>2 DEF List
  <2>4. CASE i > Len(s)
    BY <2>1, <2>4, <1>1
  <2> QED BY <2>1, <2>2, <2>3, <2>4, <1>1
<1>4. f = Follow(f)
  <2>1. f[0] = head
    BY <1>1
  <2>2. \A i \in 0..N : f[i] = IF i = 0 THEN head ELSE IF f[i - 1] = Null THEN Null ELSE next[f[i - 1]]
    <3> HIDE DEF f
    <3> QED BY <2>1, <1>3, <1>1
  <2>3. f = [i \in 0..N |-> f[i]]
    OBVIOUS
  <2> HIDE DEF f
  <2> QED BY <2>2, <2>3 DEF Follow
<1>5. Chain = Follow(Chain)
  BY <1>4, ChainDefined
<1>6. ASSUME wrong # {} PROVE FALSE
  <2>1. wrong \subseteq Nat
    BY <1>1
  <2>2. PICK i \in wrong : \A j \in wrong : ~(<<j, i>> \in OpToRel(<, Nat))
    <3> HIDE DEF wrong
    <3> QED BY <1>6, <2>1, NatLessThanWellFounded, WFMin
  <2>3. \A j \in wrong : ~(j < i)
    BY <2>1, <2>2 DEF OpToRel
  <2>4. i \in 0..N /\ Chain[i] # f[i]
    OBVIOUS
  <2>5. CASE i = 0
    BY <2>4, <2>5, <1>1, <1>4, <1>5 DEF Follow
  <2>6. CASE i # 0
    <3>1. i \in 1..N /\ i - 1 \in 0..N /\ i - 1 < i
      BY <2>4, <2>6, <1>1
    <3>2. Chain[i - 1] = f[i - 1]
      BY <3>1, <2>3
    <3>3. Chain[i] = IF Chain[i - 1] = Null THEN Null ELSE next[Chain[i - 1]]
      BY <3>1, <1>5, <1>1 DEF Follow
    <3> HIDE DEF f
    <3> QED BY <3>1, <3>2, <3>3, <1>3, <2>4
  <2> QED BY <2>5, <2>6
<1> QED BY <1>6, <1>1

\* The values on the list, from the second node on.
Held(s) == [i \in 1..Len(s) - 1 |-> data[s[i + 1]]]

\* Contents is those values.
LEMMA ContentsOfList ==
    ASSUME NEW s \in Seq(Nodes), List(s)
    PROVE  Contents = Held(s)
<1> DEFINE N == Cardinality(Nodes)
<1>1. Len(s) \in 1..N /\ N \in Nat
  BY ListFits
<1>2. \A i \in 0..N : Chain[i] = IF i < Len(s) THEN s[i + 1] ELSE Null
  BY ChainOfList
<1>3. \A i \in 1..Len(s) : s[i] # Null
  BY QueueAssumption
<1>4. Linked = 1..Len(s) - 1
  BY <1>1, <1>2, <1>3 DEF Linked
<1>5. Cardinality(1..Len(s) - 1) = Len(s) - 1
  BY <1>1, FS_Interval
<1>6. \A i \in 1..Len(s) - 1 : Chain[i] = s[i + 1]
  BY <1>1, <1>2
<1> QED BY <1>4, <1>5, <1>6 DEF Contents, Held

\* What is on the list, and what follows it there.
LEMMA NextOnList ==
    ASSUME NEW s \in Seq(Nodes), List(s)
    PROVE  /\ On(s) \subseteq Nodes
           /\ \A n \in On(s) : next[n] # Null => next[n] \in On(s) /\ next[n] # head
           /\ \A n \in On(s) : next[n] = Null => n = s[Len(s)]
<1>1. Len(s) \in Nat /\ Len(s) >= 1 /\ s[1] = head /\ next[s[Len(s)]] = Null
  BY ListFits
    DEF List
<1>2. ASSUME NEW i \in 1..Len(s)
      PROVE  /\ s[i] \in Nodes
             /\ next[s[i]] # Null => next[s[i]] \in On(s) /\ next[s[i]] # head
             /\ next[s[i]] = Null => s[i] = s[Len(s)]
  <2>1. CASE i = Len(s)
    BY <2>1, <1>1
  <2>2. CASE i # Len(s)
    <3>1. i \in 1..Len(s) - 1 /\ i + 1 \in 1..Len(s) /\ 1 \in 1..Len(s)
      BY <2>2, <1>1
    <3>2. next[s[i]] = s[i + 1]
      BY <3>1 DEF List
    <3>3. s[i + 1] # s[1]
      BY <3>1, <1>1 DEF List
    <3>4. s[i + 1] \in Nodes /\ s[i + 1] # Null
      BY <3>1, QueueAssumption
    <3> QED BY <3>1, <3>2, <3>3, <3>4, <1>1 DEF On
  <2> QED BY <2>1, <2>2
<1> QED BY <1>2 DEF On

\* The list when a node is linked behind its last one.
LEMMA Appending ==
    ASSUME NEW s \in Seq(Nodes), NEW n \in Nodes
    PROVE  /\ Append(s, n) \in Seq(Nodes) /\ Len(Append(s, n)) = Len(s) + 1
           /\ \A i \in 1..Len(s) : Append(s, n)[i] = s[i]
           /\ Append(s, n)[Len(s) + 1] = n
           /\ On(Append(s, n)) = On(s) \cup {n}
<1> DEFINE new == Append(s, n)
<1>1. new \in Seq(Nodes) /\ Len(new) = Len(s) + 1 /\ Len(s) \in Nat
  OBVIOUS
<1>2. (\A i \in 1..Len(s) : new[i] = s[i]) /\ new[Len(s) + 1] = n
  OBVIOUS
<1> HIDE DEF new
<1>3. On(new) \subseteq On(s) \cup {n}
  <2> SUFFICES ASSUME NEW i \in 1..Len(new) PROVE new[i] \in On(s) \cup {n}
    BY DEF On
  <2>1. i \in 1..Len(s) \/ i = Len(s) + 1
    BY <1>1
  <2> QED BY <2>1, <1>2 DEF On
<1>4. On(s) \cup {n} \subseteq On(new)
  <2>1. n \in On(new)
    BY <1>1, <1>2 DEF On
  <2>2. ASSUME NEW i \in 1..Len(s) PROVE s[i] \in On(new)
    BY <1>1, <1>2 DEF On
  <2> QED BY <2>1, <2>2 DEF On
<1> QED BY <1>1, <1>2, <1>3, <1>4 DEF new

\* The list when its first node is taken off.
LEMMA Removing ==
    ASSUME NEW s \in Seq(Nodes), Len(s) >= 2, \A i, j \in 1..Len(s) : s[i] = s[j] => i = j
    PROVE  /\ Tail(s) \in Seq(Nodes) /\ Len(Tail(s)) = Len(s) - 1
           /\ \A i \in 1..Len(s) - 1 : Tail(s)[i] = s[i + 1]
           /\ On(Tail(s)) = On(s) \ {s[1]}
<1> DEFINE new == Tail(s)
<1>1. Len(s) \in Nat /\ new \in Seq(Nodes) /\ Len(new) = Len(s) - 1
  OBVIOUS
<1>2. \A i \in 1..Len(s) - 1 : new[i] = s[i + 1]
  OBVIOUS
<1> HIDE DEF new
<1>3. ASSUME NEW i \in 1..Len(new) PROVE new[i] \in On(s) \ {s[1]}
  <2>1. i + 1 \in 1..Len(s) /\ i + 1 # 1 /\ 1 \in 1..Len(s) /\ new[i] = s[i + 1]
    BY <1>1, <1>2
  <2> QED BY <2>1 DEF On
<1>4. ASSUME NEW i \in 1..Len(s), s[i] # s[1] PROVE s[i] \in On(new)
  <2>1. i - 1 \in 1..Len(new) /\ i - 1 \in 1..Len(s) - 1 /\ (i - 1) + 1 = i
    BY <1>4, <1>1
  <2> QED BY <2>1, <1>2 DEF On
<1> QED BY <1>1, <1>2, <1>3, <1>4 DEF On, new

-----------------------------------------------------------------------------
(* Steps that only read, or write what is the thread's own.                *)

OthersKeep(p) ==
    \A q \in Threads : q # p =>
        /\ pc'[q] = pc[q] /\ hazards'[q] = hazards[q] /\ h'[q] = h[q] /\ t'[q] = t[q]
        /\ nxt'[q] = nxt[q] /\ node'[q] = node[q] /\ value'[q] = value[q] /\ wasEmpty'[q] = wasEmpty[q]

\* Such a step keeps the invariant if it keeps what is said of its thread.
LEMMA ReadsOnly ==
    ASSUME NEW s \in Seq(Nodes), Inv(s), NEW p \in Threads, OthersKeep(p),
           UNCHANGED <<head, tail, next, data, free, retired>>,
           \A n \in Nodes : (NewOf(p, n)' <=> NewOf(p, n)) /\ (CutOf(p, n)' <=> CutOf(p, n)),
           PushKnows(p, s)', PopKnows(p, s)', ValueKnown(p)',
           OnePusher => LinksLast(p, s)',
           pc'[p] \in PushLabels => p \in Pushers
    PROVE  Inv(s)'
<1>1. \A q \in Threads : \A n \in Nodes : (NewOf(q, n)' <=> NewOf(q, n)) /\ (CutOf(q, n)' <=> CutOf(q, n))
  BY DEF OthersKeep, NewOf, CutOf
<1>2. List(s)'
  BY DEF Inv, List
<1>3. Placed(s)'
  BY <1>1 DEF Inv, Placed, Own
<1>4. \A n : Used(n)' <=> Used(n)
  BY <1>1 DEF Used
<1>5. ASSUME NEW q \in Threads, q # p
      PROVE  /\ PushKnows(q, s)' /\ PopKnows(q, s)' /\ ValueKnown(q)' /\ (OnePusher => LinksLast(q, s)')
             /\ pc'[q] \in PushLabels => q \in Pushers
  <2>1. /\ pc'[q] = pc[q] /\ hazards'[q] = hazards[q] /\ h'[q] = h[q] /\ t'[q] = t[q]
        /\ nxt'[q] = nxt[q] /\ node'[q] = node[q] /\ value'[q] = value[q] /\ wasEmpty'[q] = wasEmpty[q]
    BY <1>5 DEF OthersKeep
  <2>2. /\ PushKnows(q, s) /\ PopKnows(q, s) /\ ValueKnown(q) /\ (OnePusher => LinksLast(q, s))
        /\ pc[q] \in PushLabels => q \in Pushers
    BY DEF Inv
  <2>3. PushKnows(q, s)'
    BY <1>4, <2>1, <2>2 DEF PushKnows
  <2>4. PopKnows(q, s)'
    BY <1>4, <2>1, <2>2, ZenonT(60) DEF PopKnows
  <2>5. ValueKnown(q)'
    BY <2>1, <2>2 DEF ValueKnown
  <2>6. OnePusher => LinksLast(q, s)'
    BY <2>1, <2>2 DEF LinksLast
  <2> QED BY <2>1, <2>2, <2>3, <2>4, <2>5, <2>6
<1> QED BY <1>2, <1>3, <1>5 DEF Inv, OnePusher

\* Pushing: reading the tail, and guarding it.
LEMMA PushTailKeeps ==
    ASSUME NEW s \in Seq(Nodes), TypeOK, Inv(s), NEW p \in Pushers, PushTail(p)
    PROVE  TypeOK' /\ Inv(s)'
<1>1. p \in Threads /\ pc[p] = "push tail" /\ PushKnows(p, s) /\ PopKnows(p, s) /\ ValueKnown(p)
  BY DEF Inv, PushTail, At, Threads
<1>2. UNCHANGED <<head, tail, next, data, free, retired, hazards, h, nxt, node, value, pushes, wasEmpty, forgot>>
  BY DEF PushTail
<1>3. /\ pc' = [pc EXCEPT ![p] = "push guard"]
       /\ t' = [t EXCEPT ![p] = tail]
  BY DEF PushTail, Goto
<1>4. t' \in [Threads -> Nodes \cup {Null}] /\ t'[p] = tail
  <2>1. t \in [Threads -> Nodes \cup {Null}] /\ (tail) \in Nodes \cup {Null}
    BY <1>1 DEF TypeOK
  <2> QED BY <1>1, <1>3, <2>1
<1>5. TypeOK'
  <2>1. pc' \in [Threads -> Labels]
    BY <1>3 DEF TypeOK, Labels
  <2> QED BY <1>2, <1>4, <2>1 DEF TypeOK
<1>6. OthersKeep(p)
  BY <1>2, <1>3 DEF TypeOK, OthersKeep
<1>7. pc'[p] = "push guard"
  BY <1>1, <1>3 DEF TypeOK
<1>8. \A n \in Nodes : (NewOf(p, n)' <=> NewOf(p, n)) /\ (CutOf(p, n)' <=> CutOf(p, n))
  BY <1>1, <1>2, <1>7 DEF NewOf, CutOf, Before
<1>9. \A n : Used(n)' <=> Used(n)
  BY <1>2, <1>6, <1>8, <1>1 DEF Used, OthersKeep, NewOf
<1>10. PushKnows(p, s)' /\ LinksLast(p, s)'
  BY <1>1, <1>2, <1>4, <1>7, <1>9 DEF PushKnows, LinksLast, Before, PushLabels, PushChecked
<1>11. PopKnows(p, s)'
  BY <1>1, <1>2, <1>4, <1>7, <1>9 DEF PopKnows, PopChecked
<1>12. ValueKnown(p)'
  BY <1>1, <1>2, <1>4, <1>7 DEF ValueKnown, Before
<1> QED BY <1>1, <1>2, <1>5, <1>6, <1>7, <1>8, <1>10, <1>11, <1>12, ReadsOnly

LEMMA PushGuardKeeps ==
    ASSUME NEW s \in Seq(Nodes), TypeOK, Inv(s), NEW p \in Pushers, PushGuard(p)
    PROVE  TypeOK' /\ Inv(s)'
<1>1. p \in Threads /\ pc[p] = "push guard" /\ PushKnows(p, s) /\ PopKnows(p, s) /\ ValueKnown(p)
  BY DEF Inv, PushGuard, At, Threads
<1>2. UNCHANGED <<head, tail, next, data, free, retired, h, t, nxt, node, value, pushes, wasEmpty, forgot>>
  BY DEF PushGuard
<1>3. /\ pc' = [pc EXCEPT ![p] = "push check"]
       /\ hazards' = [hazards EXCEPT ![p][1] = t[p]]
  BY DEF PushGuard, Goto
<1>4. /\ hazards' \in [Threads -> [1..2 -> Nodes \cup {Null}]] /\ hazards'[p][1] = t[p]
      /\ \A q \in Threads : q # p => hazards'[q] = hazards[q]
  <2>1. /\ t[p] \in Nodes \cup {Null}
        /\ hazards \in [Threads -> [1..2 -> Nodes \cup {Null}]]
    BY <1>1 DEF TypeOK
  <2>2. hazards' = [hazards EXCEPT ![p] = [hazards[p] EXCEPT ![1] = t[p]]]
    BY <1>3
  <2>3. p \in Threads
    BY <1>1
  <2> QED BY <2>1, <2>2, <2>3
<1>5. TypeOK'
  <2>1. pc' \in [Threads -> Labels]
    BY <1>3 DEF TypeOK, Labels
  <2> QED BY <1>2, <1>4, <2>1 DEF TypeOK
<1>6. OthersKeep(p)
  BY <1>2, <1>3, <1>4 DEF TypeOK, OthersKeep
<1>7. pc'[p] = "push check"
  BY <1>1, <1>3 DEF TypeOK
<1>8. \A n \in Nodes : (NewOf(p, n)' <=> NewOf(p, n)) /\ (CutOf(p, n)' <=> CutOf(p, n))
  BY <1>1, <1>2, <1>7 DEF NewOf, CutOf, Before
<1>9. \A n : Used(n)' <=> Used(n)
  BY <1>2, <1>6, <1>8, <1>1 DEF Used, OthersKeep, NewOf
<1>10. PushKnows(p, s)' /\ LinksLast(p, s)'
  BY <1>1, <1>2, <1>4, <1>7, <1>9 DEF PushKnows, LinksLast, Before, PushLabels, PushChecked
<1>11. PopKnows(p, s)'
  BY <1>1, <1>2, <1>4, <1>7, <1>9 DEF PopKnows, PopChecked
<1>12. ValueKnown(p)'
  BY <1>1, <1>2, <1>4, <1>7 DEF ValueKnown, Before
<1> QED BY <1>1, <1>2, <1>5, <1>6, <1>7, <1>8, <1>10, <1>11, <1>12, ReadsOnly

\* The tail is on the list: what was guarded is too, if it is still the tail.
LEMMA PushCheckKeeps ==
    ASSUME NEW s \in Seq(Nodes), TypeOK, Inv(s), NEW p \in Pushers, PushCheck(p)
    PROVE  TypeOK' /\ Inv(s)'
<1>1. p \in Threads /\ pc[p] = "push check" /\ PushKnows(p, s) /\ PopKnows(p, s) /\ ValueKnown(p)
  BY DEF Inv, PushCheck, At, Threads
<1>2. UNCHANGED <<head, tail, next, data, free, retired, hazards, h, t, nxt, node, value, pushes, wasEmpty, forgot>>
  BY DEF PushCheck
<1>3. pc' = [pc EXCEPT ![p] = IF tail = t[p] THEN "push next" ELSE "push tail"]
  BY DEF PushCheck, Goto
<1>4. TypeOK'
  <2>1. pc' \in [Threads -> Labels]
    BY <1>3 DEF TypeOK, Labels
  <2> QED BY <1>2, <2>1 DEF TypeOK
<1>5. OthersKeep(p)
  BY <1>2, <1>3 DEF TypeOK, OthersKeep
<1>6. pc'[p] \in {"push next", "push tail"} /\ (pc'[p] = "push next" => tail = t[p])
  BY <1>1, <1>3 DEF TypeOK
<1>7. \A n \in Nodes : (NewOf(p, n)' <=> NewOf(p, n)) /\ (CutOf(p, n)' <=> CutOf(p, n))
  BY <1>1, <1>2, <1>6 DEF NewOf, CutOf, Before
<1>8. \A n : Used(n)' <=> Used(n)
  BY <1>2, <1>5, <1>7, <1>1 DEF Used, OthersKeep, NewOf
<1>9. Used(tail)
  BY DEF Inv, List, Placed, Own, Used, TypeOK
<1>10. PushKnows(p, s)' /\ LinksLast(p, s)'
  BY <1>1, <1>2, <1>6, <1>8, <1>9 DEF PushKnows, LinksLast, Before, PushLabels, PushChecked
<1>11. PopKnows(p, s)'
  BY <1>1, <1>2, <1>6, <1>8, <1>9 DEF PopKnows, PopChecked
<1>12. ValueKnown(p)'
  BY <1>1, <1>2, <1>6, <1>9 DEF ValueKnown, Before
<1> QED BY <1>1, <1>2, <1>4, <1>5, <1>6, <1>7, <1>10, <1>11, <1>12, ReadsOnly

\* The next of the tail does not change while it is on the list, once it is there.
LEMMA PushNextKeeps ==
    ASSUME NEW s \in Seq(Nodes), TypeOK, Inv(s), NEW p \in Pushers, PushNext(p)
    PROVE  TypeOK' /\ Inv(s)'
<1>1. p \in Threads /\ pc[p] = "push next" /\ PushKnows(p, s) /\ PopKnows(p, s) /\ ValueKnown(p)
  BY DEF Inv, PushNext, At, Threads
<1>2. UNCHANGED <<head, tail, next, data, free, retired, hazards, h, t, node, value, pushes, wasEmpty, forgot>>
  BY DEF PushNext
<1>3. /\ pc' = [pc EXCEPT ![p] = "push check again"]
       /\ nxt' = [nxt EXCEPT ![p] = next[t[p]]]
  BY DEF PushNext, Goto
<1>4. nxt' \in [Threads -> Nodes \cup {Null}] /\ nxt'[p] = next[t[p]]
  <2>1. nxt \in [Threads -> Nodes \cup {Null}] /\ (next[t[p]]) \in Nodes \cup {Null}
    BY <1>1 DEF TypeOK, PushKnows, PushChecked, Used
  <2> QED BY <1>1, <1>3, <2>1
<1>5. TypeOK'
  <2>1. pc' \in [Threads -> Labels]
    BY <1>3 DEF TypeOK, Labels
  <2> QED BY <1>2, <1>4, <2>1 DEF TypeOK
<1>6. OthersKeep(p)
  BY <1>2, <1>3 DEF TypeOK, OthersKeep
<1>7. pc'[p] = "push check again"
  BY <1>1, <1>3 DEF TypeOK
<1>8. \A n \in Nodes : (NewOf(p, n)' <=> NewOf(p, n)) /\ (CutOf(p, n)' <=> CutOf(p, n))
  BY <1>1, <1>2, <1>7 DEF NewOf, CutOf, Before
<1>9. \A n : Used(n)' <=> Used(n)
  BY <1>2, <1>6, <1>8, <1>1 DEF Used, OthersKeep, NewOf
<1>10. t[p] \in On(s) /\ next[t[p]] = Null => t[p] = s[Len(s)]
  BY NextOnList DEF Inv
<1>11. PushKnows(p, s)' /\ LinksLast(p, s)'
  BY <1>1, <1>2, <1>4, <1>7, <1>9, <1>10 DEF PushKnows, LinksLast, Before, PushLabels, PushChecked
<1>12. PopKnows(p, s)'
  BY <1>1, <1>2, <1>4, <1>7, <1>9, <1>10 DEF PopKnows, PopChecked
<1>13. ValueKnown(p)'
  BY <1>1, <1>2, <1>4, <1>7, <1>10 DEF ValueKnown, Before
<1> QED BY <1>1, <1>2, <1>5, <1>6, <1>7, <1>8, <1>11, <1>12, <1>13, ReadsOnly

LEMMA PushCheckAgainKeeps ==
    ASSUME NEW s \in Seq(Nodes), TypeOK, Inv(s), NEW p \in Pushers, PushCheckAgain(p)
    PROVE  TypeOK' /\ Inv(s)'
<1>1. p \in Threads /\ pc[p] = "push check again" /\ PushKnows(p, s) /\ PopKnows(p, s) /\ ValueKnown(p)
  BY DEF Inv, PushCheckAgain, At, Threads
<1>2. UNCHANGED <<head, tail, next, data, free, retired, hazards, h, t, nxt, node, value, pushes, wasEmpty, forgot>>
  BY DEF PushCheckAgain
<1>3. pc' = [pc EXCEPT ![p] = IF tail # t[p] THEN "push tail" ELSE IF nxt[p] # Null THEN "push help" ELSE "push link"]
  BY DEF PushCheckAgain, Goto
<1>4. TypeOK'
  <2>1. pc' \in [Threads -> Labels]
    BY <1>3 DEF TypeOK, Labels
  <2> QED BY <1>2, <2>1 DEF TypeOK
<1>5. OthersKeep(p)
  BY <1>2, <1>3 DEF TypeOK, OthersKeep
<1>6. /\ pc'[p] \in {"push tail", "push help", "push link"}
      /\ pc'[p] = "push help" => nxt[p] # Null
      /\ pc'[p] = "push link" => tail = t[p] /\ nxt[p] = Null
  BY <1>1, <1>3 DEF TypeOK
<1>7. \A n \in Nodes : (NewOf(p, n)' <=> NewOf(p, n)) /\ (CutOf(p, n)' <=> CutOf(p, n))
  BY <1>1, <1>2, <1>6 DEF NewOf, CutOf, Before
<1>8. \A n : Used(n)' <=> Used(n)
  BY <1>2, <1>5, <1>7, <1>1 DEF Used, OthersKeep, NewOf
<1>9. (OnePusher => LinksLast(p, s)) /\ tail \in On(s)
  BY <1>1 DEF Inv, List
<1>10. PushKnows(p, s)' /\ (OnePusher => LinksLast(p, s)')
  BY <1>1, <1>2, <1>6, <1>8, <1>9 DEF PushKnows, LinksLast, Before, PushLabels, PushChecked
<1>11. PopKnows(p, s)'
  BY <1>1, <1>2, <1>6, <1>8, <1>9 DEF PopKnows, PopChecked
<1>12. ValueKnown(p)'
  BY <1>1, <1>2, <1>6, <1>9 DEF ValueKnown, Before
<1> QED BY <1>1, <1>2, <1>4, <1>5, <1>6, <1>7, <1>10, <1>11, <1>12, ReadsOnly

\* Popping: reading the head, and guarding it.
LEMMA PopHeadKeeps ==
    ASSUME NEW s \in Seq(Nodes), TypeOK, Inv(s), NEW p \in Poppers, PopHead(p)
    PROVE  TypeOK' /\ Inv(s)'
<1>1. p \in Threads /\ pc[p] = "pop head" /\ PushKnows(p, s) /\ PopKnows(p, s) /\ ValueKnown(p)
  BY DEF Inv, PopHead, At, Threads
<1>2. UNCHANGED <<head, tail, next, data, free, retired, hazards, t, nxt, node, value, pushes, wasEmpty, forgot>>
  BY DEF PopHead
<1>3. /\ pc' = [pc EXCEPT ![p] = "pop guard"]
       /\ h' = [h EXCEPT ![p] = head]
  BY DEF PopHead, Goto
<1>4. h' \in [Threads -> Nodes \cup {Null}] /\ h'[p] = head
  <2>1. h \in [Threads -> Nodes \cup {Null}] /\ (head) \in Nodes \cup {Null}
    BY <1>1 DEF TypeOK
  <2> QED BY <1>1, <1>3, <2>1
<1>5. TypeOK'
  <2>1. pc' \in [Threads -> Labels]
    BY <1>3 DEF TypeOK, Labels
  <2> QED BY <1>2, <1>4, <2>1 DEF TypeOK
<1>6. OthersKeep(p)
  BY <1>2, <1>3 DEF TypeOK, OthersKeep
<1>7. pc'[p] = "pop guard"
  BY <1>1, <1>3 DEF TypeOK
<1>8. \A n \in Nodes : (NewOf(p, n)' <=> NewOf(p, n)) /\ (CutOf(p, n)' <=> CutOf(p, n))
  BY <1>1, <1>2, <1>7 DEF NewOf, CutOf, Before
<1>9. \A n : Used(n)' <=> Used(n)
  BY <1>2, <1>6, <1>8, <1>1 DEF Used, OthersKeep, NewOf
<1>10. PushKnows(p, s)' /\ LinksLast(p, s)'
  BY <1>1, <1>2, <1>4, <1>7, <1>9 DEF PushKnows, LinksLast, Before, PushLabels, PushChecked
<1>11. PopKnows(p, s)'
  BY <1>1, <1>2, <1>4, <1>7, <1>9 DEF PopKnows, PopChecked
<1>12. ValueKnown(p)'
  BY <1>1, <1>2, <1>4, <1>7 DEF ValueKnown, Before
<1> QED BY <1>1, <1>2, <1>5, <1>6, <1>7, <1>8, <1>10, <1>11, <1>12, ReadsOnly DEF PushLabels, Before

LEMMA PopGuardKeeps ==
    ASSUME NEW s \in Seq(Nodes), TypeOK, Inv(s), NEW p \in Poppers, PopGuard(p)
    PROVE  TypeOK' /\ Inv(s)'
<1>1. p \in Threads /\ pc[p] = "pop guard" /\ PushKnows(p, s) /\ PopKnows(p, s) /\ ValueKnown(p)
  BY DEF Inv, PopGuard, At, Threads
<1>2. UNCHANGED <<head, tail, next, data, free, retired, h, t, nxt, node, value, pushes, wasEmpty, forgot>>
  BY DEF PopGuard
<1>3. /\ pc' = [pc EXCEPT ![p] = "pop check"]
       /\ hazards' = [hazards EXCEPT ![p][1] = h[p]]
  BY DEF PopGuard, Goto
<1>4. /\ hazards' \in [Threads -> [1..2 -> Nodes \cup {Null}]] /\ hazards'[p][1] = h[p]
      /\ \A q \in Threads : q # p => hazards'[q] = hazards[q]
  <2>1. /\ h[p] \in Nodes \cup {Null}
        /\ hazards \in [Threads -> [1..2 -> Nodes \cup {Null}]]
    BY <1>1 DEF TypeOK
  <2>2. hazards' = [hazards EXCEPT ![p] = [hazards[p] EXCEPT ![1] = h[p]]]
    BY <1>3
  <2>3. p \in Threads
    BY <1>1
  <2> QED BY <2>1, <2>2, <2>3
<1>5. TypeOK'
  <2>1. pc' \in [Threads -> Labels]
    BY <1>3 DEF TypeOK, Labels
  <2> QED BY <1>2, <1>4, <2>1 DEF TypeOK
<1>6. OthersKeep(p)
  BY <1>2, <1>3, <1>4 DEF TypeOK, OthersKeep
<1>7. pc'[p] = "pop check"
  BY <1>1, <1>3 DEF TypeOK
<1>8. \A n \in Nodes : (NewOf(p, n)' <=> NewOf(p, n)) /\ (CutOf(p, n)' <=> CutOf(p, n))
  BY <1>1, <1>2, <1>7 DEF NewOf, CutOf, Before
<1>9. \A n : Used(n)' <=> Used(n)
  BY <1>2, <1>6, <1>8, <1>1 DEF Used, OthersKeep, NewOf
<1>10. PushKnows(p, s)' /\ LinksLast(p, s)'
  BY <1>1, <1>2, <1>4, <1>7, <1>9 DEF PushKnows, LinksLast, Before, PushLabels, PushChecked
<1>11. PopKnows(p, s)'
  BY <1>1, <1>2, <1>4, <1>7, <1>9 DEF PopKnows, PopChecked
<1>12. ValueKnown(p)'
  BY <1>1, <1>2, <1>4, <1>7 DEF ValueKnown, Before
<1> QED BY <1>1, <1>2, <1>5, <1>6, <1>7, <1>8, <1>10, <1>11, <1>12, ReadsOnly DEF PushLabels, Before

LEMMA PopCheckKeeps ==
    ASSUME NEW s \in Seq(Nodes), TypeOK, Inv(s), NEW p \in Poppers, PopCheck(p)
    PROVE  TypeOK' /\ Inv(s)'
<1>1. p \in Threads /\ pc[p] = "pop check" /\ PushKnows(p, s) /\ PopKnows(p, s) /\ ValueKnown(p)
  BY DEF Inv, PopCheck, At, Threads
<1>2. UNCHANGED <<head, tail, next, data, free, retired, hazards, h, t, nxt, node, value, pushes, wasEmpty, forgot>>
  BY DEF PopCheck
<1>3. pc' = [pc EXCEPT ![p] = IF head = h[p] THEN "pop tail" ELSE "pop head"]
  BY DEF PopCheck, Goto
<1>4. TypeOK'
  <2>1. pc' \in [Threads -> Labels]
    BY <1>3 DEF TypeOK, Labels
  <2> QED BY <1>2, <2>1 DEF TypeOK
<1>5. OthersKeep(p)
  BY <1>2, <1>3 DEF TypeOK, OthersKeep
<1>6. pc'[p] \in {"pop tail", "pop head"} /\ (pc'[p] = "pop tail" => head = h[p])
  BY <1>1, <1>3 DEF TypeOK
<1>7. \A n \in Nodes : (NewOf(p, n)' <=> NewOf(p, n)) /\ (CutOf(p, n)' <=> CutOf(p, n))
  BY <1>1, <1>2, <1>6 DEF NewOf, CutOf, Before
<1>8. \A n : Used(n)' <=> Used(n)
  BY <1>2, <1>5, <1>7, <1>1 DEF Used, OthersKeep, NewOf
<1>9. Used(head) /\ head \in On(s)
  BY ListFits DEF Inv, Placed, Own, Used, TypeOK
<1>10. PushKnows(p, s)' /\ LinksLast(p, s)'
  BY <1>1, <1>2, <1>6, <1>8, <1>9 DEF PushKnows, LinksLast, Before, PushLabels, PushChecked
<1>11. PopKnows(p, s)'
  BY <1>1, <1>2, <1>6, <1>8, <1>9 DEF PopKnows, PopChecked
<1>12. ValueKnown(p)'
  BY <1>1, <1>2, <1>6, <1>9 DEF ValueKnown, Before
<1> QED BY <1>1, <1>2, <1>4, <1>5, <1>6, <1>7, <1>10, <1>11, <1>12, ReadsOnly DEF PushLabels, Before

LEMMA PopTailKeeps ==
    ASSUME NEW s \in Seq(Nodes), TypeOK, Inv(s), NEW p \in Poppers, PopTail(p)
    PROVE  TypeOK' /\ Inv(s)'
<1>1. p \in Threads /\ pc[p] = "pop tail" /\ PushKnows(p, s) /\ PopKnows(p, s) /\ ValueKnown(p)
  BY DEF Inv, PopTail, At, Threads
<1>2. UNCHANGED <<head, tail, next, data, free, retired, hazards, h, nxt, node, value, pushes, wasEmpty, forgot>>
  BY DEF PopTail
<1>3. /\ pc' = [pc EXCEPT ![p] = "pop next"]
       /\ t' = [t EXCEPT ![p] = tail]
  BY DEF PopTail, Goto
<1>4. t' \in [Threads -> Nodes \cup {Null}] /\ t'[p] = tail
  <2>1. t \in [Threads -> Nodes \cup {Null}] /\ (tail) \in Nodes \cup {Null}
    BY <1>1 DEF TypeOK
  <2> QED BY <1>1, <1>3, <2>1
<1>5. TypeOK'
  <2>1. pc' \in [Threads -> Labels]
    BY <1>3 DEF TypeOK, Labels
  <2> QED BY <1>2, <1>4, <2>1 DEF TypeOK
<1>6. OthersKeep(p)
  BY <1>2, <1>3 DEF TypeOK, OthersKeep
<1>7. pc'[p] = "pop next"
  BY <1>1, <1>3 DEF TypeOK
<1>8. \A n \in Nodes : (NewOf(p, n)' <=> NewOf(p, n)) /\ (CutOf(p, n)' <=> CutOf(p, n))
  BY <1>1, <1>2, <1>7 DEF NewOf, CutOf, Before
<1>9. \A n : Used(n)' <=> Used(n)
  BY <1>2, <1>6, <1>8, <1>1 DEF Used, OthersKeep, NewOf
<1>10. PushKnows(p, s)' /\ LinksLast(p, s)'
  BY <1>1, <1>2, <1>4, <1>7, <1>9 DEF PushKnows, LinksLast, Before, PushLabels, PushChecked
<1>11. PopKnows(p, s)'
  BY <1>1, <1>2, <1>4, <1>7, <1>9 DEF PopKnows, PopChecked
<1>12. ValueKnown(p)'
  BY <1>1, <1>2, <1>4, <1>7 DEF ValueKnown, Before
<1> QED BY <1>1, <1>2, <1>5, <1>6, <1>7, <1>8, <1>10, <1>11, <1>12, ReadsOnly DEF PushLabels, Before

LEMMA PopGuardNextKeeps ==
    ASSUME NEW s \in Seq(Nodes), TypeOK, Inv(s), NEW p \in Poppers, PopGuardNext(p)
    PROVE  TypeOK' /\ Inv(s)'
<1>1. p \in Threads /\ pc[p] = "pop guard next" /\ PushKnows(p, s) /\ PopKnows(p, s) /\ ValueKnown(p)
  BY DEF Inv, PopGuardNext, At, Threads
<1>2. UNCHANGED <<head, tail, next, data, free, retired, h, t, nxt, node, value, pushes, wasEmpty, forgot>>
  BY DEF PopGuardNext
<1>3. /\ pc' = [pc EXCEPT ![p] = "pop check again"]
       /\ hazards' = [hazards EXCEPT ![p][2] = nxt[p]]
  BY DEF PopGuardNext, Goto
<1>4. /\ hazards' \in [Threads -> [1..2 -> Nodes \cup {Null}]] /\ hazards'[p][2] = nxt[p] /\ hazards'[p][1] = hazards[p][1]
      /\ \A q \in Threads : q # p => hazards'[q] = hazards[q]
  <2>1. /\ nxt[p] \in Nodes \cup {Null}
        /\ hazards \in [Threads -> [1..2 -> Nodes \cup {Null}]]
    BY <1>1 DEF TypeOK
  <2>2. hazards' = [hazards EXCEPT ![p] = [hazards[p] EXCEPT ![2] = nxt[p]]]
    BY <1>3
  <2>3. p \in Threads
    BY <1>1
  <2> QED BY <2>1, <2>2, <2>3
<1>5. TypeOK'
  <2>1. pc' \in [Threads -> Labels]
    BY <1>3 DEF TypeOK, Labels
  <2> QED BY <1>2, <1>4, <2>1 DEF TypeOK
<1>6. OthersKeep(p)
  BY <1>2, <1>3, <1>4 DEF TypeOK, OthersKeep
<1>7. pc'[p] = "pop check again"
  BY <1>1, <1>3 DEF TypeOK
<1>8. \A n \in Nodes : (NewOf(p, n)' <=> NewOf(p, n)) /\ (CutOf(p, n)' <=> CutOf(p, n))
  BY <1>1, <1>2, <1>7 DEF NewOf, CutOf, Before
<1>9. \A n : Used(n)' <=> Used(n)
  BY <1>2, <1>6, <1>8, <1>1 DEF Used, OthersKeep, NewOf
<1>10. PushKnows(p, s)' /\ LinksLast(p, s)'
  BY <1>1, <1>2, <1>4, <1>7, <1>9 DEF PushKnows, LinksLast, Before, PushLabels, PushChecked
<1>11. PopKnows(p, s)'
  BY <1>1, <1>2, <1>4, <1>7, <1>9 DEF PopKnows, PopChecked
<1>12. ValueKnown(p)'
  BY <1>1, <1>2, <1>4, <1>7 DEF ValueKnown, Before
<1> QED BY <1>1, <1>2, <1>5, <1>6, <1>7, <1>8, <1>10, <1>11, <1>12, ReadsOnly DEF PushLabels, Before

\* Null is the end of the list: it was empty.  A next that is there is on the list.
LEMMA PopCheckAgainKeeps ==
    ASSUME NEW s \in Seq(Nodes), TypeOK, Inv(s), NEW p \in Poppers, PopCheckAgain(p)
    PROVE  TypeOK' /\ Inv(s)'
<1>1. p \in Threads /\ pc[p] = "pop check again" /\ PushKnows(p, s) /\ PopKnows(p, s) /\ ValueKnown(p)
  BY DEF Inv, PopCheckAgain, At, Threads
<1>2. UNCHANGED <<head, tail, next, data, free, retired, hazards, h, t, nxt, node, value, pushes, wasEmpty, forgot>>
  BY DEF PopCheckAgain
<1>3. pc' = [pc EXCEPT ![p] = IF head # h[p] THEN "pop head"
                                 ELSE IF nxt[p] = Null THEN "pop empty"
                                 ELSE IF h[p] = t[p] THEN "pop help" ELSE "pop read"]
  BY DEF PopCheckAgain, Goto
<1>4. TypeOK'
  <2>1. pc' \in [Threads -> Labels]
    BY <1>3 DEF TypeOK, Labels
  <2> QED BY <1>2, <2>1 DEF TypeOK
<1>5. OthersKeep(p)
  BY <1>2, <1>3 DEF TypeOK, OthersKeep
<1>6. /\ pc'[p] \in {"pop head", "pop empty", "pop help", "pop read"}
      /\ pc'[p] # "pop head" => head = h[p]
      /\ pc'[p] = "pop empty" => nxt[p] = Null
      /\ pc'[p] \in {"pop help", "pop read"} => nxt[p] # Null
      /\ pc'[p] = "pop help" => t[p] = h[p]
      /\ pc'[p] = "pop read" => t[p] # h[p]
  BY <1>1, <1>3 DEF TypeOK
<1>7. \A n \in Nodes : (NewOf(p, n)' <=> NewOf(p, n)) /\ (CutOf(p, n)' <=> CutOf(p, n))
  BY <1>1, <1>2, <1>6 DEF NewOf, CutOf, Before
<1>8. \A n : Used(n)' <=> Used(n)
  BY <1>2, <1>5, <1>7, <1>1 DEF Used, OthersKeep, NewOf
<1>9. nxt[p] # Null /\ next[head] = nxt[p] => Used(nxt[p])
  BY ListFits, NextOnList DEF Inv, Placed, Own, Used, TypeOK
<1>10. PushKnows(p, s)' /\ LinksLast(p, s)'
  BY <1>1, <1>2, <1>6, <1>8, <1>9 DEF PushKnows, LinksLast, Before, PushLabels, PushChecked
<1>11. PopKnows(p, s)'
  BY <1>1, <1>2, <1>6, <1>8, <1>9 DEF PopKnows, PopChecked
<1>12. ValueKnown(p)'
  BY <1>1, <1>2, <1>6, <1>9 DEF ValueKnown, Before
<1> QED BY <1>1, <1>2, <1>4, <1>5, <1>6, <1>7, <1>10, <1>11, <1>12, ReadsOnly DEF PushLabels, Before

\* The node that is read is guarded, and its value is that of the first after the head.
LEMMA PopReadKeeps ==
    ASSUME NEW s \in Seq(Nodes), TypeOK, Inv(s), NEW p \in Poppers, PopRead(p)
    PROVE  TypeOK' /\ Inv(s)'
<1>1. p \in Threads /\ pc[p] = "pop read" /\ PushKnows(p, s) /\ PopKnows(p, s) /\ ValueKnown(p)
  BY DEF Inv, PopRead, At, Threads
<1>2. UNCHANGED <<head, tail, next, data, free, retired, hazards, h, t, nxt, node, pushes, wasEmpty, forgot>>
  BY DEF PopRead
<1>3. /\ pc' = [pc EXCEPT ![p] = "pop swing"]
       /\ value' = [value EXCEPT ![p] = data[nxt[p]]]
  BY DEF PopRead, Goto
<1>4. value' \in [Threads -> Values \cup {Nothing}] /\ value'[p] = data[nxt[p]]
  <2>1. value \in [Threads -> Values \cup {Nothing}] /\ (data[nxt[p]]) \in Values \cup {Nothing}
    BY <1>1 DEF TypeOK, PopKnows, Used
  <2> QED BY <1>1, <1>3, <2>1
<1>5. TypeOK'
  <2>1. pc' \in [Threads -> Labels]
    BY <1>3 DEF TypeOK, Labels
  <2> QED BY <1>2, <1>4, <2>1 DEF TypeOK
<1>6. OthersKeep(p)
  BY <1>2, <1>3 DEF TypeOK, OthersKeep
<1>7. pc'[p] = "pop swing"
  BY <1>1, <1>3 DEF TypeOK
<1>8. \A n \in Nodes : (NewOf(p, n)' <=> NewOf(p, n)) /\ (CutOf(p, n)' <=> CutOf(p, n))
  BY <1>1, <1>2, <1>7 DEF NewOf, CutOf, Before
<1>9. \A n : Used(n)' <=> Used(n)
  BY <1>2, <1>6, <1>8, <1>1 DEF Used, OthersKeep, NewOf
<1>10. PushKnows(p, s)' /\ LinksLast(p, s)'
  BY <1>1, <1>2, <1>4, <1>7, <1>9 DEF PushKnows, LinksLast, Before, PushLabels, PushChecked
<1>11. PopKnows(p, s)'
  BY <1>1, <1>2, <1>4, <1>7, <1>9 DEF PopKnows, PopChecked
<1>12. ValueKnown(p)'
  BY <1>1, <1>2, <1>4, <1>7 DEF ValueKnown, Before
<1> QED BY <1>1, <1>2, <1>5, <1>6, <1>7, <1>8, <1>10, <1>11, <1>12, ReadsOnly DEF PushLabels, Before

LEMMA PopBeginKeeps ==
    ASSUME NEW s \in Seq(Nodes), TypeOK, Inv(s), NEW p \in Poppers, PopBegin(p)
    PROVE  TypeOK' /\ Inv(s)'
<1>1. p \in Threads /\ pc[p] = "idle"
  BY DEF PopBegin, At, Threads
<1>2. UNCHANGED <<head, tail, next, data, free, retired, hazards, h, t, nxt, node, value, pushes, forgot>>
  BY DEF PopBegin
<1>3. pc' = [pc EXCEPT ![p] = "pop head"] /\ wasEmpty' = [wasEmpty EXCEPT ![p] = FALSE]
  BY DEF PopBegin, Goto
<1>4. TypeOK'
  <2>1. pc' \in [Threads -> Labels]
    BY <1>3 DEF TypeOK, Labels
  <2>2. wasEmpty' \in [Threads -> BOOLEAN]
    BY <1>3 DEF TypeOK
  <2> QED BY <1>2, <2>1, <2>2 DEF TypeOK
<1>5. OthersKeep(p)
  BY <1>2, <1>3 DEF TypeOK, OthersKeep
<1>6. pc'[p] = "pop head"
  BY <1>1, <1>3 DEF TypeOK
<1>7. \A n \in Nodes : (NewOf(p, n)' <=> NewOf(p, n)) /\ (CutOf(p, n)' <=> CutOf(p, n))
  BY <1>1, <1>6 DEF NewOf, CutOf, Before
<1>8. PushKnows(p, s)' /\ LinksLast(p, s)' /\ pc'[p] \notin PushLabels
  BY <1>6 DEF PushKnows, LinksLast, Before, PushLabels, PushChecked
<1>9. PopKnows(p, s)' /\ ValueKnown(p)'
  BY <1>6 DEF PopKnows, PopChecked, ValueKnown, Before
<1> QED BY <1>1, <1>2, <1>4, <1>5, <1>7, <1>8, <1>9, ReadsOnly

\* If the node after the head is Null, the queue is empty at this moment.
LEMMA PopNextKeeps ==
    ASSUME NEW s \in Seq(Nodes), TypeOK, Inv(s), NEW p \in Poppers, PopNext(p)
    PROVE  TypeOK' /\ Inv(s)'
<1>1. p \in Threads /\ pc[p] = "pop next" /\ PushKnows(p, s) /\ PopKnows(p, s) /\ ValueKnown(p)
  BY DEF Inv, PopNext, At, Threads
<1>2. UNCHANGED <<head, tail, next, data, free, retired, hazards, h, t, node, value, pushes, forgot>>
  BY DEF PopNext
<1>3. /\ pc' = [pc EXCEPT ![p] = "pop guard next"] /\ nxt' = [nxt EXCEPT ![p] = next[h[p]]]
      /\ wasEmpty' = [wasEmpty EXCEPT ![p] = wasEmpty[p] \/ Contents = <<>>]
  BY DEF PopNext, Goto
<1>4. nxt' \in [Threads -> Nodes \cup {Null}] /\ nxt'[p] = next[h[p]]
  <2>1. nxt \in [Threads -> Nodes \cup {Null}] /\ next[h[p]] \in Nodes \cup {Null}
    BY <1>1 DEF TypeOK, PopKnows, PopChecked, Used
  <2>2. nxt' = [nxt EXCEPT ![p] = next[h[p]]]
    BY <1>3
  <2> QED BY <1>1, <2>1, <2>2
<1>5. wasEmpty' \in [Threads -> BOOLEAN] /\ (wasEmpty'[p] <=> wasEmpty[p] \/ Contents = <<>>)
  <2>1. wasEmpty \in [Threads -> BOOLEAN] /\ (wasEmpty[p] \/ Contents = <<>>) \in BOOLEAN
    BY <1>1 DEF TypeOK
  <2>2. wasEmpty' = [wasEmpty EXCEPT ![p] = wasEmpty[p] \/ Contents = <<>>]
    BY <1>3
  <2> QED BY <1>1, <2>1, <2>2
<1>6. TypeOK'
  <2>1. pc' \in [Threads -> Labels]
    BY <1>3 DEF TypeOK, Labels
  <2> QED BY <1>2, <1>4, <1>5, <2>1 DEF TypeOK
<1>7. OthersKeep(p)
  <2>1. pc \in [Threads -> Labels] /\ nxt \in [Threads -> Nodes \cup {Null}] /\ wasEmpty \in [Threads -> BOOLEAN]
    BY DEF TypeOK
  <2> QED BY <1>2, <1>3, <2>1 DEF OthersKeep
<1>8. pc'[p] = "pop guard next"
  BY <1>1, <1>3 DEF TypeOK
<1>9. \A n \in Nodes : (NewOf(p, n)' <=> NewOf(p, n)) /\ (CutOf(p, n)' <=> CutOf(p, n))
  BY <1>1, <1>2, <1>8 DEF NewOf, CutOf, Before
<1>10. \A n : Used(n)' <=> Used(n)
  BY <1>1, <1>2, <1>7, <1>9 DEF Used, OthersKeep, NewOf
<1>11. ASSUME head = h[p], next[h[p]] = Null PROVE wasEmpty'[p]
  <2>1. head \in On(s) /\ List(s)
    BY ListFits DEF Inv
  <2>2. head = s[Len(s)]
    BY <1>11, <2>1, NextOnList
  <2>3. Len(s) \in Nat /\ Len(s) >= 1 /\ s[1] = s[Len(s)]
    BY <2>1, <2>2, ListFits
  <2>4. Len(s) = 1
    <3>1. \A i, j \in 1..Len(s) : s[i] = s[j] => i = j
      BY <2>1 DEF List
    <3>2. 1 \in 1..Len(s) /\ Len(s) \in 1..Len(s)
      BY <2>3
    <3> QED BY <2>3, <3>1, <3>2
  <2>5. Held(s) = <<>>
    BY <2>4 DEF Held
  <2> QED BY <1>5, <2>1, <2>5, ContentsOfList
<1>12. PushKnows(p, s)' /\ LinksLast(p, s)' /\ pc'[p] \notin PushLabels
  BY <1>8 DEF PushKnows, LinksLast, Before, PushLabels, PushChecked
<1>13. PopKnows(p, s)' /\ ValueKnown(p)'
  BY <1>1, <1>2, <1>4, <1>8, <1>10, <1>11 DEF PopKnows, PopChecked, ValueKnown, Before
<1> QED BY <1>1, <1>2, <1>6, <1>7, <1>9, <1>12, <1>13, ReadsOnly

\* What the end of a pop leaves.
LEMMA Returns ==
    ASSUME TypeOK, NEW p \in Threads, PopReturn(p)
    PROVE  /\ hazards' \in [Threads -> [1..2 -> Nodes \cup {Null}]] /\ pc' \in [Threads -> Labels]
           /\ h' \in [Threads -> Nodes \cup {Null}] /\ t' \in [Threads -> Nodes \cup {Null}]
           /\ nxt' \in [Threads -> Nodes \cup {Null}] /\ value' \in [Threads -> Values \cup {Nothing}]
           /\ pc'[p] = "idle"
           /\ \A q \in Threads : q # p =>
                 /\ hazards'[q] = hazards[q] /\ pc'[q] = pc[q] /\ h'[q] = h[q] /\ t'[q] = t[q]
                 /\ nxt'[q] = nxt[q] /\ value'[q] = value[q]
<1>1. NoHazards \in [1..2 -> Nodes \cup {Null}] /\ "idle" \in Labels
  BY DEF NoHazards, Labels
<1>2. /\ hazards \in [Threads -> [1..2 -> Nodes \cup {Null}]] /\ pc \in [Threads -> Labels]
      /\ h \in [Threads -> Nodes \cup {Null}] /\ t \in [Threads -> Nodes \cup {Null}]
      /\ nxt \in [Threads -> Nodes \cup {Null}] /\ value \in [Threads -> Values \cup {Nothing}]
  BY DEF TypeOK
<1>3. hazards' = [hazards EXCEPT ![p] = NoHazards] /\ pc' = [pc EXCEPT ![p] = "idle"]
  BY DEF PopReturn, Goto
<1>4. /\ h' = [h EXCEPT ![p] = Null] /\ t' = [t EXCEPT ![p] = Null]
      /\ nxt' = [nxt EXCEPT ![p] = Null] /\ value' = [value EXCEPT ![p] = Nothing]
  BY DEF PopReturn
<1>5. /\ hazards' \in [Threads -> [1..2 -> Nodes \cup {Null}]] /\ pc' \in [Threads -> Labels]
      /\ pc'[p] = "idle"
      /\ \A q \in Threads : q # p => hazards'[q] = hazards[q] /\ pc'[q] = pc[q]
  BY <1>1, <1>2, <1>3
<1>6. /\ h' \in [Threads -> Nodes \cup {Null}] /\ t' \in [Threads -> Nodes \cup {Null}]
      /\ nxt' \in [Threads -> Nodes \cup {Null}] /\ value' \in [Threads -> Values \cup {Nothing}]
  BY <1>2, <1>4
<1>7. \A q \in Threads : q # p => h'[q] = h[q] /\ t'[q] = t[q] /\ nxt'[q] = nxt[q] /\ value'[q] = value[q]
  BY <1>2, <1>4
<1> QED BY <1>5, <1>6, <1>7

LEMMA PopEmptyKeeps ==
    ASSUME NEW s \in Seq(Nodes), TypeOK, Inv(s), NEW p \in Poppers, PopEmpty(p)
    PROVE  TypeOK' /\ Inv(s)'
<1>1. p \in Threads /\ pc[p] = "pop empty" /\ PopReturn(p)
  BY DEF PopEmpty, At, Threads
<1>2. UNCHANGED <<head, tail, next, data, free, retired, node, pushes, wasEmpty, forgot>>
  BY DEF PopEmpty
<1>3. TypeOK'
  BY <1>1, <1>2, Returns DEF TypeOK
<1>4. OthersKeep(p) /\ pc'[p] = "idle"
  BY <1>1, <1>2, Returns DEF OthersKeep
<1>5. \A n \in Nodes : (NewOf(p, n)' <=> NewOf(p, n)) /\ (CutOf(p, n)' <=> CutOf(p, n))
  BY <1>1, <1>4 DEF NewOf, CutOf, Before
<1>6. PushKnows(p, s)' /\ LinksLast(p, s)' /\ pc'[p] \notin PushLabels
  BY <1>4 DEF PushKnows, LinksLast, Before, PushLabels, PushChecked
<1>7. PopKnows(p, s)' /\ ValueKnown(p)'
  BY <1>4 DEF PopKnows, PopChecked, ValueKnown, Before
<1> QED BY <1>1, <1>2, <1>3, <1>4, <1>5, <1>6, <1>7, ReadsOnly

-----------------------------------------------------------------------------
(* Steps that change what threads share.                                   *)

Quiet(q) ==
    /\ pc'[q] = pc[q] /\ hazards'[q] = hazards[q] /\ h'[q] = h[q] /\ t'[q] = t[q]
    /\ nxt'[q] = nxt[q] /\ node'[q] = node[q] /\ value'[q] = value[q] /\ wasEmpty'[q] = wasEmpty[q]

\* What another thread knows survives a change of the list from s to s2: no
\* guarded node is given back, no used node comes to the list, a link that is
\* not Null stays, and the head, once off the list, stays off.
LEMMA OthersKnow ==
    ASSUME NEW s \in Seq(Nodes), NEW s2 \in Seq(Nodes), TypeOK, Inv(s), NEW q \in Threads, Quiet(q),
           \A n \in Nodes : Used(n) /\ n \in {hazards[q][1], hazards[q][2]} => Used(n)',
           \A n \in Nodes : Used(n) /\ n \in On(s2) => n \in On(s),
           \A n \in On(s) : n \in On(s2) /\ next[n] # Null => next'[n] = next[n],
           head' \in On(s2) /\ (head' = head \/ head \notin On(s2)),
           tail # head /\ head' = head => tail' # head',
           \A n \in Nodes \ free : data'[n] = data[n],
           s2[Len(s2)] = s[Len(s)] \/ (OnePusher => q \notin Pushers)
    PROVE  /\ PushKnows(q, s2)' /\ PopKnows(q, s2)' /\ ValueKnown(q)' /\ (OnePusher => LinksLast(q, s2)')
           /\ pc'[q] \in PushLabels => q \in Pushers
<1>1. /\ PushKnows(q, s) /\ PopKnows(q, s) /\ ValueKnown(q) /\ (OnePusher => LinksLast(q, s))
      /\ pc[q] \in PushLabels => q \in Pushers
      /\ List(s) /\ Placed(s)
  BY DEF Inv
<1>2. /\ pc'[q] = pc[q] /\ hazards'[q] = hazards[q] /\ h'[q] = h[q] /\ t'[q] = t[q]
      /\ nxt'[q] = nxt[q] /\ node'[q] = node[q] /\ value'[q] = value[q] /\ wasEmpty'[q] = wasEmpty[q]
  BY DEF Quiet
<1>3. \A n : Used(n) => n \in Nodes
  BY DEF Used
<1>4. On(s) \subseteq Nodes /\ On(s) \cap free = {} /\ head \in On(s)
  BY <1>1, NextOnList, ListFits DEF Placed
<1>5. Null \notin Nodes
  BY QueueAssumption
<1>6. PushKnows(q, s2)'
  <2>1. pc[q] \in PushChecked => hazards[q][1] = t[q] /\ Used(t[q]) /\ Used(t[q])'
    <3> SUFFICES ASSUME pc[q] \in PushChecked PROVE hazards[q][1] = t[q] /\ Used(t[q]) /\ Used(t[q])'
      OBVIOUS
    <3>1. hazards[q][1] = t[q] /\ Used(t[q]) /\ t[q] \in Nodes
      BY <1>1, <1>3 DEF PushKnows
    <3> QED BY <3>1, <1>2
  <2>2. pc[q] \in {"push check again", "push help"} /\ t[q] \in On(s2) /\ nxt[q] # Null => next'[t[q]] = nxt[q]
    <3> SUFFICES ASSUME pc[q] \in {"push check again", "push help"}, t[q] \in On(s2), nxt[q] # Null
                 PROVE  next'[t[q]] = nxt[q]
      OBVIOUS
    <3>1. Used(t[q]) /\ t[q] \in Nodes
      BY <2>1, <1>3 DEF PushChecked
    <3>2. t[q] \in On(s) /\ next[t[q]] = nxt[q]
      BY <3>1, <1>1 DEF PushKnows
    <3> QED BY <3>2
  <2>3. pc[q] = "push swing" /\ t[q] \in On(s2) => next'[t[q]] = node[q]
    <3> SUFFICES ASSUME pc[q] = "push swing", t[q] \in On(s2) PROVE next'[t[q]] = node[q]
      OBVIOUS
    <3>1. Used(t[q]) /\ t[q] \in Nodes
      BY <2>1, <1>3 DEF PushChecked
    <3>2. t[q] \in On(s) /\ next[t[q]] = node[q] /\ node[q] \in Nodes
      BY <3>1, <1>1 DEF PushKnows, PushLabels
    <3> QED BY <3>2, <1>5
  <2> QED BY <2>1, <2>2, <2>3, <1>1, <1>2 DEF PushKnows
<1>7. ASSUME pc[q] \in PopChecked
      PROVE  /\ hazards[q][1] = h[q] /\ Used(h[q]) /\ Used(h[q])' /\ (h[q] \in On(s2) => h[q] = head')
             /\ head' = h[q] => head = h[q]
  <2>1. hazards[q][1] = h[q] /\ Used(h[q]) /\ (h[q] \in On(s) => h[q] = head) /\ h[q] \in Nodes
    BY <1>1, <1>3, <1>7 DEF PopKnows
  <2>2. h[q] \in On(s2) => h[q] = head /\ h[q] = head'
    BY <2>1
  <2>3. Used(h[q])'
    BY <2>1, <1>2
  <2> QED BY <2>1, <2>2, <2>3
<1>8. PopKnows(q, s2)'
  <2>1. pc[q] \in {"pop next", "pop guard next", "pop check again"} /\ head' = h[q] /\ t[q] # h[q] => tail' # head'
    <3> SUFFICES ASSUME pc[q] \in {"pop next", "pop guard next", "pop check again"}, head' = h[q], t[q] # h[q]
                 PROVE  tail' # head'
      OBVIOUS
    <3>1. head = h[q]
      BY <1>7 DEF PopChecked
    <3> QED BY <3>1, <1>1 DEF PopKnows
  <2>2. pc[q] \in PopChecked \ {"pop tail", "pop next"} /\ head' = h[q] =>
          /\ nxt[q] # Null => next'[head'] = nxt[q]
          /\ nxt[q] = Null => wasEmpty[q]
    <3> SUFFICES ASSUME pc[q] \in PopChecked \ {"pop tail", "pop next"}, head' = h[q]
                 PROVE  /\ nxt[q] # Null => next'[head'] = nxt[q]
                        /\ nxt[q] = Null => wasEmpty[q]
      OBVIOUS
    <3>1. head = h[q] /\ head' = head
      BY <1>7
    <3>2. /\ nxt[q] # Null => next[head] = nxt[q]
          /\ nxt[q] = Null => wasEmpty[q]
      BY <3>1, <1>1 DEF PopKnows
    <3> QED BY <3>1, <3>2, <1>4
  <2>3. pc[q] \in {"pop check again", "pop read"} => hazards[q][2] = nxt[q]
    BY <1>1 DEF PopKnows
  <2>4. pc[q] = "pop read" => Used(nxt[q])'
    BY <2>3, <1>1, <1>2, <1>3 DEF PopKnows
  <2>5. pc[q] \in {"pop read", "pop swing"} => nxt[q] # Null /\ (head' = h[q] => tail' # head')
    BY <1>1, <1>7 DEF PopKnows, PopChecked
  <2>6. /\ pc[q] \in PopChecked \cup {"pop check"} => hazards[q][1] = h[q]
        /\ pc[q] = "pop help" => nxt[q] # Null /\ t[q] = h[q]
        /\ pc[q] \in {"pop cut", "pop free"} => h[q] \in Nodes
        /\ pc[q] = "pop empty" => wasEmpty[q]
    BY <1>1 DEF PopKnows
  <2> QED BY <2>1, <2>2, <2>3, <2>4, <2>5, <2>6, <1>2, <1>7 DEF PopKnows
<1>9. ValueKnown(q)'
  <2>1. pc[q] \in Before => value[q] \in Values /\ data'[node[q]] = value[q]
    <3> SUFFICES ASSUME pc[q] \in Before PROVE value[q] \in Values /\ data'[node[q]] = value[q]
      OBVIOUS
    <3>1. node[q] \in Nodes
      BY <1>1 DEF PushKnows, PushLabels
    <3>2. node[q] \notin free
      BY <3>1, <1>1 DEF Placed, Own, NewOf
    <3> QED BY <3>1, <3>2, <1>1 DEF ValueKnown
  <2>2. pc[q] = "pop swing" /\ head' = h[q] => value[q] = data'[nxt[q]]
    <3> SUFFICES ASSUME pc[q] = "pop swing", head' = h[q] PROVE value[q] = data'[nxt[q]]
      OBVIOUS
    <3>1. head = h[q] /\ nxt[q] # Null
      BY <1>1, <1>7 DEF PopChecked, PopKnows
    <3>2. next[head] = nxt[q]
      BY <3>1, <1>1 DEF PopKnows, PopChecked
    <3>3. nxt[q] \in Nodes \ free
      BY <3>1, <3>2, <1>1, <1>4, NextOnList
    <3> QED BY <3>1, <3>3, <1>1 DEF ValueKnown
  <2> QED BY <2>1, <2>2, <1>2 DEF ValueKnown
<1>10. ASSUME OnePusher PROVE LinksLast(q, s2)'
  <2>1. CASE pc[q] \notin {"push check again", "push link"}
    BY <2>1, <1>2 DEF LinksLast
  <2>2. CASE pc[q] \in {"push check again", "push link"}
    <3>1. s2[Len(s2)] = s[Len(s)]
      BY <1>1, <1>10, <2>2 DEF PushLabels, Before
    <3>2. t[q] \in On(s2) => t[q] \in On(s)
      BY <2>2, <1>1, <1>3 DEF PushKnows, PushChecked
    <3>3. LinksLast(q, s)
      BY <1>10, <1>1
    <3> QED BY <3>1, <3>2, <3>3, <1>2 DEF LinksLast
  <2> QED BY <2>1, <2>2
<1> QED BY <1>1, <1>2, <1>6, <1>8, <1>9, <1>10

\* A new node is one thread's own.
LEMMA PushNewKeeps ==
    ASSUME NEW s \in Seq(Nodes), TypeOK, Inv(s), NEW p \in Pushers, PushNew(p)
    PROVE  TypeOK' /\ Inv(s)'
<1>1. p \in Threads /\ pc[p] = "idle" /\ pushes < MaxPushes /\ List(s) /\ Placed(s)
  BY DEF PushNew, At, Threads, Inv
<1>2. PICK n \in free :
          /\ free' = free \ {n}
          /\ next' = [next EXCEPT ![n] = Null] /\ data' = [data EXCEPT ![n] = pushes + 1]
          /\ node' = [node EXCEPT ![p] = n]
  BY DEF PushNew
<1>3. /\ pushes' = pushes + 1 /\ value' = [value EXCEPT ![p] = pushes + 1]
      /\ pc' = [pc EXCEPT ![p] = "push tail"]
      /\ UNCHANGED <<head, tail, retired, hazards, h, t, nxt, wasEmpty, forgot>>
  BY DEF PushNew, Goto
<1>4. n \in Nodes /\ n \notin On(s) \cup retired /\ pushes + 1 \in Values /\ pushes + 1 \in 0..MaxPushes
  BY <1>1, <1>2, QueueAssumption DEF TypeOK, Placed, Values
<1>5. /\ free' \subseteq Nodes /\ next' \in [Nodes -> Nodes \cup {Null}] /\ next'[n] = Null
      /\ data' \in [Nodes -> Values \cup {Nothing}] /\ data'[n] = pushes + 1
      /\ \A m \in Nodes : m # n => next'[m] = next[m] /\ data'[m] = data[m]
  BY <1>2, <1>4 DEF TypeOK
<1>6. /\ node' \in [Threads -> Nodes \cup {Null}] /\ node'[p] = n
      /\ \A q \in Threads : q # p => node'[q] = node[q]
  <2>1. node \in [Threads -> Nodes \cup {Null}]
    BY DEF TypeOK
  <2> QED BY <1>1, <1>2, <1>4, <2>1
<1>7. /\ value' \in [Threads -> Values \cup {Nothing}] /\ value'[p] = pushes + 1
      /\ \A q \in Threads : q # p => value'[q] = value[q]
  BY <1>1, <1>3, <1>4 DEF TypeOK
<1>8. /\ pc' \in [Threads -> Labels] /\ pc'[p] = "push tail"
      /\ \A q \in Threads : q # p => pc'[q] = pc[q]
  BY <1>1, <1>3 DEF TypeOK, Labels
<1>9. TypeOK'
  <2>1. pushes' \in 0..MaxPushes
    BY <1>3, <1>4
  <2>2. /\ head' \in Nodes /\ tail' \in Nodes /\ retired' \subseteq Nodes
        /\ hazards' \in [Threads -> [1..2 -> Nodes \cup {Null}]] /\ wasEmpty' \in [Threads -> BOOLEAN]
        /\ forgot' \in BOOLEAN
    BY <1>3 DEF TypeOK
  <2>3. {h', t', nxt'} \subseteq [Threads -> Nodes \cup {Null}]
    BY <1>3 DEF TypeOK
  <2>4. {h', t', nxt', node'} \subseteq [Threads -> Nodes \cup {Null}]
    BY <1>6, <2>3
  <2>5. next' \in [Nodes -> Nodes \cup {Null}] /\ data' \in [Nodes -> Values \cup {Nothing}] /\ free' \subseteq Nodes
    BY <1>5
  <2>6. value' \in [Threads -> Values \cup {Nothing}] /\ pc' \in [Threads -> Labels]
    BY <1>7, <1>8
  <2> QED BY <2>1, <2>2, <2>4, <2>5, <2>6 DEF TypeOK
<1>10. \A q \in Threads : q # p => Quiet(q)
  BY <1>3, <1>6, <1>7, <1>8 DEF Quiet
<1>11. List(s)'
  <2>1. \A m \in On(s) : next'[m] = next[m]
    BY <1>1, <1>4, <1>5, NextOnList
  <2>2. \A i \in 1..Len(s) : s[i] \in On(s)
    BY DEF On
  <2>3. Len(s) \in 1..Len(s) /\ \A i \in 1..Len(s) - 1 : i \in 1..Len(s)
    BY <1>1, ListFits
  <2> QED BY <1>1, <1>3, <2>1, <2>2, <2>3 DEF List
<1>12. \A q \in Threads : \A m \in Nodes :
          /\ NewOf(q, m)' <=> NewOf(q, m) \/ (q = p /\ m = n)
          /\ CutOf(q, m)' <=> CutOf(q, m)
  BY <1>1, <1>3, <1>6, <1>8 DEF NewOf, CutOf, Before
<1>13. Placed(s)'
  <2>1. \A q \in Threads : ~Own(q, n)
    BY <1>1, <1>2, <1>4 DEF Placed
  <2>2. \A q \in Threads : \A m \in Nodes : Own(q, m)' <=> Own(q, m) \/ (q = p /\ m = n)
    BY <1>12 DEF Own
  <2>3. \A q \in Threads : \A m \in Nodes : Own(q, m)' => m \notin On(s) \cup free' \cup retired'
    BY <1>1, <1>2, <1>3, <1>4, <2>2 DEF Placed
  <2>4. \A q, r \in Threads : \A m \in Nodes : Own(q, m)' /\ Own(r, m)' => q = r
    BY <1>1, <2>1, <2>2 DEF Placed
  <2>5. \A q \in Threads : \A m \in Nodes : NewOf(q, m)' => next'[m] = Null
    BY <1>1, <1>5, <1>12 DEF Placed
  <2>6. On(s) \cap free' = {} /\ On(s) \cap retired' = {} /\ free' \cap retired' = {}
    BY <1>1, <1>2, <1>3 DEF Placed
  <2> QED BY <2>3, <2>4, <2>5, <2>6 DEF Placed
<1>14. \A m : Used(m) => Used(m)'
  BY <1>2, <1>12 DEF Used
<1>15. ASSUME NEW q \in Threads, q # p
       PROVE  /\ PushKnows(q, s)' /\ PopKnows(q, s)' /\ ValueKnown(q)' /\ (OnePusher => LinksLast(q, s)')
              /\ pc'[q] \in PushLabels => q \in Pushers
  <2>1. \A m \in Nodes \ free : data'[m] = data[m]
    BY <1>2, <1>5
  <2>2. \A m \in On(s) : m \in On(s) /\ next[m] # Null => next'[m] = next[m]
    BY <1>1, <1>4, <1>5, NextOnList
  <2>3. head' \in On(s) /\ head' = head /\ tail' = tail
    BY <1>1, <1>3, ListFits
  <2> QED BY <1>10, <1>14, <1>15, <2>1, <2>2, <2>3, OthersKnow
<1>16. PushKnows(p, s)' /\ LinksLast(p, s)'
  BY <1>4, <1>6, <1>8 DEF PushKnows, LinksLast, PushChecked
<1>17. PopKnows(p, s)' /\ ValueKnown(p)'
  BY <1>4, <1>5, <1>6, <1>7, <1>8 DEF PopKnows, PopChecked, ValueKnown
<1> QED BY <1>9, <1>11, <1>13, <1>15, <1>16, <1>17 DEF Inv, OnePusher

\* Moving the tail to the node after it.
LEMMA HelpKeeps ==
    ASSUME NEW s \in Seq(Nodes), TypeOK, Inv(s), NEW p \in Threads,
           \/ Help(p, "push help", "push tail") /\ p \in Pushers
           \/ Help(p, "pop help", "pop head")
    PROVE  TypeOK' /\ Inv(s)'
<1>1. /\ pc[p] \in {"push help", "pop help"} /\ List(s) /\ Placed(s)
      /\ PushKnows(p, s) /\ PopKnows(p, s)
  BY DEF Help, At, Inv
<1>2. /\ tail' = IF tail = t[p] THEN nxt[p] ELSE tail
      /\ UNCHANGED <<head, next, data, free, retired, hazards, h, t, nxt, node, value, pushes, wasEmpty, forgot>>
  BY DEF Help
<1>3. /\ pc' \in [Threads -> Labels] /\ pc'[p] \in {"push tail", "pop head"}
      /\ pc[p] = "push help" => pc'[p] = "push tail" /\ p \in Pushers
      /\ pc[p] = "pop help" => pc'[p] = "pop head"
      /\ \A q \in Threads : q # p => pc'[q] = pc[q]
  BY DEF Help, Goto, At, TypeOK, Labels
<1>4. tail' \in On(s) /\ (tail # head => tail' # head)
  <2>1. CASE tail # t[p]
    BY <2>1, <1>1, <1>2 DEF List
  <2>2. CASE tail = t[p]
    <3>1. tail \in On(s) /\ nxt[p] # Null
      BY <1>1 DEF List, PushKnows, PopKnows
    <3>2. next[tail] = nxt[p]
      <4>1. CASE pc[p] = "push help"
        BY <4>1, <3>1, <2>2, <1>1 DEF PushKnows
      <4>2. CASE pc[p] = "pop help"
        <5>1. t[p] = h[p] /\ (h[p] \in On(s) => h[p] = head)
          BY <4>2, <1>1 DEF PopKnows, PopChecked
        <5>2. head = h[p]
          BY <5>1, <3>1, <2>2
        <5> QED BY <5>1, <5>2, <4>2, <3>1, <2>2, <1>1 DEF PopKnows, PopChecked
      <4> QED BY <4>1, <4>2, <1>1
    <3>3. nxt[p] \in On(s) /\ nxt[p] # head
      BY <1>1, <3>1, <3>2, NextOnList
    <3> QED BY <3>3, <2>2, <1>2
  <2> QED BY <2>1, <2>2
<1>5. TypeOK'
  <2>1. tail' \in Nodes
    BY <1>1, <1>4, NextOnList
  <2> QED BY <1>2, <1>3, <2>1 DEF TypeOK
<1>6. \A q \in Threads : q # p => Quiet(q)
  BY <1>2, <1>3 DEF Quiet
<1>7. List(s)'
  BY <1>1, <1>2, <1>4 DEF List
<1>8. \A q \in Threads : \A m \in Nodes : (NewOf(q, m)' <=> NewOf(q, m)) /\ (CutOf(q, m)' <=> CutOf(q, m))
  <2> SUFFICES ASSUME NEW q \in Threads
               PROVE  /\ pc'[q] \in Before <=> pc[q] \in Before
                      /\ pc'[q] \in {"pop cut", "pop free"} <=> pc[q] \in {"pop cut", "pop free"}
    BY <1>2 DEF NewOf, CutOf
  <2>1. CASE q = p
    BY <2>1, <1>1, <1>3 DEF Before
  <2>2. CASE q # p
    BY <2>2, <1>3
  <2> QED BY <2>1, <2>2
<1>9. Placed(s)'
  BY <1>1, <1>2, <1>8 DEF Placed, Own
<1>10. \A m : Used(m)' <=> Used(m)
  BY <1>2, <1>8 DEF Used
<1>11. ASSUME NEW q \in Threads, q # p
       PROVE  /\ PushKnows(q, s)' /\ PopKnows(q, s)' /\ ValueKnown(q)' /\ (OnePusher => LinksLast(q, s)')
              /\ pc'[q] \in PushLabels => q \in Pushers
  <2>1. head' \in On(s) /\ head' = head
    BY <1>1, <1>2, ListFits
  <2> QED BY <1>2, <1>4, <1>6, <1>10, <1>11, <2>1, OthersKnow
<1>12. PushKnows(p, s)'
  BY <1>1, <1>2, <1>3 DEF PushKnows, PushLabels, PushChecked, Before
<1>13. PopKnows(p, s)' /\ LinksLast(p, s)'
  BY <1>3 DEF PopKnows, PopChecked, LinksLast
<1>14. ValueKnown(p)'
  <2>1. ValueKnown(p)
    BY DEF Inv
  <2> QED BY <1>1, <1>2, <1>3, <2>1 DEF ValueKnown, Before
<1>15. pc'[p] \in PushLabels => p \in Pushers
  BY <1>1, <1>3 DEF PushLabels, Before
<1> QED BY <1>5, <1>7, <1>9, <1>11, <1>12, <1>13, <1>14, <1>15 DEF Inv, OnePusher

\* The compare-and-swap that links a node finds the last node of the list, or
\* one that has been taken off it; s2 is the list after.
LEMMA PushLinkTo ==
    ASSUME NEW s \in Seq(Nodes), NEW s2 \in Seq(Nodes), TypeOK, Inv(s), NEW p \in Pushers, NEW n \in Nodes,
           PushLink(p), next[t[p]] = Null, node[p] = n,
           On(s2) \subseteq On(s) \cup {n}, List(s2)'
    PROVE  TypeOK' /\ Inv(s2)'
<1>1. p \in Threads /\ pc[p] = "push link" /\ PushKnows(p, s) /\ List(s) /\ Placed(s)
  BY DEF PushLink, At, Threads, Inv
<1>2. UNCHANGED <<head, tail, data, free, retired, hazards, h, t, nxt, node, value, pushes, wasEmpty, forgot>>
  BY DEF PushLink
<1>3. next' = [next EXCEPT ![t[p]] = n] /\ pc' = [pc EXCEPT ![p] = "push swing"]
  BY DEF PushLink, Goto
<1>4. Used(t[p]) /\ t[p] \in Nodes /\ hazards[p][1] = t[p]
  BY <1>1 DEF PushKnows, PushChecked, Used
<1>5. NewOf(p, n)
  BY <1>1 DEF NewOf, Before
<1>6. n \notin On(s) \cup free \cup retired /\ next[n] = Null /\ n # t[p]
  BY <1>1, <1>4, <1>5 DEF Placed, Own, Used
<1>7. /\ next' \in [Nodes -> Nodes \cup {Null}] /\ next'[t[p]] = n
      /\ \A m \in Nodes : m # t[p] => next'[m] = next[m]
  <2>1. next \in [Nodes -> Nodes \cup {Null}]
    BY DEF TypeOK
  <2> QED BY <1>3, <1>4, <2>1
<1>8. /\ pc' \in [Threads -> Labels] /\ pc'[p] = "push swing"
      /\ \A q \in Threads : q # p => pc'[q] = pc[q]
  BY <1>1, <1>3 DEF TypeOK, Labels
<1>9. TypeOK'
  BY <1>2, <1>7, <1>8 DEF TypeOK
<1>10. \A q \in Threads : q # p => Quiet(q)
  BY <1>2, <1>8 DEF Quiet
<1>11. \A q \in Threads : \A m \in Nodes :
         /\ NewOf(q, m)' <=> NewOf(q, m) /\ q # p
         /\ CutOf(q, m)' <=> CutOf(q, m)
  BY <1>1, <1>2, <1>8 DEF NewOf, CutOf, Before
<1>12. Placed(s2)'
  <2>1. \A q \in Threads : \A m \in Nodes : Own(q, m)' => Own(q, m) /\ m # n
    <3> SUFFICES ASSUME NEW q \in Threads, NEW m \in Nodes, Own(q, m)' PROVE Own(q, m) /\ m # n
      OBVIOUS
    <3>1. Own(q, m) /\ (NewOf(q, m)' => q # p) /\ (CutOf(q, m)' => q # p)
      BY <1>1, <1>11 DEF Own, CutOf
    <3>2. q # p
      BY <3>1 DEF Own
    <3> QED BY <1>1, <1>5, <3>1, <3>2 DEF Placed, Own
  <2>2. \A q \in Threads : \A m \in Nodes : Own(q, m)' => m \notin On(s2) \cup free' \cup retired'
    BY <1>1, <1>2, <2>1 DEF Placed
  <2>3. \A q, r \in Threads : \A m \in Nodes : Own(q, m)' /\ Own(r, m)' => q = r
    BY <1>1, <2>1 DEF Placed
  <2>4. ASSUME NEW q \in Threads, NEW m \in Nodes, NewOf(q, m)' PROVE next'[m] = Null
    <3>1. NewOf(q, m)
      BY <2>4, <1>11
    <3>2. m # t[p] /\ next[m] = Null
      BY <3>1, <1>1, <1>4 DEF Placed, Used
    <3> QED BY <3>2, <1>7
  <2>5. On(s2) \cap free' = {} /\ On(s2) \cap retired' = {} /\ free' \cap retired' = {}
    BY <1>1, <1>2, <1>6 DEF Placed
  <2> QED BY <2>2, <2>3, <2>4, <2>5 DEF Placed
<1>13. \A m : Used(m) => Used(m)' /\ m # n
  BY <1>1, <1>2, <1>5, <1>11 DEF Used
<1>14. ASSUME NEW q \in Threads, q # p
       PROVE  /\ PushKnows(q, s2)' /\ PopKnows(q, s2)' /\ ValueKnown(q)' /\ (OnePusher => LinksLast(q, s2)')
              /\ pc'[q] \in PushLabels => q \in Pushers
  <2>1. \A m \in Nodes : Used(m) /\ m \in On(s2) => m \in On(s)
    BY <1>13
  <2>2. \A m \in On(s) : m \in On(s2) /\ next[m] # Null => next'[m] = next[m]
    BY <1>1, <1>7, NextOnList
  <2>3. OnePusher => q \notin Pushers
    BY <1>14 DEF OnePusher
  <2>4. head' \in On(s2) /\ head' = head /\ tail' = tail /\ data' = data
    <3>1. 1 \in 1..Len(s2) /\ s2[1] = head'
      BY DEF List
    <3> QED BY <1>2, <3>1 DEF On
  <2> QED BY <1>10, <1>13, <1>14, <2>1, <2>2, <2>3, <2>4, OthersKnow
<1>15. PushKnows(p, s2)' /\ LinksLast(p, s2)'
  <2>1. Used(t[p])'
    BY <1>2, <1>4, <1>13
  <2> QED BY <1>2, <1>4, <1>7, <1>8, <2>1 DEF PushKnows, PushChecked, LinksLast
<1>16. PopKnows(p, s2)' /\ ValueKnown(p)'
  BY <1>8 DEF PopKnows, PopChecked, ValueKnown, Before
<1> QED BY <1>9, <1>12, <1>14, <1>15, <1>16 DEF Inv, OnePusher

LEMMA PushLinkKeeps ==
    ASSUME NEW s \in Seq(Nodes), TypeOK, Inv(s), NEW p \in Pushers, PushLink(p), next[t[p]] = Null
    PROVE  /\ t[p] \in On(s) => TypeOK' /\ \E s2 \in Seq(Nodes) : s2 = Append(s, node[p]) /\ Inv(s2)'
           /\ t[p] \notin On(s) => TypeOK' /\ Inv(s)'
<1>1. p \in Threads /\ pc[p] = "push link" /\ PushKnows(p, s) /\ List(s) /\ Placed(s)
  BY DEF PushLink, At, Threads, Inv
<1>2. UNCHANGED <<head, tail>> /\ next' = [next EXCEPT ![t[p]] = node[p]]
  BY DEF PushLink
<1>3. PICK n \in Nodes : n = node[p]
  BY <1>1 DEF PushKnows, PushLabels, Before
<1>4. Used(t[p]) /\ NewOf(p, n)
  BY <1>1, <1>3 DEF PushKnows, PushChecked, NewOf, Before
<1>5. n \notin On(s) /\ next[n] = Null /\ n # t[p] /\ t[p] \in Nodes
  BY <1>1, <1>4 DEF Placed, Own, Used
<1>6. next'[t[p]] = n /\ \A m \in Nodes : m # t[p] => next'[m] = next[m]
  <2>1. next \in [Nodes -> Nodes \cup {Null}]
    BY DEF TypeOK
  <2> QED BY <1>2, <1>3, <1>5, <2>1
<1>7. \A i \in 1..Len(s) : s[i] \in On(s) /\ s[i] \in Nodes /\ s[i] # n
  BY <1>5 DEF On
<1>8. ASSUME t[p] \in On(s) PROVE TypeOK' /\ \E s2 \in Seq(Nodes) : s2 = Append(s, node[p]) /\ Inv(s2)'
  <2>1. t[p] = s[Len(s)] /\ Len(s) \in Nat /\ Len(s) >= 1 /\ s[1] = head
    <3>1. List(s) /\ next[t[p]] = Null
      BY <1>1
    <3>2. t[p] = s[Len(s)]
      BY <3>1, <1>8, NextOnList
    <3>3. Len(s) \in Nat /\ Len(s) >= 1 /\ s[1] = head
      BY <3>1, ListFits
    <3> QED BY <3>2, <3>3
  <2>2. PICK s2 \in Seq(Nodes) :
          /\ s2 = Append(s, n) /\ Len(s2) = Len(s) + 1 /\ \A i \in 1..Len(s) : s2[i] = s[i]
          /\ s2[Len(s) + 1] = n /\ On(s2) = On(s) \cup {n}
    BY Appending
  <2>3. \A i, j \in 1..Len(s2) : s2[i] = s2[j] => i = j
    <3> SUFFICES ASSUME NEW i \in 1..Len(s2), NEW j \in 1..Len(s2), s2[i] = s2[j] PROVE i = j
      OBVIOUS
    <3>1. (i \in 1..Len(s) \/ i = Len(s) + 1) /\ (j \in 1..Len(s) \/ j = Len(s) + 1)
      BY <2>1, <2>2
    <3>2. \A k, l \in 1..Len(s) : s[k] = s[l] => k = l
      BY <1>1 DEF List
    <3> QED BY <3>1, <3>2, <2>2, <1>7
  <2>4. \A i \in 1..Len(s2) - 1 : next'[s2[i]] = s2[i + 1]
    <3> SUFFICES ASSUME NEW i \in 1..Len(s) PROVE next'[s[i]] = s2[i + 1]
      BY <2>1, <2>2
    <3>1. CASE i = Len(s)
      BY <3>1, <2>1, <2>2, <1>6
    <3>2. CASE i # Len(s)
      <4>1. i \in 1..Len(s) - 1 /\ i + 1 \in 1..Len(s) /\ Len(s) \in 1..Len(s)
        BY <3>2, <2>1
      <4>2. s[i] # t[p] /\ next[s[i]] = s[i + 1]
        BY <4>1, <3>2, <2>1, <1>1 DEF List
      <4> QED BY <4>1, <4>2, <2>2, <1>6, <1>7
    <3> QED BY <3>1, <3>2
  <2>5. next'[s2[Len(s2)]] = Null /\ s2[1] = head /\ s2 # <<>>
    BY <2>1, <2>2, <1>5, <1>6
  <2>6. tail \in On(s2)
    BY <2>2, <1>1 DEF List
  <2>7. List(s2)'
    BY <2>3, <2>4, <2>5, <2>6, <1>2 DEF List
  <2>8. TypeOK' /\ Inv(s2)'
    BY <2>2, <2>7, <1>3, PushLinkTo
  <2> QED BY <2>2, <2>8, <1>3
<1>9. ASSUME t[p] \notin On(s) PROVE TypeOK' /\ Inv(s)'
  <2>1. \A i \in 1..Len(s) : next'[s[i]] = next[s[i]]
    BY <1>6, <1>7, <1>9
  <2>2. Len(s) \in 1..Len(s) /\ \A i \in 1..Len(s) - 1 : i \in 1..Len(s)
    <3>1. List(s)
      BY <1>1
    <3>2. Len(s) \in Nat /\ Len(s) >= 1
      BY <3>1, ListFits
    <3> QED BY <3>2
  <2>3. List(s)'
    BY <2>1, <2>2, <1>1, <1>2 DEF List
  <2> QED BY <2>3, <1>3, PushLinkTo
<1> QED BY <1>8, <1>9

\* It fails: nothing has changed.
LEMMA PushLinkFails ==
    ASSUME NEW s \in Seq(Nodes), TypeOK, Inv(s), NEW p \in Pushers, PushLink(p), next[t[p]] # Null
    PROVE  TypeOK' /\ Inv(s)'
<1>1. p \in Threads /\ pc[p] = "push link" /\ PushKnows(p, s) /\ ValueKnown(p)
  BY DEF PushLink, At, Threads, Inv
<1>2. UNCHANGED <<head, tail, next, data, free, retired, hazards, h, t, nxt, node, value, pushes, wasEmpty, forgot>>
  BY DEF PushLink
<1>3. pc' = [pc EXCEPT ![p] = "push tail"]
  BY DEF PushLink, Goto
<1>4. TypeOK'
  <2>1. pc' \in [Threads -> Labels]
    BY <1>3 DEF TypeOK, Labels
  <2> QED BY <1>2, <2>1 DEF TypeOK
<1>5. OthersKeep(p) /\ pc'[p] = "push tail"
  BY <1>1, <1>2, <1>3 DEF TypeOK, OthersKeep
<1>6. \A n \in Nodes : (NewOf(p, n)' <=> NewOf(p, n)) /\ (CutOf(p, n)' <=> CutOf(p, n))
  BY <1>1, <1>2, <1>5 DEF NewOf, CutOf, Before
<1>7. PushKnows(p, s)' /\ LinksLast(p, s)'
  BY <1>1, <1>2, <1>5 DEF PushKnows, LinksLast, Before, PushLabels, PushChecked
<1>8. PopKnows(p, s)' /\ ValueKnown(p)'
  BY <1>1, <1>2, <1>5 DEF PopKnows, PopChecked, ValueKnown, Before
<1> QED BY <1>1, <1>2, <1>4, <1>5, <1>6, <1>7, <1>8, ReadsOnly

LEMMA PushSwingKeeps ==
    ASSUME NEW s \in Seq(Nodes), TypeOK, Inv(s), NEW p \in Pushers, PushSwing(p)
    PROVE  TypeOK' /\ Inv(s)'
<1>1. p \in Threads /\ pc[p] = "push swing" /\ PushKnows(p, s) /\ List(s) /\ Placed(s)
  BY DEF PushSwing, At, Threads, Inv
<1>2. /\ tail' = IF tail = t[p] THEN node[p] ELSE tail
      /\ UNCHANGED <<head, next, data, free, retired, h, pushes, wasEmpty, forgot>>
  BY DEF PushSwing
<1>3. PICK n \in Nodes : n = node[p]
  BY <1>1 DEF PushKnows, PushLabels
<1>4. tail' \in On(s) /\ (tail # head => tail' # head)
  <2>1. CASE tail # t[p]
    BY <2>1, <1>1, <1>2 DEF List
  <2>2. CASE tail = t[p]
    <3>1. tail \in On(s) /\ next[tail] = n
      BY <2>2, <1>1, <1>3 DEF List, PushKnows
    <3>2. List(s) /\ n # Null
      BY <1>1, QueueAssumption
    <3>3. n \in On(s) /\ n # head
      BY <3>1, <3>2, NextOnList
    <3> QED BY <3>3, <2>2, <1>2, <1>3
  <2> QED BY <2>1, <2>2
<1>5. /\ hazards' = [hazards EXCEPT ![p] = [hazards[p] EXCEPT ![1] = Null]]
      /\ pc' = [pc EXCEPT ![p] = "idle"]
  BY DEF PushSwing, Goto
<1>6. /\ t' = [t EXCEPT ![p] = Null] /\ nxt' = [nxt EXCEPT ![p] = Null]
      /\ node' = [node EXCEPT ![p] = Null] /\ value' = [value EXCEPT ![p] = Nothing]
  BY DEF PushSwing
<1>7. /\ hazards' \in [Threads -> [1..2 -> Nodes \cup {Null}]]
      /\ \A q \in Threads : q # p => hazards'[q] = hazards[q]
  <2>1. hazards \in [Threads -> [1..2 -> Nodes \cup {Null}]] /\ p \in Threads
    BY <1>1 DEF TypeOK
  <2>2. hazards' = [hazards EXCEPT ![p] = [hazards[p] EXCEPT ![1] = Null]]
    BY <1>5
  <2> QED BY <2>1, <2>2
<1>8. /\ pc' \in [Threads -> Labels] /\ pc'[p] = "idle"
      /\ \A q \in Threads : q # p => pc'[q] = pc[q]
  BY <1>1, <1>5 DEF TypeOK, Labels
<1>9. /\ t' \in [Threads -> Nodes \cup {Null}] /\ nxt' \in [Threads -> Nodes \cup {Null}]
      /\ node' \in [Threads -> Nodes \cup {Null}] /\ value' \in [Threads -> Values \cup {Nothing}]
      /\ \A q \in Threads : q # p => t'[q] = t[q] /\ nxt'[q] = nxt[q] /\ node'[q] = node[q] /\ value'[q] = value[q]
  <2>1. /\ t \in [Threads -> Nodes \cup {Null}] /\ nxt \in [Threads -> Nodes \cup {Null}]
        /\ node \in [Threads -> Nodes \cup {Null}] /\ value \in [Threads -> Values \cup {Nothing}]
    BY DEF TypeOK
  <2> QED BY <1>6, <2>1
<1>10. TypeOK'
  <2>1. tail' \in Nodes /\ h' \in [Threads -> Nodes \cup {Null}]
    <3>1. List(s)
      BY <1>1
    <3>2. tail' \in Nodes
      BY <3>1, <1>4, NextOnList
    <3> QED BY <3>2, <1>2 DEF TypeOK
  <2>2. {h', t', nxt', node'} \subseteq [Threads -> Nodes \cup {Null}]
    BY <2>1, <1>9
  <2> QED BY <1>2, <1>7, <1>8, <1>9, <2>1, <2>2 DEF TypeOK
<1>11. \A q \in Threads : q # p => Quiet(q)
  BY <1>2, <1>7, <1>8, <1>9 DEF Quiet
<1>12. List(s)'
  BY <1>1, <1>2, <1>4 DEF List
<1>13. \A q \in Threads : \A m \in Nodes : (NewOf(q, m)' <=> NewOf(q, m)) /\ (CutOf(q, m)' <=> CutOf(q, m))
  BY <1>1, <1>2, <1>8, <1>9 DEF NewOf, CutOf, Before
<1>14. Placed(s)'
  BY <1>1, <1>2, <1>13 DEF Placed, Own
<1>15. \A m : Used(m)' <=> Used(m)
  BY <1>2, <1>13 DEF Used
<1>16. ASSUME NEW q \in Threads, q # p
       PROVE  /\ PushKnows(q, s)' /\ PopKnows(q, s)' /\ ValueKnown(q)' /\ (OnePusher => LinksLast(q, s)')
              /\ pc'[q] \in PushLabels => q \in Pushers
  <2>1. head' \in On(s) /\ head' = head
    BY <1>1, <1>2, ListFits
  <2> QED BY <1>2, <1>4, <1>11, <1>15, <1>16, <2>1, OthersKnow
<1>17. PushKnows(p, s)' /\ LinksLast(p, s)'
  BY <1>8 DEF PushKnows, LinksLast, PushLabels, PushChecked, Before
<1>18. PopKnows(p, s)' /\ ValueKnown(p)'
  BY <1>8 DEF PopKnows, PopChecked, ValueKnown, Before
<1> QED BY <1>10, <1>12, <1>14, <1>16, <1>17, <1>18 DEF Inv, OnePusher

\* The compare-and-swap that takes the first node off the list.
LEMMA PopSwingKeeps ==
    ASSUME NEW s \in Seq(Nodes), TypeOK, Inv(s), NEW p \in Poppers, PopSwing(p), head = h[p]
    PROVE  TypeOK' /\ Len(s) >= 2 /\ nxt[p] = s[2] /\ \E s2 \in Seq(Nodes) : s2 = Tail(s) /\ Inv(s2)'
<1>1. p \in Threads /\ pc[p] = "pop swing" /\ PopKnows(p, s)
  BY DEF PopSwing, At, Threads, Inv
<1>2. List(s) /\ Placed(s)
  BY DEF Inv
<1>3. UNCHANGED <<tail, next, data, free, retired, hazards, h, t, nxt, node, value, pushes, wasEmpty, forgot>>
  BY DEF PopSwing
<1>4. head' = nxt[p] /\ pc' = [pc EXCEPT ![p] = "pop cut"]
  BY DEF PopSwing, Goto
<1>5. nxt[p] # Null /\ next[head] = nxt[p] /\ tail # head /\ tail \in On(s)
  BY <1>1, <1>2 DEF PopKnows, PopChecked, List
<1>6. /\ Len(s) \in Nat /\ Len(s) >= 1 /\ s[1] = head /\ head \in On(s) /\ next[s[Len(s)]] = Null
  BY <1>2, ListFits DEF List
<1>7. /\ \A i, j \in 1..Len(s) : s[i] = s[j] => i = j
      /\ \A i \in 1..Len(s) - 1 : next[s[i]] = s[i + 1]
  BY <1>2 DEF List
<1>8. Len(s) >= 2 /\ nxt[p] = s[2]
  <2>1. Len(s) # 1
    BY <1>5, <1>6
  <2>2. Len(s) >= 2 /\ 1 \in 1..Len(s) - 1
    <3>1. PICK k \in Nat : k = Len(s) /\ k >= 1
      BY <1>6
    <3>2. k >= 2 /\ 1 \in 1..k - 1
      BY <2>1, <3>1
    <3> QED BY <3>1, <3>2
  <2>3. next[s[1]] = s[1 + 1]
    BY <2>2, <1>7
  <2> QED BY <2>2, <2>3, <1>5, <1>6
<1>9. PICK s2 \in Seq(Nodes) :
        /\ s2 = Tail(s) /\ Len(s2) = Len(s) - 1 /\ On(s2) = On(s) \ {head}
        /\ \A i \in 1..Len(s) - 1 : s2[i] = s[i + 1]
  BY <1>6, <1>8, <1>7, Removing
<1>10. s2[Len(s2)] = s[Len(s)] /\ s2[1] = nxt[p] /\ s2 # <<>>
  <2>1. 1 \in 1..Len(s) - 1 /\ Len(s2) \in 1..Len(s) - 1 /\ Len(s2) + 1 = Len(s)
    BY <1>6, <1>8, <1>9
  <2>2. s2[1] = s[1 + 1] /\ s2[Len(s2)] = s[Len(s2) + 1]
    BY <2>1, <1>9
  <2> QED BY <2>1, <2>2, <1>8
<1>11. List(s2)'
  <2>1. \A i, j \in 1..Len(s2) : s2[i] = s2[j] => i = j
    <3> SUFFICES ASSUME NEW i \in 1..Len(s2), NEW j \in 1..Len(s2), s2[i] = s2[j] PROVE i = j
      OBVIOUS
    <3>1. i + 1 \in 1..Len(s) /\ j + 1 \in 1..Len(s) /\ s[i + 1] = s[j + 1]
      BY <1>6, <1>9
    <3>2. i + 1 = j + 1
      BY <3>1, <1>7
    <3> QED BY <3>2
  <2>2. \A i \in 1..Len(s2) - 1 : next[s2[i]] = s2[i + 1]
    <3> SUFFICES ASSUME NEW i \in 1..Len(s2) - 1 PROVE next[s2[i]] = s2[i + 1]
      OBVIOUS
    <3>1. i + 1 \in 1..Len(s) - 1 /\ i \in 1..Len(s) - 1 /\ i + 1 \in 1..Len(s2)
      BY <1>6, <1>9
    <3>2. s2[i] = s[i + 1] /\ s2[i + 1] = s[(i + 1) + 1]
      BY <3>1, <1>9
    <3> QED BY <3>1, <3>2, <1>7
  <2>3. tail \in On(s2)
    BY <1>5, <1>9
  <2> QED BY <2>1, <2>2, <2>3, <1>3, <1>4, <1>6, <1>10 DEF List
<1>12. /\ pc' \in [Threads -> Labels] /\ pc'[p] = "pop cut"
       /\ \A q \in Threads : q # p => pc'[q] = pc[q]
  BY <1>1, <1>4 DEF TypeOK, Labels
<1>13. TypeOK'
  <2>1. head' \in Nodes
    BY <1>4, <1>5 DEF TypeOK
  <2> QED BY <2>1, <1>3, <1>12 DEF TypeOK
<1>14. \A q \in Threads : q # p => Quiet(q)
  BY <1>3, <1>12 DEF Quiet
<1>15. \A q \in Threads : \A m \in Nodes :
          /\ NewOf(q, m)' <=> NewOf(q, m)
          /\ CutOf(q, m)' <=> CutOf(q, m) \/ (q = p /\ m = head)
  BY <1>1, <1>3, <1>12 DEF NewOf, CutOf, Before
<1>16. Placed(s2)'
  <2>1. \A q \in Threads : \A m \in Nodes : Own(q, m)' <=> Own(q, m) \/ (q = p /\ m = head)
    BY <1>15 DEF Own
  <2>2. \A q \in Threads : ~Own(q, head)
    BY <1>2, <1>6 DEF Placed, TypeOK
  <2>3. \A q \in Threads : \A m \in Nodes : Own(q, m)' => m \notin On(s2) \cup free' \cup retired'
    BY <1>2, <1>3, <1>6, <1>9, <2>1 DEF Placed
  <2>4. \A q, r \in Threads : \A m \in Nodes : Own(q, m)' /\ Own(r, m)' => q = r
    BY <1>2, <2>1, <2>2 DEF Placed
  <2>5. \A q \in Threads : \A m \in Nodes : NewOf(q, m)' => next'[m] = Null
    BY <1>2, <1>3, <1>15 DEF Placed
  <2>6. On(s2) \cap free' = {} /\ On(s2) \cap retired' = {} /\ free' \cap retired' = {}
    BY <1>2, <1>3, <1>9 DEF Placed
  <2> QED BY <2>3, <2>4, <2>5, <2>6 DEF Placed
<1>17. \A m : Used(m)' <=> Used(m)
  BY <1>3, <1>15 DEF Used
<1>18. ASSUME NEW q \in Threads, q # p
       PROVE  /\ PushKnows(q, s2)' /\ PopKnows(q, s2)' /\ ValueKnown(q)' /\ (OnePusher => LinksLast(q, s2)')
              /\ pc'[q] \in PushLabels => q \in Pushers
  <2>1. 1 \in 1..Len(s2)
    BY <1>6, <1>8, <1>9
  <2>2. head' \in On(s2) /\ head \notin On(s2) /\ head' # head
    BY <2>1, <1>4, <1>9, <1>10 DEF On
  <2>3. /\ \A m \in Nodes : Used(m) /\ m \in On(s2) => m \in On(s)
        /\ \A m \in On(s) : m \in On(s2) /\ next[m] # Null => next'[m] = next[m]
        /\ \A m \in Nodes \ free : data'[m] = data[m]
    BY <1>3, <1>9
  <2> QED BY <1>10, <1>14, <1>17, <1>18, <2>2, <2>3, OthersKnow
<1>19. PushKnows(p, s2)' /\ LinksLast(p, s2)' /\ pc'[p] \notin PushLabels
  BY <1>12 DEF PushKnows, LinksLast, PushLabels, PushChecked, Before
<1>20. PopKnows(p, s2)' /\ ValueKnown(p)'
  <2>1. h'[p] \in Nodes
    BY <1>3 DEF TypeOK
  <2> QED BY <2>1, <1>12 DEF PopKnows, PopChecked, ValueKnown, Before
<1>21. Inv(s2)'
  BY <1>11, <1>16, <1>18, <1>19, <1>20 DEF Inv, OnePusher
<1> QED BY <1>8, <1>9, <1>13, <1>21

LEMMA PopSwingFails ==
    ASSUME NEW s \in Seq(Nodes), TypeOK, Inv(s), NEW p \in Poppers, PopSwing(p), head # h[p]
    PROVE  TypeOK' /\ Inv(s)'
<1>1. p \in Threads /\ pc[p] = "pop swing"
  BY DEF PopSwing, At, Threads
<1>2. UNCHANGED <<head, tail, next, data, free, retired, hazards, h, t, nxt, node, pushes, wasEmpty, forgot>>
  BY DEF PopSwing
<1>3. pc' = [pc EXCEPT ![p] = "pop head"] /\ value' = [value EXCEPT ![p] = Nothing]
  BY DEF PopSwing, Goto
<1>4. TypeOK'
  <2>1. pc' \in [Threads -> Labels]
    BY <1>3 DEF TypeOK, Labels
  <2>2. value' \in [Threads -> Values \cup {Nothing}]
    BY <1>3 DEF TypeOK
  <2> QED BY <1>2, <2>1, <2>2 DEF TypeOK
<1>5. OthersKeep(p) /\ pc'[p] = "pop head"
  BY <1>1, <1>2, <1>3 DEF TypeOK, OthersKeep
<1>6. \A n \in Nodes : (NewOf(p, n)' <=> NewOf(p, n)) /\ (CutOf(p, n)' <=> CutOf(p, n))
  BY <1>1, <1>2, <1>5 DEF NewOf, CutOf, Before
<1>7. PushKnows(p, s)' /\ LinksLast(p, s)' /\ pc'[p] \notin PushLabels
  BY <1>5 DEF PushKnows, LinksLast, Before, PushLabels, PushChecked
<1>8. PopKnows(p, s)' /\ ValueKnown(p)'
  BY <1>5 DEF PopKnows, PopChecked, ValueKnown, Before
<1> QED BY <1>1, <1>2, <1>4, <1>5, <1>6, <1>7, <1>8, ReadsOnly

\* The node that is cut loose is off the list.
LEMMA PopCutKeeps ==
    ASSUME NEW s \in Seq(Nodes), TypeOK, Inv(s), NEW p \in Poppers, PopCut(p)
    PROVE  TypeOK' /\ Inv(s)'
<1>1. p \in Threads /\ pc[p] = "pop cut" /\ List(s) /\ Placed(s)
  BY DEF PopCut, At, Threads, Inv
<1>2. UNCHANGED <<head, tail, data, free, retired, hazards, h, t, nxt, node, value, pushes, wasEmpty, forgot>>
  BY DEF PopCut
<1>3. next' = [next EXCEPT ![h[p]] = Null] /\ pc' = [pc EXCEPT ![p] = "pop free"]
  BY DEF PopCut, Goto
<1>4. PICK n \in Nodes : n = h[p]
  <2>1. PopKnows(p, s)
    BY <1>1 DEF Inv
  <2> QED BY <1>1, <2>1 DEF PopKnows
<1>5. CutOf(p, n) /\ n \notin On(s)
  <2>1. CutOf(p, n)
    BY <1>1, <1>4 DEF CutOf
  <2> QED BY <2>1, <1>1 DEF Placed, Own
<1>6. next' \in [Nodes -> Nodes \cup {Null}] /\ \A m \in Nodes : next'[m] = IF m = n THEN Null ELSE next[m]
  BY <1>3, <1>4 DEF TypeOK
<1>7. /\ pc' \in [Threads -> Labels] /\ pc'[p] = "pop free"
      /\ \A q \in Threads : q # p => pc'[q] = pc[q]
  BY <1>1, <1>3 DEF TypeOK, Labels
<1>8. TypeOK'
  BY <1>2, <1>6, <1>7 DEF TypeOK
<1>9. \A q \in Threads : q # p => Quiet(q)
  BY <1>2, <1>7 DEF Quiet
<1>10. List(s) /\ \A m \in On(s) : m \in Nodes /\ next'[m] = next[m]
  BY <1>1, <1>5, <1>6, NextOnList
<1>11. List(s)'
  <2>1. \A i \in 1..Len(s) : next'[s[i]] = next[s[i]]
    BY <1>10 DEF On
  <2>2. Len(s) \in Nat /\ Len(s) >= 1
    BY <1>10, ListFits
  <2>3. Len(s) \in 1..Len(s) /\ \A i \in 1..Len(s) - 1 : i \in 1..Len(s)
    BY <2>2
  <2> QED BY <1>1, <1>2, <2>1, <2>3 DEF List
<1>12. \A q \in Threads : \A m \in Nodes : (NewOf(q, m)' <=> NewOf(q, m)) /\ (CutOf(q, m)' <=> CutOf(q, m))
  BY <1>1, <1>2, <1>7 DEF NewOf, CutOf, Before
<1>13. Placed(s)'
  <2>1. \A q \in Threads : \A m \in Nodes : NewOf(q, m)' => next'[m] = Null
    BY <1>1, <1>6, <1>12 DEF Placed
  <2> QED BY <1>1, <1>2, <1>12, <2>1 DEF Placed, Own
<1>14. \A m : Used(m)' <=> Used(m)
  BY <1>2, <1>12 DEF Used
<1>15. ASSUME NEW q \in Threads, q # p
       PROVE  /\ PushKnows(q, s)' /\ PopKnows(q, s)' /\ ValueKnown(q)' /\ (OnePusher => LinksLast(q, s)')
              /\ pc'[q] \in PushLabels => q \in Pushers
  <2>1. head' \in On(s) /\ head' = head
    BY <1>10, <1>2, ListFits
  <2> QED BY <1>2, <1>9, <1>10, <1>14, <1>15, <2>1, OthersKnow
<1>16. PushKnows(p, s)' /\ LinksLast(p, s)' /\ pc'[p] \notin PushLabels
  BY <1>7 DEF PushKnows, LinksLast, PushLabels, PushChecked, Before
<1>17. PopKnows(p, s)' /\ ValueKnown(p)'
  BY <1>2, <1>4, <1>7 DEF PopKnows, PopChecked, ValueKnown, Before
<1> QED BY <1>8, <1>11, <1>13, <1>15, <1>16, <1>17 DEF Inv, OnePusher

LEMMA PopFreeKeeps ==
    ASSUME NEW s \in Seq(Nodes), TypeOK, Inv(s), NEW p \in Poppers, PopFree(p)
    PROVE  TypeOK' /\ Inv(s)'
<1>1. p \in Threads /\ pc[p] = "pop free" /\ PopReturn(p) /\ List(s) /\ Placed(s)
  BY DEF PopFree, At, Threads, Inv
<1>2. UNCHANGED <<head, tail, next, data, free, node, pushes, wasEmpty, forgot>> /\ retired' = retired \cup {h[p]}
  BY DEF PopFree
<1>3. PICK n \in Nodes : n = h[p]
  <2>1. PopKnows(p, s)
    BY <1>1 DEF Inv
  <2> QED BY <1>1, <2>1 DEF PopKnows
<1>4. CutOf(p, n) /\ n \notin On(s) \cup free \cup retired
  <2>1. CutOf(p, n)
    BY <1>1, <1>3 DEF CutOf
  <2> QED BY <2>1, <1>1 DEF Placed, Own
<1>5. /\ hazards' \in [Threads -> [1..2 -> Nodes \cup {Null}]] /\ pc' \in [Threads -> Labels]
      /\ h' \in [Threads -> Nodes \cup {Null}] /\ t' \in [Threads -> Nodes \cup {Null}]
      /\ nxt' \in [Threads -> Nodes \cup {Null}] /\ value' \in [Threads -> Values \cup {Nothing}]
  BY <1>1, Returns
<1>6. TypeOK'
  <2>1. retired' \subseteq Nodes /\ node' \in [Threads -> Nodes \cup {Null}]
    BY <1>2, <1>3 DEF TypeOK
  <2> QED BY <1>2, <1>5, <2>1 DEF TypeOK
<1>7. pc'[p] = "idle" /\ \A q \in Threads : q # p => Quiet(q)
  BY <1>1, <1>2, Returns DEF Quiet
<1>8. List(s)'
  BY <1>1, <1>2 DEF List
<1>9. \A q \in Threads : \A m \in Nodes :
         /\ NewOf(q, m)' <=> NewOf(q, m)
         /\ CutOf(q, m)' <=> CutOf(q, m) /\ q # p
  BY <1>1, <1>2, <1>7 DEF NewOf, CutOf, Before, Quiet
<1>10. Placed(s)'
  <2>1. \A q \in Threads : \A m \in Nodes : Own(q, m)' => Own(q, m) /\ q # p
    BY <1>1, <1>9 DEF Own, NewOf, Before
  <2>2. \A q \in Threads : \A m \in Nodes : Own(q, m)' => m # n
    BY <1>1, <1>4, <2>1, ZenonT(60) DEF Placed, Own
  <2>3. \A q \in Threads : \A m \in Nodes : Own(q, m)' => m \notin On(s) \cup free' \cup retired'
    BY <1>1, <1>2, <1>3, <2>1, <2>2 DEF Placed
  <2>4. \A q, r \in Threads : \A m \in Nodes : Own(q, m)' /\ Own(r, m)' => q = r
    BY <1>1, <2>1 DEF Placed
  <2>5. \A q \in Threads : \A m \in Nodes : NewOf(q, m)' => next'[m] = Null
    BY <1>1, <1>2, <1>9 DEF Placed
  <2>6. On(s) \cap free' = {} /\ On(s) \cap retired' = {} /\ free' \cap retired' = {}
    BY <1>1, <1>2, <1>3, <1>4 DEF Placed
  <2> QED BY <2>3, <2>4, <2>5, <2>6 DEF Placed
<1>11. \A m : Used(m)' <=> Used(m)
  BY <1>2, <1>9 DEF Used
<1>12. ASSUME NEW q \in Threads, q # p
       PROVE  /\ PushKnows(q, s)' /\ PopKnows(q, s)' /\ ValueKnown(q)' /\ (OnePusher => LinksLast(q, s)')
              /\ pc'[q] \in PushLabels => q \in Pushers
  <2>1. head' \in On(s) /\ head' = head
    BY <1>1, <1>2, ListFits
  <2> QED BY <1>2, <1>7, <1>11, <1>12, <2>1, OthersKnow
<1>13. PushKnows(p, s)' /\ LinksLast(p, s)' /\ pc'[p] \notin PushLabels
  BY <1>7 DEF PushKnows, LinksLast, PushLabels, PushChecked, Before
<1>14. PopKnows(p, s)' /\ ValueKnown(p)'
  BY <1>7 DEF PopKnows, PopChecked, ValueKnown, Before
<1> QED BY <1>6, <1>8, <1>10, <1>12, <1>13, <1>14 DEF Inv, OnePusher

\* What is given back is nobody's: a node that is used has a hazard pointer,
\* and this scan has not forgotten it.
LEMMA ReclaimKeeps ==
    ASSUME NEW s \in Seq(Nodes), TypeOK, Inv(s), NEW n \in Nodes, Reclaim(n), ~forgot'
    PROVE  TypeOK' /\ Inv(s)'
<1>1. n \in retired /\ List(s) /\ Placed(s)
  BY DEF Reclaim, Inv
<1>2. /\ \A p \in Threads : n \notin {hazards[p][1], hazards[p][2]}
      /\ retired' = retired \ {n} /\ free' = free \cup {n}
      /\ UNCHANGED <<head, tail, next, data, hazards, pc, h, t, nxt, node, value, pushes, wasEmpty>>
      /\ forgot' \in BOOLEAN
  <2>1. n \notin Named /\ n # Null
    BY QueueAssumption DEF Reclaim
  <2>2. \A p \in Threads : n \notin {hazards[p][1], hazards[p][2]}
    BY <2>1 DEF Named
  <2>3. forgot' \in BOOLEAN
    BY DEF Reclaim
  <2> QED BY <2>2, <2>3 DEF Reclaim, localVars
<1>3. TypeOK'
  BY <1>2 DEF TypeOK
<1>4. List(s)'
  BY <1>1, <1>2 DEF List
<1>5. \A q \in Threads : \A m \in Nodes : (NewOf(q, m)' <=> NewOf(q, m)) /\ (CutOf(q, m)' <=> CutOf(q, m))
  BY <1>2 DEF NewOf, CutOf
<1>6. Placed(s)'
  <2>1. \A q \in Threads : \A m \in Nodes : Own(q, m)' <=> Own(q, m)
    BY <1>5 DEF Own
  <2>2. \A q \in Threads : \A m \in Nodes : Own(q, m)' => m \notin On(s) \cup free' \cup retired'
    BY <1>1, <1>2, <2>1 DEF Placed
  <2>3. On(s) \cap free' = {} /\ On(s) \cap retired' = {} /\ free' \cap retired' = {}
    BY <1>1, <1>2 DEF Placed
  <2> QED BY <1>1, <1>2, <1>5, <2>1, <2>2, <2>3 DEF Placed
<1>7. ASSUME NEW q \in Threads
      PROVE  /\ PushKnows(q, s)' /\ PopKnows(q, s)' /\ ValueKnown(q)' /\ (OnePusher => LinksLast(q, s)')
             /\ pc'[q] \in PushLabels => q \in Pushers
  <2>1. head' \in On(s) /\ head' = head
    BY <1>1, <1>2, ListFits
  <2>2. \A m \in Nodes : Used(m) /\ m \in {hazards[q][1], hazards[q][2]} => Used(m)'
    BY <1>2, <1>5 DEF Used
  <2>3. Quiet(q)
    BY <1>2 DEF Quiet
  <2> QED BY <1>2, <2>1, <2>2, <2>3, OthersKnow
<1> QED BY <1>3, <1>4, <1>6, <1>7 DEF Inv, OnePusher

-----------------------------------------------------------------------------
(* The inductive invariant holds.                                          *)

LEMMA IInvInit == Init => IInv
<1> SUFFICES ASSUME Init PROVE IInv
  OBVIOUS
<1>1. PICK dummy \in Nodes :
        /\ head = dummy /\ tail = dummy /\ free = Nodes \ {dummy}
        /\ next = [n \in Nodes |-> Null] /\ data = [n \in Nodes |-> Nothing]
        /\ retired = {} /\ hazards = [p \in Threads |-> NoHazards]
        /\ pc = [p \in Threads |-> "idle"]
        /\ h = [p \in Threads |-> Null] /\ t = [p \in Threads |-> Null]
        /\ nxt = [p \in Threads |-> Null] /\ node = [p \in Threads |-> Null]
        /\ value = [p \in Threads |-> Nothing]
        /\ pushes = 0 /\ wasEmpty = [p \in Threads |-> FALSE] /\ forgot = FALSE
  BY DEF Init
<1>2. TypeOK
  <2>1. NoHazards \in [1..2 -> Nodes \cup {Null}]
    BY DEF NoHazards
  <2>2. 0 \in 0..MaxPushes
    BY QueueAssumption
  <2>3. {h, t, nxt, node} \subseteq [Threads -> Nodes \cup {Null}]
    BY <1>1
  <2> QED BY <1>1, <2>1, <2>2, <2>3 DEF TypeOK, Labels
<1>3. PICK s \in Seq(Nodes) : s = <<dummy>>
  <2>1. <<dummy>> \in Seq(Nodes)
    OBVIOUS
  <2> QED BY <2>1
<1>4. Len(s) = 1 /\ s[1] = dummy /\ s # <<>>
  BY <1>3
<1>5. On(s) = {dummy}
  BY <1>4 DEF On
<1>6. List(s)
  BY <1>1, <1>4, <1>5 DEF List
<1>7. \A p \in Threads : pc[p] = "idle"
  BY <1>1
<1>8. Placed(s)
  BY <1>1, <1>5, <1>7 DEF Placed, Own, NewOf, CutOf, Before
<1>9. \A p \in Threads : PushKnows(p, s) /\ LinksLast(p, s) /\ pc[p] \notin PushLabels
  BY <1>7 DEF PushKnows, LinksLast, PushLabels, PushChecked, Before
<1>10. \A p \in Threads : PopKnows(p, s) /\ ValueKnown(p)
  BY <1>7 DEF PopKnows, PopChecked, ValueKnown, Before
<1>11. Inv(s)
  BY <1>6, <1>8, <1>9, <1>10 DEF Inv
<1> QED BY <1>2, <1>11 DEF IInv

\* The steps that leave the list as it is.
LEMMA PushKeeps ==
    ASSUME NEW s \in Seq(Nodes), TypeOK, Inv(s), NEW p \in Pushers, Push(p),
           ~(PushLink(p) /\ next[t[p]] = Null)
    PROVE  TypeOK' /\ Inv(s)'
<1>1. p \in Threads
  BY DEF Threads
<1>2. CASE PushNew(p)
  BY <1>2, PushNewKeeps
<1>3. CASE PushTail(p)
  BY <1>3, PushTailKeeps
<1>4. CASE PushGuard(p)
  BY <1>4, PushGuardKeeps
<1>5. CASE PushCheck(p)
  BY <1>5, PushCheckKeeps
<1>6. CASE PushNext(p)
  BY <1>6, PushNextKeeps
<1>7. CASE PushCheckAgain(p)
  BY <1>7, PushCheckAgainKeeps
<1>8. CASE Help(p, "push help", "push tail")
  BY <1>1, <1>8, HelpKeeps
<1>9. CASE PushLink(p)
  BY <1>9, PushLinkFails
<1>10. CASE PushSwing(p)
  BY <1>10, PushSwingKeeps
<1> QED BY <1>2, <1>3, <1>4, <1>5, <1>6, <1>7, <1>8, <1>9, <1>10 DEF Push

LEMMA PopKeeps ==
    ASSUME NEW s \in Seq(Nodes), TypeOK, Inv(s), NEW p \in Poppers, Pop(p),
           ~(PopSwing(p) /\ head = h[p])
    PROVE  TypeOK' /\ Inv(s)'
<1>1. p \in Threads
  BY DEF Threads
<1>2. \/ PopBegin(p) \/ PopHead(p) \/ PopGuard(p) \/ PopCheck(p) \/ PopTail(p) \/ PopNext(p)
      \/ PopGuardNext(p) \/ PopCheckAgain(p) \/ Help(p, "pop help", "pop head") \/ PopEmpty(p)
      \/ PopRead(p) \/ PopSwing(p) \/ PopCut(p) \/ PopFree(p)
  BY DEF Pop
<1>3. CASE PopBegin(p)
  BY <1>3, PopBeginKeeps
<1>4. CASE PopHead(p)
  BY <1>4, PopHeadKeeps
<1>5. CASE PopGuard(p)
  BY <1>5, PopGuardKeeps
<1>6. CASE PopCheck(p)
  BY <1>6, PopCheckKeeps
<1>7. CASE PopTail(p)
  BY <1>7, PopTailKeeps
<1>8. CASE PopNext(p)
  BY <1>8, PopNextKeeps
<1>9. CASE PopGuardNext(p)
  BY <1>9, PopGuardNextKeeps
<1>10. CASE PopCheckAgain(p)
  BY <1>10, PopCheckAgainKeeps
<1>11. CASE Help(p, "pop help", "pop head")
  BY <1>1, <1>11, HelpKeeps
<1>12. CASE PopEmpty(p)
  BY <1>12, PopEmptyKeeps
<1>13. CASE PopRead(p)
  BY <1>13, PopReadKeeps
<1>14. CASE PopSwing(p)
  BY <1>14, PopSwingFails
<1>15. CASE PopCut(p)
  BY <1>15, PopCutKeeps
<1>16. CASE PopFree(p)
  BY <1>16, PopFreeKeeps
<1> QED BY <1>2, <1>3, <1>4, <1>5, <1>6, <1>7, <1>8, <1>9, <1>10, <1>11, <1>12, <1>13, <1>14, <1>15, <1>16

LEMMA TypeStutters ==
    ASSUME TypeOK, UNCHANGED vars
    PROVE  TypeOK'
BY DEF TypeOK, vars, localVars

LEMMA StutterKeeps ==
    ASSUME NEW s \in Seq(Nodes), TypeOK, Inv(s), UNCHANGED vars
    PROVE  TypeOK' /\ Inv(s)'
<1>1. UNCHANGED <<head, tail, next, data, free, retired, hazards, pc, h, t, nxt, node, value, pushes, wasEmpty, forgot>>
  BY DEF vars, localVars
<1>2. TypeOK'
  BY TypeStutters
<1>3. List(s)'
  BY <1>1 DEF Inv, List
<1>4. Placed(s)'
  <2>1. Placed(s)
    BY DEF Inv
  <2>2. \A q \in Threads : \A n \in Nodes : (NewOf(q, n)' <=> NewOf(q, n)) /\ (CutOf(q, n)' <=> CutOf(q, n))
    BY <1>1 DEF NewOf, CutOf
  <2>3. \A q \in Threads : \A n \in Nodes : Own(q, n)' <=> Own(q, n)
    BY <2>2 DEF Own
  <2> QED BY <2>1, <2>2, <2>3, <1>1 DEF Placed
<1>5. \A n : Used(n)' <=> Used(n)
  BY <1>1 DEF Used, NewOf
<1>6. ASSUME NEW q \in Threads
      PROVE  /\ PushKnows(q, s)' /\ PopKnows(q, s)' /\ ValueKnown(q)' /\ (OnePusher => LinksLast(q, s)')
             /\ pc'[q] \in PushLabels => q \in Pushers
  <2>1. Quiet(q)
    BY <1>1 DEF Quiet
  <2>2. head' \in On(s) /\ head' = head
    BY <1>1, ListFits DEF Inv
  <2> QED BY <1>1, <1>5, <2>1, <2>2, OthersKnow
<1> QED BY <1>2, <1>3, <1>4, <1>6 DEF Inv, OnePusher

LEMMA IInvStep == IInv /\ [Next]_vars /\ ~forgot' => IInv'
<1> SUFFICES ASSUME IInv, [Next]_vars, ~forgot' PROVE IInv'
  OBVIOUS
<1>1. PICK s \in Seq(Nodes) : Inv(s)
  BY DEF IInv
<1>2. TypeOK
  BY DEF IInv
<1>3. ASSUME NEW p \in Pushers, Push(p) PROVE IInv'
  <2>1. CASE PushLink(p) /\ next[t[p]] = Null
    <3>1. TypeOK' /\ \E s2 \in Seq(Nodes) : Inv(s2)'
      <4>1. CASE t[p] \in On(s)
        BY <4>1, <2>1, <1>1, <1>2, PushLinkKeeps
      <4>2. CASE t[p] \notin On(s)
        BY <4>2, <2>1, <1>1, <1>2, PushLinkKeeps
      <4> QED BY <4>1, <4>2
    <3> QED BY <3>1 DEF IInv
  <2>2. CASE ~(PushLink(p) /\ next[t[p]] = Null)
    <3>1. TypeOK' /\ Inv(s)'
      BY <2>2, <1>1, <1>2, <1>3, PushKeeps
    <3> QED BY <3>1 DEF IInv
  <2> QED BY <2>1, <2>2
<1>4. ASSUME NEW p \in Poppers, Pop(p) PROVE IInv'
  <2>1. CASE PopSwing(p) /\ head = h[p]
    <3>1. TypeOK' /\ \E s2 \in Seq(Nodes) : Inv(s2)'
      BY <2>1, <1>1, <1>2, PopSwingKeeps
    <3> QED BY <3>1 DEF IInv
  <2>2. CASE ~(PopSwing(p) /\ head = h[p])
    <3>1. TypeOK' /\ Inv(s)'
      BY <2>2, <1>1, <1>2, <1>4, PopKeeps
    <3> QED BY <3>1 DEF IInv
  <2> QED BY <2>1, <2>2
<1>5. ASSUME NEW n \in Nodes, Reclaim(n) PROVE IInv'
  <2>1. TypeOK' /\ Inv(s)'
    BY <1>1, <1>2, <1>5, ReclaimKeeps
  <2> QED BY <2>1 DEF IInv
<1>6. ASSUME UNCHANGED vars PROVE IInv'
  <2>1. TypeOK' /\ Inv(s)'
    BY <1>1, <1>2, <1>6, StutterKeeps
  <2> QED BY <2>1 DEF IInv
<1> QED BY <1>3, <1>4, <1>5, <1>6 DEF Next

\* What a scan has forgotten stays forgotten.
LEMMA ForgotStays == [Next]_vars /\ forgot => forgot'
<1> SUFFICES ASSUME [Next]_vars, forgot PROVE forgot'
  OBVIOUS
<1>1. ASSUME NEW p \in Pushers, Push(p) PROVE forgot'
  BY <1>1 DEF Push, PushNew, PushTail, PushGuard, PushCheck, PushNext, PushCheckAgain, Help, PushLink, PushSwing
<1>2. ASSUME NEW p \in Poppers, Pop(p) PROVE forgot'
  BY <1>2 DEF Pop, PopBegin, PopHead, PopGuard, PopCheck, PopTail, PopNext, PopGuardNext, PopCheckAgain, Help,
              PopEmpty, PopRead, PopSwing, PopCut, PopFree
<1>3. ASSUME NEW n \in Nodes, Reclaim(n) PROVE forgot'
  BY <1>3 DEF Reclaim
<1>4. ASSUME UNCHANGED vars PROVE forgot'
  BY <1>4 DEF vars
<1> QED BY <1>1, <1>2, <1>3, <1>4 DEF Next

\* Until a scan frees a node that a hazard pointer names, some sequence of
\* nodes is the list, and what every thread knows of it is so
\* (interlocked_queue_push, _pop).
THEOREM QueueInvariant == Spec => []Sound
<1>1. Init => Sound
  BY IInvInit DEF Sound
<1>2. Sound /\ [Next]_vars => Sound'
  BY IInvStep, ForgotStays DEF Sound
<1> QED BY <1>1, <1>2, PTL DEF Spec

-----------------------------------------------------------------------------
(* What follows from it.                                                   *)

\* No thread reads or writes a node whose memory has been given back, however
\* many threads push and pop: the hazard pointers are set early enough.  Until a
\* scan frees a node that one of them names.
THEOREM NeverFreedInUse == Spec => []NothingFreedInUse
<1>1. Sound => NothingFreedInUse
  <2> SUFFICES ASSUME TypeOK, NEW s \in Seq(Nodes), Inv(s), NEW p \in Threads
               PROVE  Touched(p) \cap free = {}
    BY DEF Sound, IInv, NothingFreedInUse
  <2>1. PushKnows(p, s) /\ PopKnows(p, s) /\ Placed(s)
    BY DEF Inv
  <2>2. CASE pc[p] \in {"push next", "push link"}
    <3>1. t[p] \notin free
      BY <2>1, <2>2 DEF PushKnows, PushChecked, Used
    <3> QED BY <2>2, <3>1 DEF Touched
  <2>3. CASE pc[p] = "pop next"
    <3>1. h[p] \notin free
      BY <2>1, <2>3 DEF PopKnows, PopChecked, Used
    <3> QED BY <2>3, <3>1 DEF Touched
  <2>4. CASE pc[p] = "pop cut"
    <3>1. h[p] \in Nodes
      BY <2>1, <2>4 DEF PopKnows
    <3>2. h[p] \notin free
      BY <2>1, <2>4, <3>1 DEF Placed, Own, CutOf
    <3> QED BY <2>4, <3>2 DEF Touched
  <2>5. CASE pc[p] = "pop read"
    <3>1. nxt[p] \notin free
      BY <2>1, <2>5 DEF PopKnows, Used
    <3> QED BY <2>5, <3>1 DEF Touched
  <2>6. CASE pc[p] \notin {"push next", "push link", "pop next", "pop cut", "pop read"}
    BY <2>6 DEF Touched
  <2> QED BY <2>2, <2>3, <2>4, <2>5, <2>6
<1> QED BY <1>1, QueueInvariant, PTL

\* head and tail are nodes of the list, and the tail is never behind the head,
\* until a scan frees a node in use.
THEOREM TailKeepsUp == Spec => []TailNotBehindHead
<1>1. Sound => TailNotBehindHead
  <2> SUFFICES ASSUME ~forgot, TypeOK, NEW s \in Seq(Nodes), Inv(s)
               PROVE  TailNotBehindHead
    BY DEF Sound, IInv, TailNotBehindHead
  <2>1. List(s) /\ Placed(s) /\ tail \in On(s)
    BY DEF Inv, List
  <2>2. head \in On(s) /\ Len(s) \in 1..Cardinality(Nodes) /\ Cardinality(Nodes) \in Nat
    BY <2>1, ListFits
  <2>3. {head, tail} \cap (free \cup retired) = {}
    BY <2>1, <2>2 DEF Placed
  <2>4. PICK j \in 1..Len(s) : s[j] = tail
    BY <2>1 DEF On
  <2>5. j - 1 \in 0..Cardinality(Nodes) /\ j - 1 < Len(s) /\ (j - 1) + 1 = j
    BY <2>2, <2>4
  <2>6. Chain[j - 1] = tail
    BY <2>1, <2>4, <2>5, ChainOfList
  <2> QED BY <2>3, <2>5, <2>6 DEF TailNotBehindHead
<1> QED BY <1>1, QueueInvariant, PTL

\* A pop that returns nothing ran while the queue was empty, until a scan frees
\* a node in use.
THEOREM EmptyWasEmpty == Spec => []EmptyPopSawEmpty
<1>1. Sound => EmptyPopSawEmpty
  BY DEF Sound, IInv, Inv, PopKnows, EmptyPopSawEmpty, At, Threads
<1> QED BY <1>1, QueueInvariant, PTL

-----------------------------------------------------------------------------
(* With one pusher the queue is the std::queue it replaced.                *)

CutLabels == {"pop cut", "pop free"}

\* The values of the list with a node linked to it, and with its first node
\* taken off, as sequences.
LEMMA HeldIsSeq ==
    ASSUME NEW s \in Seq(Nodes), Len(s) >= 1, TypeOK
    PROVE  Held(s) \in Seq(Values \cup {Nothing}) /\ Len(Held(s)) = Len(s) - 1
<1>1. PICK n \in Nat : n = Len(s) - 1
  OBVIOUS
<1>2. \A i \in 1..n : i + 1 \in 1..Len(s)
  BY <1>1
<1>3. \A i \in 1..n : data[s[i + 1]] \in Values \cup {Nothing}
  BY <1>2 DEF TypeOK
<1> QED BY <1>1, <1>3 DEF Held

LEMMA HeldAppend ==
    ASSUME NEW s \in Seq(Nodes), Len(s) >= 1, NEW n \in Nodes, TypeOK
    PROVE  Held(Append(s, n)) = Append(Held(s), data[n])
<1> DEFINE V == Values \cup {Nothing}
<1>1. PICK new \in Seq(Nodes) :
        /\ new = Append(s, n) /\ Len(new) = Len(s) + 1 /\ new[Len(s) + 1] = n
        /\ \A i \in 1..Len(s) : new[i] = s[i]
  BY Appending
<1>2. PICK k \in Nat : k = Len(s) /\ k >= 1
  OBVIOUS
<1>3. data[n] \in V
  BY DEF TypeOK
<1>4. PICK old \in Seq(V) : old = Held(s) /\ Len(old) = k - 1
  BY <1>2, HeldIsSeq
<1>5. /\ Append(old, data[n]) \in Seq(V) /\ Len(Append(old, data[n])) = k
      /\ \A i \in 1..k - 1 : Append(old, data[n])[i] = old[i]
      /\ Append(old, data[n])[k] = data[n]
  <2> HIDE DEF V
  <2>1. /\ Append(old, data[n]) \in Seq(V) /\ Len(Append(old, data[n])) = (k - 1) + 1
        /\ \A i \in 1..k - 1 : Append(old, data[n])[i] = old[i]
        /\ Append(old, data[n])[(k - 1) + 1] = data[n]
    BY <1>3, <1>4, AppendProperties
  <2>2. (k - 1) + 1 = k
    BY <1>2
  <2> QED BY <2>1, <2>2
<1>6. Held(new) \in Seq(V) /\ Len(Held(new)) = k
  <2>1. Len(new) >= 1 /\ Len(new) - 1 = k
    BY <1>1, <1>2
  <2> QED BY <2>1, HeldIsSeq
<1>7. ASSUME NEW i \in 1..k PROVE Held(new)[i] = Append(old, data[n])[i]
  <2>1. Held(new)[i] = data[new[i + 1]]
    <3>1. i \in 1..Len(new) - 1
      BY <1>1, <1>2
    <3> QED BY <3>1 DEF Held
  <2>2. CASE i = k
    BY <2>1, <2>2, <1>1, <1>2, <1>5
  <2>3. CASE i # k
    <3>1. i \in 1..k - 1 /\ i + 1 \in 1..Len(s)
      BY <2>3, <1>2
    <3>2. old[i] = data[s[i + 1]]
      BY <3>1, <1>2, <1>4 DEF Held
    <3> QED BY <3>1, <3>2, <2>1, <1>1, <1>5
  <2> QED BY <2>2, <2>3
<1>8. Held(new) = Append(old, data[n])
  <2> HIDE DEF V
  <2> QED BY <1>5, <1>6, <1>7, SeqEqual
<1> QED BY <1>1, <1>4, <1>8

LEMMA HeldTail ==
    ASSUME NEW s \in Seq(Nodes), Len(s) >= 2, TypeOK
    PROVE  /\ Held(s) # <<>> /\ Head(Held(s)) = data[s[2]]
           /\ Held(Tail(s)) = Tail(Held(s))
<1> DEFINE V == Values \cup {Nothing}
<1>1. PICK k \in Nat : k = Len(s) /\ k >= 2
  OBVIOUS
<1>2. PICK new \in Seq(Nodes) : new = Tail(s) /\ Len(new) = k - 1 /\ \A i \in 1..k - 1 : new[i] = s[i + 1]
  <2>1. s # <<>>
    BY <1>1
  <2>2. /\ Tail(s) \in Seq(Nodes) /\ Len(Tail(s)) = Len(s) - 1
        /\ \A i \in 1..Len(Tail(s)) : Tail(s)[i] = s[i + 1]
    BY <2>1, HeadTailProperties
  <2> QED BY <2>2, <1>1
<1>3. PICK old \in Seq(V) : old = Held(s) /\ Len(old) = k - 1
  <2>1. Len(s) >= 1
    BY <1>1
  <2> QED BY <2>1, <1>1, HeldIsSeq
<1>4. \A i \in 1..k - 1 : old[i] = data[s[i + 1]]
  BY <1>1, <1>3 DEF Held
<1>5. old # <<>> /\ Head(old) = data[s[2]]
  <2>1. 1 \in 1..k - 1 /\ k - 1 # 0
    BY <1>1
  <2>2. old # <<>>
    BY <2>1, <1>3
  <2>3. Head(old) = old[1]
    BY <2>2
  <2>4. old[1] = data[s[1 + 1]]
    BY <2>1, <1>4
  <2> QED BY <2>2, <2>3, <2>4
<1>6. /\ Tail(old) \in Seq(V) /\ Len(Tail(old)) = k - 2
      /\ \A i \in 1..k - 2 : Tail(old)[i] = old[i + 1]
  <2> HIDE DEF V
  <2>1. /\ Tail(old) \in Seq(V) /\ Len(Tail(old)) = (k - 1) - 1
        /\ \A i \in 1..Len(Tail(old)) : Tail(old)[i] = old[i + 1]
    BY <1>3, <1>5, HeadTailProperties
  <2>2. (k - 1) - 1 = k - 2
    BY <1>1
  <2> QED BY <2>1, <2>2
<1>7. Held(new) \in Seq(V) /\ Len(Held(new)) = k - 2
  <2>1. Len(new) >= 1 /\ Len(new) - 1 = k - 2
    BY <1>1, <1>2
  <2> QED BY <2>1, HeldIsSeq
<1>8. ASSUME NEW i \in 1..k - 2 PROVE Held(new)[i] = Tail(old)[i]
  <2>1. /\ i \in 1..Len(new) - 1 /\ i + 1 \in 1..k - 1
    BY <1>1, <1>2
  <2>2. Held(new)[i] = data[new[i + 1]]
    BY <2>1 DEF Held
  <2>3. new[i + 1] = s[(i + 1) + 1] /\ old[i + 1] = data[s[(i + 1) + 1]]
    BY <2>1, <1>2, <1>4
  <2> QED BY <2>2, <2>3, <1>6
<1>9. Held(new) = Tail(old)
  <2> HIDE DEF V
  <2> QED BY <1>6, <1>7, <1>8, SeqEqual
<1> QED BY <1>2, <1>3, <1>5, <1>9

\* The same facts about the next state.
LEMMA ContentsOfLists == \A s \in Seq(Nodes) : List(s) => Contents = Held(s)
BY ContentsOfList

LEMMA ContentsNext == (\A s \in Seq(Nodes) : List(s) => Contents = Held(s))'
BY ContentsOfLists, PTL

\* The list and its values stay as they are.
LEMMA ContentsStay ==
    ASSUME NEW s \in Seq(Nodes), List(s), List(s)', \A n \in On(s) : data'[n] = data[n]
    PROVE  Contents' = Contents
<1>1. Contents = Held(s) /\ Contents' = Held(s)'
  BY ContentsOfLists, ContentsNext
<1>2. ASSUME NEW i \in 1..Len(s) - 1 PROVE data'[s[i + 1]] = data[s[i + 1]]
  <2>1. Len(s) \in Nat
    OBVIOUS
  <2>2. i + 1 \in 1..Len(s)
    BY <2>1
  <2> QED BY <2>2 DEF On
<1> QED BY <1>1, <1>2 DEF Held

\* Nor does thread p come to have, or cease to have, a value to push or return.
Silent(p) ==
    /\ data' = data
    /\ \A q \in Threads : q # p => pc'[q] = pc[q] /\ value'[q] = value[q]
    /\ pc'[p] \in Before <=> pc[p] \in Before
    /\ pc'[p] \in CutLabels <=> pc[p] \in CutLabels
    /\ pc[p] \in Before \cup CutLabels => value'[p] = value[p]

LEMMA SilentStutters ==
    ASSUME NEW s \in Seq(Nodes), List(s), List(s)', NEW p \in Threads, Silent(p)
    PROVE  UNCHANGED Abstract!vars
<1>1. Contents' = Contents
  BY ContentsStay DEF Silent
<1>2. ASSUME NEW q \in Threads
      PROVE  /\ pc'[q] \in Before <=> pc[q] \in Before
             /\ pc'[q] \in CutLabels <=> pc[q] \in CutLabels
             /\ pc[q] \in Before \cup CutLabels => value'[q] = value[q]
  BY DEF Silent
<1>3. Pushing' = Pushing
  <2>1. \A q \in Pushers : (IF pc'[q] \in Before THEN value'[q] ELSE Nothing)
                           = (IF pc[q] \in Before THEN value[q] ELSE Nothing)
    BY <1>2 DEF Threads
  <2> QED BY <2>1 DEF Pushing
<1>4. Popped' = Popped
  <2>1. \A q \in Poppers : (IF pc'[q] \in CutLabels THEN value'[q] ELSE Nothing)
                           = (IF pc[q] \in CutLabels THEN value[q] ELSE Nothing)
    BY <1>2 DEF Threads
  <2> QED BY <2>1 DEF Popped, CutLabels
<1> QED BY <1>1, <1>3, <1>4 DEF Abstract!vars

LEMMA PushIsSilent ==
    ASSUME TypeOK, NEW p \in Pushers, Push(p), ~PushNew(p), ~(PushLink(p) /\ next[t[p]] = Null)
    PROVE  Silent(p)
<1>1. p \in Threads /\ pc \in [Threads -> Labels] /\ value \in [Threads -> Values \cup {Nothing}]
  BY DEF TypeOK, Threads
<1>2. CASE PushTail(p)
  BY <1>1, <1>2 DEF PushTail, At, Goto, Silent, Before, CutLabels
<1>3. CASE PushGuard(p)
  BY <1>1, <1>3 DEF PushGuard, At, Goto, Silent, Before, CutLabels
<1>4. CASE PushCheck(p)
  BY <1>1, <1>4 DEF PushCheck, At, Goto, Silent, Before, CutLabels
<1>5. CASE PushNext(p)
  BY <1>1, <1>5 DEF PushNext, At, Goto, Silent, Before, CutLabels
<1>6. CASE PushCheckAgain(p)
  BY <1>1, <1>6 DEF PushCheckAgain, At, Goto, Silent, Before, CutLabels
<1>7. CASE Help(p, "push help", "push tail")
  BY <1>1, <1>7 DEF Help, At, Goto, Silent, Before, CutLabels
<1>8. CASE PushLink(p) /\ next[t[p]] # Null
  BY <1>1, <1>8 DEF PushLink, At, Goto, Silent, Before, CutLabels
<1>9. CASE PushSwing(p)
  <2>1. /\ pc[p] = "push swing" /\ pc' = [pc EXCEPT ![p] = "idle"]
        /\ data' = data /\ value' = [value EXCEPT ![p] = Nothing]
    BY <1>9 DEF PushSwing, At, Goto
  <2> QED BY <1>1, <2>1 DEF Silent, Before, CutLabels
<1> QED BY <1>2, <1>3, <1>4, <1>5, <1>6, <1>7, <1>8, <1>9 DEF Push

LEMMA PopIsSilent ==
    ASSUME TypeOK, NEW p \in Poppers, Pop(p), ~PopFree(p), ~(PopSwing(p) /\ head = h[p])
    PROVE  Silent(p)
<1>1. p \in Threads /\ pc \in [Threads -> Labels] /\ value \in [Threads -> Values \cup {Nothing}]
  BY DEF TypeOK, Threads
<1>2. CASE PopBegin(p)
  BY <1>1, <1>2 DEF PopBegin, At, Goto, Silent, Before, CutLabels
<1>3. CASE PopHead(p)
  BY <1>1, <1>3 DEF PopHead, At, Goto, Silent, Before, CutLabels
<1>4. CASE PopGuard(p)
  BY <1>1, <1>4 DEF PopGuard, At, Goto, Silent, Before, CutLabels
<1>5. CASE PopCheck(p)
  BY <1>1, <1>5 DEF PopCheck, At, Goto, Silent, Before, CutLabels
<1>6. CASE PopTail(p)
  BY <1>1, <1>6 DEF PopTail, At, Goto, Silent, Before, CutLabels
<1>7. CASE PopNext(p)
  <2>1. /\ pc[p] = "pop next" /\ pc' = [pc EXCEPT ![p] = "pop guard next"]
        /\ data' = data /\ value' = value
    BY <1>7 DEF PopNext, At, Goto
  <2> QED BY <1>1, <2>1 DEF Silent, Before, CutLabels
<1>8. CASE PopGuardNext(p)
  BY <1>1, <1>8 DEF PopGuardNext, At, Goto, Silent, Before, CutLabels
<1>9. CASE PopCheckAgain(p)
  BY <1>1, <1>9 DEF PopCheckAgain, At, Goto, Silent, Before, CutLabels
<1>10. CASE Help(p, "pop help", "pop head")
  BY <1>1, <1>10 DEF Help, At, Goto, Silent, Before, CutLabels
<1>11. CASE PopEmpty(p)
  <2>1. /\ pc[p] = "pop empty" /\ pc' = [pc EXCEPT ![p] = "idle"]
        /\ data' = data /\ value' = [value EXCEPT ![p] = Nothing]
    BY <1>11 DEF PopEmpty, PopReturn, At, Goto
  <2> QED BY <1>1, <2>1 DEF Silent, Before, CutLabels
<1>12. CASE PopRead(p)
  <2>1. /\ pc[p] = "pop read" /\ pc' = [pc EXCEPT ![p] = "pop swing"]
        /\ data' = data /\ value' = [value EXCEPT ![p] = data[nxt[p]]]
    BY <1>12 DEF PopRead, At, Goto
  <2> QED BY <1>1, <2>1 DEF Silent, Before, CutLabels
<1>13. CASE PopSwing(p) /\ head # h[p]
  <2>1. /\ pc[p] = "pop swing" /\ pc' = [pc EXCEPT ![p] = "pop head"]
        /\ data' = data /\ value' = [value EXCEPT ![p] = Nothing]
    BY <1>13 DEF PopSwing, At, Goto
  <2> QED BY <1>1, <2>1 DEF Silent, Before, CutLabels
<1>14. CASE PopCut(p)
  BY <1>1, <1>14 DEF PopCut, At, Goto, Silent, Before, CutLabels
<1> QED BY <1>2, <1>3, <1>4, <1>5, <1>6, <1>7, <1>8, <1>9, <1>10, <1>11, <1>12, <1>13, <1>14 DEF Pop

\* The steps that are seen.  new node(val) is the call of the push.
LEMMA PushNewCalls ==
    ASSUME NEW s \in Seq(Nodes), TypeOK, Inv(s), Inv(s)', NEW p \in Pushers, PushNew(p)
    PROVE  Abstract!CallPush(p)
<1>1. p \in Threads /\ pc \in [Threads -> Labels] /\ value \in [Threads -> Values \cup {Nothing}]
  BY DEF TypeOK, Threads
<1>2. PICK n \in free : data' = [data EXCEPT ![n] = pushes + 1]
  BY DEF PushNew
<1>3. /\ pc[p] = "idle" /\ pc' = [pc EXCEPT ![p] = "push tail"]
      /\ value' = [value EXCEPT ![p] = pushes + 1]
  BY DEF PushNew, At, Goto
<1>4. pushes + 1 \in Values
  <2>1. pushes < MaxPushes
    BY DEF PushNew
  <2>2. pushes \in 0..MaxPushes /\ MaxPushes \in Nat
    BY QueueAssumption DEF TypeOK
  <2> QED BY <2>1, <2>2 DEF Values
<1>5. List(s) /\ List(s)' /\ Placed(s)
  BY DEF Inv
<1>6. \A m \in On(s) : data'[m] = data[m]
  <2>1. \A m \in On(s) : m # n /\ m \in Nodes
    BY <1>5 DEF Placed, On
  <2> QED BY <2>1, <1>2 DEF TypeOK
<1>7. Contents' = Contents
  BY <1>5, <1>6, ContentsStay
<1>8. Pushing[p] = Nothing /\ Pushing' = [Pushing EXCEPT ![p] = pushes + 1]
  BY <1>1, <1>3 DEF Pushing, Before, Threads
<1>9. Popped' = Popped
  BY <1>1, <1>3 DEF Popped, Threads
<1> QED BY <1>4, <1>7, <1>8, <1>9 DEF Abstract!CallPush

\* Linking the node to the last one is the push.
LEMMA PushLinkPushes ==
    ASSUME NEW s \in Seq(Nodes), TypeOK, Inv(s), OnePusher, NEW p \in Pushers, PushLink(p), next[t[p]] = Null
    PROVE  Abstract!Push(p)
<1>1. p \in Threads /\ pc \in [Threads -> Labels] /\ value \in [Threads -> Values \cup {Nothing}]
  BY DEF TypeOK, Threads
<1>2. /\ pc[p] = "push link" /\ pc' = [pc EXCEPT ![p] = "push swing"]
      /\ data' = data /\ value' = value
  BY DEF PushLink, At, Goto
<1>3. List(s) /\ LinksLast(p, s) /\ PushKnows(p, s) /\ ValueKnown(p)
  BY <1>1 DEF Inv
<1>4. t[p] \in On(s)
  <2>1. t[p] = s[Len(s)]
    BY <1>2, <1>3 DEF LinksLast
  <2>2. List(s)
    BY <1>3
  <2> QED BY <2>1, <2>2, ListFits
<1>5. PICK s2 \in Seq(Nodes) : s2 = Append(s, node[p]) /\ Inv(s2)'
  BY <1>4, PushLinkKeeps
<1>6. PICK n \in Nodes : n = node[p] /\ data[n] = value[p] /\ value[p] \in Values
  BY <1>2, <1>3 DEF PushKnows, ValueKnown, PushLabels, Before
<1>7. Contents = Held(s) /\ Contents' = Held(s2)'
  <2>1. List(s2)'
    BY <1>5 DEF Inv
  <2> QED BY <2>1, <1>3, ContentsOfLists, ContentsNext
<1>8. Held(s2)' = Held(s2)
  BY <1>2 DEF Held
<1>9. Held(s2) = Append(Held(s), data[n])
  <2>1. List(s)
    BY <1>3
  <2>2. Len(s) >= 1
    BY <2>1, ListFits
  <2> QED BY <2>2, <1>5, <1>6, HeldAppend
<1>10. /\ Pushing[p] = value[p] /\ value[p] # Nothing
       /\ Pushing' = [Pushing EXCEPT ![p] = Nothing]
  <2>1. value[p] # Nothing
    BY <1>6 DEF Values, Nothing
  <2> QED BY <2>1, <1>1, <1>2 DEF Pushing, Before, Threads
<1>11. Popped' = Popped
  BY <1>1, <1>2 DEF Popped, Threads
<1> QED BY <1>6, <1>7, <1>8, <1>9, <1>10, <1>11 DEF Abstract!Push

\* Moving the head is the pop.
LEMMA PopSwingPops ==
    ASSUME NEW s \in Seq(Nodes), TypeOK, Inv(s), NEW p \in Poppers, PopSwing(p), head = h[p]
    PROVE  Abstract!Pop(p)
<1>1. p \in Threads /\ pc \in [Threads -> Labels] /\ value \in [Threads -> Values \cup {Nothing}]
  BY DEF TypeOK, Threads
<1>2. /\ pc[p] = "pop swing" /\ pc' = [pc EXCEPT ![p] = "pop cut"]
      /\ data' = data /\ value' = value
  BY DEF PopSwing, At, Goto
<1>3. List(s) /\ ValueKnown(p)
  BY <1>1 DEF Inv
<1>4. Len(s) >= 2 /\ nxt[p] = s[2]
  BY PopSwingKeeps
<1>5. PICK s2 \in Seq(Nodes) : s2 = Tail(s) /\ Inv(s2)'
  BY PopSwingKeeps
<1>6. value[p] = data[s[2]]
  BY <1>2, <1>3, <1>4 DEF ValueKnown
<1>7. Contents = Held(s) /\ Contents' = Held(s2)'
  <2>1. List(s2)'
    BY <1>5 DEF Inv
  <2> QED BY <2>1, <1>3, ContentsOfLists, ContentsNext
<1>8. Held(s2)' = Held(s2)
  BY <1>2 DEF Held
<1>9. Held(s) # <<>> /\ Head(Held(s)) = value[p] /\ Held(s2) = Tail(Held(s))
  BY <1>4, <1>5, <1>6, HeldTail
<1>10. Popped[p] = Nothing /\ Popped' = [Popped EXCEPT ![p] = value[p]]
  BY <1>1, <1>2 DEF Popped, Threads
<1>11. Pushing' = Pushing
  BY <1>1, <1>2 DEF Pushing, Before, Threads
<1> QED BY <1>7, <1>8, <1>9, <1>10, <1>11 DEF Abstract!Pop

\* return true.
LEMMA PopFreeReturns ==
    ASSUME NEW s \in Seq(Nodes), TypeOK, Inv(s), Inv(s)', NEW p \in Poppers, PopFree(p)
    PROVE  Abstract!ReturnPop(p)
<1>1. p \in Threads /\ pc \in [Threads -> Labels] /\ value \in [Threads -> Values \cup {Nothing}]
  BY DEF TypeOK, Threads
<1>2. /\ pc[p] = "pop free" /\ pc' = [pc EXCEPT ![p] = "idle"]
      /\ data' = data /\ value' = [value EXCEPT ![p] = Nothing]
  BY DEF PopFree, PopReturn, At, Goto
<1>3. Contents' = Contents
  BY <1>2, ContentsStay DEF Inv
<1>4. Popped' = [Popped EXCEPT ![p] = Nothing]
  BY <1>1, <1>2 DEF Popped, Threads
<1>5. Pushing' = Pushing
  BY <1>1, <1>2 DEF Pushing, Before, Threads
<1> QED BY <1>3, <1>4, <1>5 DEF Abstract!ReturnPop

LEMMA FifoInit == Init => Abstract!Init
<1> SUFFICES ASSUME Init PROVE Abstract!Init
  OBVIOUS
<1>1. PICK dummy \in Nodes : head = dummy /\ next = [n \in Nodes |-> Null] /\ tail = dummy
                             /\ pc = [p \in Threads |-> "idle"]
  BY DEF Init
<1>2. PICK s \in Seq(Nodes) : s = <<dummy>>
  <2>1. <<dummy>> \in Seq(Nodes)
    OBVIOUS
  <2> QED BY <2>1
<1>3. Len(s) = 1 /\ s[1] = dummy /\ s # <<>>
  BY <1>2
<1>4. List(s)
  BY <1>1, <1>3 DEF List, On
<1>5. Contents = <<>>
  <2>1. Contents = Held(s)
    BY <1>4, ContentsOfList
  <2> QED BY <2>1, <1>3 DEF Held
<1>6. Pushing = [p \in Pushers |-> Nothing] /\ Popped = [p \in Poppers |-> Nothing]
  BY <1>1 DEF Pushing, Popped, Before, Threads
<1> QED BY <1>5, <1>6 DEF Abstract!Init

LEMMA FifoStep == OnePusher /\ IInv /\ [Next]_vars /\ ~forgot' => [Abstract!Next]_(Abstract!vars)
<1> SUFFICES ASSUME OnePusher, IInv, [Next]_vars, ~forgot' PROVE [Abstract!Next]_(Abstract!vars)
  OBVIOUS
<1>1. PICK s \in Seq(Nodes) : Inv(s)
  BY DEF IInv
<1>2. TypeOK /\ List(s)
  BY <1>1 DEF IInv, Inv
<1>3. ASSUME NEW p \in Pushers, Push(p) PROVE [Abstract!Next]_(Abstract!vars)
  <2>1. CASE PushLink(p) /\ next[t[p]] = Null
    <3>1. Abstract!Push(p)
      BY <2>1, <1>1, <1>2, PushLinkPushes
    <3> QED BY <3>1 DEF Abstract!Next
  <2>2. CASE ~(PushLink(p) /\ next[t[p]] = Null)
    <3>1. Inv(s)' /\ List(s)'
      BY <2>2, <1>1, <1>2, <1>3, PushKeeps DEF Inv
    <3>2. CASE PushNew(p)
      <4>1. Abstract!CallPush(p)
        BY <3>1, <3>2, <1>1, <1>2, PushNewCalls
      <4> QED BY <4>1 DEF Abstract!Next
    <3>3. CASE ~PushNew(p)
      <4>1. Silent(p) /\ p \in Threads
        BY <3>3, <2>2, <1>2, <1>3, PushIsSilent DEF Threads
      <4> QED BY <4>1, <3>1, <1>2, SilentStutters
    <3> QED BY <3>2, <3>3
  <2> QED BY <2>1, <2>2
<1>4. ASSUME NEW p \in Poppers, Pop(p) PROVE [Abstract!Next]_(Abstract!vars)
  <2>1. CASE PopSwing(p) /\ head = h[p]
    <3>1. Abstract!Pop(p)
      BY <2>1, <1>1, <1>2, PopSwingPops
    <3> QED BY <3>1 DEF Abstract!Next
  <2>2. CASE ~(PopSwing(p) /\ head = h[p])
    <3>1. Inv(s)' /\ List(s)'
      BY <2>2, <1>1, <1>2, <1>4, PopKeeps DEF Inv
    <3>2. CASE PopFree(p)
      <4>1. Abstract!ReturnPop(p)
        BY <3>1, <3>2, <1>1, <1>2, PopFreeReturns
      <4> QED BY <4>1 DEF Abstract!Next
    <3>3. CASE ~PopFree(p)
      <4>1. Silent(p) /\ p \in Threads
        BY <3>3, <2>2, <1>2, <1>4, PopIsSilent DEF Threads
      <4> QED BY <4>1, <3>1, <1>2, SilentStutters
    <3> QED BY <3>2, <3>3
  <2> QED BY <2>1, <2>2
<1>5. ASSUME NEW n \in Nodes, Reclaim(n) PROVE UNCHANGED Abstract!vars
  <2>1. List(s)'
    BY <1>1, <1>2, <1>5, ReclaimKeeps DEF Inv
  <2>2. UNCHANGED <<data, pc, value>>
    BY <1>5 DEF Reclaim, localVars
  <2>3. Contents' = Contents
    BY <1>2, <2>1, <2>2, ContentsStay
  <2> QED BY <2>2, <2>3 DEF Abstract!vars, Pushing, Popped
<1>6. ASSUME UNCHANGED vars PROVE UNCHANGED Abstract!vars
  <2>1. List(s)'
    BY <1>1, <1>2, <1>6, StutterKeeps DEF Inv
  <2>2. UNCHANGED <<data, pc, value>>
    BY <1>6 DEF vars, localVars
  <2>3. Contents' = Contents
    BY <1>2, <2>1, <2>2, ContentsStay
  <2> QED BY <2>2, <2>3 DEF Abstract!vars, Pushing, Popped
<1> QED BY <1>3, <1>4, <1>5, <1>6 DEF Next

\* With one pusher every step of interlocked_queue_push and _pop is a step of
\* the std::queue behind a lock, or none: what is pushed is popped once, in
\* order.  Until a scan frees a node in use.
THEOREM ImplementsStdQueue ==
    ASSUME OnePusher
    PROVE  Spec => ImplementsFifo
<1>1. Sound /\ [Next]_vars => [forgot' \/ Abstract!Next]_(Abstract!vars)
  <2> SUFFICES ASSUME Sound, [Next]_vars, ~forgot' PROVE [Abstract!Next]_(Abstract!vars)
    OBVIOUS
  <2>1. IInv
    BY ForgotStays DEF Sound
  <2> QED BY <2>1, FifoStep
<1> QED BY <1>1, FifoInit, QueueInvariant, PTL DEF Spec, ImplementsFifo
=============================================================================
