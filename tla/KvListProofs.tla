---------------------------- MODULE KvListProofs ----------------------------
(***************************************************************************)
(* interlocked_kv_list.c, for any number of threads, nodes, keys and       *)
(* calls: the list stays sorted, without duplicates and clear of memory    *)
(* given back, and implements the map behind a lock.                       *)
(*                                                                         *)
(* The inductive invariant says that some set of nodes, each with a key of *)
(* its own, is the list: every link leads to the node with the next larger *)
(* key (List).  An insertion adds a node, an erasure removes one.  Placed  *)
(* says where all other nodes are; Knows, what a call's locals have to do  *)
(* with the list.                                                          *)
(***************************************************************************)
EXTENDS KvList, TLAPS, FiniteSetTheorems

-----------------------------------------------------------------------------
(* The inductive invariant.                                                *)

Labels == {"idle", "head", "check", "next", "compare", "value", "link", "mark", "unlink", "return"}

Types ==
    /\ next \in [Nodes \cup {Root} -> Nodes \cup {Null}]
    /\ key \in [Nodes -> Keys \cup {NoKey}] /\ value \in [Nodes -> Threads \cup {Null}]
    /\ free \subseteq Nodes /\ retired \subseteq Nodes
    /\ pc \in [Threads -> Labels] /\ op \in [Threads -> Ops \cup {NoOp}]
    /\ sought \in [Threads -> Keys \cup {NoKey}] /\ node \in [Threads -> Nodes \cup {Null}]
    /\ prev \in [Threads -> Nodes \cup {Root}]
    /\ current \in [Threads -> Nodes \cup {Null}] /\ nxt \in [Threads -> Nodes \cup {Null}]
    /\ missing \in [Threads -> BOOLEAN] /\ answer \in [Threads -> BOOLEAN \cup Threads \cup {Null}]

\* The root comes before every key.
K(n) == IF n = Root THEN 0 ELSE key[n]

\* a is the node of L that comes after n.
Follows(L, n, a) ==
    /\ a # Null => a \in L /\ K(n) < K(a)
    /\ \A m \in L : K(n) < K(m) => a # Null /\ K(a) <= K(m)

\* L is the list.
List(L) ==
    /\ \A n \in L : key[n] \in Keys /\ value[n] \in Threads
    /\ \A m, n \in L : key[m] = key[n] => m = n
    /\ \A n \in L \cup {Root} : Follows(L, n, After(n))
    /\ \A n \in L : \E m \in L \cup {Root} : After(m) = n

\* The node an insertion has not linked yet.
Own(p, n) == op[p] = "insert" /\ pc[p] \in {"head", "check", "next", "compare", "link"} /\ node[p] = n

Placed(L) ==
    /\ L \cap free = {} /\ L \cap retired = {} /\ free \cap retired = {}
    /\ \A p \in Threads : \A n \in Nodes : Own(p, n) => n \notin L \cup free \cup retired
    /\ \A p, q \in Threads : \A n \in Nodes : Own(p, n) /\ Own(q, n) => p = q

\* A call that erases has the list to itself.
ErasesAlone == \A p, q \in Threads : op[p] = "erase" /\ q # p => pc[q] = "idle"

\* What a call is, by its place.
Called(p) ==
    /\ pc[p] = "idle" => op[p] = NoOp /\ answer[p] = Null
    /\ pc[p] # "idle" => op[p] \in Ops /\ sought[p] \in Keys
    /\ pc[p] = "link" => op[p] = "insert"
    /\ pc[p] = "value" => op[p] = "find"
    /\ pc[p] \in {"mark", "unlink"} => op[p] = "erase"
    /\ pc[p] = "return" => answer[p] # Null
    /\ op[p] = "insert" /\ pc[p] \in {"head", "check", "next", "compare", "link"} =>
          node[p] \in Nodes /\ key[node[p]] = sought[p] /\ value[node[p]] = p

InList == {"check", "next", "compare", "link", "value", "mark", "unlink"}

\* Where a find has come to.
Knows(p, L) ==
    /\ pc[p] \in InList => prev[p] \in L \cup {Root} /\ K(prev[p]) < sought[p]
    /\ pc[p] \in InList /\ current[p] # Null => current[p] \in L /\ K(prev[p]) < K(current[p])
    /\ pc[p] \in InList \ {"link"} => current[p] # Null
    /\ pc[p] = "link" /\ current[p] # Null => sought[p] < K(current[p])
    /\ pc[p] \in {"value", "mark", "unlink"} => key[current[p]] = sought[p]
    /\ pc[p] \in {"compare", "mark", "unlink"} /\ nxt[p] # Null => nxt[p] \in L /\ K(current[p]) < K(nxt[p])

\* A key that is not there, or was not when the find read the end of the list,
\* was not there when the call began: nobody erases meanwhile.
Misses(p, L) ==
    /\ Pending(p) /\ (\A n \in L : key[n] # sought[p]) => missing[p]
    /\ pc[p] = "compare" /\ K(current[p]) < sought[p] /\ nxt[p] = Null => missing[p]

Inv(L) ==
    /\ List(L) /\ Placed(L) /\ ErasesAlone
    /\ \A p \in Threads : Called(p) /\ Knows(p, L) /\ Misses(p, L)

IInv == Types /\ \E L \in SUBSET Nodes : Inv(L)

-----------------------------------------------------------------------------
(* Walk visits the list in order.                                          *)

LEMMA NatLeast ==
    ASSUME NEW S, S \subseteq Nat, S # {}
    PROVE  \E m \in S : \A k \in S : ~(k < m)
<1>1. PICK m \in S : \A k \in S : ~(<<k, m>> \in OpToRel(<, Nat))
  BY NatLessThanWellFounded, WFMin
<1> QED BY <1>1 DEF OpToRel

\* The keys of a list, and of its root.
LEMMA Keyed ==
    ASSUME NEW L \in SUBSET Nodes, List(L)
    PROVE  /\ K(Root) = 0
           /\ \A n \in L : K(n) = key[n] /\ K(n) \in Nat /\ K(n) > 0 /\ n # Root /\ n # Null
           /\ \A n \in L \cup {Root} : K(n) \in Nat
           /\ \A m, n \in L \cup {Root} : K(m) = K(n) => m = n
<1>1. K(Root) = 0
  BY DEF K
<1>2. ASSUME NEW n \in L PROVE K(n) = key[n] /\ K(n) \in Nat /\ K(n) > 0 /\ n # Root /\ n # Null
  <2>1. n # Root /\ n # Null /\ key[n] \in Keys
    BY KvListAssumption DEF List
  <2>2. key[n] \in Nat \ {0}
    BY <2>1, KvListAssumption
  <2> QED BY <2>1, <2>2 DEF K
<1>3. ASSUME NEW m \in L \cup {Root}, NEW n \in L \cup {Root}, K(m) = K(n) PROVE m = n
  <2>1. CASE m \in L /\ n \in L
    BY <2>1, <1>2, <1>3 DEF List
  <2>2. CASE m = Root \/ n = Root
    BY <2>2, <1>1, <1>2, <1>3
  <2> QED BY <2>1, <2>2
<1> QED BY <1>1, <1>2, <1>3

\* How far down the list a node is.
Rank(L, n) == Cardinality({m \in L : K(m) <= K(n)})

LEMMA RankType ==
    ASSUME NEW L \in SUBSET Nodes, List(L)
    PROVE  /\ Cardinality(Nodes) \in Nat /\ IsFiniteSet(L)
           /\ \A n \in L \cup {Root} : Rank(L, n) \in 0..Cardinality(Nodes) /\ IsFiniteSet({m \in L : K(m) <= K(n)})
           /\ Rank(L, Root) = 0
           /\ \A n \in L : Rank(L, n) # 0
<1>1. IsFiniteSet(Nodes) /\ Cardinality(Nodes) \in Nat
  BY KvListAssumption, FS_CardinalityType
<1>2. ASSUME NEW S \in SUBSET L PROVE IsFiniteSet(S) /\ Cardinality(S) \in 0..Cardinality(Nodes)
  <2>1. IsFiniteSet(S) /\ Cardinality(S) <= Cardinality(Nodes)
    BY <1>1, FS_Subset
  <2>2. Cardinality(S) \in Nat
    BY <2>1, FS_CardinalityType
  <2> QED BY <2>1, <2>2, <1>1
<1>3. Rank(L, Root) = 0
  <2>1. {m \in L : K(m) <= K(Root)} = {}
    BY Keyed
  <2> QED BY <2>1, FS_EmptySet DEF Rank
<1>4. ASSUME NEW n \in L PROVE Rank(L, n) # 0
  <2>1. n \in {m \in L : K(m) <= K(n)}
    BY Keyed
  <2>2. IsFiniteSet({m \in L : K(m) <= K(n)})
    BY <1>2
  <2> QED BY <2>1, <2>2, FS_EmptySet DEF Rank
<1> QED BY <1>1, <1>2, <1>3, <1>4 DEF Rank

LEMMA RankStep ==
    ASSUME NEW L \in SUBSET Nodes, List(L), NEW n \in L \cup {Root}, After(n) # Null
    PROVE  After(n) \in L /\ Rank(L, After(n)) = Rank(L, n) + 1
<1> DEFINE S == {m \in L : K(m) <= K(n)}
<1>1. PICK a \in L : a = After(n) /\ K(n) < K(a) /\ \A m \in L : K(n) < K(m) => K(a) <= K(m)
  BY DEF List, Follows
<1>2. /\ \A m \in L : K(m) \in Nat /\ (K(m) = K(a) => m = a)
      /\ K(n) \in Nat /\ K(a) \in Nat
  BY Keyed
<1>3. {m \in L : K(m) <= K(a)} = S \cup {a} /\ a \notin S
  BY <1>1, <1>2
<1>4. IsFiniteSet(S)
  BY RankType
<1>5. Cardinality(S \cup {a}) = Cardinality(S) + 1
  BY <1>3, <1>4, FS_AddElement
<1> QED BY <1>1, <1>3, <1>5 DEF Rank

LEMMA RankDistinct ==
    ASSUME NEW L \in SUBSET Nodes, List(L), NEW m \in L \cup {Root}, NEW n \in L \cup {Root},
           Rank(L, m) = Rank(L, n)
    PROVE  m = n
<1>1. ASSUME NEW a \in L \cup {Root}, NEW b \in L, K(a) < K(b) PROVE Rank(L, a) # Rank(L, b)
  <2> DEFINE S == {x \in L : K(x) <= K(a)}
             T == {x \in L : K(x) <= K(b)}
  <2>1. IsFiniteSet(S) /\ IsFiniteSet(T) /\ Cardinality(S) = Rank(L, a) /\ Cardinality(T) = Rank(L, b)
    BY RankType DEF Rank
  <2>2. S \subseteq T /\ b \in T /\ b \notin S
    BY <1>1, Keyed
  <2>3. Cardinality(S) # Cardinality(T)
    <3> HIDE DEF S, T
    <3> QED BY <2>1, <2>2, FS_Subset
  <2> QED BY <2>1, <2>3
<1>2. K(m) \in Nat /\ K(n) \in Nat /\ (K(m) = K(n) => m = n)
  BY Keyed
<1>3. CASE K(m) < K(n)
  <2>1. n \in L
    BY <1>2, <1>3, Keyed
  <2> QED BY <2>1, <1>1, <1>3
<1>4. CASE K(n) < K(m)
  <2>1. m \in L
    BY <1>2, <1>4, Keyed
  <2> QED BY <2>1, <1>1, <1>4
<1> QED BY <1>2, <1>3, <1>4

\* One step of Walk, as a function of the whole.
Follow(f) == [i \in 0..Cardinality(Nodes) |-> IF i = 0 THEN Root ELSE After(f[i - 1])]

\* Walk is what its definition says: there is such a function.
LEMMA WalkDefined ==
    ASSUME NEW f, f = Follow(f)
    PROVE  Walk = Follow(Walk)
BY DEF Walk, Follow

\* The list by rank.
Ranked(L) ==
    [i \in 0..Cardinality(Nodes) |->
        IF \E n \in L \cup {Root} : Rank(L, n) = i THEN CHOOSE n \in L \cup {Root} : Rank(L, n) = i ELSE Null]

LEMMA RankedIs ==
    ASSUME NEW L \in SUBSET Nodes, List(L), NEW n \in L \cup {Root}
    PROVE  Rank(L, n) \in 0..Cardinality(Nodes) /\ Ranked(L)[Rank(L, n)] = n
<1>1. Rank(L, n) \in 0..Cardinality(Nodes)
  BY RankType
<1>2. PICK m : m = CHOOSE x \in L \cup {Root} : Rank(L, x) = Rank(L, n)
  OBVIOUS
<1>3. m \in L \cup {Root} /\ Rank(L, m) = Rank(L, n)
  BY <1>2
<1>4. m = n
  BY <1>3, RankDistinct
<1> QED BY <1>1, <1>2, <1>4 DEF Ranked

LEMMA RankedFollows ==
    ASSUME NEW L \in SUBSET Nodes, List(L)
    PROVE  Ranked(L) = Follow(Ranked(L))
<1> DEFINE f == Ranked(L)
           N == Cardinality(Nodes)
<1>1. f[0] = Root
  BY RankType, RankedIs
<1>2. ASSUME NEW i \in 1..N PROVE f[i] = After(f[i - 1])
  <2>1. i \in 0..N /\ i - 1 \in 0..N /\ i # 0 /\ (i - 1) + 1 = i
    BY RankType
  <2>2. CASE \E n \in L \cup {Root} : Rank(L, n) = i - 1 /\ After(n) # Null
    <3>1. PICK n \in L \cup {Root} : Rank(L, n) = i - 1 /\ After(n) # Null
      BY <2>2
    <3>2. f[i - 1] = n
      BY <3>1, RankedIs
    <3>3. After(n) \in L /\ Rank(L, After(n)) = i
      BY <3>1, <2>1, RankStep
    <3>4. f[i] = After(n)
      BY <3>3, RankedIs
    <3> QED BY <3>2, <3>4
  <2>3. CASE ~\E n \in L \cup {Root} : Rank(L, n) = i - 1 /\ After(n) # Null
    <3>1. ASSUME NEW m \in L \cup {Root}, Rank(L, m) = i PROVE FALSE
      <4>1. m \in L
        BY <3>1, <2>1, RankType
      <4>2. PICK n \in L \cup {Root} : After(n) = m
        BY <4>1 DEF List
      <4>3. After(n) # Null /\ Rank(L, n) \in 0..N
        BY <4>1, <4>2, Keyed, RankType
      <4>4. i = Rank(L, n) + 1
        BY <4>2, <4>3, <3>1, RankStep
      <4>5. Rank(L, n) = i - 1
        BY <4>3, <4>4
      <4> QED BY <4>3, <4>5, <2>3
    <3>2. f[i] = Null
      BY <3>1, <2>1 DEF Ranked
    <3>3. After(f[i - 1]) = Null
      <4>1. CASE \E n \in L \cup {Root} : Rank(L, n) = i - 1
        <5>1. PICK n \in L \cup {Root} : Rank(L, n) = i - 1
          BY <4>1
        <5>2. f[i - 1] = n
          BY <5>1, RankedIs
        <5> QED BY <5>1, <5>2, <2>3
      <4>2. CASE ~\E n \in L \cup {Root} : Rank(L, n) = i - 1
        <5>1. f[i - 1] = Null
          BY <4>2, <2>1 DEF Ranked
        <5> QED BY <5>1 DEF After
      <4> QED BY <4>1, <4>2
    <3> QED BY <3>2, <3>3
  <2> QED BY <2>2, <2>3
<1>3. \A i \in 0..N : f[i] = IF i = 0 THEN Root ELSE After(f[i - 1])
  <2>1. \A i \in 0..N : i = 0 \/ i \in 1..N
    BY RankType
  <2> HIDE DEF f
  <2> QED BY <2>1, <1>1, <1>2
<1>4. f = [i \in 0..N |-> f[i]]
  BY DEF Ranked
<1> HIDE DEF f
<1> QED BY <1>3, <1>4 DEF Follow, f

LEMMA WalkOfList ==
    ASSUME NEW L \in SUBSET Nodes, List(L)
    PROVE  /\ Walk[0] = Root
           /\ \A i \in 1..Cardinality(Nodes) : Walk[i] = After(Walk[i - 1])
           /\ \A i \in 0..Cardinality(Nodes) : Walk[i] = Ranked(L)[i]
<1> DEFINE N == Cardinality(Nodes)
           f == Ranked(L)
           wrong == {i \in 0..N : Walk[i] # f[i]}
<1>1. N \in Nat
  BY RankType
<1>2. f = Follow(f)
  BY RankedFollows
<1>3. Walk = Follow(Walk)
  BY <1>2, WalkDefined
<1> HIDE DEF f
<1>4. Walk[0] = Root /\ f[0] = Root
  <2>1. 0 \in 0..N
    BY <1>1
  <2> QED BY <2>1, <1>2, <1>3 DEF Follow
<1>5. ASSUME NEW i \in 1..N PROVE Walk[i] = After(Walk[i - 1]) /\ f[i] = After(f[i - 1])
  <2>1. i \in 0..N /\ i # 0
    BY <1>1
  <2> QED BY <2>1, <1>2, <1>3 DEF Follow
<1>6. ASSUME wrong # {} PROVE FALSE
  <2>1. wrong \subseteq Nat
    BY <1>1
  <2>2. PICK i \in wrong : \A j \in wrong : ~(j < i)
    <3> HIDE DEF wrong
    <3> QED BY <1>6, <2>1, NatLeast
  <2>3. i \in 0..N /\ Walk[i] # f[i]
    OBVIOUS
  <2>4. i \in 1..N /\ i - 1 \in 0..N /\ i - 1 < i
    <3>1. i # 0
      BY <2>3, <1>4
    <3> QED BY <3>1, <2>3, <1>1
  <2>5. Walk[i - 1] = f[i - 1]
    BY <2>2, <2>4
  <2> QED BY <2>3, <2>4, <2>5, <1>5
<1> QED BY <1>4, <1>5, <1>6 DEF f

\* The nodes the walk meets are the list.
LEMMA LinkedIsList ==
    ASSUME NEW L \in SUBSET Nodes, List(L)
    PROVE  Linked = L
<1> DEFINE N == Cardinality(Nodes)
<1>1. N \in Nat
  BY RankType
<1>2. ASSUME NEW n \in L PROVE n \in Linked
  <2>1. Rank(L, n) \in 0..N /\ Rank(L, n) # 0 /\ n # Null
    BY RankType, Keyed
  <2>2. Walk[Rank(L, n)] = n
    BY <2>1, WalkOfList, RankedIs
  <2>3. Rank(L, n) \in 1..N
    BY <2>1, <1>1
  <2> QED BY <2>1, <2>2, <2>3 DEF Linked
<1>3. ASSUME NEW i \in 1..N, Walk[i] # Null PROVE Walk[i] \in L
  <2>1. i \in 0..N /\ i - 1 \in 0..N
    BY <1>1
  <2>2. \E n \in L \cup {Root} : Rank(L, n) = i
    BY <1>3, <2>1, WalkOfList DEF Ranked
  <2>3. PICK n \in L \cup {Root} : Rank(L, n) = i
    BY <2>2
  <2>4. Walk[i] = n
    BY <2>1, <2>3, RankedIs, WalkOfList
  <2>5. n # Root
    BY <2>3, RankType
  <2> QED BY <2>4, <2>5
<1> QED BY <1>2, <1>3 DEF Linked

\* What the list holds.
MapOf(L) ==
    [k \in Keys |-> IF \E n \in L : key[n] = k THEN value[CHOOSE n \in L : key[n] = k] ELSE Null]

LEMMA ContentsOfList ==
    ASSUME NEW L \in SUBSET Nodes, List(L)
    PROVE  Contents = MapOf(L)
BY LinkedIsList DEF Contents, MapOf

LEMMA MapOfList ==
    ASSUME NEW L \in SUBSET Nodes, List(L)
    PROVE  /\ \A k \in Keys : (\A n \in L : key[n] # k) => MapOf(L)[k] = Null
           /\ \A n \in L : key[n] \in Keys /\ MapOf(L)[key[n]] = value[n] /\ value[n] \in Threads /\ value[n] # Null
<1>1. ASSUME NEW n \in L PROVE MapOf(L)[key[n]] = value[n]
  <2>1. key[n] \in Keys
    BY DEF List
  <2>2. PICK m : m = CHOOSE x \in L : key[x] = key[n]
    OBVIOUS
  <2>3. m \in L /\ key[m] = key[n]
    BY <2>2
  <2>4. m = n
    BY <2>3 DEF List
  <2> QED BY <2>1, <2>2, <2>4 DEF MapOf
<1>2. \A n \in L : key[n] \in Keys /\ value[n] \in Threads /\ value[n] # Null
  BY KvListAssumption DEF List
<1>3. \A k \in Keys : (\A n \in L : key[n] # k) => MapOf(L)[k] = Null
  BY DEF MapOf
<1> QED BY <1>1, <1>2, <1>3

-----------------------------------------------------------------------------
(* The list in the next state.                                             *)

\* Nobody is erasing while another call is under way, nor cutting the list.
LEMMA NothingCut ==
    ASSUME NEW L \in SUBSET Nodes, Inv(L), NEW p \in Threads, pc[p] \notin {"idle", "unlink"}
    PROVE  /\ \A q \in Threads : pc[q] # "unlink"
           /\ \A n \in L \cup {Root} : After(n) = next[n]
<1>1. \A q \in Threads : pc[q] # "unlink"
  <2> SUFFICES ASSUME NEW q \in Threads, pc[q] = "unlink" PROVE FALSE
    OBVIOUS
  <2>1. op[q] = "erase" /\ q # p
    BY DEF Inv, Called
  <2> QED BY <2>1 DEF Inv, ErasesAlone
<1>2. \A n \in L \cup {Root} : n # Null
  BY KvListAssumption
<1> QED BY <1>1, <1>2 DEF After, At

LEMMA AfterStays ==
    ASSUME NEW n, next'[n] = next[n],
           \A q \in Threads : /\ pc'[q] = "unlink" <=> pc[q] = "unlink"
                              /\ pc[q] = "unlink" => current'[q] = current[q] /\ nxt'[q] = nxt[q]
    PROVE  After(n)' = After(n)
<1> DEFINE C == {q \in Threads : At(q, "unlink") /\ current[q] = n}
<1>1. C' = C
  BY DEF At
<1>2. CASE C = {}
  BY <1>1, <1>2 DEF After
<1>3. CASE C # {}
  <2>1. PICK q : q = CHOOSE r \in C : TRUE
    OBVIOUS
  <2>2. q \in C
    BY <2>1, <1>3
  <2>3. nxt'[q] = nxt[q]
    BY <2>2 DEF At
  <2>4. q = CHOOSE r \in C' : TRUE
    BY <2>1, <1>1
  <2>5. After(n) = IF n = Null THEN Null ELSE nxt[q]
    BY <2>1, <1>3 DEF After
  <2>6. After(n)' = IF n = Null THEN Null ELSE nxt'[q]
    BY <2>4, <1>1, <1>3 DEF After
  <2> QED BY <2>3, <2>5, <2>6
<1> QED BY <1>2, <1>3

LEMMA ListStays ==
    ASSUME NEW L \in SUBSET Nodes, List(L), \A n \in L \cup {Root} : After(n)' = After(n),
           \A n \in L : key'[n] = key[n] /\ value'[n] = value[n]
    PROVE  List(L)'
<1>1. \A n \in L \cup {Root} : K(n)' = K(n)
  BY DEF K
<1>2. \A n \in L \cup {Root} : Follows(L, n, After(n))
  BY DEF List
<1>3. ASSUME NEW n \in L \cup {Root} PROVE Follows(L, n, After(n))'
  BY <1>1, <1>2 DEF Follows
<1>4. \A n \in L : \E m \in L \cup {Root} : After(m)' = n
  BY DEF List
<1>5. /\ \A n \in L : key'[n] \in Keys /\ value'[n] \in Threads
      /\ \A m, n \in L : key'[m] = key'[n] => m = n
  BY DEF List
<1> QED BY <1>3, <1>4, <1>5 DEF List

-----------------------------------------------------------------------------
(* The other threads.                                                      *)

\* Nothing of q's own changes.
Same(q) ==
    /\ pc'[q] = pc[q] /\ op'[q] = op[q] /\ sought'[q] = sought[q] /\ node'[q] = node[q]
    /\ prev'[q] = prev[q] /\ current'[q] = current[q] /\ nxt'[q] = nxt[q]
    /\ missing'[q] = missing[q] /\ answer'[q] = answer[q]

\* What q knows stays true while the list only grows.
LEMMA OthersKnow ==
    ASSUME NEW L \in SUBSET Nodes, NEW L2 \in SUBSET Nodes, L \subseteq L2, NEW q \in Threads, Same(q),
           Called(q), Knows(q, L), Misses(q, L),
           \A n \in L : key'[n] = key[n],
           \A n \in Nodes : Own(q, n) => key'[n] = key[n] /\ value'[n] = value[n]
    PROVE  Called(q)' /\ Knows(q, L2)' /\ Misses(q, L2)'
<1>1. Called(q)'
  BY DEF Called, Same, Own
<1>2. \A n \in L \cup {Root} : K(n)' = K(n)
  BY DEF K
<1>3. PICK a : a = prev[q]
  OBVIOUS
<1>4. PICK b : b = current[q]
  OBVIOUS
<1>5. PICK c : c = nxt[q]
  OBVIOUS
<1>6. prev'[q] = a /\ current'[q] = b /\ nxt'[q] = c /\ sought'[q] = sought[q] /\ pc'[q] = pc[q]
      /\ missing'[q] = missing[q]
  BY <1>3, <1>4, <1>5 DEF Same
<1>7. /\ pc[q] \in InList => a \in L \cup {Root} /\ K(a) < sought[q]
      /\ pc[q] \in InList /\ b # Null => b \in L /\ K(a) < K(b)
      /\ pc[q] \in InList \ {"link"} => b # Null
      /\ pc[q] = "link" /\ b # Null => sought[q] < K(b)
      /\ pc[q] \in {"value", "mark", "unlink"} => key[b] = sought[q]
      /\ pc[q] \in {"compare", "mark", "unlink"} /\ c # Null => c \in L /\ K(b) < K(c)
  BY <1>3, <1>4, <1>5 DEF Knows
<1>8. /\ pc[q] \in InList => a \in L2 \cup {Root} /\ K(a)' < sought[q]
      /\ pc[q] \in InList /\ b # Null => b \in L2 /\ K(a)' < K(b)'
      /\ pc[q] \in InList \ {"link"} => b # Null
      /\ pc[q] = "link" /\ b # Null => sought[q] < K(b)'
      /\ pc[q] \in {"value", "mark", "unlink"} => key'[b] = sought[q]
      /\ pc[q] \in {"compare", "mark", "unlink"} /\ c # Null => c \in L2 /\ K(b)' < K(c)'
  BY <1>2, <1>7 DEF InList
<1>9. K(prev[q])' = K(a)' /\ K(current[q])' = K(b)' /\ K(nxt[q])' = K(c)'
  BY <1>6 DEF K
<1>10. Knows(q, L2)'
  BY <1>6, <1>8, <1>9 DEF Knows
<1>11. pc[q] = "compare" => K(b)' = K(b) /\ K(b) = K(current[q])
  BY <1>2, <1>4, <1>7 DEF InList
<1>12. pc[q] = "compare" /\ K(current[q])' < sought'[q] /\ nxt'[q] = Null => missing'[q]
  BY <1>5, <1>6, <1>9, <1>11 DEF Misses
<1>13. Pending(q)' /\ (\A n \in L2 : key'[n] # sought'[q]) => missing'[q]
  BY <1>6 DEF Misses, Pending, At
<1> QED BY <1>1, <1>6, <1>10, <1>12, <1>13 DEF Misses

\* A step that changes only what is p's own keeps the invariant, if it keeps
\* what is said of p.
LEMMA ReadsOnly ==
    ASSUME NEW L \in SUBSET Nodes, Inv(L), NEW p \in Threads, \A q \in Threads : q # p => Same(q),
           UNCHANGED <<next, key, value, free, retired>>,
           pc[p] # "unlink", pc'[p] # "unlink",
           \A n \in Nodes : Own(p, n)' => Own(p, n),
           op'[p] = "erase" => op[p] = "erase" \/ Alone(p),
           pc'[p] = "idle" \/ pc[p] # "idle" \/ NobodyErases,
           Called(p)', Knows(p, L)', Misses(p, L)'
    PROVE  Inv(L)'
<1>1. List(L)'
  <2>1. \A q \in Threads : /\ pc'[q] = "unlink" <=> pc[q] = "unlink"
                           /\ pc[q] = "unlink" => current'[q] = current[q] /\ nxt'[q] = nxt[q]
    BY DEF Same
  <2>2. \A n : After(n)' = After(n)
    BY <2>1, AfterStays
  <2> QED BY <2>2, ListStays DEF Inv
<1>2. Placed(L)'
  <2>1. \A q \in Threads : \A n \in Nodes : Own(q, n)' => Own(q, n)
    BY DEF Same, Own
  <2>2. Placed(L)
    BY DEF Inv
  <2> QED BY <2>1, <2>2 DEF Placed
<1>3. ErasesAlone'
  <2> SUFFICES ASSUME NEW a \in Threads, NEW b \in Threads, op'[a] = "erase", b # a PROVE pc'[b] = "idle"
    BY DEF ErasesAlone
  <2>1. CASE a = p
    BY <2>1 DEF Same, Inv, ErasesAlone, Alone, At
  <2>2. CASE a # p
    <3>1. op[a] = "erase" /\ pc[b] = "idle"
      BY <2>2 DEF Same, Inv, ErasesAlone
    <3> QED BY <3>1 DEF Same, NobodyErases
  <2> QED BY <2>1, <2>2
<1>4. ASSUME NEW q \in Threads, q # p PROVE Called(q)' /\ Knows(q, L)' /\ Misses(q, L)'
  <2>1. Called(q) /\ Knows(q, L) /\ Misses(q, L)
    BY DEF Inv
  <2> QED BY <2>1, <1>4, OthersKnow
<1> QED BY <1>1, <1>2, <1>3, <1>4 DEF Inv

-----------------------------------------------------------------------------
(* The steps that only read the list.                                      *)

LEMMA BeginFindKeeps ==
    ASSUME NEW L \in SUBSET Nodes, Types, Inv(L), NEW p \in Threads, BeginFind(p)
    PROVE  Types' /\ Inv(L)'
<1>1. PICK o \in {"find", "erase"}, k \in Keys : Begin(p, o, k)
  BY DEF BeginFind
<1>2. UNCHANGED <<next, key, value, free, retired, node, prev, current, nxt, answer>>
  BY DEF BeginFind, nodeVars, walkVars
<1>3. pc[p] = "idle" /\ NobodyErases /\ (o = "erase" => Alone(p))
  BY <1>1 DEF Begin, At
<1>4. /\ op' = [op EXCEPT ![p] = o] /\ sought' = [sought EXCEPT ![p] = k]
      /\ pc' = [pc EXCEPT ![p] = "head"]
  BY <1>1 DEF Begin, Goto
<1>5. PICK b \in BOOLEAN : b = (Contents[k] = Null)
  OBVIOUS
<1>6. missing' = [missing EXCEPT ![p] = b]
  BY <1>1, <1>5 DEF Begin
<1>7. Types'
  BY <1>2, <1>4, <1>6 DEF Types, Ops, Labels
<1>8. op'[p] = o /\ sought'[p] = k /\ pc'[p] = "head" /\ missing'[p] = b
  BY <1>4, <1>6 DEF Types
<1>9. \A q \in Threads : q # p => Same(q)
  BY <1>2, <1>4, <1>6 DEF Types, Same
<1>10. Called(p)'
  BY <1>8 DEF Called, Ops
<1>11. Knows(p, L)'
  BY <1>8 DEF Knows, InList
<1>12. Misses(p, L)'
  <2>1. List(L)
    BY DEF Inv
  <2>2. (\A n \in L : key[n] # k) => b
    BY <2>1, <1>5, ContentsOfList, MapOfList
  <2> QED BY <2>2, <1>2, <1>8 DEF Misses
<1>13. \A n \in Nodes : ~Own(p, n)'
  BY <1>8 DEF Own
<1> QED BY <1>2, <1>3, <1>7, <1>8, <1>9, <1>10, <1>11, <1>12, <1>13, ReadsOnly

\* delete_interlocked_kv_list erases the first node, which is there.
LEMMA CloseKeeps ==
    ASSUME NEW L \in SUBSET Nodes, Types, Inv(L), NEW p \in Threads, Close(p)
    PROVE  Types' /\ Inv(L)' /\ next[Root] \in L /\ NobodyErases
<1>1. UNCHANGED <<next, key, value, free, retired, node, prev, current, nxt, answer>>
  BY DEF Close, nodeVars, walkVars
<1>2. pc[p] = "idle" /\ Alone(p) /\ next[Root] # Null
  BY DEF Close, At
<1>3. PICK n : n = next[Root]
  OBVIOUS
<1>4. /\ op' = [op EXCEPT ![p] = "erase"] /\ sought' = [sought EXCEPT ![p] = key[n]]
      /\ pc' = [pc EXCEPT ![p] = "head"] /\ missing' = [missing EXCEPT ![p] = FALSE]
  BY <1>3 DEF Close, Goto
<1>5. n \in L /\ key[n] \in Keys
  <2>1. \A q \in Threads : pc[q] # "unlink"
    BY <1>2 DEF Alone, At
  <2>2. After(Root) = n
    BY <2>1, <1>3, KvListAssumption DEF After, At
  <2> QED BY <2>2, <1>2, <1>3 DEF Inv, List, Follows
<1>6. NobodyErases
  BY <1>2 DEF Inv, Called, Alone, At, NobodyErases, NoOp
<1>7. Types'
  BY <1>1, <1>4, <1>5 DEF Types, Ops, Labels
<1>8. op'[p] = "erase" /\ sought'[p] = key[n] /\ pc'[p] = "head" /\ missing'[p] = FALSE
  BY <1>4 DEF Types
<1>9. \A q \in Threads : q # p => Same(q)
  BY <1>1, <1>4 DEF Types, Same
<1>10. Called(p)'
  BY <1>5, <1>8 DEF Called, Ops
<1>11. Knows(p, L)'
  BY <1>8 DEF Knows, InList
<1>12. Misses(p, L)'
  BY <1>1, <1>5, <1>8 DEF Misses
<1>13. \A m \in Nodes : ~Own(p, m)'
  BY <1>8 DEF Own
<1> QED BY <1>1, <1>2, <1>3, <1>5, <1>6, <1>7, <1>8, <1>9, <1>10, <1>11, <1>12, <1>13, ReadsOnly

LEMMA ReturnKeeps ==
    ASSUME NEW L \in SUBSET Nodes, Types, Inv(L), NEW p \in Threads, Return(p)
    PROVE  Types' /\ Inv(L)'
<1>1. UNCHANGED <<next, key, value, free, retired>>
  BY DEF Return, nodeVars
<1>2. pc[p] = "return" /\ pc' = [pc EXCEPT ![p] = "idle"]
  BY DEF Return, At, Goto
<1>3. /\ op' = [op EXCEPT ![p] = NoOp] /\ sought' = [sought EXCEPT ![p] = NoKey]
      /\ node' = [node EXCEPT ![p] = Null] /\ missing' = [missing EXCEPT ![p] = FALSE]
      /\ prev' = [prev EXCEPT ![p] = Root] /\ current' = [current EXCEPT ![p] = Null]
      /\ nxt' = [nxt EXCEPT ![p] = Null] /\ answer' = [answer EXCEPT ![p] = Null]
  BY DEF Return
<1>4. Types'
  BY <1>1, <1>2, <1>3 DEF Types, Labels
<1>5. pc'[p] = "idle" /\ op'[p] = NoOp /\ answer'[p] = Null
  BY <1>2, <1>3 DEF Types
<1>6. \A q \in Threads : q # p => Same(q)
  BY <1>2, <1>3 DEF Types, Same
<1>7. Called(p)' /\ Knows(p, L)' /\ Misses(p, L)'
  BY <1>5 DEF Called, Knows, Misses, InList, Pending, At, NoOp
<1>8. \A m \in Nodes : ~Own(p, m)'
  BY <1>5 DEF Own
<1> QED BY <1>1, <1>2, <1>4, <1>5, <1>6, <1>7, <1>8, ReadsOnly DEF NoOp

\* Nothing of p's changes but where it is, and what find has in hand.
LEMMA FindKeeps ==
    ASSUME NEW L \in SUBSET Nodes, Inv(L), NEW p \in Threads, \A q \in Threads : q # p => Same(q),
           UNCHANGED <<next, key, value, free, retired, op, sought, node, missing>>,
           pc[p] \in {"head", "check", "next", "compare", "value"}, pc'[p] # "unlink",
           Own(p, node[p])' => Own(p, node[p]),
           Called(p)', Knows(p, L)', Misses(p, L)'
    PROVE  Inv(L)'
<1>1. \A n \in Nodes : Own(p, n)' => Own(p, n)
  BY DEF Own
<1> QED BY <1>1, ReadsOnly

LEMMA FindCheckKeeps ==
    ASSUME NEW L \in SUBSET Nodes, Types, Inv(L), NEW p \in Threads, FindCheck(p) \/ FindAgain(p)
    PROVE  Types' /\ Inv(L)'
<1>1. UNCHANGED <<next, key, value, free, retired, op, sought, node, missing, prev, current, nxt, answer>>
  BY DEF FindCheck, FindAgain, nodeVars, callVars, walkVars
<1>2. pc[p] \in {"check", "compare"}
  BY DEF FindCheck, FindAgain, At
<1>3. PICK l \in {"next", "head"} : pc' = [pc EXCEPT ![p] = l] /\ (l = "next" => pc[p] = "check")
  BY DEF FindCheck, FindAgain, At, Goto
<1>4. Types'
  BY <1>1, <1>3 DEF Types, Labels
<1>5. pc'[p] = l
  BY <1>3 DEF Types
<1>6. \A q \in Threads : q # p => Same(q)
  BY <1>1, <1>3 DEF Types, Same
<1>7. Called(p) /\ Knows(p, L) /\ Misses(p, L)
  BY DEF Inv
<1>8. Called(p)'
  BY <1>1, <1>2, <1>5, <1>7 DEF Called
<1>9. Knows(p, L)'
  BY <1>1, <1>2, <1>3, <1>5, <1>7 DEF Knows, InList, K
<1>10. Misses(p, L)'
  BY <1>1, <1>2, <1>5, <1>7 DEF Misses, Pending, At
<1>11. Own(p, node[p])' => Own(p, node[p])
  BY <1>1, <1>2, <1>5 DEF Own
<1> QED BY <1>1, <1>2, <1>4, <1>5, <1>6, <1>8, <1>9, <1>10, <1>11, FindKeeps

LEMMA FindNextKeeps ==
    ASSUME NEW L \in SUBSET Nodes, Types, Inv(L), NEW p \in Threads, FindNext(p)
    PROVE  Types' /\ Inv(L)'
<1>1. UNCHANGED <<next, key, value, free, retired, op, sought, node, missing, prev, current, answer>>
  BY DEF FindNext, nodeVars, callVars
<1>2. pc[p] = "next" /\ pc' = [pc EXCEPT ![p] = "compare"]
  BY DEF FindNext, At, Goto
<1>3. Called(p) /\ Knows(p, L) /\ Misses(p, L)
  BY DEF Inv
<1>4. PICK c \in L : c = current[p]
  BY <1>2, <1>3 DEF Knows, InList
<1>5. nxt' = [nxt EXCEPT ![p] = next[c]] /\ next[c] \in Nodes \cup {Null}
  BY <1>4 DEF FindNext, Types
<1>6. Types'
  BY <1>1, <1>2, <1>5 DEF Types, Labels
<1>7. pc'[p] = "compare" /\ nxt'[p] = next[c]
  BY <1>2, <1>5 DEF Types
<1>8. \A q \in Threads : q # p => Same(q)
  BY <1>1, <1>2, <1>5 DEF Types, Same
<1>9. Follows(L, c, next[c])
  BY <1>2, NothingCut DEF Inv, List
<1>10. Called(p)'
  BY <1>1, <1>2, <1>3, <1>7 DEF Called
<1>11. Knows(p, L)'
  <2>1. K(c)' = K(c) /\ K(prev[p])' = K(prev[p]) /\ K(current[p])' = K(c) /\ K(nxt[p])' = K(next[c])
    BY <1>1, <1>4, <1>7 DEF K
  <2>2. next[c] # Null => next[c] \in L /\ K(c) < K(next[c])
    BY <1>9 DEF Follows
  <2> QED BY <1>1, <1>2, <1>3, <1>4, <1>7, <2>1, <2>2 DEF Knows, InList
<1>12. Misses(p, L)'
  <2>1. Pending(p) /\ Pending(p)'
    BY <1>2, <1>7 DEF Pending, At
  <2>2. ASSUME K(c) < sought[p], next[c] = Null, NEW n \in L PROVE key[n] # sought[p]
    <3>1. ~(K(c) < K(n)) /\ K(n) = key[n]
      BY <2>2, <1>9, Keyed DEF Follows, Inv
    <3> QED BY <3>1, <2>2
  <2>3. K(current[p])' = K(c)
    BY <1>1, <1>4 DEF K
  <2> QED BY <1>1, <1>3, <1>7, <2>1, <2>2, <2>3 DEF Misses
<1>13. Own(p, node[p])' => Own(p, node[p])
  BY <1>1, <1>2, <1>7 DEF Own
<1> QED BY <1>1, <1>2, <1>6, <1>7, <1>8, <1>10, <1>11, <1>12, <1>13, FindKeeps

LEMMA FindValueKeeps ==
    ASSUME NEW L \in SUBSET Nodes, Types, Inv(L), NEW p \in Threads, FindValue(p)
    PROVE  Types' /\ Inv(L)'
<1>1. UNCHANGED <<next, key, value, free, retired, op, sought, node, missing, prev, current, nxt>>
  BY DEF FindValue, nodeVars, callVars, walkVars
<1>2. pc[p] = "value" /\ pc' = [pc EXCEPT ![p] = "return"] /\ answer' = [answer EXCEPT ![p] = value[current[p]]]
  BY DEF FindValue, Answer, At, Goto
<1>3. Called(p) /\ Knows(p, L) /\ Misses(p, L)
  BY DEF Inv
<1>4. value[current[p]] \in Threads /\ value[current[p]] # Null
  <2>1. current[p] \in L
    BY <1>2, <1>3 DEF Knows, InList
  <2> QED BY <2>1, KvListAssumption DEF Inv, List
<1>5. Types'
  BY <1>1, <1>2, <1>4 DEF Types, Labels
<1>6. pc'[p] = "return" /\ answer'[p] # Null
  BY <1>2, <1>4 DEF Types
<1>7. \A q \in Threads : q # p => Same(q)
  BY <1>1, <1>2 DEF Types, Same
<1>8. Called(p)'
  BY <1>1, <1>2, <1>3, <1>6 DEF Called
<1>9. Knows(p, L)' /\ Misses(p, L)'
  BY <1>6 DEF Knows, Misses, InList, Pending, At
<1>10. ~Own(p, node[p])'
  BY <1>6 DEF Own
<1> QED BY <1>1, <1>2, <1>5, <1>6, <1>7, <1>8, <1>9, <1>10, FindKeeps

\* What becomes of prev and current in find, in the terms of the model.
Moves(p, a, c) ==
    /\ prev' = [prev EXCEPT ![p] = a] /\ current' = [current EXCEPT ![p] = c]
    /\ UNCHANGED <<next, key, value, free, retired, op, sought, node, missing, nxt>>

\* find answers the call.
LEMMA AnswerKeeps ==
    ASSUME NEW L \in SUBSET Nodes, Types, Inv(L), NEW p \in Threads, pc[p] \in {"head", "compare"},
           NEW a \in Nodes \cup {Root}, NEW c \in Nodes \cup {Null}, Moves(p, a, c), Answer(p, FALSE)
    PROVE  Types' /\ Inv(L)'
<1>1. pc' = [pc EXCEPT ![p] = "return"] /\ answer' = [answer EXCEPT ![p] = FALSE]
  BY DEF Answer, Goto
<1>2. /\ prev' = [prev EXCEPT ![p] = a] /\ current' = [current EXCEPT ![p] = c]
      /\ UNCHANGED <<next, key, value, free, retired, op, sought, node, missing, nxt>>
  BY DEF Moves
<1>3. Types'
  BY <1>1, <1>2 DEF Types, Labels
<1>4. pc'[p] = "return" /\ answer'[p] = FALSE
  BY <1>1 DEF Types
<1>5. \A q \in Threads : q # p => Same(q)
  BY <1>1, <1>2 DEF Types, Same
<1>6. FALSE # Null
  BY KvListAssumption
<1>7. Called(p)'
  BY <1>2, <1>4, <1>6 DEF Called, Inv
<1>8. Knows(p, L)' /\ Misses(p, L)'
  BY <1>4 DEF Knows, Misses, InList, Pending, At
<1>9. ~Own(p, node[p])'
  BY <1>4 DEF Own
<1> QED BY <1>2, <1>3, <1>4, <1>5, <1>7, <1>8, <1>9, FindKeeps

\* find has not answered, and goes on at l.
LEMMA GoesOn ==
    ASSUME NEW L \in SUBSET Nodes, Types, Inv(L), NEW p \in Threads, pc[p] \in {"head", "compare"},
           NEW a \in L \cup {Root}, NEW c \in L \cup {Null}, Moves(p, a, c),
           NEW l \in {"check", "link", "value", "mark"}, Goto(p, l), answer' = answer,
           K(a) < sought[p], c # Null => K(a) < K(c), l # "link" => c # Null,
           l = "link" => op[p] = "insert" /\ (c # Null => sought[p] < K(c)),
           l = "value" => op[p] = "find" /\ key[c] = sought[p],
           l = "mark" => op[p] = "erase" /\ key[c] = sought[p] /\ (nxt[p] # Null => nxt[p] \in L /\ K(c) < K(nxt[p]))
    PROVE  Types' /\ Inv(L)'
<1>1. pc' = [pc EXCEPT ![p] = l]
  BY DEF Goto
<1>2. /\ prev' = [prev EXCEPT ![p] = a] /\ current' = [current EXCEPT ![p] = c]
      /\ UNCHANGED <<next, key, value, free, retired, op, sought, node, missing, nxt>>
  BY DEF Moves
<1>3. Types'
  BY <1>1, <1>2 DEF Types, Labels
<1>4. pc'[p] = l /\ prev'[p] = a /\ current'[p] = c
  BY <1>1, <1>2 DEF Types
<1>5. \A q \in Threads : q # p => Same(q)
  BY <1>1, <1>2 DEF Types, Same
<1>6. Called(p) /\ Misses(p, L)
  BY DEF Inv
<1>7. Called(p)'
  BY <1>2, <1>4, <1>6 DEF Called
<1>8. Knows(p, L)'
  <2>1. K(a)' = K(a) /\ K(c)' = K(c) /\ K(prev[p])' = K(a) /\ K(current[p])' = K(c) /\ K(nxt[p])' = K(nxt[p])
    BY <1>2, <1>4 DEF K
  <2> QED BY <2>1, <1>2, <1>4 DEF Knows, InList
<1>9. Misses(p, L)'
  <2>1. Pending(p)
    BY DEF Pending, At
  <2> QED BY <2>1, <1>2, <1>4, <1>6 DEF Misses
<1>10. Own(p, node[p])' => Own(p, node[p])
  BY <1>2, <1>4 DEF Own
<1> QED BY <1>2, <1>3, <1>4, <1>5, <1>7, <1>8, <1>9, <1>10, FindKeeps

LEMMA NotFoundKeeps ==
    ASSUME NEW L \in SUBSET Nodes, Types, Inv(L), NEW p \in Threads, pc[p] \in {"head", "compare"},
           NEW a \in L \cup {Root}, NEW c \in L \cup {Null}, Moves(p, a, c), NotFound(p),
           K(a) < sought[p], c # Null => K(a) < K(c) /\ sought[p] < K(c)
    PROVE  Types' /\ Inv(L)'
<1>1. CASE op[p] = "insert" /\ Goto(p, "link") /\ answer' = answer
  BY <1>1, GoesOn
<1>2. CASE Answer(p, FALSE)
  BY <1>2, AnswerKeeps
<1> QED BY <1>1, <1>2 DEF NotFound

LEMMA ArriveKeeps ==
    ASSUME NEW L \in SUBSET Nodes, Types, Inv(L), NEW p \in Threads, pc[p] \in {"head", "compare"},
           NEW a \in L \cup {Root}, NEW c \in L \cup {Null}, Moves(p, a, c), Arrive(p),
           K(a) < sought[p], c # Null => K(a) < K(c)
    PROVE  Types' /\ Inv(L)'
<1>1. current'[p] = c
  BY DEF Moves, Types
<1>2. CASE c = Null
  <2>1. NotFound(p)
    BY <1>1, <1>2 DEF Arrive
  <2> QED BY <2>1, <1>2, NotFoundKeeps
<1>3. CASE c # Null
  <2>1. Goto(p, "check") /\ answer' = answer
    BY <1>1, <1>3 DEF Arrive
  <2> QED BY <2>1, <1>3, GoesOn
<1> QED BY <1>2, <1>3

LEMMA FindHeadKeeps ==
    ASSUME NEW L \in SUBSET Nodes, Types, Inv(L), NEW p \in Threads, FindHead(p)
    PROVE  Types' /\ Inv(L)'
<1>1. pc[p] = "head" /\ Arrive(p)
  BY DEF FindHead, At
<1>2. Moves(p, Root, next[Root])
  BY DEF FindHead, Moves, nodeVars, callVars
<1>3. Follows(L, Root, next[Root])
  BY <1>1, NothingCut DEF Inv, List
<1>4. next[Root] \in L \cup {Null}
  BY <1>3 DEF Follows
<1>5. K(Root) < sought[p]
  <2>1. sought[p] \in Keys
    BY <1>1 DEF Inv, Called
  <2>2. sought[p] \in Nat \ {0} /\ K(Root) = 0
    BY <2>1, KvListAssumption DEF K
  <2> QED BY <2>2
<1>6. next[Root] # Null => K(Root) < K(next[Root])
  BY <1>3 DEF Follows
<1> QED BY <1>1, <1>2, <1>4, <1>5, <1>6, ArriveKeeps

\* v->current's key is at hand: what find knows there.
LEMMA AtCompare ==
    ASSUME NEW L \in SUBSET Nodes, Types, Inv(L), NEW p \in Threads, pc[p] = "compare"
    PROVE  /\ prev[p] \in L \cup {Root} /\ current[p] \in L /\ nxt[p] \in L \cup {Null}
           /\ current[p] # Null /\ K(current[p]) = key[current[p]]
           /\ K(prev[p]) < sought[p] /\ K(prev[p]) < K(current[p])
           /\ nxt[p] # Null => nxt[p] \in L /\ K(current[p]) < K(nxt[p])
           /\ sought[p] \in Nat /\ K(current[p]) \in Nat
<1>1. Knows(p, L) /\ Called(p) /\ List(L)
  BY DEF Inv
<1>2. /\ prev[p] \in L \cup {Root} /\ current[p] \in L /\ nxt[p] \in L \cup {Null}
      /\ current[p] # Null
      /\ K(prev[p]) < sought[p] /\ K(prev[p]) < K(current[p])
      /\ nxt[p] # Null => nxt[p] \in L /\ K(current[p]) < K(nxt[p])
  BY <1>1 DEF Knows, InList
<1>3. K(current[p]) = key[current[p]] /\ K(current[p]) \in Nat
  BY <1>1, <1>2, Keyed
<1>4. sought[p] \in Nat
  BY <1>1, KvListAssumption DEF Called
<1> QED BY <1>2, <1>3, <1>4

LEMMA FindCompareKeeps ==
    ASSUME NEW L \in SUBSET Nodes, Types, Inv(L), NEW p \in Threads, FindCompare(p)
    PROVE  Types' /\ Inv(L)'
<1>1. pc[p] = "compare"
  BY DEF FindCompare, At
<1>2. PICK a \in L \cup {Root} : a = prev[p]
  BY <1>1, AtCompare
<1>3. PICK c \in L : c = current[p]
  BY <1>1, AtCompare
<1>4. PICK n \in L \cup {Null} : n = nxt[p]
  BY <1>1, AtCompare
<1>5. /\ c # Null /\ K(c) = key[c] /\ K(a) < sought[p] /\ K(a) < K(c)
      /\ n # Null => K(c) < K(n)
      /\ sought[p] \in Nat /\ K(c) \in Nat
  BY <1>1, <1>2, <1>3, <1>4, AtCompare
<1>6. CASE key[c] >= sought[p]
  <2>1. UNCHANGED <<prev, current>> /\ IF key[c] = sought[p] THEN Found(p) ELSE NotFound(p)
    BY <1>3, <1>6 DEF FindCompare
  <2>2. Moves(p, a, c)
    <3>1. UNCHANGED <<next, key, value, free, retired, op, sought, node, missing, nxt>>
      BY DEF FindCompare, nodeVars, callVars
    <3>2. prev' = [prev EXCEPT ![p] = a] /\ current' = [current EXCEPT ![p] = c]
      BY <2>1, <1>2, <1>3 DEF Types
    <3> QED BY <3>1, <3>2 DEF Moves
  <2>3. CASE key[c] = sought[p]
    <3>1. Found(p)
      BY <2>1, <2>3
    <3>2. CASE Answer(p, FALSE)
      BY <3>2, <2>2, <1>1, AnswerKeeps
    <3>3. CASE op[p] = "find" /\ Goto(p, "value") /\ answer' = answer
      BY <3>3, <2>2, <2>3, <1>1, <1>5, GoesOn
    <3>4. CASE op[p] = "erase" /\ Goto(p, "mark") /\ answer' = answer
      <4>1. nxt[p] # Null => nxt[p] \in L /\ K(c) < K(nxt[p])
        BY <1>4, <1>5
      <4> QED BY <4>1, <3>4, <2>2, <2>3, <1>1, <1>5, GoesOn
    <3> QED BY <3>1, <3>2, <3>3, <3>4 DEF Found
  <2>4. CASE key[c] # sought[p]
    <3>1. NotFound(p) /\ sought[p] < K(c)
      BY <2>1, <2>4, <1>5, <1>6
    <3> QED BY <3>1, <2>2, <1>1, <1>5, NotFoundKeeps
  <2> QED BY <2>3, <2>4
<1>7. CASE ~(key[c] >= sought[p])
  <2>1. Arrive(p) /\ prev' = [prev EXCEPT ![p] = c] /\ current' = [current EXCEPT ![p] = n]
    BY <1>3, <1>4, <1>7 DEF FindCompare
  <2>2. Moves(p, c, n)
    <3>1. UNCHANGED <<next, key, value, free, retired, op, sought, node, missing, nxt>>
      BY DEF FindCompare, nodeVars, callVars
    <3> QED BY <2>1, <3>1 DEF Moves
  <2>3. K(c) < sought[p]
    BY <1>5, <1>7
  <2> QED BY <2>1, <2>2, <2>3, <1>1, <1>5, ArriveKeeps
<1> QED BY <1>6, <1>7

-----------------------------------------------------------------------------
(* The steps that write.                                                   *)

LEMMA BeginInsertKeeps ==
    ASSUME NEW L \in SUBSET Nodes, Types, Inv(L), NEW p \in Threads, BeginInsert(p)
    PROVE  Types' /\ Inv(L)'
<1>1. PICK k \in Keys, n \in free :
        /\ Begin(p, "insert", k) /\ free' = free \ {n}
        /\ key' = [key EXCEPT ![n] = k] /\ value' = [value EXCEPT ![n] = p]
        /\ node' = [node EXCEPT ![p] = n]
        /\ UNCHANGED <<next, retired, walkVars, answer, closed>>
  BY DEF BeginInsert
<1>2. UNCHANGED <<next, retired, prev, current, nxt, answer>>
  BY <1>1 DEF walkVars
<1>3. pc[p] = "idle" /\ NobodyErases
  BY <1>1 DEF Begin, At
<1>4. /\ op' = [op EXCEPT ![p] = "insert"] /\ sought' = [sought EXCEPT ![p] = k]
      /\ pc' = [pc EXCEPT ![p] = "head"]
  BY <1>1 DEF Begin, Goto
<1>5. PICK b \in BOOLEAN : b = (Contents[k] = Null)
  OBVIOUS
<1>6. missing' = [missing EXCEPT ![p] = b]
  BY <1>1, <1>5 DEF Begin
<1>7. n \in Nodes /\ n \notin L /\ List(L) /\ Placed(L)
  BY DEF Inv, Placed, Types
<1>8. Types'
  BY <1>1, <1>2, <1>4, <1>6, <1>7 DEF Types, Ops, Labels
<1>9. op'[p] = "insert" /\ sought'[p] = k /\ pc'[p] = "head" /\ missing'[p] = b /\ node'[p] = n
  BY <1>1, <1>4, <1>6 DEF Types
<1>10. key'[n] = k /\ value'[n] = p /\ \A m \in Nodes : m # n => key'[m] = key[m] /\ value'[m] = value[m]
  BY <1>1, <1>7 DEF Types
<1>11. \A q \in Threads : q # p => Same(q)
  BY <1>1, <1>2, <1>4, <1>6 DEF Types, Same
<1>12. List(L)'
  <2>1. \A q \in Threads : /\ pc'[q] = "unlink" <=> pc[q] = "unlink"
                           /\ pc[q] = "unlink" => current'[q] = current[q] /\ nxt'[q] = nxt[q]
    BY <1>3, <1>9, <1>11 DEF Same
  <2>2. \A m : After(m)' = After(m)
    BY <2>1, <1>2, AfterStays
  <2> QED BY <2>2, <1>7, <1>10, ListStays
<1>13. \A q \in Threads : \A m \in Nodes : Own(q, m)' => (q = p /\ m = n) \/ (q # p /\ m # n /\ Own(q, m))
  <2>1. \A q \in Threads : \A m \in Nodes : Own(q, m) => m # n
    BY <1>7 DEF Placed
  <2> QED BY <2>1, <1>9, <1>11 DEF Own, Same
<1>14. Placed(L)'
  <2>1. L \cap free' = {} /\ L \cap retired' = {} /\ free' \cap retired' = {} /\ n \notin L \cup free' \cup retired'
    BY <1>1, <1>2, <1>7 DEF Placed
  <2>2. \A q \in Threads : \A m \in Nodes : Own(q, m)' => m \notin L \cup free' \cup retired'
    <3> SUFFICES ASSUME NEW q \in Threads, NEW m \in Nodes, Own(q, m)' PROVE m \notin L \cup free' \cup retired'
      OBVIOUS
    <3>1. CASE m = n
      BY <3>1, <2>1
    <3>2. CASE m # n
      BY <3>2, <1>1, <1>2, <1>7, <1>13 DEF Placed
    <3> QED BY <3>1, <3>2
  <2>3. ASSUME NEW q \in Threads, NEW r \in Threads, NEW m \in Nodes, Own(q, m)', Own(r, m)' PROVE q = r
    BY <2>3, <1>7, <1>13 DEF Placed
  <2> QED BY <2>1, <2>2, <2>3 DEF Placed
<1>15. ErasesAlone'
  BY <1>3, <1>9, <1>11 DEF ErasesAlone, NobodyErases, Same
<1>16. ASSUME NEW q \in Threads, q # p PROVE Called(q)' /\ Knows(q, L)' /\ Misses(q, L)'
  <2>1. Called(q) /\ Knows(q, L) /\ Misses(q, L) /\ Same(q)
    BY <1>11, <1>16 DEF Inv
  <2>2. \A m \in L : key'[m] = key[m]
    BY <1>7, <1>10
  <2>3. \A m \in Nodes : Own(q, m) => key'[m] = key[m] /\ value'[m] = value[m]
    BY <1>7, <1>10 DEF Placed
  <2> QED BY <2>1, <2>2, <2>3, OthersKnow
<1>17. Called(p)' /\ Knows(p, L)'
  BY <1>7, <1>9, <1>10 DEF Called, Knows, InList, Ops
<1>18. Misses(p, L)'
  <2>1. (\A m \in L : key[m] # k) => b
    BY <1>5, <1>7, ContentsOfList, MapOfList
  <2>2. \A m \in L : key'[m] = key[m]
    BY <1>7, <1>10
  <2> QED BY <2>1, <2>2, <1>9 DEF Misses
<1> QED BY <1>8, <1>12, <1>14, <1>15, <1>16, <1>17, <1>18 DEF Inv

\* What an insertion knows when it links its node: where the node belongs.
LEMMA AtLink ==
    ASSUME NEW L \in SUBSET Nodes, Types, Inv(L), NEW p \in Threads, pc[p] = "link"
    PROVE  /\ node[p] \in Nodes /\ node[p] \notin L \cup free \cup retired /\ node[p] # Root
           /\ Own(p, node[p]) /\ op[p] = "insert"
           /\ key[node[p]] = sought[p] /\ value[node[p]] = p /\ sought[p] \in Keys
           /\ prev[p] \in L \cup {Root} /\ prev[p] # node[p]
           /\ current[p] \in L \cup {Null}
           /\ K(node[p]) = sought[p] /\ K(prev[p]) < sought[p]
           /\ current[p] # Null => sought[p] < K(current[p])
<1>1. Called(p) /\ Knows(p, L) /\ Placed(L)
  BY DEF Inv
<1>2. op[p] = "insert" /\ node[p] \in Nodes /\ key[node[p]] = sought[p] /\ value[node[p]] = p /\ sought[p] \in Keys
  BY <1>1 DEF Called
<1>3. Own(p, node[p])
  BY <1>2 DEF Own
<1>4. node[p] \notin L \cup free \cup retired /\ node[p] # Root
  BY <1>1, <1>2, <1>3, KvListAssumption DEF Placed
<1>5. K(node[p]) = sought[p]
  BY <1>2, <1>4 DEF K
<1>6. /\ prev[p] \in L \cup {Root} /\ current[p] \in L \cup {Null} /\ K(prev[p]) < sought[p]
      /\ current[p] # Null => sought[p] < K(current[p])
  BY <1>1 DEF Knows, InList
<1> QED BY <1>2, <1>3, <1>4, <1>5, <1>6

\* The compare-and-swap fails: only the thread's own node has changed.
LEMMA InsertLinkFails ==
    ASSUME NEW L \in SUBSET Nodes, Types, Inv(L), NEW p \in Threads, InsertLink(p), next[prev[p]] # current[p]
    PROVE  Types' /\ Inv(L)'
<1>1. UNCHANGED <<key, value, free, retired, op, sought, node, missing, prev, current, nxt, answer>>
  BY DEF InsertLink, nodeVars, callVars, walkVars
<1>2. pc[p] = "link" /\ pc' = [pc EXCEPT ![p] = "head"] /\ next' = [next EXCEPT ![node[p]] = current[p]]
  BY DEF InsertLink, At, Goto
<1>3. PICK n \in Nodes : n = node[p] /\ n \notin L /\ n # Root
  BY <1>2, AtLink
<1>4. current[p] \in Nodes \cup {Null}
  BY DEF Types
<1>5. Types'
  BY <1>1, <1>2, <1>3, <1>4 DEF Types, Labels
<1>6. pc'[p] = "head"
  BY <1>2 DEF Types
<1>7. \A q \in Threads : q # p => Same(q)
  BY <1>1, <1>2 DEF Types, Same
<1>8. List(L)'
  <2>1. \A q \in Threads : /\ pc'[q] = "unlink" <=> pc[q] = "unlink"
                           /\ pc[q] = "unlink" => current'[q] = current[q] /\ nxt'[q] = nxt[q]
    BY <1>2, <1>6, <1>7 DEF Same
  <2>2. \A m \in L \cup {Root} : next'[m] = next[m]
    BY <1>2, <1>3 DEF Types
  <2>3. \A m \in L \cup {Root} : After(m)' = After(m)
    BY <2>1, <2>2, AfterStays
  <2> QED BY <2>3, <1>1, ListStays DEF Inv
<1>9. Placed(L)'
  <2>1. \A q \in Threads : \A m \in Nodes : Own(q, m)' => Own(q, m)
    BY <1>1, <1>2, <1>6, <1>7 DEF Same, Own
  <2>2. Placed(L)
    BY DEF Inv
  <2> QED BY <2>1, <2>2, <1>1 DEF Placed
<1>10. ErasesAlone'
  <2>1. ErasesAlone
    BY DEF Inv
  <2> QED BY <2>1, <1>1, <1>2, <1>7 DEF ErasesAlone, Same
<1>11. ASSUME NEW q \in Threads, q # p PROVE Called(q)' /\ Knows(q, L)' /\ Misses(q, L)'
  <2>1. Called(q) /\ Knows(q, L) /\ Misses(q, L) /\ Same(q)
    BY <1>7, <1>11 DEF Inv
  <2> QED BY <2>1, <1>1, OthersKnow
<1>12. Called(p) /\ Misses(p, L)
  BY DEF Inv
<1>13. Called(p)'
  BY <1>1, <1>2, <1>6, <1>12 DEF Called
<1>14. Knows(p, L)' /\ Misses(p, L)'
  BY <1>1, <1>2, <1>6, <1>12 DEF Knows, Misses, InList, Pending, At
<1> QED BY <1>5, <1>8, <1>9, <1>10, <1>11, <1>13, <1>14 DEF Inv

\* It succeeds: the list has one node more.
LEMMA InsertLinkLinks ==
    ASSUME NEW L \in SUBSET Nodes, Types, Inv(L), NEW p \in Threads, InsertLink(p), next[prev[p]] = current[p]
    PROVE  /\ Types' /\ \E L2 \in SUBSET Nodes : L2 = L \cup {node[p]} /\ Inv(L2)'
           /\ \A m \in L : key[m] # sought[p]
<1>1. UNCHANGED <<key, value, free, retired, op, sought, node, missing, prev, current, nxt>>
  BY DEF InsertLink, nodeVars, callVars, walkVars
<1>2. /\ pc[p] = "link" /\ pc' = [pc EXCEPT ![p] = "return"] /\ answer' = [answer EXCEPT ![p] = TRUE]
      /\ next' = [next EXCEPT ![node[p]] = current[p], ![prev[p]] = node[p]]
  BY DEF InsertLink, Answer, At, Goto
<1>3. PICK n \in Nodes : n = node[p]
  BY <1>2, AtLink
<1>4. PICK a \in L \cup {Root} : a = prev[p]
  BY <1>2, AtLink
<1>5. PICK c \in L \cup {Null} : c = current[p]
  BY <1>2, AtLink
<1>6. /\ n \notin L \cup free \cup retired /\ n # Root /\ Own(p, n) /\ a # n
      /\ key[n] \in Keys /\ value[n] = p /\ K(n) = key[n] /\ key[n] = sought[p]
      /\ K(a) < K(n)
      /\ c # Null => K(n) < K(c)
  BY <1>2, <1>3, <1>4, <1>5, AtLink
<1> DEFINE L2 == L \cup {n}
<1>7. next' = [next EXCEPT ![n] = c, ![a] = n] /\ next[a] = c
  BY <1>2, <1>3, <1>4, <1>5
<1>8. Types'
  BY <1>1, <1>2, <1>7 DEF Types, Labels
<1>9. /\ next'[n] = c /\ next'[a] = n
      /\ \A m \in L \cup {Root} : m # a => next'[m] = next[m]
  BY <1>6, <1>7 DEF Types
<1>10. pc'[p] = "return" /\ answer'[p] = TRUE
  BY <1>2 DEF Types
<1>11. \A q \in Threads : q # p => Same(q)
  BY <1>1, <1>2 DEF Types, Same
<1>12. /\ \A q \in Threads : pc[q] # "unlink"
       /\ \A m \in L \cup {Root} : After(m) = next[m]
  BY <1>2, NothingCut
<1>13. \A m \in L2 \cup {Root} : After(m)' = next'[m]
  <2>1. \A q \in Threads : pc'[q] # "unlink"
    BY <1>10, <1>11, <1>12 DEF Same
  <2>2. \A m \in L2 \cup {Root} : m # Null
    BY KvListAssumption
  <2> QED BY <2>1, <2>2 DEF After, At
<1>14. /\ \A m \in L \cup {Root} : K(m) \in Nat
       /\ \A m, o \in L \cup {Root} : K(m) = K(o) => m = o
       /\ K(n) \in Nat
  <2>1. List(L)
    BY DEF Inv
  <2>2. K(n) \in Nat
    BY <1>6, KvListAssumption
  <2> QED BY <2>1, <2>2, Keyed
<1>15. \A m \in L \cup {Root} : Follows(L, m, next[m])
  BY <1>12 DEF Inv, List
<1>16. \A m \in L : K(m) # K(n)
  <2> SUFFICES ASSUME NEW m \in L, K(m) = K(n) PROVE FALSE
    OBVIOUS
  <2>1. K(a) < K(m)
    BY <1>6
  <2>2. c # Null /\ K(c) <= K(m)
    BY <2>1, <1>7, <1>15 DEF Follows
  <2>3. c \in L /\ K(n) < K(c)
    BY <2>2, <1>6
  <2> QED BY <2>2, <2>3, <1>14
<1>17. ASSUME NEW m \in L2 \cup {Root} PROVE Follows(L2, m, next'[m])
  <2>1. CASE m = n
    <3>1. c # Null => c \in L2 /\ K(n) < K(c)
      BY <1>6
    <3>2. ASSUME NEW x \in L2, K(n) < K(x) PROVE c # Null /\ K(c) <= K(x)
      <4>1. x \in L
        BY <3>2, <1>14
      <4>2. K(a) < K(x)
        BY <4>1, <3>2, <1>6, <1>14
      <4> QED BY <4>1, <4>2, <1>7, <1>15 DEF Follows
    <3> QED BY <2>1, <3>1, <3>2, <1>9 DEF Follows
  <2>2. CASE m = a
    <3>1. ASSUME NEW x \in L2, K(a) < K(x) PROVE K(n) <= K(x)
      <4>1. CASE x = n
        BY <4>1, <1>14
      <4>2. CASE x \in L
        <5>1. c # Null /\ K(c) <= K(x)
          BY <4>2, <3>1, <1>7, <1>15 DEF Follows
        <5>2. c \in L /\ K(n) < K(c)
          BY <5>1, <1>6
        <5> QED BY <5>1, <5>2, <4>2, <1>14
      <4> QED BY <4>1, <4>2
    <3>2. n \in L2 /\ K(a) < K(n) /\ n # Null
      BY <1>6, KvListAssumption
    <3> QED BY <2>2, <3>1, <3>2, <1>9 DEF Follows
  <2>3. CASE m \in L \cup {Root} /\ m # a
    <3>1. PICK b : b = next[m]
      OBVIOUS
    <3>2. Follows(L, m, b) /\ next'[m] = b
      BY <2>3, <3>1, <1>9, <1>15
    <3>3. ASSUME K(m) < K(n) PROVE b # Null /\ K(b) <= K(n)
      <4>1. CASE K(m) < K(a)
        <5>1. a \in L
          BY <4>1, <2>3, <1>14 DEF K
        <5>2. b # Null /\ K(b) <= K(a) /\ b \in L
          BY <5>1, <4>1, <3>2 DEF Follows
        <5> QED BY <5>1, <5>2, <1>6, <1>14
      <4>2. CASE K(a) < K(m)
        <5>1. m \in L
          BY <4>2, <2>3, <1>14 DEF K
        <5>2. c # Null /\ K(c) <= K(m)
          BY <5>1, <4>2, <1>7, <1>15 DEF Follows
        <5>3. c \in L /\ K(n) < K(c)
          BY <5>2, <1>6
        <5> QED BY <5>1, <5>2, <5>3, <3>3, <1>14
      <4> QED BY <4>1, <4>2, <2>3, <1>14
    <3> QED BY <3>2, <3>3 DEF Follows
  <2> QED BY <2>1, <2>2, <2>3
<1>18. ASSUME NEW x \in L2 PROVE \E m \in L2 \cup {Root} : next'[m] = x
  <2>1. CASE x = n
    BY <2>1, <1>9
  <2>2. CASE x \in L
    <3>1. PICK m \in L \cup {Root} : next[m] = x
      BY <2>2, <1>12 DEF Inv, List
    <3>2. CASE m = a
      BY <3>1, <3>2, <1>7, <1>9
    <3>3. CASE m # a
      BY <3>1, <3>3, <1>9
    <3> QED BY <3>2, <3>3
  <2> QED BY <2>1, <2>2
<1>19. List(L2)'
  <2>1. \A m \in L2 : key'[m] \in Keys /\ value'[m] \in Threads
    BY <1>1, <1>6 DEF Inv, List
  <2>2. \A m, o \in L2 : key'[m] = key'[o] => m = o
    <3>1. \A m, o \in L : key[m] = key[o] => m = o
      BY DEF Inv, List
    <3>2. \A m \in L : key[m] # key[n]
      BY <1>6, <1>16, Keyed DEF Inv
    <3> QED BY <3>1, <3>2, <1>1
  <2>3. \A m \in L2 \cup {Root} : Follows(L2, m, After(m))'
    <3>1. \A m : K(m)' = K(m)
      BY <1>1 DEF K
    <3>2. ASSUME NEW m \in L2 \cup {Root} PROVE Follows(L2, m, After(m))'
      <4>1. PICK b : b = next'[m] /\ b = After(m)'
        BY <1>13
      <4>2. Follows(L2, m, b)
        BY <4>1, <1>17
      <4> QED BY <4>1, <4>2, <3>1 DEF Follows
    <3> QED BY <3>2
  <2>4. \A x \in L2 : \E m \in L2 \cup {Root} : After(m)' = x
    BY <1>13, <1>18
  <2> QED BY <2>1, <2>2, <2>3, <2>4 DEF List
<1>20. Placed(L2)'
  <2>1. Placed(L)
    BY DEF Inv
  <2>2. \A q \in Threads : \A m \in Nodes : Own(q, m)' => Own(q, m) /\ q # p
    BY <1>10, <1>11 DEF Same, Own
  <2>3. \A q \in Threads : \A m \in Nodes : Own(q, m)' => m # n
    BY <2>1, <2>2, <1>6 DEF Placed
  <2> QED BY <2>1, <2>2, <2>3, <1>1, <1>6 DEF Placed
<1>21. ErasesAlone'
  <2>1. ErasesAlone
    BY DEF Inv
  <2> QED BY <2>1, <1>1, <1>2, <1>11 DEF ErasesAlone, Same
<1>22. ASSUME NEW q \in Threads, q # p PROVE Called(q)' /\ Knows(q, L2)' /\ Misses(q, L2)'
  <2>1. Called(q) /\ Knows(q, L) /\ Misses(q, L) /\ Same(q)
    BY <1>11, <1>22 DEF Inv
  <2>2. L \subseteq L2 /\ L2 \in SUBSET Nodes
    OBVIOUS
  <2> QED BY <2>1, <2>2, <1>1, OthersKnow
<1>23. TRUE # Null
  BY KvListAssumption
<1>24. Called(p)'
  BY <1>1, <1>2, <1>10, <1>23 DEF Called, Inv
<1>25. Knows(p, L2)' /\ Misses(p, L2)'
  BY <1>10 DEF Knows, Misses, InList, Pending, At
<1>26. Inv(L2)'
  BY <1>19, <1>20, <1>21, <1>22, <1>24, <1>25 DEF Inv
<1>27. \A m \in L : key[m] # sought[p]
  BY <1>6, <1>16, Keyed DEF Inv
<1> QED BY <1>3, <1>8, <1>26, <1>27

LEMMA EraseMarkKeeps ==
    ASSUME NEW L \in SUBSET Nodes, Types, Inv(L), NEW p \in Threads, EraseMark(p)
    PROVE  Types' /\ Inv(L)'
<1>1. UNCHANGED <<key, value, free, retired, op, sought, node, missing, prev, current, nxt, answer>>
  BY DEF EraseMark, nodeVars, callVars, walkVars
<1>2. pc[p] = "mark" /\ pc' = [pc EXCEPT ![p] = "unlink"] /\ next[current[p]] = nxt[p]
  BY DEF EraseMark, At, Goto
<1>3. Called(p) /\ Knows(p, L) /\ Misses(p, L) /\ ErasesAlone /\ Placed(L)
  BY DEF Inv
<1>4. PICK c \in L : c = current[p] /\ next[c] = nxt[p]
  BY <1>2, <1>3 DEF Knows, InList
<1>5. next' = [next EXCEPT ![c] = Null]
  BY <1>4 DEF EraseMark, mark_as_deleted
<1>6. Types'
  BY <1>1, <1>2, <1>5 DEF Types, Labels
<1>7. pc'[p] = "unlink" /\ op[p] = "erase"
  BY <1>2, <1>3 DEF Types, Called
<1>8. \A q \in Threads : q # p => Same(q)
  BY <1>1, <1>2 DEF Types, Same
<1>9. \A m \in L \cup {Root} : After(m) = next[m] /\ m # Null
  BY <1>2, NothingCut, KvListAssumption
<1>10. {q \in Threads : pc'[q] = "unlink"} = {p}
  <2>1. \A q \in Threads : pc[q] # "unlink"
    BY <1>2, NothingCut
  <2> QED BY <2>1, <1>7, <1>8 DEF Same
<1>11. ASSUME NEW m \in L \cup {Root} PROVE After(m)' = After(m)
  <2> DEFINE C == {q \in Threads : At(q, "unlink") /\ current[q] = m}
  <2>1. After(m)' = IF C' = {} THEN next'[m] ELSE nxt[CHOOSE q \in C' : TRUE]
    BY <1>1, <1>9 DEF After
  <2>2. CASE m = c
    <3>1. C' = {p}
      BY <2>2, <1>1, <1>4, <1>10 DEF At
    <3>2. PICK q : q = CHOOSE r \in C' : TRUE
      OBVIOUS
    <3>3. q = p
      BY <3>1, <3>2
    <3> QED BY <3>1, <3>2, <3>3, <2>1, <2>2, <1>4, <1>9
  <2>3. CASE m # c
    <3>1. C' = {}
      BY <2>3, <1>1, <1>4, <1>10 DEF At
    <3>2. next'[m] = next[m]
      BY <2>3, <1>5 DEF Types
    <3> QED BY <3>1, <3>2, <2>1, <1>9
  <2> QED BY <2>2, <2>3
<1>12. List(L)'
  BY <1>1, <1>11, ListStays DEF Inv
<1>13. Placed(L)'
  <2>1. \A q \in Threads : \A m \in Nodes : Own(q, m)' => Own(q, m)
    BY <1>1, <1>7, <1>8 DEF Same, Own
  <2> QED BY <2>1, <1>1, <1>3 DEF Placed
<1>14. ErasesAlone'
  BY <1>1, <1>2, <1>3, <1>8 DEF ErasesAlone, Same
<1>15. ASSUME NEW q \in Threads, q # p PROVE Called(q)' /\ Knows(q, L)' /\ Misses(q, L)'
  <2>1. Called(q) /\ Knows(q, L) /\ Misses(q, L) /\ Same(q)
    BY <1>8, <1>15 DEF Inv
  <2> QED BY <2>1, <1>1, OthersKnow
<1>16. Called(p)'
  BY <1>1, <1>2, <1>3, <1>7 DEF Called
<1>17. Knows(p, L)'
  <2>1. \A n : K(n)' = K(n)
    BY <1>1 DEF K
  <2>2. K(prev[p])' = K(prev[p]) /\ K(current[p])' = K(current[p]) /\ K(nxt[p])' = K(nxt[p])
    BY <1>1 DEF K
  <2> QED BY <2>2, <1>1, <1>2, <1>3, <1>7 DEF Knows, InList
<1>18. Misses(p, L)'
  BY <1>1, <1>2, <1>3, <1>7 DEF Misses, Pending, At
<1> QED BY <1>6, <1>12, <1>13, <1>14, <1>15, <1>16, <1>17, <1>18 DEF Inv

\* The node leaves the list, with nobody there to see it.
LEMMA EraseUnlinkKeeps ==
    ASSUME NEW L \in SUBSET Nodes, Types, Inv(L), NEW p \in Threads, EraseUnlink(p)
    PROVE  /\ Types' /\ current[p] \in L /\ \E L2 \in SUBSET Nodes : L2 = L \ {current[p]} /\ Inv(L2)'
<1>1. UNCHANGED <<key, value, free, op, sought, node, missing, prev, current, nxt>>
  BY DEF EraseUnlink, callVars, walkVars
<1>2. pc[p] = "unlink" /\ pc' = [pc EXCEPT ![p] = "return"] /\ answer' = [answer EXCEPT ![p] = TRUE]
  BY DEF EraseUnlink, Answer, At, Goto
<1>3. Called(p) /\ Knows(p, L) /\ ErasesAlone /\ Placed(L) /\ List(L)
  BY DEF Inv
<1>4. PICK c \in L : c = current[p]
  BY <1>2, <1>3 DEF Knows, InList
<1>5. PICK a \in L \cup {Root} : a = prev[p]
  BY <1>2, <1>3 DEF Knows, InList
<1>6. PICK x \in L \cup {Null} : x = nxt[p]
  BY <1>2, <1>3 DEF Knows
<1>7. K(a) < K(c) /\ a # c
  <2>1. K(a) < K(c)
    BY <1>2, <1>3, <1>4, <1>5 DEF Knows, InList
  <2>2. K(c) \in Nat
    BY <1>3, Keyed
  <2> QED BY <2>1, <2>2
<1>8. next' = [next EXCEPT ![a] = x] /\ retired' = retired \cup {c} /\ next[a] = c
  BY <1>4, <1>5, <1>6 DEF EraseUnlink
<1> DEFINE L2 == L \ {c}
<1>9. Types'
  BY <1>1, <1>2, <1>6, <1>8 DEF Types, Labels
<1>10. next'[a] = x /\ \A m \in L \cup {Root} : m # a => next'[m] = next[m]
  BY <1>8 DEF Types
<1>11. pc'[p] = "return" /\ answer'[p] = TRUE
  BY <1>2 DEF Types
<1>12. \A q \in Threads : q # p => Same(q) /\ pc[q] = "idle"
  <2>1. op[p] = "erase"
    BY <1>2, <1>3 DEF Called
  <2>2. \A q \in Threads : q # p => pc[q] = "idle"
    BY <2>1, <1>3 DEF ErasesAlone
  <2>3. \A q \in Threads : q # p => Same(q)
    BY <1>1, <1>2 DEF Types, Same
  <2> QED BY <2>2, <2>3
<1>13. After(c) = x /\ \A m \in L \cup {Root} : m # c => After(m) = next[m]
  <2>1. {q \in Threads : pc[q] = "unlink"} = {p}
    BY <1>2, <1>12
  <2>2. \A m \in L \cup {Root} : m # Null
    BY KvListAssumption
  <2>3. {q \in Threads : At(q, "unlink") /\ current[q] = c} = {p}
    BY <2>1, <1>4 DEF At
  <2>4. PICK q : q = CHOOSE r \in {s \in Threads : At(s, "unlink") /\ current[s] = c} : TRUE
    OBVIOUS
  <2>5. q = p
    BY <2>3, <2>4
  <2>6. After(c) = x
    BY <2>2, <2>3, <2>4, <2>5, <1>6 DEF After
  <2>7. \A m \in L \cup {Root} : m # c => After(m) = next[m]
    BY <2>1, <2>2, <1>4 DEF After, At
  <2> QED BY <2>6, <2>7
<1>14. \A m \in L2 \cup {Root} : After(m)' = next'[m]
  <2>1. \A q \in Threads : pc'[q] # "unlink"
    BY <1>11, <1>12 DEF Same
  <2>2. \A m \in L2 \cup {Root} : m # Null
    BY KvListAssumption
  <2> QED BY <2>1, <2>2 DEF After, At
<1>15. /\ \A m \in L \cup {Root} : K(m) \in Nat
       /\ \A m, o \in L \cup {Root} : K(m) = K(o) => m = o
       /\ c # Root
  BY <1>3, Keyed
<1>16. Follows(L, c, x) /\ Follows(L, a, c) /\ \A m \in L \cup {Root} : m # c => Follows(L, m, next[m])
  <2>1. \A m \in L \cup {Root} : Follows(L, m, After(m))
    BY <1>3 DEF List
  <2> QED BY <2>1, <1>7, <1>8, <1>13
<1>17. x # Null => x \in L2
  <2>1. x # Null => x \in L /\ K(c) < K(x)
    BY <1>16 DEF Follows
  <2> QED BY <2>1, <1>15
<1>18. ASSUME NEW m \in L2 \cup {Root} PROVE Follows(L2, m, next'[m])
  <2>1. CASE m = a
    <3>1. x # Null => x \in L2 /\ K(a) < K(x)
      <4> SUFFICES ASSUME x # Null PROVE x \in L2 /\ K(a) < K(x)
        OBVIOUS
      <4>1. x \in L2 /\ K(c) < K(x)
        BY <1>16, <1>17 DEF Follows
      <4> QED BY <4>1, <1>7, <1>15
    <3>2. ASSUME NEW y \in L2, K(a) < K(y) PROVE x # Null /\ K(x) <= K(y)
      <4>1. K(c) <= K(y) /\ y # c
        BY <3>2, <1>16 DEF Follows
      <4>2. K(c) < K(y)
        BY <4>1, <1>15
      <4> QED BY <4>2, <1>16 DEF Follows
    <3> QED BY <2>1, <3>1, <3>2, <1>10 DEF Follows
  <2>2. CASE m # a
    <3>1. PICK b : b = next[m]
      OBVIOUS
    <3>2. next'[m] = b /\ Follows(L, m, b)
      BY <2>2, <3>1, <1>10, <1>15, <1>16
    <3>3. b # c
      <4> SUFFICES ASSUME b = c PROVE FALSE
        OBVIOUS
      <4>1. c # Null
        BY KvListAssumption
      <4>2. K(m) < K(c)
        BY <4>1, <3>2 DEF Follows
      <4>3. CASE K(m) < K(a)
        <5>1. a \in L
          BY <4>3, <1>15 DEF K
        <5>2. K(c) <= K(a)
          BY <5>1, <4>3, <3>2 DEF Follows
        <5> QED BY <5>2, <1>7, <1>15
      <4>4. CASE K(a) < K(m)
        <5>1. m \in L
          BY <4>4, <1>15 DEF K
        <5>2. K(c) <= K(m)
          BY <5>1, <4>4, <1>16 DEF Follows
        <5> QED BY <5>1, <5>2, <4>2, <1>15
      <4> QED BY <4>3, <4>4, <2>2, <1>15
    <3>4. /\ b # Null => b \in L2 /\ K(m) < K(b)
          /\ \A y \in L2 : K(m) < K(y) => b # Null /\ K(b) <= K(y)
      BY <3>2, <3>3 DEF Follows
    <3> QED BY <3>2, <3>4 DEF Follows
  <2> QED BY <2>1, <2>2
<1>19. ASSUME NEW y \in L2 PROVE \E m \in L2 \cup {Root} : next'[m] = y
  <2>1. PICK m \in L \cup {Root} : After(m) = y
    BY <1>3 DEF List
  <2>2. CASE m = c
    <3>1. next'[a] = y /\ a \in L2 \cup {Root}
      BY <2>1, <2>2, <1>7, <1>10, <1>13
    <3> QED BY <3>1
  <2>3. CASE m # c
    <3>1. next[m] = y /\ m # a
      BY <2>1, <2>3, <1>8, <1>13
    <3>2. next'[m] = y /\ m \in L2 \cup {Root}
      BY <3>1, <2>3, <1>10
    <3> QED BY <3>2
  <2> QED BY <2>2, <2>3
<1>20. List(L2)'
  <2>1. /\ \A m \in L2 : key'[m] \in Keys /\ value'[m] \in Threads
        /\ \A m, o \in L2 : key'[m] = key'[o] => m = o
    BY <1>1, <1>3 DEF List
  <2>2. ASSUME NEW m \in L2 \cup {Root} PROVE Follows(L2, m, After(m))'
    <3>1. PICK b : b = next'[m] /\ b = After(m)'
      BY <1>14
    <3>2. Follows(L2, m, b)
      BY <3>1, <1>18
    <3>3. \A n : K(n)' = K(n)
      BY <1>1 DEF K
    <3> QED BY <3>1, <3>2, <3>3 DEF Follows
  <2>3. \A y \in L2 : \E m \in L2 \cup {Root} : After(m)' = y
    BY <1>14, <1>19
  <2> QED BY <2>1, <2>2, <2>3 DEF List
<1>21. \A q \in Threads : \A m \in Nodes : ~Own(q, m)'
  BY <1>11, <1>12 DEF Same, Own
<1>22. Placed(L2)'
  BY <1>1, <1>3, <1>8, <1>21 DEF Placed
<1>23. ErasesAlone'
  BY <1>1, <1>3, <1>2, <1>12 DEF ErasesAlone, Same
<1>24. ASSUME NEW q \in Threads, q # p PROVE Called(q)' /\ Knows(q, L2)' /\ Misses(q, L2)'
  <2>1. pc'[q] = "idle" /\ op'[q] = op[q] /\ answer'[q] = answer[q] /\ Called(q) /\ pc[q] = "idle"
    BY <1>12, <1>24 DEF Same, Inv
  <2> QED BY <2>1 DEF Called, Knows, Misses, InList, Pending, At, NoOp
<1>25. TRUE # Null
  BY KvListAssumption
<1>26. Called(p)'
  BY <1>1, <1>2, <1>3, <1>11, <1>25 DEF Called
<1>27. Knows(p, L2)' /\ Misses(p, L2)'
  BY <1>11 DEF Knows, Misses, InList, Pending, At
<1>28. Inv(L2)'
  BY <1>20, <1>22, <1>23, <1>24, <1>26, <1>27 DEF Inv
<1> QED BY <1>4, <1>9, <1>28

LEMMA ReclaimKeeps ==
    ASSUME NEW L \in SUBSET Nodes, Types, Inv(L), NEW n \in Nodes, Reclaim(n)
    PROVE  Types' /\ Inv(L)' /\ n \notin L
<1>1. UNCHANGED <<pc, op, sought, node, missing, prev, current, nxt, answer>>
  BY DEF Reclaim, callVars, walkVars
<1>2. /\ n \in retired /\ retired' = retired \ {n} /\ free' = free \cup {n}
      /\ key' = [key EXCEPT ![n] = NoKey] /\ value' = [value EXCEPT ![n] = Null]
      /\ next' = [next EXCEPT ![n] = Null]
  BY DEF Reclaim
<1>3. Placed(L) /\ List(L) /\ n \notin L /\ n # Root
  BY <1>2, KvListAssumption DEF Inv, Placed
<1>4. Types'
  BY <1>1, <1>2 DEF Types
<1>5. \A m \in L : key'[m] = key[m] /\ value'[m] = value[m]
  BY <1>2, <1>3 DEF Types
<1>6. \A q \in Threads : Same(q)
  BY <1>1 DEF Same
<1>7. List(L)'
  <2>1. \A m \in L \cup {Root} : next'[m] = next[m]
    BY <1>2, <1>3 DEF Types
  <2>2. \A m \in L \cup {Root} : After(m)' = After(m)
    BY <2>1, <1>1, AfterStays
  <2> QED BY <2>2, <1>3, <1>5, ListStays
<1>8. \A q \in Threads : \A m \in Nodes : Own(q, m)' => Own(q, m) /\ m # n
  BY <1>1, <1>2, <1>3 DEF Own, Placed
<1>9. Placed(L)'
  BY <1>2, <1>3, <1>8 DEF Placed
<1>10. ErasesAlone'
  BY <1>1 DEF Inv, ErasesAlone
<1>11. ASSUME NEW q \in Threads PROVE Called(q)' /\ Knows(q, L)' /\ Misses(q, L)'
  <2>1. Called(q) /\ Knows(q, L) /\ Misses(q, L) /\ Same(q)
    BY <1>6 DEF Inv
  <2>2. \A m \in Nodes : Own(q, m) => key'[m] = key[m] /\ value'[m] = value[m]
    <3>1. \A m \in Nodes : Own(q, m) => m # n
      BY <1>2, <1>3 DEF Placed
    <3> QED BY <3>1, <1>2 DEF Types
  <2> QED BY <2>1, <2>2, <1>5, OthersKnow
<1> QED BY <1>3, <1>4, <1>7, <1>9, <1>10, <1>11 DEF Inv

-----------------------------------------------------------------------------
(* The theorems.                                                           *)

LEMMA InitHolds == Init => IInv
<1> SUFFICES ASSUME Init PROVE IInv
  OBVIOUS
<1>1. Types
  BY KvListAssumption DEF Init, Types, Labels, Ops, NoOp
<1>2. {} \in SUBSET Nodes
  OBVIOUS
<1>3. After(Root) = Null
  <2>1. {p \in Threads : At(p, "unlink") /\ current[p] = Root} = {}
    BY DEF Init, At
  <2> QED BY <2>1 DEF Init, After
<1>4. List({})
  BY <1>3 DEF List, Follows
<1>5. Placed({})
  BY DEF Init, Placed, Own, NoOp
<1>6. ErasesAlone
  BY DEF Init, ErasesAlone, NoOp
<1>7. ASSUME NEW p \in Threads PROVE Called(p) /\ Knows(p, {}) /\ Misses(p, {})
  BY DEF Init, Called, Knows, Misses, InList, NoOp, Pending, At
<1>8. Inv({})
  BY <1>4, <1>5, <1>6, <1>7 DEF Inv
<1> QED BY <1>1, <1>2, <1>8 DEF IInv

LEMMA TypesStutter == Types /\ UNCHANGED vars => Types'
BY DEF Types, vars, nodeVars, callVars, walkVars

LEMMA StutterKeeps ==
    ASSUME NEW L \in SUBSET Nodes, Types, Inv(L), UNCHANGED vars
    PROVE  Types' /\ Inv(L)'
<1>1. UNCHANGED <<next, key, value, free, retired, pc, op, sought, node, missing, prev, current, nxt, answer>>
  BY DEF vars, nodeVars, callVars, walkVars
<1>2. List(L)'
  <2>1. \A n : After(n)' = After(n)
    BY <1>1, AfterStays
  <2> QED BY <1>1, <2>1, ListStays DEF Inv
<1>3. Placed(L)'
  BY <1>1 DEF Inv, Placed, Own
<1>4. ErasesAlone'
  BY <1>1 DEF Inv, ErasesAlone
<1>5. ASSUME NEW q \in Threads PROVE Called(q)' /\ Knows(q, L)' /\ Misses(q, L)'
  <2>1. Called(q) /\ Knows(q, L) /\ Misses(q, L)
    BY DEF Inv
  <2>2. Same(q)
    BY <1>1 DEF Same
  <2> QED BY <1>1, <2>1, <2>2, OthersKnow
<1> QED BY <1>2, <1>3, <1>4, <1>5, TypesStutter DEF Inv

LEMMA StepKeeps ==
    ASSUME NEW L \in SUBSET Nodes, Types, Inv(L), NEW p \in Threads, Step(p)
    PROVE  Types' /\ \E L2 \in SUBSET Nodes : Inv(L2)'
<1>1. CASE BeginFind(p)
  BY <1>1, BeginFindKeeps
<1>2. CASE BeginInsert(p)
  BY <1>2, BeginInsertKeeps
<1>3. CASE FindHead(p)
  BY <1>3, FindHeadKeeps
<1>4. CASE FindCheck(p)
  BY <1>4, FindCheckKeeps
<1>5. CASE FindNext(p)
  BY <1>5, FindNextKeeps
<1>6. CASE FindCompare(p)
  BY <1>6, FindCompareKeeps
<1>7. CASE FindAgain(p)
  BY <1>7, FindCheckKeeps
<1>8. CASE FindValue(p)
  BY <1>8, FindValueKeeps
<1>9. CASE InsertLink(p)
  BY <1>9, InsertLinkFails, InsertLinkLinks
<1>10. CASE EraseMark(p)
  BY <1>10, EraseMarkKeeps
<1>11. CASE EraseUnlink(p)
  BY <1>11, EraseUnlinkKeeps
<1>12. CASE Return(p)
  BY <1>12, ReturnKeeps
<1>13. CASE Close(p)
  BY <1>13, CloseKeeps
<1> QED BY <1>1, <1>2, <1>3, <1>4, <1>5, <1>6, <1>7, <1>8, <1>9, <1>10, <1>11, <1>12, <1>13 DEF Step

LEMMA NextKeeps == IInv /\ [Next]_vars => IInv'
<1> SUFFICES ASSUME IInv, [Next]_vars PROVE IInv'
  OBVIOUS
<1>1. Types
  BY DEF IInv
<1>2. PICK L \in SUBSET Nodes : Inv(L)
  BY DEF IInv
<1>3. CASE \E p \in Threads : Step(p)
  BY <1>1, <1>2, <1>3, StepKeeps DEF IInv
<1>4. CASE \E n \in Nodes : Reclaim(n)
  BY <1>1, <1>2, <1>4, ReclaimKeeps DEF IInv
<1>5. CASE UNCHANGED vars
  BY <1>1, <1>2, <1>5, StutterKeeps DEF IInv
<1> QED BY <1>3, <1>4, <1>5 DEF Next

\* Whatever insertions, finds and lone erasures do to each other, the nodes of
\* the list are those of some set, in the order of their keys, and every call
\* stands where it thinks it does.
THEOREM ListInvariant == Spec => []IInv
<1> QED BY InitHolds, NextKeeps, PTL DEF Spec

\* The list stays sorted, without duplicates and clear of retired and free
\* memory (interlocked_kv_list_insert), for any number of threads and nodes.
THEOREM ListIsSorted == Spec => []Sorted
<1>1. IInv => Sorted
  <2> SUFFICES ASSUME IInv PROVE Sorted
    OBVIOUS
  <2>1. PICK L \in SUBSET Nodes : Inv(L)
    BY DEF IInv
  <2>2. List(L)
    BY <2>1 DEF Inv
  <2>3. Linked \cap (free \cup retired) = {}
    <3>1. Linked = L
      BY <2>2, LinkedIsList
    <3> QED BY <2>1, <3>1 DEF Inv, Placed
  <2>4. Cardinality(Nodes) \in Nat
    BY KvListAssumption, FS_CardinalityType
  <2>5. ASSUME NEW i \in 1..Cardinality(Nodes) - 1, Walk[i] # Null, Walk[i + 1] # Null
        PROVE  key[Walk[i]] < key[Walk[i + 1]]
    <3>1. i \in 1..Cardinality(Nodes) /\ i + 1 \in 1..Cardinality(Nodes) /\ (i + 1) - 1 = i
      BY <2>4
    <3>2. Walk[i] \in L /\ Walk[i + 1] \in L
      <4>1. Walk[i] \in Linked /\ Walk[i + 1] \in Linked
        BY <2>5, <3>1 DEF Linked
      <4> QED BY <4>1, <2>2, LinkedIsList
    <3>3. Walk[i + 1] = After(Walk[i])
      BY <3>1, <2>2, WalkOfList
    <3>4. K(Walk[i]) < K(Walk[i + 1])
      BY <3>2, <3>3, <2>2, <2>5 DEF List, Follows
    <3> QED BY <3>2, <3>4, <2>2, Keyed
  <2> QED BY <2>3, <2>5 DEF Sorted
<1> QED BY <1>1, ListInvariant, PTL

-----------------------------------------------------------------------------
(* The refinement: what the list holds is the map of KvMap, and every step *)
(* of a call is one of its moments, or none.                               *)

LEMMA ContentsAre ==
    \A L \in SUBSET Nodes : List(L) =>
        /\ Contents \in [Keys -> Threads \cup {Null}]
        /\ \A k \in Keys : (\A n \in L : key[n] # k) => Contents[k] = Null
        /\ \A n \in L : /\ key[n] \in Keys /\ Contents[key[n]] = value[n]
                        /\ value[n] \in Threads /\ value[n] # Null
<1> SUFFICES ASSUME NEW L \in SUBSET Nodes, List(L)
             PROVE  /\ Contents \in [Keys -> Threads \cup {Null}]
                    /\ \A k \in Keys : (\A n \in L : key[n] # k) => Contents[k] = Null
                    /\ \A n \in L : /\ key[n] \in Keys /\ Contents[key[n]] = value[n]
                                    /\ value[n] \in Threads /\ value[n] # Null
  OBVIOUS
<1>1. Contents = MapOf(L)
  BY ContentsOfList
<1>2. /\ \A k \in Keys : (\A n \in L : key[n] # k) => MapOf(L)[k] = Null
      /\ \A n \in L : key[n] \in Keys /\ MapOf(L)[key[n]] = value[n] /\ value[n] \in Threads /\ value[n] # Null
  BY MapOfList
<1>3. ASSUME NEW k \in Keys PROVE MapOf(L)[k] \in Threads \cup {Null}
  <2>1. CASE \A n \in L : key[n] # k
    BY <1>2, <2>1
  <2>2. CASE \E n \in L : key[n] = k
    BY <1>2, <2>2
  <2> QED BY <2>1, <2>2
<1>4. MapOf(L) \in [Keys -> Threads \cup {Null}]
  <2>1. MapOf(L) = [k \in Keys |-> MapOf(L)[k]]
    BY DEF MapOf
  <2> QED BY <1>3, <2>1
<1> QED BY <1>1, <1>2, <1>4

LEMMA ContentsWillBe ==
    \A L \in SUBSET Nodes : List(L)' =>
        /\ Contents' \in [Keys -> Threads \cup {Null}]
        /\ \A k \in Keys : (\A n \in L : key'[n] # k) => Contents'[k] = Null
        /\ \A n \in L : /\ key'[n] \in Keys /\ Contents'[key'[n]] = value'[n]
                        /\ value'[n] \in Threads /\ value'[n] # Null
<1>1. (\A L \in SUBSET Nodes : List(L) =>
        /\ Contents \in [Keys -> Threads \cup {Null}]
        /\ \A k \in Keys : (\A n \in L : key[n] # k) => Contents[k] = Null
        /\ \A n \in L : /\ key[n] \in Keys /\ Contents[key[n]] = value[n]
                        /\ value[n] \in Threads /\ value[n] # Null)'
  BY ContentsAre, PTL
<1> QED BY <1>1

LEMMA ContentsStay ==
    ASSUME NEW L \in SUBSET Nodes, List(L), List(L)', \A n \in L : key'[n] = key[n] /\ value'[n] = value[n]
    PROVE  Contents' = Contents
<1>1. ASSUME NEW k \in Keys PROVE Contents'[k] = Contents[k]
  <2>1. CASE \A n \in L : key[n] # k
    BY <2>1, ContentsAre, ContentsWillBe
  <2>2. CASE \E n \in L : key[n] = k
    <3>1. PICK n \in L : key[n] = k
      BY <2>2
    <3>2. Contents[k] = value[n]
      BY <3>1, ContentsAre
    <3>3. Contents'[k] = value'[n]
      BY <3>1, ContentsWillBe
    <3> QED BY <3>2, <3>3
  <2> QED BY <2>1, <2>2
<1>2. Contents \in [Keys -> Threads \cup {Null}] /\ Contents' \in [Keys -> Threads \cup {Null}]
  BY ContentsAre, ContentsWillBe
<1> QED BY <1>1, <1>2

LEMMA ContentsGrow ==
    ASSUME NEW L \in SUBSET Nodes, NEW n \in Nodes \ L, NEW L2 \in SUBSET Nodes, L2 = L \cup {n},
           List(L), List(L2)', UNCHANGED <<key, value>>
    PROVE  Contents' = [Contents EXCEPT ![key[n]] = value[n]] /\ key[n] \in Keys
<1>1. ASSUME NEW k \in Keys, k # key[n] PROVE Contents'[k] = Contents[k]
  <2>1. CASE \A m \in L : key[m] # k
    <3>1. \A m \in L2 : key'[m] # k
      BY <1>1, <2>1
    <3> QED BY <2>1, <3>1, ContentsAre, ContentsWillBe
  <2>2. CASE \E m \in L : key[m] = k
    <3>1. PICK m \in L : key[m] = k
      BY <2>2
    <3>2. Contents[k] = value[m]
      BY <3>1, ContentsAre
    <3>3. Contents'[k] = value'[m]
      BY <3>1, ContentsWillBe
    <3> QED BY <3>2, <3>3
  <2> QED BY <2>1, <2>2
<1>2. key[n] \in Keys /\ Contents'[key[n]] = value[n]
  BY ContentsWillBe
<1>3. Contents \in [Keys -> Threads \cup {Null}] /\ Contents' \in [Keys -> Threads \cup {Null}]
  BY ContentsAre, ContentsWillBe
<1> QED BY <1>1, <1>2, <1>3

LEMMA ContentsShrink ==
    ASSUME NEW L \in SUBSET Nodes, NEW n \in L, NEW L2 \in SUBSET Nodes, L2 = L \ {n},
           List(L), List(L2)', UNCHANGED <<key, value>>
    PROVE  Contents' = [Contents EXCEPT ![key[n]] = Null] /\ key[n] \in Keys /\ Contents[key[n]] # Null
<1>1. ASSUME NEW k \in Keys, k # key[n] PROVE Contents'[k] = Contents[k]
  <2>1. CASE \A m \in L : key[m] # k
    <3>1. \A m \in L2 : key'[m] # k
      BY <1>1, <2>1
    <3> QED BY <2>1, <3>1, ContentsAre, ContentsWillBe
  <2>2. CASE \E m \in L : key[m] = k
    <3>1. PICK m \in L : key[m] = k
      BY <2>2
    <3>2. Contents[k] = value[m]
      BY <3>1, ContentsAre
    <3>3. m \in L2
      BY <1>1, <3>1
    <3>4. Contents'[k] = value'[m]
      BY <3>1, <3>3, ContentsWillBe
    <3> QED BY <3>2, <3>4
  <2> QED BY <2>1, <2>2
<1>2. key[n] \in Keys /\ Contents[key[n]] # Null
  BY ContentsAre
<1>3. \A m \in L2 : key'[m] # key[n]
  BY DEF List
<1>4. Contents'[key[n]] = Null
  BY <1>2, <1>3, ContentsWillBe
<1>5. Contents \in [Keys -> Threads \cup {Null}] /\ Contents' \in [Keys -> Threads \cup {Null}]
  BY ContentsAre, ContentsWillBe
<1> QED BY <1>1, <1>2, <1>4, <1>5

\* Only p's part of the image moves.
LEMMA Image ==
    ASSUME NEW p \in Threads,
           \A q \in Threads : q # p => Same(q) /\ (pc[q] = "value" => value'[current[q]] = value[current[q]])
    PROVE  /\ Calls' = [Calls EXCEPT ![p] = IF Pending(p)' THEN <<op'[p], sought'[p]>> ELSE Null]
           /\ Missing' = [Missing EXCEPT ![p] = Pending(p)' /\ missing'[p]]
           /\ Answers' = [Answers EXCEPT ![p] = IF pc'[p] = "value" THEN value'[current'[p]] ELSE answer'[p]]
<1>1. \A q \in Threads : q # p => Pending(q)' = Pending(q)
  BY DEF Same, Pending, At
<1>2. Calls' = [Calls EXCEPT ![p] = IF Pending(p)' THEN <<op'[p], sought'[p]>> ELSE Null]
  BY <1>1 DEF Same, Calls
<1>3. Missing' = [Missing EXCEPT ![p] = Pending(p)' /\ missing'[p]]
  BY <1>1, Zenon DEF Same, Missing
<1>4. Answers' = [Answers EXCEPT ![p] = IF pc'[p] = "value" THEN value'[current'[p]] ELSE answer'[p]]
  <2>1. Answers = [q \in Threads |-> Answers[q]] /\ Answers' = [q \in Threads |-> Answers'[q]]
    BY DEF Answers
  <2>2. ASSUME NEW q \in Threads, q # p PROVE Answers'[q] = Answers[q]
    <3>1. CASE pc[q] = "value"
      <4>1. Answers[q] = value[current[q]] /\ Answers'[q] = value'[current'[q]]
        BY <2>2, <3>1 DEF Same, Answers, At
      <4> QED BY <2>2, <3>1, <4>1 DEF Same
    <3>2. CASE pc[q] # "value"
      BY <2>2, <3>2 DEF Same, Answers, At
    <3> QED BY <3>1, <3>2
  <2>3. Answers'[p] = IF pc'[p] = "value" THEN value'[current'[p]] ELSE answer'[p]
    BY DEF Answers, At
  <2> QED BY <2>1, <2>2, <2>3
<1> QED BY <1>2, <1>3, <1>4

LEMMA OthersStay ==
    ASSUME NEW L \in SUBSET Nodes, Types, Inv(L), NEW p \in Threads, Step(p)
    PROVE  /\ \A q \in Threads : q # p => Same(q)
           /\ \A n \in L : key'[n] = key[n] /\ value'[n] = value[n]
<1> USE DEF Same, nodeVars, callVars, walkVars
<1>1. CASE BeginFind(p)
  BY <1>1 DEF BeginFind, Begin, Goto, Types
<1>2. CASE BeginInsert(p)
  <2>1. PICK k \in Keys, n \in free : /\ Begin(p, "insert", k)
                                      /\ key' = [key EXCEPT ![n] = k] /\ value' = [value EXCEPT ![n] = p]
                                      /\ node' = [node EXCEPT ![p] = n]
                                      /\ UNCHANGED <<walkVars, answer>>
    BY <1>2 DEF BeginInsert
  <2>2. n \notin L
    BY DEF Inv, Placed
  <2>3. \A m \in L : key'[m] = key[m] /\ value'[m] = value[m]
    BY <2>1, <2>2 DEF Types
  <2> QED BY <2>1, <2>3 DEF Begin, Goto, Types
<1>3. CASE FindHead(p) \/ FindCompare(p)
  <2>1. /\ UNCHANGED <<key, value, op, sought, node, missing, nxt>>
        /\ \A q \in Threads : q # p => prev'[q] = prev[q] /\ current'[q] = current[q]
    BY <1>3 DEF FindHead, FindCompare, Types
  <2>2. \A q \in Threads : q # p => pc'[q] = pc[q] /\ answer'[q] = answer[q]
    <3>1. (\E l : Goto(p, l) /\ answer' = answer) \/ Answer(p, FALSE)
      <4>1. CASE FindHead(p)
        BY <4>1 DEF FindHead, Arrive, NotFound
      <4>2. CASE FindCompare(p)
        BY <4>2 DEF FindCompare, Arrive, Found, NotFound
      <4> QED BY <1>3, <4>1, <4>2
    <3> QED BY <3>1 DEF Goto, Answer, Types
  <2> QED BY <2>1, <2>2
<1>4. CASE FindCheck(p) \/ FindAgain(p)
  BY <1>4 DEF FindCheck, FindAgain, Goto, Types
<1>5. CASE FindNext(p)
  BY <1>5 DEF FindNext, Goto, Types
<1>6. CASE FindValue(p)
  BY <1>6 DEF FindValue, Answer, Goto, Types
<1>7. CASE InsertLink(p)
  <2>1. /\ UNCHANGED <<key, value, op, sought, node, missing, prev, current, nxt>>
        /\ Answer(p, TRUE) \/ (Goto(p, "head") /\ answer' = answer)
    BY <1>7 DEF InsertLink
  <2> QED BY <2>1 DEF Goto, Answer, Types
<1>8. CASE EraseMark(p)
  BY <1>8 DEF EraseMark, Goto, Types
<1>9. CASE EraseUnlink(p)
  BY <1>9 DEF EraseUnlink, Answer, Goto, Types
<1>10. CASE Return(p)
  BY <1>10 DEF Return, Goto, Types
<1>11. CASE Close(p)
  BY <1>11 DEF Close, Goto, Types
<1> QED BY <1>1, <1>2, <1>3, <1>4, <1>5, <1>6, <1>7, <1>8, <1>9, <1>10, <1>11 DEF Step

LEMMA ImageOfStep ==
    ASSUME NEW L \in SUBSET Nodes, Types, Inv(L), NEW p \in Threads, Step(p)
    PROVE  /\ Calls' = [Calls EXCEPT ![p] = IF Pending(p)' THEN <<op'[p], sought'[p]>> ELSE Null]
           /\ Missing' = [Missing EXCEPT ![p] = Pending(p)' /\ missing'[p]]
           /\ Answers' = [Answers EXCEPT ![p] = IF pc'[p] = "value" THEN value'[current'[p]] ELSE answer'[p]]
<1>1. ASSUME NEW q \in Threads, q # p, pc[q] = "value" PROVE value'[current[q]] = value[current[q]]
  <2>1. Knows(q, L)
    BY DEF Inv
  <2>2. current[q] \in L
    BY <1>1, <2>1 DEF Knows, InList
  <2> QED BY <2>2, OthersStay
<1> QED BY <1>1, OthersStay, Image

\* A step of a call that leaves it where it was for its caller.
LEMMA Quiet ==
    ASSUME NEW L \in SUBSET Nodes, Types, Inv(L), Inv(L)', NEW p \in Threads, Step(p),
           Pending(p), Pending(p)', op'[p] = op[p], sought'[p] = sought[p], missing'[p] = missing[p],
           answer'[p] = answer[p]
    PROVE  UNCHANGED Abstract!vars
<1>1. Contents' = Contents
  BY OthersStay, ContentsStay DEF Inv
<1>2. Calls' = Calls
  BY ImageOfStep DEF Calls
<1>3. Missing' = Missing
  <2>1. Missing'[p] = Missing[p]
    BY DEF Missing
  <2>2. Missing = [q \in Threads |-> Missing[q]] /\ Missing' = [q \in Threads |-> Missing'[q]]
    BY DEF Missing
  <2>3. Missing' = [Missing EXCEPT ![p] = Pending(p)' /\ missing'[p]]
    BY ImageOfStep
  <2>4. \A q \in Threads : q # p => Missing'[q] = Missing[q]
    BY <2>2, <2>3
  <2> QED BY <2>1, <2>2, <2>4
<1>4. Answers' = Answers
  <2>1. pc[p] # "value" /\ pc'[p] # "value"
    BY DEF Pending, At
  <2> QED BY <2>1, ImageOfStep DEF Answers, At
<1> QED BY <1>1, <1>2, <1>3, <1>4 DEF Abstract!vars

\* A step at which a call takes effect.
LEMMA Ends ==
    ASSUME NEW L \in SUBSET Nodes, Types, Inv(L), NEW p \in Threads, Step(p),
           Pending(p), pc'[p] \in {"return", "value"},
           NEW a, a = IF pc'[p] = "value" THEN value'[current'[p]] ELSE answer'[p]
    PROVE  /\ Calls[p] = <<op[p], sought[p]>> /\ (Missing[p] <=> missing[p])
           /\ Abstract!Answer(p, a)
<1>1. ~Pending(p)'
  BY DEF Pending, At
<1>2. Calls[p] = <<op[p], sought[p]>>
  BY DEF Calls
<1>3. Missing[p] <=> missing[p]
  BY DEF Missing
<1>4. Calls' = [Calls EXCEPT ![p] = Null]
  BY <1>1, ImageOfStep
<1>5. Missing' = [Missing EXCEPT ![p] = FALSE]
  <2>1. Missing' = [Missing EXCEPT ![p] = Pending(p)' /\ missing'[p]]
    BY ImageOfStep
  <2>2. (Pending(p)' /\ missing'[p]) = FALSE
    BY <1>1
  <2> QED BY <2>1, <2>2
<1>6. Answers' = [Answers EXCEPT ![p] = a]
  BY ImageOfStep
<1> QED BY <1>2, <1>3, <1>4, <1>5, <1>6 DEF Abstract!Answer

LEMMA Begins ==
    ASSUME NEW L \in SUBSET Nodes, Types, Inv(L), Inv(L)', NEW p \in Threads, Step(p),
           pc[p] = "idle", pc'[p] = "head", answer'[p] = answer[p],
           NEW o \in Ops, op'[p] = o, NEW k \in Keys, sought'[p] = k,
           NEW b \in BOOLEAN, missing'[p] = b, b <=> Contents[k] = Null
    PROVE  Abstract!Begin(p)
<1>1. Contents' = Contents
  BY OthersStay, ContentsStay DEF Inv
<1>2. Calls[p] = Null
  BY DEF Calls, Pending, At
<1>3. answer[p] = Null
  BY DEF Inv, Called
<1>4. Answers[p] = Null
  BY <1>3 DEF Answers, At
<1>5. Pending(p)'
  BY DEF Pending, At
<1>6. Calls' = [Calls EXCEPT ![p] = <<o, k>>]
  BY <1>5, ImageOfStep
<1>7. Missing' = [Missing EXCEPT ![p] = Contents[k] = Null]
  <2>1. Missing' = [Missing EXCEPT ![p] = Pending(p)' /\ missing'[p]]
    BY ImageOfStep
  <2>2. (Pending(p)' /\ missing'[p]) = (Contents[k] = Null)
    BY <1>5
  <2> QED BY <2>1, <2>2
<1>8. Answers' = Answers
  <2>1. Answers' = [Answers EXCEPT ![p] = answer[p]]
    BY ImageOfStep
  <2> QED BY <1>3, <1>4, <2>1 DEF Answers
<1>9. o \in {"insert", "find", "erase"}
  BY DEF Ops
<1> QED BY <1>1, <1>2, <1>4, <1>6, <1>7, <1>8, <1>9 DEF Abstract!Begin

LEMMA BeginsAre ==
    ASSUME NEW L \in SUBSET Nodes, Types, Inv(L), NEW p \in Threads, BeginFind(p) \/ BeginInsert(p) \/ Close(p)
    PROVE  Abstract!Begin(p)
<1>1. Step(p)
  BY DEF Step
<1>2. Inv(L)'
  BY BeginFindKeeps, BeginInsertKeeps, CloseKeeps
<1>3. ASSUME NEW o \in Ops, NEW k \in Keys, Begin(p, o, k), answer' = answer PROVE Abstract!Begin(p)
  <2>1. pc[p] = "idle" /\ pc'[p] = "head" /\ op'[p] = o /\ sought'[p] = k
    BY <1>3 DEF Begin, At, Goto, Types
  <2>2. missing'[p] = (Contents[k] = Null)
    BY <1>3 DEF Begin, Types
  <2>3. PICK b \in BOOLEAN : b = (Contents[k] = Null)
    OBVIOUS
  <2> QED BY <1>1, <1>2, <1>3, <2>1, <2>2, <2>3, Begins
<1>4. CASE BeginFind(p)
  BY <1>3, <1>4 DEF BeginFind, Ops
<1>5. CASE BeginInsert(p)
  BY <1>3, <1>5 DEF BeginInsert, Ops
<1>6. CASE Close(p)
  <2>1. next[Root] \in L
    BY <1>6, CloseKeeps
  <2>2. key[next[Root]] \in Keys /\ Contents[key[next[Root]]] # Null
    BY <2>1, ContentsAre DEF Inv
  <2>3. /\ pc[p] = "idle" /\ pc'[p] = "head" /\ op'[p] = "erase" /\ sought'[p] = key[next[Root]]
        /\ missing'[p] = FALSE /\ answer'[p] = answer[p]
    BY <1>6 DEF Close, At, Goto, Types
  <2> QED BY <1>1, <1>2, <2>2, <2>3, Begins DEF Ops
<1> QED BY <1>4, <1>5, <1>6

LEMMA ReturnIs ==
    ASSUME NEW L \in SUBSET Nodes, Types, Inv(L), NEW p \in Threads, Return(p)
    PROVE  Abstract!Return(p)
<1>1. Step(p)
  BY DEF Step
<1>2. Contents' = Contents
  BY <1>1, ReturnKeeps, OthersStay, ContentsStay DEF Inv
<1>3. pc[p] = "return" /\ pc'[p] = "idle" /\ answer'[p] = Null
  BY DEF Return, At, Goto, Types
<1>4. Answers[p] # Null
  BY <1>3 DEF Inv, Called, Answers, At
<1>5. Answers' = [Answers EXCEPT ![p] = Null]
  BY <1>1, <1>3, ImageOfStep
<1>6. Calls' = Calls
  BY <1>1, <1>3, ImageOfStep DEF Calls, Pending, At
<1>7. Missing' = Missing
  <2>1. Missing[p] = FALSE
    BY <1>3 DEF Missing, Pending, At
  <2>2. Missing' = [Missing EXCEPT ![p] = FALSE]
    <3>1. (Pending(p)' /\ missing'[p]) = FALSE
      BY <1>3 DEF Pending, At
    <3> QED BY <1>1, <3>1, ImageOfStep
  <2> QED BY <2>1, <2>2 DEF Missing
<1> QED BY <1>2, <1>4, <1>5, <1>6, <1>7 DEF Abstract!Return

LEMMA NotFoundIs ==
    ASSUME NEW L \in SUBSET Nodes, Types, Inv(L), Inv(L)', NEW p \in Threads, Step(p),
           pc[p] \in {"head", "compare"}, NotFound(p), UNCHANGED <<op, sought, missing>>,
           op[p] # "insert" => missing[p]
    PROVE  UNCHANGED Abstract!vars \/ Abstract!Miss(p)
<1>1. Pending(p) /\ op[p] \in {"insert", "find", "erase"}
  BY DEF Pending, At, Inv, Called, Ops
<1>2. CASE op[p] = "insert"
  <2>1. pc'[p] = "link" /\ answer'[p] = answer[p]
    BY <1>2 DEF NotFound, Goto, Types
  <2> QED BY <1>1, <2>1, Quiet DEF Pending, At
<1>3. CASE op[p] # "insert"
  <2>1. pc'[p] = "return" /\ answer'[p] = FALSE
    BY <1>3 DEF NotFound, Answer, Goto, Types
  <2>2. /\ Calls[p] = <<op[p], sought[p]>> /\ (Missing[p] <=> missing[p])
        /\ Abstract!Answer(p, FALSE)
    BY <1>1, <2>1, Ends
  <2>3. Contents' = Contents
    BY OthersStay, ContentsStay DEF Inv
  <2>4. Calls[p][1] \in {"find", "erase"}
    BY <1>1, <1>3, <2>2
  <2> QED BY <1>3, <2>2, <2>3, <2>4 DEF Abstract!Miss
<1> QED BY <1>2, <1>3

LEMMA ArriveIs ==
    ASSUME NEW L \in SUBSET Nodes, Types, Inv(L), Inv(L)', NEW p \in Threads, Step(p),
           pc[p] \in {"head", "compare"}, Arrive(p), UNCHANGED <<op, sought, missing>>,
           current'[p] = Null => missing[p] \/ op[p] = "insert"
    PROVE  UNCHANGED Abstract!vars \/ Abstract!Miss(p)
<1>1. CASE current'[p] = Null
  BY <1>1, NotFoundIs DEF Arrive
<1>2. CASE current'[p] # Null
  <2>1. pc'[p] = "check" /\ answer'[p] = answer[p]
    BY <1>2 DEF Arrive, Goto, Types
  <2> QED BY <2>1, Quiet DEF Pending, At
<1> QED BY <1>1, <1>2

LEMMA FindHeadIs ==
    ASSUME NEW L \in SUBSET Nodes, Types, Inv(L), NEW p \in Threads, FindHead(p)
    PROVE  UNCHANGED Abstract!vars \/ Abstract!Miss(p)
<1>1. Step(p) /\ Inv(L)'
  BY FindHeadKeeps DEF Step
<1>2. pc[p] = "head" /\ Arrive(p) /\ current'[p] = next[Root] /\ UNCHANGED <<op, sought, missing>>
  BY DEF FindHead, At, callVars, Types
<1>3. ASSUME next[Root] = Null PROVE missing[p]
  <2>1. After(Root) = Null
    BY <1>2, <1>3, NothingCut
  <2>2. L = {}
    <3>1. Follows(L, Root, Null)
      BY <2>1 DEF Inv, List
    <3>2. \A m \in L : K(Root) < K(m)
      BY Keyed DEF Inv
    <3> QED BY <3>1, <3>2 DEF Follows
  <2> QED BY <1>2, <2>2 DEF Inv, Misses, Pending, At
<1> QED BY <1>1, <1>2, <1>3, ArriveIs

LEMMA FoundIs ==
    ASSUME NEW L \in SUBSET Nodes, Types, Inv(L), Inv(L)', NEW p \in Threads, Step(p),
           pc[p] = "compare", Found(p), UNCHANGED <<op, sought, missing, current, key, value>>,
           key[current[p]] = sought[p]
    PROVE  UNCHANGED Abstract!vars \/ Abstract!Taken(p) \/ Abstract!Hit(p)
<1>1. Pending(p) /\ current[p] \in L
  BY AtCompare DEF Pending, At
<1>2. sought[p] \in Keys /\ Contents[sought[p]] = value[current[p]] /\ value[current[p]] # Null
  BY <1>1, ContentsAre DEF Inv
<1>3. Contents' = Contents
  BY OthersStay, ContentsStay DEF Inv
<1>4. CASE op[p] = "insert" /\ Answer(p, FALSE)
  <2>1. pc'[p] = "return" /\ answer'[p] = FALSE
    BY <1>4 DEF Answer, Goto, Types
  <2>2. Calls[p] = <<"insert", sought[p]>> /\ Abstract!Answer(p, FALSE)
    BY <1>1, <1>4, <2>1, Ends
  <2> QED BY <1>2, <1>3, <2>2 DEF Abstract!Taken
<1>5. CASE op[p] = "find" /\ Goto(p, "value")
  <2>1. pc'[p] = "value" /\ value'[current'[p]] = value[current[p]]
    BY <1>5 DEF Goto, Types
  <2>2. Calls[p] = <<"find", sought[p]>> /\ Abstract!Answer(p, Contents[sought[p]])
    BY <1>1, <1>2, <1>5, <2>1, Ends
  <2> QED BY <1>2, <1>3, <2>2 DEF Abstract!Hit
<1>6. CASE op[p] = "erase" /\ Goto(p, "mark") /\ answer' = answer
  <2>1. pc'[p] = "mark"
    BY <1>6 DEF Goto, Types
  <2> QED BY <1>1, <1>6, <2>1, Quiet DEF Pending, At
<1> QED BY <1>4, <1>5, <1>6 DEF Found

LEMMA FindCompareIs ==
    ASSUME NEW L \in SUBSET Nodes, Types, Inv(L), NEW p \in Threads, FindCompare(p)
    PROVE  UNCHANGED Abstract!vars \/ Abstract!Miss(p) \/ Abstract!Taken(p) \/ Abstract!Hit(p)
<1>1. Step(p) /\ Inv(L)'
  BY FindCompareKeeps DEF Step
<1>2. pc[p] = "compare" /\ next[prev[p]] = current[p] /\ UNCHANGED <<op, sought, missing, key, value>>
  BY DEF FindCompare, At, callVars, nodeVars
<1>3. /\ prev[p] \in L \cup {Root} /\ current[p] \in L /\ nxt[p] \in L \cup {Null}
      /\ K(current[p]) = key[current[p]] /\ K(prev[p]) < sought[p]
      /\ sought[p] \in Nat /\ K(current[p]) \in Nat
  BY <1>2, AtCompare
<1>4. CASE key[current[p]] = sought[p]
  <2>1. Found(p) /\ current' = current
    BY <1>3, <1>4 DEF FindCompare
  <2> QED BY <1>1, <1>2, <1>4, <2>1, FoundIs
<1>5. CASE key[current[p]] > sought[p]
  <2>1. NotFound(p)
    BY <1>3, <1>5 DEF FindCompare
  <2>2. After(prev[p]) = current[p]
    BY <1>2, <1>3, NothingCut
  <2>3. \A m \in L : key[m] # sought[p]
    <3> SUFFICES ASSUME NEW m \in L, key[m] = sought[p] PROVE FALSE
      OBVIOUS
    <3>1. K(m) = sought[p]
      BY Keyed DEF Inv
    <3>2. K(current[p]) <= K(m)
      BY <1>3, <2>2, <3>1 DEF Inv, List, Follows
    <3> QED BY <1>3, <1>5, <3>1, <3>2
  <2>4. missing[p]
    BY <1>2, <2>3 DEF Inv, Misses, Pending, At
  <2> QED BY <1>1, <1>2, <2>1, <2>4, NotFoundIs
<1>6. CASE key[current[p]] < sought[p]
  <2>1. Arrive(p) /\ current'[p] = nxt[p]
    BY <1>3, <1>6 DEF FindCompare, Types
  <2>2. nxt[p] = Null => missing[p]
    BY <1>2, <1>3, <1>6 DEF Inv, Misses
  <2> QED BY <1>1, <1>2, <2>1, <2>2, ArriveIs
<1> QED BY <1>3, <1>4, <1>5, <1>6

LEMMA LooksAre ==
    ASSUME NEW L \in SUBSET Nodes, Types, Inv(L), NEW p \in Threads,
           FindCheck(p) \/ FindAgain(p) \/ FindNext(p) \/ EraseMark(p)
    PROVE  UNCHANGED Abstract!vars
<1>1. Step(p) /\ Inv(L)'
  BY FindCheckKeeps, FindNextKeeps, EraseMarkKeeps DEF Step
<1>2. UNCHANGED <<op, sought, missing, answer>>
  BY DEF FindCheck, FindAgain, FindNext, EraseMark, callVars
<1>3. pc[p] \in {"check", "compare", "next", "mark"}
  BY DEF FindCheck, FindAgain, FindNext, EraseMark, At
<1>4. pc'[p] \in {"next", "head", "compare", "unlink"}
  BY DEF FindCheck, FindAgain, FindNext, EraseMark, Goto, Types
<1> QED BY <1>1, <1>2, <1>3, <1>4, Quiet DEF Pending, At

LEMMA FindValueIs ==
    ASSUME NEW L \in SUBSET Nodes, Types, Inv(L), NEW p \in Threads, FindValue(p)
    PROVE  UNCHANGED Abstract!vars
<1>1. Step(p) /\ Inv(L)'
  BY FindValueKeeps DEF Step
<1>2. pc[p] = "value" /\ pc'[p] = "return" /\ answer'[p] = value[current[p]]
  BY DEF FindValue, Answer, At, Goto, Types
<1>3. Contents' = Contents
  BY <1>1, OthersStay, ContentsStay DEF Inv
<1>4. ~Pending(p) /\ ~Pending(p)'
  BY <1>2 DEF Pending, At
<1>5. Calls' = Calls
  BY <1>1, <1>4, ImageOfStep DEF Calls
<1>6. Missing' = Missing
  <2>1. Missing[p] = FALSE
    BY <1>4 DEF Missing
  <2>2. Missing' = [Missing EXCEPT ![p] = FALSE]
    <3>1. (Pending(p)' /\ missing'[p]) = FALSE
      BY <1>4
    <3> QED BY <1>1, <3>1, ImageOfStep
  <2> QED BY <2>1, <2>2 DEF Missing
<1>7. Answers' = Answers
  BY <1>1, <1>2, ImageOfStep DEF Answers, At
<1> QED BY <1>3, <1>5, <1>6, <1>7 DEF Abstract!vars

LEMMA InsertLinkIs ==
    ASSUME NEW L \in SUBSET Nodes, Types, Inv(L), NEW p \in Threads, InsertLink(p)
    PROVE  UNCHANGED Abstract!vars \/ Abstract!Insert(p)
<1>1. Step(p)
  BY DEF Step
<1>2. pc[p] = "link" /\ UNCHANGED <<op, sought, missing, key, value>>
  BY DEF InsertLink, At, callVars, nodeVars
<1>3. Pending(p)
  BY <1>2 DEF Pending, At
<1>4. CASE next[prev[p]] # current[p]
  <2>1. Inv(L)'
    BY <1>4, InsertLinkFails
  <2>2. pc'[p] = "head" /\ answer'[p] = answer[p]
    BY <1>4 DEF InsertLink, Goto, Types
  <2> QED BY <1>1, <1>2, <1>3, <2>1, <2>2, Quiet DEF Pending, At
<1>5. CASE next[prev[p]] = current[p]
  <2>1. PICK L2 \in SUBSET Nodes : L2 = L \cup {node[p]} /\ Inv(L2)'
    BY <1>5, InsertLinkLinks
  <2>2. \A m \in L : key[m] # sought[p]
    BY <1>5, InsertLinkLinks
  <2>3. /\ node[p] \in Nodes /\ node[p] \notin L /\ op[p] = "insert"
        /\ key[node[p]] = sought[p] /\ value[node[p]] = p /\ sought[p] \in Keys
    BY <1>2, AtLink
  <2>4. Contents' = [Contents EXCEPT ![sought[p]] = p]
    BY <1>2, <2>1, <2>3, ContentsGrow DEF Inv
  <2>5. Contents[sought[p]] = Null
    BY <2>2, <2>3, ContentsAre DEF Inv
  <2>6. pc'[p] = "return" /\ answer'[p] = TRUE
    BY <1>5 DEF InsertLink, Answer, Goto, Types
  <2>7. Calls[p] = <<"insert", sought[p]>> /\ Abstract!Answer(p, TRUE)
    BY <1>1, <1>3, <2>3, <2>6, Ends
  <2> QED BY <2>3, <2>4, <2>5, <2>7 DEF Abstract!Insert
<1> QED BY <1>4, <1>5

LEMMA EraseUnlinkIs ==
    ASSUME NEW L \in SUBSET Nodes, Types, Inv(L), NEW p \in Threads, EraseUnlink(p)
    PROVE  Abstract!Erase(p)
<1>1. Step(p)
  BY DEF Step
<1>2. pc[p] = "unlink" /\ UNCHANGED <<key, value>>
  BY DEF EraseUnlink, At
<1>3. PICK L2 \in SUBSET Nodes : L2 = L \ {current[p]} /\ Inv(L2)' /\ current[p] \in L
  BY EraseUnlinkKeeps
<1>4. op[p] = "erase" /\ key[current[p]] = sought[p]
  BY <1>2 DEF Inv, Called, Knows
<1>5. Contents' = [Contents EXCEPT ![sought[p]] = Null] /\ sought[p] \in Keys /\ Contents[sought[p]] # Null
  BY <1>2, <1>3, <1>4, ContentsShrink DEF Inv
<1>6. pc'[p] = "return" /\ answer'[p] = TRUE
  BY DEF EraseUnlink, Answer, Goto, Types
<1>7. Calls[p] = <<"erase", sought[p]>> /\ Abstract!Answer(p, TRUE)
  BY <1>1, <1>2, <1>4, <1>6, Ends DEF Pending, At
<1> QED BY <1>5, <1>7 DEF Abstract!Erase

LEMMA ImageUnchanged ==
    ASSUME NEW L \in SUBSET Nodes, List(L), List(L)',
           \A n \in L : key'[n] = key[n] /\ value'[n] = value[n],
           UNCHANGED <<pc, op, sought, missing, answer, current>>,
           \A q \in Threads : pc[q] = "value" => current[q] \in L
    PROVE  UNCHANGED Abstract!vars
<1>1. Contents' = Contents
  BY ContentsStay
<1>2. \A q \in Threads : Pending(q)' = Pending(q)
  BY DEF Pending, At
<1>3. Calls' = Calls
  BY <1>2 DEF Calls
<1>4. Missing' = Missing
  BY <1>2 DEF Missing
<1>5. Answers' = Answers
  BY DEF Answers, At
<1> QED BY <1>1, <1>3, <1>4, <1>5 DEF Abstract!vars

LEMMA NothingIs ==
    ASSUME NEW L \in SUBSET Nodes, Types, Inv(L), UNCHANGED vars \/ \E n \in Nodes : Reclaim(n)
    PROVE  UNCHANGED Abstract!vars
<1>1. \A q \in Threads : pc[q] = "value" => current[q] \in L
  BY DEF Inv, Knows, InList
<1>2. UNCHANGED <<pc, op, sought, missing, answer, current>>
  BY DEF vars, callVars, walkVars, Reclaim
<1>3. CASE UNCHANGED vars
  <2>1. List(L)' /\ UNCHANGED <<key, value>>
    BY <1>3, StutterKeeps DEF Inv, vars, nodeVars
  <2> QED BY <1>1, <1>2, <2>1, ImageUnchanged DEF Inv
<1>4. ASSUME NEW n \in Nodes, Reclaim(n) PROVE UNCHANGED Abstract!vars
  <2>1. List(L)' /\ n \notin L
    BY <1>4, ReclaimKeeps DEF Inv
  <2>2. \A m \in L : key'[m] = key[m] /\ value'[m] = value[m]
    BY <1>4, <2>1 DEF Reclaim, Types
  <2> QED BY <1>1, <1>2, <2>1, <2>2, ImageUnchanged DEF Inv
<1> QED BY <1>3, <1>4

LEMMA InitImplements == Init => Abstract!Init
<1> SUFFICES ASSUME Init PROVE Abstract!Init
  OBVIOUS
<1>1. List({})
  <2>1. {p \in Threads : At(p, "unlink") /\ current[p] = Root} = {}
    BY DEF Init, At
  <2>2. After(Root) = Null
    BY <2>1 DEF Init, After
  <2> QED BY <2>2 DEF List, Follows
<1>2. Contents = [k \in Keys |-> Null]
  BY <1>1, ContentsAre
<1>3. \A p \in Threads : ~Pending(p) /\ ~At(p, "value") /\ answer[p] = Null
  BY DEF Init, Pending, At
<1>4. Calls = [p \in Threads |-> Null] /\ Missing = [p \in Threads |-> FALSE]
  BY <1>3 DEF Calls, Missing
<1>5. Answers = [p \in Threads |-> Null]
  BY <1>3 DEF Answers
<1> QED BY <1>2, <1>4, <1>5 DEF Abstract!Init

LEMMA StepImplements ==
    ASSUME NEW L \in SUBSET Nodes, Types, Inv(L), NEW p \in Threads, Step(p)
    PROVE  [Abstract!Next]_(Abstract!vars)
<1>1. CASE BeginFind(p) \/ BeginInsert(p) \/ Close(p)
  BY <1>1, BeginsAre DEF Abstract!Next
<1>2. CASE FindHead(p)
  BY <1>2, FindHeadIs DEF Abstract!Next
<1>3. CASE FindCompare(p)
  BY <1>3, FindCompareIs DEF Abstract!Next
<1>4. CASE FindCheck(p) \/ FindAgain(p) \/ FindNext(p) \/ EraseMark(p)
  BY <1>4, LooksAre
<1>5. CASE FindValue(p)
  BY <1>5, FindValueIs
<1>6. CASE InsertLink(p)
  BY <1>6, InsertLinkIs DEF Abstract!Next
<1>7. CASE EraseUnlink(p)
  BY <1>7, EraseUnlinkIs DEF Abstract!Next
<1>8. CASE Return(p)
  BY <1>8, ReturnIs DEF Abstract!Next
<1> QED BY <1>1, <1>2, <1>3, <1>4, <1>5, <1>6, <1>7, <1>8 DEF Step

\* Insertions and finds of any number of threads, and lone erasures, are those
\* of a map behind a lock (interlocked_kv_list_insert, _find and _del): an
\* insertion takes effect at its compare-and-swap or where it sees its key, a
\* hit where it compares the key, an erasure where it takes the node out, and
\* everything else changes nothing a caller can see.
THEOREM ListImplementsMap == Spec => ImplementsMap
<1>1. IInv /\ [Next]_vars => [Abstract!Next]_(Abstract!vars)
  <2> SUFFICES ASSUME IInv, [Next]_vars PROVE [Abstract!Next]_(Abstract!vars)
    OBVIOUS
  <2>1. Types
    BY DEF IInv
  <2>2. PICK L \in SUBSET Nodes : Inv(L)
    BY DEF IInv
  <2>3. CASE \E p \in Threads : Step(p)
    BY <2>1, <2>2, <2>3, StepImplements
  <2>4. CASE UNCHANGED vars \/ \E n \in Nodes : Reclaim(n)
    BY <2>1, <2>2, <2>4, NothingIs
  <2> QED BY <2>3, <2>4 DEF Next
<1>2. Spec => Abstract!Spec
  BY InitImplements, ListInvariant, <1>1, PTL DEF Spec, Abstract!Spec
<1> QED BY <1>2 DEF ImplementsMap
=============================================================================
