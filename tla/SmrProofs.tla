------------------------------ MODULE SmrProofs ------------------------------
(***************************************************************************)
(* smr.c, for any number of threads, nodes, hazard pointers and records:   *)
(* records have one owner, a retired node is in one place, and a node in   *)
(* use is freed only where retired_list_contains has forgotten it.         *)
(*                                                                         *)
(* The inductive invariant has a part for each thing that has to be true   *)
(* for the next: the types, where a thread is (Stages), who owns which     *)
(* record (Owners), that a use has its hazard pointer set (Guarded), where *)
(* retired nodes are (Places), how long lists grow (Short), and what a     *)
(* scan that has not ended is yet to read (Scans).                         *)
(***************************************************************************)
EXTENDS Smr, TLAPS

Labels == {"out", "find_thr", "find_hpr", "link_hpr", "ready", "check",
           "retire", "push", "scan", "help", "drain", "end"}

\* The types, in three groups: what threads share, what a thread has, and
\* where it is.
SharedOK ==
    /\ memory \in [Nodes -> {"linked", "out", "free"}]
    /\ hazard \in [Records -> [1..Slots -> Nodes \cup {Null}]]
    /\ hprActive \subseteq Records /\ hprHead \in 0..MaxRecords /\ total \in Nat
    /\ retired \in [Records -> Seq(Nodes \cup {Cell})]
    /\ thrActive \subseteq Records /\ thrHead \in 0..MaxRecords

HeldOK ==
    /\ mine \in [Threads -> 0..MaxRecords] /\ cache \in [Threads -> 0..MaxRecords]
    /\ uses \in [Threads -> [1..Slots -> Nodes \cup {Null}]]
    /\ arg \in [Threads -> Nodes \cup {Cell, Null}]
    /\ danger \in [Threads -> Seq(Nodes)] /\ helped \in [Threads -> 0..MaxRecords]

PlaceOK ==
    /\ pc \in [Threads -> Labels]
    /\ at \in [Threads -> 0..MaxRecords] /\ slot \in [Threads -> 1..Slots]
    /\ head \in [Threads -> 0..MaxRecords] /\ back \in [Threads -> {"ready", "end"}]

TypeOK == SharedOK /\ HeldOK /\ PlaceOK

Retiring == {"retire", "push", "scan", "help", "drain"}

\* What a thread has, given where it is.
Stage(p) ==
    /\ mine[p] = 0 <=> pc[p] \in {"out", "find_thr"}
    /\ cache[p] # 0 <=> (pc[p] \in {"ready", "check"} \/ (pc[p] \in Retiring /\ back[p] = "ready"))
    /\ arg[p] = Null <=> pc[p] \notin {"retire", "push"}
    /\ helped[p] # 0 => pc[p] \in {"scan", "drain"}
    /\ pc[p] = "drain" => helped[p] # 0
    /\ slot[p] = 1 \/ pc[p] = "check" \/ (pc[p] = "scan" /\ at[p] # 0)
    /\ mine[p] <= thrHead /\ helped[p] <= thrHead
    /\ cache[p] <= hprHead /\ head[p] <= hprHead
    /\ pc[p] \in {"find_thr", "help"} => at[p] <= thrHead
    /\ pc[p] \in {"find_hpr", "scan"} => at[p] <= hprHead
Stages == \A p \in Threads : Stage(p)

Owners ==
    /\ \A p \in Threads : mine[p] # 0 => mine[p] \in thrActive
    /\ \A p \in Threads : helped[p] # 0 => helped[p] \in thrActive /\ helped[p] # mine[p]
    /\ \A p \in Threads : cache[p] # 0 => cache[p] \in hprActive
    /\ \A p, q \in Threads : p # q =>
          /\ mine[p] # 0 => mine[p] # mine[q] /\ mine[p] # helped[q]
          /\ helped[p] # 0 => helped[p] # mine[q] /\ helped[p] # helped[q]
          /\ cache[p] # 0 => cache[p] # cache[q]

Guarded ==
    \A p \in Threads : \A s \in 1..Slots :
        uses[p][s] # Null => cache[p] # 0 /\ hazard[cache[p]][s] = uses[p][s]

In(n, r) == n \in Elements(retired[r])

\* No node of a list is in it twice.
Once(list) == \A i, j \in 1..Len(list) : list[i] = list[j] /\ list[i] \in Nodes => i = j

Places ==
    /\ \A r \in Records : Once(retired[r])
    /\ \A r, s \in Records : \A n \in Nodes : In(n, r) /\ In(n, s) => r = s
    /\ \A p \in Threads : \A r \in Records : arg[p] \in Nodes => ~In(arg[p], r)
    /\ \A p, q \in Threads : arg[p] \in Nodes /\ arg[p] = arg[q] => p = q
    /\ \A n \in Nodes : memory[n] = "out" <=> (\E r \in Records : In(n, r)) \/ (\E p \in Threads : arg[p] = n)

\* A slot that the scan of p has not read yet.
Unread(p, r, s) == r < at[p] \/ (r = at[p] /\ s >= slot[p])

Scans ==
    \A p, q \in Threads : \A s \in 1..Slots : uses[q][s] # Null =>
        /\ pc[p] = "push" /\ (In(uses[q][s], mine[p]) \/ uses[q][s] = arg[p]) => cache[q] <= head[p]
        /\ pc[p] = "scan" /\ In(uses[q][s], mine[p]) =>
              uses[q][s] \in Elements(danger[p]) \/ Unread(p, cache[q], s)

Short ==
    /\ \A p \in Threads : pc[p] \notin {"out", "find_thr", "find_hpr"} => total >= 1
    /\ hprHead > 0 => total >= 1
    /\ \A r \in Records :
          \/ \E p \in Threads : mine[p] = r /\ pc[p] = "scan"
          \/ Len(retired[r]) < R(total) \/ retired[r] = <<>>

IInv == TypeOK /\ Stages /\ Owners /\ Guarded /\ Places /\ Scans /\ Short

-----------------------------------------------------------------------------
(* Lists.                                                                  *)

\* What the list is after retired_list_push.
LEMMA PushOnTop ==
    ASSUME NEW S, NEW x \in S, NEW list \in Seq(S)
    PROVE  /\ <<x>> \o list \in Seq(S) /\ Len(<<x>> \o list) = Len(list) + 1
           /\ (<<x>> \o list)[1] = x
           /\ \A i \in 1..Len(list) : (<<x>> \o list)[i + 1] = list[i]
           /\ Elements(<<x>> \o list) = {x} \cup Elements(list)
<1> DEFINE new == <<x>> \o list
<1>1. new \in Seq(S) /\ Len(new) = Len(list) + 1
  OBVIOUS
<1>2. new[1] = x /\ \A i \in 1..Len(list) : new[i + 1] = list[i]
  OBVIOUS
<1>3. DOMAIN new = 1..(Len(list) + 1) /\ DOMAIN list = 1..Len(list) /\ Len(list) \in Nat
  BY <1>1
<1> HIDE DEF new
<1>4. Elements(new) \subseteq {x} \cup Elements(list)
  <2>1. SUFFICES ASSUME NEW i \in 1..(Len(list) + 1)
                 PROVE  new[i] \in {x} \cup Elements(list)
    BY <1>3 DEF Elements
  <2>2. CASE i = 1
    BY <2>2, <1>2
  <2>3. CASE i # 1
    <3>1. i - 1 \in 1..Len(list) /\ (i - 1) + 1 = i
      BY <2>3, <1>3
    <3>2. new[i] = list[i - 1]
      BY <3>1, <1>2
    <3> QED
      BY <3>1, <3>2, <1>3 DEF Elements
  <2> QED
    BY <2>2, <2>3
<1>5. {x} \cup Elements(list) \subseteq Elements(new)
  <2>1. x \in Elements(new)
    BY <1>2, <1>3 DEF Elements
  <2>2. ASSUME NEW i \in 1..Len(list) PROVE list[i] \in Elements(new)
    <3>1. i + 1 \in 1..(Len(list) + 1)
      BY <1>3
    <3> QED
      BY <3>1, <1>2, <1>3 DEF Elements
  <2> QED
    BY <2>1, <2>2, <1>3 DEF Elements
<1> QED
  BY <1>1, <1>2, <1>4, <1>5 DEF new

\* ... and after retired_list_pop.
LEMMA PopOffTop ==
    ASSUME NEW S, NEW list \in Seq(S), list # <<>>
    PROVE  /\ Head(list) \in S /\ Tail(list) \in Seq(S) /\ Len(list) \in Nat \ {0}
           /\ Len(Tail(list)) = Len(list) - 1
           /\ Head(list) = list[1]
           /\ \A i \in 1..(Len(list) - 1) : Tail(list)[i] = list[i + 1]
           /\ Elements(list) = {Head(list)} \cup Elements(Tail(list))
<1> DEFINE rest == Tail(list)
<1>1. rest \in Seq(S) /\ Len(list) \in Nat \ {0} /\ Len(rest) = Len(list) - 1
  OBVIOUS
<1>2. Head(list) \in S /\ Head(list) = list[1]
  OBVIOUS
<1>3. \A i \in 1..(Len(list) - 1) : rest[i] = list[i + 1]
  OBVIOUS
<1>4. DOMAIN rest = 1..(Len(list) - 1) /\ DOMAIN list = 1..Len(list)
  BY <1>1
<1> HIDE DEF rest
<1>5. Elements(list) \subseteq {list[1]} \cup Elements(rest)
  <2>1. SUFFICES ASSUME NEW i \in 1..Len(list), i # 1
                 PROVE  list[i] \in Elements(rest)
    BY <1>4 DEF Elements
  <2>2. i - 1 \in 1..(Len(list) - 1) /\ (i - 1) + 1 = i
    BY <2>1, <1>1
  <2>3. rest[i - 1] = list[i]
    BY <2>2, <1>3
  <2> QED
    BY <2>2, <2>3, <1>4 DEF Elements
<1>6. {list[1]} \cup Elements(rest) \subseteq Elements(list)
  <2>1. list[1] \in Elements(list)
    BY <1>1, <1>4 DEF Elements
  <2>2. ASSUME NEW i \in 1..(Len(list) - 1) PROVE rest[i] \in Elements(list)
    <3>1. i + 1 \in 1..Len(list)
      BY <1>1
    <3> QED
      BY <3>1, <1>3, <1>4 DEF Elements
  <2> QED
    BY <2>1, <2>2, <1>4 DEF Elements
<1> QED
  BY <1>1, <1>2, <1>3, <1>5, <1>6 DEF rest

LEMMA PushElements ==
    ASSUME NEW x \in Nodes \cup {Cell}, NEW list \in Seq(Nodes \cup {Cell})
    PROVE  Elements(<<x>> \o list) = {x} \cup Elements(list)
<1> DEFINE S == Nodes \cup {Cell}
<1>1. x \in S /\ list \in Seq(S)
  OBVIOUS
<1> HIDE DEF S
<1> QED
  BY <1>1, PushOnTop

\* A push of something that is not in the list keeps every node in it once.
LEMMA OncePush ==
    ASSUME NEW x \in Nodes \cup {Cell}, NEW list \in Seq(Nodes \cup {Cell}),
           Once(list), x \in Nodes => x \notin Elements(list)
    PROVE  Once(<<x>> \o list)
<1> DEFINE new == <<x>> \o list
<1>1. /\ Len(new) = Len(list) + 1 /\ Len(list) \in Nat
      /\ new[1] = x /\ \A i \in 1..Len(list) : new[i + 1] = list[i]
  BY PushOnTop
<1> HIDE DEF new
<1>2. \A i \in 1..Len(list) : list[i] \in Elements(list)
  BY DEF Elements
<1>3. SUFFICES ASSUME NEW i \in 1..(Len(list) + 1), NEW j \in 1..(Len(list) + 1),
                      new[i] = new[j], new[i] \in Nodes, i # j
               PROVE  FALSE
  BY <1>1 DEF Once, new
<1>4. ASSUME NEW k \in 1..(Len(list) + 1), k # 1
      PROVE  k - 1 \in 1..Len(list) /\ new[k] = list[k - 1]
  <2>1. k - 1 \in 1..Len(list) /\ (k - 1) + 1 = k
    BY <1>1, <1>4
  <2> QED
    BY <2>1, <1>1
<1>5. CASE i = 1
  BY <1>5, <1>4, <1>3, <1>2, <1>1
<1>6. CASE j = 1
  BY <1>6, <1>4, <1>3, <1>2, <1>1
<1>7. CASE i # 1 /\ j # 1
  <2>1. list[i - 1] = list[j - 1] /\ list[i - 1] \in Nodes
    BY <1>7, <1>4, <1>3
  <2>2. i - 1 = j - 1
    BY <2>1, <1>7, <1>4 DEF Once
  <2> QED
    BY <2>2, <1>3
<1> QED
  BY <1>5, <1>6, <1>7

\* A pop takes away the only copy.
LEMMA OncePop ==
    ASSUME NEW list \in Seq(Nodes \cup {Cell}), list # <<>>, Once(list)
    PROVE  /\ Once(Tail(list))
           /\ Head(list) \in Nodes => Head(list) \notin Elements(Tail(list))
<1> DEFINE rest == Tail(list)
<1>1. /\ rest \in Seq(Nodes \cup {Cell}) /\ Len(list) \in Nat \ {0} /\ Len(rest) = Len(list) - 1
      /\ Head(list) = list[1]
      /\ \A i \in 1..(Len(list) - 1) : rest[i] = list[i + 1]
  BY PopOffTop
<1>2. DOMAIN rest = 1..(Len(list) - 1)
  BY <1>1
<1> HIDE DEF rest
<1>3. \A i \in 1..(Len(list) - 1) : i + 1 \in 1..Len(list) /\ i + 1 # 1
  BY <1>1
<1>4. Once(rest)
  <2>1. SUFFICES ASSUME NEW i \in 1..(Len(list) - 1), NEW j \in 1..(Len(list) - 1),
                        rest[i] = rest[j], rest[i] \in Nodes
                 PROVE  i = j
    BY <1>1 DEF Once
  <2>2. i + 1 = j + 1
    BY <2>1, <1>1, <1>3 DEF Once
  <2> QED
    BY <2>2
<1>5. ASSUME Head(list) \in Nodes, NEW i \in 1..(Len(list) - 1), rest[i] = Head(list)
      PROVE  FALSE
  <2>1. i + 1 = 1
    BY <1>5, <1>1, <1>3 DEF Once
  <2> QED
    BY <2>1
<1> QED
  BY <1>4, <1>5, <1>2 DEF rest, Elements

LEMMA Single == ASSUME NEW S, NEW x \in S PROVE <<x>> \in Seq(S)
OBVIOUS

LEMMA EmptyList == Elements(<<>>) = {} /\ Once(<<>>) /\ Len(<<>>) = 0
BY DEF Elements, Once

LEMMA OneList == ASSUME NEW x PROVE Elements(<<x>>) = {x} /\ Once(<<x>>) /\ Len(<<x>>) = 1
BY DEF Elements, Once

-----------------------------------------------------------------------------
(* Types, and where threads are.                                           *)

LEMMA Constants == /\ Null \notin Nodes /\ Cell \notin Nodes /\ Cell # Null
                   /\ Slots \in Nat \ {0} /\ MaxRecords \in Nat \ {0}
BY SmrAssumption

USE Constants DEF Records, At, Goto, Walk, hprVars, thrVars, scanVars

LEMMA TypeInit == Init => TypeOK /\ Stages
<1>1. Init => TypeOK
  BY DEF Init, TypeOK, SharedOK, HeldOK, PlaceOK, Labels, NoGuards
<1>2. Init => Stages
  BY DEF Init, Stages, Stage, Retiring
<1> QED
  BY <1>1, <1>2

\* What a thread's place says about what it has.
Placed(p) ==
    /\ at[p] # 0 => at[p] - 1 \in 0..MaxRecords /\ at[p] \in Records
    /\ pc[p] \notin {"out", "find_thr"} => mine[p] \in Records
    /\ pc[p] \in {"ready", "check"} => cache[p] \in Records
    /\ pc[p] \in {"retire", "push"} => arg[p] \in Nodes \cup {Cell}
    /\ pc[p] = "drain" => helped[p] \in Records
    /\ slot[p] < Slots => slot[p] + 1 \in 1..Slots

LEMMA Here == ASSUME TypeOK, Stages, NEW p \in Threads PROVE Placed(p)
<1>1. /\ mine[p] = 0 <=> pc[p] \in {"out", "find_thr"}
      /\ cache[p] # 0 <=> (pc[p] \in {"ready", "check"} \/ (pc[p] \in Retiring /\ back[p] = "ready"))
      /\ arg[p] = Null <=> pc[p] \notin {"retire", "push"}
      /\ pc[p] = "drain" => helped[p] # 0
  BY DEF Stages, Stage
<1>2. /\ mine[p] \in 0..MaxRecords /\ cache[p] \in 0..MaxRecords
      /\ arg[p] \in Nodes \cup {Cell, Null} /\ helped[p] \in 0..MaxRecords
  BY DEF TypeOK, HeldOK
<1>3. at[p] \in 0..MaxRecords /\ slot[p] \in 1..Slots
  BY DEF TypeOK, PlaceOK
<1>4. /\ at[p] # 0 => at[p] - 1 \in 0..MaxRecords /\ at[p] \in Records
      /\ slot[p] < Slots => slot[p] + 1 \in 1..Slots
  BY <1>3
<1>5. /\ pc[p] \notin {"out", "find_thr"} => mine[p] \in Records
      /\ pc[p] \in {"ready", "check"} => cache[p] \in Records
      /\ pc[p] = "drain" => helped[p] \in Records
  BY <1>1, <1>2
<1>6. pc[p] \in {"retire", "push"} => arg[p] \in Nodes \cup {Cell}
  BY <1>1, <1>2
<1> QED
  BY <1>4, <1>5, <1>6 DEF Placed

\* What moving a node from one list to another does to the lists.
LEMMA Moved ==
    ASSUME retired \in [Records -> Seq(Nodes \cup {Cell})], NEW r \in Records, NEW s \in Records,
           retired[r] # <<>>,
           retired' = [retired EXCEPT ![r] = Tail(retired[r]),
                                      ![s] = <<Head(retired[r])>> \o retired[s]]
    PROVE  /\ retired' \in [Records -> Seq(Nodes \cup {Cell})]
           /\ retired'[s] = <<Head(retired[r])>> \o retired[s]
           /\ r # s => retired'[r] = Tail(retired[r])
           /\ \A q \in Records \ {r, s} : retired'[q] = retired[q]
<1>1. Head(retired[r]) \in Nodes \cup {Cell} /\ Tail(retired[r]) \in Seq(Nodes \cup {Cell})
  BY PopOffTop
<1>2. <<Head(retired[r])>> \o retired[s] \in Seq(Nodes \cup {Cell})
  BY <1>1, PushOnTop
<1> QED
  BY <1>1, <1>2

LEMMA SharedTypes ==
    ASSUME SharedOK, NEW p \in Threads, Placed(p), danger[p] \in Seq(Nodes)
    PROVE  Step(p) => SharedOK'
<1>1. CASE Start(p)
  BY <1>1 DEF Start, SharedOK
<1>2. CASE ThrBusy(p)
  BY <1>2 DEF ThrBusy, SharedOK
<1>3. CASE ThrTake(p)
  BY <1>3 DEF ThrTake, SharedOK, Placed
<1>4. CASE ThrNew(p)
  BY <1>4 DEF ThrNew, SharedOK
<1>5. CASE HprBusy(p)
  BY <1>5 DEF HprBusy, SharedOK
<1>6. CASE HprTake(p)
  BY <1>6 DEF HprTake, SharedOK, Placed
<1>7. CASE HprGrow(p)
  BY <1>7 DEF HprGrow, SharedOK
<1>8. CASE HprLink(p)
  BY <1>8 DEF HprLink, SharedOK
<1>9. CASE Guard(p)
  <2>1. hazard \in [Records -> [1..Slots -> Nodes \cup {Null}]]
    BY DEF SharedOK
  <2>2. hazard' \in [Records -> [1..Slots -> Nodes \cup {Null}]]
    BY <1>9, <2>1 DEF Guard, Placed
  <2> QED
    BY <1>9, <2>2 DEF Guard, SharedOK
<1>10. CASE Check(p)
  BY <1>10 DEF Check, SharedOK
<1>11. CASE Release(p)
  <2>1. hazard \in [Records -> [1..Slots -> Nodes \cup {Null}]]
    BY DEF SharedOK
  <2>2. hazard' \in [Records -> [1..Slots -> Nodes \cup {Null}]]
    BY <1>11, <2>1 DEF Release, Placed
  <2> QED
    BY <1>11, <2>2 DEF Release, SharedOK
<1>12. CASE Unlink(p)
  BY <1>12 DEF Unlink, SharedOK
<1>13. CASE RetireHead(p)
  BY <1>13 DEF RetireHead, SharedOK
<1>14. CASE RetirePush(p)
  <2>1. retired \in [Records -> Seq(Nodes \cup {Cell})]
    BY DEF SharedOK
  <2>2. mine[p] \in Records /\ arg[p] \in Nodes \cup {Cell}
    BY <1>14 DEF RetirePush, Push, Placed
  <2>3. retired' \in [Records -> Seq(Nodes \cup {Cell})]
    BY <1>14, <2>1, <2>2 DEF RetirePush, Push
  <2> QED
    BY <1>14, <2>3 DEF RetirePush, Push, SharedOK
<1>15. CASE RetireScan(p)
  <2>1. retired \in [Records -> Seq(Nodes \cup {Cell})]
    BY DEF SharedOK
  <2>2. mine[p] \in Records /\ arg[p] \in Nodes \cup {Cell}
    BY <1>15 DEF RetireScan, Push, Placed
  <2>3. retired' \in [Records -> Seq(Nodes \cup {Cell})]
    BY <1>15, <2>1, <2>2 DEF RetireScan, Push
  <2> QED
    BY <1>15, <2>3 DEF RetireScan, Push, SharedOK
<1>16. CASE ScanRead(p)
  BY <1>16 DEF ScanRead, SharedOK
<1>17. CASE ScanFree(p)
  <2>1. Kept(p) # {} => danger[p][1] \in Nodes
    BY DEF Kept, ListContains
  <2>2. (IF Kept(p) = {} THEN <<>> ELSE <<danger[p][1]>>) \in Seq(Nodes \cup {Cell})
    <3>1. CASE Kept(p) = {}
      BY <3>1
    <3>2. CASE Kept(p) # {}
      BY <3>2, <2>1, Single
    <3> QED
      BY <3>1, <3>2
  <2>3. retired \in [Records -> Seq(Nodes \cup {Cell})]
    BY DEF SharedOK
  <2>4. retired' \in [Records -> Seq(Nodes \cup {Cell})]
    BY <1>17, <2>2, <2>3 DEF ScanFree
  <2> QED
    BY <1>17, <2>4 DEF ScanFree, SharedOK
<1>18. CASE HelpBusy(p)
  BY <1>18 DEF HelpBusy, SharedOK
<1>19. CASE HelpTake(p)
  BY <1>19 DEF HelpTake, SharedOK, Placed
<1>20. CASE Drain(p)
  <2>1. mine[p] \in Records /\ helped[p] \in Records /\ retired[helped[p]] # <<>>
    BY <1>20 DEF Drain, Move, Placed
  <2>2. retired' \in [Records -> Seq(Nodes \cup {Cell})]
    BY <1>20, <2>1, Moved DEF Drain, Move, SharedOK
  <2> QED
    BY <1>20, <2>2 DEF Drain, Move, SharedOK
<1>21. CASE DrainScan(p)
  <2>1. mine[p] \in Records /\ helped[p] \in Records /\ retired[helped[p]] # <<>>
    BY <1>21 DEF DrainScan, Move, Placed
  <2>2. retired' \in [Records -> Seq(Nodes \cup {Cell})]
    BY <1>21, <2>1, Moved DEF DrainScan, Move, SharedOK
  <2> QED
    BY <1>21, <2>2 DEF DrainScan, Move, SharedOK
<1>22. CASE Drained(p)
  BY <1>22 DEF Drained, SharedOK
<1>23. CASE HelpDone(p)
  BY <1>23 DEF HelpDone, SharedOK
<1>24. CASE EndHpr(p)
  BY <1>24 DEF EndHpr, NoGuards, SharedOK, Placed
<1>25. CASE EndThr(p)
  BY <1>25 DEF EndThr, SharedOK
<1> QED
  BY <1>1, <1>2, <1>3, <1>4, <1>5, <1>6, <1>7, <1>8, <1>9, <1>10, <1>11, <1>12, <1>13, <1>14,
     <1>15, <1>16, <1>17, <1>18, <1>19, <1>20, <1>21, <1>22, <1>23, <1>24, <1>25 DEF Step

LEMMA HeldTypes ==
    ASSUME SharedOK, HeldOK, NEW p \in Threads, Placed(p), slot[p] \in 1..Slots
    PROVE  Step(p) => HeldOK'
<1>1. CASE Start(p)
  BY <1>1 DEF Start, HeldOK
<1>2. CASE ThrBusy(p)
  BY <1>2 DEF ThrBusy, HeldOK
<1>3. CASE ThrTake(p)
  BY <1>3 DEF ThrTake, HeldOK, Placed
<1>4. CASE ThrNew(p)
  BY <1>4 DEF ThrNew, HeldOK, SharedOK
<1>5. CASE HprBusy(p)
  BY <1>5 DEF HprBusy, HeldOK
<1>6. CASE HprTake(p)
  BY <1>6 DEF HprTake, HeldOK, Placed
<1>7. CASE HprGrow(p)
  BY <1>7 DEF HprGrow, HeldOK
<1>8. CASE HprLink(p)
  BY <1>8 DEF HprLink, HeldOK, SharedOK
<1>9. CASE Guard(p)
  BY <1>9 DEF Guard, HeldOK
<1>10. CASE Check(p)
  <2> DEFINE n == hazard[cache[p]][slot[p]]
  <2>1. n \in Nodes \cup {Null}
    BY <1>10 DEF Check, SharedOK, Placed
  <2>2. uses' = [uses EXCEPT ![p][slot[p]] = IF memory[n] = "linked" THEN n ELSE Null]
    BY <1>10 DEF Check
  <2> HIDE DEF n
  <2>3. uses' \in [Threads -> [1..Slots -> Nodes \cup {Null}]]
    BY <2>1, <2>2 DEF HeldOK
  <2> QED
    BY <1>10, <2>3 DEF Check, HeldOK
<1>11. CASE Release(p)
  BY <1>11 DEF Release, HeldOK, Placed
<1>12. CASE Unlink(p)
  BY <1>12 DEF Unlink, HeldOK
<1>13. CASE RetireHead(p)
  BY <1>13 DEF RetireHead, HeldOK
<1>14. CASE RetirePush(p)
  BY <1>14 DEF RetirePush, Push, HeldOK
<1>15. CASE RetireScan(p)
  BY <1>15 DEF RetireScan, Push, BeginScan, HeldOK
<1>16. CASE ScanRead(p)
  <2>1. hazard[at[p]][slot[p]] \in Nodes \cup {Null}
    <3>1. at[p] \in Records
      BY <1>16 DEF ScanRead, Placed
    <3>2. hazard[at[p]] \in [1..Slots -> Nodes \cup {Null}]
      BY <3>1 DEF SharedOK
    <3> QED
      BY <3>2
  <2>2. danger' \in [Threads -> Seq(Nodes)]
    BY <1>16, <2>1 DEF ScanRead, HeldOK
  <2> QED
    BY <1>16, <2>2 DEF ScanRead, HeldOK
<1>17. CASE ScanFree(p)
  BY <1>17 DEF ScanFree, Resume, HeldOK
<1>18. CASE HelpBusy(p)
  BY <1>18 DEF HelpBusy, HeldOK
<1>19. CASE HelpTake(p)
  BY <1>19 DEF HelpTake, HeldOK, Placed
<1>20. CASE Drain(p)
  BY <1>20 DEF Drain, Move, HeldOK
<1>21. CASE DrainScan(p)
  BY <1>21 DEF DrainScan, Move, BeginScan, HeldOK
<1>22. CASE Drained(p)
  BY <1>22 DEF Drained, HeldOK
<1>23. CASE HelpDone(p)
  BY <1>23 DEF HelpDone, HeldOK
<1>24. CASE EndHpr(p)
  BY <1>24 DEF EndHpr, NoGuards, HeldOK
<1>25. CASE EndThr(p)
  BY <1>25 DEF EndThr, HeldOK
<1> QED
  BY <1>1, <1>2, <1>3, <1>4, <1>5, <1>6, <1>7, <1>8, <1>9, <1>10, <1>11, <1>12, <1>13, <1>14,
     <1>15, <1>16, <1>17, <1>18, <1>19, <1>20, <1>21, <1>22, <1>23, <1>24, <1>25 DEF Step

LEMMA PlaceTypes ==
    ASSUME SharedOK, HeldOK, PlaceOK, NEW p \in Threads, Placed(p)
    PROVE  Step(p) => PlaceOK'
<1> USE DEF Labels
<1>1. CASE Start(p)
  BY <1>1 DEF Start, PlaceOK, SharedOK
<1>2. CASE ThrBusy(p)
  BY <1>2 DEF ThrBusy, PlaceOK, Placed
<1>3. CASE ThrTake(p)
  BY <1>3 DEF ThrTake, PlaceOK, SharedOK
<1>4. CASE ThrNew(p)
  BY <1>4 DEF ThrNew, PlaceOK, SharedOK
<1>5. CASE HprBusy(p)
  BY <1>5 DEF HprBusy, PlaceOK, Placed
<1>6. CASE HprTake(p)
  BY <1>6 DEF HprTake, PlaceOK
<1>7. CASE HprGrow(p)
  BY <1>7 DEF HprGrow, PlaceOK
<1>8. CASE HprLink(p)
  BY <1>8 DEF HprLink, PlaceOK
<1>9. CASE Guard(p)
  BY <1>9 DEF Guard, PlaceOK
<1>10. CASE Check(p)
  BY <1>10 DEF Check, PlaceOK
<1>11. CASE Release(p)
  BY <1>11 DEF Release, PlaceOK
<1>12. CASE Unlink(p)
  BY <1>12 DEF Unlink, PlaceOK
<1>13. CASE RetireHead(p)
  BY <1>13 DEF RetireHead, PlaceOK, SharedOK
<1>14. CASE RetirePush(p)
  BY <1>14 DEF RetirePush, Push, PlaceOK
<1>15. CASE RetireScan(p)
  BY <1>15 DEF RetireScan, Push, BeginScan, PlaceOK
<1>16. CASE ScanRead(p)
  <2>1. slot \in [Threads -> 1..Slots] /\ at \in [Threads -> 0..MaxRecords]
    BY DEF PlaceOK
  <2>2. slot' \in [Threads -> 1..Slots]
    BY <1>16, <2>1 DEF ScanRead, Placed
  <2>3. at' \in [Threads -> 0..MaxRecords]
    BY <1>16, <2>1 DEF ScanRead, Placed
  <2> QED
    BY <1>16, <2>2, <2>3 DEF ScanRead, PlaceOK
<1>17. CASE ScanFree(p)
  <2>1. helped[p] \in 0..MaxRecords /\ thrHead \in 0..MaxRecords
    BY DEF SharedOK, HeldOK
  <2> QED
    BY <1>17, <2>1 DEF ScanFree, Resume, PlaceOK
<1>18. CASE HelpBusy(p)
  BY <1>18 DEF HelpBusy, PlaceOK, Placed
<1>19. CASE HelpTake(p)
  BY <1>19 DEF HelpTake, PlaceOK
<1>20. CASE Drain(p)
  BY <1>20 DEF Drain, Move, PlaceOK, SharedOK
<1>21. CASE DrainScan(p)
  BY <1>21 DEF DrainScan, Move, BeginScan, PlaceOK, SharedOK
<1>22. CASE Drained(p)
  BY <1>22 DEF Drained, PlaceOK, HeldOK, Placed
<1>23. CASE HelpDone(p)
  BY <1>23 DEF HelpDone, PlaceOK
<1>24. CASE EndHpr(p)
  BY <1>24 DEF EndHpr, NoGuards, PlaceOK
<1>25. CASE EndThr(p)
  BY <1>25 DEF EndThr, PlaceOK
<1> QED
  BY <1>1, <1>2, <1>3, <1>4, <1>5, <1>6, <1>7, <1>8, <1>9, <1>10, <1>11, <1>12, <1>13, <1>14,
     <1>15, <1>16, <1>17, <1>18, <1>19, <1>20, <1>21, <1>22, <1>23, <1>24, <1>25 DEF Step

LEMMA TypeStep ==
    ASSUME TypeOK, Stages, NEW p \in Threads, Step(p)
    PROVE  TypeOK'
<1>1. Placed(p)
  BY Here
<1>2. danger[p] \in Seq(Nodes) /\ slot[p] \in 1..Slots
  BY DEF TypeOK, HeldOK, PlaceOK
<1> QED
  BY <1>1, <1>2, SharedTypes, HeldTypes, PlaceTypes DEF TypeOK

\* A step of one thread leaves what the others have and where they are.
Same(q) ==
    /\ mine'[q] = mine[q] /\ cache'[q] = cache[q] /\ uses'[q] = uses[q]
    /\ arg'[q] = arg[q] /\ danger'[q] = danger[q] /\ helped'[q] = helped[q]
    /\ pc'[q] = pc[q] /\ at'[q] = at[q] /\ slot'[q] = slot[q]
    /\ head'[q] = head[q] /\ back'[q] = back[q]

LEMMA OthersStay ==
    ASSUME HeldOK, PlaceOK, NEW p \in Threads, NEW q \in Threads, p # q
    PROVE  Step(p) => Same(q)
<1> USE DEF Same, HeldOK, PlaceOK
<1>1. CASE Start(p)
  BY <1>1 DEF Start
<1>2. CASE ThrBusy(p)
  BY <1>2 DEF ThrBusy
<1>3. CASE ThrTake(p)
  BY <1>3 DEF ThrTake
<1>4. CASE ThrNew(p)
  BY <1>4 DEF ThrNew
<1>5. CASE HprBusy(p)
  BY <1>5 DEF HprBusy
<1>6. CASE HprTake(p)
  BY <1>6 DEF HprTake
<1>7. CASE HprGrow(p)
  BY <1>7 DEF HprGrow
<1>8. CASE HprLink(p)
  BY <1>8 DEF HprLink
<1>9. CASE Guard(p)
  BY <1>9 DEF Guard
<1>10. CASE Check(p)
  BY <1>10 DEF Check
<1>11. CASE Release(p)
  BY <1>11 DEF Release
<1>12. CASE Unlink(p)
  BY <1>12 DEF Unlink
<1>13. CASE RetireHead(p)
  BY <1>13 DEF RetireHead
<1>14. CASE RetirePush(p)
  BY <1>14 DEF RetirePush, Push
<1>15. CASE RetireScan(p)
  BY <1>15 DEF RetireScan, Push, BeginScan
<1>16. CASE ScanRead(p)
  BY <1>16 DEF ScanRead
<1>17. CASE ScanFree(p)
  BY <1>17 DEF ScanFree, Resume
<1>18. CASE HelpBusy(p)
  BY <1>18 DEF HelpBusy
<1>19. CASE HelpTake(p)
  BY <1>19 DEF HelpTake
<1>20. CASE Drain(p)
  BY <1>20 DEF Drain, Move
<1>21. CASE DrainScan(p)
  BY <1>21 DEF DrainScan, Move, BeginScan
<1>22. CASE Drained(p)
  BY <1>22 DEF Drained
<1>23. CASE HelpDone(p)
  BY <1>23 DEF HelpDone
<1>24. CASE EndHpr(p)
  BY <1>24 DEF EndHpr, NoGuards
<1>25. CASE EndThr(p)
  BY <1>25 DEF EndThr
<1> QED
  BY <1>1, <1>2, <1>3, <1>4, <1>5, <1>6, <1>7, <1>8, <1>9, <1>10, <1>11, <1>12, <1>13, <1>14,
     <1>15, <1>16, <1>17, <1>18, <1>19, <1>20, <1>21, <1>22, <1>23, <1>24, <1>25 DEF Step

LEMMA HeadsGrow ==
    ASSUME SharedOK, NEW p \in Threads
    PROVE  Step(p) => thrHead' >= thrHead /\ hprHead' >= hprHead
<1>1. CASE Start(p)
  BY <1>1 DEF Start, SharedOK
<1>2. CASE ThrBusy(p)
  BY <1>2 DEF ThrBusy, SharedOK
<1>3. CASE ThrTake(p)
  BY <1>3 DEF ThrTake, SharedOK
<1>4. CASE ThrNew(p)
  BY <1>4 DEF ThrNew, SharedOK
<1>5. CASE HprBusy(p)
  BY <1>5 DEF HprBusy, SharedOK
<1>6. CASE HprTake(p)
  BY <1>6 DEF HprTake, SharedOK
<1>7. CASE HprGrow(p)
  BY <1>7 DEF HprGrow, SharedOK
<1>8. CASE HprLink(p)
  BY <1>8 DEF HprLink, SharedOK
<1>9. CASE Guard(p)
  BY <1>9 DEF Guard, SharedOK
<1>10. CASE Check(p)
  BY <1>10 DEF Check, SharedOK
<1>11. CASE Release(p)
  BY <1>11 DEF Release, SharedOK
<1>12. CASE Unlink(p)
  BY <1>12 DEF Unlink, SharedOK
<1>13. CASE RetireHead(p)
  BY <1>13 DEF RetireHead, SharedOK
<1>14. CASE RetirePush(p)
  BY <1>14 DEF RetirePush, Push, SharedOK
<1>15. CASE RetireScan(p)
  BY <1>15 DEF RetireScan, Push, BeginScan, SharedOK
<1>16. CASE ScanRead(p)
  BY <1>16 DEF ScanRead, SharedOK
<1>17. CASE ScanFree(p)
  BY <1>17 DEF ScanFree, Resume, SharedOK
<1>18. CASE HelpBusy(p)
  BY <1>18 DEF HelpBusy, SharedOK
<1>19. CASE HelpTake(p)
  BY <1>19 DEF HelpTake, SharedOK
<1>20. CASE Drain(p)
  BY <1>20 DEF Drain, Move, SharedOK
<1>21. CASE DrainScan(p)
  BY <1>21 DEF DrainScan, Move, BeginScan, SharedOK
<1>22. CASE Drained(p)
  BY <1>22 DEF Drained, SharedOK
<1>23. CASE HelpDone(p)
  BY <1>23 DEF HelpDone, SharedOK
<1>24. CASE EndHpr(p)
  BY <1>24 DEF EndHpr, NoGuards, SharedOK
<1>25. CASE EndThr(p)
  BY <1>25 DEF EndThr, SharedOK
<1> QED
  BY <1>1, <1>2, <1>3, <1>4, <1>5, <1>6, <1>7, <1>8, <1>9, <1>10, <1>11, <1>12, <1>13, <1>14,
     <1>15, <1>16, <1>17, <1>18, <1>19, <1>20, <1>21, <1>22, <1>23, <1>24, <1>25 DEF Step

LEMMA OwnStage ==
    ASSUME SharedOK, HeldOK, PlaceOK, NEW p \in Threads, Stage(p)
    PROVE  Step(p) => Stage(p)'
<1> USE DEF Stage, Retiring, HeldOK, PlaceOK, SharedOK, Labels
<1>1. CASE Start(p)
  BY <1>1 DEF Start
<1>2. CASE ThrBusy(p)
  BY <1>2 DEF ThrBusy
<1>3. CASE ThrTake(p)
  BY <1>3 DEF ThrTake
<1>4. CASE ThrNew(p)
  BY <1>4 DEF ThrNew
<1>5. CASE HprBusy(p)
  BY <1>5 DEF HprBusy
<1>6. CASE HprTake(p)
  BY <1>6 DEF HprTake
<1>7. CASE HprGrow(p)
  BY <1>7 DEF HprGrow
<1>8. CASE HprLink(p)
  BY <1>8 DEF HprLink
<1>9. CASE Guard(p)
  BY <1>9 DEF Guard
<1>10. CASE Check(p)
  BY <1>10 DEF Check
<1>11. CASE Release(p)
  BY <1>11 DEF Release
<1>12. CASE Unlink(p)
  BY <1>12 DEF Unlink
<1>13. CASE RetireHead(p)
  BY <1>13 DEF RetireHead
<1>14. CASE RetirePush(p)
  BY <1>14 DEF RetirePush, Push
<1>15. CASE RetireScan(p)
  BY <1>15 DEF RetireScan, Push, BeginScan
<1>16. CASE ScanRead(p)
  BY <1>16 DEF ScanRead
<1>17. CASE ScanFree(p)
  <2>1. /\ pc[p] = "scan" /\ pc'[p] = (IF helped[p] # 0 THEN "drain" ELSE "help")
        /\ at'[p] = IF helped[p] # 0 THEN helped[p] ELSE thrHead
    BY <1>17 DEF ScanFree, Resume
  <2>2. at[p] = 0 /\ UNCHANGED <<mine, cache, arg, helped, slot, head, back, thrHead, hprHead>>
    BY <1>17 DEF ScanFree
  <2> QED
    BY <2>1, <2>2
<1>18. CASE HelpBusy(p)
  BY <1>18 DEF HelpBusy
<1>19. CASE HelpTake(p)
  BY <1>19 DEF HelpTake
<1>20. CASE Drain(p)
  BY <1>20 DEF Drain, Move
<1>21. CASE DrainScan(p)
  BY <1>21 DEF DrainScan, Move, BeginScan
<1>22. CASE Drained(p)
  BY <1>22 DEF Drained
<1>23. CASE HelpDone(p)
  BY <1>23 DEF HelpDone
<1>24. CASE EndHpr(p)
  BY <1>24 DEF EndHpr, NoGuards
<1>25. CASE EndThr(p)
  BY <1>25 DEF EndThr
<1> QED
  BY <1>1, <1>2, <1>3, <1>4, <1>5, <1>6, <1>7, <1>8, <1>9, <1>10, <1>11, <1>12, <1>13, <1>14,
     <1>15, <1>16, <1>17, <1>18, <1>19, <1>20, <1>21, <1>22, <1>23, <1>24, <1>25 DEF Step

LEMMA StageStep ==
    ASSUME TypeOK, Stages, NEW p \in Threads, Step(p)
    PROVE  Stages'
<1>1. SUFFICES ASSUME NEW q \in Threads PROVE Stage(q)'
  BY DEF Stages
<1>2. Stage(p) /\ Stage(q)
  BY DEF Stages
<1>3. CASE p = q
  BY <1>2, <1>3, OwnStage DEF TypeOK
<1>4. CASE p # q
  <2>1. Same(q) /\ thrHead' >= thrHead /\ hprHead' >= hprHead
    BY <1>4, OthersStay, HeadsGrow DEF TypeOK
  <2>2. TypeOK'
    BY TypeStep
  <2>3. /\ thrHead \in Nat /\ hprHead \in Nat /\ thrHead' \in Nat /\ hprHead' \in Nat
        /\ mine[q] \in Nat /\ helped[q] \in Nat /\ cache[q] \in Nat /\ head[q] \in Nat /\ at[q] \in Nat
    BY <2>2 DEF TypeOK, SharedOK, HeldOK, PlaceOK
  <2> QED
    BY <1>2, <2>1, <2>3 DEF Same, Stage
<1> QED
  BY <1>3, <1>4

-----------------------------------------------------------------------------
(* Owners.                                                                 *)

\* Most actions leave the records to their owners.
LEMMA OwnersFrame ==
    ASSUME NEW p \in Threads
    PROVE  Step(p) => \/ UNCHANGED <<mine, helped, cache, thrActive, hprActive>>
                      \/ ThrTake(p) \/ ThrNew(p) \/ HprTake(p) \/ HprLink(p)
                      \/ HelpTake(p) \/ Drained(p) \/ EndHpr(p) \/ EndThr(p)
BY DEF Step, Start, ThrBusy, HprBusy, HprGrow, Guard, Check, Release, Unlink, RetireHead,
   RetirePush, RetireScan, ScanRead, ScanFree, HelpBusy, Drain, DrainScan, HelpDone, Push, Move

LEMMA OwnersStep ==
    ASSUME TypeOK, Stages, Owners, NEW p \in Threads, Step(p)
    PROVE  Owners'
<1>1. /\ mine \in [Threads -> 0..MaxRecords] /\ cache \in [Threads -> 0..MaxRecords]
      /\ helped \in [Threads -> 0..MaxRecords]
      /\ thrActive \subseteq Records /\ hprActive \subseteq Records
      /\ hprHead \in 0..MaxRecords /\ thrHead \in 0..MaxRecords
  BY DEF TypeOK, SharedOK, HeldOK
<1>2. CASE UNCHANGED <<mine, helped, cache, thrActive, hprActive>>
  BY <1>2 DEF Owners
<1>3. CASE ThrTake(p)
  BY <1>1, <1>3 DEF ThrTake, Owners, Stages, Stage
<1>4. CASE ThrNew(p)
  BY <1>1, <1>4 DEF ThrNew, Owners, Stages, Stage
<1>5. CASE HprTake(p)
  BY <1>1, <1>5 DEF HprTake, Owners, Stages, Stage
<1>6. CASE HprLink(p)
  BY <1>1, <1>6 DEF HprLink, Owners, Stages, Stage
<1>7. CASE HelpTake(p)
  BY <1>1, <1>7 DEF HelpTake, Owners, Stages, Stage
<1>8. CASE Drained(p)
  BY <1>1, <1>8 DEF Drained, Owners, Stages, Stage
<1>9. CASE EndHpr(p)
  BY <1>1, <1>9 DEF EndHpr, Owners, Stages, Stage
<1>10. CASE EndThr(p)
  BY <1>1, <1>10 DEF EndThr, Owners, Stages, Stage
<1> QED
  BY <1>2, <1>3, <1>4, <1>5, <1>6, <1>7, <1>8, <1>9, <1>10, OwnersFrame

-----------------------------------------------------------------------------
(* Hazard pointers.                                                        *)

LEMMA GuardedFrame ==
    ASSUME NEW p \in Threads
    PROVE  Step(p) => \/ UNCHANGED <<uses, cache, hazard>>
                      \/ HprTake(p) \/ HprLink(p) \/ Guard(p) \/ Check(p)
                      \/ Release(p) \/ Unlink(p) \/ EndHpr(p)
BY DEF Step, Start, ThrBusy, ThrTake, ThrNew, HprBusy, HprGrow, RetireHead, RetirePush,
   RetireScan, ScanRead, ScanFree, HelpBusy, HelpTake, Drain, DrainScan, Drained, HelpDone, EndThr,
   Push, Move

LEMMA GuardedStep ==
    ASSUME TypeOK, Stages, Owners, Guarded, NEW p \in Threads, Step(p)
    PROVE  Guarded'
<1>1. /\ cache \in [Threads -> 0..MaxRecords] /\ uses \in [Threads -> [1..Slots -> Nodes \cup {Null}]]
      /\ hazard \in [Records -> [1..Slots -> Nodes \cup {Null}]]
      /\ slot[p] \in 1..Slots
  BY DEF TypeOK, SharedOK, HeldOK, PlaceOK
<1>2. CASE UNCHANGED <<uses, cache, hazard>>
  BY <1>2 DEF Guarded
<1>3. \A q \in Threads : p # q /\ cache[p] # 0 => cache[p] # cache[q]
  BY DEF Owners
<1>4. pc[p] \in {"ready", "check"} => cache[p] \in Records
  BY Here DEF Placed
<1>5. pc[p] \in {"find_hpr", "link_hpr"} => cache[p] = 0
  BY DEF Stages, Stage, Retiring
<1>6. CASE HprTake(p)
  BY <1>1, <1>3, <1>4, <1>5, <1>6 DEF HprTake, Guarded
<1>7. CASE HprLink(p)
  BY <1>1, <1>3, <1>4, <1>5, <1>7 DEF HprLink, Guarded
<1>8. CASE Guard(p)
  BY <1>1, <1>3, <1>4, <1>5, <1>8 DEF Guard, Guarded
<1>9. CASE Check(p)
  BY <1>1, <1>3, <1>4, <1>5, <1>9 DEF Check, Guarded
<1>10. CASE Release(p)
  BY <1>1, <1>3, <1>4, <1>5, <1>10 DEF Release, Guarded
<1>11. CASE Unlink(p)
  BY <1>1, <1>3, <1>4, <1>5, <1>11 DEF Unlink, Guarded
<1>12. CASE EndHpr(p)
  BY <1>1, <1>3, <1>4, <1>5, <1>12 DEF EndHpr, Guarded, NoGuards
<1> QED
  BY <1>2, <1>6, <1>7, <1>8, <1>9, <1>10, <1>11, <1>12, GuardedFrame

-----------------------------------------------------------------------------
(* Retired nodes.                                                          *)

\* What each action that changes a list makes of it.
LEMMA PushLists ==
    ASSUME TypeOK, Stages, Places, NEW p \in Threads, Push(p)
    PROVE  /\ mine[p] \in Records /\ arg[p] \in Nodes \cup {Cell}
           /\ \A r \in Records :
                 /\ Once(retired'[r])
                 /\ Elements(retired'[r]) = IF r = mine[p] THEN {arg[p]} \cup Elements(retired[r])
                                            ELSE Elements(retired[r])
<1>1. mine[p] \in Records /\ arg[p] \in Nodes \cup {Cell}
  BY Here DEF Placed, Push
<1>2. retired \in [Records -> Seq(Nodes \cup {Cell})]
  BY DEF TypeOK, SharedOK
<1>3. retired' = [retired EXCEPT ![mine[p]] = <<arg[p]>> \o retired[mine[p]]]
  BY DEF Push
<1>4. /\ Once(retired[mine[p]]) /\ \A r \in Records : Once(retired[r])
      /\ arg[p] \in Nodes => arg[p] \notin Elements(retired[mine[p]])
  BY <1>1 DEF Places, In
<1> DEFINE x == arg[p]  old == retired[mine[p]]  new == <<x>> \o old
<1>5. x \in Nodes \cup {Cell} /\ old \in Seq(Nodes \cup {Cell})
  BY <1>1, <1>2
<1>6. \A r \in Records : retired'[r] = IF r = mine[p] THEN new ELSE retired[r]
  BY <1>1, <1>2, <1>3
<1>7. Once(old) /\ (x \in Nodes => x \notin Elements(old))
  BY <1>4
<1> HIDE DEF x, old
<1>8. Elements(new) = {x} \cup Elements(old)
  BY <1>5, PushElements
<1>9. Once(new)
  BY <1>5, <1>7, OncePush
<1> HIDE DEF new
<1> QED
  BY <1>1, <1>4, <1>6, <1>8, <1>9 DEF x, old

LEMMA MoveLists ==
    ASSUME TypeOK, Stages, Owners, Places, NEW p \in Threads, Move(p)
    PROVE  /\ mine[p] \in Records /\ helped[p] \in Records /\ mine[p] # helped[p]
           /\ \A r \in Records : Once(retired'[r])
           /\ \E h \in Nodes \cup {Cell} :
                 /\ h \in Elements(retired[helped[p]])
                 /\ \A r \in Records, n \in Nodes :
                       n \in Elements(retired'[r]) <=>
                          \/ r = mine[p] /\ (n = h \/ n \in Elements(retired[r]))
                          \/ r = helped[p] /\ n # h /\ n \in Elements(retired[r])
                          \/ r \notin {mine[p], helped[p]} /\ n \in Elements(retired[r])
<1> DEFINE m == mine[p]  d == helped[p]  h == Head(retired[d])
           rest == Tail(retired[d])  new == <<h>> \o retired[m]
<1>1. m \in Records /\ d \in Records /\ m # d
  <2>1. pc[p] = "drain"
    BY DEF Move
  <2>2. m \in Records /\ d \in Records
    BY <2>1, Here DEF Placed
  <2> QED
    BY <2>2 DEF Owners
<1>2. retired \in [Records -> Seq(Nodes \cup {Cell})] /\ retired[d] # <<>>
  BY DEF TypeOK, SharedOK, Move
<1>3. retired' = [retired EXCEPT ![d] = Tail(retired[d]), ![m] = <<h>> \o retired[m]]
  BY DEF Move
<1>4. /\ retired'[m] = new /\ retired'[d] = rest
      /\ \A q \in Records \ {d, m} : retired'[q] = retired[q]
  BY <1>1, <1>2, <1>3, Moved
<1>5. \A r \in Records : Once(retired[r])
  BY DEF Places
<1>6. retired[d] \in Seq(Nodes \cup {Cell}) /\ retired[m] \in Seq(Nodes \cup {Cell})
  BY <1>1, <1>2
<1>7. h \in Nodes \cup {Cell} /\ Elements(retired[d]) = {h} \cup Elements(rest)
  BY <1>2, <1>6, PopOffTop
<1>8. Once(rest) /\ (h \in Nodes => h \notin Elements(rest))
  BY <1>1, <1>2, <1>5, <1>6, OncePop
<1> HIDE DEF h, rest
<1>9. h \in Nodes => h \notin Elements(retired[m])
  BY <1>1, <1>7 DEF Places, In
<1>10. Elements(new) = {h} \cup Elements(retired[m]) /\ Once(new)
  <2>1. Once(retired[m])
    BY <1>1, <1>5
  <2>2. Elements(new) = {h} \cup Elements(retired[m])
    BY <1>6, <1>7, PushElements
  <2> QED
    BY <2>1, <1>6, <1>7, <1>9, OncePush, <2>2
<1> HIDE DEF new, m, d
<1>11. \A r \in Records : Once(retired'[r])
  BY <1>4, <1>5, <1>8, <1>10
<1>12. \A r \in Records, n \in Nodes :
          n \in Elements(retired'[r]) <=>
             \/ r = m /\ (n = h \/ n \in Elements(retired[r]))
             \/ r = d /\ n # h /\ n \in Elements(retired[r])
             \/ r \notin {m, d} /\ n \in Elements(retired[r])
  BY <1>1, <1>4, <1>7, <1>8, <1>10
<1> QED
  BY <1>1, <1>7, <1>11, <1>12 DEF m, d

LEMMA ScanLists ==
    ASSUME TypeOK, Stages, Places, NEW p \in Threads, ScanFree(p)
    PROVE  /\ mine[p] \in Records /\ Kept(p) \subseteq Elements(retired[mine[p]])
           /\ \A r \in Records :
                 /\ Once(retired'[r]) /\ (r = mine[p] => Len(retired'[r]) <= 1)
                 /\ Elements(retired'[r]) = IF r = mine[p] THEN Kept(p) ELSE Elements(retired[r])
<1>1. mine[p] \in Records
  BY Here DEF Placed, ScanFree
<1>2. retired \in [Records -> Seq(Nodes \cup {Cell})]
  BY DEF TypeOK, SharedOK
<1>3. retired' = [retired EXCEPT ![mine[p]] = IF Kept(p) = {} THEN <<>> ELSE <<danger[p][1]>>]
  BY DEF ScanFree
<1>4. Kept(p) \subseteq Elements(retired[mine[p]]) /\ (Kept(p) = {} \/ Kept(p) = {danger[p][1]})
  BY DEF Kept, ListContains
<1> DEFINE list == IF Kept(p) = {} THEN <<>> ELSE <<danger[p][1]>>
<1>5. Elements(list) = Kept(p) /\ Once(list) /\ Len(list) <= 1
  <2>1. CASE Kept(p) = {}
    <3>1. list = <<>>
      BY <2>1
    <3> HIDE DEF list
    <3> QED
      BY <2>1, <3>1, EmptyList
  <2>2. CASE Kept(p) # {}
    <3> DEFINE x == danger[p][1]
    <3>1. list = <<x>> /\ Kept(p) = {x}
      BY <2>2, <1>4
    <3> HIDE DEF list, x
    <3> QED
      BY <3>1, OneList
  <2> QED
    BY <2>1, <2>2
<1>6. \A r \in Records : retired'[r] = IF r = mine[p] THEN list ELSE retired[r]
  BY <1>1, <1>2, <1>3
<1> HIDE DEF list
<1>7. \A r \in Records : Once(retired[r])
  BY DEF Places
<1> QED
  BY <1>1, <1>4, <1>5, <1>6, <1>7

LEMMA PlacesFrame ==
    ASSUME NEW p \in Threads
    PROVE  Step(p) => \/ UNCHANGED <<memory, retired, arg>>
                      \/ Unlink(p) \/ Push(p) \/ ScanFree(p) \/ Move(p) \/ EndHpr(p)
BY DEF Step, RetirePush, RetireScan, Drain, DrainScan, Start, ThrBusy, ThrTake, ThrNew, HprBusy,
   HprTake, HprGrow, HprLink, Guard, Check, Release, RetireHead, ScanRead, HelpBusy, HelpTake,
   Drained, HelpDone, EndThr

LEMMA PlacesStep ==
    ASSUME TypeOK, Stages, Owners, Places, NEW p \in Threads, Step(p)
    PROVE  Places'
<1>1. /\ arg \in [Threads -> Nodes \cup {Cell, Null}]
      /\ memory \in [Nodes -> {"linked", "out", "free"}]
  BY DEF TypeOK, SharedOK, HeldOK
<1>2. CASE UNCHANGED <<memory, retired, arg>>
  BY <1>2 DEF Places, In
<1>3. arg[p] = Null <=> pc[p] \notin {"retire", "push"}
  BY DEF Stages, Stage
<1>4. CASE Unlink(p)
  BY <1>1, <1>3, <1>4 DEF Unlink, Places, In
<1>5. CASE Push(p)
  <2>1. arg' = [arg EXCEPT ![p] = Null] /\ UNCHANGED memory
    BY <1>5 DEF Push
  <2>2. mine[p] \in Records /\ \A r \in Records : Once(retired'[r])
    BY <1>5, PushLists
  <2>3. \A r \in Records, n \in Nodes :
           n \in Elements(retired'[r]) <=> (r = mine[p] /\ n = arg[p]) \/ n \in Elements(retired[r])
    BY <1>5, PushLists
  <2>4. \A r, s \in Records : \A n \in Nodes :
           n \in Elements(retired'[r]) /\ n \in Elements(retired'[s]) => r = s
    BY <2>3 DEF Places, In
  <2>5. ASSUME NEW q \in Threads, NEW r \in Records, arg'[q] \in Nodes
        PROVE  arg'[q] \notin Elements(retired'[r])
    <3>1. q # p /\ arg'[q] = arg[q]
      BY <1>1, <2>1, <2>5
    <3>2. arg[q] # arg[p] /\ arg[q] \notin Elements(retired[r])
      BY <3>1, <2>5 DEF Places, In
    <3> QED
      BY <3>1, <3>2, <2>3, <2>5
  <2>6. \A q, s \in Threads : arg'[q] \in Nodes /\ arg'[q] = arg'[s] => q = s
    BY <1>1, <2>1 DEF Places
  <2>7. \A n \in Nodes : memory'[n] = "out" <=>
              \/ \E r \in Records : n \in Elements(retired'[r])
              \/ \E q \in Threads : arg'[q] = n
    BY <1>1, <2>1, <2>2, <2>3 DEF Places, In
  <2> QED
    BY <2>2, <2>4, <2>5, <2>6, <2>7 DEF Places, In
<1>6. CASE ScanFree(p)
  <2>1. /\ memory' = [n \in Nodes |-> IF n \in Elements(retired[mine[p]]) \ Kept(p) THEN "free" ELSE memory[n]]
        /\ UNCHANGED arg
    BY <1>6 DEF ScanFree
  <2> QED
    BY <1>1, <1>6, <2>1, ScanLists DEF Places, In
<1>7. CASE Move(p)
  <2>1. UNCHANGED <<arg, memory>>
    BY <1>7 DEF Move
  <2> QED
    BY <1>1, <1>7, <2>1, MoveLists DEF Places, In
<1>8. CASE EndHpr(p)
  <2>1. arg[p] = Null /\ arg' = [arg EXCEPT ![p] = Cell] /\ UNCHANGED <<memory, retired>>
    BY <1>3, <1>8 DEF EndHpr
  <2> QED
    BY <1>1, <2>1 DEF Places, In
<1> QED
  BY <1>2, <1>4, <1>5, <1>6, <1>7, <1>8, PlacesFrame

\* Reuse changes the memory of a free node only.
LEMMA PlacesReuse ==
    ASSUME TypeOK, Places, NEW n \in Nodes, Reuse(n)
    PROVE  Places'
<1>1. /\ \A m \in Nodes : memory'[m] = "out" <=> memory[m] = "out"
      /\ UNCHANGED <<retired, arg>>
  BY DEF Reuse, TypeOK, SharedOK
<1> QED
  BY <1>1 DEF Places, In

-----------------------------------------------------------------------------
(* What a scan is yet to read.                                             *)

\* A use is new only after Check, and then its node is linked; the record of
\* a thread with a use stays the same.
LEMMA UseKept ==
    ASSUME TypeOK, Stages, Guarded, NEW r \in Threads, Step(r),
           NEW q \in Threads, NEW s \in 1..Slots, uses'[q][s] # Null
    PROVE  /\ cache'[q] = cache[q] /\ cache[q] <= hprHead
           /\ \/ uses'[q][s] = uses[q][s]
              \/ Check(r) /\ uses'[q][s] \in Nodes /\ memory[uses'[q][s]] = "linked"
<1>1. /\ cache \in [Threads -> 0..MaxRecords] /\ uses \in [Threads -> [1..Slots -> Nodes \cup {Null}]]
      /\ hazard \in [Records -> [1..Slots -> Nodes \cup {Null}]]
      /\ slot[r] \in 1..Slots
  BY DEF TypeOK, SharedOK, HeldOK, PlaceOK
<1>2. cache[q] <= hprHead
  BY DEF Stages, Stage
<1>3. pc[r] \in {"find_hpr", "link_hpr"} => cache[r] = 0
  BY DEF Stages, Stage, Retiring
<1>4. pc[r] \in {"ready", "check"} => cache[r] \in Records
  BY Here DEF Placed
<1>5. CASE UNCHANGED <<uses, cache, hazard>>
  BY <1>2, <1>5
<1>6. CASE HprTake(r)
  BY <1>1, <1>2, <1>3, <1>6 DEF HprTake, Guarded
<1>7. CASE HprLink(r)
  BY <1>1, <1>2, <1>3, <1>7 DEF HprLink, Guarded
<1>8. CASE Guard(r)
  BY <1>1, <1>2, <1>8 DEF Guard
<1>9. CASE Check(r)
  BY <1>1, <1>2, <1>4, <1>9 DEF Check
<1>10. CASE Release(r)
  BY <1>1, <1>2, <1>10 DEF Release
<1>11. CASE Unlink(r)
  BY <1>1, <1>2, <1>11 DEF Unlink
<1>12. CASE EndHpr(r)
  BY <1>1, <1>2, <1>12 DEF EndHpr, NoGuards
<1> QED
  BY <1>5, <1>6, <1>7, <1>8, <1>9, <1>10, <1>11, <1>12, GuardedFrame

LEMMA ListsFrame ==
    ASSUME NEW r \in Threads
    PROVE  Step(r) => UNCHANGED retired \/ Push(r) \/ ScanFree(r) \/ Move(r)
BY DEF Step, RetirePush, RetireScan, Drain, DrainScan, Start, ThrBusy, ThrTake, ThrNew, HprBusy,
   HprTake, HprGrow, HprLink, Guard, Check, Release, Unlink, RetireHead, ScanRead, HelpBusy,
   HelpTake, Drained, HelpDone, EndHpr, EndThr

\* Nobody touches the list of a thread but the thread.
LEMMA OwnList ==
    ASSUME TypeOK, Stages, Owners, NEW r \in Threads, Step(r),
           NEW p \in Threads, p # r, mine[p] # 0
    PROVE  retired'[mine[p]] = retired[mine[p]]
<1>1. /\ retired \in [Records -> Seq(Nodes \cup {Cell})] /\ mine[p] \in Records
  BY DEF TypeOK, SharedOK, HeldOK
<1>2. mine[p] # mine[r] /\ mine[p] # helped[r]
  BY DEF Owners
<1>3. CASE UNCHANGED retired
  BY <1>3
<1>4. CASE Push(r)
  <2>1. retired' = [retired EXCEPT ![mine[r]] = <<arg[r]>> \o retired[mine[r]]]
    BY <1>4 DEF Push
  <2> QED
    BY <1>1, <1>2, <2>1
<1>5. CASE ScanFree(r)
  <2>1. retired' = [retired EXCEPT ![mine[r]] = IF Kept(r) = {} THEN <<>> ELSE <<danger[r][1]>>]
    BY <1>5 DEF ScanFree
  <2> QED
    BY <1>1, <1>2, <2>1
<1>6. CASE Move(r)
  <2>1. retired' = [retired EXCEPT ![helped[r]] = Tail(retired[helped[r]]),
                                   ![mine[r]] = <<Head(retired[helped[r]])>> \o retired[mine[r]]]
    BY <1>6 DEF Move
  <2> QED
    BY <1>1, <1>2, <2>1
<1> QED
  BY <1>3, <1>4, <1>5, <1>6, ListsFrame

\* Only these lead to, or are steps of, a scan.
LEMMA ToScan ==
    ASSUME PlaceOK, NEW r \in Threads, Step(r), pc'[r] \in {"push", "scan"}
    PROVE  RetireHead(r) \/ RetireScan(r) \/ ScanRead(r) \/ DrainScan(r)
<1>1. pc \in [Threads -> Labels] /\ back[r] \in {"ready", "end"}
  BY DEF PlaceOK
<1>2. ~Start(r)
  BY <1>1 DEF Start
<1>3. ~ThrBusy(r)
  BY <1>1 DEF ThrBusy
<1>4. ~ThrTake(r)
  BY <1>1 DEF ThrTake
<1>5. ~ThrNew(r)
  BY <1>1 DEF ThrNew
<1>6. ~HprBusy(r)
  BY <1>1 DEF HprBusy
<1>7. ~HprTake(r)
  BY <1>1 DEF HprTake
<1>8. ~HprGrow(r)
  BY <1>1 DEF HprGrow
<1>9. ~HprLink(r)
  BY <1>1 DEF HprLink
<1>10. ~Guard(r)
  BY <1>1 DEF Guard
<1>11. ~Check(r)
  BY <1>1 DEF Check
<1>12. ~Release(r)
  BY <1>1 DEF Release
<1>13. ~Unlink(r)
  BY <1>1 DEF Unlink
<1>14. ~RetirePush(r)
  BY <1>1 DEF RetirePush, Push
<1>15. ~ScanFree(r)
  BY <1>1 DEF ScanFree, Resume
<1>16. ~HelpBusy(r)
  BY <1>1 DEF HelpBusy
<1>17. ~HelpTake(r)
  BY <1>1 DEF HelpTake
<1>18. ~Drain(r)
  BY <1>1 DEF Drain, Move
<1>19. ~Drained(r)
  BY <1>1 DEF Drained
<1>20. ~HelpDone(r)
  BY <1>1 DEF HelpDone
<1>21. ~EndHpr(r)
  BY <1>1 DEF EndHpr
<1>22. ~EndThr(r)
  BY <1>1 DEF EndThr
<1> QED
  BY <1>2, <1>3, <1>4, <1>5, <1>6, <1>7, <1>8, <1>9, <1>10, <1>11, <1>12, <1>13, <1>14, <1>15,
     <1>16, <1>17, <1>18, <1>19, <1>20, <1>21, <1>22 DEF Step

\* A node that is linked is retired nowhere.
LEMMA LinkedNowhere ==
    ASSUME Places, NEW n \in Nodes, memory[n] # "out"
    PROVE  /\ \A r \in Records : n \notin Elements(retired[r])
           /\ \A p \in Threads : arg[p] # n
BY DEF Places, In

LEMMA ScansStep ==
    ASSUME TypeOK, Stages, Owners, Guarded, Places, Scans, NEW r \in Threads, Step(r)
    PROVE  Scans'
<1>1. SUFFICES ASSUME NEW p \in Threads, NEW q \in Threads, NEW s \in 1..Slots,
                      uses'[q][s] # Null, pc'[p] \in {"push", "scan"},
                      pc'[p] = "scan" => uses'[q][s] \in Elements(retired'[mine'[p]]),
                      pc'[p] = "push" => \/ uses'[q][s] \in Elements(retired'[mine'[p]])
                                         \/ uses'[q][s] = arg'[p]
               PROVE  /\ pc'[p] = "push" => cache'[q] <= head'[p]
                      /\ pc'[p] = "scan" =>
                            \/ uses'[q][s] \in Elements(danger'[p])
                            \/ cache'[q] < at'[p]
                            \/ cache'[q] = at'[p] /\ s >= slot'[p]
  BY DEF Scans, In, Unread
<1> DEFINE n == uses'[q][s]
<1>2. /\ cache'[q] = cache[q] /\ cache[q] <= hprHead
      /\ n = uses[q][s] \/ (Check(r) /\ n \in Nodes /\ memory[n] = "linked")
  BY <1>1, UseKept
<1>3. /\ pc \in [Threads -> Labels] /\ slot \in [Threads -> 1..Slots] /\ at \in [Threads -> 0..MaxRecords]
      /\ head \in [Threads -> 0..MaxRecords] /\ cache[q] \in 0..MaxRecords /\ hprHead \in 0..MaxRecords
  BY DEF TypeOK, PlaceOK, HeldOK, SharedOK
<1> HIDE DEF n
<1>4. CASE p # r
  <2>1. Same(p)
    BY <1>4, OthersStay DEF TypeOK
  <2>2. mine[p] # 0 /\ mine[p] \in Records
    BY <1>1, <2>1, Here DEF Same, Placed
  <2>3. retired'[mine[p]] = retired[mine[p]]
    BY <1>4, <2>2, OwnList
  <2>4. /\ pc[p] = "scan" => n \in Elements(retired[mine[p]])
        /\ pc[p] = "push" => n \in Elements(retired[mine[p]]) \/ n = arg[p]
        /\ pc[p] \in {"push", "scan"}
    BY <1>1, <2>1, <2>3 DEF Same, n
  <2>5. n = uses[q][s] /\ n # Null
    BY <1>1, <1>2, <2>2, <2>4, LinkedNowhere DEF n
  <2>6. /\ pc[p] = "push" => cache[q] <= head[p]
        /\ pc[p] = "scan" => n \in Elements(danger[p]) \/ cache[q] < at[p] \/ (cache[q] = at[p] /\ s >= slot[p])
    BY <2>4, <2>5 DEF Scans, In, Unread
  <2> QED
    BY <1>2, <2>1, <2>6 DEF Same, n
<1>5. CASE p = r
  <2>1. RetireHead(p) \/ RetireScan(p) \/ ScanRead(p) \/ DrainScan(p)
    BY <1>1, <1>5, ToScan DEF TypeOK
  <2>2. n = uses[q][s] /\ n # Null
    <3>1. ~Check(p)
      BY <2>1 DEF Check, RetireHead, RetireScan, Push, ScanRead, DrainScan, Move
    <3> QED
      BY <1>1, <1>2, <1>5, <3>1 DEF n
  <2>3. slot[p] = 1 \/ pc[p] = "check" \/ (pc[p] = "scan" /\ at[p] # 0)
    BY DEF Stages, Stage
  <2>4. CASE RetireHead(p)
    <3>1. head'[p] = hprHead /\ pc'[p] = "push"
      BY <1>3, <2>4 DEF RetireHead
    <3> QED
      BY <1>2, <3>1
  <2>5. CASE RetireScan(p)
    <3>1. /\ pc[p] = "push" /\ pc'[p] = "scan" /\ at'[p] = head[p] /\ slot'[p] = slot[p] /\ mine'[p] = mine[p]
      BY <1>3, <2>5 DEF RetireScan, Push, BeginScan
    <3>2. n \in Elements(retired[mine[p]]) \/ n = arg[p]
      <4>1. Push(p) /\ n \in Elements(retired'[mine[p]])
        BY <1>1, <2>5, <3>1 DEF RetireScan, n
      <4> QED
        BY <4>1, PushLists
    <3>3. cache[q] <= head[p]
      BY <2>2, <3>1, <3>2 DEF Scans, In
    <3>4. slot[p] = 1
      BY <2>3, <3>1
    <3> QED
      BY <1>2, <1>3, <3>1, <3>3, <3>4
  <2>6. CASE ScanRead(p)
    <3> DEFINE x == hazard[at[p]][slot[p]]
    <3>1. /\ pc[p] = "scan" /\ pc'[p] = "scan" /\ mine'[p] = mine[p] /\ retired' = retired /\ at[p] # 0
      BY <2>6 DEF ScanRead
    <3>2. n \in Elements(danger[p]) \/ cache[q] < at[p] \/ (cache[q] = at[p] /\ s >= slot[p])
      BY <1>1, <2>2, <3>1 DEF Scans, In, Unread, n
    <3>3. danger[p] \in Seq(Nodes) /\ x \in Nodes \cup {Null} /\ danger \in [Threads -> Seq(Nodes)]
      <4>1. at[p] \in Records /\ slot[p] \in 1..Slots
        BY <1>3, <3>1
      <4>2. hazard \in [Records -> [1..Slots -> Nodes \cup {Null}]] /\ danger \in [Threads -> Seq(Nodes)]
        BY DEF TypeOK, SharedOK, HeldOK
      <4> QED
        BY <4>1, <4>2
    <3>4. danger'[p] = IF x = Null THEN danger[p] ELSE <<x>> \o danger[p]
      BY <2>6, <3>3 DEF ScanRead
    <3>5. Elements(danger[p]) \subseteq Elements(danger'[p]) /\ (x # Null => x \in Elements(danger'[p]))
      <4>1. CASE x = Null
        BY <3>4, <4>1
      <4>2. CASE x # Null
        <5> HIDE DEF x
        <5>1. Elements(<<x>> \o danger[p]) = {x} \cup Elements(danger[p])
          BY <3>3, <4>2, PushElements
        <5> QED
          BY <3>4, <4>2, <5>1
      <4> QED
        BY <4>1, <4>2
    <3>6. cache[q] = at[p] /\ s = slot[p] => x = n
      BY <2>2, <3>1 DEF Guarded
    <3> HIDE DEF x
    <3>7. /\ slot'[p] = IF slot[p] < Slots THEN slot[p] + 1 ELSE 1
          /\ at'[p] = IF slot[p] < Slots THEN at[p] ELSE at[p] - 1
      BY <1>3, <2>6 DEF ScanRead
    <3>8. CASE n \in Elements(danger[p]) \/ (cache[q] = at[p] /\ s = slot[p])
      BY <2>2, <3>1, <3>5, <3>6, <3>8 DEF n
    <3>9. CASE cache[q] < at[p]
      BY <1>2, <1>3, <3>1, <3>7, <3>9
    <3>10. CASE cache[q] = at[p] /\ s > slot[p]
      BY <1>2, <1>3, <3>1, <3>7, <3>10
    <3> QED
      BY <1>3, <3>2, <3>8, <3>9, <3>10
  <2>7. CASE DrainScan(p)
    <3>1. pc[p] = "drain" /\ pc'[p] = "scan" /\ at'[p] = hprHead /\ slot'[p] = slot[p]
      BY <1>3, <2>7 DEF DrainScan, Move, BeginScan
    <3>2. slot[p] = 1
      BY <2>3, <3>1
    <3> QED
      BY <1>2, <1>3, <3>1, <3>2
  <2> QED
    BY <2>1, <2>4, <2>5, <2>6, <2>7
<1> QED
  BY <1>4, <1>5

-----------------------------------------------------------------------------
(* How long the lists grow.                                                *)

LEMMA TotalGrows ==
    ASSUME TypeOK, Stages, Short, NEW p \in Threads, Step(p)
    PROVE  /\ total' \in Nat /\ total' >= total
           /\ hprHead' > 0 => total' >= 1
           /\ pc'[p] \notin {"out", "find_thr", "find_hpr"} => total' >= 1
<1>1. /\ pc \in [Threads -> Labels] /\ total \in Nat /\ hprHead \in 0..MaxRecords
      /\ at[p] \in 0..MaxRecords /\ back[p] \in {"ready", "end"}
  BY DEF TypeOK, SharedOK, PlaceOK
<1>2. /\ hprHead > 0 => total >= 1
      /\ pc[p] \notin {"out", "find_thr", "find_hpr"} => total >= 1
      /\ pc[p] = "find_hpr" => at[p] <= hprHead
  BY DEF Short, Stages, Stage
<1>3. CASE Start(p)
  BY <1>1, <1>2, <1>3 DEF Start
<1>4. CASE ThrBusy(p)
  BY <1>1, <1>2, <1>4 DEF ThrBusy
<1>5. CASE ThrTake(p)
  BY <1>1, <1>2, <1>5 DEF ThrTake
<1>6. CASE ThrNew(p)
  BY <1>1, <1>2, <1>6 DEF ThrNew
<1>7. CASE HprBusy(p)
  BY <1>1, <1>2, <1>7 DEF HprBusy
<1>8. CASE HprTake(p)
  BY <1>1, <1>2, <1>8 DEF HprTake
<1>9. CASE HprGrow(p)
  BY <1>1, <1>2, <1>9 DEF HprGrow
<1>10. CASE HprLink(p)
  BY <1>1, <1>2, <1>10 DEF HprLink
<1>11. CASE Guard(p)
  BY <1>1, <1>2, <1>11 DEF Guard
<1>12. CASE Check(p)
  BY <1>1, <1>2, <1>12 DEF Check
<1>13. CASE Release(p)
  BY <1>1, <1>2, <1>13 DEF Release
<1>14. CASE Unlink(p)
  BY <1>1, <1>2, <1>14 DEF Unlink
<1>15. CASE RetireHead(p)
  BY <1>1, <1>2, <1>15 DEF RetireHead
<1>16. CASE RetirePush(p)
  BY <1>1, <1>2, <1>16 DEF RetirePush, Push
<1>17. CASE RetireScan(p)
  BY <1>1, <1>2, <1>17 DEF RetireScan, Push
<1>18. CASE ScanRead(p)
  BY <1>1, <1>2, <1>18 DEF ScanRead
<1>19. CASE ScanFree(p)
  BY <1>1, <1>2, <1>19 DEF ScanFree, Resume
<1>20. CASE HelpBusy(p)
  BY <1>1, <1>2, <1>20 DEF HelpBusy
<1>21. CASE HelpTake(p)
  BY <1>1, <1>2, <1>21 DEF HelpTake
<1>22. CASE Drain(p)
  BY <1>1, <1>2, <1>22 DEF Drain, Move
<1>23. CASE DrainScan(p)
  BY <1>1, <1>2, <1>23 DEF DrainScan, Move
<1>24. CASE Drained(p)
  BY <1>1, <1>2, <1>24 DEF Drained
<1>25. CASE HelpDone(p)
  BY <1>1, <1>2, <1>25 DEF HelpDone
<1>26. CASE EndHpr(p)
  BY <1>1, <1>2, <1>26 DEF EndHpr
<1>27. CASE EndThr(p)
  BY <1>1, <1>2, <1>27 DEF EndThr
<1> QED
  BY <1>3, <1>4, <1>5, <1>6, <1>7, <1>8, <1>9, <1>10, <1>11, <1>12, <1>13, <1>14, <1>15, <1>16,
     <1>17, <1>18, <1>19, <1>20, <1>21, <1>22, <1>23, <1>24, <1>25, <1>26, <1>27 DEF Step

\* Who is scanning still is, unless the scan has ended.
LEMMA StillScanning ==
    ASSUME TypeOK, Stages, NEW p \in Threads, Step(p), NEW q \in Threads, pc[q] = "scan"
    PROVE  (mine'[q] = mine[q] /\ pc'[q] = "scan") \/ (q = p /\ ScanFree(p))
<1>1. CASE q # p
  BY <1>1, OthersStay DEF TypeOK, Same
<1>2. CASE q = p
  <2>1. ScanRead(p) \/ ScanFree(p)
    BY <1>2 DEF Step, RetirePush, RetireScan, Drain, DrainScan, Start, ThrBusy, ThrTake, ThrNew,
       HprBusy, HprTake, HprGrow, HprLink, Guard, Check, Release, Unlink, RetireHead, HelpBusy,
       HelpTake, Drained, HelpDone, EndHpr, EndThr, Push, Move
  <2> QED
    BY <1>2, <2>1 DEF ScanRead
<1> QED
  BY <1>1, <1>2

LEMMA ShortFrame ==
    ASSUME NEW p \in Threads
    PROVE  Step(p) => \/ UNCHANGED retired
                      \/ RetirePush(p) \/ RetireScan(p) \/ ScanFree(p) \/ Drain(p) \/ DrainScan(p)
BY DEF Step, Start, ThrBusy, ThrTake, ThrNew, HprBusy, HprTake, HprGrow, HprLink, Guard, Check,
   Release, Unlink, RetireHead, ScanRead, HelpBusy, HelpTake, Drained, HelpDone, EndHpr, EndThr

LEMMA ShortStep ==
    ASSUME TypeOK, Stages, Owners, Places, Short, NEW p \in Threads, Step(p)
    PROVE  Short'
<1> DEFINE Low(r) == (\E q \in Threads : mine[q] = r /\ pc[q] = "scan")
                     \/ Len(retired[r]) < 2 * total \/ retired[r] = <<>>
           LowAfter(r) == (\E q \in Threads : mine'[q] = r /\ pc'[q] = "scan")
                          \/ Len(retired'[r]) < 2 * total' \/ retired'[r] = <<>>
<1>1. /\ retired \in [Records -> Seq(Nodes \cup {Cell})] /\ total \in Nat
      /\ pc \in [Threads -> Labels]
  BY DEF TypeOK, SharedOK, PlaceOK
<1>2. \A r \in Records : Low(r) /\ Len(retired[r]) \in Nat
  BY <1>1 DEF Short, R
<1>3. total' \in Nat /\ total' >= total
  BY TotalGrows
<1>4. \A q \in Threads : pc[q] = "scan" => (mine'[q] = mine[q] /\ pc'[q] = "scan") \/ (q = p /\ ScanFree(p))
  BY StillScanning
<1>5. ASSUME NEW r \in Records, retired'[r] = retired[r], ~(ScanFree(p) /\ mine[p] = r)
      PROVE  LowAfter(r)
  <2>1. CASE \E q \in Threads : mine[q] = r /\ pc[q] = "scan"
    BY <1>4, <1>5, <2>1
  <2>2. CASE Len(retired[r]) < 2 * total \/ retired[r] = <<>>
    BY <1>1, <1>2, <1>3, <1>5, <2>2
  <2> QED
    BY <1>2, <2>1, <2>2
<1> HIDE DEF Low
<1>6. ASSUME NEW r \in Records
      PROVE  LowAfter(r)
  <2>1. CASE UNCHANGED retired /\ ~ScanFree(p)
    BY <1>5, <2>1
  <2>2. CASE RetirePush(p) \/ RetireScan(p)
    <3>1. /\ mine[p] \in Records
          /\ retired' = [retired EXCEPT ![mine[p]] = <<arg[p]>> \o retired[mine[p]]]
          /\ total' = total /\ mine'[p] = mine[p] /\ pc[p] = "push"
      BY <2>2, Here DEF Placed, RetirePush, RetireScan, Push
    <3>2. CASE r # mine[p]
      <4>1. retired'[r] = retired[r]
        BY <1>1, <3>1, <3>2
      <4> QED
        BY <1>5, <3>2, <4>1
    <3>3. CASE r = mine[p] /\ RetirePush(p)
      <4>1. ~(Len(retired'[r]) >= 2 * total)
        BY <3>3 DEF RetirePush, Enough, R
      <4>2. retired'[r] = <<arg[p]>> \o retired[r] /\ arg[p] \in Nodes \cup {Cell}
        BY <1>1, <3>1, <3>3, Here DEF Placed
      <4>3. Len(retired'[r]) \in Nat
        BY <1>1, <4>2, PushOnTop
      <4> QED
        BY <1>1, <3>1, <4>1, <4>3
    <3>4. CASE r = mine[p] /\ RetireScan(p)
      <4>1. pc'[p] = "scan"
        BY <1>1, <3>4 DEF RetireScan, BeginScan
      <4> QED
        BY <3>1, <3>4, <4>1
    <3> QED
      BY <2>2, <3>2, <3>3, <3>4
  <2>3. CASE ScanFree(p)
    <3>1. CASE r = mine[p]
      <4>1. Len(retired'[r]) <= 1 /\ retired'[r] \in Seq(Nodes \cup {Cell})
        BY <2>3, <3>1, ScanLists, TypeStep DEF TypeOK, SharedOK
      <4>2. total' >= 1
        BY <2>3, TotalGrows, <1>1 DEF ScanFree, Resume
      <4>3. Len(retired'[r]) \in Nat
        BY <4>1
      <4> QED
        BY <1>3, <4>1, <4>2, <4>3
    <3>2. CASE r # mine[p]
      <4>1. retired'[r] = retired[r]
        BY <1>1, <2>3, <3>2 DEF ScanFree
      <4> QED
        BY <1>5, <3>2, <4>1
    <3> QED
      BY <3>1, <3>2
  <2>4. CASE Drain(p) \/ DrainScan(p)
    <3>1. Move(p)
      BY <2>4 DEF Drain, DrainScan
    <3>2. mine[p] \in Records /\ helped[p] \in Records /\ mine[p] # helped[p]
      BY <3>1, MoveLists
    <3>3. /\ retired[helped[p]] # <<>> /\ total' = total /\ mine'[p] = mine[p] /\ ~ScanFree(p)
          /\ retired' = [retired EXCEPT ![helped[p]] = Tail(retired[helped[p]]),
                                        ![mine[p]] = <<Head(retired[helped[p]])>> \o retired[mine[p]]]
      BY <3>1 DEF Move, ScanFree
    <3>4. /\ retired' \in [Records -> Seq(Nodes \cup {Cell})]
          /\ retired'[helped[p]] = Tail(retired[helped[p]])
          /\ \A q \in Records \ {helped[p], mine[p]} : retired'[q] = retired[q]
      BY <1>1, <3>2, <3>3, Moved
    <3>5. CASE r = helped[p]
      <4>1. Len(retired'[r]) = Len(retired[r]) - 1 /\ Len(retired[r]) \in Nat \ {0}
        <5> DEFINE list == retired[r]
        <5>1. list \in Seq(Nodes \cup {Cell}) /\ list # <<>> /\ retired'[r] = Tail(list)
          BY <1>1, <3>2, <3>3, <3>4, <3>5
        <5> HIDE DEF list
        <5>2. Len(Tail(list)) = Len(list) - 1 /\ Len(list) \in Nat \ {0}
          BY <5>1, PopOffTop
        <5> QED
          BY <5>1, <5>2 DEF list
      <4>2. CASE \E q \in Threads : mine[q] = r /\ pc[q] = "scan"
        BY <1>4, <3>3, <4>2
      <4>3. CASE Len(retired[r]) < 2 * total
        BY <1>1, <3>3, <4>1, <4>3
      <4> QED
        BY <1>2, <3>3, <3>5, <4>2, <4>3 DEF Low
    <3>6. CASE r = mine[p] /\ Drain(p)
      <4>1. ~(Len(retired'[r]) >= 2 * total)
        BY <3>6 DEF Drain, Enough, R
      <4>2. Len(retired'[r]) \in Nat
        BY <3>4
      <4> QED
        BY <1>1, <3>3, <4>1, <4>2
    <3>7. CASE r = mine[p] /\ DrainScan(p)
      <4>1. pc'[p] = "scan"
        BY <1>1, <3>7 DEF DrainScan, BeginScan
      <4> QED
        BY <3>3, <3>7, <4>1
    <3>8. CASE r # helped[p] /\ r # mine[p]
      BY <1>5, <3>3, <3>4, <3>8
    <3> QED
      BY <2>4, <3>5, <3>6, <3>7, <3>8
  <2> QED
    BY <2>1, <2>2, <2>3, <2>4, ShortFrame
<1> HIDE DEF LowAfter
<1>7. \A q \in Threads : pc'[q] \notin {"out", "find_thr", "find_hpr"} => total' >= 1
  <2>1. SUFFICES ASSUME NEW q \in Threads, pc'[q] \notin {"out", "find_thr", "find_hpr"}, q # p
                 PROVE  total' >= 1
    BY TotalGrows
  <2>2. pc'[q] = pc[q]
    BY <2>1, OthersStay DEF TypeOK, Same
  <2> QED
    BY <1>1, <1>3, <2>1, <2>2 DEF Short
<1> QED
  BY <1>6, <1>7, TotalGrows DEF Short, LowAfter, R

-----------------------------------------------------------------------------
(* The invariant.                                                          *)

LEMMA IInvInit == Init => IInv
<1> SUFFICES ASSUME Init PROVE IInv
  OBVIOUS
<1>1. Owners /\ Guarded
  BY DEF Init, Owners, Guarded, NoGuards
<1>2. \A r \in Records : Elements(retired[r]) = {} /\ Once(retired[r]) /\ retired[r] = <<>>
  BY EmptyList DEF Init
<1>3. Places
  BY <1>2 DEF Init, Places, In
<1>4. Scans
  BY DEF Init, Scans
<1>5. Short
  BY <1>2 DEF Init, Short
<1> QED
  BY <1>1, <1>3, <1>4, <1>5, TypeInit DEF IInv

LEMMA IInvStep == IInv /\ [Next]_vars => IInv'
<1> SUFFICES ASSUME IInv, [Next]_vars PROVE IInv'
  OBVIOUS
<1> USE DEF IInv
<1>1. ASSUME NEW p \in Threads, Step(p) PROVE IInv'
  <2>1. TypeOK' /\ Stages'
    BY <1>1, TypeStep, StageStep
  <2>2. Owners' /\ Guarded' /\ Places'
    BY <1>1, OwnersStep, GuardedStep, PlacesStep
  <2>3. Scans' /\ Short'
    BY <1>1, ScansStep, ShortStep
  <2> QED
    BY <2>1, <2>2, <2>3
<1>2. ASSUME NEW n \in Nodes, Reuse(n) PROVE IInv'
  <2>1. UNCHANGED <<hprVars, thrVars, mine, cache, uses, pc, at, slot, scanVars>>
    BY <1>2 DEF Reuse
  <2>2. memory' \in [Nodes -> {"linked", "out", "free"}]
    BY <1>2 DEF Reuse, TypeOK, SharedOK
  <2>3. TypeOK'
    BY <2>1, <2>2 DEF TypeOK, SharedOK, HeldOK, PlaceOK
  <2>4. Stages'
    BY <2>1 DEF Stages, Stage
  <2>5. Owners' /\ Guarded'
    BY <2>1 DEF Owners, Guarded
  <2>6. Places'
    BY <1>2, PlacesReuse
  <2>7. Scans'
    BY <2>1 DEF Scans, In, Unread
  <2>8. Short'
    BY <2>1 DEF Short
  <2> QED
    BY <2>3, <2>4, <2>5, <2>6, <2>7, <2>8
<1>3. CASE UNCHANGED vars
  <2>1. UNCHANGED <<memory, hprVars, thrVars, mine, cache, uses, pc, at, slot, scanVars>>
    BY <1>3 DEF vars
  <2>2. TypeOK'
    BY <2>1 DEF TypeOK, SharedOK, HeldOK, PlaceOK
  <2>3. Stages'
    BY <2>1 DEF Stages, Stage
  <2>4. Owners' /\ Guarded'
    BY <2>1 DEF Owners, Guarded
  <2>5. Places'
    BY <2>1 DEF Places, In
  <2>6. Scans'
    BY <2>1 DEF Scans, In, Unread
  <2>7. Short'
    BY <2>1 DEF Short
  <2> QED
    BY <2>2, <2>3, <2>4, <2>5, <2>6, <2>7
<1> QED
  BY <1>1, <1>2, <1>3 DEF Next

THEOREM InvariantHolds == Spec => []IInv
<1> QED
  BY IInvInit, IInvStep, PTL DEF Spec

\* Live threads never share a thread record or a hazard pointer record, and
\* nobody owns the record that help_scan has taken (the test-and-set of
\* allocate_thr, allocate_hpr and help_scan).
THEOREM RecordsHaveOneOwner == Spec => []OneOwner
<1>1. IInv => OneOwner
  <2> SUFFICES ASSUME IInv PROVE OneOwner
    OBVIOUS
  <2>1. Owners
    BY DEF IInv
  <2> QED
    BY <2>1 DEF Owners, OneOwner, Owned
<1> QED
  BY <1>1, InvariantHolds, PTL

\* A node taken out of a container is in one place of one retired list, or on
\* its way to one, until it is freed (retire_node, scan and help_scan).
THEOREM NodesRetiredOnce == Spec => []RetiredOnce
<1>1. IInv => RetiredOnce
  <2> SUFFICES ASSUME IInv, NEW n \in Nodes
               PROVE  /\ memory[n] = "out" <=> Listed(n) # {} \/ Carried(n) # {}
                      /\ \A a, b \in Listed(n) : a = b
                      /\ \A p, q \in Carried(n) : p = q
                      /\ Listed(n) = {} \/ Carried(n) = {}
    BY DEF RetiredOnce
  <2>1. Places /\ retired \in [Records -> Seq(Nodes \cup {Cell})]
    BY DEF IInv, TypeOK, SharedOK
  <2>2. \A a : a \in Listed(n) <=>
                 \E r \in Records : \E i \in 1..Len(retired[r]) : a = <<r, i>> /\ retired[r][i] = n
    BY <2>1 DEF Listed
  <2>3. \A r \in Records : In(n, r) <=> \E i \in 1..Len(retired[r]) : retired[r][i] = n
    BY <2>1 DEF In, Elements
  <2>4. Listed(n) # {} <=> \E r \in Records : In(n, r)
    <3>1. ASSUME NEW a \in Listed(n) PROVE \E r \in Records : In(n, r)
      BY <2>2, <2>3
    <3>2. ASSUME NEW r \in Records, In(n, r) PROVE Listed(n) # {}
      <4>1. PICK i \in 1..Len(retired[r]) : retired[r][i] = n
        BY <2>3, <3>2
      <4>2. <<r, i>> \in Listed(n)
        BY <2>2, <4>1
      <4> QED
        BY <4>2
    <3> QED
      BY <3>1, <3>2
  <2>5. \A p : p \in Carried(n) <=> p \in Threads /\ arg[p] = n
    BY DEF Carried
  <2>6. memory[n] = "out" <=> Listed(n) # {} \/ Carried(n) # {}
    BY <2>1, <2>4, <2>5 DEF Places
  <2>7. ASSUME NEW a \in Listed(n), NEW b \in Listed(n) PROVE a = b
    <3>1. PICK r \in Records : \E i \in 1..Len(retired[r]) : a = <<r, i>> /\ retired[r][i] = n
      BY <2>2
    <3>2. PICK s \in Records : \E j \in 1..Len(retired[s]) : b = <<s, j>> /\ retired[s][j] = n
      BY <2>2
    <3>3. r = s
      BY <2>1, <2>3, <3>1, <3>2 DEF Places
    <3>4. Once(retired[r])
      BY <2>1 DEF Places
    <3> QED
      BY <3>1, <3>2, <3>3, <3>4 DEF Once
  <2>8. \A p, q \in Carried(n) : p = q
    BY <2>1, <2>5 DEF Places
  <2>9. Listed(n) = {} \/ Carried(n) = {}
    <3>1. ASSUME NEW p \in Carried(n), NEW r \in Records PROVE ~In(n, r)
      <4>1. p \in Threads /\ arg[p] = n
        BY <2>5
      <4>2. n \notin Elements(retired[r])
        BY <2>1, <4>1 DEF Places, In
      <4> QED
        BY <4>2 DEF In
    <3> QED
      BY <2>4, <3>1
  <2> QED
    BY <2>6, <2>7, <2>8, <2>9
<1> QED
  BY <1>1, InvariantHolds, PTL

\* A thread outside retire_node holds fewer than R(total) retired nodes, as
\* scan and help_scan leave at most one (smr.c's bound on what is not freed).
THEOREM ListsStayShort == Spec => []GarbageBounded
<1>1. IInv => GarbageBounded
  <2> SUFFICES ASSUME IInv, NEW p \in Threads, pc[p] = "ready"
               PROVE  Len(retired[mine[p]]) < R(total)
    BY DEF GarbageBounded
  <2>1. mine[p] \in Records
    BY Here DEF IInv, Placed
  <2>2. total \in Nat /\ total >= 1
    BY DEF IInv, TypeOK, SharedOK, Short
  <2>3. \A q \in Threads : mine[q] = mine[p] => q = p
    BY <2>1 DEF IInv, Owners
  <2>4. Len(retired[mine[p]]) < R(total) \/ retired[mine[p]] = <<>>
    BY <2>1, <2>3 DEF IInv, Short
  <2>5. CASE retired[mine[p]] = <<>>
    BY <2>2, <2>5, EmptyList DEF R
  <2> QED
    BY <2>4, <2>5
<1> QED
  BY <1>1, InvariantHolds, PTL

\* A node that a thread has guarded and checked is freed only by a scan that
\* has read its hazard pointer, and has it in its list below the first entry:
\* where retired_list_contains does not look.
THEOREM UsesFreedOnlyForgotten == Spec => FreesOnlyForgotten
<1> DEFINE Forgotten ==
             \A n \in Nodes :
                memory[n] = "out" /\ memory'[n] = "free" /\ (\E q \in Threads : n \in Elements(uses[q]))
                => \E p \in Threads : At(p, "scan") /\ danger[p] # <<>> /\ n \in Elements(Tail(danger[p]))
<1>1. IInv /\ [Next]_vars => Forgotten
  <2> SUFFICES ASSUME IInv, [Next]_vars, NEW n \in Nodes, memory[n] = "out", memory'[n] = "free",
                      NEW q \in Threads, n \in Elements(uses[q])
               PROVE  \E p \in Threads : pc[p] = "scan" /\ danger[p] # <<>> /\ n \in Elements(Tail(danger[p]))
    OBVIOUS
  <2>1. memory \in [Nodes -> {"linked", "out", "free"}]
    BY DEF IInv, TypeOK, SharedOK
  <2>2. PICK p \in Threads : ScanFree(p)
    <3>1. memory' # memory
      OBVIOUS
    <3>2. \A m \in Nodes : ~Reuse(m)
      BY <2>1 DEF Reuse
    <3>3. PICK p \in Threads : Step(p)
      BY <3>1, <3>2 DEF Next, vars
    <3>4. UNCHANGED memory \/ Unlink(p) \/ ScanFree(p)
      BY <3>3, PlacesFrame DEF Push, Move, EndHpr
    <3>5. ~Unlink(p)
      BY <2>1 DEF Unlink
    <3> QED
      BY <3>1, <3>4, <3>5
  <2>3. /\ pc[p] = "scan" /\ at[p] = 0
        /\ n \in Elements(retired[mine[p]]) /\ n \notin Kept(p)
    BY <2>1, <2>2 DEF ScanFree
  <2>4. PICK s \in 1..Slots : uses[q][s] = n
    <3>1. DOMAIN uses[q] = 1..Slots
      BY DEF IInv, TypeOK, HeldOK
    <3> QED
      BY <3>1 DEF Elements
  <2>5. cache[q] # 0 /\ cache[q] \in 0..MaxRecords
    BY <2>4 DEF IInv, Guarded, TypeOK, HeldOK
  <2>6. n \in Elements(danger[p])
    BY <2>3, <2>4, <2>5 DEF IInv, Scans, In, Unread
  <2>7. danger[p] # <<>> /\ danger[p] \in Seq(Nodes)
    BY <2>6, EmptyList DEF IInv, TypeOK, HeldOK
  <2>8. n # danger[p][1]
    BY <2>3, <2>7 DEF Kept, ListContains
  <2>9. Elements(danger[p]) = {danger[p][1]} \cup Elements(Tail(danger[p]))
    <3> DEFINE list == danger[p]
    <3>1. list \in Seq(Nodes) /\ list # <<>>
      BY <2>7
    <3> HIDE DEF list
    <3>2. Elements(list) = {Head(list)} \cup Elements(Tail(list)) /\ Head(list) = list[1]
      BY <3>1, PopOffTop
    <3> QED
      BY <3>2 DEF list
  <2> QED
    BY <2>3, <2>6, <2>7, <2>8, <2>9
<1>2. IInv /\ [Next]_vars => [Forgotten]_vars
  BY <1>1
<1> QED
  BY <1>2, InvariantHolds, PTL DEF Spec, FreesOnlyForgotten
=============================================================================
