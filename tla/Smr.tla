-------------------------------- MODULE Smr --------------------------------
(***************************************************************************)
(* Safe memory reclamation (include/utility/smr.c), which every container  *)
(* of interlocked_containers.hpp frees its nodes with.  A thread that uses *)
(* a node first writes its address to a hazard pointer and checks that the *)
(* node is still in the container; a node taken out is retired, and a scan *)
(* of all hazard pointers decides which retired nodes are freed.  Threads  *)
(* come and go: their records are left to the next one, and whoever scans  *)
(* helps with the retired nodes that a dead thread left behind.            *)
(*                                                                         *)
(* Records are numbered in the order they were pushed on head_hpr and      *)
(* head_thr: a walk from the head goes down to 1, and 0 is the end.  One   *)
(* action is one access to what threads share; a record's list is touched  *)
(* only by the thread whose record it is, or by the one that has taken it. *)
(* A finalizer that retires a node in its turn is not modelled.            *)
(***************************************************************************)
EXTENDS Integers, Sequences, FiniteSets

CONSTANTS Threads, Nodes, Null,
          Cell,        \* the memory of a cache cell, which nobody guards
          Slots,       \* hazard pointers per record (get_hazard_pointers' count)
          MaxRecords   \* bound: records of either kind

ASSUME SmrAssumption ==
    /\ Null \notin Nodes /\ Cell \notin Nodes /\ Cell # Null
    /\ IsFiniteSet(Threads) /\ IsFiniteSet(Nodes)
    /\ Slots \in Nat \ {0} /\ MaxRecords \in Nat \ {0}

Records == 1..MaxRecords

VARIABLES
    memory,              \* each node: linked in a container, taken out of it, or free
    hazard, hprActive, hprHead, total, \* hazard pointer records, head_hpr, total_hazard_pointers
    retired, thrActive, thrHead,       \* thread records, head_thr
    mine, cache,         \* each thread's thread record and hazard pointer record
    uses,                \* the nodes it has guarded and checked
    pc, at, slot,        \* where it is: record and slot of a walk
    arg, head, back,     \* retire_node's argument and head, what follows it
    danger, helped       \* potentially_hazardous; the record help_scan has taken

hprVars == <<hazard, hprActive, hprHead, total>>
thrVars == <<retired, thrActive, thrHead>>
scanVars == <<arg, head, back, danger, helped>>
vars == <<memory, hprVars, thrVars, mine, cache, uses, pc, at, slot, scanVars>>

At(p, l) == pc[p] = l
Goto(p, l) == pc' = [pc EXCEPT ![p] = l]
Walk(p, l, r) == pc' = [pc EXCEPT ![p] = l] /\ at' = [at EXCEPT ![p] = r]

Elements(list) == {list[i] : i \in DOMAIN list}

NoGuards == [s \in 1..Slots |-> Null]

Init ==
    /\ memory = [n \in Nodes |-> "linked"]
    /\ hazard = [r \in Records |-> NoGuards] /\ hprActive = {}
    /\ hprHead = 0 /\ total = 0
    /\ retired = [r \in Records |-> <<>>] /\ thrActive = {}
    /\ thrHead = 0
    /\ mine = [p \in Threads |-> 0] /\ cache = [p \in Threads |-> 0]
    /\ uses = [p \in Threads |-> NoGuards]
    /\ pc = [p \in Threads |-> "out"] /\ at = [p \in Threads |-> 0] /\ slot = [p \in Threads |-> 1]
    /\ arg = [p \in Threads |-> Null] /\ head = [p \in Threads |-> 0]
    /\ back = [p \in Threads |-> "ready"]
    /\ danger = [p \in Threads |-> <<>>] /\ helped = [p \in Threads |-> 0]

-----------------------------------------------------------------------------
(* A thread's first use: get_hazard_pointers finds a thread record, then a *)
(* record of hazard pointers.                                              *)

Start(p) ==
    /\ At(p, "out")
    /\ Walk(p, "find_thr", thrHead)
    /\ UNCHANGED <<memory, hprVars, thrVars, mine, cache, uses, slot, scanVars>>

\* Mutant of ThrTake: the test without the set.
ThrTakeUnlocked(p) ==
    /\ At(p, "find_thr") /\ at[p] # 0 /\ at[p] \notin thrActive
    /\ mine' = [mine EXCEPT ![p] = at[p]]
    /\ Walk(p, "find_hpr", hprHead)
    /\ UNCHANGED <<memory, hprVars, thrVars, cache, uses, slot, scanVars>>

\* allocate_thr, one record of the list: passed over if it is active, ...
ThrBusy(p) ==
    /\ At(p, "find_thr") /\ at[p] # 0 /\ at[p] \in thrActive
    /\ at' = [at EXCEPT ![p] = @ - 1]
    /\ UNCHANGED <<memory, hprVars, thrVars, mine, cache, uses, pc, slot, scanVars>>

\* ... taken if it is not.
ThrTake(p) ==
    /\ At(p, "find_thr") /\ at[p] # 0 /\ at[p] \notin thrActive
    /\ thrActive' = thrActive \cup {at[p]}
    /\ mine' = [mine EXCEPT ![p] = at[p]]
    /\ Walk(p, "find_hpr", hprHead)
    /\ UNCHANGED <<memory, hprVars, retired, thrHead, cache, uses, slot, scanVars>>

ThrNew(p) ==
    /\ At(p, "find_thr") /\ at[p] = 0 /\ thrHead < MaxRecords
    /\ thrHead' = thrHead + 1
    /\ thrActive' = thrActive \cup {thrHead'}
    /\ mine' = [mine EXCEPT ![p] = thrHead']
    /\ Walk(p, "find_hpr", hprHead)
    /\ UNCHANGED <<memory, hprVars, retired, cache, uses, slot, scanVars>>

\* allocate_hpr, likewise; the total grows before the record is in the list.
\* All threads ask for the same number of pointers, Slots: the code also passes
\* over a record that has fewer than it is asked for, and a thread keeps a list
\* of the records it has got, one for each larger request.
HprBusy(p) ==
    /\ At(p, "find_hpr") /\ at[p] # 0 /\ at[p] \in hprActive
    /\ at' = [at EXCEPT ![p] = @ - 1]
    /\ UNCHANGED <<memory, hprVars, thrVars, mine, cache, uses, pc, slot, scanVars>>

HprTake(p) ==
    /\ At(p, "find_hpr") /\ at[p] # 0 /\ at[p] \notin hprActive
    /\ hprActive' = hprActive \cup {at[p]}
    /\ cache' = [cache EXCEPT ![p] = at[p]]
    /\ Walk(p, "ready", 0)
    /\ UNCHANGED <<memory, hazard, hprHead, total, thrVars, mine, uses, slot, scanVars>>

HprGrow(p) ==
    /\ At(p, "find_hpr") /\ at[p] = 0 /\ total < MaxRecords * Slots
    /\ total' = total + Slots
    /\ Goto(p, "link_hpr")
    /\ UNCHANGED <<memory, hazard, hprActive, hprHead, thrVars, mine, cache, uses, at, slot, scanVars>>

HprLink(p) ==
    /\ At(p, "link_hpr") /\ hprHead < MaxRecords
    /\ hprHead' = hprHead + 1
    /\ hprActive' = hprActive \cup {hprHead'}
    /\ cache' = [cache EXCEPT ![p] = hprHead']
    /\ Goto(p, "ready")
    /\ UNCHANGED <<memory, hazard, total, thrVars, mine, uses, at, slot, scanVars>>

-----------------------------------------------------------------------------
(* What the containers do with it.                                         *)

\* *hazards[s] = t, for a node t read from the container before: by now it
\* may have been taken out, or even freed.
Guard(p) ==
    /\ At(p, "ready")
    /\ \E s \in 1..Slots, n \in Nodes :
          /\ hazard' = [hazard EXCEPT ![cache[p]][s] = n]
          /\ uses' = [uses EXCEPT ![p][s] = Null]
          /\ slot' = [slot EXCEPT ![p] = s]
    /\ Goto(p, "check")
    /\ UNCHANGED <<memory, hprActive, hprHead, total, thrVars, mine, cache, at, scanVars>>

\* Mutant of Check: no second look.
CheckNothing(p) ==
    /\ At(p, "check")
    /\ uses' = [uses EXCEPT ![p][slot[p]] = hazard[cache[p]][slot[p]]]
    /\ slot' = [slot EXCEPT ![p] = 1] /\ Goto(p, "ready")
    /\ UNCHANGED <<memory, hprVars, thrVars, mine, cache, at, scanVars>>

\* if(s->top != t) continue; a failed check leaves the hazard pointer set.
Check(p) ==
    /\ At(p, "check")
    /\ LET n == hazard[cache[p]][slot[p]]
       IN  uses' = [uses EXCEPT ![p][slot[p]] = IF memory[n] = "linked" THEN n ELSE Null]
    /\ slot' = [slot EXCEPT ![p] = 1] /\ Goto(p, "ready")
    /\ UNCHANGED <<memory, hprVars, thrVars, mine, cache, at, scanVars>>

\* *hazards[s] = nullptr.
Release(p) ==
    /\ At(p, "ready")
    /\ \E s \in 1..Slots :
          /\ hazard[cache[p]][s] # Null
          /\ hazard' = [hazard EXCEPT ![cache[p]][s] = Null]
          /\ uses' = [uses EXCEPT ![p][s] = Null]
    /\ UNCHANGED <<memory, hprActive, hprHead, total, thrVars, mine, cache, pc, at, slot, scanVars>>

\* The compare-and-swap that takes a node out, and smr_free of it; the
\* thread does not touch the node again, though it may still guard it.
Unlink(p) ==
    /\ At(p, "ready")
    /\ \E n \in Nodes :
          /\ memory[n] = "linked"
          /\ memory' = [memory EXCEPT ![n] = "out"]
          /\ arg' = [arg EXCEPT ![p] = n]
          /\ uses' = [uses EXCEPT ![p] = [s \in 1..Slots |-> IF @[s] = n THEN Null ELSE @[s]]]
    /\ Goto(p, "retire") /\ back' = [back EXCEPT ![p] = "ready"]
    /\ UNCHANGED <<hprVars, thrVars, mine, cache, at, slot, head, danger, helped>>

\* Freed memory becomes another node.
Reuse(n) ==
    /\ memory[n] = "free"
    /\ memory' = [memory EXCEPT ![n] = "linked"]
    /\ UNCHANGED <<hprVars, thrVars, mine, cache, uses, pc, at, slot, scanVars>>

-----------------------------------------------------------------------------
(* retire_node, scan and help_scan.                                        *)

RetireHead(p) ==
    /\ At(p, "retire")
    /\ head' = [head EXCEPT ![p] = hprHead]
    /\ Goto(p, "push")
    /\ UNCHANGED <<memory, hprVars, thrVars, mine, cache, uses, at, slot, arg, back, danger, helped>>

R(count) == 2 * count

\* Mutant of Enough: one node too late.
EnoughLate(r) == Len(retired'[r]) > R(total)

Enough(r) == Len(retired'[r]) >= R(total)

\* scan begins at the head it is given (danger was emptied by the last one).
BeginScan(p, h) == Walk(p, "scan", h)

\* The node goes on top of the list; that is all until there are enough.
Push(p) ==
    /\ At(p, "push")
    /\ retired' = [retired EXCEPT ![mine[p]] = <<arg[p]>> \o @]
    /\ arg' = [arg EXCEPT ![p] = Null]
    /\ UNCHANGED <<memory, hprVars, thrActive, thrHead, mine, cache, uses, slot, head, back, danger, helped>>

RetirePush(p) == Push(p) /\ ~Enough(mine[p]) /\ Goto(p, back[p]) /\ UNCHANGED at

RetireScan(p) == Push(p) /\ Enough(mine[p]) /\ BeginScan(p, head[p])

\* One hazard pointer is read; what it holds goes on top of the list.
ScanRead(p) ==
    /\ At(p, "scan") /\ at[p] # 0
    /\ LET n == hazard[at[p]][slot[p]]
       IN  danger' = [danger EXCEPT ![p] = IF n = Null THEN @ ELSE <<n>> \o @]
    /\ slot' = [slot EXCEPT ![p] = IF @ < Slots THEN @ + 1 ELSE 1]
    /\ at' = [at EXCEPT ![p] = IF slot[p] < Slots THEN @ ELSE @ - 1]
    /\ UNCHANGED <<memory, hprVars, thrVars, mine, cache, uses, pc, arg, head, back, helped>>

\* retired_list_contains: the list is flushed and its entries are pushed back
\* while it is walked.  The push of the first one makes it the only one, and
\* its Next null, so the walk ends there: the others are neither looked at
\* nor put back.
ListContains(list, n) == list # <<>> /\ n = list[1]

\* What scan puts back: the nodes of the list it found hazardous.
Kept(p) == {n \in Elements(retired[mine[p]]) : ListContains(danger[p], n)}

\* The end of a scan: on with the record being helped with, or with the next.
Resume(p) == Walk(p, IF helped[p] # 0 THEN "drain" ELSE "help",
                     IF helped[p] # 0 THEN helped[p] ELSE thrHead)

\* Mutant of ScanFree: the list is not swapped for an empty one.
ScanFreeKeepsList(p) ==
    /\ At(p, "scan") /\ at[p] = 0
    /\ memory' = [n \in Nodes |-> IF n \in Elements(retired[mine[p]]) \ Kept(p) THEN "free" ELSE memory[n]]
    /\ danger' = [danger EXCEPT ![p] = <<>>]
    /\ Resume(p)
    /\ UNCHANGED <<hprVars, thrVars, mine, cache, uses, slot, arg, head, back, helped>>

\* The rest of the list is freed.  (A node is in it once, and
\* ListContains finds one node at most.)
ScanFree(p) ==
    /\ At(p, "scan") /\ at[p] = 0
    /\ retired' = [retired EXCEPT ![mine[p]] = IF Kept(p) = {} THEN <<>> ELSE <<danger[p][1]>>]
    /\ memory' = [n \in Nodes |-> IF n \in Elements(retired[mine[p]]) \ Kept(p) THEN "free" ELSE memory[n]]
    /\ danger' = [danger EXCEPT ![p] = <<>>]
    /\ Resume(p)
    /\ UNCHANGED <<hprVars, thrActive, thrHead, mine, cache, uses, slot, arg, head, back, helped>>

\* help_scan: records of living threads are passed over, ...
HelpBusy(p) ==
    /\ At(p, "help") /\ at[p] # 0 /\ at[p] \in thrActive
    /\ at' = [at EXCEPT ![p] = @ - 1]
    /\ UNCHANGED <<memory, hprVars, thrVars, mine, cache, uses, pc, slot, scanVars>>

\* ... the record of a thread that is gone is taken, ...
HelpTake(p) ==
    /\ At(p, "help") /\ at[p] # 0 /\ at[p] \notin thrActive
    /\ thrActive' = thrActive \cup {at[p]}
    /\ helped' = [helped EXCEPT ![p] = at[p]]
    /\ Goto(p, "drain")
    /\ UNCHANGED <<memory, hprVars, retired, thrHead, mine, cache, uses, at, slot, arg, head, back, danger>>

\* ... its nodes are moved to the helper's list one by one, ...
Move(p) ==
    /\ At(p, "drain") /\ retired[helped[p]] # <<>>
    /\ LET left == retired[helped[p]]
       IN  retired' = [retired EXCEPT ![helped[p]] = Tail(left),
                                      ![mine[p]] = <<Head(left)>> \o retired[mine[p]]]
    /\ head' = [head EXCEPT ![p] = hprHead]
    /\ UNCHANGED <<memory, hprVars, thrActive, thrHead, mine, cache, uses, slot, arg, back, danger, helped>>

Drain(p) == Move(p) /\ ~Enough(mine[p]) /\ UNCHANGED <<pc, at>>

DrainScan(p) == Move(p) /\ Enough(mine[p]) /\ BeginScan(p, hprHead)

\* ... and it is left to the next thread.
Drained(p) ==
    /\ At(p, "drain") /\ retired[helped[p]] = <<>>
    /\ thrActive' = thrActive \ {helped[p]}
    /\ helped' = [helped EXCEPT ![p] = 0]
    /\ Walk(p, "help", helped[p] - 1)
    /\ UNCHANGED <<memory, hprVars, retired, thrHead, mine, cache, uses, slot, arg, head, back, danger>>

HelpDone(p) ==
    /\ At(p, "help") /\ at[p] = 0
    /\ Goto(p, back[p])
    /\ head' = [head EXCEPT ![p] = 0]
    /\ UNCHANGED <<memory, hprVars, thrVars, mine, cache, uses, at, slot, arg, back, danger, helped>>

-----------------------------------------------------------------------------
(* on_tls_callback: the thread ends.                                       *)

\* retire_hpr, and smr_free of the cache cell that named the record.
EndHpr(p) ==
    /\ At(p, "ready")
    /\ hazard' = [hazard EXCEPT ![cache[p]] = NoGuards]
    /\ hprActive' = hprActive \ {cache[p]}
    /\ cache' = [cache EXCEPT ![p] = 0] /\ uses' = [uses EXCEPT ![p] = NoGuards]
    /\ arg' = [arg EXCEPT ![p] = Cell] /\ back' = [back EXCEPT ![p] = "end"]
    /\ Goto(p, "retire")
    /\ UNCHANGED <<memory, hprHead, total, thrVars, mine, at, slot, head, danger, helped>>

EndThr(p) ==
    /\ At(p, "end")
    /\ thrActive' = thrActive \ {mine[p]}
    /\ mine' = [mine EXCEPT ![p] = 0]
    /\ back' = [back EXCEPT ![p] = "ready"]
    /\ Goto(p, "out")
    /\ UNCHANGED <<memory, hprVars, retired, thrHead, cache, uses, at, slot, arg, head, danger, helped>>

Step(p) == \/ Start(p) \/ ThrBusy(p) \/ ThrTake(p) \/ ThrNew(p)
           \/ HprBusy(p) \/ HprTake(p) \/ HprGrow(p) \/ HprLink(p)
           \/ Guard(p) \/ Check(p) \/ Release(p) \/ Unlink(p)
           \/ RetireHead(p) \/ RetirePush(p) \/ RetireScan(p) \/ ScanRead(p) \/ ScanFree(p)
           \/ HelpBusy(p) \/ HelpTake(p) \/ Drain(p) \/ DrainScan(p) \/ Drained(p) \/ HelpDone(p)
           \/ EndHpr(p) \/ EndThr(p)

Next == \/ \E p \in Threads : Step(p)
        \/ \E n \in Nodes : Reuse(n)

Spec == Init /\ [][Next]_vars
-----------------------------------------------------------------------------
(* Properties.                                                             *)

\* Live threads never share a record, and nobody owns the one a helper has
\* taken (tas in allocate_thr, allocate_hpr, help_scan).
Owned(p) == {mine[p], helped[p]} \ {0}
OneOwner ==
    \A p, q \in Threads : p # q =>
        /\ Owned(p) \cap Owned(q) = {}
        /\ cache[p] # 0 => cache[p] # cache[q]

\* Where a node is retired: in a list, or on its way to one.
Listed(n) == UNION {{<<r, i>> : i \in {j \in DOMAIN retired[r] : retired[r][j] = n}} : r \in Records}
Carried(n) == {p \in Threads : arg[p] = n}

\* A node taken out of its container is retired in one place: it is freed
\* once, and not while it is linked, whoever helps whom and whoever ends.
RetiredOnce ==
    \A n \in Nodes :
        /\ memory[n] = "out" <=> Listed(n) # {} \/ Carried(n) # {}
        /\ \A a, b \in Listed(n) : a = b
        /\ \A p, q \in Carried(n) : p = q
        /\ Listed(n) = {} \/ Carried(n) = {}

\* A thread that is not scanning holds fewer nodes than call for a scan.
GarbageBounded == \A p \in Threads : At(p, "ready") => Len(retired[mine[p]]) < R(total)

\* The promise of the module is that no node in use is freed.  The code keeps
\* it for the hazard pointer read last; any other is forgotten by
\* retired_list_contains, and nothing but that goes wrong.
FreesOnlyForgotten ==
    [][\A n \in Nodes :
          memory[n] = "out" /\ memory'[n] = "free" /\ (\E q \in Threads : n \in Elements(uses[q]))
          => \E p \in Threads : At(p, "scan") /\ danger[p] # <<>> /\ n \in Elements(Tail(danger[p]))]_vars

=============================================================================
