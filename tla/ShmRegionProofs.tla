-------------------------- MODULE ShmRegionProofs ---------------------------
(***************************************************************************)
(* The shared memory object of any number of jobs of any size, whichever   *)
(* of the faults occur in whichever jobs.                                  *)
(*                                                                         *)
(* All the invariants that the runs check are consequences of one that     *)
(* says who can hold on to an object: it is initialized by the process     *)
(* that gave it a size, under flock(), and stays partly initialized only   *)
(* if that process is killed; whoever ended in order has taken its name    *)
(* away, so that two jobs meet in an object only if processes of the       *)
(* earlier one were killed; and a slot is taken only in a region that has  *)
(* a mutex and a process count, by a process that was counted when it      *)
(* attached if the region is initialized.                                  *)
(***************************************************************************)
EXTENDS ShmRegion, FiniteSetTheorems, FunctionTheorems, TLAPS

\* Where a process can be.
Control ==
  Ended \cup {"start", "opened", "flocked", "sized", "attached", "pin", "waiting", "turn", "stuck",
            "unlink"}

\* Where it holds flock().
Attaching == {"flocked", "sized", "attached"}

\* flock() is held while a process attaches, by one process of each object.
FlockInv ==
  /\ flocked = {p \in Proc : pc[p] \in Attaching}
  /\ \A p, q \in flocked : fd[p] = fd[q] => p = q

\* Objects are numbered in the order of their creation, by the processes that opened one.
FdInv ==
  /\ \A p \in Proc : fd[p] = NoObj <=> pc[p] = "start"
  /\ objects <= Cardinality({p \in Proc : fd[p] # NoObj})
  /\ \A p \in ok : pc[p] # "start"

\* Whoever is past the test of the size is in an object that has one.
SizeInv ==
  /\ \A p \in Proc : pc[p] \in {"sized", "attached", "pin", "waiting", "turn"} => fd[p] \in sized
  /\ \A o \in sized \ initialized :
       \E q \in Proc : fd[q] = o /\ pc[q] \in Ended \cup {"sized", "unlink"}

\* An object that is partly initialized has a process at it, or one that was killed there.
StoresInv ==
  \A o \in Obj : stores[o] > 0 =>
    /\ o \in sized
    /\ o \in initialized \/ \E q \in Proc : fd[q] = o /\ pc[q] \in {"sized", "killed"}

\* Nobody has attached to an object that somebody is about to initialize.
FreshInv ==
  \A p \in Proc : pc[p] = "sized" =>
    /\ fd[p] \notin initialized
    /\ slots[fd[p]] = {}
    /\ \A q \in Proc : fd[q] = fd[p] => pc[q] \notin {"attached", "pin"}

\* A process that ends in order has taken the name away from its object.
NameInv == \A p \in Proc : pc[p] \in {"exec", "exit"} => fd[p] # bound

\* Jobs run one after the other, and meet only in what killed processes have left.
JobsInv ==
  \A p, q \in Proc : JobOf[p] < JobOf[q] /\ pc[q] # "start" =>
    /\ pc[p] \in Ended
    /\ fd[p] = fd[q] => pc[p] = "killed"

\* Slots are taken in regions that are initialized as far as the count of the processes, and
\* the list is of those that wait in one.
SlotInv ==
  /\ \A o \in Obj : \A p \in slots[o] :
       /\ fd[p] = o
       /\ stores[o] >= 2
       /\ pc[p] \in Ended \cup {"waiting", "turn", "stuck", "unlink"}
  /\ \A o \in Obj : group[o] \subseteq slots[o]
  /\ \A o \in Obj : \A p \in group[o] : pc[p] \in {"waiting", "killed"}
  /\ \A p \in Proc : pc[p] \in {"waiting", "turn"} => p \in slots[fd[p]]

\* A process links itself to itself only in such a region.
KnotInv == \A o \in Obj : knot[o] # {} => stores[o] >= 2

\* Who has attached to o, in order or for the sake of the slots it took.
Attached(o) ==
  {p \in Proc : \/ p \in slots[o]
                \/ fd[p] = o /\ pc[p] \in {"attached", "pin"}}

\* Everybody who attached was counted.
LeftInv ==
  \A o \in initialized : \A p \in Proc : left[o] + Cardinality(Attached(o)) <= Ppn(p)

\* As long as nobody is killed, nobody has the turn before the whole job has a slot.
TurnInv ==
  (\A p \in Proc : pc[p] # "killed") =>
    /\ broken = {}
    /\ \A p \in Proc : p \in ok \/ pc[p] = "turn" => Peers(p) \subseteq slots[fd[p]]

\* The inductive invariant, of all jobs and faults.
RegionInv ==
  /\ TypeOK
  /\ FlockInv
  /\ FdInv
  /\ SizeInv
  /\ StoresInv
  /\ FreshInv
  /\ InitializedFirst
  /\ NameInv
  /\ JobsInv
  /\ SlotInv
  /\ KnotInv
  /\ LeftInv
  /\ TurnInv

-----------------------------------------------------------------------------
\* Jobs are finite, of one size, and have a process.
LEMMA JobSizes ==
  /\ \A p \in Proc : /\ IsFiniteSet(Peers(p)) /\ Peers(p) \subseteq Proc /\ p \in Peers(p)
                     /\ Ppn(p) \in Nat \ {0}
  /\ \A p, q \in Proc : Ppn(p) = Ppn(q)
<1>1. ASSUME NEW p \in Proc
      PROVE  /\ IsFiniteSet(Peers(p)) /\ Peers(p) \subseteq Proc /\ p \in Peers(p)
             /\ Ppn(p) \in Nat \ {0}
  <2>1. Peers(p) \subseteq Proc /\ p \in Peers(p)
    BY DEF Peers
  <2>2. IsFiniteSet(Peers(p))
    BY <2>1, JobAssumption, FS_Subset
  <2>3. Cardinality(Peers(p)) \in Nat /\ Cardinality(Peers(p)) # 0
    BY <2>1, <2>2, FS_CardinalityType, FS_EmptySet
  <2> QED
    BY <2>1, <2>2, <2>3 DEF Ppn
<1> QED
  BY <1>1, SizeAssumption

\* Any set of processes can be counted.
LEMMA Counting ==
  ASSUME NEW S \in SUBSET Proc
  PROVE  /\ IsFiniteSet(S)
         /\ Cardinality(S) \in Nat
         /\ Cardinality(S) <= Cardinality(Proc)
         /\ \A p : p \notin S => Cardinality(S \cup {p}) = Cardinality(S) + 1
<1>1. IsFiniteSet(S) /\ Cardinality(S) <= Cardinality(Proc)
  BY JobAssumption, FS_Subset
<1> QED
  BY <1>1, FS_CardinalityType, FS_AddElement

\* A process that has opened an object has one that exists.
LEMMA ObjectsOpen ==
  ASSUME RegionInv
  PROVE  /\ Cardinality(Proc) \in Nat /\ objects \in Nat /\ objects <= Cardinality(Proc)
         /\ 1 .. objects \subseteq Obj
         /\ \A p \in Proc : fd[p] \in Nat /\ (pc[p] # "start" => fd[p] \in 1 .. objects /\ fd[p] \in Obj)
<1>1. Cardinality(Proc) \in Nat
  BY JobAssumption, FS_CardinalityType
<1>2. objects \in Nat /\ objects <= Cardinality(Proc) /\ fd \in [Proc -> 0 .. objects]
  BY <1>1 DEF RegionInv, TypeOK
<1>3. \A p \in Proc : fd[p] \in 0 .. objects /\ (pc[p] # "start" => fd[p] # 0)
  BY <1>2 DEF RegionInv, FdInv, NoObj
<1> QED
  BY <1>1, <1>2, <1>3 DEF Obj

\* Only processes that wait are served with the last one that enters.
LEMMA EnterMoves ==
  ASSUME RegionInv, NEW p \in Proc, Enter(p)
  PROVE  /\ pc[p] = "pin" /\ pc'[p] \in {"waiting", "turn"}
         /\ DOMAIN pc' = Proc
         /\ \A q \in Proc \ {p} :
              \/ pc'[q] = pc[q]
              \/ q \in group[fd[p]] /\ pc[q] = "waiting" /\ pc'[q] = "turn"
<1> DEFINE all == group[fd[p]] \cup {p}
<1>1. pc[p] = "pin"
  BY DEF Enter
<1>2. fd[p] \in Obj /\ group[fd[p]] \subseteq Proc
  <2>1. fd[p] \in Obj
    BY <1>1, ObjectsOpen
  <2> QED
    BY <2>1 DEF RegionInv, TypeOK
<1>3. \A q \in group[fd[p]] : pc[q] \in {"waiting", "killed"}
  BY <1>2 DEF RegionInv, SlotInv
<1>4. \A q \in Served(all) : q \in all /\ pc[q] # "killed"
  <2>1. \A q \in all : q \in Nat
    BY <1>2, JobAssumption
  <2>2. \A q \in all : q <= q
    BY <2>1
  <2> QED
    BY <2>2 DEF Served
<1>5. CASE pc' = [q \in Proc |-> IF q \in Served(all) THEN "turn"
                                 ELSE IF q = p THEN "waiting" ELSE pc[q]]
  BY <1>1, <1>3, <1>4, <1>5
<1>6. CASE pc' = [pc EXCEPT ![p] = "waiting"]
  BY <1>1, <1>6 DEF RegionInv, TypeOK
<1> QED
  BY <1>5, <1>6 DEF Enter

\* What cannot be undone: a process keeps its object, nobody comes back from the end, and
\* objects keep their size and their initialization.
LEMMA Progress ==
  ASSUME RegionInv, NEW p \in Proc, Step(p) \/ Kill(p)
  PROVE  /\ sized \subseteq sized' /\ initialized \subseteq initialized'
         /\ DOMAIN pc' = Proc /\ fd' \in [Proc -> Nat]
         /\ \A q \in Proc : /\ pc[q] # "start" => fd'[q] = fd[q] /\ pc'[q] # "start"
                            /\ pc[q] \in Ended => pc'[q] = pc[q]
                            /\ pc[q] = "unlink" => pc'[q] \in Ended \cup {"unlink"}
         /\ \A q \in Proc \ {p} : fd'[q] = fd[q] /\ (pc[q] = "start" => pc'[q] = "start")
<1> USE DEF Ended
<1>1. CASE Open(p)
  BY <1>1 DEF RegionInv, TypeOK, FdInv, Open, Goto, objVars
<1>2. CASE Flock(p)
  BY <1>2 DEF RegionInv, TypeOK, FdInv, Flock, Goto, objVars
<1>3. CASE Truncate(p)
  BY <1>3 DEF RegionInv, TypeOK, FdInv, Truncate, Goto, Sized
<1>4. CASE Initialize(p)
  BY <1>4 DEF RegionInv, TypeOK, FdInv, Initialize, Goto
<1>5. CASE Attach(p)
  BY <1>5 DEF RegionInv, TypeOK, FdInv, Attach, Goto
<1>6. CASE MapFails(p)
  BY <1>6 DEF RegionInv, TypeOK, FdInv, MapFails, Goto, objVars
<1>7. CASE Unflock(p)
  BY <1>7 DEF RegionInv, TypeOK, FdInv, Unflock, Goto, objVars
<1>8. CASE Mismatch(p)
  BY <1>8 DEF RegionInv, TypeOK, FdInv, Mismatch, Goto, objVars
<1>9. CASE Enter(p)
  <2>1. fd' = fd /\ sized' = sized /\ initialized' = initialized
    BY <1>9 DEF Enter
  <2>2. fd \in [Proc -> Nat]
    BY DEF RegionInv, TypeOK
  <2> QED
    BY <1>9, <2>1, <2>2, EnterMoves
<1>10. CASE Pinned(p)
  BY <1>10 DEF RegionInv, TypeOK, FdInv, Pinned, Goto
<1>11. CASE TimeOut(p)
  BY <1>11 DEF RegionInv, TypeOK, FdInv, TimeOut, Expires
<1>12. CASE Unlink(p)
  BY <1>12 DEF RegionInv, TypeOK, FdInv, Unlink, Goto, Unlinked, objVars
<1>13. CASE Kill(p)
  BY <1>13 DEF RegionInv, TypeOK, FdInv, Kill, Ended
<1>14. CASE MakeLock(p)
  BY <1>14 DEF RegionInv, TypeOK, FdInv, MakeLock
<1>15. CASE Store(p)
  BY <1>15 DEF RegionInv, TypeOK, FdInv, Store
<1>16. CASE MissWakeup(p)
  BY <1>16 DEF RegionInv, TypeOK, FdInv, MissWakeup, Goto, objVars
<1>17. CASE Loop(p)
  BY <1>17 DEF RegionInv, TypeOK, FdInv, Loop, Goto
<1>18. CASE AbortLoops(p)
  BY <1>18 DEF RegionInv, TypeOK, FdInv, AbortLoops, Expires
<1> QED
  BY <1>1, <1>2, <1>3, <1>4, <1>5, <1>6, <1>7, <1>8, <1>9, <1>10, <1>11, <1>12,
     <1>13, <1>14, <1>15, <1>16, <1>17, <1>18 DEF Step

\* A process opens one object, and objects are never more than processes.
LEMMA FdKept ==
  ASSUME RegionInv, NEW p \in Proc, Step(p) \/ Kill(p)
  PROVE  FdInv'
<1>1. CASE Open(p)
  <2> DEFINE S == {q \in Proc : fd[q] # NoObj}
  <2>1. pc[p] = "start" /\ pc' = [pc EXCEPT ![p] = "opened"] /\ fd' = [fd EXCEPT ![p] = bound']
        /\ bound' # NoObj /\ objects' \in {objects, objects + 1}
    BY <1>1 DEF RegionInv, TypeOK, Open, Goto, NoObj
  <2>2. \A q \in Proc : fd'[q] = NoObj <=> pc'[q] = "start"
    BY <2>1 DEF RegionInv, TypeOK, FdInv
  <2>3. p \notin S /\ {q \in Proc : fd'[q] # NoObj} = S \cup {p}
    BY <2>1 DEF RegionInv, TypeOK, FdInv
  <2>4. S \in SUBSET Proc
    OBVIOUS
  <2>5. Cardinality(S) \in Nat /\ Cardinality(S \cup {p}) = Cardinality(S) + 1
    BY <2>3, <2>4, Counting
  <2>6. objects \in Nat /\ objects <= Cardinality(S)
    BY DEF RegionInv, TypeOK, FdInv
  <2>7. objects' <= Cardinality({q \in Proc : fd'[q] # NoObj})
    BY <2>1, <2>3, <2>5, <2>6
  <2>8. ok' = ok /\ \A q \in ok : pc'[q] # "start"
    BY <1>1, <2>1 DEF RegionInv, TypeOK, FdInv, Open
  <2> QED
    BY <2>2, <2>7, <2>8 DEF FdInv
<1>2. CASE Flock(p)
  BY <1>2 DEF RegionInv, TypeOK, FdInv, Flock, Goto, objVars
<1>3. CASE Truncate(p)
  BY <1>3 DEF RegionInv, TypeOK, FdInv, Truncate, Goto, Sized
<1>4. CASE Initialize(p)
  BY <1>4 DEF RegionInv, TypeOK, FdInv, Initialize, Goto
<1>5. CASE Attach(p)
  BY <1>5 DEF RegionInv, TypeOK, FdInv, Attach, Goto
<1>6. CASE MapFails(p)
  BY <1>6 DEF RegionInv, TypeOK, FdInv, MapFails, Goto, objVars
<1>7. CASE Unflock(p)
  BY <1>7 DEF RegionInv, TypeOK, FdInv, Unflock, Goto, objVars
<1>8. CASE Mismatch(p)
  BY <1>8 DEF RegionInv, TypeOK, FdInv, Mismatch, Goto, objVars
<1>9. CASE Enter(p)
  <2>1. fd' = fd /\ objects' = objects /\ ok' = ok
    BY <1>9 DEF Enter
  <2> QED
    BY <1>9, <2>1, EnterMoves DEF RegionInv, TypeOK, FdInv
<1>10. CASE Pinned(p)
  BY <1>10 DEF RegionInv, TypeOK, FdInv, Pinned, Goto
<1>11. CASE TimeOut(p)
  BY <1>11 DEF RegionInv, TypeOK, FdInv, TimeOut, Expires
<1>12. CASE Unlink(p)
  BY <1>12 DEF RegionInv, TypeOK, FdInv, Unlink, Goto, Unlinked, objVars
<1>13. CASE Kill(p)
  BY <1>13 DEF RegionInv, TypeOK, FdInv, Kill, Ended
<1>14. CASE MakeLock(p)
  BY <1>14 DEF RegionInv, TypeOK, FdInv, MakeLock
<1>15. CASE Store(p)
  BY <1>15 DEF RegionInv, TypeOK, FdInv, Store
<1>16. CASE MissWakeup(p)
  BY <1>16 DEF RegionInv, TypeOK, FdInv, MissWakeup, Goto, objVars
<1>17. CASE Loop(p)
  BY <1>17 DEF RegionInv, TypeOK, FdInv, Loop, Goto
<1>18. CASE AbortLoops(p)
  BY <1>18 DEF RegionInv, TypeOK, FdInv, AbortLoops, Expires
<1> QED
  BY <1>1, <1>2, <1>3, <1>4, <1>5, <1>6, <1>7, <1>8, <1>9, <1>10, <1>11, <1>12,
     <1>13, <1>14, <1>15, <1>16, <1>17, <1>18 DEF Step

\* The lock of an object is held by one process.
LEMMA FlockKept ==
  ASSUME RegionInv, NEW p \in Proc, Step(p) \/ Kill(p)
  PROVE  FlockInv'
<1>1. CASE Open(p)
  BY <1>1 DEF RegionInv, TypeOK, FlockInv, Attaching, Open, Goto, objVars
<1>2. CASE Flock(p)
  BY <1>2 DEF RegionInv, TypeOK, FlockInv, Attaching, Flock, Goto, objVars
<1>3. CASE Truncate(p)
  BY <1>3 DEF RegionInv, TypeOK, FlockInv, Attaching, Truncate, Goto, Sized
<1>4. CASE Initialize(p)
  BY <1>4 DEF RegionInv, TypeOK, FlockInv, Attaching, Initialize, Goto
<1>5. CASE Attach(p)
  BY <1>5 DEF RegionInv, TypeOK, FlockInv, Attaching, Attach, Goto
<1>6. CASE MapFails(p)
  BY <1>6 DEF RegionInv, TypeOK, FlockInv, Attaching, MapFails, Goto, objVars
<1>7. CASE Unflock(p)
  BY <1>7 DEF RegionInv, TypeOK, FlockInv, Attaching, Unflock, Goto, objVars
<1>8. CASE Mismatch(p)
  BY <1>8 DEF RegionInv, TypeOK, FlockInv, Attaching, Mismatch, Goto, objVars
<1>9. CASE Enter(p)
  <2>1. fd' = fd /\ flocked' = flocked
    BY <1>9 DEF Enter
  <2> QED
    BY <1>9, <2>1, EnterMoves DEF RegionInv, FlockInv, Attaching
<1>10. CASE Pinned(p)
  BY <1>10 DEF RegionInv, TypeOK, FlockInv, Attaching, Pinned, Goto
<1>11. CASE TimeOut(p)
  BY <1>11 DEF RegionInv, TypeOK, FlockInv, Attaching, TimeOut, Expires
<1>12. CASE Unlink(p)
  BY <1>12 DEF RegionInv, TypeOK, FlockInv, Attaching, Unlink, Goto, Unlinked, objVars
<1>13. CASE Kill(p)
  BY <1>13 DEF RegionInv, TypeOK, FlockInv, Attaching, Kill, Ended
<1>14. CASE MakeLock(p)
  BY <1>14 DEF RegionInv, TypeOK, FlockInv, Attaching, MakeLock
<1>15. CASE Store(p)
  BY <1>15 DEF RegionInv, TypeOK, FlockInv, Attaching, Store
<1>16. CASE MissWakeup(p)
  BY <1>16 DEF RegionInv, TypeOK, FlockInv, Attaching, MissWakeup, Goto, objVars
<1>17. CASE Loop(p)
  BY <1>17 DEF RegionInv, TypeOK, FlockInv, Attaching, Loop, Goto
<1>18. CASE AbortLoops(p)
  BY <1>18 DEF RegionInv, TypeOK, FlockInv, Attaching, AbortLoops, Expires
<1> QED
  BY <1>1, <1>2, <1>3, <1>4, <1>5, <1>6, <1>7, <1>8, <1>9, <1>10, <1>11, <1>12,
     <1>13, <1>14, <1>15, <1>16, <1>17, <1>18 DEF Step

\* An object that was given a size is initialized unless somebody is about to, or gave up.
LEMMA AbandonedKept ==
  ASSUME RegionInv, NEW p \in Proc, Step(p) \/ Kill(p),
         sized' = sized, pc[p] = "sized" => pc'[p] \in Ended \cup {"sized", "unlink"},
         \A q \in Proc \ {p} : pc[q] = "sized" => pc'[q] = "sized"
  PROVE  \A o \in sized' \ initialized' :
           \E q \in Proc : fd'[q] = o /\ pc'[q] \in Ended \cup {"sized", "unlink"}
<1> TAKE o \in sized' \ initialized'
<1>1. initialized \subseteq initialized'
      /\ \A q \in Proc : /\ pc[q] # "start" => fd'[q] = fd[q]
                         /\ pc[q] \in Ended => pc'[q] = pc[q]
                         /\ pc[q] = "unlink" => pc'[q] \in Ended \cup {"unlink"}
  BY Progress
<1>2. PICK q \in Proc : fd[q] = o /\ pc[q] \in Ended \cup {"sized", "unlink"}
  BY <1>1 DEF RegionInv, SizeInv
<1>3. fd'[q] = o /\ pc'[q] \in Ended \cup {"sized", "unlink"}
  BY <1>1, <1>2 DEF Ended
<1> QED
  BY <1>3

\* An object has a size before anybody passes the test of it.
LEMMA SizeKept ==
  ASSUME RegionInv, NEW p \in Proc, Step(p) \/ Kill(p)
  PROVE  SizeInv'
<1>1. CASE Open(p)
  <2>1. \A q \in Proc : pc'[q] \in {"sized", "attached", "pin", "waiting", "turn"} =>
          fd'[q] \in sized'
    BY <1>1 DEF RegionInv, TypeOK, SizeInv, FdInv, Open, Goto, objVars
  <2>2. sized' = sized /\ (pc[p] = "sized" => pc'[p] \in Ended \cup {"sized", "unlink"})
        /\ \A q \in Proc \ {p} : pc[q] = "sized" => pc'[q] = "sized"
    BY <1>1 DEF RegionInv, TypeOK, Open, Goto, objVars, Ended
  <2> QED
    BY <2>1, <2>2, AbandonedKept DEF SizeInv
<1>2. CASE Flock(p)
  <2>1. \A q \in Proc : pc'[q] \in {"sized", "attached", "pin", "waiting", "turn"} =>
          fd'[q] \in sized'
    BY <1>2 DEF RegionInv, TypeOK, SizeInv, FdInv, Flock, Goto, objVars
  <2>2. sized' = sized /\ (pc[p] = "sized" => pc'[p] \in Ended \cup {"sized", "unlink"})
        /\ \A q \in Proc \ {p} : pc[q] = "sized" => pc'[q] = "sized"
    BY <1>2 DEF RegionInv, TypeOK, Flock, Goto, objVars, Ended
  <2> QED
    BY <2>1, <2>2, AbandonedKept DEF SizeInv
<1>3. CASE Truncate(p)
  BY <1>3 DEF RegionInv, TypeOK, SizeInv, FdInv, Truncate, Goto, Sized
<1>4. CASE Initialize(p)
  BY <1>4 DEF RegionInv, TypeOK, SizeInv, FdInv, Initialize, Goto
<1>5. CASE Attach(p)
  <2>1. \A q \in Proc : pc'[q] \in {"sized", "attached", "pin", "waiting", "turn"} =>
          fd'[q] \in sized'
    BY <1>5 DEF RegionInv, TypeOK, SizeInv, FdInv, Attach, Goto
  <2>2. sized' = sized /\ (pc[p] = "sized" => pc'[p] \in Ended \cup {"sized", "unlink"})
        /\ \A q \in Proc \ {p} : pc[q] = "sized" => pc'[q] = "sized"
    BY <1>5 DEF RegionInv, TypeOK, Attach, Goto, Ended
  <2> QED
    BY <2>1, <2>2, AbandonedKept DEF SizeInv
<1>6. CASE MapFails(p)
  <2>1. \A q \in Proc : pc'[q] \in {"sized", "attached", "pin", "waiting", "turn"} =>
          fd'[q] \in sized'
    BY <1>6 DEF RegionInv, TypeOK, SizeInv, FdInv, MapFails, Goto, objVars
  <2>2. sized' = sized /\ (pc[p] = "sized" => pc'[p] \in Ended \cup {"sized", "unlink"})
        /\ \A q \in Proc \ {p} : pc[q] = "sized" => pc'[q] = "sized"
    BY <1>6 DEF RegionInv, TypeOK, MapFails, Goto, objVars, Ended
  <2> QED
    BY <2>1, <2>2, AbandonedKept DEF SizeInv
<1>7. CASE Unflock(p)
  <2>1. \A q \in Proc : pc'[q] \in {"sized", "attached", "pin", "waiting", "turn"} =>
          fd'[q] \in sized'
    BY <1>7 DEF RegionInv, TypeOK, SizeInv, FdInv, Unflock, Goto, objVars
  <2>2. sized' = sized /\ (pc[p] = "sized" => pc'[p] \in Ended \cup {"sized", "unlink"})
        /\ \A q \in Proc \ {p} : pc[q] = "sized" => pc'[q] = "sized"
    BY <1>7 DEF RegionInv, TypeOK, Unflock, Goto, objVars, Ended
  <2> QED
    BY <2>1, <2>2, AbandonedKept DEF SizeInv
<1>8. CASE Mismatch(p)
  <2>1. \A q \in Proc : pc'[q] \in {"sized", "attached", "pin", "waiting", "turn"} =>
          fd'[q] \in sized'
    BY <1>8 DEF RegionInv, TypeOK, SizeInv, FdInv, Mismatch, Goto, objVars
  <2>2. sized' = sized /\ (pc[p] = "sized" => pc'[p] \in Ended \cup {"sized", "unlink"})
        /\ \A q \in Proc \ {p} : pc[q] = "sized" => pc'[q] = "sized"
    BY <1>8 DEF RegionInv, TypeOK, Mismatch, Goto, objVars, Ended
  <2> QED
    BY <2>1, <2>2, AbandonedKept DEF SizeInv
<1>9. CASE Enter(p)
  <2>1. \A q \in Proc : pc'[q] \in {"sized", "attached", "pin", "waiting", "turn"} =>
          fd'[q] \in sized'
    BY <1>9, EnterMoves DEF RegionInv, TypeOK, SizeInv, Enter
  <2>2. sized' = sized /\ (pc[p] = "sized" => pc'[p] \in Ended \cup {"sized", "unlink"})
        /\ \A q \in Proc \ {p} : pc[q] = "sized" => pc'[q] = "sized"
    BY <1>9, EnterMoves DEF Enter
  <2> QED
    BY <2>1, <2>2, AbandonedKept DEF SizeInv
<1>10. CASE Pinned(p)
  <2>1. \A q \in Proc : pc'[q] \in {"sized", "attached", "pin", "waiting", "turn"} =>
          fd'[q] \in sized'
    BY <1>10 DEF RegionInv, TypeOK, SizeInv, FdInv, Pinned, Goto
  <2>2. sized' = sized /\ (pc[p] = "sized" => pc'[p] \in Ended \cup {"sized", "unlink"})
        /\ \A q \in Proc \ {p} : pc[q] = "sized" => pc'[q] = "sized"
    BY <1>10 DEF RegionInv, TypeOK, Pinned, Goto, Ended
  <2> QED
    BY <2>1, <2>2, AbandonedKept DEF SizeInv
<1>11. CASE TimeOut(p)
  <2>1. \A q \in Proc : pc'[q] \in {"sized", "attached", "pin", "waiting", "turn"} =>
          fd'[q] \in sized'
    BY <1>11 DEF RegionInv, TypeOK, SizeInv, FdInv, TimeOut, Expires
  <2>2. sized' = sized /\ (pc[p] = "sized" => pc'[p] \in Ended \cup {"sized", "unlink"})
        /\ \A q \in Proc \ {p} : pc[q] = "sized" => pc'[q] = "sized"
    BY <1>11 DEF RegionInv, TypeOK, TimeOut, Expires, Ended
  <2> QED
    BY <2>1, <2>2, AbandonedKept DEF SizeInv
<1>12. CASE Unlink(p)
  <2>1. \A q \in Proc : pc'[q] \in {"sized", "attached", "pin", "waiting", "turn"} =>
          fd'[q] \in sized'
    BY <1>12 DEF RegionInv, TypeOK, SizeInv, FdInv, Unlink, Goto, Unlinked, objVars
  <2>2. sized' = sized /\ (pc[p] = "sized" => pc'[p] \in Ended \cup {"sized", "unlink"})
        /\ \A q \in Proc \ {p} : pc[q] = "sized" => pc'[q] = "sized"
    BY <1>12 DEF RegionInv, TypeOK, Unlink, Goto, Unlinked, objVars, Ended
  <2> QED
    BY <2>1, <2>2, AbandonedKept DEF SizeInv
<1>13. CASE Kill(p)
  <2>1. \A q \in Proc : pc'[q] \in {"sized", "attached", "pin", "waiting", "turn"} =>
          fd'[q] \in sized'
    BY <1>13 DEF RegionInv, TypeOK, SizeInv, FdInv, Kill, Ended
  <2>2. sized' = sized /\ (pc[p] = "sized" => pc'[p] \in Ended \cup {"sized", "unlink"})
        /\ \A q \in Proc \ {p} : pc[q] = "sized" => pc'[q] = "sized"
    BY <1>13 DEF RegionInv, TypeOK, Kill, Ended
  <2> QED
    BY <2>1, <2>2, AbandonedKept DEF SizeInv
<1>14. CASE MakeLock(p)
  <2>1. \A q \in Proc : pc'[q] \in {"sized", "attached", "pin", "waiting", "turn"} =>
          fd'[q] \in sized'
    BY <1>14 DEF RegionInv, TypeOK, SizeInv, FdInv, MakeLock
  <2>2. sized' = sized /\ (pc[p] = "sized" => pc'[p] \in Ended \cup {"sized", "unlink"})
        /\ \A q \in Proc \ {p} : pc[q] = "sized" => pc'[q] = "sized"
    BY <1>14 DEF RegionInv, TypeOK, MakeLock, Ended
  <2> QED
    BY <2>1, <2>2, AbandonedKept DEF SizeInv
<1>15. CASE Store(p)
  <2>1. \A q \in Proc : pc'[q] \in {"sized", "attached", "pin", "waiting", "turn"} =>
          fd'[q] \in sized'
    BY <1>15 DEF RegionInv, TypeOK, SizeInv, FdInv, Store
  <2>2. sized' = sized /\ (pc[p] = "sized" => pc'[p] \in Ended \cup {"sized", "unlink"})
        /\ \A q \in Proc \ {p} : pc[q] = "sized" => pc'[q] = "sized"
    BY <1>15 DEF RegionInv, TypeOK, Store, Ended
  <2> QED
    BY <2>1, <2>2, AbandonedKept DEF SizeInv
<1>16. CASE MissWakeup(p)
  <2>1. \A q \in Proc : pc'[q] \in {"sized", "attached", "pin", "waiting", "turn"} =>
          fd'[q] \in sized'
    BY <1>16 DEF RegionInv, TypeOK, SizeInv, FdInv, MissWakeup, Goto, objVars
  <2>2. sized' = sized /\ (pc[p] = "sized" => pc'[p] \in Ended \cup {"sized", "unlink"})
        /\ \A q \in Proc \ {p} : pc[q] = "sized" => pc'[q] = "sized"
    BY <1>16 DEF RegionInv, TypeOK, MissWakeup, Goto, objVars, Ended
  <2> QED
    BY <2>1, <2>2, AbandonedKept DEF SizeInv
<1>17. CASE Loop(p)
  <2>1. \A q \in Proc : pc'[q] \in {"sized", "attached", "pin", "waiting", "turn"} =>
          fd'[q] \in sized'
    BY <1>17 DEF RegionInv, TypeOK, SizeInv, FdInv, Loop, Goto
  <2>2. sized' = sized /\ (pc[p] = "sized" => pc'[p] \in Ended \cup {"sized", "unlink"})
        /\ \A q \in Proc \ {p} : pc[q] = "sized" => pc'[q] = "sized"
    BY <1>17 DEF RegionInv, TypeOK, Loop, Goto, Ended
  <2> QED
    BY <2>1, <2>2, AbandonedKept DEF SizeInv
<1>18. CASE AbortLoops(p)
  <2>1. \A q \in Proc : pc'[q] \in {"sized", "attached", "pin", "waiting", "turn"} =>
          fd'[q] \in sized'
    BY <1>18 DEF RegionInv, TypeOK, SizeInv, FdInv, AbortLoops, Expires
  <2>2. sized' = sized /\ (pc[p] = "sized" => pc'[p] \in Ended \cup {"sized", "unlink"})
        /\ \A q \in Proc \ {p} : pc[q] = "sized" => pc'[q] = "sized"
    BY <1>18 DEF RegionInv, TypeOK, AbortLoops, Expires, Ended
  <2> QED
    BY <2>1, <2>2, AbandonedKept DEF SizeInv
<1> QED
  BY <1>1, <1>2, <1>3, <1>4, <1>5, <1>6, <1>7, <1>8, <1>9, <1>10, <1>11, <1>12,
     <1>13, <1>14, <1>15, <1>16, <1>17, <1>18 DEF Step

\* Where a region is partly initialized, its process is at it or was killed.
LEMMA StoresKept ==
  ASSUME RegionInv, NEW p \in Proc, Step(p) \/ Kill(p)
  PROVE  StoresInv'
<1> SUFFICES ASSUME NEW o \in Obj, stores'[o] > 0
             PROVE  /\ o \in sized'
                    /\ o \in initialized' \/ \E q \in Proc : fd'[q] = o /\ pc'[q] \in {"sized", "killed"}
  BY DEF StoresInv
<1>1. /\ sized \subseteq sized' /\ initialized \subseteq initialized'
      /\ \A q \in Proc : /\ pc[q] # "start" => fd'[q] = fd[q]
                         /\ pc[q] = "killed" => pc'[q] = "killed"
  BY Progress DEF Ended
<1>2. ASSUME stores[o] > 0,
             \A q \in Proc : fd[q] = o /\ pc[q] = "sized" => pc'[q] \in {"sized", "killed"} \/ o \in initialized'
      PROVE  /\ o \in sized'
             /\ o \in initialized' \/ \E q \in Proc : fd'[q] = o /\ pc'[q] \in {"sized", "killed"}
  <2>1. o \in sized'
    BY <1>1, <1>2 DEF RegionInv, StoresInv
  <2>2. CASE o \in initialized
    BY <1>1, <2>1, <2>2
  <2>3. CASE o \notin initialized
    <3>1. PICK q \in Proc : fd[q] = o /\ pc[q] \in {"sized", "killed"}
      BY <1>2, <2>3 DEF RegionInv, StoresInv
    <3>2. fd'[q] = o /\ (pc'[q] \in {"sized", "killed"} \/ o \in initialized')
      BY <1>1, <1>2, <3>1
    <3> QED
      BY <2>1, <3>1, <3>2
  <2> QED
    BY <2>2, <2>3
<1>3. CASE MakeLock(p) \/ Store(p)
  <2>1. pc[p] = "sized" /\ pc' = pc /\ fd' = fd /\ sized' = sized
    BY <1>3 DEF MakeLock, Store
  <2>2. stores' = [stores EXCEPT ![fd[p]] = 1] \/ stores' = [stores EXCEPT ![fd[p]] = @ + 1]
    BY <1>3 DEF MakeLock, Store
  <2>3. CASE o = fd[p]
    BY <2>1, <2>3 DEF RegionInv, SizeInv
  <2>4. CASE o # fd[p]
    <3>1. stores[o] > 0
      BY <2>2, <2>4 DEF RegionInv, TypeOK
    <3> QED
      BY <1>2, <2>1, <3>1
  <2> QED
    BY <2>3, <2>4
<1>4. CASE Initialize(p)
  <2>1. stores' = stores /\ pc[p] = "sized" /\ pc' = [pc EXCEPT ![p] = "attached"]
        /\ initialized' = initialized \cup {fd[p]}
    BY <1>4 DEF Initialize, Goto
  <2>2. \A q \in Proc : q # p => pc'[q] = pc[q]
    BY <2>1 DEF RegionInv, TypeOK
  <2> QED
    BY <1>2, <2>1, <2>2
<1>5. CASE MapFails(p)
  <2>1. stores' = stores /\ pc' = [pc EXCEPT ![p] = "unlink"]
        /\ (pc[p] = "sized" => stores[fd[p]] = 0)
    BY <1>5 DEF MapFails, Goto, objVars
  <2>2. \A q \in Proc : q # p => pc'[q] = pc[q]
    BY <2>1 DEF RegionInv, TypeOK
  <2>3. stores[o] > 0 /\ (fd[p] = o => pc[p] # "sized")
    BY <2>1
  <2> QED
    BY <1>2, <2>2, <2>3
<1>6. CASE Enter(p)
  <2>1. stores' = stores /\ \A q \in Proc : pc[q] = "sized" => pc'[q] = "sized"
    BY <1>6, EnterMoves DEF Enter
  <2> QED
    BY <1>2, <2>1
<1>7. CASE TimeOut(p) \/ AbortLoops(p)
  <2>1. stores' = stores /\ \A q \in Proc : pc[q] = "sized" => pc'[q] = "sized"
    BY <1>7 DEF TimeOut, AbortLoops, Expires, RegionInv, TypeOK
  <2> QED
    BY <1>2, <2>1
<1>8. CASE Kill(p)
  <2>1. stores' = stores /\ \A q \in Proc : pc[q] = "sized" => pc'[q] \in {"sized", "killed"}
    BY <1>8 DEF Kill, RegionInv, TypeOK
  <2> QED
    BY <1>2, <2>1
<1>9. CASE Open(p) \/ Flock(p) \/ Truncate(p) \/ Attach(p) \/ Unflock(p) \/ Mismatch(p)
           \/ MissWakeup(p) \/ Loop(p) \/ Pinned(p) \/ Unlink(p)
  <2>1. stores' = stores /\ \A q \in Proc : pc[q] = "sized" => pc'[q] = "sized"
    BY <1>9 DEF Open, Flock, Truncate, Attach, Unflock, Mismatch, MissWakeup, Loop, Pinned,
                Unlink, Goto, objVars, RegionInv, TypeOK
  <2> QED
    BY <1>2, <2>1
<1> QED
  BY <1>3, <1>4, <1>5, <1>6, <1>7, <1>8, <1>9 DEF Step

\* Nobody attaches while a region is about to be initialized, or has a slot of it.
LEMMA FreshKept ==
  ASSUME RegionInv, NEW p \in Proc, Step(p) \/ Kill(p)
  PROVE  FreshInv'
<1>1. CASE Open(p)
  BY <1>1 DEF RegionInv, TypeOK, FreshInv, FlockInv, SizeInv, FdInv, Attaching, Open, Goto,
      objVars
<1>2. CASE Flock(p)
  BY <1>2 DEF RegionInv, TypeOK, FreshInv, FlockInv, SizeInv, FdInv, Attaching, Flock, Goto,
      objVars
<1>3. CASE Truncate(p)
  <2>1. /\ pc[p] = "flocked" /\ pc' = [pc EXCEPT ![p] = "sized"] /\ fd[p] \notin sized
        /\ fd' = fd /\ slots' = slots /\ initialized' = initialized
    BY <1>3 DEF Truncate, Goto
  <2>2. fd[p] \in Obj
    BY <2>1, ObjectsOpen
  <2>3. slots[fd[p]] = {}
    <3>1. stores[fd[p]] = 0
      BY <2>1, <2>2 DEF RegionInv, TypeOK, StoresInv
    <3> QED
      BY <2>2, <3>1 DEF RegionInv, SlotInv
  <2>4. fd[p] \notin initialized
    BY <2>1 DEF RegionInv, TypeOK
  <2>5. \A q \in Proc : fd[q] = fd[p] => pc'[q] \notin {"attached", "pin"}
    BY <2>1 DEF RegionInv, TypeOK, SizeInv
  <2> QED
    BY <2>1, <2>3, <2>4, <2>5 DEF RegionInv, TypeOK, FreshInv
<1>4. CASE Initialize(p)
  BY <1>4 DEF RegionInv, TypeOK, FreshInv, FlockInv, SizeInv, FdInv, Attaching, Initialize,
      Goto
<1>5. CASE Attach(p)
  BY <1>5 DEF RegionInv, TypeOK, FreshInv, FlockInv, SizeInv, FdInv, Attaching, Attach, Goto
<1>6. CASE MapFails(p)
  BY <1>6 DEF RegionInv, TypeOK, FreshInv, FlockInv, SizeInv, FdInv, Attaching, MapFails, Goto,
      objVars
<1>7. CASE Unflock(p)
  BY <1>7 DEF RegionInv, TypeOK, FreshInv, FlockInv, SizeInv, FdInv, Attaching, Unflock, Goto,
      objVars
<1>8. CASE Mismatch(p)
  BY <1>8 DEF RegionInv, TypeOK, FreshInv, FlockInv, SizeInv, FdInv, Attaching, Mismatch, Goto,
      objVars
<1>9. CASE Enter(p)
  <2>1. /\ pc[p] = "pin" /\ fd' = fd /\ initialized' = initialized
        /\ slots' = [slots EXCEPT ![fd[p]] = @ \cup {p}]
        /\ \A q \in Proc : pc'[q] \in {"sized", "attached", "pin"} => pc'[q] = pc[q]
    BY <1>9, EnterMoves DEF Enter
  <2> QED
    BY <2>1 DEF RegionInv, TypeOK, FreshInv
<1>10. CASE Pinned(p)
  BY <1>10 DEF RegionInv, TypeOK, FreshInv, FlockInv, SizeInv, FdInv, Attaching, Pinned, Goto
<1>11. CASE TimeOut(p)
  BY <1>11 DEF RegionInv, TypeOK, FreshInv, FlockInv, SizeInv, FdInv, Attaching, TimeOut, Expires
<1>12. CASE Unlink(p)
  BY <1>12 DEF RegionInv, TypeOK, FreshInv, FlockInv, SizeInv, FdInv, Attaching, Unlink, Goto,
      Unlinked, objVars
<1>13. CASE Kill(p)
  BY <1>13 DEF RegionInv, TypeOK, FreshInv, FlockInv, SizeInv, FdInv, Attaching, Kill, Ended
<1>14. CASE MakeLock(p)
  BY <1>14 DEF RegionInv, TypeOK, FreshInv, FlockInv, SizeInv, FdInv, Attaching, MakeLock
<1>15. CASE Store(p)
  BY <1>15 DEF RegionInv, TypeOK, FreshInv, FlockInv, SizeInv, FdInv, Attaching, Store
<1>16. CASE MissWakeup(p)
  BY <1>16 DEF RegionInv, TypeOK, FreshInv, FlockInv, SizeInv, FdInv, Attaching,
      MissWakeup, Goto, objVars
<1>17. CASE Loop(p)
  BY <1>17 DEF RegionInv, TypeOK, FreshInv, FlockInv, SizeInv, FdInv, Attaching, Loop, Goto
<1>18. CASE AbortLoops(p)
  BY <1>18 DEF RegionInv, TypeOK, FreshInv, FlockInv, SizeInv, FdInv, Attaching,
      AbortLoops, Expires
<1> QED
  BY <1>1, <1>2, <1>3, <1>4, <1>5, <1>6, <1>7, <1>8, <1>9, <1>10, <1>11, <1>12,
     <1>13, <1>14, <1>15, <1>16, <1>17, <1>18 DEF Step

\* The name of an object is taken away before the process ends.
LEMMA NameKept ==
  ASSUME RegionInv, NEW p \in Proc, Step(p) \/ Kill(p)
  PROVE  NameInv'
<1>1. CASE Open(p)
  BY <1>1 DEF RegionInv, TypeOK, NameInv, FdInv, Open, Goto, objVars
<1>2. CASE Flock(p)
  BY <1>2 DEF RegionInv, TypeOK, NameInv, FdInv, Flock, Goto, objVars
<1>3. CASE Truncate(p)
  BY <1>3 DEF RegionInv, TypeOK, NameInv, FdInv, Truncate, Goto, Sized
<1>4. CASE Initialize(p)
  BY <1>4 DEF RegionInv, TypeOK, NameInv, FdInv, Initialize, Goto
<1>5. CASE Attach(p)
  BY <1>5 DEF RegionInv, TypeOK, NameInv, FdInv, Attach, Goto
<1>6. CASE MapFails(p)
  BY <1>6 DEF RegionInv, TypeOK, NameInv, FdInv, MapFails, Goto, objVars
<1>7. CASE Unflock(p)
  BY <1>7 DEF RegionInv, TypeOK, NameInv, FdInv, Unflock, Goto, objVars
<1>8. CASE Mismatch(p)
  BY <1>8 DEF RegionInv, TypeOK, NameInv, FdInv, Mismatch, Goto, objVars
<1>9. CASE Enter(p)
  BY <1>9 DEF RegionInv, TypeOK, NameInv, FdInv, Enter, Served
<1>10. CASE Pinned(p)
  BY <1>10 DEF RegionInv, TypeOK, NameInv, FdInv, Pinned, Goto
<1>11. CASE TimeOut(p)
  BY <1>11 DEF RegionInv, TypeOK, NameInv, FdInv, TimeOut, Expires
<1>12. CASE Unlink(p)
  BY <1>12 DEF RegionInv, TypeOK, NameInv, FdInv, Unlink, Goto, Unlinked, objVars
<1>13. CASE Kill(p)
  BY <1>13 DEF RegionInv, TypeOK, NameInv, FdInv, Kill, Ended
<1>14. CASE MakeLock(p)
  BY <1>14 DEF RegionInv, TypeOK, NameInv, FdInv, MakeLock
<1>15. CASE Store(p)
  BY <1>15 DEF RegionInv, TypeOK, NameInv, FdInv, Store
<1>16. CASE MissWakeup(p)
  BY <1>16 DEF RegionInv, TypeOK, NameInv, FdInv, MissWakeup, Goto, objVars
<1>17. CASE Loop(p)
  BY <1>17 DEF RegionInv, TypeOK, NameInv, FdInv, Loop, Goto
<1>18. CASE AbortLoops(p)
  BY <1>18 DEF RegionInv, TypeOK, NameInv, FdInv, AbortLoops, Expires
<1> QED
  BY <1>1, <1>2, <1>3, <1>4, <1>5, <1>6, <1>7, <1>8, <1>9, <1>10, <1>11, <1>12,
     <1>13, <1>14, <1>15, <1>16, <1>17, <1>18 DEF Step

\* A process is past the flock() only because it initialized the region or attached to it.
LEMMA Newcomers ==
  ASSUME RegionInv, NEW p \in Proc, Step(p) \/ Kill(p)
  PROVE  \A q \in Proc : pc'[q] \in {"attached", "pin"} =>
           \/ pc[q] \in {"attached", "pin"}
           \/ q = p /\ (Initialize(p) \/ Attach(p))
<1> USE DEF Ended
<1>1. CASE Open(p)
  BY <1>1 DEF RegionInv, TypeOK, Open, Goto, objVars
<1>2. CASE Flock(p)
  BY <1>2 DEF RegionInv, TypeOK, Flock, Goto, objVars
<1>3. CASE Truncate(p)
  BY <1>3 DEF RegionInv, TypeOK, Truncate, Goto, Sized
<1>4. CASE Initialize(p)
  BY <1>4 DEF RegionInv, TypeOK, Initialize, Goto
<1>5. CASE Attach(p)
  BY <1>5 DEF RegionInv, TypeOK, Attach, Goto
<1>6. CASE MapFails(p)
  BY <1>6 DEF RegionInv, TypeOK, MapFails, Goto, objVars
<1>7. CASE Unflock(p)
  BY <1>7 DEF RegionInv, TypeOK, Unflock, Goto, objVars
<1>8. CASE Mismatch(p)
  BY <1>8 DEF RegionInv, TypeOK, Mismatch, Goto, objVars
<1>9. CASE Enter(p)
  BY <1>9, EnterMoves
<1>10. CASE Pinned(p)
  BY <1>10 DEF RegionInv, TypeOK, Pinned, Goto
<1>11. CASE TimeOut(p)
  BY <1>11 DEF RegionInv, TypeOK, TimeOut, Expires
<1>12. CASE Unlink(p)
  BY <1>12 DEF RegionInv, TypeOK, Unlink, Goto, Unlinked, objVars
<1>13. CASE Kill(p)
  BY <1>13 DEF RegionInv, TypeOK, Kill, Ended
<1>14. CASE MakeLock(p)
  BY <1>14 DEF RegionInv, TypeOK, MakeLock
<1>15. CASE Store(p)
  BY <1>15 DEF RegionInv, TypeOK, Store
<1>16. CASE MissWakeup(p)
  BY <1>16 DEF RegionInv, TypeOK, MissWakeup, Goto, objVars
<1>17. CASE Loop(p)
  BY <1>17 DEF RegionInv, TypeOK, Loop, Goto
<1>18. CASE AbortLoops(p)
  BY <1>18 DEF RegionInv, TypeOK, AbortLoops, Expires
<1> QED
  BY <1>1, <1>2, <1>3, <1>4, <1>5, <1>6, <1>7, <1>8, <1>9, <1>10, <1>11, <1>12,
     <1>13, <1>14, <1>15, <1>16, <1>17, <1>18 DEF Step

\* A process takes its first step with shm_open().
LEMMA OpensFirst ==
  ASSUME RegionInv, NEW p \in Proc, Step(p) \/ Kill(p), pc[p] = "start"
  PROVE  Open(p)
BY DEF Step, Kill, Flock, Truncate, MakeLock, Store, Initialize, Attach, MapFails, Unflock,
       Mismatch, MissWakeup, Loop, Enter, Pinned, Expires, TimeOut, AbortLoops, Unlink, Goto

\* Whoever attaches to a region that is not initialized finds that somebody gave up.
LEMMA FirstKept ==
  ASSUME RegionInv, NEW p \in Proc, Step(p) \/ Kill(p)
  PROVE  InitializedFirst'
<1> SUFFICES ASSUME NEW r \in Proc, pc'[r] \in {"attached", "pin"}, fd'[r] \notin initialized'
             PROVE  \E q \in Proc : fd'[q] = fd'[r] /\ pc'[q] \in Ended \cup {"unlink"}
  BY DEF InitializedFirst
<1>1. initialized \subseteq initialized'
      /\ \A q \in Proc : /\ pc[q] # "start" => fd'[q] = fd[q]
                         /\ pc[q] \in Ended => pc'[q] = pc[q]
                         /\ pc[q] = "unlink" => pc'[q] \in Ended \cup {"unlink"}
  BY Progress
<1>2. \E q \in Proc : fd[q] = fd[r] /\ pc[q] \in Ended \cup {"unlink"} /\ pc[r] # "start"
  <2>1. CASE pc[r] \in {"attached", "pin"}
    BY <1>1, <2>1 DEF RegionInv, InitializedFirst
  <2>2. CASE r = p /\ Initialize(p)
    <3>1. fd[p] \in initialized' /\ fd'[p] = fd[p]
      BY <2>2 DEF Initialize
    <3> QED
      BY <2>2, <3>1
  <2>3. CASE r = p /\ Attach(p)
    <3>1. fd[p] \in sized /\ pc[p] = "flocked" /\ fd' = fd /\ initialized' = initialized
      BY <2>3 DEF Attach, Goto
    <3>2. PICK q \in Proc : fd[q] = fd[p] /\ pc[q] \in Ended \cup {"sized", "unlink"}
      BY <2>3, <3>1 DEF RegionInv, SizeInv
    <3>3. pc[q] # "sized"
      BY <3>1, <3>2 DEF RegionInv, FlockInv, Attaching
    <3> QED
      BY <2>3, <3>1, <3>2, <3>3
  <2> QED
    BY <2>1, <2>2, <2>3, Newcomers
<1>3. PICK q \in Proc : fd[q] = fd[r] /\ pc[q] \in Ended \cup {"unlink"} /\ pc[r] # "start"
  BY <1>2
<1>4. pc[q] # "start"
  BY <1>3 DEF Ended
<1>5. fd'[q] = fd'[r]
  BY <1>1, <1>3, <1>4
<1>6. pc'[q] \in Ended \cup {"unlink"}
  BY <1>1, <1>3
<1> QED
  BY <1>5, <1>6

\* A job opens its object when the jobs before it are over, and those of their processes
\* that ended in order have unlinked theirs.
LEMMA JobsKept ==
  ASSUME RegionInv, NEW p \in Proc, Step(p) \/ Kill(p)
  PROVE  JobsInv'
<1> SUFFICES ASSUME NEW q \in Proc, NEW r \in Proc, JobOf[q] < JobOf[r], pc'[r] # "start"
             PROVE  pc'[q] \in Ended /\ (fd'[q] = fd'[r] => pc'[q] = "killed")
  BY DEF JobsInv
<1>1. \A x \in Proc : /\ pc[x] # "start" => fd'[x] = fd[x]
                      /\ pc[x] \in Ended => pc'[x] = pc[x]
  BY Progress
<1>2. pc[q] \in Ended => pc[q] # "start"
  BY DEF Ended
<1>3. CASE pc[r] # "start"
  BY <1>1, <1>2, <1>3 DEF RegionInv, JobsInv
<1>4. CASE pc[r] = "start"
  <2>1. r = p
    BY <1>4, Progress
  <2>2. Open(p)
    BY <1>4, <2>1, OpensFirst
  <2>3. pc[q] \in Ended /\ fd'[p] = bound' /\ bound' \in {bound, objects + 1}
        /\ (bound = NoObj => bound' = objects + 1)
    BY <2>1, <2>2 DEF Open, RegionInv, TypeOK
  <2>4. fd[q] \in 1 .. objects /\ objects \in Nat
    BY <1>2, <2>3, ObjectsOpen
  <2>5. fd[q] = bound' => fd[q] = bound
    BY <2>3, <2>4 DEF NoObj
  <2>6. fd[q] = bound => pc[q] = "killed"
    BY <2>3 DEF RegionInv, NameInv, Ended
  <2> QED
    BY <1>1, <1>2, <2>1, <2>3, <2>5, <2>6
<1> QED
  BY <1>3, <1>4

\* A slot is taken where there is a count of the processes, and is kept.
LEMMA SlotsKept ==
  ASSUME RegionInv, NEW p \in Proc, Step(p) \/ Kill(p)
  PROVE  SlotInv'
<1>1. CASE Open(p)
  BY <1>1 DEF RegionInv, TypeOK, SlotInv, FdInv, Ended, Open, Goto, objVars
<1>2. CASE Flock(p)
  BY <1>2 DEF RegionInv, TypeOK, SlotInv, FdInv, Ended, Flock, Goto, objVars
<1>3. CASE Truncate(p)
  BY <1>3 DEF RegionInv, TypeOK, SlotInv, FdInv, Ended, Truncate, Goto, Sized
<1>4. CASE Initialize(p)
  BY <1>4 DEF RegionInv, TypeOK, SlotInv, FdInv, Ended, Initialize, Goto
<1>5. CASE Attach(p)
  BY <1>5 DEF RegionInv, TypeOK, SlotInv, FdInv, Ended, Attach, Goto
<1>6. CASE MapFails(p)
  BY <1>6 DEF RegionInv, TypeOK, SlotInv, FdInv, Ended, MapFails, Goto, objVars
<1>7. CASE Unflock(p)
  BY <1>7 DEF RegionInv, TypeOK, SlotInv, FdInv, Ended, Unflock, Goto, objVars
<1>8. CASE Mismatch(p)
  BY <1>8 DEF RegionInv, TypeOK, SlotInv, FdInv, Ended, Mismatch, Goto, objVars
<1>9. CASE Enter(p)
  <2> DEFINE o == fd[p]
  <2>1. /\ stores[o] >= 2 /\ fd' = fd /\ stores' = stores
        /\ slots' = [slots EXCEPT ![o] = @ \cup {p}]
    BY <1>9 DEF Enter
  <2>2. o \in Obj /\ pc[p] = "pin" /\ pc'[p] \in {"waiting", "turn"}
    BY <1>9, EnterMoves, ObjectsOpen
  <2>3. \A q \in Proc \ {p} : \/ pc'[q] = pc[q]
                              \/ q \in group[o] /\ pc[q] = "waiting" /\ pc'[q] = "turn"
    BY <1>9, EnterMoves
  <2>4. \A x \in Obj : \A q \in slots'[x] : q \in Proc /\ (q \in slots[x] \/ (q = p /\ x = o))
    BY <2>1, <2>2 DEF RegionInv, TypeOK
  <2>5. \A x \in Obj : \A q \in slots'[x] :
          /\ fd'[q] = x
          /\ stores'[x] >= 2
          /\ pc'[q] \in Ended \cup {"waiting", "turn", "stuck", "unlink"}
    <3> TAKE x \in Obj
    <3> TAKE q \in slots'[x]
    <3>1. CASE q = p /\ x = o
      BY <2>1, <2>2, <3>1
    <3>2. CASE q # p /\ q \in slots[x]
      BY <2>1, <2>3, <2>4, <3>2 DEF RegionInv, SlotInv
    <3>3. p \notin slots[x]
      BY <2>2 DEF RegionInv, SlotInv, Ended
    <3> QED
      BY <2>4, <3>1, <3>2, <3>3
  <2>6. \A x \in Obj : slots[x] \subseteq slots'[x]
    BY <2>1, <2>2 DEF RegionInv, TypeOK
  <2>7. p \in slots'[o]
    BY <2>1, <2>2 DEF RegionInv, TypeOK
  <2>8. \A q \in Proc : pc'[q] \in {"waiting", "turn"} => q \in slots'[fd'[q]]
    <3> SUFFICES ASSUME NEW q \in Proc, pc'[q] \in {"waiting", "turn"}, q # p
                 PROVE  q \in slots'[fd[q]]
      BY <2>1, <2>7
    <3>1. pc[q] \in {"waiting", "turn"}
      BY <2>3
    <3>2. q \in slots[fd[q]] /\ fd[q] \in Obj
      BY <3>1, ObjectsOpen DEF RegionInv, SlotInv
    <3> QED
      BY <2>6, <3>2
  <2>9. /\ \A x \in Obj : group'[x] \subseteq slots'[x]
        /\ \A x \in Obj : \A q \in group'[x] : pc'[q] \in {"waiting", "killed"}
    <3> DEFINE all == group[o] \cup {p}
    <3>1. group[o] \subseteq Proc /\ \A x \in Obj : group[x] \subseteq slots[x]
      BY <2>2 DEF RegionInv, TypeOK, SlotInv
    <3>2. CASE /\ pc' = [q \in Proc |-> IF q \in Served(all) THEN "turn"
                                        ELSE IF q = p THEN "waiting" ELSE pc[q]]
               /\ group' = [group EXCEPT ![o] = all \ Served(all)]
      <4>1. \A q \in Served(all) : q \in all
        BY DEF Served
      <4>2. \A x \in Obj : group'[x] = IF x = o THEN all \ Served(all) ELSE group[x]
        BY <2>2, <3>2 DEF RegionInv, TypeOK
      <4>3. \A x \in Obj : group'[x] \subseteq slots'[x]
        BY <2>6, <2>7, <3>1, <4>2
      <4>4. \A x \in Obj : \A q \in group[x] : /\ q \in Proc /\ pc[q] \in {"waiting", "killed"}
                                               /\ fd[q] = x
        BY <3>1 DEF RegionInv, SlotInv, TypeOK
      <4>5. ASSUME NEW x \in Obj, NEW q \in group'[x]
            PROVE  pc'[q] \in {"waiting", "killed"}
        <5>1. CASE x = o
          <6>1. q \in all /\ q \notin Served(all)
            BY <4>2, <4>5, <5>1
          <6>2. q \in Proc /\ (q = p \/ pc[q] \in {"waiting", "killed"})
            BY <4>4, <5>1, <6>1
          <6> HIDE DEF all
          <6> QED
            BY <3>2, <6>1, <6>2
        <5>2. CASE x # o
          <6>1. q \in group[x]
            BY <4>2, <4>5, <5>2
          <6>2. q \in Proc /\ q # p /\ fd[q] = x /\ pc[q] \in {"waiting", "killed"}
            BY <2>2, <4>4, <5>2, <6>1
          <6>3. q \notin group[o]
            BY <2>2, <4>4, <5>2, <6>2
          <6>4. q \notin Served(all)
            BY <4>1, <6>2, <6>3
          <6> HIDE DEF all
          <6> QED
            BY <3>2, <6>2, <6>4
        <5> QED
          BY <5>1, <5>2
      <4> QED
        BY <4>3, <4>5
    <3>3. CASE pc' = [pc EXCEPT ![p] = "waiting"] /\ group' = [group EXCEPT ![o] = all]
      BY <2>2, <2>6, <2>7, <3>1, <3>3 DEF RegionInv, TypeOK, SlotInv
    <3> QED
      BY <1>9, <3>2, <3>3 DEF Enter
  <2> QED
    BY <2>5, <2>8, <2>9 DEF SlotInv
<1>10. CASE Pinned(p)
  BY <1>10 DEF RegionInv, TypeOK, SlotInv, FdInv, Ended, Pinned, Goto
<1>11. CASE TimeOut(p)
  <2> DEFINE o == fd[p]
  <2>1. /\ pc' = [q \in Proc |-> IF q = p \/ (q \in group[o] /\ pc[q] = "waiting")
                                   THEN "unlink" ELSE pc[q]]
        /\ group' = [group EXCEPT ![o] = {}]
        /\ fd' = fd /\ slots' = slots /\ stores' = stores
        /\ pc[p] \in {"waiting", "turn"}
    BY <1>11 DEF TimeOut, Expires
  <2>2. o \in Obj
    BY <2>1, ObjectsOpen
  <2>3. \A x \in Obj : group'[x] = IF x = o THEN {} ELSE group[x]
    BY <2>1, <2>2 DEF RegionInv, TypeOK
  <2>4. \A x \in Obj : slots[x] \subseteq Proc /\ group[x] \subseteq Proc
    BY DEF RegionInv, TypeOK
  <2>5. \A q \in Proc : pc'[q] = pc[q] \/ (pc'[q] = "unlink" /\ fd[q] = o)
    BY <2>1, <2>2 DEF RegionInv, SlotInv
  <2> QED
    BY <2>1, <2>3, <2>4, <2>5 DEF RegionInv, SlotInv
<1>12. CASE Unlink(p)
  BY <1>12 DEF RegionInv, TypeOK, SlotInv, FdInv, Ended, Unlink, Goto, Unlinked, objVars
<1>13. CASE Kill(p)
  BY <1>13 DEF RegionInv, TypeOK, SlotInv, FdInv, Ended, Kill, Ended
<1>14. CASE MakeLock(p)
  <2>1. /\ pc[p] = "sized" /\ pc' = pc /\ fd' = fd /\ stores[fd[p]] = 0
        /\ stores' = [stores EXCEPT ![fd[p]] = 1]
        /\ slots' = [slots EXCEPT ![fd[p]] = {}] /\ group' = [group EXCEPT ![fd[p]] = {}]
    BY <1>14 DEF MakeLock
  <2>2. fd[p] \in Obj /\ slots[fd[p]] = {} /\ group[fd[p]] = {}
    BY <2>1, ObjectsOpen DEF RegionInv, FreshInv, SlotInv
  <2>3. slots' = slots /\ group' = group
    BY <2>1, <2>2 DEF RegionInv, TypeOK
  <2>4. \A o \in Obj : stores[o] >= 2 => stores'[o] >= 2
    BY <2>1, <2>2 DEF RegionInv, TypeOK
  <2> QED
    BY <2>1, <2>3, <2>4 DEF RegionInv, SlotInv, TypeOK
<1>15. CASE Store(p)
  BY <1>15 DEF RegionInv, TypeOK, SlotInv, FdInv, Ended, Store
<1>16. CASE MissWakeup(p)
  BY <1>16 DEF RegionInv, TypeOK, SlotInv, FdInv, Ended, MissWakeup, Goto, objVars
<1>17. CASE Loop(p)
  <2>1. /\ pc[p] = "pin" /\ pc' = [pc EXCEPT ![p] = "stuck"] /\ fd' = fd /\ stores' = stores
        /\ slots' = [slots EXCEPT ![fd[p]] = @ \cup {p}] /\ group' = group
        /\ \E k \in knot[fd[p]] : k < p
    BY <1>17 DEF Loop, Goto
  <2>2. fd[p] \in Obj /\ stores[fd[p]] >= 2
    BY <2>1, ObjectsOpen DEF RegionInv, KnotInv
  <2>3. \A q \in Proc : q # p => pc'[q] = pc[q]
    BY <2>1 DEF RegionInv, TypeOK
  <2>4. \A o \in Obj : p \notin slots[o] /\ p \notin group[o]
    BY <2>1 DEF RegionInv, SlotInv, Ended
  <2>5. \A o \in Obj : slots[o] \subseteq Proc /\ group[o] \subseteq Proc
    BY DEF RegionInv, TypeOK
  <2>6. \A o \in Obj : slots'[o] = IF o = fd[p] THEN slots[o] \cup {p} ELSE slots[o]
    BY <2>1, <2>2 DEF RegionInv, TypeOK
  <2>7. pc'[p] = "stuck"
    BY <2>1 DEF RegionInv, TypeOK
  <2>8. \A o \in Obj : \A q \in slots'[o] :
          /\ fd'[q] = o
          /\ stores'[o] >= 2
          /\ pc'[q] \in Ended \cup {"waiting", "turn", "stuck", "unlink"}
    BY <2>1, <2>2, <2>3, <2>5, <2>6, <2>7 DEF RegionInv, SlotInv
  <2>9. \A o \in Obj : group'[o] \subseteq slots'[o] /\ \A q \in group'[o] : pc'[q] \in {"waiting", "killed"}
    BY <2>1, <2>3, <2>4, <2>5, <2>6 DEF RegionInv, SlotInv
  <2>10. \A q \in Proc : pc'[q] \in {"waiting", "turn"} => q \in slots'[fd'[q]]
    BY <2>1, <2>3, <2>6, <2>7, ObjectsOpen DEF RegionInv, SlotInv
  <2> QED
    BY <2>8, <2>9, <2>10 DEF SlotInv
<1>18. CASE AbortLoops(p)
  <2>1. /\ pc' = [pc EXCEPT ![p] = "stuck"] /\ group' = [group EXCEPT ![fd[p]] = {}]
        /\ fd' = fd /\ slots' = slots /\ stores' = stores
        /\ pc[p] \in {"waiting", "turn"}
    BY <1>18 DEF AbortLoops, Expires
  <2>2. fd[p] \in Obj
    BY <2>1, ObjectsOpen
  <2>3. \A o \in Obj : group'[o] = IF o = fd[p] THEN {} ELSE group[o]
    BY <2>1, <2>2 DEF RegionInv, TypeOK
  <2>4. \A o \in Obj : slots[o] \subseteq Proc /\ group[o] \subseteq Proc
    BY DEF RegionInv, TypeOK
  <2>5. \A q \in Proc : pc'[q] = IF q = p THEN "stuck" ELSE pc[q]
    BY <2>1 DEF RegionInv, TypeOK
  <2>6. \A o \in Obj : p \in group[o] => o = fd[p]
    BY DEF RegionInv, SlotInv
  <2> QED
    BY <2>1, <2>3, <2>4, <2>5, <2>6 DEF RegionInv, SlotInv
<1> QED
  BY <1>1, <1>2, <1>3, <1>4, <1>5, <1>6, <1>7, <1>8, <1>9, <1>10, <1>11, <1>12,
     <1>13, <1>14, <1>15, <1>16, <1>17, <1>18 DEF Step

\* Nothing takes the count of the processes back.
LEMMA KnotKept ==
  ASSUME RegionInv, NEW p \in Proc, Step(p) \/ Kill(p)
  PROVE  KnotInv'
<1>1. CASE MakeLock(p) \/ Store(p)
  <2>1. fd[p] \in Obj
    BY <1>1, ObjectsOpen DEF MakeLock, Store
  <2> QED
    BY <1>1, <2>1 DEF MakeLock, Store, RegionInv, TypeOK, KnotInv
<1>2. CASE Enter(p)
  <2>1. fd[p] \in Obj /\ stores[fd[p]] >= 2 /\ stores' = stores
        /\ \E S : knot' = [knot EXCEPT ![fd[p]] = S]
    BY <1>2, ObjectsOpen DEF Enter
  <2> QED
    BY <2>1 DEF RegionInv, TypeOK, KnotInv
<1>3. CASE Open(p) \/ Flock(p) \/ Truncate(p) \/ Initialize(p) \/ Attach(p) \/ MapFails(p)
           \/ Unflock(p) \/ Mismatch(p) \/ MissWakeup(p) \/ Loop(p) \/ Pinned(p) \/ TimeOut(p)
           \/ AbortLoops(p) \/ Unlink(p) \/ Kill(p)
  <2>1. stores' = stores /\ knot' = knot
    BY <1>3 DEF Open, Flock, Truncate, Initialize, Attach, MapFails, Unflock, Mismatch,
                MissWakeup, Loop, Pinned, TimeOut, AbortLoops, Unlink, Kill, objVars
  <2> QED
    BY <2>1 DEF RegionInv, KnotInv
<1> QED
  BY <1>1, <1>2, <1>3 DEF Step

\* The number of processes that may still attach is right as long as nobody attaches.
LEMMA LeftShrinks ==
  ASSUME RegionInv, initialized' = initialized, left' = left,
         \A o \in initialized : Attached(o)' \subseteq Attached(o)
  PROVE  LeftInv'
<1> SUFFICES ASSUME NEW o \in initialized, NEW q \in Proc
             PROVE  left[o] + Cardinality(Attached(o)') <= Ppn(q)
  BY DEF LeftInv
<1> DEFINE S == Attached(o)
           T == Attached(o)'
<1>1. left[o] + Cardinality(S) <= Ppn(q) /\ T \subseteq S
  BY DEF RegionInv, LeftInv
<1>2. S \in SUBSET Proc /\ T \in SUBSET S
  BY <1>1 DEF Attached
<1> HIDE DEF S, T
<1>3. IsFiniteSet(S)
  BY <1>2, Counting
<1>4. Cardinality(T) <= Cardinality(S) /\ Cardinality(T) \in Nat /\ Cardinality(S) \in Nat
  BY <1>2, <1>3, FS_Subset, FS_CardinalityType
<1>5. left[o] \in Int /\ Ppn(q) \in Nat
  BY <1>2, JobSizes, ObjectsOpen DEF RegionInv, TypeOK
<1>6. left[o] + Cardinality(T) <= Ppn(q)
  BY <1>1, <1>4, <1>5
<1> QED
  BY <1>6 DEF T

\* Whoever attaches is counted, once.
LEMMA LeftKept ==
  ASSUME RegionInv, NEW p \in Proc, Step(p) \/ Kill(p)
  PROVE  LeftInv'
<1>1. CASE Open(p)
  <2>1. initialized' = initialized /\ left' = left
    BY <1>1 DEF Open, Goto, objVars
  <2>2. \A o \in initialized : Attached(o)' \subseteq Attached(o)
    BY <1>1, ObjectsOpen DEF RegionInv, TypeOK, SlotInv, FdInv, Attached, Open, Goto, objVars
  <2> QED
    BY <2>1, <2>2, LeftShrinks
<1>2. CASE Flock(p)
  <2>1. initialized' = initialized /\ left' = left
    BY <1>2 DEF Flock, Goto, objVars
  <2>2. \A o \in initialized : Attached(o)' \subseteq Attached(o)
    BY <1>2, ObjectsOpen DEF RegionInv, TypeOK, SlotInv, FdInv, Attached, Flock, Goto, objVars
  <2> QED
    BY <2>1, <2>2, LeftShrinks
<1>3. CASE Truncate(p)
  <2>1. initialized' = initialized /\ left' = left
    BY <1>3 DEF Truncate, Goto, Sized
  <2>2. \A o \in initialized : Attached(o)' \subseteq Attached(o)
    BY <1>3, ObjectsOpen DEF RegionInv, TypeOK, SlotInv, FdInv, Attached, Truncate, Goto, Sized
  <2> QED
    BY <2>1, <2>2, LeftShrinks
<1>4. CASE Initialize(p)
  <2>1. /\ initialized' = initialized \cup {fd[p]} /\ fd' = fd
        /\ slots' = slots
        /\ left' = [left EXCEPT ![fd[p]] = Ppn(p) - 1]
        /\ pc[p] = "sized" /\ pc' = [pc EXCEPT ![p] = "attached"]
    BY <1>4 DEF Initialize, Goto
  <2>2. fd[p] \in Obj /\ fd[p] \notin initialized /\ slots[fd[p]] = {}
    BY <2>1, ObjectsOpen DEF RegionInv, FreshInv
  <2>3. SUFFICES ASSUME NEW o \in initialized', NEW q \in Proc
                 PROVE  left'[o] + Cardinality(Attached(o)') <= Ppn(q)
    BY DEF LeftInv
  <2>4. left \in [Obj -> Int] /\ slots \in [Obj -> SUBSET Proc]
        /\ initialized \subseteq Obj /\ Ppn(q) \in Nat /\ Ppn(p) = Ppn(q)
    BY JobSizes, ObjectsOpen DEF RegionInv, TypeOK
  <2>5. CASE o = fd[p]
    <3>1. \A r \in Proc : fd[r] = o => r = p \/ pc'[r] \notin {"attached", "pin"}
      BY <2>1, <2>5 DEF RegionInv, TypeOK, FreshInv
    <3>2. slots'[o] = {} /\ left'[o] = Ppn(q) - 1
      BY <2>1, <2>2, <2>4, <2>5
    <3> DEFINE T == Attached(o)'
    <3>3. T \subseteq {p}
      BY <2>1, <3>1, <3>2 DEF Attached
    <3>4. IsFiniteSet({p}) /\ Cardinality({p}) = 1
      <4>1. Cardinality({} \cup {p}) = Cardinality({}) + 1
        <5>1. {} \in SUBSET Proc /\ p \notin {}
          OBVIOUS
        <5> HIDE DEF T
        <5> QED
          BY <5>1, Counting
      <4>2. {} \cup {p} = {p} /\ {p} \in SUBSET Proc
        OBVIOUS
      <4>3. Cardinality({p}) = 1
        BY <4>1, <4>2, FS_EmptySet
      <4> QED
        BY <4>2, <4>3, Counting
    <3> HIDE DEF T
    <3>5. Cardinality(T) <= 1 /\ Cardinality(T) \in Nat
      BY <3>3, <3>4, FS_Subset, FS_CardinalityType
    <3>6. left'[o] + Cardinality(T) <= Ppn(q)
      BY <2>4, <3>2, <3>5
    <3> QED
      BY <3>6 DEF T
  <2>6. CASE o # fd[p]
    <3>1. o \in initialized
      BY <2>1, <2>6
    <3>2. left'[o] = left[o] /\ slots'[o] = slots[o]
      BY <2>1, <2>4, <2>6, <3>1
    <3> DEFINE S == Attached(o)
               T == Attached(o)'
    <3>3. \A r \in Proc : r # p => pc'[r] = pc[r]
      BY <2>1 DEF RegionInv, TypeOK
    <3>4. T = S
      BY <2>1, <2>6, <3>2, <3>3 DEF Attached
    <3>5. left[o] + Cardinality(S) <= Ppn(q)
      BY <3>1 DEF RegionInv, LeftInv
    <3> HIDE DEF S, T
    <3>6. left'[o] + Cardinality(T) <= Ppn(q)
      BY <3>2, <3>4, <3>5
    <3> QED
      BY <3>6 DEF T
  <2> QED
    BY <2>5, <2>6
<1>5. CASE Attach(p)
  <2>1. /\ initialized' = initialized /\ slots' = slots /\ fd' = fd
        /\ left' = [left EXCEPT ![fd[p]] = @ - 1]
        /\ pc[p] = "flocked" /\ pc' = [pc EXCEPT ![p] = "attached"]
    BY <1>5 DEF Attach, Goto
  <2>2. SUFFICES ASSUME NEW o \in initialized, NEW q \in Proc
                 PROVE  left'[o] + Cardinality(Attached(o)') <= Ppn(q)
    BY <2>1 DEF LeftInv
  <2> DEFINE S == Attached(o)
             T == Attached(o)'
  <2>3. left[o] + Cardinality(S) <= Ppn(q)
    BY DEF RegionInv, LeftInv
  <2>4. S \in SUBSET Proc /\ T \in SUBSET Proc
    BY DEF Attached
  <2>5. left \in [Obj -> Int] /\ o \in Obj /\ Ppn(q) \in Nat
    BY JobSizes, ObjectsOpen DEF RegionInv, TypeOK
  <2>6. \A r \in Proc : r # p => pc'[r] = pc[r]
    BY <2>1 DEF RegionInv, TypeOK
  <2>7. T = IF fd[p] = o THEN S \cup {p} ELSE S
    <3>1. p \notin slots[o]
      BY <2>1, <2>5 DEF RegionInv, SlotInv, Ended
    <3>2. pc'[p] = "attached"
      BY <2>1 DEF RegionInv, TypeOK
    <3>3. \A r : r \in T <=> r \in Proc /\ (r \in slots[o] \/ (fd[r] = o /\ pc'[r] \in {"attached", "pin"}))
      BY <2>1 DEF Attached
    <3>4. \A r : r \in S <=> r \in Proc /\ (r \in slots[o] \/ (fd[r] = o /\ pc[r] \in {"attached", "pin"}))
      BY DEF Attached
    <3> HIDE DEF S, T
    <3>5. \A r : r \in T <=> (r \in S \/ (r = p /\ fd[p] = o))
      BY <2>1, <2>6, <3>1, <3>2, <3>3, <3>4
    <3> QED
      BY <3>5
  <2>8. p \notin S
    <3>1. p \notin slots[o]
      BY <2>1, <2>5 DEF RegionInv, SlotInv, Ended
    <3> QED
      BY <2>1, <3>1 DEF Attached
  <2>9. left'[o] = IF fd[p] = o THEN left[o] - 1 ELSE left[o]
    BY <2>1, <2>5
  <2> HIDE DEF S, T
  <2>10. Cardinality(S) \in Nat /\ Cardinality(S \cup {p}) = Cardinality(S) + 1
    BY <2>4, <2>8, Counting
  <2>11. left'[o] + Cardinality(T) <= Ppn(q)
    BY <2>3, <2>5, <2>7, <2>9, <2>10
  <2> QED
    BY <2>11 DEF T
<1>6. CASE MapFails(p)
  <2>1. initialized' = initialized /\ left' = left
    BY <1>6 DEF MapFails, Goto, objVars
  <2>2. \A o \in initialized : Attached(o)' \subseteq Attached(o)
    BY <1>6, ObjectsOpen DEF RegionInv, TypeOK, SlotInv, FdInv, Attached, MapFails, Goto, objVars
  <2> QED
    BY <2>1, <2>2, LeftShrinks
<1>7. CASE Unflock(p)
  <2>1. initialized' = initialized /\ left' = left
    BY <1>7 DEF Unflock, Goto, objVars
  <2>2. \A o \in initialized : Attached(o)' \subseteq Attached(o)
    BY <1>7, ObjectsOpen DEF RegionInv, TypeOK, SlotInv, FdInv, Attached, Unflock, Goto, objVars
  <2> QED
    BY <2>1, <2>2, LeftShrinks
<1>8. CASE Mismatch(p)
  <2>1. initialized' = initialized /\ left' = left
    BY <1>8 DEF Mismatch, Goto, objVars
  <2>2. \A o \in initialized : Attached(o)' \subseteq Attached(o)
    BY <1>8, ObjectsOpen DEF RegionInv, TypeOK, SlotInv, FdInv, Attached, Mismatch, Goto, objVars
  <2> QED
    BY <2>1, <2>2, LeftShrinks
<1>9. CASE Enter(p)
  <2>1. initialized' = initialized /\ left' = left /\ fd' = fd
        /\ slots' = [slots EXCEPT ![fd[p]] = @ \cup {p}]
    BY <1>9 DEF Enter
  <2>2. \A o \in initialized : \A q \in Proc : q \in slots'[o] =>
          q \in slots[o] \/ (q = p /\ o = fd[p])
    BY <2>1, ObjectsOpen DEF RegionInv, TypeOK
  <2>3. pc[p] = "pin" /\ \A q \in Proc : pc'[q] \in {"attached", "pin"} => pc'[q] = pc[q]
    BY <1>9, EnterMoves
  <2>4. \A o \in initialized : Attached(o)' \subseteq Attached(o)
    BY <2>1, <2>2, <2>3 DEF Attached
  <2> QED
    BY <2>1, <2>4, LeftShrinks
<1>10. CASE Pinned(p)
  <2>1. initialized' = initialized /\ left' = left
    BY <1>10 DEF Pinned, Goto
  <2>2. \A o \in initialized : Attached(o)' \subseteq Attached(o)
    BY <1>10, ObjectsOpen DEF RegionInv, TypeOK, SlotInv, FdInv, Attached, Pinned, Goto
  <2> QED
    BY <2>1, <2>2, LeftShrinks
<1>11. CASE TimeOut(p)
  <2>1. initialized' = initialized /\ left' = left
    BY <1>11 DEF TimeOut, Expires
  <2>2. \A o \in initialized : Attached(o)' \subseteq Attached(o)
    BY <1>11, ObjectsOpen DEF RegionInv, TypeOK, SlotInv, FdInv, Attached, TimeOut, Expires
  <2> QED
    BY <2>1, <2>2, LeftShrinks
<1>12. CASE Unlink(p)
  <2>1. initialized' = initialized /\ left' = left
    BY <1>12 DEF Unlink, Goto, Unlinked, objVars
  <2>2. \A o \in initialized : Attached(o)' \subseteq Attached(o)
    BY <1>12, ObjectsOpen DEF RegionInv, TypeOK, SlotInv, FdInv, Attached, Unlink, Goto,
        Unlinked, objVars
  <2> QED
    BY <2>1, <2>2, LeftShrinks
<1>13. CASE Kill(p)
  <2>1. initialized' = initialized /\ left' = left
    BY <1>13 DEF Kill, Ended
  <2>2. \A o \in initialized : Attached(o)' \subseteq Attached(o)
    BY <1>13, ObjectsOpen DEF RegionInv, TypeOK, SlotInv, FdInv, Attached, Kill, Ended
  <2> QED
    BY <2>1, <2>2, LeftShrinks
<1>14. CASE MakeLock(p)
  <2>1. /\ pc[p] = "sized" /\ pc' = pc /\ fd' = fd /\ initialized' = initialized
        /\ left' = [left EXCEPT ![fd[p]] = 0] /\ slots' = [slots EXCEPT ![fd[p]] = {}]
    BY <1>14 DEF MakeLock
  <2>2. fd[p] \notin initialized
    BY <2>1 DEF RegionInv, FreshInv
  <2>3. \A o \in initialized : o \in Obj /\ left'[o] = left[o] /\ slots'[o] = slots[o]
    BY <2>1, <2>2, ObjectsOpen DEF RegionInv, TypeOK
  <2>4. \A o \in initialized : Attached(o)' = Attached(o)
    BY <2>1, <2>3 DEF Attached
  <2> QED
    BY <2>1, <2>3, <2>4 DEF RegionInv, LeftInv
<1>15. CASE Store(p)
  <2>1. initialized' = initialized /\ left' = left
    BY <1>15 DEF Store
  <2>2. \A o \in initialized : Attached(o)' \subseteq Attached(o)
    BY <1>15, ObjectsOpen DEF RegionInv, TypeOK, SlotInv, FdInv, Attached, Store
  <2> QED
    BY <2>1, <2>2, LeftShrinks
<1>16. CASE MissWakeup(p)
  <2>1. initialized' = initialized /\ left' = left
    BY <1>16 DEF MissWakeup, Goto, objVars
  <2>2. \A o \in initialized : Attached(o)' \subseteq Attached(o)
    BY <1>16, ObjectsOpen DEF RegionInv, TypeOK, SlotInv, FdInv, Attached, MissWakeup,
        Goto, objVars
  <2> QED
    BY <2>1, <2>2, LeftShrinks
<1>17. CASE Loop(p)
  <2>1. initialized' = initialized /\ left' = left /\ fd' = fd
        /\ slots' = [slots EXCEPT ![fd[p]] = @ \cup {p}]
        /\ pc[p] = "pin" /\ pc' = [pc EXCEPT ![p] = "stuck"]
    BY <1>17 DEF Loop, Goto
  <2>2. \A o \in initialized : \A q \in Proc : q \in slots'[o] =>
          q \in slots[o] \/ (q = p /\ o = fd[p])
    BY <2>1, ObjectsOpen DEF RegionInv, TypeOK
  <2>3. \A q \in Proc : pc'[q] \in {"attached", "pin"} => pc'[q] = pc[q]
    BY <2>1 DEF RegionInv, TypeOK
  <2>4. \A o \in initialized : Attached(o)' \subseteq Attached(o)
    BY <2>1, <2>2, <2>3 DEF Attached
  <2> QED
    BY <2>1, <2>4, LeftShrinks
<1>18. CASE AbortLoops(p)
  <2>1. initialized' = initialized /\ left' = left
    BY <1>18 DEF AbortLoops, Expires
  <2>2. \A o \in initialized : Attached(o)' \subseteq Attached(o)
    BY <1>18, ObjectsOpen DEF RegionInv, TypeOK, SlotInv, FdInv, Attached, AbortLoops, Expires
  <2> QED
    BY <2>1, <2>2, LeftShrinks
<1> QED
  BY <1>1, <1>2, <1>3, <1>4, <1>5, <1>6, <1>7, <1>8, <1>9, <1>10, <1>11, <1>12,
     <1>13, <1>14, <1>15, <1>16, <1>17, <1>18 DEF Step

\* As long as nobody is killed, the last of a job that enters finds all the others in the
\* list, and nobody of another job.
LEMMA TurnKept ==
  ASSUME RegionInv, NEW p \in Proc, Step(p) \/ Kill(p)
  PROVE  TurnInv'
<1> SUFFICES ASSUME \A q \in Proc : pc'[q] # "killed"
             PROVE  /\ broken' = {}
                    /\ \A q \in Proc : q \in ok' \/ pc'[q] = "turn" => (Peers(q) \subseteq slots[fd[q]])'
  BY DEF TurnInv
<1>1. \A q \in Proc : pc[q] # "start" => fd'[q] = fd[q]
  BY Progress
<1>2. \A q \in Proc : pc[q] # "killed"
  BY Progress DEF Ended
<1>3. broken = {} /\ \A q \in Proc : q \in ok \/ pc[q] = "turn" => Peers(q) \subseteq slots[fd[q]]
  BY <1>2 DEF RegionInv, TurnInv
<1>4. \A q \in Proc : q \in ok \/ pc[q] = "turn" => fd[q] \in Obj /\ pc[q] # "start"
  BY ObjectsOpen DEF RegionInv, FdInv
<1>5. ASSUME broken' = broken,
             \A q \in Proc : q \in ok' \/ pc'[q] = "turn" => q \in ok \/ pc[q] = "turn",
             \A o \in Obj : slots[o] \subseteq slots'[o]
      PROVE  /\ broken' = {}
             /\ \A q \in Proc : q \in ok' \/ pc'[q] = "turn" => (Peers(q) \subseteq slots[fd[q]])'
  BY <1>1, <1>3, <1>4, <1>5 DEF Peers
<1>6. CASE MakeLock(p)
  <2>1. /\ pc[p] = "sized" /\ pc' = pc /\ broken' = broken /\ ok' = ok
        /\ slots' = [slots EXCEPT ![fd[p]] = {}]
    BY <1>6 DEF MakeLock
  <2>2. fd[p] \in Obj /\ slots[fd[p]] = {}
    BY <2>1, ObjectsOpen DEF RegionInv, FreshInv
  <2>3. slots' = slots
    BY <2>1, <2>2 DEF RegionInv, TypeOK
  <2> QED
    BY <1>5, <2>1, <2>3
<1>7. CASE Enter(p)
  <2> DEFINE o == fd[p]
             all == group[o] \cup {p}
  <2>1. o \in Obj /\ pc[p] = "pin" /\ ok' = ok
        /\ slots' = [slots EXCEPT ![o] = @ \cup {p}]
    BY <1>7, EnterMoves, ObjectsOpen DEF Enter
  <2>2. slots[o] \subseteq Proc /\ group[o] \subseteq slots[o] /\ slots \in [Obj -> SUBSET Proc]
    BY <2>1 DEF RegionInv, TypeOK, SlotInv
  <2>3. \A x \in Obj : slots[x] \subseteq slots'[x]
    BY <2>1, <2>2
  <2>4. all \subseteq slots'[o] /\ all \subseteq Proc
    BY <2>1, <2>2
  <2>5. Served(all) = all
    BY <1>2, <2>4 DEF Served
  <2>6. CASE Cardinality(all) >= Ppn(p) /\ o \notin broken
    <3>1. broken' = broken
      BY <1>7, <2>5, <2>6 DEF Enter
    <3>2. \A q \in all : fd[q] = o
      BY <2>1, <2>2 DEF RegionInv, SlotInv
    <3>3. \A q \in all : JobOf[q] = JobOf[p]
      <4> SUFFICES ASSUME NEW q \in all
                   PROVE  JobOf[q] = JobOf[p]
        OBVIOUS
      <4>1. JobOf[q] \in Nat /\ JobOf[p] \in Nat
        BY <2>4, JobAssumption
      <4>2. pc[p] # "start" /\ pc[q] # "start" /\ fd[q] = fd[p] /\ q \in Proc
        BY <2>1, <2>2, <2>4, <3>2 DEF RegionInv, FdInv, NoObj, Obj
      <4>3. ~ (JobOf[q] < JobOf[p]) /\ ~ (JobOf[p] < JobOf[q])
        BY <1>2, <4>2 DEF RegionInv, JobsInv
      <4> QED
        BY <4>1, <4>3
    <3>4. \A q \in all : all \subseteq Peers(q) /\ Peers(q) = Peers(p)
      BY <2>4, <3>3 DEF Peers
    <3>5. IsFiniteSet(Peers(p)) /\ Ppn(p) = Cardinality(Peers(p)) /\ Ppn(p) \in Nat
      BY JobSizes DEF Ppn
    <3>6. Cardinality(all) <= Cardinality(Peers(p)) /\ Cardinality(all) \in Nat
      BY <2>4, <3>4, <3>5, FS_Subset, Counting
    <3>7. all = Peers(p)
      BY <2>6, <3>4, <3>5, <3>6, FS_Subset
    <3>8. \A q \in Proc : pc'[q] = "turn" => pc[q] = "turn" \/ q \in all
      BY <1>7, EnterMoves
    <3>9. \A q \in all : Peers(q) \subseteq slots'[o] /\ fd'[q] = o
      BY <1>7, <2>4, <3>2, <3>4, <3>7 DEF Enter
    <3>10. \A q \in Proc : q \in ok' \/ pc'[q] = "turn" => Peers(q) \subseteq slots'[fd'[q]]
      BY <1>1, <1>3, <1>4, <2>1, <2>3, <3>8, <3>9
    <3> QED
      BY <1>3, <3>1, <3>10 DEF Peers
  <2>7. CASE ~ (Cardinality(all) >= Ppn(p)) \/ o \in broken
    <3>1. broken' = broken /\ pc' = [pc EXCEPT ![p] = "waiting"]
      BY <1>7, <2>7 DEF Enter
    <3>2. \A q \in Proc : pc'[q] = "turn" => pc[q] = "turn"
      BY <3>1 DEF RegionInv, TypeOK
    <3> QED
      BY <1>5, <2>1, <2>3, <3>1, <3>2, ObjectsOpen DEF RegionInv, TypeOK
  <2> QED
    BY <2>6, <2>7
<1>8. CASE Pinned(p)
  <2>1. pc[p] = "turn" /\ pc' = [pc EXCEPT ![p] = "unlink"] /\ ok' = ok \cup {p}
        /\ broken' = broken /\ slots' = slots
    BY <1>3, <1>8 DEF Pinned, Goto
  <2>2. \A q \in Proc : pc'[q] = "turn" => pc[q] = "turn"
    BY <2>1 DEF RegionInv, TypeOK
  <2> QED
    BY <1>5, <2>1, <2>2
<1>9. CASE TimeOut(p)
  <2>1. broken' = broken /\ ok' = ok /\ slots' = slots
        /\ \A q \in Proc : pc'[q] = "turn" => pc[q] = "turn"
    BY <1>9 DEF TimeOut, Expires
  <2> QED
    BY <1>5, <2>1
<1>10. CASE Kill(p)
  <2>1. pc'[p] = "killed"
    BY <1>10 DEF Kill, RegionInv, TypeOK
  <2> QED
    BY <2>1
<1>11. CASE Open(p) \/ Flock(p) \/ Truncate(p) \/ Store(p) \/ Initialize(p) \/ Attach(p)
            \/ MapFails(p) \/ Unflock(p) \/ Mismatch(p) \/ MissWakeup(p) \/ AbortLoops(p)
            \/ Unlink(p)
  <2>1. /\ broken' = broken /\ ok' = ok /\ slots' = slots
        /\ \A q \in Proc : pc'[q] = "turn" => pc[q] = "turn"
    BY <1>11 DEF Open, Flock, Truncate, Store, Initialize, Attach, MapFails, Unflock, Mismatch,
                 MissWakeup, AbortLoops, Unlink, Goto, objVars, RegionInv, TypeOK
  <2> QED
    BY <1>5, <2>1
<1>12. CASE Loop(p)
  <2>1. /\ pc[p] = "pin" /\ pc' = [pc EXCEPT ![p] = "stuck"] /\ broken' = broken /\ ok' = ok
        /\ slots' = [slots EXCEPT ![fd[p]] = @ \cup {p}]
    BY <1>12 DEF Loop, Goto
  <2>2. \A q \in Proc : pc'[q] = "turn" => pc[q] = "turn"
    BY <2>1 DEF RegionInv, TypeOK
  <2>3. \A o \in Obj : slots[o] \subseteq slots'[o]
    BY <2>1 DEF RegionInv, TypeOK
  <2> QED
    BY <1>5, <2>1, <2>2, <2>3
<1> QED
  BY <1>6, <1>7, <1>8, <1>9, <1>10, <1>11, <1>12 DEF Step

\* No step leaves the types.
LEMMA TypesKept ==
  ASSUME RegionInv, NEW p \in Proc, Step(p) \/ Kill(p)
  PROVE  TypeOK'
<1>1. CASE Open(p)
  <2>1. objects' <= Cardinality({q \in Proc : fd'[q] # NoObj})
    BY FdKept DEF FdInv
  <2>2. Cardinality({q \in Proc : fd'[q] # NoObj}) <= Cardinality(Proc)
        /\ Cardinality({q \in Proc : fd'[q] # NoObj}) \in Nat
    <3>1. {q \in Proc : fd'[q] # NoObj} \in SUBSET Proc
      OBVIOUS
    <3> QED
      BY <3>1, Counting
  <2>3. bound' \in 0 .. objects' /\ objects' \in {objects, objects + 1} /\ objects' \in Nat
        /\ objects \in Nat /\ objects <= objects' /\ Cardinality(Proc) \in Nat
    BY <1>1, ObjectsOpen DEF RegionInv, TypeOK, Open
  <2>4. objects' \in 0 .. Cardinality(Proc)
    BY <2>1, <2>2, <2>3
  <2>5. 1 .. objects \subseteq 1 .. objects' /\ 0 .. objects \subseteq 0 .. objects'
    BY <2>3
  <2>6. fd' \in [Proc -> 0 .. objects']
    BY <1>1, <2>3, <2>5 DEF RegionInv, TypeOK, Open
  <2>7. UNCHANGED << objVars, flocked, ok >> /\ pc' = [pc EXCEPT ![p] = "opened"]
    BY <1>1 DEF Open, Goto
  <2> QED
    BY <2>3, <2>4, <2>5, <2>6, <2>7 DEF RegionInv, TypeOK, objVars
<1>2. CASE Flock(p)
  BY <1>2, ObjectsOpen DEF RegionInv, TypeOK, Flock, Goto, objVars
<1>3. CASE Truncate(p)
  BY <1>3, ObjectsOpen DEF RegionInv, TypeOK, Truncate, Goto, Sized
<1>4. CASE Initialize(p)
  <2>1. pc[p] = "sized" /\ fd[p] \in sized /\ fd[p] \in Obj /\ Ppn(p) \in Nat
    BY <1>4, ObjectsOpen, JobSizes DEF Initialize, Goto, RegionInv, SizeInv
  <2>2. left' \in [Obj -> Int]
    BY <1>4, <2>1 DEF Initialize, RegionInv, TypeOK
  <2>3. initialized' \subseteq sized
    BY <1>4, <2>1 DEF Initialize, RegionInv, TypeOK
  <2> QED
    BY <1>4, <2>2, <2>3 DEF Initialize, Goto, RegionInv, TypeOK
<1>5. CASE Attach(p)
  BY <1>5, ObjectsOpen DEF RegionInv, TypeOK, Attach, Goto, SizeInv
<1>6. CASE MapFails(p)
  BY <1>6, ObjectsOpen DEF RegionInv, TypeOK, MapFails, Goto, objVars, Ended
<1>7. CASE Unflock(p)
  BY <1>7, ObjectsOpen DEF RegionInv, TypeOK, Unflock, Goto, objVars
<1>8. CASE Mismatch(p)
  BY <1>8, ObjectsOpen DEF RegionInv, TypeOK, Mismatch, Goto, objVars
<1>9. CASE Enter(p)
  <2>1. /\ fd[p] \in Obj /\ fd[p] \in sized /\ pc'[p] \in {"waiting", "turn"} /\ DOMAIN pc' = Proc
        /\ \A q \in Proc \ {p} : pc'[q] \in {pc[q], "turn"}
    BY <1>9, EnterMoves, ObjectsOpen DEF Enter, RegionInv, SizeInv
  <2>2. /\ slots' = [slots EXCEPT ![fd[p]] = @ \cup {p}]
        /\ broken' \in {broken, broken \cup {fd[p]}}
        /\ \E S \in SUBSET Proc : group' = [group EXCEPT ![fd[p]] = S]
        /\ \E S \in SUBSET Proc : knot' = [knot EXCEPT ![fd[p]] = S]
        /\ UNCHANGED << bound, objects, sized, stores, initialized, left, poisoned,
                        flocked, fd, ok >>
    <3>1. group[fd[p]] \cup {p} \in SUBSET Proc
      BY <2>1 DEF RegionInv, TypeOK
    <3>2. KnotWith(p) \in SUBSET Proc
      BY <2>1 DEF RegionInv, TypeOK, KnotWith
    <3> QED
      BY <1>9, <3>1, <3>2 DEF Enter
  <2>3. slots' \in [Obj -> SUBSET Proc] /\ group' \in [Obj -> SUBSET Proc]
        /\ knot' \in [Obj -> SUBSET Proc]
    BY <2>1, <2>2 DEF RegionInv, TypeOK
  <2>4. pc' \in [Proc -> Control]
    <3>1. \A q \in Proc : pc'[q] \in Control
      BY <2>1 DEF RegionInv, TypeOK, Control
    <3>2. pc' = [q \in Proc |-> pc'[q]]
      BY <1>9 DEF Enter, RegionInv, TypeOK
    <3> QED
      BY <3>1, <3>2
  <2> QED
    BY <2>1, <2>2, <2>3, <2>4 DEF RegionInv, TypeOK, Control
<1>10. CASE Pinned(p)
  BY <1>10, ObjectsOpen DEF RegionInv, TypeOK, Pinned, Goto
<1>11. CASE TimeOut(p)
  BY <1>11, ObjectsOpen DEF RegionInv, TypeOK, TimeOut, Expires, Ended
<1>12. CASE Unlink(p)
  <2>1. bound' = 0 /\ UNCHANGED << objects, objVars, flocked, fd, ok >>
    BY <1>12 DEF Unlink, Unlinked, NoObj
  <2>2. bound' \in 0 .. objects
    BY <2>1, ObjectsOpen
  <2>3. pc' \in [Proc -> Control]
    BY <1>12 DEF Unlink, Goto, RegionInv, TypeOK, Control, Ended
  <2> QED
    BY <2>1, <2>2, <2>3 DEF RegionInv, TypeOK, objVars, Control
<1>13. CASE Kill(p)
  <2>1. pc[p] = "turn" \/ pc[p] = "pin" => fd[p] \in sized
    BY DEF RegionInv, SizeInv
  <2>2. /\ pc' = [pc EXCEPT ![p] = "killed"]
        /\ flocked' = flocked \ {p}
        /\ broken' \in {broken, broken \cup {fd[p]}} /\ (broken' # broken => pc[p] = "turn")
        /\ poisoned' \in {poisoned, poisoned \cup {fd[p]}}
        /\ poisoned' # poisoned => pc[p] \in {"turn", "pin"}
        /\ UNCHANGED << bound, objects, sized, stores, initialized, left, slots, group,
                        knot, fd, ok >>
    BY <1>13 DEF Kill
  <2>3. broken' \subseteq sized' /\ poisoned' \subseteq sized'
    BY <2>1, <2>2 DEF RegionInv, TypeOK
  <2>4. pc' \in [Proc -> Control]
    BY <2>2 DEF RegionInv, TypeOK, Control, Ended
  <2> QED
    BY <2>2, <2>3, <2>4 DEF RegionInv, TypeOK, Control
<1>14. CASE MakeLock(p)
  <2>1. fd[p] \in Obj
    BY <1>14, ObjectsOpen DEF MakeLock
  <2>2. /\ stores' \in [Obj -> 0 .. 3] /\ left' \in [Obj -> Int] /\ knot' \in [Obj -> SUBSET Proc]
        /\ slots' \in [Obj -> SUBSET Proc] /\ group' \in [Obj -> SUBSET Proc]
    BY <1>14, <2>1 DEF RegionInv, TypeOK, MakeLock
  <2>3. UNCHANGED << bound, objects, sized, initialized, broken, poisoned, flocked, fd, ok, pc >>
    BY <1>14 DEF MakeLock
  <2> QED
    BY <2>2, <2>3 DEF RegionInv, TypeOK
<1>15. CASE Store(p)
  BY <1>15, ObjectsOpen DEF RegionInv, TypeOK, Store
<1>16. CASE MissWakeup(p)
  BY <1>16, ObjectsOpen DEF RegionInv, TypeOK, MissWakeup, Goto, objVars
<1>17. CASE Loop(p)
  <2>1. fd[p] \in Obj /\ fd[p] \in sized
    BY <1>17, ObjectsOpen DEF Loop, Goto, RegionInv, SizeInv
  <2> QED
    BY <1>17, <2>1 DEF RegionInv, TypeOK, Loop, Goto
<1>18. CASE AbortLoops(p)
  <2>1. fd[p] \in Obj /\ fd[p] \in sized
    BY <1>18, ObjectsOpen DEF AbortLoops, Expires, RegionInv, SizeInv
  <2> QED
    BY <1>18, <2>1 DEF RegionInv, TypeOK, AbortLoops
<1> QED
  BY <1>1, <1>2, <1>3, <1>4, <1>5, <1>6, <1>7, <1>8, <1>9, <1>10, <1>11, <1>12,
     <1>13, <1>14, <1>15, <1>16, <1>17, <1>18 DEF Step

\* Nobody has opened anything in the beginning.
LEMMA RegionInit == Init => RegionInv
<1> SUFFICES ASSUME Init
             PROVE  RegionInv
  OBVIOUS
<1>1. Cardinality(Proc) \in Nat
  BY JobAssumption, FS_CardinalityType
<1>2. TypeOK
  BY <1>1 DEF Init, TypeOK, NoObj
<1>3. {p \in Proc : fd[p] # NoObj} = {}
  BY DEF Init
<1>4. FdInv
  BY <1>3, FS_EmptySet DEF Init, FdInv
<1>5. FlockInv /\ SizeInv /\ FreshInv /\ InitializedFirst /\ NameInv /\ JobsInv
  BY DEF Init, FlockInv, SizeInv, FreshInv, InitializedFirst, NameInv, JobsInv, Attaching
<1>6. StoresInv /\ SlotInv /\ KnotInv /\ LeftInv /\ TurnInv
  BY DEF Init, StoresInv, SlotInv, KnotInv, LeftInv, TurnInv
<1> QED
  BY <1>2, <1>4, <1>5, <1>6 DEF RegionInv

\* Every step of a process, its death included, keeps all of it.
LEMMA RegionStep == RegionInv /\ [Next]_vars => RegionInv'
<1> SUFFICES ASSUME RegionInv, [Next]_vars
             PROVE  RegionInv'
  OBVIOUS
<1>1. ASSUME NEW p \in Proc, Step(p) \/ Kill(p)
      PROVE  RegionInv'
  BY <1>1, TypesKept, FlockKept, FdKept, SizeKept, StoresKept, FreshKept, FirstKept, NameKept,
     JobsKept, SlotsKept, KnotKept, LeftKept, TurnKept DEF RegionInv
<1>2. CASE UNCHANGED vars
  <2>1. TypeOK' /\ FlockInv' /\ FdInv' /\ SizeInv'
    BY <1>2 DEF RegionInv, TypeOK, FlockInv, FdInv, SizeInv, vars, objVars
  <2>2. FreshInv' /\ InitializedFirst' /\ NameInv' /\ JobsInv' /\ SlotInv'
    BY <1>2 DEF RegionInv, FreshInv, InitializedFirst, NameInv, JobsInv, SlotInv, vars, objVars
  <2>3. LeftInv' /\ StoresInv' /\ KnotInv'
    BY <1>2 DEF RegionInv, LeftInv, Attached, StoresInv, KnotInv, vars, objVars
  <2>4. TurnInv'
    BY <1>2 DEF RegionInv, TurnInv, vars, objVars
  <2> QED
    BY <2>1, <2>2, <2>3, <2>4 DEF RegionInv
<1> QED
  BY <1>1, <1>2 DEF Next

\* The invariant holds in every state.
LEMMA RegionInvariance == Spec => []RegionInv
BY RegionInit, RegionStep, PTL DEF Spec

-----------------------------------------------------------------------------
\* The processes of a job can be numbered.
LEMMA Numbering ==
  ASSUME NEW p \in Proc
  PROVE  \E b \in [Peers(p) -> 1 .. Ppn(p)] : \A q, r \in Peers(p) : b[q] = b[r] => q = r
<1>1. ExistsBijection(1 .. Ppn(p), Peers(p))
  BY JobSizes, FS_CardinalityType DEF Ppn
<1>2. ExistsBijection(Peers(p), 1 .. Ppn(p))
  BY <1>1, Fun_ExistsBijSymmetric
<1>3. PICK b : b \in Bijection(Peers(p), 1 .. Ppn(p))
  BY <1>2 DEF ExistsBijection
<1>4. b \in Injection(Peers(p), 1 .. Ppn(p))
  BY <1>3, Fun_BijectionProperties
<1> DEFINE S == Peers(p)
           T == 1 .. Ppn(p)
<1> HIDE DEF S, T
<1>5. b \in Injection(S, T)
  BY <1>4 DEF S, T
<1>6. b \in [S -> T] /\ \A q, r \in S : b[q] = b[r] => q = r
  BY <1>5, Fun_InjectionProperties
<1> QED
  BY <1>6 DEF S, T

\* Processes of some jobs are no more than the jobs times their size.
LEMMA JobsTimesSize ==
  ASSUME NEW S \in SUBSET Proc, NEW p \in S,
         NEW J, IsFiniteSet(J), \A q \in S : JobOf[q] \in J
  PROVE  Cardinality(S) <= Cardinality(J) * Ppn(p)
<1> DEFINE number(q) ==
             CHOOSE b \in [Peers(q) -> 1 .. Ppn(q)] : \A x, y \in Peers(q) : b[x] = b[y] => x = y
           h == [q \in S |-> << JobOf[q], number(q)[q] >>]
<1>1. \A q \in S : /\ number(q) \in [Peers(q) -> 1 .. Ppn(q)]
                   /\ \A x, y \in Peers(q) : number(q)[x] = number(q)[y] => x = y
  BY Numbering
<1> HIDE DEF number
<1>2. \A q \in S : q \in Peers(q) /\ Ppn(q) = Ppn(p)
  BY JobSizes
<1>3. \A q \in S : number(q)[q] \in 1 .. Ppn(p)
  BY <1>1, <1>2
<1>4. h \in [S -> J \X (1 .. Ppn(p))]
  BY <1>3
<1>5. ASSUME NEW q \in S, NEW r \in S, h[q] = h[r]
      PROVE  q = r
  <2>1. JobOf[q] = JobOf[r] /\ number(q)[q] = number(r)[r]
    BY <1>5
  <2>2. Peers(q) = Peers(r)
    BY <2>1 DEF Peers
  <2>3. number(q) = number(r)
    BY <2>2 DEF Ppn, number
  <2>4. q \in Peers(q) /\ r \in Peers(q) /\ number(q)[q] = number(q)[r]
    BY <1>2, <2>1, <2>2, <2>3
  <2> QED
    BY <1>1, <2>4
<1> HIDE DEF h
<1>6. h \in Injection(S, J \X (1 .. Ppn(p)))
  BY <1>4, <1>5, Fun_IsInj
<1>7. Ppn(p) \in Nat
  BY JobSizes
<1>8. IsFiniteSet(1 .. Ppn(p)) /\ Cardinality(1 .. Ppn(p)) = Ppn(p)
  BY <1>7, FS_Interval
<1>9. IsFiniteSet(J \X (1 .. Ppn(p))) /\ Cardinality(J \X (1 .. Ppn(p))) = Cardinality(J) * Ppn(p)
  BY <1>8, FS_Product
<1> QED
  BY <1>6, <1>9, FS_Injection

\* All jobs that share an object, but one, have lost a process in it.
LEMMA SlotsBounded == RegionInv => SlotsSuffice
<1> SUFFICES ASSUME RegionInv, NEW o \in Obj, NEW p \in slots[o]
             PROVE  LET killed == {JobOf[q] : q \in {r \in Proc : pc[r] = "killed"}}
                    IN  Cardinality(slots[o]) <= Ppn(p) * (1 + Cardinality(killed))
  BY DEF SlotsSuffice
<1> DEFINE S == slots[o]
           D == {r \in Proc : pc[r] = "killed"}
           K == {JobOf[q] : q \in D}
<1>1. S \in SUBSET Proc /\ p \in S /\ D \in SUBSET Proc
  BY DEF RegionInv, TypeOK
<1>2. IsFiniteSet(K)
  <2> DEFINE f == [q \in D |-> JobOf[q]]
  <2>1. f \in [D -> K] /\ \A k \in K : \E q \in D : f[q] = k
    OBVIOUS
  <2>2. IsFiniteSet(D)
    BY <1>1, Counting
  <2> HIDE DEF f, K, D
  <2>3. f \in Surjection(D, K)
    BY <2>1, Fun_IsSurj
  <2> QED
    BY <2>2, <2>3, FS_Surjection
<1>3. \A q \in S : fd[q] = o /\ q \in Proc /\ pc[q] # "start" /\ JobOf[q] \in Nat
  BY <1>1, JobAssumption DEF RegionInv, SlotInv, Ended
<1>4. \A q, r \in S : JobOf[q] < JobOf[r] => JobOf[q] \in K
  <2> SUFFICES ASSUME NEW q \in S, NEW r \in S, JobOf[q] < JobOf[r]
               PROVE  q \in D
    OBVIOUS
  <2>1. pc[q] = "killed"
    BY <1>3 DEF RegionInv, JobsInv
  <2> QED
    BY <1>3, <2>1
<1>5. \E j : \A q \in S : JobOf[q] \in K \cup {j}
  <2>1. CASE \A q \in S : JobOf[q] \in K
    BY <2>1
  <2>2. CASE \E q \in S : JobOf[q] \notin K
    <3>1. PICK r \in S : JobOf[r] \notin K
      BY <2>2
    <3>2. \A q \in S : JobOf[q] \in K \/ JobOf[q] = JobOf[r]
      BY <1>3, <1>4, <3>1
    <3> QED
      BY <3>2
  <2> QED
    BY <2>1, <2>2
<1>6. PICK j : \A q \in S : JobOf[q] \in K \cup {j}
  BY <1>5
<1> HIDE DEF S, D, K
<1>7. IsFiniteSet(K \cup {j}) /\ Cardinality(K \cup {j}) <= Cardinality(K) + 1
      /\ Cardinality(K \cup {j}) \in Nat /\ Cardinality(K) \in Nat
  <2>1. IsFiniteSet(K \cup {j})
        /\ Cardinality(K \cup {j}) = IF j \in K THEN Cardinality(K) ELSE Cardinality(K) + 1
    BY <1>2, FS_AddElement
  <2>2. Cardinality(K \cup {j}) \in Nat /\ Cardinality(K) \in Nat
    BY <1>2, <2>1, FS_CardinalityType
  <2> QED
    BY <2>1, <2>2
<1>8. Cardinality(S) <= Cardinality(K \cup {j}) * Ppn(p)
  BY <1>1, <1>6, <1>7, JobsTimesSize
<1>9. Ppn(p) \in Nat /\ Cardinality(S) \in Nat
  BY <1>1, JobSizes, Counting
<1>10. ASSUME NEW n \in Nat, NEW a \in Nat, NEW k \in Nat, a <= k + 1
       PROVE  a * n <= n * (1 + k)
  <2> DEFINE d == k + 1 - a
  <2>1. d \in Nat /\ 1 + k = a + d
    BY <1>10
  <2> HIDE DEF d
  <2>2. n * (a + d) = a * n + d * n /\ d * n >= 0 /\ a * n \in Int /\ d * n \in Int
    BY <2>1
  <2> QED
    BY <2>1, <2>2
<1>11. Cardinality(S) <= Ppn(p) * (1 + Cardinality(K))
  BY <1>7, <1>8, <1>9, <1>10
<1> QED
  BY <1>11 DEF S, K, D

\* If nobody is killed, whoever is pinned has its whole job in its object.
LEMMA WholeJob == RegionInv => WaitsUnlessKilled
<1> SUFFICES ASSUME RegionInv, \A q \in Proc : pc[q] # "killed",
                    NEW p \in ok, NEW q \in Peers(p)
             PROVE  fd[q] = fd[p] /\ left[fd[p]] <= 0
  BY DEF WaitsUnlessKilled, WaitsForAll, Together
<1> DEFINE o == fd[p]
<1>1. p \in Proc /\ o \in Obj
  BY ObjectsOpen DEF RegionInv, TypeOK, FdInv
<1>2. Peers(p) \subseteq slots[o] /\ p \in Peers(p)
  BY <1>1, JobSizes DEF RegionInv, TurnInv
<1>3. fd[q] = o /\ o \in initialized
  <2>1. p \in slots[o] /\ fd[q] = o /\ stores[o] > 0
    BY <1>1, <1>2 DEF RegionInv, TypeOK, SlotInv
  <2>2. \A r \in Proc : fd[r] = o => pc[r] # "sized"
    BY <2>1 DEF RegionInv, FreshInv
  <2> QED
    BY <1>1, <2>1, <2>2 DEF RegionInv, StoresInv
<1>4. left[o] + Cardinality(Attached(o)) <= Ppn(p)
  BY <1>1, <1>3 DEF RegionInv, LeftInv
<1>5. Peers(p) \subseteq Attached(o) /\ Attached(o) \in SUBSET Proc
  BY <1>1, <1>2, JobSizes DEF Attached
<1>6. IsFiniteSet(Attached(o)) /\ Cardinality(Attached(o)) \in Nat
  BY <1>5, Counting
<1>7. Ppn(p) <= Cardinality(Attached(o)) /\ Ppn(p) \in Nat
  BY <1>1, <1>5, <1>6, FS_Subset, JobSizes DEF Ppn
<1>8. left[o] \in Int
  BY <1>1 DEF RegionInv, TypeOK
<1> QED
  BY <1>3, <1>4, <1>6, <1>7, <1>8

\* The objects of any number of jobs keep their types: none is created that no process has
\* opened, and nothing is set up in one that has no size (1284-1355).
THEOREM RegionTypes == Spec => []TypeOK
<1>1. RegionInv => TypeOK
  BY DEF RegionInv
<1> QED
  BY <1>1, RegionInvariance, PTL

\* flock() keeps everyone out of a region that is not initialized yet: whoever got past it
\* nevertheless follows a process that gave up or died between ftruncate() and the
\* initialization (1284-1355).
THEOREM FirstInitializes == Spec => []InitializedFirst
<1>1. RegionInv => InitializedFirst
  BY DEF RegionInv
<1> QED
  BY <1>1, RegionInvariance, PTL

\* When all jobs are over, the name refers to an object only if everybody who used it was
\* killed: all others unlink it, on whichever path they end (1418, 1447).
THEOREM NameIsRemoved == Spec => []NothingLeft
<1>1. RegionInv => NothingLeft
  BY DEF RegionInv, NothingLeft, NameInv, Ended
<1> QED
  BY <1>1, RegionInvariance, PTL

\* As long as nobody is killed, a process is pinned only after its whole job has attached
\* to the same object, also after time-outs and failures of mmap() (1284-1447).
THEOREM PinnedTogether == Spec => []WaitsUnlessKilled
<1>1. RegionInv => WaitsUnlessKilled
  BY WholeJob
<1> QED
  BY <1>1, RegionInvariance, PTL

\* MAX_PROCESSES slots are enough for jobs of that size as long as nobody is killed, and
\* each job that loses a process costs a later one at most its own size in slots (813-822).
THEOREM SlotsAreEnough == Spec => []SlotsSuffice
<1>1. RegionInv => SlotsSuffice
  BY SlotsBounded
<1> QED
  BY <1>1, RegionInvariance, PTL
=============================================================================
