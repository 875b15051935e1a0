----------------------------- MODULE ShmRegion -----------------------------
(***************************************************************************)
(* The life of the shared memory object in main(): jobs of one parent      *)
(* process use, one after the other, the same name /mpipin.PPID.shm.  The  *)
(* first process to come creates the object and initializes the region in  *)
(* it under flock(), the others attach to it, and every process unlinks    *)
(* the name when it is pinned or gives up.                                 *)
(*                                                                         *)
(* pin_process() is abstracted to what PartExec shows of it: processes     *)
(* wait in the region until all are there and get the turn in the order of *)
(* their PIDs, or one of them times out and takes the others with it.  A   *)
(* process that dies stays in the list; what becomes of those that are     *)
(* still in the region, or enter it, when the turn has stopped at a dead   *)
(* process is left open.                                                   *)
(*                                                                         *)
(* A process can die between two stores of the initialization.  What it    *)
(* leaves is neither empty nor initialized, but it has a size, and is      *)
(* taken for an initialized region by the next process.                    *)
(***************************************************************************)
EXTENDS Integers, FiniteSets

CONSTANTS
  Proc,      \* the PIDs of all processes
  JobOf,     \* the number of the job of each process
  Faults,    \* the faults that may occur
  Faulty     \* the jobs that may meet with them

ASSUME JobAssumption ==
  /\ IsFiniteSet(Proc) /\ Proc \subseteq Nat
  /\ JobOf \in [Proc -> Nat]
  /\ Faults \subseteq {"slow", "map", "kill", "kill_locked"}
  /\ Faulty \subseteq Nat

\* Each process opens at most one object.
Obj   == 1 .. Cardinality(Proc)
NoObj == 0
Peers(p) == {q \in Proc : JobOf[q] = JobOf[p]}
Ppn(p)   == Cardinality(Peers(p))

\* All jobs ask for the same number of processes per node.
ASSUME SizeAssumption == \A p, q \in Proc : Ppn(p) = Ppn(q)

VARIABLES
  bound,         \* the object that the name refers to, or NoObj
  objects,       \* the number of objects created so far
  sized,         \* the objects that do not have size 0
  stores,        \* how far the initialization of each region has come, see MakeLock
  initialized,   \* the objects with an initialized region
  flocked,       \* the processes that hold the flock() of their object
  left,          \* nr_processes_left_in_init of each object
  slots,         \* the processes that have a slot of each region: none is ever given back
  group,         \* the processes in the list of each region, dead or alive
  knot,          \* the process, if any, that is linked to itself in the list of each region
  broken,        \* the objects in which the turn stopped at a dead process
  poisoned,      \* the objects whose mutex is held by a process that is dead or loops
  fd,            \* the object each process has opened
  ok,            \* the processes for which pin_process() has returned a rank
  pc

objVars == << sized, stores, initialized, left, slots, group, knot, broken, poisoned >>
vars == << bound, objects, objVars, flocked, fd, ok, pc >>

Init ==
  /\ bound = NoObj /\ objects = 0
  /\ sized = {} /\ initialized = {} /\ broken = {} /\ poisoned = {}
  /\ stores = [o \in Obj |-> 0] /\ left = [o \in Obj |-> 0]
  /\ slots = [o \in Obj |-> {}] /\ group = [o \in Obj |-> {}] /\ knot = [o \in Obj |-> {}]
  /\ flocked = {}
  /\ fd = [p \in Proc |-> NoObj]
  /\ ok = {}
  /\ pc = [p \in Proc |-> "start"]

Ended == {"exec", "exit", "killed"}

May(fault, p) == fault \in Faults /\ JobOf[p] \in Faulty

Goto(p, from, to) ==
  /\ pc[p] = from
  /\ pc' = [pc EXCEPT ![p] = to]

-----------------------------------------------------------------------------
\* shm_open(O_CREAT).  The parent starts a job when the one before is over.
Open(p) ==
  /\ Goto(p, "start", "opened")
  /\ \A q \in Proc : JobOf[q] < JobOf[p] => pc[q] \in Ended
  /\ bound' = IF bound = NoObj THEN objects + 1 ELSE bound
  /\ objects' = IF bound = NoObj THEN objects + 1 ELSE objects
  /\ fd' = [fd EXCEPT ![p] = bound']
  /\ UNCHANGED << objVars, flocked, ok >>

\* Slip: a shared lock.
LockShared(p) ==
  /\ Goto(p, "opened", "flocked")
  /\ flocked' = flocked \cup {p}
  /\ UNCHANGED << bound, objects, objVars, fd, ok >>

Flock(p) ==
  /\ Goto(p, "opened", "flocked")
  /\ \A q \in flocked : fd[q] # fd[p]
  /\ flocked' = flocked \cup {p}
  /\ UNCHANGED << bound, objects, objVars, fd, ok >>

\* Slip: the object stays empty.
StaysEmpty(p) == sized

Sized(p) == sized \cup {fd[p]}

\* fstat() shows an empty object: ftruncate().
Truncate(p) ==
  /\ Goto(p, "flocked", "sized")
  /\ fd[p] \notin sized
  /\ sized' = Sized(p)
  /\ UNCHANGED << bound, objects, stores, initialized, left, slots, group, knot, broken,
                  poisoned, flocked, fd, ok >>

\* The initialization, in the order of its stores.
\* 1: The region is cleared, and its mutex made one that processes can share.
MakeLock(p) ==
  /\ pc[p] = "sized" /\ stores[fd[p]] = 0
  /\ stores' = [stores EXCEPT ![fd[p]] = 1]
  /\ left' = [left EXCEPT ![fd[p]] = 0]
  /\ slots' = [slots EXCEPT ![fd[p]] = {}]
  /\ group' = [group EXCEPT ![fd[p]] = {}]
  /\ knot' = [knot EXCEPT ![fd[p]] = {}]
  /\ UNCHANGED << bound, objects, sized, initialized, broken, poisoned, flocked, fd, ok, pc >>

\* 2: nr_processes = -1.  3: first_process_ind = -1.
Store(p) ==
  /\ pc[p] = "sized" /\ stores[fd[p]] \in {1, 2}
  /\ stores' = [stores EXCEPT ![fd[p]] = @ + 1]
  /\ UNCHANGED << bound, objects, sized, initialized, left, slots, group, knot, broken,
                  poisoned, flocked, fd, ok, pc >>

\* And the rest.
Initialize(p) ==
  /\ Goto(p, "sized", "attached")
  /\ stores[fd[p]] = 3
  /\ initialized' = initialized \cup {fd[p]}
  /\ left' = [left EXCEPT ![fd[p]] = Ppn(p) - 1]
  /\ UNCHANGED << bound, objects, sized, stores, slots, group, knot, broken, poisoned,
                  flocked, fd, ok >>

\* An object of some size is taken for an initialized one.
Attach(p) ==
  /\ Goto(p, "flocked", "attached")
  /\ fd[p] \in sized
  /\ left' = [left EXCEPT ![fd[p]] = @ - 1]
  /\ UNCHANGED << bound, objects, sized, stores, initialized, slots, group, knot, broken,
                  poisoned, flocked, fd, ok >>

\* mmap() fails.
MapFails(p) ==
  /\ May("map", p)
  /\ \/ Goto(p, "sized", "unlink") /\ stores[fd[p]] = 0
     \/ Goto(p, "flocked", "unlink") /\ fd[p] \in sized
  /\ flocked' = flocked \ {p}
  /\ UNCHANGED << bound, objects, objVars, fd, ok >>

Unflock(p) ==
  /\ Goto(p, "attached", "pin")
  /\ flocked' = flocked \ {p}
  /\ UNCHANGED << bound, objects, objVars, fd, ok >>

-----------------------------------------------------------------------------
\* pin_process().

\* As long as nr_processes is 0, it is neither -1 nor what p was given.
Mismatch(p) ==
  /\ Goto(p, "pin", "unlink")
  /\ stores[fd[p]] < 2
  /\ fd[p] \notin poisoned
  /\ UNCHANGED << bound, objects, objVars, flocked, fd, ok >>

\* A mutex of zeros is one for the threads of a process: if another process holds it, p may
\* sleep and never be woken.
MissWakeup(p) ==
  /\ Goto(p, "pin", "stuck")
  /\ stores[fd[p]] = 0
  /\ \E q \in Proc \ {p} : fd[q] = fd[p] /\ pc[q] = "pin"
  /\ UNCHANGED << bound, objects, objVars, flocked, fd, ok >>

\* Insertion starts at first_process_ind.  That is 0 if the initialization has not come
\* to it, and then the first process, which is in slot 0, links to itself ...
KnotWith(p) ==
  IF stores[fd[p]] = 2 /\ slots[fd[p]] = {} THEN {p} ELSE knot[fd[p]]

\* ... and a walk that has to go past it never ends.  p holds the mutex meanwhile.
Loop(p) ==
  /\ Goto(p, "pin", "stuck")
  /\ fd[p] \notin poisoned
  /\ \E k \in knot[fd[p]] : k < p
  /\ slots' = [slots EXCEPT ![fd[p]] = @ \cup {p}]
  /\ poisoned' = poisoned \cup {fd[p]}
  /\ UNCHANGED << bound, objects, sized, stores, initialized, left, group, knot, broken,
                  flocked, fd, ok >>

\* The processes of a full list that get the turn before it comes to a dead one.
Served(all) == {q \in all : \A d \in all : d <= q => pc[d] # "killed"}

\* p registers; the last of the group lets the turn go round.
Enter(p) ==
  LET o == fd[p]
      all == group[o] \cup {p}
      full == Cardinality(all) >= Ppn(p)
  IN  /\ pc[p] = "pin"
      /\ stores[o] >= 2
      /\ o \notin poisoned
      /\ \A k \in knot[o] : p < k
      /\ \/ /\ full /\ o \notin broken
            /\ pc' = [q \in Proc |-> IF q \in Served(all) THEN "turn"
                                     ELSE IF q = p THEN "waiting" ELSE pc[q]]
            /\ group' = [group EXCEPT ![o] = all \ Served(all)]
            /\ broken' = IF Served(all) = all THEN broken ELSE broken \cup {o}
         \/ /\ ~full \/ o \in broken
            /\ pc' = [pc EXCEPT ![p] = "waiting"]
            /\ group' = [group EXCEPT ![o] = all]
            /\ UNCHANGED broken
      /\ slots' = [slots EXCEPT ![o] = @ \cup {p}]
      /\ knot' = [knot EXCEPT ![o] = KnotWith(p)]
      /\ UNCHANGED << bound, objects, sized, stores, initialized, left, poisoned,
                      flocked, fd, ok >>

\* p returns from pin_process() with its rank.
Pinned(p) ==
  /\ \/ Goto(p, "turn", "unlink")
     \/ Goto(p, "waiting", "unlink") /\ fd[p] \in broken
  /\ fd[p] \notin poisoned
  /\ ok' = ok \cup {p}
  /\ group' = [group EXCEPT ![fd[p]] = @ \ {p}]
  /\ UNCHANGED << bound, objects, sized, stores, initialized, left, slots, knot, broken,
                  poisoned, flocked, fd >>

\* Nobody is on the way to the region that p waits in.
Alone(p) ==
  \A q \in Peers(p) \ {p} :
    \/ pc[q] \in {"waiting", "turn", "unlink"} \cup Ended
    \/ fd[q] # NoObj /\ fd[q] # fd[p]
    \/ fd[q] = NoObj /\ bound # fd[p]

\* The wait of p is over.
Expires(p) ==
  /\ pc[p] \in {"waiting", "turn"}
  /\ fd[p] \notin poisoned
  /\ \/ pc[p] = "waiting" /\ (Alone(p) \/ May("slow", p))
     \/ fd[p] \in broken

\* All that wait with p are told to give up.
TimeOut(p) ==
  /\ Expires(p)
  /\ knot[fd[p]] = {}
  /\ pc' = [q \in Proc |-> IF q = p \/ (q \in group[fd[p]] /\ pc[q] = "waiting")
                             THEN "unlink" ELSE pc[q]]
  /\ group' = [group EXCEPT ![fd[p]] = {}]
  /\ UNCHANGED << bound, objects, sized, stores, initialized, left, slots, knot, broken,
                  poisoned, flocked, fd, ok >>

\* The list never gets empty, and p goes on telling the one that is linked to itself.
AbortLoops(p) ==
  /\ Expires(p)
  /\ knot[fd[p]] # {}
  /\ pc' = [pc EXCEPT ![p] = "stuck"]
  /\ group' = [group EXCEPT ![fd[p]] = {}]
  /\ poisoned' = poisoned \cup {fd[p]}
  /\ UNCHANGED << bound, objects, sized, stores, initialized, left, slots, knot, broken,
                  flocked, fd, ok >>

-----------------------------------------------------------------------------
\* Slip: only the processes that are pinned remove the name.
KeepOnError(p) == IF p \in ok THEN NoObj ELSE bound

Unlinked(p) == NoObj

\* shm_unlink() of whatever the name refers to by now; then exec or exit.
Unlink(p) ==
  /\ Goto(p, "unlink", IF p \in ok THEN "exec" ELSE "exit")
  /\ bound' = Unlinked(p)
  /\ UNCHANGED << objects, objVars, flocked, fd, ok >>

\* The kernel drops the flock() of a process that dies, but not the mutex.
Kill(p) ==
  /\ pc[p] \notin Ended \cup {"start"}
  /\ pc' = [pc EXCEPT ![p] = "killed"]
  /\ flocked' = flocked \ {p}
  /\ broken' = IF pc[p] = "turn" THEN broken \cup {fd[p]} ELSE broken
  /\ \/ /\ May("kill", p)
        /\ UNCHANGED poisoned
     \/ /\ May("kill_locked", p)
        /\ pc[p] \in {"pin", "turn"}
        /\ poisoned' = poisoned \cup {fd[p]}
  /\ UNCHANGED << bound, objects, sized, stores, initialized, left, slots, group, knot, fd, ok >>

Step(p) ==
  \/ Open(p) \/ Flock(p) \/ Truncate(p) \/ MakeLock(p) \/ Store(p) \/ Initialize(p)
  \/ Attach(p) \/ MapFails(p) \/ Unflock(p) \/ Mismatch(p) \/ MissWakeup(p) \/ Loop(p)
  \/ Enter(p) \/ Pinned(p) \/ TimeOut(p) \/ AbortLoops(p) \/ Unlink(p)

Next == \E p \in Proc : Step(p) \/ Kill(p)

\* Every live process keeps running.
Spec == Init /\ [][Next]_vars
FairSpec == Spec /\ \A p \in Proc : WF_vars(Step(p))
-----------------------------------------------------------------------------
TypeOK ==
  /\ objects \in 0 .. Cardinality(Proc) /\ bound \in 0 .. objects
  /\ sized \subseteq 1 .. objects /\ initialized \subseteq sized
  /\ broken \subseteq sized /\ poisoned \subseteq sized
  /\ stores \in [Obj -> 0 .. 3] /\ left \in [Obj -> Int]
  /\ slots \in [Obj -> SUBSET Proc] /\ group \in [Obj -> SUBSET Proc]
  /\ knot \in [Obj -> SUBSET Proc]
  /\ flocked \subseteq Proc /\ ok \subseteq Proc
  /\ fd \in [Proc -> 0 .. objects]
  /\ pc \in [Proc -> Ended \cup {"start", "opened", "flocked", "sized", "attached", "pin",
                                 "waiting", "turn", "stuck", "unlink"}]

\* "First process initializes shared memory variables" (1330), and no other: the flock()
\* keeps everyone out of a region that is not initialized yet, unless the process that
\* was to initialize it is gone (1284-1355).
InitializedFirst ==
  \A p \in Proc :
    pc[p] \in {"attached", "pin"} /\ fd[p] \notin initialized =>
      \E q \in Proc : fd[q] = fd[p] /\ pc[q] \in Ended \cup {"unlink"}

\* The name outlives its users only if all of them were killed: what is left when the jobs
\* are over is an object that nobody could unlink any more (1418, 1447).
NothingLeft ==
  (\A p \in Proc : pc[p] \in Ended) =>
    \A p \in Proc : fd[p] = bound => pc[p] = "killed"

Together(p) == \A q \in Peers(p) : fd[q] = fd[p] /\ left[fd[p]] <= 0

\* "We have the region, now wait for all processes and do the pin" (1411): a process that
\* is pinned shares its region with its whole job.
WaitsForAll == \A p \in ok : Together(p)

\* The same as long as no process is killed: a job that timed out, or could not map its
\* region, never gets in the way of the next (1284-1447).
WaitsUnlessKilled == (\A p \in Proc : pc[p] # "killed") => WaitsForAll

\* Slots are never given back, and nothing is done about a search for one that finds none
\* (813-822).  They suffice if there are as many as a job has processes, once more for
\* each job of which a process was killed: nobody else leaves a region to a later job.
SlotsSuffice ==
  LET killed == {JobOf[p] : p \in {q \in Proc : pc[q] = "killed"}}
  IN  \A o \in Obj : \A p \in slots[o] :
        Cardinality(slots[o]) <= Ppn(p) * (1 + Cardinality(killed))

\* A job after the next one after a faulty job runs: the next one may still find what
\* killed processes have left, but removes it.  The exceptions are a mutex that its holder
\* will never release, because it is dead or because its predecessor died between two stores
\* of the initialization, and a process that sleeps at the mutex of a region of which not
\* even the mutex was initialized (1330-1354, 1418, 1447).
Recovers ==
  \/ <>(\/ poisoned # {}
        \/ \A p \in Proc : {JobOf[p], JobOf[p] - 1} \cap Faulty = {} => pc[p] = "exec")
  \/ <>[](\E p \in Proc : pc[p] = "stuck")
=============================================================================
