------------------------------ MODULE PartExec ------------------------------
(***************************************************************************)
(* The shared memory region of mpipin (struct part_exec) and the protocol  *)
(* its processes run on it: main() creates or attaches to the region and   *)
(* the last process discovers the usable CPUs; pin_process() collects the  *)
(* processes of a node in a list ordered by PID, lets the first one        *)
(* partition the CPUs and passes the turn along the list, with a timeout   *)
(* that is meant to release everyone if a process never shows up.          *)
(*                                                                         *)
(* A process is its PID.  The process-shared mutex is the variable lock;   *)
(* what runs under it is cut at the points where the code takes, drops or  *)
(* waits for it, and at each iteration of its loops.                       *)
(***************************************************************************)
EXTENDS Integers, FiniteSets, FiniteSetsExt

CONSTANTS
  Proc,          \* PIDs of the processes that attach to this region
  Ppn,           \* Ppn[p] is what p was given as --processes-per-node
  MaxProcesses,  \* MAX_PROCESSES, the number of slots
  CPU,           \* the CPUs of the node
  StrayCpu,      \* the bit of cpus_available that processes[-1].ready overlaps
  Affinity,      \* Affinity[p] is the CPU mask p was started with
  Cpuset,        \* Cpuset[p] are the CPUs the kernel accepts for p
  Excluded,      \* Excluded[p] is what p was given as --exclude-cpus
  Faults,        \* the faults of the environment that may occur
  MaxKills       \* bound on the number of processes killed

ASSUME ProcAssumption ==
  /\ Proc \subseteq Nat \ {0}
  /\ IsFiniteSet(Proc)
  /\ Proc # {}
  /\ Cardinality(Proc) <= MaxProcesses

\* main() refuses a ppn below 2 or above MAX_PROCESSES.
ASSUME PpnAssumption ==
  /\ MaxProcesses \in Nat
  /\ Ppn \in [Proc -> 2..MaxProcesses]

\* A cpu_set_t has CPU_SETSIZE = 1024 = MAX_PROCESSES bits, the stray one included.
ASSUME CpuAssumption ==
  /\ CPU \subseteq Nat
  /\ IsFiniteSet(CPU)
  /\ StrayCpu \in Nat \ CPU
  /\ Cardinality(CPU \cup {StrayCpu}) <= MaxProcesses
  /\ Affinity \in [Proc -> SUBSET CPU]
  /\ Cpuset \in [Proc -> SUBSET CPU]
  /\ Excluded \in [Proc -> SUBSET CPU]

ASSUME FaultAssumption ==
  /\ Faults \subseteq {"timeout", "spurious", "topology", "memory", "kill"}
  /\ MaxKills \in Nat

Slot   == 0 .. MaxProcesses - 1
Nil    == -1                         \* end of the list, and "no slot"
NoProc == 0                          \* the mutex is free
CpuSet == SUBSET (CPU \cup {StrayCpu})

EINVAL    == -22
ENOMEM    == -12
ETIMEDOUT == -110

VARIABLES
  created,                    \* the shared memory object has its size and contents
  lock,                       \* pe->lock: its holder, or NoProc
  nr_processes, nr_processes_left, nr_processes_left_in_init, process_rank,
  cpus_available, cpus_to_assign, first_process_ind,
  pid, ready, timeout, next_process_ind,           \* pe->processes[...]
  affinities,
  \* local to each process:
  pc, my_i, i, prev_i, ret,
  mask                        \* its CPU affinity, kept by the kernel

groupVars == << nr_processes, nr_processes_left, process_rank >>
initVars  == << created, nr_processes_left_in_init, cpus_to_assign >>
listVars  == << first_process_ind, pid, ready, timeout, next_process_ind >>
cpuVars   == << cpus_available, affinities >>
walkVars  == << i, prev_i >>
vars == << initVars, groupVars, listVars, cpuVars, walkVars, lock, pc, my_i, ret, mask >>

-----------------------------------------------------------------------------
\* Sets of control points.

HasLock == { "register", "walk", "dispatch", "resume", "abort", "granted", "collect",
             "partition", "handoff", "bind", "unlock" }
InWait  == { "waiting", "signalled", "timedout" }
Ended   == { "pinned", "failed", "killed" }
Control == {"start", "lock"} \cup HasLock \cup InWait \cup Ended

\* The object is empty; what is said here of its fields is what Create leaves in them
\* or overwrites before anyone reads it.
Init ==
  /\ created = FALSE
  /\ lock = NoProc
  /\ nr_processes = -1 /\ nr_processes_left = -1 /\ nr_processes_left_in_init = 0
  /\ process_rank = 0
  /\ cpus_available = {} /\ cpus_to_assign = 0
  /\ first_process_ind = Nil
  /\ pid = [s \in Slot |-> 0]
  /\ ready = [s \in Slot |-> FALSE]
  /\ timeout = [s \in Slot |-> FALSE]
  /\ next_process_ind = [s \in Slot |-> Nil]
  /\ affinities = [r \in Slot |-> {}]
  /\ pc = [p \in Proc |-> "start"]
  /\ my_i = [p \in Proc |-> Nil]
  /\ i = [p \in Proc |-> Nil] /\ prev_i = [p \in Proc |-> Nil]
  /\ ret = [p \in Proc |-> 0]
  /\ mask = Affinity

Goto(p, from, to) ==
  /\ pc[p] = from
  /\ pc' = [pc EXCEPT ![p] = to]

\* Slip: the signal is forgotten.
GotoQuietly(p, s, to) == pc' = [pc EXCEPT ![p] = to]

\* pthread_cond_signal(&pe->processes[s].wait_cv) by p, which itself goes on at `to`:
\* the process that waits on slot s, if one still does, is woken.
SignalAndGoto(p, s, to) ==
  pc' = [q \in Proc |-> IF q = p THEN to
                        ELSE IF pc[q] = "waiting" /\ my_i[q] = s THEN "signalled"
                        ELSE pc[q]]

-----------------------------------------------------------------------------
\* main(): the part that runs under flock().

\* The first process finds the object empty and initializes it.
Create(p) ==
  /\ Goto(p, "start", "lock")
  /\ ~created
  /\ created' = TRUE
  /\ nr_processes_left_in_init' = Ppn[p] - 1
  /\ cpus_available' = Affinity[p]
  /\ UNCHANGED << cpus_to_assign, groupVars, listVars, affinities, walkVars, lock, my_i,
                  ret, mask >>

\* CPUs in nobody's mask that p, the last one, can be moved to.
Discovered(p, avail) == Cpuset[p] \ (Excluded[p] \cup avail)

\* Slip: the excluded CPUs that a peer was bound to are kept.
KeepExcluded(p, union) == union \cup Discovered(p, union)

AllAvailable(p, union) == (union \cup Discovered(p, union)) \ Excluded[p]

\* Every other process adds its own CPUs.
Attach(p) ==
  /\ Goto(p, "start", "lock")
  /\ created
  /\ nr_processes_left_in_init # 1
  /\ nr_processes_left_in_init' = nr_processes_left_in_init - 1
  /\ cpus_available' = cpus_available \cup Affinity[p]
  /\ UNCHANGED << created, lock, cpus_to_assign, groupVars, listVars, affinities, walkVars,
                  my_i, ret, mask >>

\* The last one, moreover, moves itself from CPU to CPU to find the usable ones, removes
\* the excluded ones and fixes everyone's share.
Discover(p) ==
  /\ Goto(p, "start", "lock")
  /\ created
  /\ nr_processes_left_in_init = 1
  /\ nr_processes_left_in_init' = 0
  /\ LET union == cpus_available \cup Affinity[p]
         found == Discovered(p, union)
     IN  /\ cpus_available' = AllAvailable(p, union)
         /\ mask' = [mask EXCEPT ![p] = IF found = {} THEN @ ELSE {Max(found)}]
  /\ cpus_to_assign' = Cardinality(cpus_available') \div Ppn[p]
  /\ UNCHANGED << created, lock, groupVars, listVars, affinities, walkVars, my_i, ret >>

-----------------------------------------------------------------------------
\* pin_process(): entering the list.

Lock(p) ==
  /\ Goto(p, "lock", "register")
  /\ lock = NoProc
  /\ lock' = p
  /\ UNCHANGED << initVars, groupVars, listVars, cpuVars, walkVars, my_i, ret, mask >>

\* Slip: the first process of a group does not count itself among those to wait for.
OthersOnly(p) ==
  IF nr_processes = -1
    THEN [nr |-> Ppn[p], left |-> Ppn[p] - 1]
    ELSE [nr |-> nr_processes, left |-> nr_processes_left]

\* The first process of a group says how many there are.
StartGroup(p) ==
  IF nr_processes = -1
    THEN [nr |-> Ppn[p], left |-> Ppn[p]]
    ELSE [nr |-> nr_processes, left |-> nr_processes_left]

Mismatch(p) ==
  /\ Goto(p, "register", "unlock")
  /\ StartGroup(p).nr # Ppn[p]
  /\ ret' = [ret EXCEPT ![p] = EINVAL]
  /\ UNCHANGED << initVars, groupVars, listVars, cpuVars, walkVars, lock, my_i, mask >>

FreeSlot == CHOOSE s \in Slot : pid[s] = 0 /\ \A t \in 0 .. s - 1 : pid[t] # 0

Register(p) ==
  /\ pc[p] = "register"
  /\ StartGroup(p).nr = Ppn[p]
  /\ nr_processes' = StartGroup(p).nr
  /\ nr_processes_left' = StartGroup(p).left - 1
  /\ LET s == FreeSlot
     IN  /\ my_i' = [my_i EXCEPT ![p] = s]
         /\ pid' = [pid EXCEPT ![s] = p]
         /\ ready' = [ready EXCEPT ![s] = FALSE]
         /\ timeout' = [timeout EXCEPT ![s] = FALSE]
         /\ next_process_ind' = [next_process_ind EXCEPT ![s] = Nil]
         /\ IF first_process_ind = Nil
              THEN /\ first_process_ind' = s
                   /\ pc' = [pc EXCEPT ![p] = "dispatch"]
                   /\ UNCHANGED walkVars
              ELSE /\ i' = [i EXCEPT ![p] = first_process_ind]
                   /\ prev_i' = [prev_i EXCEPT ![p] = Nil]
                   /\ pc' = [pc EXCEPT ![p] = "walk"]
                   /\ UNCHANGED first_process_ind
  /\ UNCHANGED << initVars, process_rank, cpuVars, lock, ret, mask >>

\* Slip: the comparison is the wrong way round.
SmallerPid(s, p) == pid[s] < p

LargerPid(s, p) == pid[s] > p

\* One iteration of the search for the last process with a smaller PID.
Walk(p) ==
  /\ pc[p] = "walk"
  /\ i[p] # Nil
  /\ ~LargerPid(i[p], p)
  /\ prev_i' = [prev_i EXCEPT ![p] = i[p]]
  /\ i' = [i EXCEPT ![p] = next_process_ind[i[p]]]
  /\ UNCHANGED << initVars, groupVars, listVars, cpuVars, lock, pc, my_i, ret, mask >>

\* Slip: the new item is not linked to what follows it.
InsertAndCut(p) ==
  /\ Goto(p, "walk", "dispatch")
  /\ i[p] # Nil => LargerPid(i[p], p)
  /\ IF prev_i[p] = Nil
       THEN /\ first_process_ind' = my_i[p]
            /\ UNCHANGED next_process_ind
       ELSE /\ next_process_ind' = [next_process_ind EXCEPT ![prev_i[p]] = my_i[p]]
            /\ UNCHANGED first_process_ind
  /\ i' = [i EXCEPT ![p] = Nil] /\ prev_i' = [prev_i EXCEPT ![p] = Nil]
  /\ UNCHANGED << initVars, groupVars, pid, ready, timeout, cpuVars, lock, my_i, ret, mask >>

Insert(p) ==
  /\ Goto(p, "walk", "dispatch")
  /\ i[p] # Nil => LargerPid(i[p], p)
  /\ IF prev_i[p] = Nil
       THEN /\ next_process_ind' = [next_process_ind EXCEPT ![my_i[p]] = first_process_ind]
            /\ first_process_ind' = my_i[p]
       ELSE /\ next_process_ind' = [next_process_ind EXCEPT
                 ![my_i[p]] = next_process_ind[prev_i[p]], ![prev_i[p]] = my_i[p]]
            /\ UNCHANGED first_process_ind
  /\ i' = [i EXCEPT ![p] = Nil] /\ prev_i' = [prev_i EXCEPT ![p] = Nil]
  /\ UNCHANGED << initVars, groupVars, pid, ready, timeout, cpuVars, lock, my_i, ret, mask >>

\* The last process of the group wakes the first of the list, which may be itself.
WakeFirst(p) ==
  /\ pc[p] = "dispatch"
  /\ nr_processes_left = 0
  /\ LET s == first_process_ind
         itself == s = my_i[p]
     IN  /\ first_process_ind' = next_process_ind[s]
         /\ ready' = [ready EXCEPT ![s] = TRUE]
         /\ SignalAndGoto(p, s, IF itself THEN "granted" ELSE "waiting")
         /\ lock' = IF itself THEN p ELSE NoProc
  /\ nr_processes_left' = nr_processes
  /\ process_rank' = 0
  /\ UNCHANGED << initVars, nr_processes, pid, timeout, next_process_ind, cpuVars,
                  walkVars, my_i, ret, mask >>

\* Everyone else blocks in pthread_cond_timedwait(), which drops the mutex.
Wait(p) ==
  /\ Goto(p, "dispatch", "waiting")
  /\ nr_processes_left # 0
  /\ lock' = NoProc
  /\ UNCHANGED << initVars, groupVars, listVars, cpuVars, walkVars, my_i, ret, mask >>

-----------------------------------------------------------------------------
\* pin_process(): woken up.

\* pthread_cond_timedwait() returns once it has the mutex back; a wait that timed out
\* reports so even if the process was signalled meanwhile.
Reacquire(p) ==
  /\ pc[p] \in {"signalled", "timedout"}
  /\ lock = NoProc
  /\ lock' = p
  /\ pc' = [pc EXCEPT ![p] = IF @ = "timedout" THEN "abort" ELSE "resume"]
  /\ UNCHANGED << initVars, groupVars, listVars, cpuVars, walkVars, my_i, ret, mask >>

Resume(p) ==
  /\ pc[p] = "resume"
  /\ IF ready[my_i[p]] /\ ~timeout[my_i[p]]
       THEN /\ pc' = [pc EXCEPT ![p] = "granted"]
            /\ UNCHANGED ret
       ELSE /\ pc' = [pc EXCEPT ![p] = "unlock"]
            /\ ret' = [ret EXCEPT ![p] = IF timeout[my_i[p]] THEN ETIMEDOUT ELSE EINVAL]
  /\ UNCHANGED << initVars, groupVars, listVars, cpuVars, walkVars, lock, my_i, mask >>

\* abort_all: one iteration of the loop that empties the list, telling all but itself.
AbortNext(p) ==
  /\ pc[p] = "abort"
  /\ first_process_ind # Nil
  /\ LET s == first_process_ind
     IN  /\ first_process_ind' = next_process_ind[s]
         /\ IF pid[s] = p
              THEN UNCHANGED << ready, timeout, pc >>
              ELSE /\ ready' = [ready EXCEPT ![s] = TRUE]
                   /\ timeout' = [timeout EXCEPT ![s] = TRUE]
                   /\ SignalAndGoto(p, s, "abort")
  /\ UNCHANGED << initVars, groupVars, pid, next_process_ind, cpuVars, walkVars, lock,
                  my_i, ret, mask >>

\* Slip: the region is left as if a group of none were under way.
ResetToZero == nr_processes' = 0

\* The next process to come starts a new group.
ResetGroup == nr_processes' = -1

AbortDone(p) ==
  /\ Goto(p, "abort", "unlock")
  /\ first_process_ind = Nil
  /\ ResetGroup
  /\ ret' = [ret EXCEPT ![p] = ETIMEDOUT]
  /\ UNCHANGED << initVars, nr_processes_left, process_rank, listVars, cpuVars, walkVars,
                  lock, my_i, mask >>

-----------------------------------------------------------------------------
\* pin_process(): having the turn.

\* Slip: the turn is not counted.
TakeTurnUncounted(p) ==
  /\ Goto(p, "granted", IF process_rank = 0 THEN "collect" ELSE "handoff")
  /\ UNCHANGED << initVars, groupVars, listVars, cpuVars, walkVars, lock, my_i, ret, mask >>

TakeTurn(p) ==
  /\ Goto(p, "granted", IF process_rank = 0 THEN "collect" ELSE "handoff")
  /\ nr_processes_left' = nr_processes_left - 1
  /\ UNCHANGED << initVars, nr_processes, process_rank, listVars, cpuVars, walkVars, lock,
                  my_i, ret, mask >>

\* collect_topology(), then the two scratch masks.  Without the topology the whole
\* group is aborted; without memory p leaves and tells nobody.
Collect(p) ==
  /\ pc[p] = "collect"
  /\ \/ /\ pc' = [pc EXCEPT ![p] = "partition"]
        /\ UNCHANGED ret
     \/ /\ "topology" \in Faults
        /\ pc' = [pc EXCEPT ![p] = "abort"]
        /\ UNCHANGED ret
     \/ /\ "memory" \in Faults
        /\ pc' = [pc EXCEPT ![p] = "unlock"]
        /\ ret' = [ret EXCEPT ![p] = ENOMEM]
  /\ UNCHANGED << initVars, groupVars, listVars, cpuVars, walkVars, lock, my_i, mask >>

\* Slip: one CPU too many.
ShareAndOne(avail) == Min({Cardinality(avail), cpus_to_assign + 1})

\* How many CPUs a rank gets out of `avail`: its first CPU is taken even when
\* cpus_to_assign is 0, and a search that finds none adds none.
Share(avail) == Min({Cardinality(avail), Max({1, cpus_to_assign})})

\* With no CPU found in one search, the next search has no topology to start from.
OutOfCpus == Cardinality(cpus_available) + 1 < cpus_to_assign

\* Nor has one that meets the stray bit: whether it does depends on the topology.
MeetsStray == cpus_to_assign > 1 /\ StrayCpu \in cpus_available

MayFail == OutOfCpus \/ MeetsStray

\* Slip: what was handed out stays available.
CommitNothing(cpus) == UNCHANGED cpus_available

Commit(cpus) == cpus_available' = cpus_available \ cpus

\* Which CPUs a rank gets depends on caches and NUMA nodes: here, any of the right number.
\* One step from the copy of cpus_available (974) to the commit (1067).  An Attach in between,
\* which only holds the flock(), may lose the CPUs it adds: what a group can be given then is
\* what it can be given if that process is bound to none of them.
PartitionRank(p) ==
  /\ pc[p] = "partition"
  /\ process_rank < nr_processes
  /\ ~OutOfCpus
  /\ \E cpus \in SUBSET cpus_available :
       /\ Cardinality(cpus) = Share(cpus_available)
       /\ Commit(cpus)
       /\ affinities' = [affinities EXCEPT ![process_rank] = cpus]
  /\ process_rank' = process_rank + 1
  /\ UNCHANGED << initVars, nr_processes, nr_processes_left, listVars, walkVars, lock, pc,
                  my_i, ret, mask >>

PartitionFails(p) ==
  /\ Goto(p, "partition", "unlock")
  /\ process_rank < nr_processes
  /\ MayFail
  /\ ret' = [ret EXCEPT ![p] = EINVAL]
  /\ UNCHANGED << initVars, groupVars, listVars, cpuVars, walkVars, lock, my_i, mask >>

PartitionDone(p) ==
  /\ Goto(p, "partition", "handoff")
  /\ process_rank >= nr_processes
  /\ process_rank' = 0
  /\ UNCHANGED << initVars, nr_processes, nr_processes_left, listVars, cpuVars, walkVars,
                  lock, my_i, ret, mask >>

\* The last one resets the region for the next group.
EndGroup(p) ==
  /\ Goto(p, "handoff", "bind")
  /\ nr_processes_left = 0
  /\ ResetGroup
  /\ cpus_available' = {}
  /\ UNCHANGED << initVars, nr_processes_left, process_rank, listVars, affinities, walkVars,
                  lock, my_i, ret, mask >>

\* The others wake the next in the list.  With an empty list the code reads and writes
\* processes[-1]: in the layout of the struct (x86_64 and aarch64 alike) its
\* next_process_ind is cpus_to_assign, its ready a bit of cpus_available and its
\* condition variable has no waiter.
WakeNext(p) ==
  /\ pc[p] = "handoff"
  /\ nr_processes_left # 0
  /\ IF first_process_ind # Nil
       THEN LET s == first_process_ind
            IN  /\ first_process_ind' = next_process_ind[s]
                /\ ready' = [ready EXCEPT ![s] = TRUE]
                /\ SignalAndGoto(p, s, "bind")
                /\ UNCHANGED cpus_available
       ELSE /\ first_process_ind' = cpus_to_assign
            /\ cpus_available' = cpus_available \cup {StrayCpu}
            /\ pc' = [pc EXCEPT ![p] = "bind"]
            /\ UNCHANGED ready
  /\ UNCHANGED << initVars, groupVars, pid, timeout, next_process_ind, affinities,
                  walkVars, lock, my_i, ret, mask >>

\* sched_setaffinity(): refused when no CPU of the set is allowed.  A process that is
\* refused has already passed the turn, and leaves process_rank as it is.
Bind(p) ==
  /\ Goto(p, "bind", "unlock")
  /\ LET cpus == affinities[process_rank] \cap Cpuset[p]
     IN  IF cpus # {}
           THEN /\ mask' = [mask EXCEPT ![p] = cpus]
                /\ ret' = [ret EXCEPT ![p] = process_rank]
                /\ process_rank' = process_rank + 1
           ELSE /\ ret' = [ret EXCEPT ![p] = EINVAL]
                /\ UNCHANGED << mask, process_rank >>
  /\ UNCHANGED << initVars, nr_processes, nr_processes_left, listVars, cpuVars, walkVars,
                  lock, my_i >>

\* Slip: an error path that leaves with the mutex.
UnlockUnlessError(p) ==
  /\ Goto(p, "unlock", IF ret[p] < 0 THEN "failed" ELSE "pinned")
  /\ lock' = IF ret[p] < 0 THEN lock ELSE NoProc
  /\ UNCHANGED << initVars, groupVars, listVars, cpuVars, walkVars, my_i, ret, mask >>

\* Back in main(): a rank leads to exec, an error to exit.
Unlock(p) ==
  /\ Goto(p, "unlock", IF ret[p] < 0 THEN "failed" ELSE "pinned")
  /\ lock' = NoProc
  /\ UNCHANGED << initVars, groupVars, listVars, cpuVars, walkVars, my_i, ret, mask >>

-----------------------------------------------------------------------------
\* The environment.

TimeOut(p) ==
  /\ "timeout" \in Faults
  /\ Goto(p, "waiting", "timedout")
  /\ UNCHANGED << initVars, groupVars, listVars, cpuVars, walkVars, lock, my_i, ret, mask >>

\* POSIX lets a wait return without a signal.
SpuriousWakeup(p) ==
  /\ "spurious" \in Faults
  /\ Goto(p, "waiting", "signalled")
  /\ UNCHANGED << initVars, groupVars, listVars, cpuVars, walkVars, lock, my_i, ret, mask >>

\* A killed process keeps the mutex it holds: the mutex is not a robust one.
Kill(p) ==
  /\ "kill" \in Faults
  /\ pc[p] \notin Ended
  /\ Cardinality({q \in Proc : pc[q] = "killed"}) < MaxKills
  /\ pc' = [pc EXCEPT ![p] = "killed"]
  /\ UNCHANGED << initVars, groupVars, listVars, cpuVars, walkVars, lock, my_i, ret, mask >>

-----------------------------------------------------------------------------
Step(p) ==
  \/ Create(p) \/ Attach(p) \/ Discover(p)
  \/ Lock(p) \/ Mismatch(p) \/ Register(p) \/ Walk(p) \/ Insert(p) \/ WakeFirst(p) \/ Wait(p)
  \/ Reacquire(p) \/ Resume(p) \/ AbortNext(p) \/ AbortDone(p)
  \/ TakeTurn(p) \/ Collect(p) \/ PartitionRank(p) \/ PartitionFails(p) \/ PartitionDone(p)
  \/ EndGroup(p) \/ WakeNext(p) \/ Bind(p) \/ Unlock(p)

AllEnded == \A p \in Proc : pc[p] \in Ended

Finished == AllEnded /\ UNCHANGED vars

Next ==
  \/ \E p \in Proc : Step(p) \/ TimeOut(p) \/ SpuriousWakeup(p) \/ Kill(p)
  \/ Finished

\* Every live process keeps running, and a deadline that is set is reached.
Fairness == \A p \in Proc : WF_vars(Step(p)) /\ WF_vars(TimeOut(p))

Spec == Init /\ [][Next]_vars
FairSpec == Spec /\ Fairness
-----------------------------------------------------------------------------
\* The type of every variable.
TypeOK ==
  /\ created \in BOOLEAN
  /\ lock \in Proc \cup {NoProc}
  /\ nr_processes \in {-1} \cup 2 .. MaxProcesses
  /\ nr_processes_left \in Int /\ nr_processes_left_in_init \in Int
  /\ process_rank \in Nat
  /\ cpus_available \in CpuSet /\ cpus_to_assign \in Slot
  /\ first_process_ind \in Slot \cup {Nil}
  /\ pid \in [Slot -> Proc \cup {0}]
  /\ ready \in [Slot -> BOOLEAN] /\ timeout \in [Slot -> BOOLEAN]
  /\ next_process_ind \in [Slot -> Slot \cup {Nil}]
  /\ affinities \in [Slot -> CpuSet]
  /\ pc \in [Proc -> Control]
  /\ my_i \in [Proc -> Slot \cup {Nil}]
  /\ i \in [Proc -> Slot \cup {Nil}] /\ prev_i \in [Proc -> Slot \cup {Nil}]
  /\ ret \in [Proc -> Int]
  /\ mask \in [Proc -> SUBSET CPU]

\* All processes belong to the one job the region is for.
OneJob == \A p \in Proc : Ppn[p] = Cardinality(Proc)

Pinned == {p \in Proc : pc[p] = "pinned"}

\* The slots reachable from first_process_ind (pin_process(), 838 and 902): those in every
\* set that has the first one and, with each slot, the next.
Queue ==
  {s \in Slot : \A T \in SUBSET Slot :
     {first_process_ind} \cup {next_process_ind[t] : t \in T} \subseteq T \cup {Nil} => s \in T}

\* Every link of the list leads to a larger PID, whatever was inserted, popped or
\* abandoned before: the list is in PID order and no walk along it, under the mutex,
\* goes round for ever (827-863, 902-916).
SortedList ==
  \A s \in Slot : next_process_ind[s] # Nil =>
                    /\ pid[s] # 0
                    /\ pid[s] < pid[next_process_ind[s]]

\* A process that is in its wait and was told nothing yet is still in the list, so the
\* next to pop or abort will come to it (831-863, 883-945).
NobodyLost ==
  lock = NoProc =>
    \A p \in Proc : (pc[p] \in InWait /\ ~ready[my_i[p]]) => my_i[p] \in Queue

\* "Otherwise wake up next process in list" (1085): there is one.
SomeoneToWake ==
  \A p \in Proc : (pc[p] = "handoff" /\ nr_processes_left # 0) => first_process_ind # Nil

\* Ranks follow PIDs: of two pinned processes the one with the smaller PID has the
\* smaller rank, so in particular no rank is given out twice (865-880, 1085-1115).
RanksFollowPids == \A p, q \in Pinned : p < q => ret[p] < ret[q]

\* The rank of a pinned process is its position in PID order among all processes of its
\* job, also if some of the others failed, died or timed out (865-880, 1085-1115).
RankIsPosition ==
  \A p \in Pinned : ret[p] = Cardinality({q \in Proc : q < p})

\* "First process does the partitioning" (949): first in PID order, and no other.
FirstPartitions == \A p \in Proc : pc[p] = "collect" => p = Min(Proc)

\* "Find the first unused CPU" (977) and "Commit unused cores to shared memory" (1066): no
\* CPU is given to two processes, whoever partitions and however often.  So it is if the
\* processes are one job.  A process of another group that attaches later puts CPUs back
\* that are in use (1358-1360).
DisjointPins == \A p, q \in Pinned : p # q => mask[p] \cap mask[q] = {}

\* Nobody partitions before the last process to attach has put together the CPU set and
\* the share of each process (1362-1402 against 950-1075), although attaching is ordered
\* by flock() and partitioning by the mutex.
PartitionAfterDiscovery ==
  \A p \in Proc : pc[p] \in {"granted", "collect", "partition", "handoff", "bind"} =>
                    nr_processes_left_in_init <= 0

\* The CPUs anybody may use, minus the excluded ones.
Usable ==
  (UNION {Affinity[p] \cup Cpuset[p] : p \in Proc}) \ (UNION {Excluded[p] : p \in Proc})

\* Who is pinned has its full share of the usable CPUs and no other CPU: masks that the
\* MPI runtime set per process before do not show, and excluded CPUs stay free
\* (1356-1402, 970-1070, 1098).
FairShare ==
  \A p \in Pinned :
    /\ mask[p] \subseteq Usable
    /\ Cardinality(mask[p]) = Max({1, Cardinality(Usable) \div Ppn[p]})

\* Every process of the job is pinned in the end.
AllPinned == <>(\A p \in Proc : pc[p] = "pinned")

\* With timeouts, lost wakeups, failures and kills, every process still returns from
\* pin_process(), unless one was killed while it held the mutex (889-925).
EveryoneReturns ==
  \A p \in Proc : <>(pc[p] \in Ended \/ (lock # NoProc /\ pc[lock] = "killed"))
=============================================================================
