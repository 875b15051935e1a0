---------------------------- MODULE PartExecProofs ----------------------------
(***************************************************************************)
(* The variables of PartExec keep their types, for any number of           *)
(* processes, CPUs and slots and any combination of faults; nobody         *)
(* partitions the CPUs before the last process has discovered them; and    *)
(* what the list and the turn guarantee the processes of one job, with any *)
(* timeouts, spurious wakeups, failures and kills: the list stays in PID   *)
(* order, ranks follow PIDs, no CPU is given to two processes, and the     *)
(* turn visits every process, until the group is aborted or a process      *)
(* leaves it.                                                              *)
(*                                                                         *)
(* TypeOK is not inductive by itself. The code indexes processes[] with    *)
(* my_i, first_process_ind and the result of its search for a free slot,   *)
(* so the proof needs that a process has a slot of its own once it is past *)
(* the search (SlotInv), that the list is not empty where its first item   *)
(* is used (FirstInv), and mutual exclusion (LockInv) to know that nobody  *)
(* else empties it in between.                                             *)
(*                                                                         *)
(* Discovery and partitioning are ordered by nothing direct: attaching is  *)
(* under flock(), the list under the mutex. What orders them is two        *)
(* counters, nr_processes_left_in_init and nr_processes_left, which the    *)
(* code keeps independently. The invariant relates both to sets of         *)
(* processes: those that have attached and those that have registered.     *)
(*                                                                         *)
(* The order of the list needs that the turn is with one process at a time *)
(* although it is passed by a flag, a wakeup and a mutex that are three    *)
(* different things (TurnInv); that as long as the group is not complete   *)
(* nobody has it (the part about Open); and that the list is sane until    *)
(* then, because what is left of it afterwards, the write to processes[-1] *)
(* included, nobody inserts into any more.                                 *)
(*                                                                         *)
(* The list skips nobody while a group gathers that nobody has left        *)
(* (GatherInv); a group that others were aborted out of never gets to wake *)
(* its first process, because its counter wants more processes than there  *)
(* are; so where the turn is, the list is that of the whole job, and its   *)
(* position and nr_processes_left are the same number (ChainInv). And      *)
(* whoever waits in it can be reached from its head, also when others have *)
(* left it (QueueInv).                                                     *)
(*                                                                         *)
(* At last, PartExec implements PinBarrier for one job of any size on any  *)
(* node.  A rank is a position in PID order because the turn visits        *)
(* everybody and who is visited is bound, or the group ends (PositionInv); *)
(* a share is a full one because the partitioning starts from the usable   *)
(* CPUs (SetInv), happens once, and never runs out of them (ShareInv).     *)
(* Both need each other: only who has a full share is sure to be bound,    *)
(* and only the first process in PID order partitions because process_rank *)
(* is the position of who has the turn.                                    *)
(***************************************************************************)
EXTENDS PartExecBarrier, Numbers, FiniteSetTheorems, TLAPS

-----------------------------------------------------------------------------
\* Max() of a finite set of naturals, the CPU that Discover ends on, is one of them.
LEMMA FiniteMax ==
  ASSUME NEW S, S \subseteq Nat, S # {}, IsFiniteSet(S)
  PROVE  Max(S) \in S
<1> DEFINE Above(x) == {y \in S : y > x}
           T == {Above(x) : x \in S}
<1>1. T \subseteq FiniteSubsetsOf(S)
  BY FS_FiniteSubsetsOfFinite
<1>2. T # {}
  OBVIOUS
<1>3. PICK U \in T : \A V \in T : ~ (<< V, U >> \in StrictSubsetOrdering(S))
  BY <1>1, <1>2, FS_StrictSubsetOrderingWellFounded, WFMin
<1>4. PICK x \in S : U = Above(x)
  BY <1>3
<1>5. ASSUME NEW y \in Above(x)
      PROVE  FALSE
  <2>1. y \in S /\ y > x /\ x \in Nat /\ y \in Nat
    BY <1>5
  <2>2. \A z \in Above(y) : z \in Nat /\ z \in Above(x)
    BY <2>1
  <2>3. y \notin Above(y)
    BY <2>1
  <2>4. Above(y) \in T
    BY <2>1
  <2>5. << Above(y), Above(x) >> \in StrictSubsetOrdering(S)
    BY <1>5, <2>2, <2>3 DEF StrictSubsetOrdering
  <2> QED
    BY <1>3, <1>4, <2>4, <2>5
<1>6. \A y \in S : y <= x
  BY <1>5
<1> QED
  BY <1>6 DEF Max

\* A share fits the type of cpus_to_assign, because main() wants two processes or more.
LEMMA HalfFits ==
  ASSUME NEW a \in Nat, NEW b \in Nat, NEW m \in Nat, a <= m, 2 <= b, b <= m
  PROVE  a \div b \in 0 .. m - 1
  OBVIOUS

\* No CPU mask has more than CPU_SETSIZE bits.
LEMMA CpusFit ==
  ASSUME NEW S \in SUBSET (CPU \cup {StrayCpu})
  PROVE  /\ Cardinality(S) \in Nat
         /\ Cardinality(S) <= MaxProcesses
<1>1. IsFiniteSet(CPU \cup {StrayCpu})
  BY CpuAssumption, FS_AddElement
<1>2. Cardinality(CPU \cup {StrayCpu}) \in Nat
  BY <1>1, FS_CardinalityType
<1>3. IsFiniteSet(S) /\ Cardinality(S) <= Cardinality(CPU \cup {StrayCpu})
  BY <1>1, FS_Subset
<1>4. Cardinality(S) \in Nat
  BY <1>3, FS_CardinalityType
<1> QED
  BY <1>2, <1>3, <1>4, CpuAssumption, PpnAssumption

-----------------------------------------------------------------------------
\* A process that runs under the mutex is its holder.
LockInv == \A p \in Proc : pc[p] \in HasLock => lock = p

\* A slot belongs to the process that is written in it, from the search on.
SlotInv ==
  /\ \A p \in Proc : my_i[p] # Nil => pid[my_i[p]] = p
  /\ \A s \in Slot : pid[s] # 0 => my_i[pid[s]] = s
  /\ \A p \in Proc : pc[p] \in {"start", "lock", "register"} => my_i[p] = Nil
  /\ \A p \in Proc : pc[p] \in (HasLock \ {"register", "unlock"}) \cup InWait =>
                        my_i[p] # Nil

\* Whoever has just entered the list finds it not empty.
FirstInv == \A p \in Proc : pc[p] \in {"walk", "dispatch"} => first_process_ind # Nil

TypeInv == TypeOK /\ LockInv /\ SlotInv /\ FirstInv

\* There are as many slots as processes can attach, so the search for an empty slot never
\* fails (pin_process(), 813-820, has no code for the case that it does).
LEMMA FreeSlotExists ==
  ASSUME TypeInv, NEW p \in Proc, my_i[p] = Nil
  PROVE  FreeSlot \in Slot /\ pid[FreeSlot] = 0
<1>1. \E s \in Slot : pid[s] = 0
  <2> SUFFICES ASSUME \A s \in Slot : pid[s] # 0
               PROVE  FALSE
    OBVIOUS
  <2>1. pid \in [Slot -> Proc \ {p}]
    BY DEF TypeInv, TypeOK, SlotInv, Slot, Nil
  <2>2. IsFiniteSet(Proc \ {p}) /\ Cardinality(Proc \ {p}) = Cardinality(Proc) - 1
    BY ProcAssumption, FS_RemoveElement
  <2>3. IsFiniteSet(Slot) /\ Cardinality(Slot) = MaxProcesses
    BY PpnAssumption, FS_Interval, FS_CardinalityType DEF Slot
  <2>4. Cardinality(Proc \ {p}) < Cardinality(Slot)
    BY <2>2, <2>3, ProcAssumption, PpnAssumption, FS_CardinalityType
  <2>5. PICK s \in Slot, t \in Slot : s # t /\ pid[s] = pid[t]
    BY <2>1, <2>2, <2>3, <2>4, FS_PigeonHole
  <2> QED
    BY <2>5 DEF TypeInv, SlotInv
<1>2. PICK s \in Slot : pid[s] = 0 /\ \A t \in Slot : pid[t] = 0 => s <= t
  <2> DEFINE S == {s \in Slot : pid[s] = 0}
  <2>1. S \subseteq Nat /\ S # {}
    BY <1>1 DEF Slot
  <2>2. PICK s \in S : \A t \in S : s <= t
    BY <2>1, NatMin
  <2> QED
    BY <2>2
<1>3. \A t \in 0 .. s - 1 : pid[t] # 0
  BY <1>2, PpnAssumption DEF Slot
<1> QED
  BY <1>2, <1>3 DEF FreeSlot

\* There are at least two slots.
LEMMA TwoSlots == MaxProcesses \in Nat /\ MaxProcesses >= 2
<1>1. PICK p \in Proc : Ppn[p] \in 2 .. MaxProcesses
  BY ProcAssumption, PpnAssumption
<1> QED
  BY <1>1, PpnAssumption

USE DEF Slot, Nil, NoProc, CpuSet, Control, HasLock, InWait, Ended, Goto,
        groupVars, initVars, listVars, cpuVars, walkVars, EINVAL, ENOMEM, ETIMEDOUT

\* The region as its first process finds it, or leaves it, is well typed.
LEMMA TypeInit == Init => TypeInv
<1> SUFFICES ASSUME Init
             PROVE  TypeInv
  OBVIOUS
<1>1. created \in BOOLEAN
  BY DEF Init
<1>2. /\ ready \in [Slot -> BOOLEAN]
      /\ timeout \in [Slot -> BOOLEAN]
  BY DEF Init
<1>3. TypeOK
  BY <1>1, <1>2, TwoSlots, CpuAssumption DEF Init, TypeOK
<1>4. LockInv /\ SlotInv /\ FirstInv
  BY ProcAssumption DEF Init, LockInv, SlotInv, FirstInv
<1> QED
  BY <1>3, <1>4 DEF TypeInv

\* Every step of a process or of its environment preserves the invariant.
LEMMA TypeStep == TypeInv /\ [Next]_vars => TypeInv'
<1> SUFFICES ASSUME TypeInv, [Next]_vars
             PROVE  TypeInv'
  OBVIOUS
<1>1. ASSUME NEW p \in Proc, Create(p)
      PROVE  TypeInv'
  <2>1. created' \in BOOLEAN
    BY <1>1 DEF Create
  <2>2. nr_processes_left_in_init' \in Int /\ cpus_available' \in CpuSet
    BY <1>1, PpnAssumption, CpuAssumption DEF Create
  <2>3. TypeOK'
    BY <1>1, <2>1, <2>2 DEF TypeInv, TypeOK, Create
  <2>4. LockInv' /\ SlotInv' /\ FirstInv'
    BY <1>1 DEF TypeInv, TypeOK, LockInv, SlotInv, FirstInv, Create
  <2> QED
    BY <2>3, <2>4 DEF TypeInv
<1>2. ASSUME NEW p \in Proc, Attach(p)
      PROVE  TypeInv'
  <2>1. created' \in BOOLEAN
    BY <1>2 DEF TypeInv, TypeOK, Attach
  <2>2. cpus_available' \in CpuSet
    BY <1>2, CpuAssumption DEF TypeInv, TypeOK, Attach
  <2>3. nr_processes_left_in_init' \in Int
    BY <1>2 DEF TypeInv, TypeOK, Attach
  <2>4. TypeOK'
    BY <1>2, <2>1, <2>2, <2>3 DEF TypeInv, TypeOK, Attach
  <2>5. LockInv' /\ SlotInv' /\ FirstInv'
    BY <1>2 DEF TypeInv, TypeOK, LockInv, SlotInv, FirstInv, Attach
  <2> QED
    BY <2>4, <2>5 DEF TypeInv
<1>3. ASSUME NEW p \in Proc, Discover(p)
      PROVE  TypeInv'
  <2> DEFINE union == cpus_available \cup Affinity[p]
             found == Discovered(p, union)
  <2>1. cpus_available' \in SUBSET (CPU \cup {StrayCpu})
    BY <1>3, CpuAssumption DEF TypeInv, TypeOK, Discover, AllAvailable, Discovered
  <2>2. cpus_to_assign' \in Slot
    <3>1. Cardinality(cpus_available') \in Nat /\ Cardinality(cpus_available') <= MaxProcesses
      BY <2>1, CpusFit
    <3>2. Cardinality(cpus_available') \div Ppn[p] \in Slot
      BY <3>1, TwoSlots, PpnAssumption, HalfFits
    <3> QED
      BY <1>3, <3>2 DEF Discover
  <2>3. found # {} => Max(found) \in CPU
    <3>1. found \subseteq CPU /\ CPU \subseteq Nat /\ IsFiniteSet(found)
      BY CpuAssumption, FS_Subset DEF Discovered
    <3> QED
      BY <3>1, FiniteMax
  <2>4. mask' \in [Proc -> SUBSET CPU]
    <3> HIDE DEF found
    <3>1. mask' = [mask EXCEPT ![p] = IF found = {} THEN mask[p] ELSE {Max(found)}]
      BY <1>3 DEF Discover, found, TypeInv, TypeOK
    <3> QED
      BY <2>3, <3>1 DEF TypeInv, TypeOK
  <2>5. created' \in BOOLEAN
    BY <1>3 DEF TypeInv, TypeOK, Discover
  <2>6. nr_processes_left_in_init' \in Int
    BY <1>3 DEF TypeInv, TypeOK, Discover
  <2>7. pc' \in [Proc -> Control]
    BY <1>3 DEF TypeInv, TypeOK, Discover
  <2>8. TypeOK'
    BY <1>3, <2>1, <2>2, <2>4, <2>5, <2>6, <2>7 DEF TypeInv, TypeOK, Discover
  <2>9. LockInv' /\ SlotInv' /\ FirstInv'
    BY <1>3 DEF TypeInv, TypeOK, LockInv, SlotInv, FirstInv, Discover
  <2> QED
    BY <2>8, <2>9 DEF TypeInv
<1>4. ASSUME NEW p \in Proc, Lock(p)
      PROVE  TypeInv'
  <2>1. TypeOK'
    BY <1>4 DEF TypeInv, TypeOK, SlotInv, FirstInv, Lock
  <2>2. LockInv'
    BY <1>4, ProcAssumption DEF TypeInv, TypeOK, LockInv, Lock
  <2>3. SlotInv'
    BY <1>4 DEF TypeInv, TypeOK, SlotInv, Lock
  <2>4. FirstInv'
    BY <1>4, ProcAssumption DEF TypeInv, TypeOK, LockInv, FirstInv, Lock
  <2> QED
    BY <2>1, <2>2, <2>3, <2>4 DEF TypeInv
<1>5. ASSUME NEW p \in Proc, Mismatch(p)
      PROVE  TypeInv'
  <2>1. TypeOK'
    BY <1>5 DEF TypeInv, TypeOK, SlotInv, FirstInv, Mismatch, StartGroup
  <2>2. LockInv' /\ SlotInv' /\ FirstInv'
    BY <1>5 DEF TypeInv, TypeOK, LockInv, SlotInv, FirstInv, Mismatch, StartGroup
  <2> QED
    BY <2>1, <2>2 DEF TypeInv
<1>6. ASSUME NEW p \in Proc, Register(p)
      PROVE  TypeInv'
  <2>1. my_i[p] = Nil
    BY <1>6 DEF TypeInv, SlotInv, Register
  <2>2. FreeSlot \in Slot /\ pid[FreeSlot] = 0
    BY <2>1, FreeSlotExists
  <2> DEFINE s == FreeSlot
  <2> HIDE DEF s
  <2>3. /\ StartGroup(p).nr \in 2 .. MaxProcesses
        /\ StartGroup(p).left \in Int
    <3>1. CASE nr_processes = -1
      BY <3>1, PpnAssumption DEF StartGroup
    <3>2. CASE nr_processes # -1
      BY <3>2 DEF StartGroup, TypeInv, TypeOK
    <3> QED
      BY <3>1, <3>2
  <2>4. /\ ready' \in [Slot -> BOOLEAN]
        /\ timeout' \in [Slot -> BOOLEAN]
    BY <1>6 DEF TypeInv, TypeOK, Register
  <2>5. pid' \in [Slot -> Proc \cup {0}]
    BY <1>6 DEF TypeInv, TypeOK, Register
  <2>6. next_process_ind' \in [Slot -> Slot \cup {Nil}]
    BY <1>6 DEF TypeInv, TypeOK, Register
  <2>7. /\ my_i' \in [Proc -> Slot \cup {Nil}]
        /\ i' \in [Proc -> Slot \cup {Nil}]
        /\ prev_i' \in [Proc -> Slot \cup {Nil}]
        /\ first_process_ind' \in Slot \cup {Nil}
    <3>1. /\ my_i' = [my_i EXCEPT ![p] = FreeSlot]
          /\ first_process_ind' \in {first_process_ind, FreeSlot}
          /\ i' \in {i, [i EXCEPT ![p] = first_process_ind]}
          /\ prev_i' \in {prev_i, [prev_i EXCEPT ![p] = Nil]}
      BY <1>6 DEF Register
    <3>2. /\ my_i \in [Proc -> Slot \cup {Nil}]
          /\ i \in [Proc -> Slot \cup {Nil}]
          /\ prev_i \in [Proc -> Slot \cup {Nil}]
          /\ first_process_ind \in Slot \cup {Nil}
      BY DEF TypeInv, TypeOK
    <3>3. my_i' \in [Proc -> Slot \cup {Nil}]
      BY <2>2, <3>1, <3>2
    <3>4. i' \in [Proc -> Slot \cup {Nil}] /\ prev_i' \in [Proc -> Slot \cup {Nil}]
      BY <3>1, <3>2
    <3>5. first_process_ind' \in Slot \cup {Nil}
      BY <2>2, <3>1, <3>2
    <3> QED
      BY <3>3, <3>4, <3>5
  <2>8. pc' \in [Proc -> Control]
    BY <1>6 DEF TypeInv, TypeOK, Register
  <2>9. nr_processes' \in 2..MaxProcesses /\ nr_processes_left' \in Int
    BY <1>6, <2>3 DEF TypeInv, TypeOK, Register
  <2>10. TypeOK'
    BY <1>6, <2>8, <2>9, <2>4, <2>5, <2>6, <2>7, <2>3 DEF TypeInv, TypeOK, Register
  <2>11. LockInv'
    BY <1>6 DEF TypeInv, TypeOK, LockInv, Register
  <2>12. SlotInv'
    BY <1>6, <2>1, <2>2, ProcAssumption DEF TypeInv, TypeOK, SlotInv, Register
  <2>13. FirstInv'
    BY <1>6, <2>2, PpnAssumption DEF TypeInv, TypeOK, LockInv, FirstInv, Register
  <2> QED
    BY <2>10, <2>11, <2>12, <2>13 DEF TypeInv
<1>7. ASSUME NEW p \in Proc, Walk(p)
      PROVE  TypeInv'
  <2>1. TypeOK'
    BY <1>7 DEF TypeInv, TypeOK, SlotInv, FirstInv, Walk, LargerPid
  <2>2. LockInv' /\ SlotInv' /\ FirstInv'
    BY <1>7 DEF TypeInv, TypeOK, LockInv, SlotInv, FirstInv, Walk, LargerPid
  <2> QED
    BY <2>1, <2>2 DEF TypeInv
<1>8. ASSUME NEW p \in Proc, Insert(p)
      PROVE  TypeInv'
  <2>1. my_i[p] \in Slot /\ prev_i[p] \in Slot \cup {Nil}
    BY <1>8 DEF TypeInv, TypeOK, SlotInv, Insert
  <2>2. next_process_ind' \in [Slot -> Slot \cup {Nil}]
    <3>1. CASE prev_i[p] = Nil
      BY <1>8, <2>1, <3>1 DEF TypeInv, TypeOK, Insert
    <3>2. CASE prev_i[p] # Nil
      BY <1>8, <2>1, <3>2 DEF TypeInv, TypeOK, Insert
    <3> QED
      BY <3>1, <3>2
  <2>3. TypeOK'
    BY <1>8, <2>1, <2>2 DEF TypeInv, TypeOK, Insert
  <2>4. LockInv' /\ SlotInv' /\ FirstInv'
    BY <1>8, <2>1 DEF TypeInv, TypeOK, LockInv, SlotInv, FirstInv, Insert
  <2> QED
    BY <2>3, <2>4 DEF TypeInv
<1>9. ASSUME NEW p \in Proc, WakeFirst(p)
      PROVE  TypeInv'
  <2>1. TypeOK'
    <3>1. first_process_ind \in Slot
      BY <1>9 DEF TypeInv, TypeOK, FirstInv, WakeFirst
    <3>2. pc' \in [Proc -> Control]
      BY <1>9 DEF TypeInv, TypeOK, WakeFirst, SignalAndGoto
    <3>3. /\ first_process_ind' \in Slot \cup {Nil}
          /\ ready' \in [Slot -> BOOLEAN]
          /\ lock' \in Proc \cup {NoProc}
          /\ nr_processes_left' \in Int
          /\ process_rank' \in Nat
      BY <1>9, <3>1 DEF TypeInv, TypeOK, WakeFirst
    <3> QED
      BY <1>9, <3>2, <3>3 DEF TypeInv, TypeOK, WakeFirst
  <2>2. LockInv' /\ SlotInv' /\ FirstInv'
    BY <1>9 DEF TypeInv, TypeOK, LockInv, SlotInv, FirstInv, WakeFirst, SignalAndGoto
  <2> QED
    BY <2>1, <2>2 DEF TypeInv
<1>10. ASSUME NEW p \in Proc, Wait(p)
      PROVE  TypeInv'
  <2>1. TypeOK'
    BY <1>10 DEF TypeInv, TypeOK, SlotInv, FirstInv, Wait
  <2>2. LockInv' /\ SlotInv' /\ FirstInv'
    BY <1>10 DEF TypeInv, TypeOK, LockInv, SlotInv, FirstInv, Wait
  <2> QED
    BY <2>1, <2>2 DEF TypeInv
<1>11. ASSUME NEW p \in Proc, Reacquire(p)
      PROVE  TypeInv'
  <2>1. TypeOK'
    BY <1>11 DEF TypeInv, TypeOK, SlotInv, FirstInv, Reacquire
  <2>2. LockInv'
    BY <1>11, ProcAssumption DEF TypeInv, TypeOK, LockInv, Reacquire
  <2>3. SlotInv'
    BY <1>11 DEF TypeInv, TypeOK, SlotInv, Reacquire
  <2>4. FirstInv'
    BY <1>11, ProcAssumption DEF TypeInv, TypeOK, LockInv, FirstInv, Reacquire
  <2> QED
    BY <2>1, <2>2, <2>3, <2>4 DEF TypeInv
<1>12. ASSUME NEW p \in Proc, Resume(p)
      PROVE  TypeInv'
  <2>1. pc' \in [Proc -> Control]
    <3>1. pc' \in {[pc EXCEPT ![p] = "granted"], [pc EXCEPT ![p] = "unlock"]}
      BY <1>12 DEF Resume
    <3> QED
      BY <3>1 DEF TypeInv, TypeOK
  <2>2. ret' \in [Proc -> Int]
    BY <1>12 DEF TypeInv, TypeOK, Resume
  <2>3. TypeOK'
    BY <1>12, <2>1, <2>2 DEF TypeInv, TypeOK, SlotInv, FirstInv, Resume
  <2>4. pc[p] = "resume" /\ pc' \in {[pc EXCEPT ![p] = "granted"], [pc EXCEPT ![p] = "unlock"]}
    BY <1>12 DEF Resume
  <2>5. UNCHANGED << lock, my_i, pid, first_process_ind >>
    BY <1>12 DEF Resume
  <2>6. LockInv'
    BY <2>4, <2>5 DEF TypeInv, TypeOK, LockInv
  <2>7. SlotInv'
    BY <2>4, <2>5 DEF TypeInv, TypeOK, SlotInv
  <2>8. FirstInv'
    BY <2>4, <2>5 DEF TypeInv, TypeOK, FirstInv
  <2> QED
    BY <2>3, <2>6, <2>7, <2>8 DEF TypeInv
<1>13. ASSUME NEW p \in Proc, AbortNext(p)
      PROVE  TypeInv'
  <2>1. /\ ready' \in [Slot -> BOOLEAN]
        /\ timeout' \in [Slot -> BOOLEAN]
    BY <1>13 DEF TypeInv, TypeOK, AbortNext
  <2>2. pc' \in [Proc -> Control]
    BY <1>13 DEF TypeInv, TypeOK, AbortNext, SignalAndGoto
  <2>3. TypeOK'
    BY <1>13, <2>1, <2>2 DEF TypeInv, TypeOK, AbortNext
  <2>4. LockInv' /\ SlotInv'
    BY <1>13 DEF TypeInv, TypeOK, LockInv, SlotInv, AbortNext, SignalAndGoto
  <2>5. FirstInv'
    BY <1>13 DEF TypeInv, TypeOK, LockInv, FirstInv, AbortNext, SignalAndGoto
  <2> QED
    BY <2>3, <2>4, <2>5 DEF TypeInv
<1>14. ASSUME NEW p \in Proc, AbortDone(p)
      PROVE  TypeInv'
  <2>1. TypeOK'
    BY <1>14 DEF TypeInv, TypeOK, SlotInv, FirstInv, AbortDone, ResetGroup
  <2>2. LockInv' /\ SlotInv' /\ FirstInv'
    BY <1>14 DEF TypeInv, TypeOK, LockInv, SlotInv, FirstInv, AbortDone, ResetGroup
  <2> QED
    BY <2>1, <2>2 DEF TypeInv
<1>15. ASSUME NEW p \in Proc, TakeTurn(p)
      PROVE  TypeInv'
  <2>1. TypeOK'
    BY <1>15 DEF TypeInv, TypeOK, SlotInv, FirstInv, TakeTurn
  <2>2. LockInv' /\ SlotInv' /\ FirstInv'
    BY <1>15 DEF TypeInv, TypeOK, LockInv, SlotInv, FirstInv, TakeTurn
  <2> QED
    BY <2>1, <2>2 DEF TypeInv
<1>16. ASSUME NEW p \in Proc, Collect(p)
      PROVE  TypeInv'
  <2>1. pc' \in [Proc -> Control]
    BY <1>16 DEF TypeInv, TypeOK, Collect
  <2>2. ret' \in [Proc -> Int]
    BY <1>16 DEF TypeInv, TypeOK, Collect
  <2>3. TypeOK'
    BY <1>16, <2>1, <2>2 DEF TypeInv, TypeOK, SlotInv, FirstInv, Collect
  <2>4. LockInv'
    BY <1>16 DEF TypeInv, TypeOK, LockInv, Collect
  <2>5. SlotInv'
    BY <1>16 DEF TypeInv, TypeOK, SlotInv, Collect
  <2>6. FirstInv'
    BY <1>16 DEF TypeInv, TypeOK, LockInv, FirstInv, Collect
  <2> QED
    BY <2>3, <2>4, <2>5, <2>6 DEF TypeInv
<1>17. ASSUME NEW p \in Proc, PartitionRank(p)
      PROVE  TypeInv'
  <2>1. affinities' \in [Slot -> CpuSet]
    BY <1>17 DEF TypeInv, TypeOK, PartitionRank, Commit
  <2>2. cpus_available' \in CpuSet
    BY <1>17 DEF TypeInv, TypeOK, PartitionRank, Commit
  <2>3. process_rank' \in Nat
    BY <1>17 DEF TypeInv, TypeOK, PartitionRank, Commit
  <2>4. TypeOK'
    BY <1>17, <2>1, <2>2, <2>3 DEF TypeInv, TypeOK, SlotInv, FirstInv, PartitionRank, Commit
  <2>5. LockInv'
    BY <1>17 DEF TypeInv, TypeOK, LockInv, PartitionRank, Commit
  <2>6. SlotInv'
    BY <1>17 DEF TypeInv, TypeOK, SlotInv, PartitionRank, Commit
  <2>7. FirstInv'
    BY <1>17 DEF TypeInv, TypeOK, LockInv, FirstInv, PartitionRank, Commit
  <2> QED
    BY <2>4, <2>5, <2>6, <2>7 DEF TypeInv
<1>18. ASSUME NEW p \in Proc, PartitionFails(p)
      PROVE  TypeInv'
  <2>1. TypeOK'
    BY <1>18 DEF TypeInv, TypeOK, SlotInv, FirstInv, PartitionFails, OutOfCpus, MeetsStray
  <2>2. LockInv' /\ SlotInv' /\ FirstInv'
    BY <1>18
       DEF TypeInv, TypeOK, LockInv, SlotInv, FirstInv, PartitionFails, OutOfCpus,
           MeetsStray
  <2> QED
    BY <2>1, <2>2 DEF TypeInv
<1>19. ASSUME NEW p \in Proc, PartitionDone(p)
      PROVE  TypeInv'
  <2>1. TypeOK'
    BY <1>19 DEF TypeInv, TypeOK, SlotInv, FirstInv, PartitionDone
  <2>2. LockInv' /\ SlotInv' /\ FirstInv'
    BY <1>19 DEF TypeInv, TypeOK, LockInv, SlotInv, FirstInv, PartitionDone
  <2> QED
    BY <2>1, <2>2 DEF TypeInv
<1>20. ASSUME NEW p \in Proc, EndGroup(p)
      PROVE  TypeInv'
  <2>1. TypeOK'
    BY <1>20 DEF TypeInv, TypeOK, SlotInv, FirstInv, EndGroup, ResetGroup
  <2>2. LockInv' /\ SlotInv' /\ FirstInv'
    BY <1>20 DEF TypeInv, TypeOK, LockInv, SlotInv, FirstInv, EndGroup, ResetGroup
  <2> QED
    BY <2>1, <2>2 DEF TypeInv
<1>21. ASSUME NEW p \in Proc, WakeNext(p)
      PROVE  TypeInv'
  <2>1. pc[p] = "handoff" /\ pc' \in [Proc -> Control]
    BY <1>21 DEF TypeInv, TypeOK, WakeNext, SignalAndGoto
  <2>2. ASSUME NEW q \in Proc, q # p
        PROVE  pc'[q] = pc[q] \/ (pc[q] = "waiting" /\ pc'[q] = "signalled")
    BY <1>21, <2>2 DEF TypeInv, TypeOK, WakeNext, SignalAndGoto
  <2>3. pc'[p] = "bind"
    BY <1>21 DEF TypeInv, TypeOK, WakeNext, SignalAndGoto
  <2>4. ready' \in [Slot -> BOOLEAN]
    BY <1>21 DEF TypeInv, TypeOK, WakeNext
  <2>5. cpus_available' \in CpuSet
    BY <1>21 DEF TypeInv, TypeOK, WakeNext
  <2>6. first_process_ind' \in Slot \cup {Nil}
    BY <1>21 DEF TypeInv, TypeOK, WakeNext
  <2>7. TypeOK'
    BY <1>21, <2>1, <2>4, <2>5, <2>6 DEF TypeInv, TypeOK, WakeNext
  <2>8. LockInv' /\ SlotInv'
    BY <1>21, <2>1, <2>2, <2>3 DEF TypeInv, TypeOK, LockInv, SlotInv, WakeNext
  <2>9. FirstInv'
    BY <1>21, <2>1, <2>2, <2>3 DEF TypeInv, TypeOK, LockInv, FirstInv, WakeNext
  <2> QED
    BY <2>7, <2>8, <2>9 DEF TypeInv
<1>22. ASSUME NEW p \in Proc, Bind(p)
      PROVE  TypeInv'
  <2> DEFINE cpus == affinities[process_rank] \cap Cpuset[p]
  <2>1. cpus \in SUBSET CPU
    BY CpuAssumption
  <2>2. mask' \in [Proc -> SUBSET CPU]
    BY <1>22, <2>1 DEF TypeInv, TypeOK, Bind
  <2>3. ret' \in [Proc -> Int] /\ process_rank' \in Nat
    BY <1>22 DEF TypeInv, TypeOK, Bind
  <2>4. TypeOK'
    BY <1>22, <2>2, <2>3 DEF TypeInv, TypeOK, Bind
  <2>5. LockInv' /\ SlotInv' /\ FirstInv'
    BY <1>22 DEF TypeInv, TypeOK, LockInv, SlotInv, FirstInv, Bind
  <2> QED
    BY <2>4, <2>5 DEF TypeInv
<1>23. ASSUME NEW p \in Proc, Unlock(p)
      PROVE  TypeInv'
  <2>1. TypeOK'
    BY <1>23 DEF TypeInv, TypeOK, SlotInv, FirstInv, Unlock
  <2>2. LockInv' /\ SlotInv' /\ FirstInv'
    BY <1>23 DEF TypeInv, TypeOK, LockInv, SlotInv, FirstInv, Unlock
  <2> QED
    BY <2>1, <2>2 DEF TypeInv
<1>24. ASSUME NEW p \in Proc, TimeOut(p)
      PROVE  TypeInv'
  <2>1. TypeOK'
    BY <1>24 DEF TypeInv, TypeOK, SlotInv, FirstInv, TimeOut
  <2>2. LockInv' /\ SlotInv' /\ FirstInv'
    BY <1>24 DEF TypeInv, TypeOK, LockInv, SlotInv, FirstInv, TimeOut
  <2> QED
    BY <2>1, <2>2 DEF TypeInv
<1>25. ASSUME NEW p \in Proc, SpuriousWakeup(p)
      PROVE  TypeInv'
  <2>1. TypeOK'
    BY <1>25 DEF TypeInv, TypeOK, SlotInv, FirstInv, SpuriousWakeup
  <2>2. LockInv' /\ SlotInv' /\ FirstInv'
    BY <1>25 DEF TypeInv, TypeOK, LockInv, SlotInv, FirstInv, SpuriousWakeup
  <2> QED
    BY <2>1, <2>2 DEF TypeInv
<1>26. ASSUME NEW p \in Proc, Kill(p)
      PROVE  TypeInv'
  <2>1. TypeOK'
    BY <1>26 DEF TypeInv, TypeOK, SlotInv, FirstInv, Kill
  <2>2. LockInv' /\ SlotInv' /\ FirstInv'
    BY <1>26 DEF TypeInv, TypeOK, LockInv, SlotInv, FirstInv, Kill
  <2> QED
    BY <2>1, <2>2 DEF TypeInv
<1>27. CASE UNCHANGED vars
  BY <1>27 DEF vars, TypeInv, TypeOK, LockInv, SlotInv, FirstInv
<1> QED
  BY <1>1, <1>2, <1>3, <1>4, <1>5, <1>6, <1>7, <1>8, <1>9, <1>10, <1>11, <1>12, <1>13,
     <1>14, <1>15, <1>16, <1>17, <1>18, <1>19, <1>20, <1>21, <1>22, <1>23, <1>24, <1>25,
     <1>26, <1>27
     DEF Next, Step, Finished

\* Beyond the types: a process that is past its search for a slot has one that carries its
\* PID and that nobody else has (pin_process(), 813-825), so that what it, the process that
\* pops it and the one that aborts it access through my_i and first_process_ind is the same
\* item; and the list is not empty when the last arrival takes its first item (868-870).
THEOREM TypeInvariance == Spec => []TypeInv
<1>1. Init => TypeInv
  BY TypeInit
<1>2. TypeInv /\ [Next]_vars => TypeInv'
  BY TypeStep
<1> QED
  BY <1>1, <1>2, PTL DEF Spec

\* Every variable keeps its type, through all the paths of main() and pin_process(): each
\* index kept in the region is a slot or -1, and nr_processes is -1 or a legal ppn.
THEOREM TypeCorrect == Spec => []TypeOK
<1>1. TypeInv => TypeOK
  BY DEF TypeInv
<1> QED
  BY <1>1, TypeInvariance, PTL

\* The process-shared mutex is one: what the code does between taking and dropping it is
\* done by one process at a time.
THEOREM MutualExclusion ==
  Spec => [](\A p, q \in Proc : pc[p] \in HasLock /\ pc[q] \in HasLock => p = q)
<1>1. TypeInv => \A p, q \in Proc : pc[p] \in HasLock /\ pc[q] \in HasLock => p = q
  BY DEF TypeInv, LockInv
<1> QED
  BY <1>1, TypeInvariance, PTL

-----------------------------------------------------------------------------

\* The processes agree on --processes-per-node: OneJob is the case that all of them come.
SamePpn == \A p, q \in Proc : Ppn[p] = Ppn[q]

\* The number they agree on.
N == Ppn[CHOOSE p \in Proc : TRUE]

\* Who has a slot, who has been through main()'s part, and where a process has the turn.
Registered == {p \in Proc : my_i[p] # Nil}
Committed  == Registered \cup {p \in Proc : pc[p] \in {"lock", "register"}}
Granted    == {"granted", "collect", "partition", "handoff", "bind"}

\* nr_processes_left_in_init counts down at least as fast as processes come.
CommitInv ==
  IF created THEN Cardinality(Committed) + nr_processes_left_in_init <= N
             ELSE Committed = {}

\* A group is always one of N.
GroupInv ==
  /\ nr_processes \in {-1, N}
  /\ \A p \in Proc : pc[p] \in {"walk", "dispatch"} => nr_processes = N

\* As long as fewer than N processes have ever registered, nobody has had the turn, who
\* was woken was woken to give up, and more of the group is missing than has not come.
EarlyInv ==
  Cardinality(Registered) < N =>
    /\ \A p \in Proc : pc[p] \notin Granted
    /\ \A s \in Slot : ready[s] => timeout[s]
    /\ nr_processes # -1 => nr_processes_left + Cardinality(Registered) >= N

CountInv == CommitInv /\ GroupInv /\ EarlyInv

-----------------------------------------------------------------------------
USE DEF Slot, Nil, NoProc, CpuSet, Control, HasLock, InWait, Ended, Goto,
        groupVars, initVars, listVars, cpuVars, walkVars, EINVAL, ENOMEM, ETIMEDOUT

\* main() wants at least two processes, and all want the same number.
LEMMA SizeOfN ==
  ASSUME SamePpn
  PROVE  N \in 2 .. MaxProcesses /\ \A p \in Proc : Ppn[p] = N
  BY ProcAssumption, PpnAssumption DEF SamePpn, N

\* Both sets can be counted, and whoever has registered has attached.
LEMMA SetsAreFinite ==
  /\ IsFiniteSet(Registered) /\ Cardinality(Registered) \in Nat
  /\ IsFiniteSet(Committed) /\ Cardinality(Committed) \in Nat
  /\ Cardinality(Registered) <= Cardinality(Committed)
<1>1. Committed \in SUBSET Proc /\ Registered \in SUBSET Committed
  BY DEF Committed, Registered
<1>2. IsFiniteSet(Committed)
  BY <1>1, ProcAssumption, FS_Subset
<1>3. IsFiniteSet(Registered) /\ Cardinality(Registered) <= Cardinality(Committed)
  BY <1>1, <1>2, FS_Subset
<1> QED
  BY <1>2, <1>3, FS_CardinalityType

\* Before the first process comes there is nothing to count.
LEMMA CountInit ==
  ASSUME SamePpn, Init
  PROVE  CountInv
<1>1. Committed = {} /\ Registered = {}
  BY DEF Init, Committed, Registered
<1>2. CommitInv
  BY <1>1 DEF Init, CommitInv
<1>3. GroupInv
  BY <1>1 DEF Init, GroupInv
<1>4. EarlyInv
  BY <1>1 DEF Init, EarlyInv, Granted
<1> QED
  BY <1>2, <1>3, <1>4 DEF CountInv

\* main(): one more process has attached, and the counter is one less.
LEMMA Joining ==
  ASSUME SamePpn, TypeInv, CountInv, NEW p \in Proc, Create(p) \/ Attach(p) \/ Discover(p)
  PROVE  CountInv'
<1>1. /\ Committed' = Committed \cup {p}
      /\ p \notin Committed
      /\ Registered' = Registered
  BY DEF TypeInv, TypeOK, SlotInv, Committed, Registered, Create, Attach, Discover
<1>2. Cardinality(Committed') = Cardinality(Committed) + 1
  BY <1>1, SetsAreFinite, FS_AddElement
<1>3. CommitInv'
  <2>1. CASE Create(p)
    <3>1. Cardinality(Committed) = 0
      BY <2>1, FS_EmptySet DEF Create, CountInv, CommitInv
    <3> QED
      BY <2>1, <3>1, <1>2, SizeOfN DEF Create, CommitInv
  <2>2. CASE Attach(p)
    <3>1. /\ created /\ created'
          /\ nr_processes_left_in_init \in Int
          /\ nr_processes_left_in_init' = nr_processes_left_in_init - 1
      BY <2>2 DEF Attach, TypeInv, TypeOK
    <3> QED
    BY <3>1, <1>2, SizeOfN, SetsAreFinite DEF CountInv, CommitInv
  <2>3. CASE Discover(p)
    <3>1. /\ created /\ created'
          /\ nr_processes_left_in_init = 1
          /\ nr_processes_left_in_init' = 0
      BY <2>3 DEF Discover, TypeInv, TypeOK
    <3> QED
    BY <3>1, <1>2, SizeOfN, SetsAreFinite DEF CountInv, CommitInv
  <2> QED
    BY <2>1, <2>2, <2>3
<1>4. GroupInv'
  BY DEF TypeInv, TypeOK, CountInv, GroupInv, Create, Attach, Discover
<1>5. EarlyInv'
  <2>1. UNCHANGED << groupVars, ready, timeout >> /\ pc' = [pc EXCEPT ![p] = "lock"]
    BY DEF Create, Attach, Discover
  <2>2. \A q \in Proc : pc'[q] \in Granted => pc[q] \in Granted
    BY <2>1 DEF TypeInv, TypeOK, Granted
  <2> QED
    BY <1>1, <2>1, <2>2 DEF CountInv, EarlyInv
<1> QED
  BY <1>3, <1>4, <1>5 DEF CountInv

\* pin_process(), first part: one more process has registered, and either starts a group
\* or counts against the one under way.
LEMMA CountRegister ==
  ASSUME SamePpn, TypeInv, CountInv, NEW p \in Proc, Register(p)
  PROVE  CountInv'
<1>1. my_i[p] = Nil /\ FreeSlot \in Slot
  BY FreeSlotExists DEF TypeInv, SlotInv, Register
<1>2. /\ Registered' = Registered \cup {p}
      /\ p \notin Registered
      /\ Committed' = Committed
  BY <1>1 DEF TypeInv, TypeOK, Committed, Registered, Register
<1>3. Cardinality(Registered') = Cardinality(Registered) + 1
  BY <1>2, SetsAreFinite, FS_AddElement
<1>4. CommitInv'
  BY <1>2 DEF CountInv, CommitInv, Register
<1>5. /\ nr_processes' = N
      /\ nr_processes_left' = (IF nr_processes = -1 THEN N - 1 ELSE nr_processes_left - 1)
  BY SizeOfN DEF CountInv, GroupInv, Register, StartGroup
<1>6. GroupInv'
  BY <1>5 DEF GroupInv
<1>7. EarlyInv'
  <2> SUFFICES ASSUME Cardinality(Registered') < N
               PROVE  /\ \A q \in Proc : pc'[q] \notin Granted
                      /\ \A s \in Slot : ready'[s] => timeout'[s]
                      /\ nr_processes_left' + Cardinality(Registered') >= N
    BY <1>5, SizeOfN DEF EarlyInv
  <2>1. Cardinality(Registered) < N
    BY <1>3, SizeOfN, SetsAreFinite
  <2>2. \A q \in Proc : pc'[q] \notin Granted
    BY <2>1 DEF TypeInv, TypeOK, CountInv, EarlyInv, Granted, Register
  <2>3. \A s \in Slot : ready'[s] => timeout'[s]
    BY <1>1, <2>1 DEF TypeInv, TypeOK, CountInv, EarlyInv, Register
  <2>4. nr_processes_left' + Cardinality(Registered') >= N
    BY <1>3, <1>5, <2>1, SizeOfN, SetsAreFinite DEF CountInv, EarlyInv, TypeInv, TypeOK
  <2> QED
    BY <2>2, <2>3, <2>4
<1> QED
  BY <1>4, <1>6, <1>7 DEF CountInv

\* A step that gives nobody a slot and lets nobody in leaves the first counter right.
LEMMA SameRegistered ==
  ASSUME TypeInv, CountInv,
         my_i' = my_i, created' = created,
         nr_processes_left_in_init' = nr_processes_left_in_init,
         \A q \in Proc : pc'[q] \in {"lock", "register"} => pc[q] \in {"lock", "register"},
         SamePpn
  PROVE  Registered' = Registered /\ CommitInv'
<1>1. Registered' = Registered /\ Committed' \in SUBSET Committed
  BY DEF Registered, Committed
<1>2. IsFiniteSet(Committed') /\ Cardinality(Committed') <= Cardinality(Committed)
  BY <1>1, SetsAreFinite, FS_Subset
<1>3. Cardinality(Committed') \in Nat
  BY <1>2, FS_CardinalityType
<1> QED
  BY <1>1, <1>2, <1>3, SetsAreFinite, SizeOfN DEF CountInv, CommitInv, TypeInv, TypeOK

\* The same for every other step.
LEMMA CountRest ==
  ASSUME SamePpn, TypeInv, CountInv, NEW p \in Proc,
         Step(p) \/ TimeOut(p) \/ SpuriousWakeup(p) \/ Kill(p)
  PROVE  CountInv'
<1>1. CASE Lock(p)
  <2>1. Registered' = Registered /\ CommitInv'
    BY <1>1, SameRegistered DEF TypeInv, TypeOK, Lock
  <2>2. GroupInv'
    BY <1>1, SizeOfN DEF TypeInv, TypeOK, LockInv, CountInv, GroupInv, Lock
  <2>3. EarlyInv'
    BY <1>1, <2>1, SizeOfN, SetsAreFinite
       DEF TypeInv, TypeOK, LockInv, SlotInv, CountInv, GroupInv, EarlyInv, Granted, Lock
  <2> QED
    BY <2>1, <2>2, <2>3 DEF CountInv
<1>2. CASE Mismatch(p)
  <2>1. Registered' = Registered /\ CommitInv'
    BY <1>2, SameRegistered DEF TypeInv, TypeOK, Mismatch, StartGroup
  <2>2. GroupInv'
    BY <1>2, SizeOfN DEF TypeInv, TypeOK, LockInv, CountInv, GroupInv, Mismatch, StartGroup
  <2>3. EarlyInv'
    BY <1>2, <2>1, SizeOfN, SetsAreFinite
       DEF TypeInv, TypeOK, LockInv, SlotInv, CountInv, GroupInv, EarlyInv, Granted,
           Mismatch, StartGroup
  <2> QED
    BY <2>1, <2>2, <2>3 DEF CountInv
<1>3. CASE Walk(p)
  <2>1. Registered' = Registered /\ CommitInv'
    BY <1>3, SameRegistered DEF TypeInv, TypeOK, Walk
  <2>2. GroupInv'
    BY <1>3, SizeOfN DEF TypeInv, TypeOK, LockInv, CountInv, GroupInv, Walk
  <2>3. EarlyInv'
    BY <1>3, <2>1, SizeOfN, SetsAreFinite
       DEF TypeInv, TypeOK, LockInv, SlotInv, CountInv, GroupInv, EarlyInv, Granted, Walk
  <2> QED
    BY <2>1, <2>2, <2>3 DEF CountInv
<1>4. CASE Insert(p)
  <2>1. Registered' = Registered /\ CommitInv'
    BY <1>4, SameRegistered DEF TypeInv, TypeOK, Insert
  <2>2. GroupInv'
    BY <1>4, SizeOfN DEF TypeInv, TypeOK, LockInv, CountInv, GroupInv, Insert
  <2>3. EarlyInv'
    BY <1>4, <2>1, SizeOfN, SetsAreFinite
       DEF TypeInv, TypeOK, LockInv, SlotInv, CountInv, GroupInv, EarlyInv, Granted,
           Insert
  <2> QED
    BY <2>1, <2>2, <2>3 DEF CountInv
<1>5. CASE WakeFirst(p)
  <2>1. Registered' = Registered /\ CommitInv'
    BY <1>5, SameRegistered DEF TypeInv, TypeOK, WakeFirst, SignalAndGoto
  <2>2. GroupInv'
    BY <1>5, SizeOfN
       DEF TypeInv, TypeOK, LockInv, CountInv, GroupInv, WakeFirst, SignalAndGoto
  <2>3. EarlyInv'
    BY <1>5, <2>1, SizeOfN, SetsAreFinite
       DEF TypeInv, TypeOK, LockInv, SlotInv, CountInv, GroupInv, EarlyInv, Granted,
           WakeFirst, SignalAndGoto
  <2> QED
    BY <2>1, <2>2, <2>3 DEF CountInv
<1>6. CASE Wait(p)
  <2>1. Registered' = Registered /\ CommitInv'
    BY <1>6, SameRegistered DEF TypeInv, TypeOK, Wait
  <2>2. GroupInv'
    BY <1>6, SizeOfN DEF TypeInv, TypeOK, LockInv, CountInv, GroupInv, Wait
  <2>3. EarlyInv'
    BY <1>6, <2>1, SizeOfN, SetsAreFinite
       DEF TypeInv, TypeOK, LockInv, SlotInv, CountInv, GroupInv, EarlyInv, Granted, Wait
  <2> QED
    BY <2>1, <2>2, <2>3 DEF CountInv
<1>7. CASE Reacquire(p)
  <2>1. Registered' = Registered /\ CommitInv'
    BY <1>7, SameRegistered DEF TypeInv, TypeOK, Reacquire
  <2>2. GroupInv'
    BY <1>7, SizeOfN DEF TypeInv, TypeOK, LockInv, CountInv, GroupInv, Reacquire
  <2>3. EarlyInv'
    BY <1>7, <2>1, SizeOfN, SetsAreFinite
       DEF TypeInv, TypeOK, LockInv, SlotInv, CountInv, GroupInv, EarlyInv, Granted,
           Reacquire
  <2> QED
    BY <2>1, <2>2, <2>3 DEF CountInv
<1>8. CASE Resume(p)
  <2>1. Registered' = Registered /\ CommitInv'
    BY <1>8, SameRegistered DEF TypeInv, TypeOK, Resume
  <2>2. GroupInv'
    BY <1>8, SizeOfN DEF TypeInv, TypeOK, LockInv, CountInv, GroupInv, Resume
  <2>3. EarlyInv'
    BY <1>8, <2>1, SizeOfN, SetsAreFinite
       DEF TypeInv, TypeOK, LockInv, SlotInv, CountInv, GroupInv, EarlyInv, Granted,
           Resume
  <2> QED
    BY <2>1, <2>2, <2>3 DEF CountInv
<1>9. CASE AbortNext(p)
  <2>1. Registered' = Registered /\ CommitInv'
    BY <1>9, SameRegistered DEF TypeInv, TypeOK, AbortNext, SignalAndGoto
  <2>2. GroupInv'
    BY <1>9, SizeOfN
       DEF TypeInv, TypeOK, LockInv, CountInv, GroupInv, AbortNext, SignalAndGoto
  <2>3. EarlyInv'
    <3> SUFFICES ASSUME Cardinality(Registered) < N
                 PROVE  /\ \A q \in Proc : pc'[q] \notin Granted
                        /\ \A s \in Slot : ready'[s] => timeout'[s]
                        /\ nr_processes' # -1 => nr_processes_left' + Cardinality(Registered') >= N
      BY <2>1 DEF EarlyInv
    <3>1. \A q \in Proc : pc'[q] \notin Granted
      BY <1>9 DEF CountInv, EarlyInv, Granted, TypeInv, TypeOK, AbortNext, SignalAndGoto
    <3>2. \A s \in Slot : ready[s] => timeout[s]
      BY DEF CountInv, EarlyInv
    <3>3. \A s \in Slot : ready'[s] => timeout'[s]
      <4>1. CASE pid[first_process_ind] = p
        BY <1>9, <3>2, <4>1 DEF AbortNext
      <4>2. CASE pid[first_process_ind] # p
        <5>1. /\ ready' = [ready EXCEPT ![first_process_ind] = TRUE]
              /\ timeout' = [timeout EXCEPT ![first_process_ind] = TRUE]
          BY <1>9, <4>2 DEF AbortNext
        <5>2. ready \in [Slot -> BOOLEAN] /\ timeout \in [Slot -> BOOLEAN]
          BY DEF TypeInv, TypeOK
        <5> QED
          BY <3>2, <5>1, <5>2
      <4> QED
        BY <4>1, <4>2
    <3>4. nr_processes' # -1 => nr_processes_left' + Cardinality(Registered') >= N
      BY <1>9, <2>1 DEF CountInv, EarlyInv, AbortNext
    <3> QED
      BY <3>1, <3>3, <3>4
  <2> QED
    BY <2>1, <2>2, <2>3 DEF CountInv
<1>10. CASE AbortDone(p)
  <2>1. Registered' = Registered /\ CommitInv'
    BY <1>10, SameRegistered DEF TypeInv, TypeOK, AbortDone, ResetGroup
  <2>2. GroupInv'
    BY <1>10, SizeOfN
       DEF TypeInv, TypeOK, LockInv, CountInv, GroupInv, AbortDone, ResetGroup
  <2>3. EarlyInv'
    BY <1>10, <2>1, SizeOfN, SetsAreFinite
       DEF TypeInv, TypeOK, LockInv, SlotInv, CountInv, GroupInv, EarlyInv, Granted,
           AbortDone, ResetGroup
  <2> QED
    BY <2>1, <2>2, <2>3 DEF CountInv
<1>11. CASE TakeTurn(p)
  <2>1. Registered' = Registered /\ CommitInv'
    BY <1>11, SameRegistered DEF TypeInv, TypeOK, TakeTurn
  <2>2. GroupInv'
    BY <1>11, SizeOfN DEF TypeInv, TypeOK, LockInv, CountInv, GroupInv, TakeTurn
  <2>3. EarlyInv'
    BY <1>11, <2>1, SizeOfN, SetsAreFinite
       DEF TypeInv, TypeOK, LockInv, SlotInv, CountInv, GroupInv, EarlyInv, Granted,
           TakeTurn
  <2> QED
    BY <2>1, <2>2, <2>3 DEF CountInv
<1>12. CASE Collect(p)
  <2>1. Registered' = Registered /\ CommitInv'
    BY <1>12, SameRegistered DEF TypeInv, TypeOK, Collect
  <2>2. GroupInv'
    BY <1>12, SizeOfN DEF TypeInv, TypeOK, LockInv, CountInv, GroupInv, Collect
  <2>3. EarlyInv'
    BY <1>12, <2>1, SizeOfN, SetsAreFinite
       DEF TypeInv, TypeOK, LockInv, SlotInv, CountInv, GroupInv, EarlyInv, Granted,
           Collect
  <2> QED
    BY <2>1, <2>2, <2>3 DEF CountInv
<1>13. CASE PartitionRank(p)
  <2>1. Registered' = Registered /\ CommitInv'
    BY <1>13, SameRegistered DEF TypeInv, TypeOK, PartitionRank
  <2>2. GroupInv'
    BY <1>13, SizeOfN DEF TypeInv, TypeOK, LockInv, CountInv, GroupInv, PartitionRank
  <2>3. EarlyInv'
    BY <1>13, <2>1, SizeOfN, SetsAreFinite
       DEF TypeInv, TypeOK, LockInv, SlotInv, CountInv, GroupInv, EarlyInv, Granted,
           PartitionRank
  <2> QED
    BY <2>1, <2>2, <2>3 DEF CountInv
<1>14. CASE PartitionFails(p)
  <2>1. Registered' = Registered /\ CommitInv'
    BY <1>14, SameRegistered DEF TypeInv, TypeOK, PartitionFails
  <2>2. GroupInv'
    BY <1>14, SizeOfN DEF TypeInv, TypeOK, LockInv, CountInv, GroupInv, PartitionFails
  <2>3. EarlyInv'
    BY <1>14, <2>1, SizeOfN, SetsAreFinite
       DEF TypeInv, TypeOK, LockInv, SlotInv, CountInv, GroupInv, EarlyInv, Granted,
           PartitionFails
  <2> QED
    BY <2>1, <2>2, <2>3 DEF CountInv
<1>15. CASE PartitionDone(p)
  <2>1. Registered' = Registered /\ CommitInv'
    BY <1>15, SameRegistered DEF TypeInv, TypeOK, PartitionDone
  <2>2. GroupInv'
    BY <1>15, SizeOfN DEF TypeInv, TypeOK, LockInv, CountInv, GroupInv, PartitionDone
  <2>3. EarlyInv'
    BY <1>15, <2>1, SizeOfN, SetsAreFinite
       DEF TypeInv, TypeOK, LockInv, SlotInv, CountInv, GroupInv, EarlyInv, Granted,
           PartitionDone
  <2> QED
    BY <2>1, <2>2, <2>3 DEF CountInv
<1>16. CASE EndGroup(p)
  <2>1. Registered' = Registered /\ CommitInv'
    BY <1>16, SameRegistered DEF TypeInv, TypeOK, EndGroup, ResetGroup
  <2>2. GroupInv'
    BY <1>16, SizeOfN DEF TypeInv, TypeOK, LockInv, CountInv, GroupInv, EndGroup, ResetGroup
  <2>3. EarlyInv'
    BY <1>16, <2>1, SizeOfN, SetsAreFinite
       DEF TypeInv, TypeOK, LockInv, SlotInv, CountInv, GroupInv, EarlyInv, Granted,
           EndGroup, ResetGroup
  <2> QED
    BY <2>1, <2>2, <2>3 DEF CountInv
<1>17. CASE WakeNext(p)
  <2>1. Registered' = Registered /\ CommitInv'
    BY <1>17, SameRegistered DEF TypeInv, TypeOK, WakeNext, SignalAndGoto
  <2>2. GroupInv'
    BY <1>17, SizeOfN
       DEF TypeInv, TypeOK, LockInv, CountInv, GroupInv, WakeNext, SignalAndGoto
  <2>3. EarlyInv'
    BY <1>17, <2>1, SizeOfN, SetsAreFinite
       DEF TypeInv, TypeOK, LockInv, SlotInv, CountInv, GroupInv, EarlyInv, Granted,
           WakeNext, SignalAndGoto
  <2> QED
    BY <2>1, <2>2, <2>3 DEF CountInv
<1>18. CASE Bind(p)
  <2>1. Registered' = Registered /\ CommitInv'
    BY <1>18, SameRegistered DEF TypeInv, TypeOK, Bind
  <2>2. GroupInv'
    BY <1>18, SizeOfN DEF TypeInv, TypeOK, LockInv, CountInv, GroupInv, Bind
  <2>3. EarlyInv'
    BY <1>18, <2>1, SizeOfN, SetsAreFinite
       DEF TypeInv, TypeOK, LockInv, SlotInv, CountInv, GroupInv, EarlyInv, Granted, Bind
  <2> QED
    BY <2>1, <2>2, <2>3 DEF CountInv
<1>19. CASE Unlock(p)
  <2>1. Registered' = Registered /\ CommitInv'
    BY <1>19, SameRegistered DEF TypeInv, TypeOK, Unlock
  <2>2. GroupInv'
    BY <1>19, SizeOfN DEF TypeInv, TypeOK, LockInv, CountInv, GroupInv, Unlock
  <2>3. EarlyInv'
    BY <1>19, <2>1, SizeOfN, SetsAreFinite
       DEF TypeInv, TypeOK, LockInv, SlotInv, CountInv, GroupInv, EarlyInv, Granted,
           Unlock
  <2> QED
    BY <2>1, <2>2, <2>3 DEF CountInv
<1>20. CASE TimeOut(p)
  <2>1. Registered' = Registered /\ CommitInv'
    BY <1>20, SameRegistered DEF TypeInv, TypeOK, TimeOut
  <2>2. GroupInv'
    BY <1>20, SizeOfN DEF TypeInv, TypeOK, LockInv, CountInv, GroupInv, TimeOut
  <2>3. EarlyInv'
    BY <1>20, <2>1, SizeOfN, SetsAreFinite
       DEF TypeInv, TypeOK, LockInv, SlotInv, CountInv, GroupInv, EarlyInv, Granted,
           TimeOut
  <2> QED
    BY <2>1, <2>2, <2>3 DEF CountInv
<1>21. CASE SpuriousWakeup(p)
  <2>1. Registered' = Registered /\ CommitInv'
    BY <1>21, SameRegistered DEF TypeInv, TypeOK, SpuriousWakeup
  <2>2. GroupInv'
    BY <1>21, SizeOfN DEF TypeInv, TypeOK, LockInv, CountInv, GroupInv, SpuriousWakeup
  <2>3. EarlyInv'
    BY <1>21, <2>1, SizeOfN, SetsAreFinite
       DEF TypeInv, TypeOK, LockInv, SlotInv, CountInv, GroupInv, EarlyInv, Granted,
           SpuriousWakeup
  <2> QED
    BY <2>1, <2>2, <2>3 DEF CountInv
<1>22. CASE Kill(p)
  <2>1. Registered' = Registered /\ CommitInv'
    BY <1>22, SameRegistered DEF TypeInv, TypeOK, Kill
  <2>2. GroupInv'
    BY <1>22, SizeOfN DEF TypeInv, TypeOK, LockInv, CountInv, GroupInv, Kill
  <2>3. EarlyInv'
    BY <1>22, <2>1, SizeOfN, SetsAreFinite
       DEF TypeInv, TypeOK, LockInv, SlotInv, CountInv, GroupInv, EarlyInv, Granted, Kill
  <2> QED
    BY <2>1, <2>2, <2>3 DEF CountInv
<1> QED
  BY Joining, CountRegister, <1>1, <1>2, <1>3, <1>4, <1>5, <1>6, <1>7, <1>8, <1>9, <1>10,
     <1>11, <1>12, <1>13, <1>14, <1>15, <1>16, <1>17, <1>18, <1>19, <1>20, <1>21, <1>22
     DEF Step

\* The counters and sets agree after every step.
LEMMA CountStep ==
  ASSUME SamePpn, TypeInv, CountInv, [Next]_vars
  PROVE  CountInv'
<1>1. CASE UNCHANGED vars
  <2>1. CommitInv'
    BY <1>1, SameRegistered DEF vars
  <2>2. GroupInv' /\ EarlyInv'
    BY <1>1 DEF vars, CountInv, GroupInv, EarlyInv, Registered
  <2> QED
    BY <2>1, <2>2 DEF CountInv
<1> QED
  BY <1>1, CountRest DEF Next, Finished

\* The counters agree with the sets at all times.
LEMMA CountInvariance ==
  ASSUME SamePpn
  PROVE  Spec => []CountInv
<1>1. Init => CountInv
  BY CountInit
<1>2. TypeInv /\ CountInv /\ [Next]_vars => CountInv'
  BY CountStep
<1> QED
  BY <1>1, <1>2, TypeInvariance, PTL DEF Spec

\* If all processes were given the same --processes-per-node, nobody has the turn, let
\* alone partitions, before the last of them has put the CPU set together and computed
\* cpus_to_assign (main(), 1362-1402, against pin_process(), 947-1094), whatever times
\* out, fails or is killed.
THEOREM DiscoveryBeforePartition ==
  ASSUME SamePpn
  PROVE  Spec => []PartitionAfterDiscovery
<1>1. ASSUME TypeInv, CountInv
      PROVE  PartitionAfterDiscovery
  <2> SUFFICES ASSUME NEW p \in Proc, pc[p] \in Granted
               PROVE  nr_processes_left_in_init <= 0
    BY DEF PartitionAfterDiscovery, Granted
  <2>1. ~(Cardinality(Registered) < N)
    BY <1>1 DEF CountInv, EarlyInv
  <2>2. Cardinality(Committed) >= N
    BY <2>1, SizeOfN, SetsAreFinite
  <2>3. Committed # {}
    BY <2>2, SizeOfN, FS_EmptySet
  <2>4. Cardinality(Committed) + nr_processes_left_in_init <= N
    BY <1>1, <2>3 DEF CountInv, CommitInv
  <2> QED
    BY <1>1, <2>2, <2>4, SizeOfN, SetsAreFinite DEF TypeInv, TypeOK
<1> QED
  BY <1>1, CountInvariance, TypeInvariance, PTL

-----------------------------------------------------------------------------
\* p is the one to go on: it was woken and not told to give up, or has seen so already.
HasTurn(p) ==
  \/ pc[p] \in {"granted", "collect", "partition", "handoff"}
  \/ /\ pc[p] \in InWait \cup {"resume"}
     /\ ready[my_i[p]]
     /\ ~timeout[my_i[p]]

\* Somebody is still to come, or about to enter the list.
Open == \E p \in Proc : my_i[p] = Nil \/ pc[p] \in {"walk", "dispatch"}

\* Who has been bound to its CPUs.
Bound == {p \in Proc : pc[p] = "pinned" \/ (pc[p] = "unlock" /\ ret[p] >= 0)}

\* The position of p in the order of PIDs.
Below(p) == Cardinality({q \in Proc : q < p})

\* The list is sorted; while it is used for insertions its first item is a process's; and
\* who walks along it is not in it yet, and between prev_i and i.
ListInv ==
  /\ SortedList
  /\ (Open /\ first_process_ind # Nil) => pid[first_process_ind] # 0
  /\ \A p \in Proc : pc[p] = "walk" =>
       /\ first_process_ind # my_i[p]
       /\ next_process_ind[my_i[p]] = Nil
       /\ \A s \in Slot : next_process_ind[s] # my_i[p]
       /\ IF prev_i[p] = Nil
            THEN i[p] = first_process_ind
            ELSE /\ pid[prev_i[p]] # 0
                 /\ pid[prev_i[p]] < p
                 /\ i[p] = next_process_ind[prev_i[p]]

\* The turn is with one process at a time, and goes on to larger PIDs only: who has it is
\* behind all that are bound, or being bound, and before all that are still in the list.
\* As long as somebody is to come, nobody has it, and who was woken was woken to give up.
TurnInv ==
  /\ Open => /\ Bound = {}
             /\ \A p \in Proc : ~HasTurn(p) /\ pc[p] # "bind"
             /\ \A s \in Slot : ready[s] => timeout[s]
  /\ \A p, q \in Proc : HasTurn(p) /\ HasTurn(q) => p = q
  /\ \A p, q \in Proc : pc[p] = "bind" /\ HasTurn(q) => p < q
  /\ \A p \in Proc : HasTurn(p) /\ first_process_ind # Nil => p < pid[first_process_ind]
  /\ \A p \in Proc, q \in Bound : HasTurn(p) \/ pc[p] = "bind" => q < p

\* Ranks are given out in the order in which the turn passes, and process_rank, when it
\* is not the counter of the partitioning loop, is past all that were given.
RankInv ==
  /\ \A p \in Proc : pc[p] \in {"collect", "partition"} => Bound = {}
  /\ \A p \in Proc :
       pc[p] = "bind" \/ (HasTurn(p) /\ pc[p] # "partition") => process_rank <= Below(p)
  /\ \A p \in Bound : ret[p] \in Slot /\ ret[p] < process_rank
  /\ \A p, q \in Bound : p < q => ret[p] < ret[q]

\* What was handed to a rank is not available any more, nor any other rank's; who is bound
\* is bound to what its rank was handed.  (Bit StrayCpu is set behind everyone's back.)
DisjointInv ==
  /\ Open => \A r \in Slot : affinities[r] = {}
  /\ \A r \in Slot : affinities[r] \cap cpus_available \subseteq {StrayCpu}
  /\ \A r, t \in Slot : r # t => affinities[r] \cap affinities[t] \subseteq {StrayCpu}
  /\ \A p \in Bound : mask[p] \subseteq affinities[ret[p]]

-----------------------------------------------------------------------------
USE DEF Slot, Nil, NoProc, CpuSet, Control, HasLock, InWait, Ended, Goto,
        groupVars, initVars, listVars, cpuVars, walkVars, EINVAL, ENOMEM, ETIMEDOUT

\* The size of the only job is the number of processes.
LEMMA SizeOfJob ==
  ASSUME OneJob
  PROVE  /\ SamePpn
         /\ N = Cardinality(Proc)
         /\ N \in 2 .. MaxProcesses
<1>1. SamePpn
  BY DEF OneJob, SamePpn
<1>2. N = Cardinality(Proc)
  BY ProcAssumption DEF OneJob, N
<1> QED
  BY <1>1, <1>2, SizeOfN

\* PIDs are compared as numbers, and none is 0.
LEMMA PidsAreNumbers ==
  ASSUME TypeInv
  PROVE  /\ \A s \in Slot : pid[s] \in Nat
         /\ \A p \in Proc : p \in Nat /\ p # 0
         /\ \A s \in Slot : pid[s] # 0 => pid[s] \in Proc /\ my_i[pid[s]] = s
         /\ \A p \in Proc : my_i[p] \in Slot \cup {Nil} /\ (my_i[p] # Nil => pid[my_i[p]] = p)
         /\ \A s \in Slot : next_process_ind[s] \in Slot \cup {Nil}
         /\ first_process_ind \in Slot \cup {Nil}
         /\ \A p \in Proc : i[p] \in Slot \cup {Nil} /\ prev_i[p] \in Slot \cup {Nil}
<1>1. \A s \in Slot : pid[s] \in Proc \cup {0}
  BY DEF TypeInv, TypeOK
<1>2. \A p \in Proc : p \in Nat /\ p # 0
  BY ProcAssumption
<1>3. \A s \in Slot : pid[s] \in Nat
  BY <1>1, <1>2
<1> QED
  BY <1>1, <1>2, <1>3 DEF TypeInv, TypeOK, SlotInv

\* A group that is complete stays so: slots are not given back.
LEMMA OpenShrinks ==
  ASSUME TypeInv, [Next]_vars, Open'
  PROVE  Open
<1> SUFFICES ASSUME \A q \in Proc : my_i[q] # Nil /\ pc[q] \notin {"walk", "dispatch"}
             PROVE  FALSE
  BY DEF Open
<1>1. ASSUME NEW p \in Proc, Step(p)
      PROVE  \A q \in Proc : my_i'[q] # Nil /\ pc'[q] \notin {"walk", "dispatch"}
  <2>1. pc[p] \notin {"start", "lock", "register", "walk", "dispatch"}
    BY DEF TypeInv, SlotInv
  <2>2. \/ Reacquire(p) \/ Resume(p) \/ AbortNext(p) \/ AbortDone(p) \/ TakeTurn(p)
        \/ Collect(p) \/ PartitionRank(p) \/ PartitionFails(p) \/ PartitionDone(p) \/ EndGroup(p)
        \/ WakeNext(p) \/ Bind(p) \/ Unlock(p)
    BY <1>1, <2>1 DEF Step, Create, Attach, Discover, Lock, Mismatch, Register, Walk, Insert,
          WakeFirst, Wait
  <2>3. CASE Reacquire(p)
    BY <2>3 DEF TypeInv, TypeOK, Reacquire
  <2>4. CASE Resume(p)
    BY <2>4 DEF TypeInv, TypeOK, Resume
  <2>5. CASE AbortNext(p)
    BY <2>5 DEF TypeInv, TypeOK, AbortNext, SignalAndGoto
  <2>6. CASE AbortDone(p)
    BY <2>6 DEF TypeInv, TypeOK, AbortDone
  <2>7. CASE TakeTurn(p)
    BY <2>7 DEF TypeInv, TypeOK, TakeTurn
  <2>8. CASE Collect(p)
    BY <2>8 DEF TypeInv, TypeOK, Collect
  <2>9. CASE PartitionRank(p)
    BY <2>9 DEF TypeInv, TypeOK, PartitionRank
  <2>10. CASE PartitionFails(p)
    BY <2>10 DEF TypeInv, TypeOK, PartitionFails
  <2>11. CASE PartitionDone(p)
    BY <2>11 DEF TypeInv, TypeOK, PartitionDone
  <2>12. CASE EndGroup(p)
    BY <2>12 DEF TypeInv, TypeOK, EndGroup
  <2>13. CASE WakeNext(p)
    <3>1. my_i' = my_i /\ pc \in [Proc -> Control]
      BY <2>13 DEF TypeInv, TypeOK, WakeNext
    <3>2. \A q \in Proc : pc'[q] \in {pc[q], "bind", "signalled"}
      <4>1. CASE first_process_ind # Nil
        BY <2>13, <4>1 DEF WakeNext, SignalAndGoto
      <4>2. CASE first_process_ind = Nil
        BY <2>13, <3>1, <4>2 DEF WakeNext
      <4> QED
        BY <4>1, <4>2
    <3> QED
      BY <3>1, <3>2
  <2>14. CASE Bind(p)
    BY <2>14 DEF TypeInv, TypeOK, Bind
  <2>15. CASE Unlock(p)
    BY <2>15 DEF TypeInv, TypeOK, Unlock
  <2> QED
    BY <2>2, <2>3, <2>4, <2>5, <2>6, <2>7, <2>8, <2>9,
       <2>10, <2>11, <2>12, <2>13, <2>14, <2>15
<1>2. ASSUME NEW p \in Proc, TimeOut(p) \/ SpuriousWakeup(p) \/ Kill(p)
      PROVE  \A q \in Proc : my_i'[q] # Nil /\ pc'[q] \notin {"walk", "dispatch"}
  BY <1>2 DEF TypeInv, TypeOK, TimeOut, SpuriousWakeup, Kill
<1>3. CASE UNCHANGED vars
  BY <1>3 DEF vars, Open
<1> QED
  BY <1>1, <1>2, <1>3 DEF Next, Finished, Open

\* Nobody has the turn before the last process of the job has its slot.
LEMMA TurnMeansAll ==
  ASSUME OneJob, TypeInv, CountInv, NEW p \in Proc,
         pc[p] \in Granted \/ Cardinality(Registered) >= N
  PROVE  \A q \in Proc : my_i[q] # Nil
<1>1. Cardinality(Registered) >= N
  BY SizeOfJob, SetsAreFinite DEF CountInv, EarlyInv
<1>2. Registered \subseteq Proc
  BY DEF Registered
<1>3. Cardinality(Registered) <= Cardinality(Proc) /\ Cardinality(Proc) \in Nat
  BY <1>2, ProcAssumption, FS_Subset, FS_CardinalityType
<1>4. Cardinality(Registered) = Cardinality(Proc)
  BY <1>1, <1>3, SizeOfJob, SetsAreFinite
<1>5. Registered = Proc
  BY <1>2, <1>4, ProcAssumption, FS_Subset
<1> QED
  BY <1>5 DEF Registered

-----------------------------------------------------------------------------
\* A step that leaves the list and its walkers alone.
LEMMA ListKept ==
  ASSUME TypeInv, ListInv, Open' => Open,
         pid' = pid, next_process_ind' = next_process_ind, my_i' = my_i,
         first_process_ind' = first_process_ind, i' = i, prev_i' = prev_i,
         \A q \in Proc : pc'[q] = "walk" => pc[q] = "walk"
  PROVE  ListInv'
<1>1. SortedList'
  BY DEF ListInv, SortedList
<1> QED
  BY <1>1 DEF ListInv

\* A step that takes the first item off.
LEMMA ListPopped ==
  ASSUME TypeInv, ListInv, Open' => Open,
         pid' = pid, next_process_ind' = next_process_ind, my_i' = my_i,
         first_process_ind # Nil,
         first_process_ind' = next_process_ind[first_process_ind],
         \A q \in Proc : pc'[q] # "walk"
  PROVE  ListInv'
<1>1. SortedList'
  BY DEF ListInv, SortedList
<1>2. first_process_ind' # Nil => pid[first_process_ind'] # 0
  BY PidsAreNumbers DEF ListInv, SortedList
<1> QED
  BY <1>1, <1>2 DEF ListInv

\* There is no list yet.
LEMMA ListInit == Init => ListInv
  BY DEF Init, ListInv, SortedList

\* A new item leads nowhere, and nothing leads to it.
LEMMA ListRegister ==
  ASSUME TypeInv, ListInv, NEW p \in Proc, Register(p)
  PROVE  ListInv'
<1> DEFINE s == FreeSlot
<1>1. my_i[p] = Nil /\ s \in Slot /\ pid[s] = 0
  BY FreeSlotExists DEF TypeInv, SlotInv, Register
<1> HIDE DEF s
<1>2. /\ pid' = [pid EXCEPT ![s] = p]
      /\ next_process_ind' = [next_process_ind EXCEPT ![s] = Nil]
      /\ my_i' = [my_i EXCEPT ![p] = s]
      /\ pc[p] = "register"
  BY DEF Register, s
<1>3. \A t \in Slot : next_process_ind[t] # s
  BY <1>1, PidsAreNumbers DEF ListInv, SortedList
<1>4. Open
  BY <1>1 DEF Open
<1>5. first_process_ind # s
  BY <1>1, <1>4, PidsAreNumbers DEF ListInv
<1>6. SortedList'
  BY <1>1, <1>2, <1>3 DEF ListInv, SortedList, TypeInv, TypeOK
<1>7. \A q \in Proc : q # p => pc'[q] = pc[q] /\ pc[q] # "walk"
  BY DEF Register, TypeInv, TypeOK, LockInv
<1>8. pc'[p] = "walk" => /\ first_process_ind' = first_process_ind
                         /\ i'[p] = first_process_ind
                         /\ prev_i'[p] = Nil
  BY DEF Register, TypeInv, TypeOK
<1>9. first_process_ind' \in {first_process_ind, s}
  BY DEF Register, s
<1>10. (first_process_ind' # Nil) => pid'[first_process_ind'] # 0
  BY <1>1, <1>2, <1>4, <1>5, <1>9, ProcAssumption DEF ListInv, TypeInv, TypeOK
<1> QED
  BY <1>1, <1>2, <1>3, <1>5, <1>6, <1>7, <1>8, <1>10 DEF ListInv, TypeInv, TypeOK

\* The item that is passed has a smaller PID, and its link gives the next one to look at.
LEMMA ListWalk ==
  ASSUME TypeInv, ListInv, NEW p \in Proc, Walk(p)
  PROVE  ListInv'
<1>1. /\ pc[p] = "walk" /\ i[p] \in Slot /\ pid[i[p]] <= p
      /\ i[p] # my_i[p] /\ my_i[p] \in Slot
  <2>1. pc[p] = "walk" /\ i[p] # Nil /\ ~(pid[i[p]] > p)
    BY DEF Walk, LargerPid
  <2>2. my_i[p] \in Slot
    BY <2>1, PidsAreNumbers DEF TypeInv, SlotInv
  <2>3. i[p] # my_i[p]
    BY <2>1, PidsAreNumbers DEF ListInv
  <2> QED
    BY <2>1, <2>2, <2>3, PidsAreNumbers
<1>2. pid[i[p]] # p
  BY <1>1, PidsAreNumbers
<1>3. Open
  BY <1>1 DEF Open
<1>4. pid[i[p]] # 0
  <2>1. CASE prev_i[p] = Nil
    BY <1>1, <1>3, <2>1 DEF ListInv
  <2>2. CASE prev_i[p] # Nil
    <3>1. i[p] = next_process_ind[prev_i[p]] /\ prev_i[p] \in Slot
      BY <1>1, <2>2, PidsAreNumbers DEF ListInv
    <3>2. pid[prev_i[p]] < pid[i[p]]
      BY <1>1, <3>1 DEF ListInv, SortedList
    <3> QED
      BY <1>1, <3>1, <3>2, PidsAreNumbers
  <2> QED
    BY <2>1, <2>2
<1>5. pid[i[p]] < p
  BY <1>1, <1>2, PidsAreNumbers
<1>6. \A q \in Proc : q # p => pc[q] # "walk"
  BY <1>1 DEF TypeInv, LockInv
<1>7. SortedList'
  BY DEF ListInv, SortedList, Walk
<1>8. i'[p] = next_process_ind[i[p]] /\ prev_i'[p] = i[p]
  BY DEF Walk, TypeInv, TypeOK
<1> QED
  BY <1>1, <1>3, <1>4, <1>5, <1>6, <1>7, <1>8 DEF ListInv, Walk, Open

\* The new item goes between prev_i, which is smaller, and i, which is larger or no item.
LEMMA ListInsert ==
  ASSUME TypeInv, ListInv, NEW p \in Proc, Insert(p)
  PROVE  ListInv'
<1>1. /\ pc[p] = "walk" /\ my_i[p] \in Slot /\ pid[my_i[p]] = p
      /\ i[p] # Nil => pid[i[p]] > p
      /\ pid' = pid /\ my_i' = my_i
      /\ i[p] \in Slot \cup {Nil} /\ prev_i[p] \in Slot \cup {Nil}
  BY DEF Insert, LargerPid, TypeInv, TypeOK, SlotInv
<1>2. \A q \in Proc : q # p => pc[q] # "walk"
  BY <1>1 DEF TypeInv, LockInv
<1>3. \A q \in Proc : pc'[q] # "walk"
  BY <1>2 DEF Insert, TypeInv, TypeOK
<1>4. CASE prev_i[p] = Nil
  <2>1. /\ next_process_ind' = [next_process_ind EXCEPT ![my_i[p]] = i[p]]
        /\ first_process_ind' = my_i[p]
    BY <1>1, <1>4 DEF ListInv, Insert
  <2>2. SortedList'
    BY <1>1, <2>1, ProcAssumption DEF ListInv, SortedList, TypeInv, TypeOK
  <2> QED
    BY <1>1, <1>3, <2>1, <2>2, ProcAssumption DEF ListInv
<1>5. CASE prev_i[p] # Nil
  <2>1. /\ next_process_ind' = [next_process_ind EXCEPT ![my_i[p]] = i[p],
                                                        ![prev_i[p]] = my_i[p]]
        /\ first_process_ind' = first_process_ind
        /\ pid[prev_i[p]] # 0 /\ pid[prev_i[p]] < p
    BY <1>1, <1>5 DEF ListInv, Insert
  <2>2. SortedList'
    <3>1. p \in Nat /\ p # 0 /\ \A s \in Slot : pid[s] \in Nat
      BY PidsAreNumbers
    <3>2. \A s \in Slot : next_process_ind'[s] = IF s = prev_i[p] THEN my_i[p]
                                                 ELSE IF s = my_i[p] THEN i[p]
                                                 ELSE next_process_ind[s]
      BY <2>1 DEF TypeInv, TypeOK
    <3>3. SortedList
      BY DEF ListInv
    <3> SUFFICES ASSUME NEW s \in Slot, next_process_ind'[s] # Nil
                 PROVE  pid[s] # 0 /\ pid[s] < pid[next_process_ind'[s]]
      BY <1>1 DEF SortedList
    <3>4. CASE s = prev_i[p]
      BY <1>1, <2>1, <3>2, <3>4
    <3>5. CASE s # prev_i[p] /\ s = my_i[p]
      BY <1>1, <3>1, <3>2, <3>5
    <3>6. CASE s # prev_i[p] /\ s # my_i[p]
      BY <3>2, <3>3, <3>6 DEF SortedList
    <3> QED
      BY <3>4, <3>5, <3>6
  <2>3. Open
    BY <1>1 DEF Open
  <2> QED
    BY <1>1, <1>3, <2>1, <2>2, <2>3 DEF ListInv
<1> QED
  BY <1>4, <1>5

\* The list stays in order whatever a process or its environment does.
LEMMA ListStep ==
  ASSUME OneJob, TypeInv, CountInv, ListInv, [Next]_vars
  PROVE  ListInv'
<1> Open' => Open
  BY OpenShrinks
<1>1. ASSUME NEW p \in Proc, Create(p)
      PROVE  ListInv'
  BY <1>1, ListKept DEF TypeInv, TypeOK, Create
<1>2. ASSUME NEW p \in Proc, Attach(p)
      PROVE  ListInv'
  BY <1>2, ListKept DEF TypeInv, TypeOK, Attach
<1>3. ASSUME NEW p \in Proc, Discover(p)
      PROVE  ListInv'
  BY <1>3, ListKept DEF TypeInv, TypeOK, Discover
<1>4. ASSUME NEW p \in Proc, Lock(p)
      PROVE  ListInv'
  BY <1>4, ListKept DEF TypeInv, TypeOK, Lock
<1>5. ASSUME NEW p \in Proc, Mismatch(p)
      PROVE  ListInv'
  BY <1>5, ListKept DEF TypeInv, TypeOK, Mismatch
<1>6. ASSUME NEW p \in Proc, Wait(p)
      PROVE  ListInv'
  BY <1>6, ListKept DEF TypeInv, TypeOK, Wait
<1>7. ASSUME NEW p \in Proc, Reacquire(p)
      PROVE  ListInv'
  BY <1>7, ListKept DEF TypeInv, TypeOK, Reacquire
<1>8. ASSUME NEW p \in Proc, Resume(p)
      PROVE  ListInv'
  BY <1>8, ListKept DEF TypeInv, TypeOK, Resume
<1>9. ASSUME NEW p \in Proc, AbortDone(p)
      PROVE  ListInv'
  BY <1>9, ListKept DEF TypeInv, TypeOK, AbortDone, ResetGroup
<1>10. ASSUME NEW p \in Proc, TakeTurn(p)
      PROVE  ListInv'
  BY <1>10, ListKept DEF TypeInv, TypeOK, TakeTurn
<1>11. ASSUME NEW p \in Proc, Collect(p)
      PROVE  ListInv'
  BY <1>11, ListKept DEF TypeInv, TypeOK, Collect
<1>12. ASSUME NEW p \in Proc, PartitionRank(p)
      PROVE  ListInv'
  BY <1>12, ListKept DEF TypeInv, TypeOK, PartitionRank
<1>13. ASSUME NEW p \in Proc, PartitionFails(p)
      PROVE  ListInv'
  BY <1>13, ListKept DEF TypeInv, TypeOK, PartitionFails
<1>14. ASSUME NEW p \in Proc, PartitionDone(p)
      PROVE  ListInv'
  BY <1>14, ListKept DEF TypeInv, TypeOK, PartitionDone
<1>15. ASSUME NEW p \in Proc, EndGroup(p)
      PROVE  ListInv'
  BY <1>15, ListKept DEF TypeInv, TypeOK, EndGroup, ResetGroup
<1>16. ASSUME NEW p \in Proc, Bind(p)
      PROVE  ListInv'
  BY <1>16, ListKept DEF TypeInv, TypeOK, Bind
<1>17. ASSUME NEW p \in Proc, Unlock(p)
      PROVE  ListInv'
  BY <1>17, ListKept DEF TypeInv, TypeOK, Unlock
<1>18. ASSUME NEW p \in Proc, TimeOut(p)
      PROVE  ListInv'
  BY <1>18, ListKept DEF TypeInv, TypeOK, TimeOut
<1>19. ASSUME NEW p \in Proc, SpuriousWakeup(p)
      PROVE  ListInv'
  BY <1>19, ListKept DEF TypeInv, TypeOK, SpuriousWakeup
<1>20. ASSUME NEW p \in Proc, Kill(p)
      PROVE  ListInv'
  BY <1>20, ListKept DEF TypeInv, TypeOK, Kill
<1>21. ASSUME NEW p \in Proc, WakeFirst(p)
      PROVE  ListInv'
  <2>1. first_process_ind # Nil /\ first_process_ind' = next_process_ind[first_process_ind]
    BY <1>21 DEF TypeInv, FirstInv, WakeFirst
  <2>2. \A q \in Proc : pc'[q] # "walk"
    BY <1>21 DEF TypeInv, TypeOK, LockInv, WakeFirst, SignalAndGoto
  <2> QED
    BY <1>21, <2>1, <2>2, ListPopped DEF WakeFirst
<1>22. ASSUME NEW p \in Proc, AbortNext(p)
      PROVE  ListInv'
  <2>1. \A q \in Proc : pc'[q] # "walk"
    BY <1>22 DEF TypeInv, TypeOK, LockInv, AbortNext, SignalAndGoto
  <2> QED
    BY <1>22, <2>1, ListPopped DEF AbortNext
<1>23. ASSUME NEW p \in Proc, WakeNext(p)
      PROVE  ListInv'
  <2>1. \A q \in Proc : pc[q] \notin {"walk", "dispatch"} /\ pc'[q] \notin {"walk", "dispatch"}
    BY <1>23 DEF TypeInv, TypeOK, LockInv, WakeNext, SignalAndGoto
  <2>2. CASE first_process_ind # Nil
    BY <1>23, <2>1, <2>2, ListPopped DEF WakeNext
  <2>3. CASE first_process_ind = Nil
    <3>1. \A q \in Proc : my_i[q] # Nil
      BY <1>23, TurnMeansAll DEF Granted, WakeNext
    <3>2. ~Open /\ ~Open'
      BY <2>1, <3>1 DEF Open
    <3>3. SortedList'
      BY <1>23 DEF WakeNext, ListInv, SortedList
    <3> QED
      BY <2>1, <3>2, <3>3 DEF ListInv
  <2> QED
    BY <2>2, <2>3
<1>24. CASE UNCHANGED vars
  BY <1>24, ListKept DEF vars
<1> QED
  BY ListRegister, ListWalk, ListInsert, <1>1, <1>2, <1>3, <1>4, <1>5, <1>6, <1>7, <1>8,
     <1>9, <1>10, <1>11, <1>12, <1>13, <1>14, <1>15, <1>16, <1>17, <1>18, <1>19,
     <1>20, <1>21, <1>22, <1>23, <1>24
     DEF Next, Step, Finished

-----------------------------------------------------------------------------
\* Nobody has the turn yet.
LEMMA TurnInit == Init => TurnInv
<1> SUFFICES ASSUME Init
             PROVE  TurnInv
  OBVIOUS
<1>1. \A p \in Proc : ~HasTurn(p) /\ pc[p] = "start"
  BY DEF Init, HasTurn
<1>2. Bound = {}
  BY <1>1 DEF Bound
<1> QED
  BY <1>1, <1>2 DEF Init, TurnInv

\* A step by which nobody gets the turn, is about to be bound or is bound.
LEMMA TurnKept ==
  ASSUME TypeInv, TurnInv, Open' => Open, Bound' \subseteq Bound,
         ready' = ready, timeout' = timeout, pid' = pid,
         first_process_ind' = first_process_ind,
         \A q \in Proc : /\ HasTurn(q)' => HasTurn(q)
                         /\ pc'[q] = "bind" => pc[q] = "bind"
  PROVE  TurnInv'
<1>1. Open' => /\ Bound' = {}
               /\ \A q \in Proc : ~HasTurn(q)' /\ pc'[q] # "bind"
               /\ \A s \in Slot : ready'[s] => timeout'[s]
  BY DEF TurnInv
<1>2. \A q \in Proc : HasTurn(q)' /\ first_process_ind' # Nil => q < pid'[first_process_ind']
  BY DEF TurnInv
<1>3. \A q \in Proc, r \in Bound' : HasTurn(q)' \/ pc'[q] = "bind" => r < q
  BY DEF TurnInv
<1>4. \A q, r \in Proc : HasTurn(q)' /\ HasTurn(r)' => q = r
  BY DEF TurnInv
<1>5. \A q, r \in Proc : pc'[q] = "bind" /\ HasTurn(r)' => q < r
  BY DEF TurnInv
<1> QED
  BY <1>1, <1>2, <1>3, <1>4, <1>5 DEF TurnInv

\* Before the group is complete there is nothing more to show.
LEMMA TurnEarly ==
  ASSUME Bound' = {},
         \A q \in Proc : ~HasTurn(q)' /\ pc'[q] # "bind",
         \A s \in Slot : ready'[s] => timeout'[s]
  PROVE  TurnInv'
  BY DEF TurnInv

\* Emptying the list takes turns away and gives none.
LEMMA AbortTakes ==
  ASSUME TypeInv, NEW p \in Proc, AbortNext(p)
  PROVE  /\ Bound' \subseteq Bound
         /\ \A t \in Slot : ready'[t] => ready[t] \/ timeout'[t]
         /\ \A t \in Slot : timeout[t] => timeout'[t]
         /\ \A q \in Proc : HasTurn(q)' => HasTurn(q)
         /\ \A q \in Proc : pc'[q] \in {pc[q], "signalled", "abort"}
<1> DEFINE s == first_process_ind
<1>1. s \in Slot /\ pc[p] = "abort"
  BY DEF TypeInv, TypeOK, AbortNext
<1>2. /\ \A t \in Slot : ready'[t] => ready[t] \/ timeout'[t]
      /\ \A t \in Slot : timeout[t] => timeout'[t]
  <2>1. CASE pid[s] = p
    BY <2>1 DEF AbortNext
  <2>2. CASE pid[s] # p
    <3>1. /\ ready' = [ready EXCEPT ![s] = TRUE]
          /\ timeout' = [timeout EXCEPT ![s] = TRUE]
      BY <2>2 DEF AbortNext
    <3>2. ready \in [Slot -> BOOLEAN] /\ timeout \in [Slot -> BOOLEAN]
      BY DEF TypeInv, TypeOK
    <3> QED
      BY <1>1, <3>1, <3>2
  <2> QED
    BY <2>1, <2>2
<1>3. /\ \A q \in Proc : \/ pc'[q] = pc[q]
                         \/ pc[q] = "waiting" /\ pc'[q] = "signalled"
      /\ ret' = ret /\ my_i' = my_i
  BY <1>1 DEF TypeInv, TypeOK, AbortNext, SignalAndGoto
<1>4. Bound' \subseteq Bound
  BY <1>3 DEF Bound
<1>5. \A q \in Proc : pc[q] \in InWait \cup {"resume"} => my_i[q] \in Slot
  BY DEF TypeInv, TypeOK, SlotInv
<1>6. \A q \in Proc : HasTurn(q)' => HasTurn(q)
  BY <1>2, <1>3, <1>5 DEF HasTurn
<1> QED
  BY <1>2, <1>3, <1>4, <1>6

\* WakeFirst gives the turn to the first of the list.
LEMMA TurnToFirst ==
  ASSUME TypeInv, ListInv, TurnInv, NEW p \in Proc, WakeFirst(p)
  PROVE  /\ first_process_ind \in Slot
         /\ pid[first_process_ind] \in Proc /\ my_i[pid[first_process_ind]] = first_process_ind
         /\ \A q \in Proc : HasTurn(q)' => q = pid[first_process_ind]
<1> DEFINE s == first_process_ind
<1>1. s \in Slot /\ Open
  BY DEF TypeInv, TypeOK, FirstInv, Open, WakeFirst
<1>2. pid[s] \in Proc /\ my_i[pid[s]] = s
  BY <1>1, PidsAreNumbers DEF ListInv
<1>3. ASSUME NEW q \in Proc, HasTurn(q)'
      PROVE  q = pid[s]
  <2>1. CASE q = p
    <3>1. my_i[p] \in Slot /\ pid[my_i[p]] = p
      BY PidsAreNumbers DEF TypeInv, SlotInv, WakeFirst
    <3>2. my_i[p] # s => pc'[p] = "waiting"
      BY DEF WakeFirst, SignalAndGoto
    <3>3. my_i[p] # s => ready'[my_i[p]] = ready[my_i[p]]
      BY <3>1, <1>1 DEF TypeInv, TypeOK, WakeFirst
    <3>4. my_i[p] # s => ~HasTurn(p)'
      BY <1>1, <3>1, <3>2, <3>3 DEF TurnInv, HasTurn, WakeFirst
    <3> QED
      BY <1>3, <2>1, <3>1, <3>4
  <2>2. CASE q # p
    <3>1. pc'[q] = (IF pc[q] = "waiting" /\ my_i[q] = s THEN "signalled" ELSE pc[q])
      BY <2>2 DEF WakeFirst, SignalAndGoto
    <3>2. ~HasTurn(q)
      BY <1>1 DEF TurnInv
    <3>3. /\ pc'[q] \in InWait \cup {"resume"} /\ pc[q] \in InWait \cup {"resume"}
          /\ ready'[my_i[q]] /\ ~timeout[my_i[q]]
      BY <1>3, <3>1, <3>2 DEF HasTurn, WakeFirst
    <3>4. my_i[q] \in Slot /\ pid[my_i[q]] = q
      BY <3>3, PidsAreNumbers DEF TypeInv, SlotInv
    <3>5. my_i[q] = s
      BY <1>1, <3>2, <3>3, <3>4 DEF TypeInv, TypeOK, HasTurn, WakeFirst
    <3> QED
      BY <3>4, <3>5
  <2> QED
    BY <2>1, <2>2
<1> QED
  BY <1>1, <1>2, <1>3

\* WakeNext gives it to the first of what is left of the list, if anything is.
LEMMA TurnToNext ==
  ASSUME TypeInv, TurnInv, NEW p \in Proc, WakeNext(p), NEW q \in Proc, HasTurn(q)'
  PROVE  /\ first_process_ind \in Slot
         /\ q = pid[first_process_ind] /\ my_i[q] = first_process_ind
         /\ p < q
         /\ pc'[q] \in InWait
<1> DEFINE s == first_process_ind
<1>1. HasTurn(p)
  BY DEF WakeNext, HasTurn
<1>2. q # p /\ ~HasTurn(q)
  BY <1>1 DEF TypeInv, TypeOK, TurnInv, HasTurn, WakeNext, SignalAndGoto
<1>3. /\ pc[q] \in InWait \cup {"resume"} /\ ready'[my_i[q]] /\ ~timeout[my_i[q]]
      /\ pc[q] # "resume" /\ pc'[q] \in InWait
  BY <1>2 DEF TypeInv, TypeOK, LockInv, HasTurn, WakeNext, SignalAndGoto
<1>4. my_i[q] \in Slot /\ pid[my_i[q]] = q
  BY <1>3, PidsAreNumbers DEF TypeInv, SlotInv
<1>5. s # Nil /\ my_i[q] = s
  BY <1>2, <1>3, <1>4 DEF TypeInv, TypeOK, HasTurn, WakeNext
<1> QED
  BY <1>1, <1>3, <1>4, <1>5 DEF TurnInv

\* The turn is passed on by one process, to one process, in PID order.
LEMMA TurnStep ==
  ASSUME OneJob, TypeInv, CountInv, ListInv, TurnInv, [Next]_vars
  PROVE  TurnInv'
<1> Open' => Open
  BY OpenShrinks
<1>1. ASSUME NEW p \in Proc, Create(p)
      PROVE  TurnInv'
  <2>1. \A q \in Proc : /\ HasTurn(q)' => HasTurn(q)
                        /\ pc'[q] = "bind" => pc[q] = "bind"
    BY <1>1 DEF TypeInv, TypeOK, SlotInv, HasTurn, Create
  <2>2. Bound' \subseteq Bound
    BY <1>1 DEF TypeInv, TypeOK, Bound, Create
  <2> QED
    BY <1>1, <2>1, <2>2, TurnKept DEF Create
<1>2. ASSUME NEW p \in Proc, Attach(p)
      PROVE  TurnInv'
  <2>1. \A q \in Proc : /\ HasTurn(q)' => HasTurn(q)
                        /\ pc'[q] = "bind" => pc[q] = "bind"
    BY <1>2 DEF TypeInv, TypeOK, SlotInv, HasTurn, Attach
  <2>2. Bound' \subseteq Bound
    BY <1>2 DEF TypeInv, TypeOK, Bound, Attach
  <2> QED
    BY <1>2, <2>1, <2>2, TurnKept DEF Attach
<1>3. ASSUME NEW p \in Proc, Discover(p)
      PROVE  TurnInv'
  <2>1. \A q \in Proc : /\ HasTurn(q)' => HasTurn(q)
                        /\ pc'[q] = "bind" => pc[q] = "bind"
    BY <1>3 DEF TypeInv, TypeOK, SlotInv, HasTurn, Discover
  <2>2. Bound' \subseteq Bound
    BY <1>3 DEF TypeInv, TypeOK, Bound, Discover
  <2> QED
    BY <1>3, <2>1, <2>2, TurnKept DEF Discover
<1>4. ASSUME NEW p \in Proc, Lock(p)
      PROVE  TurnInv'
  <2>1. \A q \in Proc : /\ HasTurn(q)' => HasTurn(q)
                        /\ pc'[q] = "bind" => pc[q] = "bind"
    BY <1>4 DEF TypeInv, TypeOK, SlotInv, HasTurn, Lock
  <2>2. Bound' \subseteq Bound
    BY <1>4 DEF TypeInv, TypeOK, Bound, Lock
  <2> QED
    BY <1>4, <2>1, <2>2, TurnKept DEF Lock
<1>5. ASSUME NEW p \in Proc, Mismatch(p)
      PROVE  TurnInv'
  <2>1. \A q \in Proc : /\ HasTurn(q)' => HasTurn(q)
                        /\ pc'[q] = "bind" => pc[q] = "bind"
    BY <1>5 DEF TypeInv, TypeOK, SlotInv, HasTurn, Mismatch
  <2>2. Bound' \subseteq Bound
    BY <1>5 DEF TypeInv, TypeOK, Bound, Mismatch
  <2> QED
    BY <1>5, <2>1, <2>2, TurnKept DEF Mismatch
<1>6. ASSUME NEW p \in Proc, Walk(p)
      PROVE  TurnInv'
  <2>1. \A q \in Proc : /\ HasTurn(q)' => HasTurn(q)
                        /\ pc'[q] = "bind" => pc[q] = "bind"
    BY <1>6 DEF TypeInv, TypeOK, SlotInv, HasTurn, Walk
  <2>2. Bound' \subseteq Bound
    BY <1>6 DEF TypeInv, TypeOK, Bound, Walk
  <2> QED
    BY <1>6, <2>1, <2>2, TurnKept DEF Walk
<1>7. ASSUME NEW p \in Proc, Wait(p)
      PROVE  TurnInv'
  <2>1. \A q \in Proc : /\ HasTurn(q)' => HasTurn(q)
                        /\ pc'[q] = "bind" => pc[q] = "bind"
    BY <1>7 DEF TypeInv, TypeOK, SlotInv, HasTurn, Wait, TurnInv, Open
  <2>2. Bound' \subseteq Bound
    BY <1>7 DEF TypeInv, TypeOK, Bound, Wait
  <2> QED
    BY <1>7, <2>1, <2>2, TurnKept DEF Wait
<1>8. ASSUME NEW p \in Proc, Reacquire(p)
      PROVE  TurnInv'
  <2>1. \A q \in Proc : /\ HasTurn(q)' => HasTurn(q)
                        /\ pc'[q] = "bind" => pc[q] = "bind"
    BY <1>8 DEF TypeInv, TypeOK, SlotInv, HasTurn, Reacquire
  <2>2. Bound' \subseteq Bound
    BY <1>8 DEF TypeInv, TypeOK, Bound, Reacquire
  <2> QED
    BY <1>8, <2>1, <2>2, TurnKept DEF Reacquire
<1>9. ASSUME NEW p \in Proc, Resume(p)
      PROVE  TurnInv'
  <2>1. \A q \in Proc : /\ HasTurn(q)' => HasTurn(q)
                        /\ pc'[q] = "bind" => pc[q] = "bind"
    BY <1>9 DEF TypeInv, TypeOK, SlotInv, HasTurn, Resume
  <2>2. Bound' \subseteq Bound
    BY <1>9 DEF TypeInv, TypeOK, Bound, Resume
  <2> QED
    BY <1>9, <2>1, <2>2, TurnKept DEF Resume
<1>10. ASSUME NEW p \in Proc, AbortDone(p)
      PROVE  TurnInv'
  <2>1. \A q \in Proc : /\ HasTurn(q)' => HasTurn(q)
                        /\ pc'[q] = "bind" => pc[q] = "bind"
    BY <1>10 DEF TypeInv, TypeOK, SlotInv, HasTurn, AbortDone, ResetGroup
  <2>2. Bound' \subseteq Bound
    BY <1>10 DEF TypeInv, TypeOK, Bound, AbortDone, ResetGroup
  <2> QED
    BY <1>10, <2>1, <2>2, TurnKept DEF AbortDone, ResetGroup
<1>11. ASSUME NEW p \in Proc, TakeTurn(p)
      PROVE  TurnInv'
  <2>1. \A q \in Proc : /\ HasTurn(q)' => HasTurn(q)
                        /\ pc'[q] = "bind" => pc[q] = "bind"
    BY <1>11 DEF TypeInv, TypeOK, SlotInv, HasTurn, TakeTurn
  <2>2. Bound' \subseteq Bound
    BY <1>11 DEF TypeInv, TypeOK, Bound, TakeTurn
  <2> QED
    BY <1>11, <2>1, <2>2, TurnKept DEF TakeTurn
<1>12. ASSUME NEW p \in Proc, Collect(p)
      PROVE  TurnInv'
  <2>1. \A q \in Proc : /\ HasTurn(q)' => HasTurn(q)
                        /\ pc'[q] = "bind" => pc[q] = "bind"
    BY <1>12 DEF TypeInv, TypeOK, SlotInv, HasTurn, Collect
  <2>2. Bound' \subseteq Bound
    BY <1>12 DEF TypeInv, TypeOK, Bound, Collect
  <2> QED
    BY <1>12, <2>1, <2>2, TurnKept DEF Collect
<1>13. ASSUME NEW p \in Proc, PartitionRank(p)
      PROVE  TurnInv'
  <2>1. \A q \in Proc : /\ HasTurn(q)' => HasTurn(q)
                        /\ pc'[q] = "bind" => pc[q] = "bind"
    BY <1>13 DEF TypeInv, TypeOK, SlotInv, HasTurn, PartitionRank
  <2>2. Bound' \subseteq Bound
    BY <1>13 DEF TypeInv, TypeOK, Bound, PartitionRank
  <2> QED
    BY <1>13, <2>1, <2>2, TurnKept DEF PartitionRank
<1>14. ASSUME NEW p \in Proc, PartitionFails(p)
      PROVE  TurnInv'
  <2>1. \A q \in Proc : /\ HasTurn(q)' => HasTurn(q)
                        /\ pc'[q] = "bind" => pc[q] = "bind"
    BY <1>14 DEF TypeInv, TypeOK, SlotInv, HasTurn, PartitionFails
  <2>2. Bound' \subseteq Bound
    BY <1>14 DEF TypeInv, TypeOK, Bound, PartitionFails
  <2> QED
    BY <1>14, <2>1, <2>2, TurnKept DEF PartitionFails
<1>15. ASSUME NEW p \in Proc, PartitionDone(p)
      PROVE  TurnInv'
  <2>1. \A q \in Proc : /\ HasTurn(q)' => HasTurn(q)
                        /\ pc'[q] = "bind" => pc[q] = "bind"
    BY <1>15 DEF TypeInv, TypeOK, SlotInv, HasTurn, PartitionDone
  <2>2. Bound' \subseteq Bound
    BY <1>15 DEF TypeInv, TypeOK, Bound, PartitionDone
  <2> QED
    BY <1>15, <2>1, <2>2, TurnKept DEF PartitionDone
<1>16. ASSUME NEW p \in Proc, Unlock(p)
      PROVE  TurnInv'
  <2>1. \A q \in Proc : /\ HasTurn(q)' => HasTurn(q)
                        /\ pc'[q] = "bind" => pc[q] = "bind"
    BY <1>16 DEF TypeInv, TypeOK, SlotInv, HasTurn, Unlock
  <2>2. Bound' \subseteq Bound
    BY <1>16 DEF TypeInv, TypeOK, Bound, Unlock
  <2> QED
    BY <1>16, <2>1, <2>2, TurnKept DEF Unlock
<1>17. ASSUME NEW p \in Proc, TimeOut(p)
      PROVE  TurnInv'
  <2>1. \A q \in Proc : /\ HasTurn(q)' => HasTurn(q)
                        /\ pc'[q] = "bind" => pc[q] = "bind"
    BY <1>17 DEF TypeInv, TypeOK, SlotInv, HasTurn, TimeOut
  <2>2. Bound' \subseteq Bound
    BY <1>17 DEF TypeInv, TypeOK, Bound, TimeOut
  <2> QED
    BY <1>17, <2>1, <2>2, TurnKept DEF TimeOut
<1>18. ASSUME NEW p \in Proc, SpuriousWakeup(p)
      PROVE  TurnInv'
  <2>1. \A q \in Proc : /\ HasTurn(q)' => HasTurn(q)
                        /\ pc'[q] = "bind" => pc[q] = "bind"
    BY <1>18 DEF TypeInv, TypeOK, SlotInv, HasTurn, SpuriousWakeup
  <2>2. Bound' \subseteq Bound
    BY <1>18 DEF TypeInv, TypeOK, Bound, SpuriousWakeup
  <2> QED
    BY <1>18, <2>1, <2>2, TurnKept DEF SpuriousWakeup
<1>19. ASSUME NEW p \in Proc, Kill(p)
      PROVE  TurnInv'
  <2>1. \A q \in Proc : /\ HasTurn(q)' => HasTurn(q)
                        /\ pc'[q] = "bind" => pc[q] = "bind"
    BY <1>19 DEF TypeInv, TypeOK, SlotInv, HasTurn, Kill
  <2>2. Bound' \subseteq Bound
    BY <1>19 DEF TypeInv, TypeOK, Bound, Kill
  <2> QED
    BY <1>19, <2>1, <2>2, TurnKept DEF Kill
<1>20. ASSUME NEW p \in Proc, Register(p)
      PROVE  TurnInv'
  <2>1. my_i[p] = Nil /\ FreeSlot \in Slot
    BY <1>20, FreeSlotExists DEF TypeInv, SlotInv, Register
  <2>2. Open
    BY <2>1 DEF Open
  <2>3. \A s \in Slot : ready'[s] => timeout'[s]
    BY <1>20, <2>1, <2>2 DEF TurnInv, TypeInv, TypeOK, Register
  <2>4. ASSUME NEW q \in Proc
        PROVE  ~HasTurn(q)' /\ pc'[q] # "bind" /\ q \notin Bound'
    <3>1. CASE q = p
      BY <1>20, <3>1 DEF TypeInv, TypeOK, HasTurn, Bound, Register
    <3>2. CASE q # p
      <4>1. pc'[q] = pc[q] /\ my_i'[q] = my_i[q] /\ ret'[q] = ret[q]
        BY <1>20, <3>2 DEF TypeInv, TypeOK, Register
      <4>2. pc[q] \in InWait \cup {"resume"} => my_i[q] \in Slot
        BY DEF TypeInv, TypeOK, SlotInv
      <4> QED
        BY <2>2, <2>3, <4>1, <4>2 DEF TurnInv, HasTurn, Bound
    <3> QED
      BY <3>1, <3>2
  <2> QED
    BY <2>3, <2>4, TurnEarly DEF Bound
<1>21. ASSUME NEW p \in Proc, Insert(p)
      PROVE  TurnInv'
  <2>1. Open
    BY <1>21 DEF Insert, Open
  <2>2. ASSUME NEW q \in Proc
        PROVE  ~HasTurn(q)' /\ pc'[q] # "bind" /\ q \notin Bound'
    BY <1>21, <2>1 DEF TypeInv, TypeOK, TurnInv, HasTurn, Bound, Insert
  <2> QED
    BY <1>21, <2>1, <2>2, TurnEarly DEF TurnInv, Bound, Insert
<1>22. ASSUME NEW p \in Proc, WakeFirst(p)
      PROVE  TurnInv'
  <2> DEFINE s == first_process_ind
  <2>1. s \in Slot /\ Open /\ pid[s] \in Proc /\ \A q \in Proc : HasTurn(q)' => q = pid[s]
    BY <1>22, TurnToFirst DEF Open, WakeFirst
  <2>2. \A q \in Proc : pc'[q] # "bind"
    BY <1>22, <2>1 DEF TypeInv, TypeOK, TurnInv, WakeFirst, SignalAndGoto
  <2>3. Bound' = {}
    BY <1>22, <2>1 DEF TypeInv, TypeOK, TurnInv, Bound, WakeFirst, SignalAndGoto
  <2>4. next_process_ind[s] # Nil => pid[s] < pid[next_process_ind[s]]
    BY <2>1 DEF ListInv, SortedList
  <2>5. \A q \in Proc : my_i'[q] # Nil
    <3>1. Cardinality(Registered) >= N
      BY <1>22, SizeOfJob, SetsAreFinite DEF CountInv, EarlyInv, GroupInv, WakeFirst
    <3> QED
      BY <1>22, <3>1, TurnMeansAll DEF WakeFirst
  <2>6. \A q \in Proc : pc'[q] \notin {"walk", "dispatch"}
    BY <1>22 DEF TypeInv, TypeOK, LockInv, WakeFirst, SignalAndGoto
  <2>7. ~Open'
    BY <2>5, <2>6 DEF Open
  <2> QED
    BY <1>22, <2>1, <2>2, <2>3, <2>4, <2>7 DEF TurnInv, WakeFirst
<1>23. ASSUME NEW p \in Proc, AbortNext(p)
      PROVE  TurnInv'
  <2> DEFINE s == first_process_ind
  <2>1. s \in Slot /\ s # Nil /\ first_process_ind' = next_process_ind[s] /\ pid' = pid
    BY <1>23 DEF TypeInv, TypeOK, AbortNext
  <2>2. /\ Bound' \subseteq Bound
        /\ \A t \in Slot : ready'[t] => ready[t] \/ timeout'[t]
        /\ \A t \in Slot : timeout[t] => timeout'[t]
        /\ \A q \in Proc : HasTurn(q)' => HasTurn(q)
        /\ \A q \in Proc : pc'[q] \in {pc[q], "signalled", "abort"}
    BY <1>23, AbortTakes
  <2>5. Open => \A t \in Slot : ready'[t] => timeout'[t]
    BY <2>2 DEF TurnInv
  <2>6. ASSUME NEW q \in Proc, HasTurn(q), next_process_ind[s] # Nil
        PROVE  q < pid[next_process_ind[s]]
    BY <2>1, <2>6, PidsAreNumbers DEF TurnInv, ListInv, SortedList
  <2> QED
    BY <2>1, <2>2, <2>5, <2>6 DEF TurnInv
<1>24. ASSUME NEW p \in Proc, EndGroup(p)
      PROVE  TurnInv'
  <2>1. HasTurn(p) /\ ~Open
    BY <1>24 DEF EndGroup, HasTurn, TurnInv
  <2>2. \A q \in Proc : ~HasTurn(q)'
    BY <1>24, <2>1 DEF TypeInv, TypeOK, TurnInv, HasTurn, EndGroup, ResetGroup
  <2>3. \A q \in Proc : pc'[q] = "bind" => q = p \/ pc[q] = "bind"
    BY <1>24 DEF TypeInv, TypeOK, EndGroup, ResetGroup
  <2>4. Bound' \subseteq Bound
    BY <1>24 DEF TypeInv, TypeOK, Bound, EndGroup, ResetGroup
  <2> QED
    BY <2>1, <2>2, <2>3, <2>4 DEF TurnInv
<1>25. ASSUME NEW p \in Proc, WakeNext(p)
      PROVE  TurnInv'
  <2> DEFINE s == first_process_ind
  <2>1. HasTurn(p) /\ ~Open
    BY <1>25 DEF WakeNext, HasTurn, TurnInv
  <2>2. \A q \in Proc : pc'[q] = "bind" => q = p
    BY <1>25 DEF TypeInv, TypeOK, LockInv, WakeNext, SignalAndGoto
  <2>3. Bound' \subseteq Bound
    <3>1. \A q \in Proc : pc'[q] \in {pc[q], "signalled", "bind"}
      BY <1>25 DEF TypeInv, TypeOK, WakeNext, SignalAndGoto
    <3> QED
      BY <1>25, <3>1 DEF Bound, WakeNext
  <2>4. s # Nil => s \in Slot /\ pid[s] \in Proc /\ p < pid[s]
    <3>1. s # Nil => p < pid[s]
      BY <2>1 DEF TurnInv
    <3> QED
      BY <3>1, PidsAreNumbers
  <2>5. ASSUME NEW q \in Proc, HasTurn(q)'
        PROVE  s # Nil /\ q = pid[s]
    BY <1>25, <2>5, TurnToNext
  <2>6. s # Nil /\ first_process_ind' # Nil => pid[s] < pid[first_process_ind']
    BY <1>25, <2>4 DEF ListInv, SortedList, WakeNext
  <2>7. \A q \in Bound : q < p
    BY <2>1 DEF TurnInv
  <2>8. pid' = pid /\ ~Open'
    BY <1>25, <2>1 DEF WakeNext
  <2>9. ASSUME NEW q \in Bound', NEW r \in Proc, HasTurn(r)'
        PROVE  q < r
    <3>1. q < p /\ p < r /\ q \in Proc
      BY <2>3, <2>4, <2>5, <2>7, <2>9 DEF Bound
    <3> QED
      BY <3>1, PidsAreNumbers
  <2> QED
    BY <2>2, <2>3, <2>4, <2>5, <2>6, <2>7, <2>8, <2>9 DEF TurnInv
<1>26. ASSUME NEW p \in Proc, Bind(p)
      PROVE  TurnInv'
  <2>1. pc[p] = "bind" /\ ~Open
    BY <1>26 DEF Bind, TurnInv
  <2>2. ASSUME NEW q \in Proc
        PROVE  /\ HasTurn(q)' => HasTurn(q)
               /\ pc'[q] # "bind"
    BY <1>26 DEF TypeInv, TypeOK, LockInv, HasTurn, Bind
  <2>3. Bound' \subseteq Bound \cup {p}
    BY <1>26 DEF TypeInv, TypeOK, Bound, Bind
  <2>4. ~Open' /\ UNCHANGED << first_process_ind, pid >>
    BY <1>26, <2>1 DEF Bind
  <2> QED
    BY <2>1, <2>2, <2>3, <2>4 DEF TurnInv
<1>27. CASE UNCHANGED vars
  BY <1>27, TurnKept DEF vars, HasTurn, Bound
<1> QED
  BY <1>1, <1>2, <1>3, <1>4, <1>5, <1>6, <1>7, <1>8, <1>9, <1>10, <1>11,
     <1>12, <1>13, <1>14, <1>15, <1>16, <1>17, <1>18, <1>19, <1>20, <1>21, <1>22,
     <1>23, <1>24, <1>25, <1>26, <1>27
     DEF Next, Step, Finished

-----------------------------------------------------------------------------
\* A larger PID has a larger position.
LEMMA BelowGrows ==
  ASSUME NEW p \in Proc
  PROVE  /\ Below(p) \in Nat
         /\ Below(p) < Cardinality(Proc)
         /\ \A q \in Proc : p < q => Below(p) + 1 <= Below(q)
<1> DEFINE B(x) == {q \in Proc : q < x}
<1>1. \A x \in Proc : IsFiniteSet(B(x)) /\ Cardinality(B(x)) \in Nat
  BY ProcAssumption, FS_Subset, FS_CardinalityType
<1>2. p \in Nat /\ p \notin B(p)
  BY ProcAssumption
<1>3. IsFiniteSet(B(p) \cup {p}) /\ Cardinality(B(p) \cup {p}) = Cardinality(B(p)) + 1
  BY <1>1, <1>2, FS_AddElement
<1>4. Cardinality(B(p)) + 1 <= Cardinality(Proc)
  BY <1>3, ProcAssumption, FS_Subset
<1>5. ASSUME NEW q \in Proc, p < q
      PROVE  Cardinality(B(p)) + 1 <= Cardinality(B(q))
  <2>1. ASSUME NEW x \in B(p) \cup {p}
        PROVE  x \in B(q)
    <3>1. x \in Proc /\ x \in Nat /\ p \in Nat /\ q \in Nat /\ x <= p
      BY ProcAssumption
    <3> QED
      BY <1>5, <3>1
  <2>2. Cardinality(B(p) \cup {p}) <= Cardinality(B(q))
    BY <1>1, <2>1, FS_Subset
  <2> QED
    BY <1>3, <2>2
<1>6. Cardinality(Proc) \in Nat
  BY ProcAssumption, FS_CardinalityType
<1> QED
  BY <1>1, <1>4, <1>5, <1>6 DEF Below

\* There are no ranks yet, and no CPUs handed out.
LEMMA RankInit == Init => RankInv /\ DisjointInv
<1> SUFFICES ASSUME Init
             PROVE  RankInv /\ DisjointInv
  OBVIOUS
<1>1. \A p \in Proc : ~HasTurn(p) /\ pc[p] = "start"
  BY DEF Init, HasTurn
<1>2. Bound = {}
  BY <1>1 DEF Bound
<1> QED
  BY <1>1, <1>2 DEF Init, RankInv, DisjointInv

\* A step that leaves process_rank and who may use it alone.
LEMMA RankKept ==
  ASSUME RankInv, Bound' \subseteq Bound, process_rank' = process_rank,
         \A q \in Bound' : ret'[q] = ret[q],
         \A q \in Proc :
           /\ pc'[q] \in {"collect", "partition"} => pc[q] \in {"collect", "partition"}
           /\ pc'[q] = "bind" => pc[q] = "bind"
           /\ HasTurn(q)' /\ pc'[q] # "partition" => HasTurn(q) /\ pc[q] # "partition"
  PROVE  RankInv'
<1>1. \A q \in Proc : Below(q)' = Below(q)
  BY DEF Below
<1>2. Bound' # {} => Bound # {}
  OBVIOUS
<1>3. \A q \in Proc : pc'[q] \in {"collect", "partition"} => Bound' = {}
  BY <1>2 DEF RankInv
<1>4. \A q \in Proc : pc'[q] = "bind" \/ (HasTurn(q)' /\ pc'[q] # "partition")
                       => process_rank' <= Below(q)'
  BY <1>1 DEF RankInv
<1>5. \A q \in Bound' : ret'[q] \in Slot /\ ret'[q] < process_rank'
  BY DEF RankInv
<1>6. \A q, r \in Bound' : q < r => ret'[q] < ret'[r]
  BY DEF RankInv
<1> QED
  BY <1>3, <1>4, <1>5, <1>6 DEF RankInv

\* Before the group is complete there is nothing to show, and that takes until the last
\* process is through its walk.
LEMMA RankEarly ==
  ASSUME TurnInv', Open'
  PROVE  RankInv'
  BY DEF TurnInv, RankInv

\* A process in one of these steps is one that keeps the group incomplete.
LEMMA EarlySteps ==
  ASSUME TypeInv, NEW p \in Proc,
         \/ Create(p) \/ Attach(p) \/ Discover(p) \/ Lock(p) \/ Mismatch(p) \/ Register(p)
         \/ Walk(p) \/ Insert(p)
  PROVE  Open /\ Open'
<1>1. CASE Create(p) \/ Attach(p) \/ Discover(p) \/ Lock(p) \/ Mismatch(p)
  BY <1>1 DEF TypeInv, SlotInv, Open, Create, Attach, Discover, Lock, Mismatch
<1>2. CASE Register(p)
  <2>1. pc'[p] \in {"walk", "dispatch"}
    BY <1>2 DEF TypeInv, TypeOK, Register
  <2> QED
    BY <1>2, <2>1 DEF TypeInv, SlotInv, Open, Register
<1>3. CASE Walk(p)
  BY <1>3 DEF Open, Walk
<1>4. CASE Insert(p)
  BY <1>4 DEF TypeInv, TypeOK, Open, Insert
<1> QED
  BY <1>1, <1>2, <1>3, <1>4

\* Ranks stay in order after every step.
LEMMA RankStep ==
  ASSUME OneJob, TypeInv, TypeInv', CountInv, ListInv, TurnInv, TurnInv', RankInv, [Next]_vars
  PROVE  RankInv'
<1>1. CASE Open'
  BY <1>1, RankEarly
<1>2. ASSUME NEW p \in Proc, Wait(p), ~Open'
      PROVE  RankInv'
  <2>1. \A q \in Proc :
          /\ pc'[q] \in {"collect", "partition"} => pc[q] \in {"collect", "partition"}
          /\ pc'[q] = "bind" => pc[q] = "bind"
    BY <1>2 DEF TypeInv, TypeOK, Wait
  <2>2. \A q \in Proc :
          HasTurn(q)' /\ pc'[q] # "partition" => HasTurn(q) /\ pc[q] # "partition"
    BY <1>2 DEF TypeInv, TypeOK, SlotInv, HasTurn, Wait, TurnInv, Open
  <2>3. Bound' \subseteq Bound /\ \A q \in Bound' : ret'[q] = ret[q]
    BY <1>2 DEF TypeInv, TypeOK, Bound, Wait
  <2> QED
    BY <1>2, <2>1, <2>2, <2>3, RankKept DEF Wait
<1>3. ASSUME NEW p \in Proc, Reacquire(p), ~Open'
      PROVE  RankInv'
  <2>1. \A q \in Proc :
          /\ pc'[q] \in {"collect", "partition"} => pc[q] \in {"collect", "partition"}
          /\ pc'[q] = "bind" => pc[q] = "bind"
    BY <1>3 DEF TypeInv, TypeOK, Reacquire
  <2>2. \A q \in Proc :
          HasTurn(q)' /\ pc'[q] # "partition" => HasTurn(q) /\ pc[q] # "partition"
    BY <1>3 DEF TypeInv, TypeOK, SlotInv, HasTurn, Reacquire
  <2>3. Bound' \subseteq Bound /\ \A q \in Bound' : ret'[q] = ret[q]
    BY <1>3 DEF TypeInv, TypeOK, Bound, Reacquire
  <2> QED
    BY <1>3, <2>1, <2>2, <2>3, RankKept DEF Reacquire
<1>4. ASSUME NEW p \in Proc, Resume(p), ~Open'
      PROVE  RankInv'
  <2>1. \A q \in Proc :
          /\ pc'[q] \in {"collect", "partition"} => pc[q] \in {"collect", "partition"}
          /\ pc'[q] = "bind" => pc[q] = "bind"
    BY <1>4 DEF TypeInv, TypeOK, Resume
  <2>2. \A q \in Proc :
          HasTurn(q)' /\ pc'[q] # "partition" => HasTurn(q) /\ pc[q] # "partition"
    BY <1>4 DEF TypeInv, TypeOK, SlotInv, HasTurn, Resume
  <2>3. Bound' \subseteq Bound /\ \A q \in Bound' : ret'[q] = ret[q]
    BY <1>4 DEF TypeInv, TypeOK, Bound, Resume
  <2> QED
    BY <1>4, <2>1, <2>2, <2>3, RankKept DEF Resume
<1>5. ASSUME NEW p \in Proc, AbortNext(p), ~Open'
      PROVE  RankInv'
  <2>1. \A q \in Proc : pc'[q] \in {pc[q], "signalled", "abort"}
    BY <1>5, AbortTakes
  <2>2. Bound' \subseteq Bound /\ \A q \in Proc : HasTurn(q)' => HasTurn(q)
    BY <1>5, AbortTakes
  <2>4. \A q \in Proc : HasTurn(q)' /\ pc'[q] # "partition" => pc[q] # "partition"
    BY <1>5 DEF TypeInv, TypeOK, LockInv, AbortNext
  <2> QED
    BY <1>5, <2>1, <2>2, <2>4, RankKept DEF AbortNext
<1>6. ASSUME NEW p \in Proc, AbortDone(p), ~Open'
      PROVE  RankInv'
  <2>1. \A q \in Proc :
          /\ pc'[q] \in {"collect", "partition"} => pc[q] \in {"collect", "partition"}
          /\ pc'[q] = "bind" => pc[q] = "bind"
    BY <1>6 DEF TypeInv, TypeOK, AbortDone, ResetGroup
  <2>2. \A q \in Proc :
          HasTurn(q)' /\ pc'[q] # "partition" => HasTurn(q) /\ pc[q] # "partition"
    BY <1>6 DEF TypeInv, TypeOK, SlotInv, HasTurn, AbortDone, ResetGroup
  <2>3. Bound' \subseteq Bound /\ \A q \in Bound' : ret'[q] = ret[q]
    BY <1>6 DEF TypeInv, TypeOK, Bound, AbortDone, ResetGroup
  <2> QED
    BY <1>6, <2>1, <2>2, <2>3, RankKept DEF AbortDone, ResetGroup
<1>7. ASSUME NEW p \in Proc, Collect(p), ~Open'
      PROVE  RankInv'
  <2>1. \A q \in Proc :
          /\ pc'[q] \in {"collect", "partition"} => pc[q] \in {"collect", "partition"}
          /\ pc'[q] = "bind" => pc[q] = "bind"
    BY <1>7 DEF TypeInv, TypeOK, Collect
  <2>2. \A q \in Proc :
          HasTurn(q)' /\ pc'[q] # "partition" => HasTurn(q) /\ pc[q] # "partition"
    BY <1>7 DEF TypeInv, TypeOK, SlotInv, HasTurn, Collect
  <2>3. Bound' \subseteq Bound /\ \A q \in Bound' : ret'[q] = ret[q]
    BY <1>7 DEF TypeInv, TypeOK, Bound, Collect
  <2> QED
    BY <1>7, <2>1, <2>2, <2>3, RankKept DEF Collect
<1>8. ASSUME NEW p \in Proc, PartitionFails(p), ~Open'
      PROVE  RankInv'
  <2>1. \A q \in Proc :
          /\ pc'[q] \in {"collect", "partition"} => pc[q] \in {"collect", "partition"}
          /\ pc'[q] = "bind" => pc[q] = "bind"
    BY <1>8 DEF TypeInv, TypeOK, PartitionFails
  <2>2. \A q \in Proc :
          HasTurn(q)' /\ pc'[q] # "partition" => HasTurn(q) /\ pc[q] # "partition"
    BY <1>8 DEF TypeInv, TypeOK, SlotInv, HasTurn, PartitionFails
  <2>3. Bound' \subseteq Bound /\ \A q \in Bound' : ret'[q] = ret[q]
    BY <1>8 DEF TypeInv, TypeOK, Bound, PartitionFails
  <2> QED
    BY <1>8, <2>1, <2>2, <2>3, RankKept DEF PartitionFails
<1>9. ASSUME NEW p \in Proc, Unlock(p), ~Open'
      PROVE  RankInv'
  <2>1. \A q \in Proc :
          /\ pc'[q] \in {"collect", "partition"} => pc[q] \in {"collect", "partition"}
          /\ pc'[q] = "bind" => pc[q] = "bind"
    BY <1>9 DEF TypeInv, TypeOK, Unlock
  <2>2. \A q \in Proc :
          HasTurn(q)' /\ pc'[q] # "partition" => HasTurn(q) /\ pc[q] # "partition"
    BY <1>9 DEF TypeInv, TypeOK, SlotInv, HasTurn, Unlock
  <2>3. Bound' \subseteq Bound /\ \A q \in Bound' : ret'[q] = ret[q]
    BY <1>9 DEF TypeInv, TypeOK, Bound, Unlock
  <2> QED
    BY <1>9, <2>1, <2>2, <2>3, RankKept DEF Unlock
<1>10. ASSUME NEW p \in Proc, TimeOut(p), ~Open'
      PROVE  RankInv'
  <2>1. \A q \in Proc :
          /\ pc'[q] \in {"collect", "partition"} => pc[q] \in {"collect", "partition"}
          /\ pc'[q] = "bind" => pc[q] = "bind"
    BY <1>10 DEF TypeInv, TypeOK, TimeOut
  <2>2. \A q \in Proc :
          HasTurn(q)' /\ pc'[q] # "partition" => HasTurn(q) /\ pc[q] # "partition"
    BY <1>10 DEF TypeInv, TypeOK, SlotInv, HasTurn, TimeOut
  <2>3. Bound' \subseteq Bound /\ \A q \in Bound' : ret'[q] = ret[q]
    BY <1>10 DEF TypeInv, TypeOK, Bound, TimeOut
  <2> QED
    BY <1>10, <2>1, <2>2, <2>3, RankKept DEF TimeOut
<1>11. ASSUME NEW p \in Proc, SpuriousWakeup(p), ~Open'
      PROVE  RankInv'
  <2>1. \A q \in Proc :
          /\ pc'[q] \in {"collect", "partition"} => pc[q] \in {"collect", "partition"}
          /\ pc'[q] = "bind" => pc[q] = "bind"
    BY <1>11 DEF TypeInv, TypeOK, SpuriousWakeup
  <2>2. \A q \in Proc :
          HasTurn(q)' /\ pc'[q] # "partition" => HasTurn(q) /\ pc[q] # "partition"
    BY <1>11 DEF TypeInv, TypeOK, SlotInv, HasTurn, SpuriousWakeup
  <2>3. Bound' \subseteq Bound /\ \A q \in Bound' : ret'[q] = ret[q]
    BY <1>11 DEF TypeInv, TypeOK, Bound, SpuriousWakeup
  <2> QED
    BY <1>11, <2>1, <2>2, <2>3, RankKept DEF SpuriousWakeup
<1>12. ASSUME NEW p \in Proc, Kill(p), ~Open'
      PROVE  RankInv'
  <2>1. \A q \in Proc :
          /\ pc'[q] \in {"collect", "partition"} => pc[q] \in {"collect", "partition"}
          /\ pc'[q] = "bind" => pc[q] = "bind"
    BY <1>12 DEF TypeInv, TypeOK, Kill
  <2>2. \A q \in Proc :
          HasTurn(q)' /\ pc'[q] # "partition" => HasTurn(q) /\ pc[q] # "partition"
    BY <1>12 DEF TypeInv, TypeOK, SlotInv, HasTurn, Kill
  <2>3. Bound' \subseteq Bound /\ \A q \in Bound' : ret'[q] = ret[q]
    BY <1>12 DEF TypeInv, TypeOK, Bound, Kill
  <2> QED
    BY <1>12, <2>1, <2>2, <2>3, RankKept DEF Kill
<1>13. ASSUME NEW p \in Proc, WakeFirst(p), ~Open'
      PROVE  RankInv'
  <2>1. Bound' = {}
    <3>1. Bound = {}
      BY <1>13 DEF TurnInv, Open, WakeFirst
    <3>2. \A q \in Proc : pc'[q] \in {pc[q], "signalled", "granted", "waiting"} /\ ret'[q] = ret[q]
      BY <1>13 DEF TypeInv, TypeOK, WakeFirst, SignalAndGoto
    <3> QED
      BY <3>1, <3>2 DEF Bound
  <2>2. \A q \in Proc : Below(q)' \in Nat
    BY BelowGrows DEF Below
  <2> QED
    BY <1>13, <2>1, <2>2 DEF RankInv, WakeFirst
<1>14. ASSUME NEW p \in Proc, TakeTurn(p), ~Open'
      PROVE  RankInv'
  <2>1. Bound' = Bound /\ \A q \in Proc : HasTurn(q)' => HasTurn(q)
    BY <1>14 DEF TypeInv, TypeOK, SlotInv, Bound, HasTurn, TakeTurn
  <2>2. process_rank = 0 => Bound = {}
    BY DEF RankInv
  <2>3. \A q \in Proc : pc'[q] \in {"collect", "partition"} => Bound' = {}
    BY <1>14, <2>1, <2>2 DEF TypeInv, TypeOK, RankInv, TakeTurn
  <2>4. \A q \in Proc : /\ pc'[q] = "bind" => pc[q] = "bind"
                        /\ pc'[q] # "partition" => pc[q] # "partition"
    BY <1>14 DEF TypeInv, TypeOK, TakeTurn
  <2>5. \A q \in Proc : Below(q)' = Below(q)
    BY DEF Below
  <2>6. process_rank' = process_rank /\ ret' = ret
    BY <1>14 DEF TakeTurn
  <2>7. \A q \in Proc : pc'[q] = "bind" \/ (HasTurn(q)' /\ pc'[q] # "partition")
                         => process_rank' <= Below(q)'
    BY <2>1, <2>4, <2>5, <2>6 DEF RankInv
  <2> QED
    BY <2>1, <2>3, <2>6, <2>7 DEF RankInv
<1>15. ASSUME NEW p \in Proc, PartitionRank(p), ~Open'
      PROVE  RankInv'
  <2>1. Bound' = {}
    BY <1>15 DEF TypeInv, TypeOK, RankInv, Bound, PartitionRank
  <2>2. ASSUME NEW q \in Proc, pc'[q] = "bind" \/ (HasTurn(q)' /\ pc'[q] # "partition")
        PROVE  q = p /\ pc'[p] = "handoff"
    BY <1>15, <2>2 DEF TypeInv, TypeOK, LockInv, TurnInv, HasTurn, PartitionRank
  <2>3. Below(p)' \in Nat
    BY BelowGrows DEF Below
  <2> QED
    BY <1>15, <2>1, <2>2, <2>3 DEF RankInv, PartitionRank
<1>16. ASSUME NEW p \in Proc, PartitionDone(p), ~Open'
      PROVE  RankInv'
  <2>1. Bound' = {}
    BY <1>16 DEF TypeInv, TypeOK, RankInv, Bound, PartitionDone
  <2>2. ASSUME NEW q \in Proc, pc'[q] = "bind" \/ (HasTurn(q)' /\ pc'[q] # "partition")
        PROVE  q = p /\ pc'[p] = "handoff"
    BY <1>16, <2>2 DEF TypeInv, TypeOK, LockInv, TurnInv, HasTurn, PartitionDone
  <2>3. Below(p)' \in Nat
    BY BelowGrows DEF Below
  <2> QED
    BY <1>16, <2>1, <2>2, <2>3 DEF RankInv, PartitionDone
<1>17. ASSUME NEW p \in Proc, EndGroup(p), ~Open'
      PROVE  RankInv'
  <2>1. Bound' = Bound /\ ret' = ret /\ process_rank' = process_rank
    BY <1>17 DEF TypeInv, TypeOK, Bound, EndGroup
  <2>2. HasTurn(p) /\ pc[p] # "partition"
    BY <1>17 DEF EndGroup, HasTurn
  <2>3. ASSUME NEW q \in Proc
        PROVE  /\ pc'[q] \notin {"collect", "partition"}
               /\ ~HasTurn(q)'
               /\ pc'[q] = "bind" => q = p
    BY <1>17, <2>2 DEF TypeInv, TypeOK, LockInv, TurnInv, HasTurn, EndGroup
  <2>4. \A q \in Proc : Below(q)' = Below(q)
    BY DEF Below
  <2> QED
    BY <2>1, <2>2, <2>3, <2>4 DEF RankInv
<1>18. ASSUME NEW p \in Proc, WakeNext(p), ~Open'
      PROVE  RankInv'
  <2>1. /\ \A q \in Proc : pc'[q] \in {pc[q], "signalled", "bind"}
        /\ ret' = ret /\ process_rank' = process_rank
    BY <1>18 DEF TypeInv, TypeOK, WakeNext, SignalAndGoto
  <2>2. Bound' \subseteq Bound
    BY <2>1 DEF Bound
  <2>3. pc'[p] = "bind" /\ HasTurn(p) /\ pc[p] # "partition"
    BY <1>18 DEF TypeInv, TypeOK, WakeNext, HasTurn, SignalAndGoto
  <2>4. ASSUME NEW q \in Proc
        PROVE  /\ pc'[q] \notin {"collect", "partition"}
               /\ pc'[q] = "bind" => q = p
               /\ HasTurn(q)' => p < q
    BY <1>18, <2>1, <2>3 DEF TypeInv, LockInv, TurnInv, WakeNext
  <2>5. \A q \in Proc : Below(q)' = Below(q)
    BY DEF Below
  <2>6. process_rank <= Below(p) /\ process_rank \in Nat
    BY <2>3 DEF RankInv, TypeInv, TypeOK
  <2>7. \A q \in Proc : p < q => process_rank <= Below(q)
    BY <2>6, BelowGrows
  <2> QED
    BY <2>1, <2>2, <2>4, <2>5, <2>6, <2>7 DEF RankInv
<1>19. ASSUME NEW p \in Proc, Bind(p), ~Open'
      PROVE  RankInv'
  <2>1. /\ \A q \in Proc : q # p => pc'[q] = pc[q] /\ ret'[q] = ret[q]
        /\ pc[p] = "bind" /\ pc'[p] = "unlock" /\ lock = p
    BY <1>19 DEF TypeInv, TypeOK, LockInv, Bind
  <2>2. ASSUME NEW q \in Proc
        PROVE  /\ pc'[q] \notin {"collect", "partition", "bind"}
               /\ HasTurn(q)' => HasTurn(q) /\ p < q /\ pc[q] # "partition"
    <3>1. pc'[q] \notin {"collect", "partition", "bind"} /\ pc[q] # "partition"
      BY <2>1 DEF TypeInv, LockInv
    <3>2. HasTurn(q)' => HasTurn(q)
      BY <1>19, <2>1 DEF HasTurn, Bind
    <3> QED
      BY <2>1, <3>1, <3>2 DEF TurnInv
  <2>3. process_rank <= Below(p) /\ process_rank \in Nat /\ Below(p) \in Nat
    BY <2>1, BelowGrows DEF RankInv, TypeInv, TypeOK
  <2>4. \A q \in Proc : Below(q)' = Below(q)
    BY DEF Below
  <2>5. /\ p \notin Bound
        /\ \A q \in Bound : q \in Proc /\ q < p /\ ret[q] \in Slot /\ ret[q] < process_rank
    BY <2>1 DEF Bound, TurnInv, RankInv
  <2>6. CASE process_rank' = process_rank /\ ret' = [ret EXCEPT ![p] = EINVAL]
    <3>1. ~(ret'[p] >= 0)
      BY <2>6 DEF TypeInv, TypeOK
    <3>2. Bound' = Bound /\ \A q \in Bound : ret'[q] = ret[q]
      BY <2>1, <2>5, <3>1 DEF Bound
    <3>3. \A q \in Proc : ~(pc'[q] = "bind")
      BY <2>2
    <3> QED
      BY <2>2, <2>4, <2>6, <3>2, <3>3 DEF RankInv
  <2>7. CASE process_rank' = process_rank + 1 /\ ret' = [ret EXCEPT ![p] = process_rank]
    <3>1. Bound' \subseteq Bound \cup {p} /\ \A q \in Bound : ret'[q] = ret[q]
      BY <2>1, <2>5 DEF Bound
    <3>2. ret'[p] = process_rank
      BY <2>7 DEF TypeInv, TypeOK
    <3>3. process_rank \in Slot
      BY <2>3, BelowGrows, ProcAssumption, PpnAssumption, FS_CardinalityType
    <3>4. \A q \in Proc : HasTurn(q)' => process_rank' <= Below(q)'
      BY <2>2, <2>3, <2>4, <2>7, BelowGrows
    <3>5. \A q \in Bound' : ret'[q] \in Slot /\ ret'[q] < process_rank'
      BY <2>3, <2>5, <2>7, <3>1, <3>2, <3>3
    <3>6. \A q, r \in Bound' : q < r => ret'[q] < ret'[r]
      <4>1. ASSUME NEW q \in Bound', NEW r \in Bound', q < r
            PROVE  ret'[q] < ret'[r]
        <5>1. q \in Nat /\ r \in Nat /\ p \in Nat
          BY PidsAreNumbers DEF Bound
        <5>2. q # p
          BY <2>5, <3>1, <4>1, <5>1
        <5>3. CASE r = p
          BY <2>5, <3>1, <3>2, <5>2, <5>3
        <5>4. CASE r # p
          BY <3>1, <4>1, <5>2, <5>4 DEF RankInv
        <5> QED
          BY <5>3, <5>4
      <4> QED
        BY <4>1
    <3> QED
      BY <2>2, <3>4, <3>5, <3>6 DEF RankInv
  <2> QED
    BY <1>19, <2>6, <2>7 DEF Bind
<1>20. CASE UNCHANGED vars
  <2>1. UNCHANGED << pc, ret, process_rank, ready, timeout, my_i >>
    BY <1>20 DEF vars
  <2>2. Bound' = Bound /\ \A q \in Proc : HasTurn(q)' = HasTurn(q)
    BY <2>1 DEF Bound, HasTurn
  <2> QED
    BY <2>1, <2>2, RankKept
<1> QED
  BY EarlySteps, <1>1, <1>2, <1>3, <1>4, <1>5, <1>6, <1>7, <1>8, <1>9, <1>10,
     <1>11, <1>12, <1>13, <1>14, <1>15, <1>16, <1>17, <1>18, <1>19, <1>20
     DEF Next, Step, Finished

-----------------------------------------------------------------------------
\* A step that neither hands out CPUs nor makes any available nor binds anyone.
LEMMA DisjointKept ==
  ASSUME DisjointInv, Open' => Open, Bound' \subseteq Bound, affinities' = affinities,
         cpus_available' \subseteq cpus_available \cup {StrayCpu},
         \A q \in Bound' : ret'[q] = ret[q] /\ mask'[q] = mask[q]
  PROVE  DisjointInv'
<1>1. \A q \in Bound' : mask'[q] \subseteq affinities'[ret'[q]]
  BY DEF DisjointInv
<1> QED
  BY <1>1 DEF DisjointInv

\* Before the group is complete nothing was handed out.
LEMMA DisjointEarly ==
  ASSUME DisjointInv, Open, affinities' = affinities, Bound' = {}
  PROVE  DisjointInv'
  BY DEF DisjointInv

\* No CPU is handed out twice in any step.
LEMMA DisjointStep ==
  ASSUME OneJob, TypeInv, TurnInv, TurnInv', RankInv, DisjointInv, [Next]_vars
  PROVE  DisjointInv'
<1> Open' => Open
  BY OpenShrinks
<1>1. ASSUME NEW p \in Proc,
             \/ Create(p) \/ Attach(p) \/ Discover(p) \/ Lock(p) \/ Mismatch(p) \/ Register(p)
             \/ Walk(p) \/ Insert(p)
      PROVE  DisjointInv'
  <2>1. Open /\ Open'
    BY <1>1, EarlySteps
  <2>2. affinities' = affinities
    BY <1>1 DEF Create, Attach, Discover, Lock, Mismatch, Register, Walk, Insert
  <2> QED
    BY <2>1, <2>2, DisjointEarly DEF TurnInv
<1>2. ASSUME NEW p \in Proc, Wait(p)
      PROVE  DisjointInv'
  <2>1. Bound' \subseteq Bound /\ \A q \in Bound' : ret'[q] = ret[q]
    BY <1>2 DEF TypeInv, TypeOK, Bound, Wait
  <2> QED
    BY <1>2, <2>1, DisjointKept DEF Wait
<1>3. ASSUME NEW p \in Proc, Reacquire(p)
      PROVE  DisjointInv'
  <2>1. Bound' \subseteq Bound /\ \A q \in Bound' : ret'[q] = ret[q]
    BY <1>3 DEF TypeInv, TypeOK, Bound, Reacquire
  <2> QED
    BY <1>3, <2>1, DisjointKept DEF Reacquire
<1>4. ASSUME NEW p \in Proc, Resume(p)
      PROVE  DisjointInv'
  <2>1. Bound' \subseteq Bound /\ \A q \in Bound' : ret'[q] = ret[q]
    BY <1>4 DEF TypeInv, TypeOK, Bound, Resume
  <2> QED
    BY <1>4, <2>1, DisjointKept DEF Resume
<1>5. ASSUME NEW p \in Proc, AbortDone(p)
      PROVE  DisjointInv'
  <2>1. Bound' \subseteq Bound /\ \A q \in Bound' : ret'[q] = ret[q]
    BY <1>5 DEF TypeInv, TypeOK, Bound, AbortDone, ResetGroup
  <2> QED
    BY <1>5, <2>1, DisjointKept DEF AbortDone, ResetGroup
<1>6. ASSUME NEW p \in Proc, TakeTurn(p)
      PROVE  DisjointInv'
  <2>1. Bound' \subseteq Bound /\ \A q \in Bound' : ret'[q] = ret[q]
    BY <1>6 DEF TypeInv, TypeOK, Bound, TakeTurn
  <2> QED
    BY <1>6, <2>1, DisjointKept DEF TakeTurn
<1>7. ASSUME NEW p \in Proc, Collect(p)
      PROVE  DisjointInv'
  <2>1. Bound' \subseteq Bound /\ \A q \in Bound' : ret'[q] = ret[q]
    BY <1>7 DEF TypeInv, TypeOK, Bound, Collect
  <2> QED
    BY <1>7, <2>1, DisjointKept DEF Collect
<1>8. ASSUME NEW p \in Proc, PartitionFails(p)
      PROVE  DisjointInv'
  <2>1. Bound' \subseteq Bound /\ \A q \in Bound' : ret'[q] = ret[q]
    BY <1>8 DEF TypeInv, TypeOK, Bound, PartitionFails
  <2> QED
    BY <1>8, <2>1, DisjointKept DEF PartitionFails
<1>9. ASSUME NEW p \in Proc, PartitionDone(p)
      PROVE  DisjointInv'
  <2>1. Bound' \subseteq Bound /\ \A q \in Bound' : ret'[q] = ret[q]
    BY <1>9 DEF TypeInv, TypeOK, Bound, PartitionDone
  <2> QED
    BY <1>9, <2>1, DisjointKept DEF PartitionDone
<1>10. ASSUME NEW p \in Proc, EndGroup(p)
      PROVE  DisjointInv'
  <2>1. Bound' \subseteq Bound /\ \A q \in Bound' : ret'[q] = ret[q]
    BY <1>10 DEF TypeInv, TypeOK, Bound, EndGroup, ResetGroup
  <2> QED
    BY <1>10, <2>1, DisjointKept DEF EndGroup, ResetGroup
<1>11. ASSUME NEW p \in Proc, Unlock(p)
      PROVE  DisjointInv'
  <2>1. Bound' \subseteq Bound /\ \A q \in Bound' : ret'[q] = ret[q]
    BY <1>11 DEF TypeInv, TypeOK, Bound, Unlock
  <2> QED
    BY <1>11, <2>1, DisjointKept DEF Unlock
<1>12. ASSUME NEW p \in Proc, TimeOut(p)
      PROVE  DisjointInv'
  <2>1. Bound' \subseteq Bound /\ \A q \in Bound' : ret'[q] = ret[q]
    BY <1>12 DEF TypeInv, TypeOK, Bound, TimeOut
  <2> QED
    BY <1>12, <2>1, DisjointKept DEF TimeOut
<1>13. ASSUME NEW p \in Proc, SpuriousWakeup(p)
      PROVE  DisjointInv'
  <2>1. Bound' \subseteq Bound /\ \A q \in Bound' : ret'[q] = ret[q]
    BY <1>13 DEF TypeInv, TypeOK, Bound, SpuriousWakeup
  <2> QED
    BY <1>13, <2>1, DisjointKept DEF SpuriousWakeup
<1>14. ASSUME NEW p \in Proc, Kill(p)
      PROVE  DisjointInv'
  <2>1. Bound' \subseteq Bound /\ \A q \in Bound' : ret'[q] = ret[q]
    BY <1>14 DEF TypeInv, TypeOK, Bound, Kill
  <2> QED
    BY <1>14, <2>1, DisjointKept DEF Kill
<1>15. ASSUME NEW p \in Proc, WakeFirst(p)
      PROVE  DisjointInv'
  <2>1. Open
    BY <1>15 DEF Open, WakeFirst
  <2>2. Bound = {} /\ affinities' = affinities
    BY <1>15, <2>1 DEF TurnInv, WakeFirst
  <2>3. \A q \in Proc : pc'[q] \in {pc[q], "signalled", "granted", "waiting"} /\ ret'[q] = ret[q]
    BY <1>15 DEF TypeInv, TypeOK, WakeFirst, SignalAndGoto
  <2>4. Bound' = {}
    BY <2>2, <2>3 DEF Bound
  <2> QED
    BY <2>1, <2>2, <2>4, DisjointEarly
<1>16. ASSUME NEW p \in Proc, AbortNext(p)
      PROVE  DisjointInv'
  <2>1. Bound' \subseteq Bound
    BY <1>16, AbortTakes
  <2> QED
    BY <1>16, <2>1, DisjointKept DEF AbortNext
<1>17. ASSUME NEW p \in Proc, PartitionRank(p)
      PROVE  DisjointInv'
  <2>1. Bound = {} /\ HasTurn(p)
    BY <1>17 DEF RankInv, HasTurn, PartitionRank
  <2>2. Bound' = {} /\ ~Open
    BY <1>17, <2>1 DEF Bound, TurnInv, PartitionRank
  <2>3. process_rank \in Slot
    BY <1>17, PpnAssumption DEF TypeInv, TypeOK, PartitionRank
  <2>4. PICK cpus \in SUBSET cpus_available :
               /\ cpus_available' = cpus_available \ cpus
               /\ affinities' = [affinities EXCEPT ![process_rank] = cpus]
    BY <1>17 DEF PartitionRank, Commit
  <2>5. /\ affinities'[process_rank] = cpus
        /\ \A r \in Slot : r # process_rank => affinities'[r] = affinities[r]
    BY <2>3, <2>4 DEF TypeInv, TypeOK
  <2>6. \A r \in Slot : affinities[r] \cap cpus_available \subseteq {StrayCpu}
    BY DEF DisjointInv
  <2>7. \A r \in Slot : affinities'[r] \cap cpus_available' \subseteq {StrayCpu}
    BY <2>4, <2>5, <2>6
  <2>8. \A r, t \in Slot : r # t => affinities'[r] \cap affinities'[t] \subseteq {StrayCpu}
    BY <2>4, <2>5, <2>6 DEF DisjointInv
  <2> QED
    BY <2>2, <2>7, <2>8 DEF DisjointInv
<1>18. ASSUME NEW p \in Proc, WakeNext(p)
      PROVE  DisjointInv'
  <2>1. \A q \in Proc : pc'[q] \in {pc[q], "signalled", "bind"} /\ ret'[q] = ret[q]
    BY <1>18 DEF TypeInv, TypeOK, WakeNext, SignalAndGoto
  <2>2. Bound' \subseteq Bound
    BY <2>1 DEF Bound
  <2>3. cpus_available' \subseteq cpus_available \cup {StrayCpu}
    BY <1>18 DEF WakeNext
  <2> QED
    BY <1>18, <2>1, <2>2, <2>3, DisjointKept DEF WakeNext, Bound
<1>19. ASSUME NEW p \in Proc, Bind(p)
      PROVE  DisjointInv'
  <2> DEFINE cpus == affinities[process_rank] \cap Cpuset[p]
  <2>1. pc[p] = "bind" /\ pc' = [pc EXCEPT ![p] = "unlock"]
    BY <1>19 DEF Bind
  <2>2. CASE mask' = mask /\ ret' = [ret EXCEPT ![p] = EINVAL]
    <3>1. Bound' \subseteq Bound
      BY <2>1, <2>2 DEF TypeInv, TypeOK, Bound
    <3>2. p \notin Bound
      BY <2>1 DEF Bound
    <3> QED
      BY <1>19, <2>2, <3>1, <3>2, DisjointKept DEF Bind, TypeInv, TypeOK, Bound
  <2>3. CASE mask' = [mask EXCEPT ![p] = cpus] /\ ret' = [ret EXCEPT ![p] = process_rank]
    <3>1. Bound' \subseteq Bound \cup {p} /\ p \notin Bound
      BY <2>1, <2>3 DEF TypeInv, TypeOK, Bound
    <3>2. /\ \A q \in Bound : ret'[q] = ret[q] /\ mask'[q] = mask[q]
          /\ ret'[p] = process_rank /\ mask'[p] \subseteq affinities[process_rank]
      BY <2>3, <3>1 DEF TypeInv, TypeOK, Bound
    <3>3. affinities' = affinities /\ cpus_available' = cpus_available
      BY <1>19 DEF Bind
    <3>4. \A q \in Bound' : mask'[q] \subseteq affinities'[ret'[q]]
      BY <3>1, <3>2, <3>3 DEF DisjointInv
    <3> QED
      BY <3>3, <3>4 DEF DisjointInv
  <2> QED
    BY <1>19, <2>2, <2>3 DEF Bind
<1>20. CASE UNCHANGED vars
  BY <1>20, DisjointKept DEF vars, Bound
<1> QED
  BY <1>1, <1>2, <1>3, <1>4, <1>5, <1>6, <1>7, <1>8, <1>9, <1>10, <1>11,
     <1>12, <1>13, <1>14, <1>15, <1>16, <1>17, <1>18, <1>19, <1>20
     DEF Next, Step, Finished

-----------------------------------------------------------------------------
OrderInv == ListInv /\ TurnInv /\ RankInv /\ DisjointInv

\* No two processes are bound to the same CPU.
LEMMA BoundApart ==
  ASSUME TypeInv, OrderInv, NEW p \in Bound, NEW q \in Bound, p # q
  PROVE  mask[p] \cap mask[q] = {}
<1>1. p \in Proc /\ q \in Proc
  BY DEF Bound
<1>2. p < q \/ q < p
  BY <1>1, PidsAreNumbers
<1>3. ret[p] \in Slot /\ ret[q] \in Slot /\ ret[p] # ret[q]
  BY <1>2 DEF OrderInv, RankInv
<1>4. affinities[ret[p]] \cap affinities[ret[q]] \subseteq {StrayCpu}
  BY <1>3 DEF OrderInv, DisjointInv
<1>5. mask[p] \subseteq affinities[ret[p]] /\ mask[q] \subseteq affinities[ret[q]]
  BY DEF OrderInv, DisjointInv
<1>6. StrayCpu \notin mask[p]
  BY <1>1, CpuAssumption DEF TypeInv, TypeOK
<1> QED
  BY <1>4, <1>5, <1>6

\* The four parts together are an invariant of one job, given the types and the counters.
THEOREM OrderInvariance ==
  ASSUME OneJob
  PROVE  Spec => []OrderInv
<1>1. Init => OrderInv
  BY ListInit, TurnInit, RankInit DEF OrderInv
<1>2. ASSUME TypeInv, TypeInv', CountInv, OrderInv, [Next]_vars
      PROVE  OrderInv'
  <2>1. ListInv'
    BY <1>2, ListStep DEF OrderInv
  <2>2. TurnInv'
    BY <1>2, TurnStep DEF OrderInv
  <2>3. RankInv'
    BY <1>2, <2>2, RankStep DEF OrderInv
  <2>4. DisjointInv'
    BY <1>2, <2>2, DisjointStep DEF OrderInv
  <2> QED
    BY <2>1, <2>2, <2>3, <2>4 DEF OrderInv
<1>3. SamePpn
  BY SizeOfJob
<1> QED
  BY <1>1, <1>2, <1>3, TypeInvariance, CountInvariance, PTL DEF Spec

\* The list of one job stays in PID order through registrations, pops, aborts, failures
\* and kills, so every walk along it ends (pin_process(), 827-863 and 902-916).
THEOREM ListStaysSorted ==
  ASSUME OneJob
  PROVE  Spec => []SortedList
<1>1. OrderInv => SortedList
  BY DEF OrderInv, ListInv
<1> QED
  BY <1>1, OrderInvariance, PTL

\* Of the processes that reach exec, a smaller PID has a smaller rank, and so no two have
\* the same, also when the kernel refuses some of them their CPUs or the group is aborted
\* while the turn goes round (865-880, 1085-1115).
THEOREM RanksInPidOrder ==
  ASSUME OneJob
  PROVE  Spec => []RanksFollowPids
<1>1. OrderInv => RanksFollowPids
  BY DEF OrderInv, RankInv, RanksFollowPids, Pinned, Bound
<1> QED
  BY <1>1, OrderInvariance, PTL

\* No CPU is given to two processes, although a refused first process makes the second one
\* partition again and processes[-1].ready overlaps the CPU set (967-1070, 1085-1098).
THEOREM PinsAreDisjoint ==
  ASSUME OneJob
  PROVE  Spec => []DisjointPins
<1>1. TypeInv /\ OrderInv => DisjointPins
  BY BoundApart DEF DisjointPins, Pinned, Bound
<1> QED
  BY <1>1, TypeInvariance, OrderInvariance, PTL

\* The turn is a token: it is with one process at a time, between the wakeup that passes it
\* on and the wakeup by which that process passes it on in its turn (865-945, 1085-1094).
THEOREM OneTurnAtATime ==
  ASSUME OneJob
  PROVE  Spec => [](\A p, q \in Proc : HasTurn(p) /\ HasTurn(q) => p = q)
<1>1. OrderInv => \A p, q \in Proc : HasTurn(p) /\ HasTurn(q) => p = q
  BY DEF OrderInv, TurnInv
<1> QED
  BY <1>1, OrderInvariance, PTL

-----------------------------------------------------------------------------

\* The mutex went with a process that was killed.
Dead == lock # NoProc /\ pc[lock] = "killed"

\* The region is not in the hands of a process that empties the list, nor of a dead one.
Live == lock = NoProc \/ pc[lock] \notin {"abort", "killed"}

\* s is a slot whose process is in the list, or was.
Listed(s) == pid[s] # 0 /\ pc[pid[s]] # "walk"

\* From each slot, the list leads to the next larger PID.
NoSkip ==
  \A s, t \in Slot : Listed(s) /\ Listed(t) /\ pid[s] < pid[t] =>
                       /\ next_process_ind[s] # Nil
                       /\ pid[next_process_ind[s]] <= pid[t]

\* The list begins with the smallest PID.
FirstIsLeast ==
  \A t \in Slot : Listed(t) => /\ first_process_ind # Nil
                               /\ pid[first_process_ind] <= pid[t]

\* Nobody has left this group: as many have come as the counter says.
Whole == nr_processes = N /\ nr_processes_left + Cardinality(Registered) = N

\* While the group gathers, and nobody has left it, all that have come are in the list.
GatherInv ==
  /\ Registered = {} => first_process_ind = Nil
  /\ Open /\ Live /\ Whole => NoSkip /\ FirstIsLeast

\* How many are still to take the turn when it is with p.
TurnsLeft(p) ==
  IF pc[p] \in {"collect", "partition", "handoff"} THEN N - Below(p) - 1 ELSE N - Below(p)

\* The turn will go from p to the next larger PID, unless the group is aborted.
ChainInv ==
  \A p \in Proc : HasTurn(p) =>
    /\ NoSkip
    /\ Live /\ first_process_ind # Nil => first_process_ind = next_process_ind[my_i[p]]
    /\ nr_processes_left = TurnsLeft(p)
    /\ Live /\ nr_processes # N => first_process_ind = Nil

\* Without timeouts the list is emptied by the process whose turn it is, or not at all.
UndisturbedInv ==
  /\ \A p \in Proc : pc[p] # "timedout"
  /\ \A p \in Proc : pc[p] = "abort" => \A q \in Proc : ~HasTurn(q)
  /\ \A p \in Proc : HasTurn(p) => first_process_ind = next_process_ind[my_i[p]]

\* The steps that neither start a group or a process nor move the turn on.
QuietStep(p) ==
  \/ Wait(p) \/ Reacquire(p) \/ Resume(p) \/ AbortNext(p) \/ AbortDone(p)
  \/ Collect(p) \/ PartitionFails(p) \/ Unlock(p)
  \/ TimeOut(p) \/ SpuriousWakeup(p) \/ Kill(p)

\* The steps by which processes come and enter the list.
EarlyStep(p) ==
  \/ Create(p) \/ Attach(p) \/ Discover(p) \/ Lock(p) \/ Mismatch(p) \/ Register(p)
  \/ Walk(p) \/ Insert(p)

-----------------------------------------------------------------------------
USE DEF Slot, Nil, NoProc, CpuSet, Control, HasLock, InWait, Ended, Goto,
        groupVars, initVars, listVars, cpuVars, walkVars, EINVAL, ENOMEM, ETIMEDOUT

\* Every step is one of these.
LEMMA StepKinds ==
  ASSUME [Next]_vars
  PROVE  \/ UNCHANGED vars
         \/ \E p \in Proc :
              \/ EarlyStep(p) \/ QuietStep(p) \/ WakeFirst(p) \/ TakeTurn(p)
              \/ PartitionRank(p) \/ PartitionDone(p) \/ EndGroup(p) \/ WakeNext(p) \/ Bind(p)
  BY DEF Next, Finished, Step, EarlyStep, QuietStep

\* What a quiet step leaves alone.
LEMMA Quiet ==
  ASSUME TypeInv, TurnInv, NEW p \in Proc, QuietStep(p), NEW q \in Proc
  PROVE  /\ pid' = pid /\ next_process_ind' = next_process_ind /\ my_i' = my_i
         /\ nr_processes_left' = nr_processes_left
         /\ HasTurn(q)' => HasTurn(q)
         /\ pc'[q] \in {"partition", "handoff", "bind"} =>
              pc'[q] = pc[q] \/ (pc[q] = "collect" /\ pc'[q] = "partition")
         /\ pc'[q] = "collect" => pc[q] = "collect"
         /\ HasTurn(q)' /\ pc[q] = "collect" => pc'[q] \in {"collect", "partition"}
         /\ HasTurn(q)' /\ pc[q] \in {"partition", "handoff"} => pc'[q] = pc[q]
         /\ pc'[q] = "walk" => pc[q] = "walk"
<1>1. CASE Wait(p)
  <2>1. Open /\ my_i[p] \in Slot
    BY <1>1 DEF TypeInv, TypeOK, SlotInv, Open, Wait
  <2>2. ~HasTurn(p)'
    BY <1>1, <2>1 DEF TurnInv, HasTurn, Wait
  <2> QED
    BY <1>1, <2>2 DEF TypeInv, TypeOK, HasTurn, Wait
<1>2. CASE AbortNext(p)
  <2>1. \A r \in Proc : /\ HasTurn(r)' => HasTurn(r)
                        /\ pc'[r] \in {pc[r], "signalled", "abort"}
    BY <1>2, AbortTakes
  <2>2. pc[q] \notin {"collect", "partition", "handoff"}
    BY <1>2 DEF TypeInv, LockInv, AbortNext
  <2> QED
    BY <1>2, <2>1, <2>2 DEF AbortNext
<1>3. CASE AbortDone(p)
  BY <1>3 DEF TypeInv, TypeOK, HasTurn, AbortDone
<1>4. CASE Reacquire(p)
  BY <1>4 DEF TypeInv, TypeOK, HasTurn, Reacquire
<1>5. CASE Resume(p)
  BY <1>5 DEF TypeInv, TypeOK, HasTurn, Resume
<1>6. CASE Collect(p)
  <2>1. /\ pc[p] = "collect"
        /\ UNCHANGED << groupVars, listVars, my_i >>
        /\ \E to \in {"partition", "abort", "unlock"} : pc' = [pc EXCEPT ![p] = to]
    BY <1>6 DEF Collect
  <2>2. PICK to \in {"partition", "abort", "unlock"} : pc' = [pc EXCEPT ![p] = to]
    BY <2>1
  <2>3. pc'[q] = IF q = p THEN to ELSE pc[q]
    BY <2>2 DEF TypeInv, TypeOK
  <2> QED
    BY <2>1, <2>2, <2>3 DEF HasTurn
<1>7. CASE PartitionFails(p)
  BY <1>7 DEF TypeInv, TypeOK, HasTurn, PartitionFails
<1>9. CASE Unlock(p)
  BY <1>9 DEF TypeInv, TypeOK, HasTurn, Unlock
<1>8. CASE TimeOut(p) \/ SpuriousWakeup(p) \/ Kill(p)
  BY <1>8 DEF TypeInv, TypeOK, HasTurn, TimeOut, SpuriousWakeup, Kill
<1> QED
  BY <1>1, <1>2, <1>3, <1>4, <1>5, <1>6, <1>7, <1>8, <1>9 DEF QuietStep

\* Who empties the list keeps the mutex until the list is empty.
LEMMA QuietLive ==
  ASSUME TypeInv, NEW p \in Proc, QuietStep(p), Live'
  PROVE  \/ Live /\ first_process_ind' = first_process_ind /\ nr_processes' = nr_processes
         \/ first_process_ind = Nil /\ first_process_ind' = Nil /\ nr_processes' = -1
<1>1. CASE AbortNext(p)
  <2>1. lock = p /\ lock' = lock /\ pc'[p] = "abort" /\ p # 0
    BY <1>1, ProcAssumption DEF TypeInv, TypeOK, LockInv, AbortNext, SignalAndGoto
  <2> QED
    BY <2>1 DEF Live
<1>2. CASE AbortDone(p)
  BY <1>2 DEF AbortDone, ResetGroup
<1>3. CASE Wait(p) \/ Resume(p) \/ Collect(p) \/ PartitionFails(p) \/ Unlock(p)
  BY <1>3 DEF TypeInv, TypeOK, LockInv, Live, Wait, Resume, Collect, PartitionFails, Unlock
<1>4. CASE Reacquire(p)
  BY <1>4 DEF TypeInv, TypeOK, Live, Reacquire
<1>5. CASE TimeOut(p) \/ SpuriousWakeup(p) \/ Kill(p)
  BY <1>5 DEF TypeInv, TypeOK, LockInv, Live, TimeOut, SpuriousWakeup, Kill
<1> QED
  BY <1>1, <1>2, <1>3, <1>4, <1>5 DEF QuietStep
-----------------------------------------------------------------------------
\* There is no list to have left anybody out.
LEMMA GatherInit == Init => GatherInv
  BY DEF Init, GatherInv, NoSkip, FirstIsLeast, Listed

\* Two slots with the same PID are the same.
LEMMA OneSlotEach ==
  ASSUME TypeInv, NEW s \in Slot, NEW t \in Slot, pid[s] = pid[t], pid[s] # 0
  PROVE  s = t
  BY DEF TypeInv, SlotInv

\* A step that leaves the list alone, and gives nobody a slot.
LEMMA GatherKept ==
  ASSUME GatherInv, Open' => Open, Live' => Live,
         my_i' = my_i, pid' = pid, next_process_ind' = next_process_ind,
         first_process_ind' = first_process_ind,
         nr_processes' = nr_processes, nr_processes_left' = nr_processes_left,
         \A s \in Slot : Listed(s)' => Listed(s)
  PROVE  GatherInv'
<1>1. Registered' = Registered
  BY DEF Registered
<1>2. Whole' => Whole
  BY <1>1 DEF Whole, N
<1>3. NoSkip => NoSkip'
  BY DEF NoSkip
<1>4. FirstIsLeast => FirstIsLeast'
  BY DEF FirstIsLeast
<1> QED
  BY <1>1, <1>2, <1>3, <1>4 DEF GatherInv

\* The first process of a group, if nobody left an earlier one, finds no list and is it;
\* another one is not in the list yet.
LEMMA GatherRegister ==
  ASSUME OneJob, TypeInv, CountInv, ListInv, GatherInv, NEW p \in Proc, Register(p)
  PROVE  GatherInv'
<1>1. my_i[p] = Nil /\ FreeSlot \in Slot /\ pid[FreeSlot] = 0
  BY FreeSlotExists DEF TypeInv, SlotInv, Register
<1>2. PICK s \in Slot : s = FreeSlot
  BY <1>1
<1>3. /\ pid' = [pid EXCEPT ![s] = p]
      /\ next_process_ind' = [next_process_ind EXCEPT ![s] = Nil]
      /\ my_i' = [my_i EXCEPT ![p] = s]
      /\ pc[p] = "register" /\ lock = p /\ p # 0
  BY <1>2, ProcAssumption DEF Register, TypeInv, LockInv
<1>4. Registered' = Registered \cup {p} /\ p \notin Registered
  BY <1>1, <1>2, <1>3 DEF Registered, TypeInv, TypeOK
<1>5. Cardinality(Registered') = Cardinality(Registered) + 1
  BY <1>4, SetsAreFinite, FS_AddElement
<1>6. ASSUME Whole'
      PROVE  Whole \/ Registered = {}
  <2>1. nr_processes = -1 \/ nr_processes = N
    BY DEF CountInv, GroupInv
  <2>2. CASE nr_processes = -1
    <3>1. N - 1 + Cardinality(Registered) + 1 = N
      BY <1>5, <1>6, <2>2, SizeOfJob, SizeOfN, SetsAreFinite DEF Whole, N, Register, StartGroup
    <3>2. Cardinality(Registered) = 0
      BY <3>1, SizeOfJob, SetsAreFinite
    <3> QED
      BY <3>2, SetsAreFinite, FS_EmptySet
  <2>3. CASE nr_processes = N
    <3>1. nr_processes # -1
      BY <2>3, SizeOfJob
    <3>2. nr_processes_left' = nr_processes_left - 1
      BY <3>1 DEF Register, StartGroup
    <3>3. nr_processes_left' + Cardinality(Registered') = N
      BY <1>6 DEF Whole, N
    <3> QED
      BY <1>5, <2>3, <3>2, <3>3, SizeOfJob, SetsAreFinite DEF Whole, TypeInv, TypeOK
  <2> QED
    BY <2>1, <2>2, <2>3
<1>7. ASSUME NEW t \in Slot
      PROVE  /\ t # s => pid'[t] = pid[t] /\ next_process_ind'[t] = next_process_ind[t]
             /\ t # s => (Listed(t)' <=> Listed(t))
             /\ pid'[s] = p /\ ~Listed(s)
  <2>1. /\ t # s => pid'[t] = pid[t] /\ next_process_ind'[t] = next_process_ind[t]
        /\ pid'[s] = p /\ ~Listed(s)
    BY <1>1, <1>2, <1>3 DEF Listed, TypeInv, TypeOK
  <2>2. pid[t] \in Proc \cup {0} /\ pid[t] # p
    BY <1>1, PidsAreNumbers DEF TypeInv, TypeOK
  <2>3. pid[t] # 0 => pc'[pid[t]] = pc[pid[t]]
    BY <2>2 DEF Register, TypeInv, TypeOK
  <2> QED
    BY <2>1, <2>3 DEF Listed
<1>8. Live /\ Open
  BY <1>1, <1>2, <1>3 DEF Live, Open
<1>9. \A t \in Slot : Listed(t) => Registered # {} /\ (Whole => first_process_ind # Nil)
  BY <1>8, PidsAreNumbers DEF Listed, Registered, GatherInv, FirstIsLeast
<1>10. ASSUME Whole', first_process_ind = Nil
      PROVE  NoSkip' /\ FirstIsLeast'
  <2>1. \A t \in Slot : ~Listed(t)
    BY <1>6, <1>9, <1>10
  <2>2. first_process_ind' = s
    BY <1>1, <1>2, <1>10 DEF Register
  <2>3. \A t \in Slot : Listed(t)' => t = s
    BY <1>7, <2>1
  <2>4. ~(pid'[s] < pid'[s]) /\ pid'[s] <= pid'[s]
    BY <1>1, <1>2, <1>7, ProcAssumption
  <2> QED
    BY <1>1, <1>2, <2>2, <2>3, <2>4 DEF NoSkip, FirstIsLeast
<1>11. ASSUME Whole', first_process_ind # Nil
       PROVE  NoSkip' /\ FirstIsLeast'
  <2>1. NoSkip /\ FirstIsLeast
    BY <1>6, <1>8, <1>11 DEF GatherInv
  <2>2. pc'[p] = "walk" /\ first_process_ind' = first_process_ind
    BY <1>11 DEF Register, TypeInv, TypeOK
  <2>3. ~Listed(s)'
    BY <1>7, <2>2 DEF Listed
  <2>4. pid[first_process_ind] # 0
    BY <1>8, <1>11 DEF ListInv
  <2>5. first_process_ind # s /\ \A t \in Slot : next_process_ind[t] # s
    BY <1>1, <1>2, <2>4, PidsAreNumbers DEF ListInv, SortedList
  <2>6. /\ first_process_ind \in Slot
        /\ \A t \in Slot : next_process_ind[t] # Nil => next_process_ind[t] \in Slot
    BY <1>11, PidsAreNumbers
  <2>7. NoSkip'
    <3> SUFFICES ASSUME NEW t \in Slot, NEW u \in Slot, Listed(t)', Listed(u)', pid'[t] < pid'[u]
                 PROVE  /\ next_process_ind'[t] # Nil
                        /\ pid'[next_process_ind'[t]] <= pid'[u]
      BY DEF NoSkip
    <3>1. t # s /\ u # s
      BY <2>3
    <3>2. next_process_ind[t] # Nil /\ pid[next_process_ind[t]] <= pid[u]
      BY <1>7, <2>1, <3>1 DEF NoSkip
    <3> QED
      BY <1>7, <2>5, <2>6, <3>1, <3>2
  <2>8. FirstIsLeast'
    <3> SUFFICES ASSUME NEW t \in Slot, Listed(t)'
                 PROVE  /\ first_process_ind' # Nil
                        /\ pid'[first_process_ind'] <= pid'[t]
      BY DEF FirstIsLeast
    <3> QED
      BY <1>7, <2>1, <2>2, <2>3, <2>5, <2>6 DEF FirstIsLeast
  <2> QED
    BY <2>7, <2>8
<1>12. Registered' # {}
  BY <1>4
<1> QED
  BY <1>10, <1>11, <1>12 DEF GatherInv
\* The new item is linked from the largest smaller PID, and to what that one led to.
LEMMA GatherInsert ==
  ASSUME TypeInv, ListInv, GatherInv, NEW p \in Proc, Insert(p)
  PROVE  GatherInv'
<1>1. PICK m \in Slot : m = my_i[p]
  <2>1. pc[p] = "walk"
    BY DEF Insert
  <2> QED
    BY <2>1 DEF TypeInv, TypeOK, SlotInv
<1>2. /\ pc[p] = "walk" /\ pid[m] = p /\ p \in Nat /\ p # 0 /\ lock = p
      /\ i[p] # Nil => pid[i[p]] > p
      /\ i[p] \in Slot \cup {Nil} /\ prev_i[p] \in Slot \cup {Nil}
      /\ UNCHANGED << pid, my_i, nr_processes, nr_processes_left, lock >>
      /\ pc' = [pc EXCEPT ![p] = "dispatch"]
  <2>1. /\ pc[p] = "walk" /\ (i[p] # Nil => pid[i[p]] > p)
        /\ UNCHANGED << pid, my_i, nr_processes, nr_processes_left, lock >>
        /\ pc' = [pc EXCEPT ![p] = "dispatch"]
    BY DEF Insert, LargerPid
  <2>2. pid[m] = p /\ lock = p
    BY <1>1, <2>1 DEF TypeInv, SlotInv, LockInv
  <2>3. p \in Nat /\ p # 0
    BY ProcAssumption
  <2>4. i[p] \in Slot \cup {Nil} /\ prev_i[p] \in Slot \cup {Nil}
    BY DEF TypeInv, TypeOK
  <2> QED
    BY <2>1, <2>2, <2>3, <2>4
<1>3. \A q \in Proc : q # p => pc[q] # "walk"
  BY <1>2 DEF TypeInv, LockInv
<1>4. \A s \in Slot : (Listed(s) <=> s # m /\ pid[s] # 0) /\ (Listed(s)' <=> pid[s] # 0)
  <2> TAKE s \in Slot
  <2>1. pid[s] \in Proc \cup {0} /\ (pid[s] = p => s = m)
    BY <1>1, <1>2, PidsAreNumbers DEF TypeInv, TypeOK
  <2> QED
    BY <1>2, <1>3, <2>1 DEF Listed, TypeInv, TypeOK
<1>5. Registered' = Registered /\ Live /\ Open /\ Registered # {}
  BY <1>1, <1>2 DEF Registered, Live, Open, Nil
<1>6. SUFFICES ASSUME Whole'
               PROVE  NoSkip' /\ FirstIsLeast'
  BY <1>5 DEF GatherInv
<1>7. NoSkip /\ FirstIsLeast
  <2>1. Whole
    BY <1>2, <1>5, <1>6 DEF Whole, N
  <2> QED
    BY <1>5, <2>1 DEF GatherInv
<1>8. \A s \in Slot : pid[s] \in Nat
  BY PidsAreNumbers
<1>9. CASE prev_i[p] = Nil
  <2>1. /\ next_process_ind' = [next_process_ind EXCEPT ![m] = i[p]]
        /\ first_process_ind' = m /\ i[p] = first_process_ind
    BY <1>1, <1>2, <1>9 DEF ListInv, Insert
  <2>2. \A s \in Slot : Listed(s) => p < pid[s]
    BY <1>2, <1>7, <1>8, <2>1 DEF FirstIsLeast
  <2>3. NoSkip'
    <3> SUFFICES ASSUME NEW s \in Slot, NEW t \in Slot, Listed(s)', Listed(t)', pid[s] < pid[t]
                 PROVE  /\ next_process_ind'[s] # Nil
                        /\ pid[next_process_ind'[s]] <= pid[t]
      BY <1>2 DEF NoSkip
    <3>1. t # m
      BY <1>2, <1>4, <1>8, <2>2
    <3>2. CASE s = m
      BY <1>4, <1>7, <2>1, <3>1, <3>2 DEF FirstIsLeast, TypeInv, TypeOK
    <3>3. CASE s # m
      BY <1>4, <1>7, <2>1, <3>1, <3>3 DEF NoSkip, TypeInv, TypeOK
    <3> QED
      BY <3>2, <3>3
  <2>4. FirstIsLeast'
    BY <1>2, <1>4, <1>8, <2>1, <2>2 DEF FirstIsLeast
  <2> QED
    BY <2>3, <2>4
<1>10. CASE prev_i[p] # Nil
  <2>1. PICK v \in Slot : v = prev_i[p]
    BY <1>2, <1>10
  <2>2. /\ next_process_ind' = [next_process_ind EXCEPT ![m] = i[p], ![v] = m]
        /\ first_process_ind' = first_process_ind /\ i[p] = next_process_ind[v]
        /\ pid[v] # 0 /\ pid[v] < p
    BY <1>1, <1>2, <1>10, <2>1 DEF ListInv, Insert
  <2>3. v # m /\ Listed(v)
    BY <1>2, <1>4, <1>8, <2>2
  <2>4. \A t \in Slot : t # m /\ t # v =>
          next_process_ind'[t] = next_process_ind[t]
    BY <2>2 DEF TypeInv, TypeOK
  <2>5. next_process_ind'[m] = next_process_ind[v] /\ next_process_ind'[v] = m
    BY <2>2, <2>3 DEF TypeInv, TypeOK
  <2>6. NoSkip'
    <3> SUFFICES ASSUME NEW s \in Slot, NEW t \in Slot, Listed(s)', Listed(t)', pid[s] < pid[t]
                 PROVE  /\ next_process_ind'[s] # Nil
                        /\ pid[next_process_ind'[s]] <= pid[t]
      BY <1>2 DEF NoSkip
    <3>1. CASE s = m
      <4>1. t # m /\ Listed(t) /\ pid[v] < pid[t]
        BY <1>2, <1>4, <1>8, <2>2, <3>1
      <4> QED
        BY <1>7, <2>3, <2>5, <3>1, <4>1 DEF NoSkip
    <3>2. CASE s = v /\ t = m
      BY <1>2, <1>8, <2>5, <3>2
    <3>3. CASE s = v /\ t # m
      <4>1. next_process_ind[v] # Nil /\ pid[next_process_ind[v]] <= pid[t]
        BY <1>4, <1>7, <2>3, <3>3 DEF NoSkip
      <4>2. p < pid[next_process_ind[v]] /\ next_process_ind[v] \in Slot
        BY <1>2, <2>2, <4>1
      <4> QED
        BY <1>2, <1>8, <2>5, <3>3, <4>1, <4>2
    <3>4. CASE s # m /\ s # v /\ t # m
      BY <1>4, <1>7, <2>4, <3>4 DEF NoSkip
    <3>5. CASE s # m /\ s # v /\ t = m
      <4>1. Listed(s) /\ pid[s] < p
        BY <1>2, <1>4, <3>5
      <4>2. pid[s] < pid[v]
        <5>1. pid[s] # pid[v]
          BY <2>2, <3>5, OneSlotEach
        <5>2. ASSUME pid[v] < pid[s]
              PROVE  FALSE
          <6>1. next_process_ind[v] # Nil /\ pid[next_process_ind[v]] <= pid[s]
            BY <1>7, <2>3, <4>1, <5>2 DEF NoSkip
          <6>2. p < pid[next_process_ind[v]] /\ next_process_ind[v] \in Slot
            BY <1>2, <2>2, <6>1
          <6> QED
            BY <1>2, <1>8, <4>1, <6>1, <6>2
        <5> QED
          BY <1>8, <5>1, <5>2
      <4>3. next_process_ind[s] # Nil /\ pid[next_process_ind[s]] <= pid[v]
        BY <1>7, <2>3, <4>1, <4>2 DEF NoSkip
      <4>4. next_process_ind[s] \in Slot
        BY <4>3, PidsAreNumbers
      <4>5. pid[next_process_ind[s]] < p
        BY <1>2, <1>8, <2>2, <4>3, <4>4
      <4> QED
        BY <1>2, <1>8, <2>4, <3>5, <4>3, <4>4, <4>5
    <3> QED
      BY <3>1, <3>2, <3>3, <3>4, <3>5
  <2>7. FirstIsLeast'
    <3>1. first_process_ind # Nil /\ pid[first_process_ind] <= pid[v]
      BY <1>7, <2>3 DEF FirstIsLeast
    <3>2. first_process_ind \in Slot
      BY <3>1, PidsAreNumbers
    <3> SUFFICES ASSUME NEW t \in Slot, Listed(t)'
                 PROVE  pid[first_process_ind] <= pid[t]
      BY <1>2, <2>2, <3>1 DEF FirstIsLeast
    <3>3. CASE t = m
      BY <1>2, <1>8, <2>2, <3>1, <3>2, <3>3
    <3>4. CASE t # m
      BY <1>4, <1>7, <3>4 DEF FirstIsLeast
    <3> QED
      BY <3>3, <3>4
  <2> QED
    BY <2>6, <2>7
<1> QED
  BY <1>9, <1>10

\* The list of a group that gathers is complete and in order after every step.
LEMMA GatherStep ==
  ASSUME OneJob, TypeInv, TypeInv', CountInv, ListInv, TurnInv, TurnInv', GatherInv, [Next]_vars
  PROVE  GatherInv'
<1> Open' => Open
  BY OpenShrinks
<1>1. Registered = {} => \A p \in Proc : my_i[p] = Nil
  BY DEF Registered
<1>2. CASE UNCHANGED vars
  <2>1. \A s \in Slot : Listed(s)' => Listed(s)
    BY <1>2 DEF vars, Listed
  <2> QED
    BY <1>2, <2>1, GatherKept DEF vars, Live
<1>3. ASSUME NEW p \in Proc,
             Create(p) \/ Attach(p) \/ Discover(p) \/ Lock(p) \/ Mismatch(p) \/ Walk(p)
      PROVE  GatherInv'
  <2>1. UNCHANGED << my_i, pid, next_process_ind, first_process_ind, nr_processes,
                     nr_processes_left >>
    BY <1>3 DEF Create, Attach, Discover, Lock, Mismatch, Walk
  <2>2. \A q \in Proc : (pc'[q] = "walk") = (pc[q] = "walk")
    BY <1>3 DEF TypeInv, TypeOK, Create, Attach, Discover, Lock, Mismatch, Walk
  <2>3. \A s \in Slot : Listed(s)' => Listed(s)
    BY <2>1, <2>2 DEF Listed, TypeInv, TypeOK
  <2>4. Live' => Live
    BY <1>3 DEF TypeInv, TypeOK, LockInv, Live, Create, Attach, Discover, Lock, Mismatch, Walk
  <2> QED
    BY <2>1, <2>3, <2>4, GatherKept
<1>4. ASSUME NEW p \in Proc, QuietStep(p)
      PROVE  GatherInv'
  <2>1. /\ pid' = pid /\ next_process_ind' = next_process_ind /\ my_i' = my_i
        /\ nr_processes_left' = nr_processes_left
    BY <1>4, Quiet
  <2>2. Registered = {} => first_process_ind' = first_process_ind
    BY <1>1, <1>4 DEF TypeInv, SlotInv, QuietStep, Wait, Reacquire, Resume, AbortNext, AbortDone,
       Collect, PartitionFails, Unlock, TimeOut, SpuriousWakeup, Kill
  <2>3. ASSUME Live', Whole', Open'
        PROVE  NoSkip' /\ FirstIsLeast'
    <3>1. Live /\ first_process_ind' = first_process_ind /\ nr_processes' = nr_processes
      BY <1>4, <2>3, QuietLive, SizeOfJob DEF Whole, N
    <3>2. \A q \in Proc : pc[q] = "walk" => pc'[q] = "walk"
      <4> SUFFICES ASSUME NEW q \in Proc, pc[q] = "walk"
                   PROVE  pc'[q] = "walk"
        OBVIOUS
      <4>1. lock = q /\ q # 0
        BY ProcAssumption DEF TypeInv, LockInv
      <4>2. TimeOut(p) \/ SpuriousWakeup(p) \/ Kill(p)
        BY <1>4, <4>1 DEF TypeInv, LockInv, QuietStep, Wait, Reacquire, Resume, AbortNext,
           AbortDone, Collect, PartitionFails, Unlock
      <4> QED
        BY <2>3, <4>1, <4>2 DEF TypeInv, TypeOK, Live, TimeOut, SpuriousWakeup, Kill
    <3>3. \A s \in Slot : Listed(s)' => Listed(s)
      BY <2>1, <3>2 DEF Listed, TypeInv, TypeOK
    <3> QED
      BY <2>1, <2>3, <3>1, <3>3, GatherKept DEF GatherInv
  <2>4. Registered' = Registered
    BY <2>1 DEF Registered
  <2> QED
    BY <2>2, <2>3, <2>4 DEF GatherInv
<1>5. ASSUME NEW p \in Proc,
             \/ WakeFirst(p) \/ TakeTurn(p) \/ PartitionRank(p) \/ PartitionDone(p)
             \/ EndGroup(p) \/ WakeNext(p) \/ Bind(p)
      PROVE  GatherInv'
  <2>1. my_i[p] # Nil /\ my_i' = my_i
    BY <1>5 DEF TypeInv, SlotInv, WakeFirst, TakeTurn, PartitionRank, PartitionDone, EndGroup,
       WakeNext, Bind
  <2>2. Registered' # {}
    BY <2>1 DEF Registered
  <2>3. ~Open'
    <3>1. CASE WakeFirst(p)
      <4>1. Cardinality(Registered) >= N
        BY <3>1, SizeOfJob, SetsAreFinite DEF CountInv, EarlyInv, GroupInv, WakeFirst
      <4>2. \A q \in Proc : my_i[q] # Nil
        BY <3>1, <4>1, TurnMeansAll DEF WakeFirst
      <4>3. \A q \in Proc : pc'[q] \notin {"walk", "dispatch"}
        BY <3>1 DEF TypeInv, TypeOK, LockInv, WakeFirst, SignalAndGoto
      <4> QED
        BY <2>1, <4>2, <4>3 DEF Open
    <3>2. CASE ~WakeFirst(p)
      BY <1>5, <3>2 DEF TurnInv, HasTurn, TakeTurn, PartitionRank, PartitionDone, EndGroup,
         WakeNext, Bind
    <3> QED
      BY <3>1, <3>2
  <2> QED
    BY <2>2, <2>3 DEF GatherInv
<1> QED
  BY <1>2, <1>3, <1>4, <1>5, GatherRegister, GatherInsert, StepKinds DEF EarlyStep
-----------------------------------------------------------------------------
\* Once everybody is there, every process has a slot of its own that is in the list.
LEMMA AllListed ==
  ASSUME TypeInv, ~Open, NEW p \in Proc
  PROVE  my_i[p] \in Slot /\ pid[my_i[p]] = p /\ Listed(my_i[p])
  BY PidsAreNumbers DEF Open, Listed, TypeInv, TypeOK

\* The process that the list leads to from p has the next larger PID.
LEMMA NextBelow ==
  ASSUME TypeInv, ListInv, NoSkip, ~Open, NEW p \in Proc, next_process_ind[my_i[p]] # Nil
  PROVE  Below(pid[next_process_ind[my_i[p]]]) = Below(p) + 1
<1> DEFINE B(x) == {q \in Proc : q < x}
<1>1. PICK s \in Slot, n \in Slot : s = my_i[p] /\ n = next_process_ind[s]
  BY AllListed, PidsAreNumbers
<1>2. pid[s] = p /\ p \in Nat /\ p < pid[n] /\ pid[n] \in Nat
  BY <1>1, AllListed, PidsAreNumbers DEF ListInv, SortedList
<1>3. \A q \in Proc : q < pid[n] => q <= p
  <2> SUFFICES ASSUME NEW q \in Proc, q < pid[n], ~(q <= p)
               PROVE  FALSE
    OBVIOUS
  <2>1. q \in Nat /\ my_i[q] \in Slot /\ pid[my_i[q]] = q /\ Listed(my_i[q]) /\ Listed(s)
    BY <1>1, AllListed, PidsAreNumbers
  <2>2. pid[n] <= q
    BY <1>1, <1>2, <2>1 DEF NoSkip
  <2> QED
    BY <1>2, <2>1, <2>2
<1>4. B(pid[n]) = B(p) \cup {p}
  <2>1. \A q \in Proc : q \in Nat
    BY ProcAssumption
  <2>2. \A q \in Proc : q < pid[n] <=> q < p \/ q = p
    BY <1>2, <1>3, <2>1
  <2> QED
    BY <2>2
<1>5. IsFiniteSet(B(p)) /\ p \notin B(p)
  BY <1>2, ProcAssumption, FS_Subset
<1>6. Cardinality(B(p) \cup {p}) = Cardinality(B(p)) + 1
  <2> HIDE DEF B
  <2> QED
    BY <1>5, FS_AddElement
<1>7. Below(pid[n]) = Below(p) + 1
  BY <1>4, <1>6 DEF Below
<1> QED
  BY <1>1, <1>7

\* The process with no larger PID has the last position.
LEMMA LastBelow ==
  ASSUME NEW p \in Proc, \A q \in Proc : ~(p < q)
  PROVE  Below(p) = Cardinality(Proc) - 1
<1> DEFINE B == {q \in Proc : q < p}
<1>1. Proc = B \cup {p} /\ p \notin B
  <2>1. \A q \in Proc : q \in Nat
    BY ProcAssumption
  <2>2. \A q \in Proc : q < p \/ q = p
    BY <2>1
  <2> QED
    BY <2>1, <2>2
<1>2. IsFiniteSet(B) /\ Cardinality(B) \in Nat
  BY ProcAssumption, FS_Subset, FS_CardinalityType
<1>3. Cardinality(B \cup {p}) = Cardinality(B) + 1
  BY <1>1, <1>2, FS_AddElement
<1>4. Cardinality(Proc) = Cardinality(B) + 1
  BY <1>1, <1>3, Zenon
<1> QED
  BY <1>2, <1>4 DEF Below

\* The process with no smaller PID has the first.
LEMMA FirstBelow ==
  ASSUME NEW p \in Proc, \A q \in Proc : ~(q < p)
  PROVE  Below(p) = 0
<1>1. {q \in Proc : q < p} = {}
  OBVIOUS
<1> QED
  BY <1>1, FS_EmptySet DEF Below

\* When the last process of a group gets to wake the first, the list is that of the job.
LEMMA WakeFirstFinds ==
  ASSUME OneJob, TypeInv, CountInv, ListInv, GatherInv, NEW p \in Proc, WakeFirst(p)
  PROVE  /\ NoSkip /\ nr_processes = N
         /\ Below(pid[first_process_ind]) = 0
         /\ \A q \in Proc : my_i[q] # Nil
         /\ lock = p
<1>1. /\ pc[p] = "dispatch" /\ lock = p /\ p # 0 /\ nr_processes_left = 0 /\ nr_processes = N
      /\ first_process_ind \in Slot
  BY ProcAssumption DEF TypeInv, TypeOK, LockInv, FirstInv, CountInv, GroupInv, WakeFirst
<1>2. Open /\ Live
  BY <1>1 DEF Open, Live
<1>3. Cardinality(Registered) >= N
  BY <1>1, SizeOfJob, SetsAreFinite DEF CountInv, EarlyInv
<1>4. \A q \in Proc : my_i[q] # Nil
  BY <1>3, TurnMeansAll
<1>5. Registered = Proc
  BY <1>4 DEF Registered
<1>6. Whole
  BY <1>1, <1>5, SizeOfJob DEF Whole
<1>7. NoSkip /\ FirstIsLeast
  BY <1>2, <1>6 DEF GatherInv
<1>8. ASSUME NEW q \in Proc
      PROVE  ~(q < pid[first_process_ind])
  <2>1. my_i[q] \in Slot /\ pid[my_i[q]] = q /\ q # 0
    BY <1>4, PidsAreNumbers
  <2>2. Listed(my_i[q])
    BY <1>1, <2>1 DEF Listed, TypeInv, LockInv
  <2>3. pid[first_process_ind] <= q
    BY <1>7, <2>1, <2>2 DEF FirstIsLeast
  <2> QED
    BY <1>1, <2>3, PidsAreNumbers
<1>9. pid[first_process_ind] \in Proc
  BY <1>1, <1>2, PidsAreNumbers DEF ListInv
<1> QED
  BY <1>1, <1>4, <1>7, <1>8, <1>9, FirstBelow

\* As long as somebody is to come nobody has the turn.
LEMMA ChainEarly ==
  ASSUME TurnInv', Open'
  PROVE  ChainInv'
  BY DEF TurnInv, ChainInv

\* The links stay as they are once everybody is in the list.
LEMMA NoSkipKept ==
  ASSUME TypeInv, NoSkip, pid' = pid, next_process_ind' = next_process_ind,
         \A q \in Proc : pc[q] # "walk"
  PROVE  NoSkip'
<1>1. \A s \in Slot : Listed(s)' => Listed(s)
  BY DEF Listed, TypeInv, TypeOK
<1> QED
  BY <1>1 DEF NoSkip

\* The turn goes to the next larger PID, whatever is done.
LEMMA ChainStep ==
  ASSUME OneJob, TypeInv, TypeInv', CountInv, ListInv, TurnInv, TurnInv', GatherInv, ChainInv,
         [Next]_vars
  PROVE  ChainInv'
<1> Open' => Open
  BY OpenShrinks
<1>1. CASE Open'
  BY <1>1, ChainEarly
<1>2. \A q \in Proc : Below(q)' = Below(q) /\ N' = N
  BY DEF Below, N
<1>3. ASSUME NEW q \in Proc, HasTurn(q), pid' = pid, next_process_ind' = next_process_ind
      PROVE  NoSkip'
  BY <1>3, NoSkipKept DEF TurnInv, Open, ChainInv
<1>4. CASE UNCHANGED vars
  <2>1. UNCHANGED << pid, next_process_ind, my_i, nr_processes_left, nr_processes,
                     first_process_ind, pc, ready, timeout, lock >>
    BY <1>4 DEF vars
  <2>2. \A q \in Proc : HasTurn(q)' => HasTurn(q)
    BY <2>1 DEF HasTurn
  <2>3. Live' => Live
    BY <2>1 DEF Live
  <2> QED
    BY <1>2, <1>3, <2>1, <2>2, <2>3 DEF ChainInv, TurnsLeft
<1>5. ASSUME NEW p \in Proc, QuietStep(p)
      PROVE  ChainInv'
  <2> SUFFICES ASSUME NEW q \in Proc, HasTurn(q)'
               PROVE  /\ NoSkip'
                      /\ Live' /\ first_process_ind' # Nil
                           => first_process_ind' = next_process_ind'[my_i'[q]]
                      /\ nr_processes_left' = TurnsLeft(q)'
                      /\ Live' /\ nr_processes' # N' => first_process_ind' = Nil
    BY DEF ChainInv
  <2>1. /\ HasTurn(q) /\ pid' = pid /\ next_process_ind' = next_process_ind /\ my_i' = my_i
        /\ nr_processes_left' = nr_processes_left
    BY <1>5, Quiet
  <2>2. NoSkip'
    BY <1>3, <2>1
  <2>3. pc'[q] \in {"collect", "partition", "handoff"}
          <=> pc[q] \in {"collect", "partition", "handoff"}
    BY <1>5, Quiet
  <2>4. TurnsLeft(q)' = TurnsLeft(q)
    BY <1>2, <2>3 DEF TurnsLeft
  <2> QED
    BY <1>2, <1>5, <2>1, <2>2, <2>4, QuietLive DEF ChainInv
<1>6. ASSUME NEW p \in Proc, WakeFirst(p), ~Open'
      PROVE  ChainInv'
  <2> SUFFICES ASSUME NEW q \in Proc, HasTurn(q)'
               PROVE  /\ NoSkip'
                      /\ first_process_ind' = next_process_ind'[my_i'[q]]
                      /\ nr_processes_left' = TurnsLeft(q)'
                      /\ nr_processes' = N'
    BY DEF ChainInv
  <2>1. q = pid[first_process_ind] /\ my_i[q] = first_process_ind
    BY <1>6, TurnToFirst
  <2>2. NoSkip /\ nr_processes = N /\ Below(q) = 0 /\ lock = p
    BY <1>6, <2>1, WakeFirstFinds
  <2>3. \A r \in Proc : pc[r] # "walk"
    BY <1>6, <2>2 DEF TypeInv, LockInv, WakeFirst
  <2>4. NoSkip'
    BY <1>6, <2>2, <2>3, NoSkipKept DEF WakeFirst
  <2>5. pc'[q] \notin {"collect", "partition", "handoff"}
    BY <1>6, <2>2 DEF TypeInv, TypeOK, LockInv, WakeFirst, SignalAndGoto
  <2>6. N \in Nat
    BY SizeOfJob
  <2> QED
    BY <1>2, <1>6, <2>1, <2>2, <2>4, <2>5, <2>6 DEF TurnsLeft, WakeFirst
<1>7. ASSUME NEW p \in Proc, TakeTurn(p)
      PROVE  ChainInv'
  <2>1. HasTurn(p) /\ lock = p /\ p # 0 /\ pc[p] = "granted"
    BY <1>7, ProcAssumption DEF TypeInv, LockInv, HasTurn, TakeTurn
  <2>2. \A q \in Proc : HasTurn(q)' => q = p
    BY <1>7, <2>1 DEF TypeInv, TypeOK, TurnInv, HasTurn, TakeTurn
  <2>3. UNCHANGED << pid, next_process_ind, my_i, nr_processes, first_process_ind >>
    BY <1>7 DEF TakeTurn
  <2>4. NoSkip' /\ Live
    BY <1>3, <2>1, <2>3 DEF Live
  <2>5. TurnsLeft(p)' = TurnsLeft(p) - 1
    <3>1. pc'[p] \in {"collect", "handoff"}
      BY <1>7 DEF TypeInv, TypeOK, TakeTurn
    <3>2. N \in Nat /\ Below(p) \in Nat
      BY SizeOfJob, BelowGrows
    <3> QED
      BY <1>2, <2>1, <3>1, <3>2 DEF TurnsLeft
  <2>6. nr_processes_left' = nr_processes_left - 1
    BY <1>7 DEF TakeTurn
  <2> QED
    BY <1>2, <2>1, <2>2, <2>3, <2>4, <2>5, <2>6 DEF ChainInv
<1>8. ASSUME NEW p \in Proc, PartitionRank(p) \/ PartitionDone(p)
      PROVE  ChainInv'
  <2>1. HasTurn(p) /\ lock = p /\ p # 0 /\ pc[p] = "partition"
    BY <1>8, ProcAssumption DEF TypeInv, LockInv, HasTurn, PartitionRank, PartitionDone
  <2>2. \A q \in Proc : HasTurn(q)' => q = p
    BY <1>8, <2>1 DEF TypeInv, TypeOK, TurnInv, HasTurn, PartitionRank, PartitionDone
  <2>3. UNCHANGED << pid, next_process_ind, my_i, nr_processes, first_process_ind,
                     nr_processes_left >>
    BY <1>8 DEF PartitionRank, PartitionDone
  <2>4. NoSkip' /\ Live
    BY <1>3, <2>1, <2>3 DEF Live
  <2>5. TurnsLeft(p)' = TurnsLeft(p)
    <3>1. pc'[p] \in {"partition", "handoff"}
      BY <1>8 DEF TypeInv, TypeOK, PartitionRank, PartitionDone
    <3> QED
      BY <1>2, <2>1, <3>1 DEF TurnsLeft
  <2> QED
    BY <1>2, <2>1, <2>2, <2>3, <2>4, <2>5 DEF ChainInv
<1>9. ASSUME NEW p \in Proc, EndGroup(p)
      PROVE  ChainInv'
  <2>1. \A q \in Proc : ~HasTurn(q)'
    BY <1>9 DEF TypeInv, TypeOK, TurnInv, HasTurn, EndGroup
  <2> QED
    BY <2>1 DEF ChainInv
<1>10. ASSUME NEW p \in Proc, WakeNext(p)
       PROVE  ChainInv'
  <2> SUFFICES ASSUME NEW q \in Proc, HasTurn(q)'
               PROVE  /\ NoSkip'
                      /\ first_process_ind' = next_process_ind'[my_i'[q]]
                      /\ nr_processes_left' = TurnsLeft(q)'
                      /\ nr_processes' = N'
    BY DEF ChainInv
  <2>1. /\ first_process_ind \in Slot /\ q = pid[first_process_ind]
        /\ my_i[q] = first_process_ind /\ pc'[q] \in InWait
    BY <1>10, TurnToNext
  <2>2. HasTurn(p) /\ lock = p /\ p # 0 /\ pc[p] = "handoff"
    BY <1>10, ProcAssumption DEF TypeInv, LockInv, HasTurn, WakeNext
  <2>3. Live /\ first_process_ind # Nil
    BY <2>1, <2>2 DEF Live
  <2>4. /\ NoSkip /\ first_process_ind = next_process_ind[my_i[p]] /\ nr_processes = N
        /\ nr_processes_left = N - Below(p) - 1
    BY <2>2, <2>3 DEF ChainInv, TurnsLeft
  <2>5. Below(q) = Below(p) + 1
    BY <2>1, <2>2, <2>3, <2>4, NextBelow DEF TurnInv
  <2>6. UNCHANGED << pid, next_process_ind, my_i, nr_processes, nr_processes_left >>
    BY <1>10 DEF WakeNext
  <2>7. N \in Nat /\ Below(p) \in Nat
    BY SizeOfJob, BelowGrows
  <2>8. nr_processes_left' = TurnsLeft(q)'
    BY <1>2, <2>1, <2>4, <2>5, <2>6, <2>7 DEF TurnsLeft
  <2>9. first_process_ind' = next_process_ind[first_process_ind]
    BY <1>10, <2>3 DEF WakeNext
  <2> QED
    BY <1>2, <1>3, <2>1, <2>2, <2>4, <2>6, <2>8, <2>9
<1>11. ASSUME NEW p \in Proc, Bind(p)
       PROVE  ChainInv'
  <2>1. /\ UNCHANGED << pid, next_process_ind, my_i, nr_processes, first_process_ind,
                        nr_processes_left, lock, ready, timeout >>
        /\ pc[p] = "bind" /\ pc' = [pc EXCEPT ![p] = "unlock"]
    BY <1>11 DEF Bind
  <2>2. \A q \in Proc : HasTurn(q)' => HasTurn(q) /\ pc'[q] = pc[q]
    BY <2>1 DEF HasTurn, TypeInv, TypeOK
  <2>3. Live
    BY <2>1 DEF Live, TypeInv, LockInv
  <2> QED
    BY <1>2, <1>3, <2>1, <2>2, <2>3 DEF ChainInv, TurnsLeft
<1>12. ASSUME NEW p \in Proc, EarlyStep(p)
       PROVE  ChainInv'
  BY <1>12, EarlySteps, ChainEarly DEF EarlyStep
<1> QED
  BY <1>1, <1>4, <1>5, <1>6, <1>7, <1>8, <1>9, <1>10, <1>11, <1>12, StepKinds

-----------------------------------------------------------------------------
\* The order of the list and of the turn, and that nobody is left out.
OrderChainInv == OrderInv /\ GatherInv /\ ChainInv

\* The turn visits the processes of a job one by one.
LEMMA ChainInvariance ==
  ASSUME OneJob
  PROVE  Spec => []OrderChainInv
<1>1. Init => OrderInv /\ GatherInv /\ ChainInv
  <2>1. Init => OrderInv /\ GatherInv
    BY ListInit, TurnInit, RankInit, GatherInit DEF OrderInv
  <2>2. Init => ChainInv
    BY DEF Init, HasTurn, ChainInv
  <2> QED
    BY <2>1, <2>2
<1>2. ASSUME TypeInv, TypeInv', CountInv, OrderInv, OrderInv', GatherInv, ChainInv, [Next]_vars
      PROVE  GatherInv' /\ ChainInv'
  BY <1>2, GatherStep, ChainStep DEF OrderInv
<1>3. SamePpn
  BY SizeOfJob
<1> QED
  BY <1>1, <1>2, <1>3, TypeInvariance, CountInvariance, OrderInvariance, PTL
     DEF Spec, OrderChainInv

\* Without timeouts nobody gives up on the list but who has the turn.
LEMMA UndisturbedStep ==
  ASSUME "timeout" \notin Faults, TypeInv, TypeInv', ListInv, TurnInv, TurnInv', UndisturbedInv,
         [Next]_vars
  PROVE  UndisturbedInv'
<1>1. CASE UNCHANGED vars
  BY <1>1 DEF vars, UndisturbedInv, HasTurn
<1>2. ASSUME NEW p \in Proc, EarlyStep(p)
      PROVE  UndisturbedInv'
  <2>1. \A q \in Proc : pc'[q] # "timedout"
    <3>1. CASE Create(p) \/ Attach(p) \/ Discover(p)
      BY <3>1 DEF UndisturbedInv, Create, Attach, Discover, TypeInv, TypeOK
    <3>2. CASE Lock(p) \/ Mismatch(p)
      BY <3>2 DEF UndisturbedInv, Lock, Mismatch, TypeInv, TypeOK
    <3>3. CASE Register(p)
      BY <3>3 DEF UndisturbedInv, Register, TypeInv, TypeOK
    <3>4. CASE Walk(p) \/ Insert(p)
      BY <3>4 DEF UndisturbedInv, Walk, Insert, TypeInv, TypeOK
    <3> QED
      BY <1>2, <3>1, <3>2, <3>3, <3>4 DEF EarlyStep
  <2>2. \A q \in Proc : ~HasTurn(q)'
    BY <1>2, EarlySteps DEF EarlyStep, TurnInv
  <2> QED
    BY <2>1, <2>2 DEF UndisturbedInv
<1>3. ASSUME NEW p \in Proc, QuietStep(p)
      PROVE  UndisturbedInv'
  <2>1. /\ next_process_ind' = next_process_ind /\ my_i' = my_i
        /\ \A q \in Proc : HasTurn(q)' => HasTurn(q)
    BY <1>3, Quiet
  <2>2. \A q \in Proc : pc'[q] # "timedout"
    <3>1. CASE Wait(p) \/ Reacquire(p) \/ Resume(p)
      BY <3>1 DEF UndisturbedInv, Wait, Reacquire, Resume, TypeInv, TypeOK
    <3>2. CASE AbortNext(p)
      BY <3>2 DEF UndisturbedInv, AbortNext, SignalAndGoto
    <3>3. CASE AbortDone(p) \/ Collect(p) \/ PartitionFails(p) \/ Unlock(p)
      BY <3>3 DEF UndisturbedInv, AbortDone, Collect, PartitionFails, Unlock, TypeInv, TypeOK
    <3>4. CASE TimeOut(p) \/ SpuriousWakeup(p) \/ Kill(p)
      BY <3>4 DEF UndisturbedInv, TimeOut, SpuriousWakeup, Kill, TypeInv, TypeOK
    <3> QED
      BY <1>3, <3>1, <3>2, <3>3, <3>4 DEF QuietStep
  <2>3. ASSUME NEW q \in Proc, pc'[q] = "abort", NEW r \in Proc
        PROVE  ~HasTurn(r)'
    <3>1. pc[q] = "abort" \/ (q = p /\ Collect(p))
      <4>1. CASE Wait(p) \/ Resume(p) \/ AbortDone(p) \/ Collect(p) \/ PartitionFails(p)
        BY <2>3, <4>1 DEF Wait, Resume, AbortDone, Collect, PartitionFails, TypeInv, TypeOK
      <4>2. CASE Reacquire(p)
        BY <2>3, <4>2 DEF UndisturbedInv, Reacquire, TypeInv, TypeOK
      <4>3. CASE AbortNext(p)
        BY <2>3, <4>3 DEF AbortNext, SignalAndGoto, TypeInv, TypeOK
      <4>4. CASE Unlock(p) \/ TimeOut(p) \/ SpuriousWakeup(p) \/ Kill(p)
        BY <2>3, <4>4 DEF Unlock, TimeOut, SpuriousWakeup, Kill, TypeInv, TypeOK
      <4> QED
        BY <1>3, <4>1, <4>2, <4>3, <4>4 DEF QuietStep
    <3>2. CASE pc[q] = "abort"
      BY <2>1, <3>2 DEF UndisturbedInv
    <3>3. CASE q = p /\ Collect(p)
      <4>1. HasTurn(p) /\ ~HasTurn(p)'
        BY <2>3, <3>3 DEF HasTurn, Collect
      <4> QED
        BY <2>1, <4>1 DEF TurnInv
    <3> QED
      BY <3>1, <3>2, <3>3
  <2>4. \/ first_process_ind' = first_process_ind
        \/ \A r \in Proc : ~HasTurn(r)
    BY <1>3 DEF UndisturbedInv, QuietStep, Wait, Reacquire, Resume, AbortNext, AbortDone,
       Collect, PartitionFails, Unlock, TimeOut, SpuriousWakeup, Kill
  <2> QED
    BY <2>1, <2>2, <2>3, <2>4 DEF UndisturbedInv
<1>4. ASSUME NEW p \in Proc, WakeFirst(p) \/ WakeNext(p)
      PROVE  UndisturbedInv'
  <2>1. \A q \in Proc : pc'[q] \notin {"timedout", "abort"}
    BY <1>4 DEF UndisturbedInv, TypeInv, TypeOK, LockInv, WakeFirst, WakeNext, SignalAndGoto
  <2>2. ASSUME NEW q \in Proc, HasTurn(q)'
        PROVE  first_process_ind' = next_process_ind'[my_i'[q]]
    <3>1. first_process_ind \in Slot /\ my_i[q] = first_process_ind
      BY <1>4, <2>2, TurnToFirst, TurnToNext
    <3> QED
      BY <1>4, <3>1 DEF WakeFirst, WakeNext
  <2> QED
    BY <2>1, <2>2 DEF UndisturbedInv
<1>5. ASSUME NEW p \in Proc,
             TakeTurn(p) \/ PartitionRank(p) \/ PartitionDone(p) \/ EndGroup(p) \/ Bind(p)
      PROVE  UndisturbedInv'
  <2>1. UNCHANGED << next_process_ind, my_i, first_process_ind, lock, ready, timeout >>
    BY <1>5 DEF TakeTurn, PartitionRank, PartitionDone, EndGroup, Bind
  <2>2. /\ pc[p] \notin InWait \cup {"abort", "resume"}
        /\ pc'[p] \notin InWait \cup {"abort", "resume"}
        /\ pc[p] = "bind" => pc'[p] = "unlock"
        /\ pc[p] # "bind" => HasTurn(p)
        /\ \A q \in Proc : q # p => pc'[q] = pc[q]
    BY <1>5 DEF TakeTurn, PartitionRank, PartitionDone, EndGroup, Bind, TypeInv, TypeOK, HasTurn
  <2>3. \A q \in Proc : HasTurn(q)' => HasTurn(q)
    BY <2>1, <2>2 DEF HasTurn
  <2> QED
    BY <2>1, <2>2, <2>3 DEF UndisturbedInv
<1> QED
  BY <1>1, <1>2, <1>3, <1>4, <1>5, StepKinds

\* "Otherwise wake up next process in list" (1085): there is one, as long as nobody times
\* out.  (Someone who times out may empty the list between two turns, and then the code
\* takes -1 for the index of a process.)
THEOREM SomeoneIsThere ==
  ASSUME OneJob, "timeout" \notin Faults
  PROVE  Spec => []SomeoneToWake
<1>1. Init => UndisturbedInv
  BY DEF Init, UndisturbedInv, HasTurn
<1>2. ASSUME TypeInv, TypeInv', OrderInv, OrderInv', UndisturbedInv, [Next]_vars
      PROVE  UndisturbedInv'
  BY <1>2, UndisturbedStep DEF OrderInv
<1>3. ASSUME TypeInv, OrderInv, ChainInv, UndisturbedInv
      PROVE  SomeoneToWake
  <2> SUFFICES ASSUME NEW p \in Proc, pc[p] = "handoff", nr_processes_left # 0
               PROVE  first_process_ind # Nil
    BY DEF SomeoneToWake
  <2>1. HasTurn(p) /\ first_process_ind = next_process_ind[my_i[p]]
    BY <1>3 DEF HasTurn, UndisturbedInv
  <2>2. nr_processes_left = N - Below(p) - 1 /\ NoSkip /\ ~Open
    BY <1>3, <2>1 DEF ChainInv, TurnsLeft, OrderInv, TurnInv
  <2>3. PICK q \in Proc : p < q
    BY <2>2, SizeOfJob, LastBelow
  <2>4. next_process_ind[my_i[p]] # Nil
    BY <1>3, <2>2, <2>3, AllListed DEF NoSkip
  <2> QED
    BY <2>1, <2>4
<1> QED
  BY <1>1, <1>2, <1>3, TypeInvariance, OrderInvariance, ChainInvariance, PTL
     DEF Spec, OrderChainInv

-----------------------------------------------------------------------------
\* Who waits and was told nothing is in the list; who walks along it comes from there.
QueueInv ==
  /\ \A p \in Proc : pc[p] \in {"dispatch"} \cup InWait /\ ~ready[my_i[p]] => my_i[p] \in Queue
  /\ \A p \in Proc : pc[p] = "walk" => prev_i[p] \in Queue \cup {Nil}

\* The list has its first item and, with each item, the next.
LEMMA QueueCloses ==
  /\ first_process_ind \in Slot => first_process_ind \in Queue
  /\ \A s \in Queue : next_process_ind[s] \in Slot => next_process_ind[s] \in Queue
  /\ first_process_ind = Nil => Queue = {}
<1>1. first_process_ind \in Slot => first_process_ind \in Queue
  BY TwoSlots DEF Queue
<1>2. ASSUME NEW s \in Queue, next_process_ind[s] \in Slot
      PROVE  next_process_ind[s] \in Queue
  <2> SUFFICES ASSUME NEW T \in SUBSET Slot,
                      {first_process_ind} \cup {next_process_ind[t] : t \in T} \subseteq T \cup {Nil}
               PROVE  next_process_ind[s] \in T
    BY <1>2 DEF Queue
  <2>1. s \in T
    BY DEF Queue
  <2>2. next_process_ind[s] # Nil
    BY <1>2, TwoSlots
  <2> QED
    BY <2>1, <2>2
<1>3. ASSUME first_process_ind = Nil
      PROVE  Queue = {}
  <2>1. PICK T \in SUBSET Slot : T = {}
    OBVIOUS
  <2>2. {first_process_ind} \cup {next_process_ind[t] : t \in T} \subseteq T \cup {Nil}
    BY <1>3, <2>1
  <2>3. \A s \in Queue : s \in T
    BY <2>2 DEF Queue
  <2> QED
    BY <2>1, <2>3
<1> QED
  BY <1>1, <1>2, <1>3

\* Taking the first item off loses no other.
LEMMA QueuePopped ==
  ASSUME first_process_ind \in Slot, next_process_ind' = next_process_ind,
         first_process_ind' = next_process_ind[first_process_ind],
         NEW s \in Queue, s # first_process_ind
  PROVE  s \in Queue'
<1> SUFFICES ASSUME NEW T \in SUBSET Slot,
                    {first_process_ind'} \cup {next_process_ind[t] : t \in T} \subseteq T \cup {Nil}
             PROVE  s \in T
  BY DEF Queue
<1>1. PICK U \in SUBSET Slot : U = T \cup {first_process_ind}
  OBVIOUS
<1>2. {first_process_ind} \cup {next_process_ind[t] : t \in U} \subseteq U \cup {Nil}
  BY <1>1
<1>3. s \in U
  BY <1>2 DEF Queue
<1> QED
  BY <1>1, <1>3

\* Inserting an item in front, or after one that is in the list, loses no other.
LEMMA QueueInserted ==
  ASSUME TypeInv, NEW p \in Proc, Insert(p), next_process_ind[my_i[p]] = Nil,
         prev_i[p] \in Queue \cup {Nil}, my_i[p] \in Slot
  PROVE  Queue \subseteq Queue' /\ my_i[p] \in Queue'
<1> SUFFICES ASSUME NEW T \in SUBSET Slot,
                    {first_process_ind'} \cup {next_process_ind'[t] : t \in T} \subseteq T \cup {Nil}
             PROVE  Queue \subseteq T /\ my_i[p] \in T
  BY DEF Queue
<1>1. next_process_ind \in [Slot -> Slot \cup {Nil}] /\ my_i[p] # Nil
  BY TwoSlots DEF TypeInv, TypeOK
<1>2. \A t \in T : next_process_ind'[t] \in T \cup {Nil}
  OBVIOUS
<1>3. CASE prev_i[p] = Nil
  <2>1. /\ next_process_ind' = [next_process_ind EXCEPT ![my_i[p]] = first_process_ind]
        /\ first_process_ind' = my_i[p]
    BY <1>3 DEF Insert
  <2>2. my_i[p] \in T
    BY <1>1, <2>1
  <2>3. first_process_ind \in T \cup {Nil}
    BY <1>1, <1>2, <2>1, <2>2
  <2>4. \A t \in T : next_process_ind[t] \in T \cup {Nil}
    BY <1>1, <1>2, <2>1
  <2>5. {first_process_ind} \cup {next_process_ind[t] : t \in T} \subseteq T \cup {Nil}
    BY <2>3, <2>4
  <2> QED
    BY <2>2, <2>5 DEF Queue
<1>4. CASE prev_i[p] # Nil
  <2>1. /\ next_process_ind' = [next_process_ind EXCEPT
              ![my_i[p]] = next_process_ind[prev_i[p]], ![prev_i[p]] = my_i[p]]
        /\ first_process_ind' = first_process_ind
    BY <1>4 DEF Insert
  <2>2. prev_i[p] \in Queue /\ prev_i[p] \in Slot
    BY <1>4 DEF Queue
  <2>3. next_process_ind'[prev_i[p]] = my_i[p]
    BY <1>1, <2>1, <2>2
  <2>4. prev_i[p] # my_i[p] => next_process_ind'[my_i[p]] = next_process_ind[prev_i[p]]
    BY <1>1, <2>1, <2>2
  <2>5. \A t \in T : next_process_ind[t] \in T \cup {Nil}
    <3> SUFFICES ASSUME NEW t \in T
                 PROVE  next_process_ind[t] \in T \cup {Nil}
      OBVIOUS
    <3>1. CASE t = my_i[p]
      BY <3>1
    <3>2. CASE t # my_i[p] /\ t = prev_i[p]
      <4>1. my_i[p] \in T
        BY <1>1, <1>2, <2>3, <3>2
      <4> QED
        BY <1>2, <2>4, <3>2, <4>1
    <3>3. CASE t # my_i[p] /\ t # prev_i[p]
      BY <1>1, <1>2, <2>1, <3>3
    <3> QED
      BY <3>1, <3>2, <3>3
  <2>6. {first_process_ind} \cup {next_process_ind[t] : t \in T} \subseteq T \cup {Nil}
    BY <2>1, <2>5
  <2>7. Queue \subseteq T
    BY <2>6 DEF Queue
  <2> QED
    BY <1>1, <1>2, <2>2, <2>3, <2>7
<1> QED
  BY <1>3, <1>4

\* A step that leaves the list and what its items were told alone.
LEMMA QueueKept ==
  ASSUME QueueInv, first_process_ind' = first_process_ind,
         next_process_ind' = next_process_ind, my_i' = my_i, prev_i' = prev_i, ready' = ready,
         \A q \in Proc :
           /\ pc'[q] \in {"dispatch"} \cup InWait => pc[q] \in {"dispatch"} \cup InWait
           /\ pc'[q] = "walk" => pc[q] = "walk"
  PROVE  QueueInv'
<1>1. Queue' = Queue
  BY DEF Queue
<1> QED
  BY <1>1 DEF QueueInv

\* A step that takes the first item off and tells its process, or is of this process.
LEMMA QueueShrinks ==
  ASSUME TypeInv, QueueInv, first_process_ind \in Slot, next_process_ind' = next_process_ind,
         first_process_ind' = next_process_ind[first_process_ind], my_i' = my_i,
         \A s \in Slot : ready[s] => ready'[s],
         \A q \in Proc :
           /\ pc'[q] \in {"dispatch"} \cup InWait =>
                /\ pc[q] \in {"dispatch"} \cup InWait
                /\ my_i[q] = first_process_ind => ready'[my_i[q]]
           /\ pc'[q] # "walk"
  PROVE  QueueInv'
<1> SUFFICES ASSUME NEW q \in Proc, pc'[q] \in {"dispatch"} \cup InWait, ~ready'[my_i[q]]
             PROVE  my_i[q] \in Queue'
  BY DEF QueueInv
<1>1. pc[q] \in {"dispatch"} \cup InWait /\ my_i[q] # first_process_ind
  OBVIOUS
<1>2. my_i[q] \in Slot
  BY <1>1 DEF TypeInv, TypeOK, SlotInv
<1>3. my_i[q] \in Queue
  BY <1>1, <1>2 DEF QueueInv
<1> QED
  BY <1>1, <1>3, QueuePopped

\* A new item is alone, or is still to be inserted; its slot was not in the list.
LEMMA QueueRegister ==
  ASSUME TypeInv, ListInv, QueueInv, NEW p \in Proc, Register(p)
  PROVE  QueueInv'
<1>1. pc[p] = "register" /\ my_i[p] = Nil /\ lock = p
  BY DEF TypeInv, SlotInv, LockInv, Register
<1>2. PICK s \in Slot : s = FreeSlot /\ pid[s] = 0
  BY <1>1, FreeSlotExists
<1>3. /\ my_i' = [my_i EXCEPT ![p] = s] /\ ready' = [ready EXCEPT ![s] = FALSE]
      /\ next_process_ind' = [next_process_ind EXCEPT ![s] = Nil]
      /\ \A q \in Proc : q # p => pc'[q] = pc[q] /\ pc[q] # "walk"
  BY <1>1, <1>2 DEF TypeInv, TypeOK, LockInv, Register
<1>4. next_process_ind' = next_process_ind
  BY <1>2, <1>3 DEF ListInv, SortedList, TypeInv, TypeOK
<1>5. ASSUME NEW q \in Proc, q # p, pc[q] \in {"dispatch"} \cup InWait, ~ready'[my_i'[q]]
      PROVE  my_i'[q] = my_i[q] /\ my_i[q] \in Queue
  <2>1. my_i'[q] = my_i[q] /\ my_i[q] \in Slot /\ my_i[q] # s
    BY <1>2, <1>3, <1>5, ProcAssumption DEF TypeInv, TypeOK, SlotInv
  <2> QED
    BY <1>3, <1>5, <2>1 DEF QueueInv, TypeInv, TypeOK
<1>6. CASE first_process_ind = Nil
  <2>1. first_process_ind' = s /\ my_i'[p] = s /\ pc'[p] = "dispatch"
    BY <1>2, <1>3, <1>6 DEF Register, TypeInv, TypeOK
  <2>2. s \in Queue'
    BY <2>1 DEF Queue
  <2>3. Queue = {}
    BY <1>6, QueueCloses
  <2> QED
    BY <1>3, <1>5, <2>1, <2>2, <2>3 DEF QueueInv
<1>7. CASE first_process_ind # Nil
  <2>1. first_process_ind' = first_process_ind /\ pc'[p] = "walk" /\ prev_i'[p] = Nil
    BY <1>7 DEF Register, TypeInv, TypeOK
  <2>2. Queue' = Queue
    BY <1>4, <2>1 DEF Queue
  <2> QED
    BY <1>3, <1>5, <2>1, <2>2 DEF QueueInv
<1> QED
  BY <1>6, <1>7

\* Nobody is lost in any step.
LEMMA QueueStep ==
  ASSUME TypeInv, ListInv, QueueInv, [Next]_vars
  PROVE  QueueInv'
<1>1. CASE UNCHANGED vars
  BY <1>1, QueueKept DEF vars
<1>2. ASSUME NEW p \in Proc,
             \/ Create(p) \/ Attach(p) \/ Discover(p) \/ Lock(p) \/ Mismatch(p)
             \/ Wait(p) \/ Reacquire(p) \/ Resume(p) \/ AbortDone(p) \/ Collect(p)
             \/ PartitionFails(p) \/ Unlock(p) \/ TimeOut(p) \/ SpuriousWakeup(p) \/ Kill(p)
             \/ TakeTurn(p) \/ PartitionRank(p) \/ PartitionDone(p) \/ EndGroup(p) \/ Bind(p)
      PROVE  QueueInv'
  <2>1. UNCHANGED << first_process_ind, next_process_ind, my_i, prev_i, ready >>
    BY <1>2 DEF Create, Attach, Discover, Lock, Mismatch, Wait, Reacquire, Resume, AbortDone,
       Collect, PartitionFails, Unlock, TimeOut, SpuriousWakeup, Kill, TakeTurn, PartitionRank,
       PartitionDone, EndGroup, Bind
  <2>2. /\ \A q \in Proc : q # p => pc'[q] = pc[q]
        /\ pc'[p] # "walk"
        /\ pc'[p] \in {"dispatch"} \cup InWait => pc[p] \in {"dispatch"} \cup InWait
    BY <1>2 DEF TypeInv, TypeOK, Create, Attach, Discover, Lock, Mismatch, Wait, Reacquire,
       Resume, AbortDone, Collect, PartitionFails, Unlock, TimeOut, SpuriousWakeup, Kill,
       TakeTurn, PartitionRank, PartitionDone, EndGroup, Bind
  <2> QED
    BY <2>1, <2>2, QueueKept
<1>3. ASSUME NEW p \in Proc, Walk(p)
      PROVE  QueueInv'
  <2>1. /\ UNCHANGED << first_process_ind, next_process_ind, my_i, ready, pc >>
        /\ prev_i' = [prev_i EXCEPT ![p] = i[p]] /\ i[p] # Nil /\ pc[p] = "walk"
    BY <1>3 DEF Walk
  <2>2. i[p] \in Slot /\ first_process_ind \in Slot \cup {Nil}
    BY <2>1, PidsAreNumbers
  <2>3. prev_i[p] \in Queue \cup {Nil}
    BY <2>1 DEF QueueInv
  <2>4. i[p] \in Queue
    BY <2>1, <2>2, <2>3, QueueCloses DEF ListInv
  <2>5. Queue' = Queue
    BY <2>1 DEF Queue
  <2> QED
    BY <2>1, <2>4, <2>5 DEF QueueInv, TypeInv, TypeOK
<1>4. ASSUME NEW p \in Proc, Insert(p)
      PROVE  QueueInv'
  <2>1. /\ UNCHANGED << my_i, ready >> /\ pc[p] = "walk" /\ lock = p /\ pc'[p] = "dispatch"
        /\ \A q \in Proc : q # p => pc'[q] = pc[q]
    BY <1>4 DEF Insert, TypeInv, TypeOK, LockInv
  <2>2. \A q \in Proc : pc'[q] # "walk"
    BY <2>1 DEF TypeInv, LockInv
  <2>3. next_process_ind[my_i[p]] = Nil /\ prev_i[p] \in Queue \cup {Nil} /\ my_i[p] \in Slot
    BY <2>1 DEF ListInv, QueueInv, TypeInv, TypeOK, SlotInv
  <2>4. Queue \subseteq Queue' /\ my_i[p] \in Queue'
    BY <1>4, <2>3, QueueInserted
  <2> QED
    BY <2>1, <2>2, <2>4 DEF QueueInv
<1>5. ASSUME NEW p \in Proc, WakeFirst(p)
      PROVE  QueueInv'
  <2>1. pc[p] = "dispatch" /\ lock = p /\ first_process_ind \in Slot
    BY <1>5 DEF WakeFirst, TypeInv, TypeOK, LockInv, FirstInv
  <2>2. /\ \A q \in Proc : pc'[q] \in {"dispatch"} \cup InWait => pc[q] \in {"dispatch"} \cup InWait
        /\ \A q \in Proc : pc'[q] # "walk"
    BY <1>5, <2>1 DEF WakeFirst, SignalAndGoto, TypeInv, TypeOK, LockInv
  <2>3. /\ \A s \in Slot : ready[s] => ready'[s]
        /\ ready'[first_process_ind]
    BY <1>5, <2>1 DEF WakeFirst, TypeInv, TypeOK
  <2> QED
    BY <1>5, <2>1, <2>2, <2>3, QueueShrinks DEF WakeFirst
<1>6. ASSUME NEW p \in Proc, AbortNext(p)
      PROVE  QueueInv'
  <2>1. pc[p] = "abort" /\ lock = p /\ first_process_ind \in Slot
    BY <1>6 DEF AbortNext, TypeInv, TypeOK, LockInv
  <2>2. /\ \A q \in Proc : pc'[q] \in {"dispatch"} \cup InWait => pc[q] \in {"dispatch"} \cup InWait
        /\ \A q \in Proc : pc'[q] # "walk"
        /\ pc'[p] = "abort"
    <3>1. pc' = pc \/ SignalAndGoto(p, first_process_ind, "abort")
      BY <1>6 DEF AbortNext
    <3>2. pc \in [Proc -> Control] /\ \A q \in Proc : pc[q] # "walk"
      BY <2>1 DEF TypeInv, TypeOK, LockInv
    <3> QED
      BY <2>1, <3>1, <3>2 DEF SignalAndGoto
  <2>3. /\ \A s \in Slot : ready[s] => ready'[s]
        /\ pid[first_process_ind] # p => ready'[first_process_ind]
    BY <1>6, <2>1 DEF AbortNext, TypeInv, TypeOK
  <2>4. \A q \in Proc : my_i[q] = first_process_ind => pid[first_process_ind] = q
    BY <2>1, TwoSlots DEF TypeInv, SlotInv
  <2>5. \A q \in Proc : pc'[q] \in {"dispatch"} \cup InWait /\ my_i[q] = first_process_ind =>
          ready'[my_i[q]]
    BY <2>2, <2>3, <2>4
  <2> QED
    BY <1>6, <2>1, <2>2, <2>3, <2>5, QueueShrinks DEF AbortNext
<1>7. ASSUME NEW p \in Proc, WakeNext(p)
      PROVE  QueueInv'
  <2>1. pc[p] = "handoff" /\ lock = p
    BY <1>7 DEF WakeNext, TypeInv, LockInv
  <2>2. /\ \A q \in Proc : pc'[q] \in {"dispatch"} \cup InWait => pc[q] \in {"dispatch"} \cup InWait
        /\ \A q \in Proc : pc'[q] # "walk"
    <3>1. pc' = [pc EXCEPT ![p] = "bind"] \/ SignalAndGoto(p, first_process_ind, "bind")
      BY <1>7 DEF WakeNext
    <3> QED
      BY <2>1, <3>1 DEF SignalAndGoto, TypeInv, TypeOK, LockInv
  <2>3. CASE first_process_ind # Nil
    <3>1. first_process_ind \in Slot
      BY <2>3 DEF TypeInv, TypeOK
    <3>2. /\ \A s \in Slot : ready[s] => ready'[s]
          /\ ready'[first_process_ind]
      BY <1>7, <2>3, <3>1 DEF WakeNext, TypeInv, TypeOK
    <3> QED
      BY <1>7, <2>2, <2>3, <3>1, <3>2, QueueShrinks DEF WakeNext
  <2>4. CASE first_process_ind = Nil
    <3>1. UNCHANGED << my_i, ready >> /\ Queue = {}
      BY <1>7, <2>4, QueueCloses DEF WakeNext
    <3> QED
      BY <2>2, <3>1 DEF QueueInv
  <2> QED
    BY <2>3, <2>4
<1> QED
  BY <1>1, <1>2, <1>3, <1>4, <1>5, <1>6, <1>7, QueueRegister
     DEF Next, Finished, Step

\* A process that waits and was told nothing yet is in the list, so that who pops it or
\* aborts the group comes to it, whatever was inserted, popped, left behind or set free in
\* between (831-863, 883-945).
THEOREM NobodyIsLost ==
  ASSUME OneJob
  PROVE  Spec => []NobodyLost
<1>1. Init => QueueInv
  BY DEF Init, QueueInv
<1>2. TypeInv /\ OrderInv /\ QueueInv /\ [Next]_vars => QueueInv'
  BY QueueStep DEF OrderInv
<1>3. QueueInv => NobodyLost
  BY DEF QueueInv, NobodyLost
<1> QED
  BY <1>1, <1>2, <1>3, TypeInvariance, OrderInvariance, PTL DEF Spec

-----------------------------------------------------------------------------
\* The processes of the one job were all told to exclude the same CPUs, the kernel accepts
\* for each of them every CPU that is used, and there is at least one CPU for each.
UniformJob ==
  /\ OneJob
  /\ \A p, q \in Proc : Excluded[p] = Excluded[q]
  /\ \A p \in Proc : Usable \subseteq Cpuset[p]
  /\ Cardinality(Usable) >= Cardinality(Proc)

\* Who has not attached yet.
Starting == {p \in Proc : pc[p] = "start"}

\* Until the last process attaches the set collects masks; then it is what can be used.
SetInv ==
  /\ created => Cardinality(Starting) <= nr_processes_left_in_init
  /\ created /\ nr_processes_left_in_init > 0
       => cpus_available \subseteq UNION {Affinity[p] : p \in Proc}
  /\ created /\ nr_processes_left_in_init = 0 /\ Open
       => /\ cpus_available = Usable
          /\ cpus_to_assign = FullShare

\* The ranks below n have a full share each; so have all ranks; none has any.
SharedTo(n) ==
  \A r \in Slot : r < n => affinities[r] \subseteq Usable /\ Cardinality(affinities[r]) = FullShare
Shared == SharedTo(N)
Blank  == \A r \in Slot : affinities[r] = {}

\* The first process in PID order partitions, once, and before anyone else has the turn;
\* if the group was aborted by then it does nothing, and nobody gets the turn after it.
ShareInv ==
  /\ \A p \in Proc : HasTurn(p) /\ pc[p] \notin {"partition", "handoff"} /\ Below(p) = 0 =>
       /\ Blank
       /\ cpus_available = Usable
       /\ cpus_to_assign = FullShare
  /\ \A p \in Proc : pc[p] = "partition" =>
       IF nr_processes = N
         THEN /\ cpus_to_assign = FullShare
              /\ cpus_available \subseteq Usable
              /\ process_rank <= N
              /\ Cardinality(cpus_available) = Cardinality(Usable) - process_rank * FullShare
              /\ SharedTo(process_rank)
         ELSE Blank
  /\ \A p \in Proc : pc[p] = "handoff" => Shared \/ (Blank /\ first_process_ind = Nil)
  /\ \A p \in Proc : pc[p] = "bind" => Shared \/ (Blank /\ \A q \in Proc : ~HasTurn(q))
  /\ \A p \in Proc : HasTurn(p) /\ Below(p) > 0 => Shared
  /\ \A p \in Proc : pc[p] \in {"collect", "partition"} => Below(p) = 0
  /\ \A p \in Bound : Shared /\ mask[p] = affinities[ret[p]]

\* Whose position process_rank is.
PositionInv ==
  /\ \A p \in Proc : pc[p] = "bind" => process_rank = Below(p)
  /\ \A p \in Proc : HasTurn(p) /\ pc[p] # "partition" /\ ~Dead =>
       IF \E b \in Proc : pc[b] = "bind" THEN process_rank + 1 = Below(p)
                                         ELSE process_rank = Below(p)
  /\ \A p \in Bound : ret[p] = Below(p)
  /\ \A p, q \in Proc : HasTurn(p) /\ ~Dead /\ q < p => q \in Bound \/ pc[q] = "bind"
  /\ \A p, q \in Proc : (pc[p] = "bind" \/ p \in Bound) /\ q < p => q \in Bound
  /\ \A p, q \in Bound : pc[p] = "unlock" => q <= p
-----------------------------------------------------------------------------
USE DEF Slot, Nil, NoProc, CpuSet, Control, HasLock, InWait, Ended, Goto,
        groupVars, initVars, listVars, cpuVars, walkVars, EINVAL, ENOMEM, ETIMEDOUT

\* What the code divides by gives a share that as many processes can have.
LEMMA Division ==
  ASSUME NEW a \in Nat, NEW b \in Nat, 1 <= b, b <= a
  PROVE  a \div b \in Nat /\ 1 <= a \div b /\ b * (a \div b) <= a
  OBVIOUS

\* One more share fits as long as it is not the last.
LEMMA OneMoreShare ==
  ASSUME NEW r \in Nat, NEW n \in Nat, NEW k \in Nat, r < n
  PROVE  /\ r * k \in Nat /\ n * k \in Nat
         /\ (r + 1) * k = r * k + k
         /\ (r + 1) * k <= n * k
<1>1. PICK d \in Nat : n = r + 1 + d
  <2>1. n - (r + 1) \in Nat /\ n = r + 1 + (n - (r + 1))
    OBVIOUS
  <2> QED
    BY <2>1
<1>2. n * k = (r + 1) * k + d * k /\ (r + 1) * k = r * k + k
  BY <1>1
<1>3. d * k \in Nat /\ r * k \in Nat
  OBVIOUS
<1> QED
  BY <1>2, <1>3

\* The larger of 1 and a share.
LEMMA MaxWithOne ==
  ASSUME NEW k \in Nat, 1 <= k
  PROVE  Max({1, k}) = k
<1>1. \A x \in {1, k} : (\A y \in {1, k} : x >= y) <=> x = k
  OBVIOUS
<1> QED
  BY <1>1 DEF Max

\* The smaller of a share and what is left.
LEMMA MinWithShare ==
  ASSUME NEW k \in Nat, NEW a \in Nat, k <= a
  PROVE  Min({a, k}) = k
<1>1. \A x \in {a, k} : (\A y \in {a, k} : x <= y) <=> x = k
  OBVIOUS
<1> QED
  BY <1>1 DEF Min

\* Everybody can have a full share of the usable CPUs.
LEMMA FullShares ==
  ASSUME UniformJob
  PROVE  /\ OneJob /\ N = Cardinality(Proc) /\ N \in 2 .. MaxProcesses
         /\ Usable \subseteq CPU /\ IsFiniteSet(Usable) /\ Cardinality(Usable) \in Nat
         /\ FullShare = Cardinality(Usable) \div N
         /\ FullShare \in Nat /\ FullShare >= 1
         /\ N * FullShare <= Cardinality(Usable)
         /\ Max({1, FullShare}) = FullShare
<1>1. OneJob /\ N = Cardinality(Proc) /\ N \in 2 .. MaxProcesses
  BY SizeOfJob DEF UniformJob
<1>2. Usable \subseteq CPU
  BY CpuAssumption DEF Usable
<1>3. IsFiniteSet(Usable) /\ Cardinality(Usable) \in Nat
  BY <1>2, CpuAssumption, FS_Subset, FS_CardinalityType
<1> DEFINE k == Cardinality(Usable) \div N
<1>4. N \in Nat /\ 1 <= N /\ N <= Cardinality(Usable)
  BY <1>1, <1>3 DEF UniformJob
<1>5. k \in Nat /\ 1 <= k /\ N * k <= Cardinality(Usable)
  BY <1>3, <1>4, Division
<1>6. FullShare = Max({1, k})
  BY <1>1 DEF FullShare
<1> HIDE DEF k
<1>7. Max({1, k}) = k
  BY <1>5, MaxWithOne
<1> QED
  BY <1>1, <1>2, <1>3, <1>5, <1>6, <1>7 DEF k

-----------------------------------------------------------------------------
\* Where everybody is in the list, everybody has attached.
LEMMA AllHaveAttached ==
  ASSUME OneJob, TypeInv, CountInv, \A q \in Proc : my_i[q] # Nil
  PROVE  created /\ nr_processes_left_in_init <= 0
<1>1. Registered = Proc /\ Committed = Proc
  BY DEF Registered, Committed
<1>2. Cardinality(Committed) = N /\ N \in 2 .. MaxProcesses /\ Committed # {}
  BY <1>1, SizeOfJob, ProcAssumption
<1> QED
  BY <1>2 DEF CountInv, CommitInv, TypeInv, TypeOK

\* A step of who has attached.
LEMMA SetKept ==
  ASSUME SetInv, created' = created, nr_processes_left_in_init' = nr_processes_left_in_init,
         TypeInv, Open' => Open, cpus_to_assign' = cpus_to_assign,
         \A q \in Proc : pc'[q] = "start" => pc[q] = "start",
         \/ cpus_available' = cpus_available
         \/ ~Open' /\ nr_processes_left_in_init <= 0
  PROVE  SetInv'
<1>1. Starting' \subseteq Starting /\ Starting \subseteq Proc
  BY DEF Starting
<1>2. /\ Cardinality(Starting') <= Cardinality(Starting)
      /\ Cardinality(Starting') \in Nat /\ Cardinality(Starting) \in Nat
  BY <1>1, ProcAssumption, FS_Subset, FS_CardinalityType
<1>3. nr_processes_left_in_init \in Int
  BY DEF TypeInv, TypeOK
<1>4. Usable' = Usable /\ FullShare' = FullShare
  BY DEF Usable, FullShare
<1>5. created' => Cardinality(Starting') <= nr_processes_left_in_init'
  BY <1>2, <1>3 DEF SetInv
<1> QED
  BY <1>3, <1>4, <1>5 DEF SetInv

\* main(): one process fewer is to come.
LEMMA StartingShrinks ==
  ASSUME TypeInv, NEW p \in Proc, Create(p) \/ Attach(p) \/ Discover(p)
  PROVE  /\ Cardinality(Starting') = Cardinality(Starting) - 1
         /\ Cardinality(Starting') \in Nat /\ Cardinality(Starting) \in Nat
         /\ Cardinality(Starting) <= Cardinality(Proc)
<1>1. p \in Starting /\ Starting' = Starting \ {p} /\ Starting \subseteq Proc
  BY DEF TypeInv, TypeOK, Starting, Create, Attach, Discover
<1>2. IsFiniteSet(Starting) /\ Cardinality(Starting) <= Cardinality(Proc)
  BY <1>1, ProcAssumption, FS_Subset
<1>3. Cardinality(Starting) \in Nat /\ Cardinality(Starting') \in Nat
  BY <1>1, <1>2, FS_CardinalityType, FS_RemoveElement
<1> QED
  BY <1>1, <1>2, <1>3, FS_RemoveElement

\* The last process puts together what can be used.
LEMMA DiscoverFinds ==
  ASSUME UniformJob, TypeInv, SetInv, NEW p \in Proc, Discover(p)
  PROVE  cpus_available' = Usable /\ cpus_to_assign' = FullShare
<1> DEFINE union == cpus_available \cup Affinity[p]
<1>1. cpus_available \subseteq UNION {Affinity[q] : q \in Proc}
  BY DEF Discover, SetInv
<1>2. cpus_available' = (union \cup (Cpuset[p] \ (Excluded[p] \cup union))) \ Excluded[p]
  BY DEF Discover, AllAvailable, Discovered
<1>3. Excluded[p] = UNION {Excluded[q] : q \in Proc}
  BY DEF UniformJob
<1>4. Usable \subseteq Cpuset[p]
  BY DEF UniformJob
<1> DEFINE All == UNION {Affinity[q] \cup Cpuset[q] : q \in Proc}
<1>5. union \subseteq All /\ Usable \subseteq Cpuset[p] /\ Cpuset[p] \subseteq All
  BY <1>1, <1>4
<1>6. Usable = All \ Excluded[p]
  <2>1. Usable = All \ UNION {Excluded[q] : q \in Proc}
    BY Zenon DEF Usable
  <2> QED
    BY <1>3, <2>1
<1>7. cpus_available' = Usable
  <2> HIDE DEF union, All
  <2>1. cpus_available' = (union \cup Cpuset[p]) \ Excluded[p]
    BY <1>2
  <2> QED
    BY <1>5, <1>6, <2>1
<1>8. Ppn[p] = N
  BY FullShares DEF OneJob
<1> QED
  BY <1>7, <1>8, FullShares DEF Discover

\* The set is that of the usable CPUs when the last process has attached, and until the
\* group is complete.
LEMMA SetStep ==
  ASSUME UniformJob, TypeInv, CountInv, TurnInv, SetInv, [Next]_vars
  PROVE  SetInv'
<1> Open' => Open
  BY OpenShrinks
<1>1. Usable' = Usable /\ FullShare' = FullShare
  BY DEF Usable, FullShare
<1>2. CASE UNCHANGED vars
  BY <1>2, SetKept DEF vars
<1>3. ASSUME NEW p \in Proc, Create(p)
      PROVE  SetInv'
  <2>1. Cardinality(Starting') <= N - 1 /\ N - 1 > 0
    BY <1>3, StartingShrinks, FullShares
  <2>2. nr_processes_left_in_init' = N - 1 /\ cpus_available' = Affinity[p]
    BY <1>3, FullShares DEF Create, OneJob
  <2> QED
    BY <2>1, <2>2 DEF SetInv
<1>4. ASSUME NEW p \in Proc, Attach(p)
      PROVE  SetInv'
  <2>1. /\ Cardinality(Starting') <= nr_processes_left_in_init - 1
        /\ nr_processes_left_in_init >= 1 /\ nr_processes_left_in_init \in Int
    <3>1. Cardinality(Starting) <= nr_processes_left_in_init
      BY <1>4 DEF SetInv, Attach
    <3>2. nr_processes_left_in_init \in Int
      BY DEF TypeInv, TypeOK
    <3> QED
      BY <1>4, <3>1, <3>2, StartingShrinks
  <2>2. /\ nr_processes_left_in_init' = nr_processes_left_in_init - 1
        /\ nr_processes_left_in_init # 1
        /\ cpus_available' = cpus_available \cup Affinity[p]
        /\ created
    BY <1>4 DEF Attach
  <2>3. cpus_available' \subseteq UNION {Affinity[q] : q \in Proc}
    BY <2>1, <2>2 DEF SetInv
  <2> QED
    BY <2>1, <2>2, <2>3 DEF SetInv
<1>5. ASSUME NEW p \in Proc, Discover(p)
      PROVE  SetInv'
  <2>1. Cardinality(Starting') <= 0
    <3>1. Cardinality(Starting) <= 1
      BY <1>5 DEF SetInv, Discover
    <3> QED
      BY <1>5, <3>1, StartingShrinks
  <2>2. nr_processes_left_in_init' = 0
    BY <1>5 DEF Discover
  <2> QED
    BY <1>1, <1>5, <2>1, <2>2, DiscoverFinds DEF SetInv
<1>6. ASSUME NEW p \in Proc,
             \/ Lock(p) \/ Mismatch(p) \/ Register(p) \/ Walk(p) \/ Insert(p) \/ QuietStep(p)
             \/ WakeFirst(p) \/ TakeTurn(p) \/ PartitionDone(p) \/ Bind(p)
      PROVE  SetInv'
  <2>1. UNCHANGED << initVars, cpus_available >>
    BY <1>6 DEF Lock, Mismatch, Register, Walk, Insert, QuietStep, WakeFirst, TakeTurn,
       PartitionDone, Bind, Wait, Reacquire, Resume, AbortNext, AbortDone, Collect,
       PartitionFails, Unlock, TimeOut, SpuriousWakeup, Kill
  <2>2. \A q \in Proc : pc'[q] = "start" => pc[q] = "start"
    <3>1. CASE Lock(p) \/ Mismatch(p) \/ Register(p) \/ Walk(p) \/ Insert(p)
      BY <3>1 DEF TypeInv, TypeOK, Lock, Mismatch, Register, Walk, Insert
    <3>2. CASE WakeFirst(p) \/ TakeTurn(p) \/ PartitionDone(p) \/ Bind(p)
      BY <3>2 DEF TypeInv, TypeOK, WakeFirst, TakeTurn, PartitionDone, Bind, SignalAndGoto
    <3>3. CASE QuietStep(p)
      BY <3>3 DEF TypeInv, TypeOK, QuietStep, Wait, Reacquire, Resume, AbortNext, AbortDone,
         Collect, PartitionFails, Unlock, TimeOut, SpuriousWakeup, Kill, SignalAndGoto
    <3> QED
      BY <1>6, <3>1, <3>2, <3>3
  <2> QED
    BY <2>1, <2>2, SetKept
<1>7. ASSUME NEW p \in Proc, PartitionRank(p) \/ EndGroup(p) \/ WakeNext(p)
      PROVE  SetInv'
  <2>1. ~Open
    BY <1>7 DEF TurnInv, HasTurn, PartitionRank, EndGroup, WakeNext
  <2>2. nr_processes_left_in_init <= 0
    BY <2>1, FullShares, AllHaveAttached DEF Open
  <2>3. UNCHANGED initVars
    BY <1>7 DEF PartitionRank, EndGroup, WakeNext
  <2>4. \A q \in Proc : pc'[q] = "start" => pc[q] = "start"
    BY <1>7 DEF TypeInv, TypeOK, PartitionRank, EndGroup, WakeNext, SignalAndGoto
  <2> QED
    BY <2>1, <2>2, <2>3, <2>4, SetKept
<1> QED
  BY <1>2, <1>3, <1>4, <1>5, <1>6, <1>7, StepKinds DEF EarlyStep
-----------------------------------------------------------------------------
\* What else a quiet step leaves alone: nobody is bound, and who is bound stays so unless
\* it is killed before it has dropped the mutex; the CPUs are not touched.
LEMMA QuietBound ==
  ASSUME TypeInv, TurnInv, NEW p \in Proc, QuietStep(p)
  PROVE  /\ UNCHANGED << process_rank, cpuVars, cpus_to_assign, mask >>
         /\ Bound' \subseteq Bound /\ \A q \in Bound : ret'[q] = ret[q]
         /\ \A q \in Bound : q \in Bound' \/ (pc[q] = "unlock" /\ Dead')
         /\ \A q \in Bound' : pc'[q] = "unlock" => pc[q] = "unlock"
         /\ \A q \in Proc : pc[q] = "bind" => pc'[q] = "bind" \/ Dead'
         /\ \A q \in Proc : pc'[q] \in {"partition", "handoff", "bind"} =>
              nr_processes' = nr_processes /\ first_process_ind' = first_process_ind
         /\ Dead => Dead'
<1>1. p # 0 /\ p \in Proc
  BY ProcAssumption
<1>2. CASE AbortNext(p)
  <2>1. lock = p /\ pc[p] = "abort" /\ lock' = lock /\ ret' = ret
    BY <1>2 DEF TypeInv, LockInv, AbortNext
  <2>2. \A q \in Proc : /\ pc'[q] \in {pc[q], "signalled", "abort"}
                        /\ pc'[q] # pc[q] => pc[q] = "waiting"
    BY <1>2, <2>1 DEF TypeInv, TypeOK, AbortNext, SignalAndGoto
  <2>3. Bound' = Bound
    BY <2>1, <2>2 DEF Bound
  <2>4. \A q \in Proc : pc'[q] \notin {"partition", "handoff", "bind"}
    BY <2>1, <2>2 DEF TypeInv, LockInv
  <2>5. ~Dead
    BY <2>1 DEF Dead
  <2> QED
    BY <1>2, <2>1, <2>2, <2>3, <2>4, <2>5 DEF AbortNext, Bound
<1>3. CASE AbortDone(p)
  <2>1. \A q \in Proc : pc'[q] \notin {"partition", "handoff", "bind"}
    BY <1>3 DEF TypeInv, TypeOK, LockInv, AbortDone
  <2> QED
    BY <1>1, <1>3, <2>1 DEF TypeInv, TypeOK, LockInv, AbortDone, Bound, Dead
<1>4. CASE Wait(p)
  BY <1>1, <1>4 DEF TypeInv, TypeOK, LockInv, Wait, Bound, Dead
<1>5. CASE Reacquire(p)
  BY <1>1, <1>5 DEF TypeInv, TypeOK, LockInv, Reacquire, Bound, Dead
<1>6. CASE Resume(p)
  <2>1. pc[p] = "resume" /\ lock = p /\ lock' = lock /\ ~Dead
    BY <1>6 DEF TypeInv, LockInv, Resume, Dead
  <2>2. /\ pc'[p] \in {"granted", "unlock"}
        /\ pc'[p] = "unlock" => ~(ret'[p] >= 0)
        /\ \A q \in Proc : q # p => pc'[q] = pc[q] /\ ret'[q] = ret[q]
    BY <1>6 DEF TypeInv, TypeOK, Resume
  <2>3. Bound' = Bound /\ \A q \in Bound : ret'[q] = ret[q]
    BY <2>1, <2>2 DEF Bound
  <2>4. \A q \in Proc : pc'[q] \notin {"partition", "handoff", "bind"}
    BY <2>1, <2>2 DEF TypeInv, LockInv
  <2>5. \A q \in Bound' : pc'[q] = "unlock" => pc[q] = "unlock"
    BY <2>1, <2>2, <2>3 DEF Bound
  <2>6. \A q \in Proc : pc[q] # "bind"
    BY <2>1 DEF TypeInv, LockInv
  <2> QED
    BY <1>6, <2>1, <2>3, <2>4, <2>5, <2>6 DEF Resume
<1>7. CASE Collect(p)
  BY <1>1, <1>7 DEF TypeInv, TypeOK, LockInv, Collect, Bound, Dead
<1>8. CASE PartitionFails(p)
  BY <1>1, <1>8 DEF TypeInv, TypeOK, LockInv, PartitionFails, Bound, Dead
<1>9. CASE Unlock(p)
  BY <1>1, <1>9 DEF TypeInv, TypeOK, LockInv, Unlock, Bound, Dead
<1>10. CASE TimeOut(p) \/ SpuriousWakeup(p)
  BY <1>1, <1>10 DEF TypeInv, TypeOK, LockInv, TimeOut, SpuriousWakeup, Bound, Dead
<1>11. CASE Kill(p)
  BY <1>1, <1>11 DEF TypeInv, TypeOK, LockInv, Kill, Bound, Dead
<1> QED
  BY <1>2, <1>3, <1>4, <1>5, <1>6, <1>7, <1>8, <1>9, <1>10, <1>11 DEF QuietStep

\* Nobody is before who has the first position, and nobody between a position and the next.
LEMMA Between ==
  ASSUME NEW p \in Proc, NEW q \in Proc
  PROVE  /\ Below(p) = 0 => ~(q < p)
         /\ \A r \in Proc : Below(q) = Below(p) + 1 /\ p < r => ~(r < q)
<1>1. Below(p) \in Nat /\ Below(q) \in Nat /\ \A r \in Proc : Below(r) \in Nat
  BY BelowGrows
<1>2. q < p => Below(q) + 1 <= Below(p)
  BY BelowGrows
<1>3. \A r \in Proc : /\ p < r => Below(p) + 1 <= Below(r)
                      /\ r < q => Below(r) + 1 <= Below(q)
  BY BelowGrows
<1> QED
  BY <1>1, <1>2, <1>3

\* Who has the turn and is not partitioning finds its own position in process_rank, if it
\* holds the mutex.
LEMMA OwnPosition ==
  ASSUME TypeInv, PositionInv, NEW p \in Proc, HasTurn(p), pc[p] # "partition", lock = p
  PROVE  process_rank = Below(p)
<1>1. ~Dead /\ \A b \in Proc : pc[b] # "bind"
  BY DEF Dead, HasTurn, TypeInv, LockInv
<1> QED
  BY <1>1 DEF PositionInv

\* Who is about to be bound is, if it has a share: the kernel accepts all usable CPUs.
LEMMA BindSucceeds ==
  ASSUME UniformJob, TypeInv, PositionInv, NEW p \in Proc, Bind(p), Shared
  PROVE  /\ process_rank = Below(p) /\ process_rank \in Slot /\ process_rank < N
         /\ mask' = [mask EXCEPT ![p] = affinities[process_rank]]
         /\ ret' = [ret EXCEPT ![p] = process_rank]
         /\ process_rank' = process_rank + 1
<1>1. process_rank = Below(p) /\ pc[p] = "bind"
  BY DEF PositionInv, Bind
<1>2. process_rank \in Slot /\ process_rank < N
  <2>1. Below(p) \in Nat /\ Below(p) < N
    BY BelowGrows, FullShares
  <2>2. N \in Nat /\ N <= MaxProcesses /\ MaxProcesses \in Nat
    BY FullShares, TwoSlots
  <2> QED
    BY <1>1, <2>1, <2>2
<1>3. affinities[process_rank] \subseteq Usable /\ Cardinality(affinities[process_rank]) = FullShare
  BY <1>2 DEF Shared, SharedTo
<1>4. affinities[process_rank] # {}
  <2>1. Cardinality({}) = 0
    BY FS_EmptySet
  <2>2. FullShare \in Nat /\ FullShare >= 1
    BY FullShares
  <2> QED
    BY <1>3, <2>1, <2>2
<1>5. affinities[process_rank] \cap Cpuset[p] = affinities[process_rank]
  BY <1>3 DEF UniformJob
<1> QED
  BY <1>1, <1>2, <1>4, <1>5 DEF Bind

\* A step that leaves the position and the turn alone.
LEMMA PositionKept ==
  ASSUME PositionInv, TypeInv, process_rank' = process_rank,
         Bound' \subseteq Bound, \A q \in Bound : ret'[q] = ret[q],
         \A q \in Bound : q \in Bound' \/ (pc[q] = "unlock" /\ Dead'),
         \A q \in Bound' : pc'[q] = "unlock" => pc[q] = "unlock",
         \A q \in Proc : /\ pc[q] = "bind" => pc'[q] = "bind" \/ Dead'
                         /\ pc'[q] = "bind" => pc[q] = "bind"
                         /\ HasTurn(q)' => HasTurn(q)
                         /\ HasTurn(q)' /\ pc[q] = "partition" => pc'[q] = "partition",
         Dead => Dead'
  PROVE  PositionInv'
<1>1. \A q \in Proc : Below(q)' = Below(q) /\ q \in Nat
  BY ProcAssumption DEF Below
<1>2. ASSUME NEW q \in Proc, NEW r \in Bound, r < q, pc'[q] = "bind" \/ q \in Bound'
      PROVE  r \in Bound'
  <2>1. pc[q] = "bind" => lock = q
    BY DEF TypeInv, LockInv
  <2>2. pc[r] = "unlock" => lock = r /\ r \in Proc
    BY DEF TypeInv, LockInv, Bound
  <2>3. q \in Bound /\ pc[r] = "unlock" => q <= r
    BY DEF PositionInv
  <2> QED
    BY <1>1, <1>2, <2>1, <2>2, <2>3 DEF Bound
<1>3. \A q \in Proc : pc'[q] = "bind" => process_rank' = Below(q)'
  BY <1>1 DEF PositionInv
<1>4. ASSUME NEW q \in Proc, HasTurn(q)', pc'[q] # "partition", ~Dead'
      PROVE  IF \E b \in Proc : pc'[b] = "bind" THEN process_rank' + 1 = Below(q)'
                                                ELSE process_rank' = Below(q)'
  BY <1>1, <1>4 DEF PositionInv
<1>5. \A q \in Bound' : ret'[q] = Below(q)'
  BY <1>1 DEF PositionInv, Bound
<1>6. \A q, r \in Proc : HasTurn(q)' /\ ~Dead' /\ r < q => r \in Bound' \/ pc'[r] = "bind"
  BY DEF PositionInv
<1>7. \A q, r \in Proc : (pc'[q] = "bind" \/ q \in Bound') /\ r < q => r \in Bound'
  <2> SUFFICES ASSUME NEW q \in Proc, NEW r \in Proc, pc'[q] = "bind" \/ q \in Bound', r < q
               PROVE  r \in Bound'
    OBVIOUS
  <2>1. r \in Bound
    BY DEF PositionInv
  <2> QED
    BY <1>2, <2>1
<1>8. \A q, r \in Bound' : pc'[q] = "unlock" => r <= q
  BY DEF PositionInv
<1> QED
  BY <1>3, <1>4, <1>5, <1>6, <1>7, <1>8 DEF PositionInv

\* As long as somebody is to come there are no positions.
LEMMA PositionEarly ==
  ASSUME TurnInv', Open'
  PROVE  PositionInv'
<1>1. Bound' = {} /\ \A q \in Proc : ~HasTurn(q)' /\ pc'[q] # "bind"
  BY DEF TurnInv
<1> QED
  BY <1>1 DEF PositionInv

\* WakeFirst gives the first process in PID order rank 0.
LEMMA PositionFirst ==
  ASSUME OneJob, TypeInv, CountInv, ListInv, TurnInv, GatherInv, NEW p \in Proc, WakeFirst(p)
  PROVE  PositionInv'
<1>1. Open /\ Bound = {} /\ \A q \in Proc : pc[q] # "bind"
  BY DEF Open, TurnInv, WakeFirst
<1>2. Bound' = {} /\ \A q \in Proc : pc'[q] # "bind"
  BY <1>1 DEF TypeInv, TypeOK, Bound, WakeFirst, SignalAndGoto
<1>3. PICK f \in Proc : f = pid[first_process_ind] /\ \A q \in Proc : HasTurn(q)' => q = f
  BY TurnToFirst
<1>4. Below(f) = 0
  BY <1>3, WakeFirstFinds
<1>5. \A q \in Proc : ~(q < f)
  BY <1>4, Between
<1>6. Below(f)' = Below(f) /\ process_rank' = 0
  BY DEF Below, WakeFirst
<1> QED
  BY <1>2, <1>3, <1>4, <1>5, <1>6 DEF PositionInv

\* The counter of the partitioning loop ends where the first process begins.
LEMMA PositionPartition ==
  ASSUME TypeInv, TurnInv, ShareInv, PositionInv, NEW p \in Proc,
         PartitionRank(p) \/ PartitionDone(p)
  PROVE  PositionInv'
<1>1. pc[p] = "partition" /\ lock = p /\ HasTurn(p) /\ p # 0
  BY ProcAssumption DEF TypeInv, LockInv, HasTurn, PartitionRank, PartitionDone
<1>2. \A q \in Proc : /\ pc[q] # "bind" /\ HasTurn(q) => q = p
                      /\ pc[q] # "bind"
  BY <1>1 DEF TypeInv, LockInv, TurnInv
<1>3. /\ UNCHANGED << lock, ret, ready, timeout, my_i >>
      /\ pc'[p] \in {"partition", "handoff"}
      /\ \A q \in Proc : q # p => pc'[q] = pc[q]
      /\ pc'[p] = "partition" \/ process_rank' = 0
  BY DEF TypeInv, TypeOK, PartitionRank, PartitionDone
<1>4. Bound' = Bound
  BY <1>1, <1>3 DEF Bound
<1>5. \A q \in Proc : Below(q)' = Below(q)
  BY DEF Below
<1>6. \A q \in Proc : /\ pc'[q] # "bind"
                      /\ HasTurn(q)' => q = p
  BY <1>1, <1>2, <1>3, TurnInv DEF HasTurn, TurnInv
<1>7. Below(p) = 0
  BY <1>1 DEF ShareInv
<1>8. ~Dead
  BY <1>1 DEF Dead
<1>9. \A q \in Bound : pc'[q] = "unlock" => pc[q] = "unlock"
  BY <1>1, <1>3 DEF Bound
<1>10. \A q \in Bound : ret'[q] = Below(q)'
  BY <1>3, <1>5 DEF PositionInv, Bound
<1>11. \A q \in Proc : q < p => q \in Bound
  BY <1>1, <1>2, <1>8 DEF PositionInv
<1> QED
  BY <1>3, <1>4, <1>5, <1>6, <1>7, <1>9, <1>10, <1>11 DEF PositionInv

\* The turn is passed to the next position.
LEMMA TurnPassed ==
  ASSUME TypeInv, ListInv, TurnInv, ChainInv, NEW p \in Proc, EndGroup(p) \/ WakeNext(p),
         NEW q \in Proc, HasTurn(q)'
  PROVE  Below(q) = Below(p) + 1 /\ first_process_ind # Nil
<1>1. pc[p] = "handoff" /\ lock = p /\ HasTurn(p) /\ p # 0
  BY ProcAssumption DEF TypeInv, LockInv, HasTurn, EndGroup, WakeNext
<1>2. Live /\ ~Open
  BY <1>1 DEF Live, TurnInv
<1>3. CASE EndGroup(p)
  <2>1. HasTurn(q) /\ q # p
    BY <1>3 DEF TypeInv, TypeOK, HasTurn, EndGroup
  <2> QED
    BY <1>1, <2>1 DEF TurnInv
<1>4. CASE WakeNext(p)
  <2>1. first_process_ind \in Slot /\ q = pid[first_process_ind] /\ p < q
    BY <1>4, TurnToNext
  <2>2. NoSkip /\ first_process_ind = next_process_ind[my_i[p]]
    BY <1>1, <1>2, <2>1 DEF ChainInv
  <2> QED
    BY <1>2, <2>1, <2>2, NextBelow
<1> QED
  BY <1>3, <1>4

\* Who passes the turn on goes to be bound, and the next larger PID has the turn, if any.
LEMMA PositionNext ==
  ASSUME OneJob, TypeInv, CountInv, ListInv, TurnInv, ChainInv, PositionInv, NEW p \in Proc,
         EndGroup(p) \/ WakeNext(p)
  PROVE  PositionInv'
<1>1. pc[p] = "handoff" /\ lock = p /\ HasTurn(p) /\ p # 0
  BY ProcAssumption DEF TypeInv, LockInv, HasTurn, EndGroup, WakeNext
<1>2. process_rank = Below(p) /\ process_rank' = process_rank
  BY <1>1, OwnPosition DEF EndGroup, WakeNext
<1>3. ~Dead /\ Live /\ ~Open
  BY <1>1 DEF Dead, Live, TurnInv
<1>4. \A q \in Proc : pc[q] # "bind"
  BY <1>1 DEF TypeInv, LockInv
<1>5. /\ pc'[p] = "bind" /\ ret' = ret
      /\ \A q \in Proc : /\ q # p => pc'[q] \in {pc[q], "signalled"}
                         /\ q # p /\ pc'[q] # pc[q] => pc[q] = "waiting"
  BY DEF TypeInv, TypeOK, EndGroup, WakeNext, SignalAndGoto
<1>6. Bound' = Bound
  BY <1>1, <1>5 DEF Bound
<1>7. \A q \in Proc : Below(q)' = Below(q)
  BY DEF Below
<1>8. \A q \in Proc : q < p => q \in Bound
  BY <1>1, <1>3, <1>4 DEF PositionInv
<1>9. ASSUME NEW q \in Proc, HasTurn(q)'
      PROVE  Below(q) = Below(p) + 1 /\ \A r \in Proc : r < q => r \in Bound \/ r = p
  <2>1. Below(q) = Below(p) + 1
    BY <1>9, TurnPassed
  <2>2. \A r \in Proc : r < q => ~(p < r)
    BY <2>1, Between
  <2>3. \A r \in Proc : r < q => r < p \/ r = p
    BY <2>2, ProcAssumption
  <2> QED
    BY <1>8, <2>1, <2>3
<1>10. \A q \in Proc : pc'[q] = "bind" <=> q = p
  BY <1>4, <1>5
<1>11. \A q \in Bound : ret'[q] = Below(q)' /\ (pc'[q] = "unlock" => pc[q] = "unlock")
  BY <1>5, <1>7 DEF PositionInv, Bound
<1>12. \A q \in Proc : HasTurn(q)' => process_rank' + 1 = Below(q)'
  BY <1>2, <1>7, <1>9
<1>13. \A q, r \in Proc : HasTurn(q)' /\ r < q => r \in Bound' \/ pc'[r] = "bind"
  BY <1>6, <1>9, <1>10
<1>14. \A q, r \in Proc : (pc'[q] = "bind" \/ q \in Bound') /\ r < q => r \in Bound'
  BY <1>6, <1>8, <1>10 DEF PositionInv
<1>15. \A q, r \in Bound' : pc'[q] = "unlock" => r <= q
  BY <1>6, <1>11 DEF PositionInv
<1>16. \A q \in Proc : pc'[q] = "bind" => process_rank' = Below(q)'
  BY <1>2, <1>7, <1>10
<1>17. \E b \in Proc : pc'[b] = "bind"
  BY <1>5
<1> QED
  BY <1>6, <1>11, <1>12, <1>13, <1>14, <1>15, <1>16, <1>17 DEF PositionInv

\* Without shares the kernel refuses to bind, and nobody has the turn any more.
LEMMA BindRefused ==
  ASSUME UniformJob, TypeInv, ShareInv, PositionInv, NEW p \in Proc, Bind(p), ~Shared
  PROVE  /\ Blank /\ \A q \in Proc : ~HasTurn(q)
         /\ mask' = mask /\ Bound' = Bound
<1>1. pc[p] = "bind" /\ lock = p /\ p \notin Bound
  BY DEF TypeInv, LockInv, Bound, Bind
<1>2. \A q \in Proc : q # p => pc[q] # "unlock"
  BY <1>1 DEF TypeInv, LockInv
<1>3. Blank /\ \A q \in Proc : ~HasTurn(q)
  BY <1>1 DEF ShareInv
<1>4. process_rank \in Slot
  <2>1. Below(p) \in Nat /\ Below(p) < N /\ N <= MaxProcesses /\ N \in Nat /\ MaxProcesses \in Nat
    BY BelowGrows, FullShares, TwoSlots
  <2> QED
    BY <1>1, <2>1 DEF PositionInv
<1>5. affinities[process_rank] \cap Cpuset[p] = {}
  BY <1>3, <1>4 DEF Blank
<1>6. /\ mask' = mask /\ ret'[p] = EINVAL /\ pc'[p] = "unlock"
      /\ \A q \in Proc : q # p => pc'[q] = pc[q] /\ ret'[q] = ret[q]
  BY <1>5 DEF Bind, TypeInv, TypeOK
<1>7. Bound' = Bound
  BY <1>1, <1>2, <1>6 DEF Bound
<1> QED
  BY <1>3, <1>6, <1>7

\* Who is bound counts itself in process_rank; or it is refused, and nobody comes after it.
LEMMA PositionBind ==
  ASSUME UniformJob, TypeInv, TurnInv, ShareInv, PositionInv, NEW p \in Proc, Bind(p)
  PROVE  PositionInv'
<1>1. pc[p] = "bind" /\ lock = p /\ ~Dead /\ p # 0
  BY ProcAssumption DEF TypeInv, LockInv, Bind, Dead
<1>2. \A q \in Proc : q # p => pc[q] \notin {"bind", "unlock"}
  BY <1>1 DEF TypeInv, LockInv
<1>3. /\ pc'[p] = "unlock" /\ \A q \in Proc : q # p => pc'[q] = pc[q] /\ ret'[q] = ret[q]
      /\ \A q \in Proc : HasTurn(q)' => HasTurn(q)
  BY DEF TypeInv, TypeOK, HasTurn, Bind
<1>4. \A q \in Proc : Below(q)' = Below(q)
  BY DEF Below
<1>5. process_rank = Below(p) /\ p \notin Bound
  BY <1>1 DEF PositionInv, Bound
<1>6. \A q \in Proc : q < p => q \in Bound
  BY <1>1 DEF PositionInv
<1>7. \A q \in Proc : pc'[q] # "bind"
  BY <1>2, <1>3
<1>8. \A q \in Bound : ret'[q] = Below(q)' /\ q # p /\ q < p /\ pc'[q] # "unlock"
  BY <1>1, <1>2, <1>3, <1>4, <1>5 DEF PositionInv, TurnInv, Bound
<1>9. CASE Shared
  <2>1. ret'[p] = Below(p) /\ process_rank' = Below(p) + 1
    BY <1>5, <1>9, BindSucceeds DEF TypeInv, TypeOK
  <2>2. Below(p) \in Nat
    BY BelowGrows
  <2>3. Bound' = Bound \cup {p}
    BY <1>2, <1>3, <2>1, <2>2 DEF Bound
  <2>4. \A q \in Proc : HasTurn(q)' => process_rank' = Below(q)'
    <3>1. \A q \in Proc : pc[q] # "partition"
      BY <1>1 DEF TypeInv, LockInv
    <3>2. \A q \in Proc : HasTurn(q) => process_rank + 1 = Below(q)
      BY <1>1, <3>1 DEF PositionInv
    <3> QED
      BY <1>3, <1>4, <1>5, <2>1, <3>2
  <2>5. \A q, r \in Proc : HasTurn(q)' /\ r < q => r \in Bound'
    BY <1>1, <1>2, <1>3, <2>3 DEF PositionInv
  <2>6. \A q, r \in Proc : q \in Bound' /\ r < q => r \in Bound'
    BY <1>6, <2>3 DEF PositionInv
  <2>7. \A q, r \in Bound' : pc'[q] = "unlock" => r <= q
    <3>1. p <= p
      BY ProcAssumption
    <3> QED
      BY <1>8, <2>3, <3>1, ProcAssumption DEF Bound
  <2>8. \A q \in Bound' : ret'[q] = Below(q)'
    BY <1>4, <1>8, <2>1, <2>3
  <2> QED
    BY <1>7, <2>4, <2>5, <2>6, <2>7, <2>8 DEF PositionInv
<1>10. CASE ~Shared
  <2>1. Bound' = Bound /\ \A q \in Proc : ~HasTurn(q)
    BY <1>10, BindRefused
  <2>6. \A q \in Proc : ~HasTurn(q)'
    BY <1>3, <2>1
  <2> QED
    BY <1>7, <1>8, <2>1, <2>6 DEF PositionInv
<1> QED
  BY <1>9, <1>10

\* process_rank is where it must be after every step.
LEMMA PositionStep ==
  ASSUME UniformJob, TypeInv, CountInv, ListInv, TurnInv, TurnInv', GatherInv,
         ChainInv, ShareInv, PositionInv, [Next]_vars
  PROVE  PositionInv'
<1>1. OneJob
  BY DEF UniformJob
<1>2. CASE UNCHANGED vars
  <2>1. UNCHANGED << process_rank, ret, pc, lock, ready, timeout, my_i >>
    BY <1>2 DEF vars
  <2>2. Bound' = Bound /\ (Dead <=> Dead') /\ \A q \in Proc : HasTurn(q) <=> HasTurn(q)'
    BY <2>1 DEF Bound, Dead, HasTurn
  <2> QED
    BY <2>1, <2>2, PositionKept
<1>3. ASSUME NEW p \in Proc, EarlyStep(p)
      PROVE  PositionInv'
  BY <1>3, EarlySteps, PositionEarly DEF EarlyStep
<1>4. ASSUME NEW p \in Proc, QuietStep(p)
      PROVE  PositionInv'
  <2>1. \A q \in Proc : /\ pc'[q] = "bind" => pc[q] = "bind"
                        /\ HasTurn(q)' => HasTurn(q)
                        /\ HasTurn(q)' /\ pc[q] = "partition" => pc'[q] = "partition"
    BY <1>4, Quiet
  <2> QED
    BY <1>4, <2>1, QuietBound, PositionKept
<1>5. ASSUME NEW p \in Proc, TakeTurn(p)
      PROVE  PositionInv'
  <2>1. /\ UNCHANGED << process_rank, ret, lock, ready, timeout, my_i >>
        /\ pc[p] = "granted" /\ pc'[p] \in {"collect", "handoff"} /\ lock = p
        /\ \A q \in Proc : q # p => pc'[q] = pc[q]
    BY <1>5 DEF TypeInv, TypeOK, LockInv, TakeTurn
  <2>2. Bound' = Bound /\ ~Dead
    BY <2>1 DEF Bound, Dead
  <2>3. \A q \in Proc : HasTurn(q) <=> HasTurn(q)'
    BY <2>1 DEF HasTurn
  <2>4. \A q \in Bound : pc'[q] = "unlock" => pc[q] = "unlock"
    BY <2>1 DEF Bound
  <2> QED
    BY <2>1, <2>2, <2>3, <2>4, PositionKept
<1> QED
  BY <1>1, <1>2, <1>3, <1>4, <1>5, PositionFirst, PositionPartition, PositionNext, PositionBind,
     StepKinds

-----------------------------------------------------------------------------
\* As long as somebody is to come there is nothing to say of shares.
LEMMA ShareEarly ==
  ASSUME TurnInv', Open'
  PROVE  ShareInv'
<1>1. Bound' = {} /\ \A q \in Proc : ~HasTurn(q)' /\ pc'[q] # "bind"
  BY DEF TurnInv
<1>2. \A q \in Proc : pc'[q] \notin {"collect", "partition", "handoff", "bind"}
  BY <1>1 DEF HasTurn
<1> QED
  BY <1>1, <1>2 DEF ShareInv

\* The constants of the job, and positions, do not change.
LEMMA JobIsFixed ==
  /\ N' = N /\ Usable' = Usable /\ FullShare' = FullShare
  /\ \A p \in Proc : Below(p)' = Below(p)
  BY DEF N, Usable, FullShare, Below

\* A quiet step leaves the shares alone; after collect_topology() the partitioning starts.
LEMMA ShareQuiet ==
  ASSUME UniformJob, TypeInv, TurnInv, ShareInv, PositionInv, NEW p \in Proc, QuietStep(p)
  PROVE  ShareInv'
<1>1. UNCHANGED << process_rank, cpus_available, affinities, cpus_to_assign, mask >>
  BY QuietBound
<1>2. /\ Shared' = Shared /\ Blank' = Blank
      /\ SharedTo(process_rank)' = SharedTo(process_rank)
  BY <1>1, JobIsFixed DEF Shared, SharedTo, Blank
<1>3. ASSUME NEW q \in Proc, HasTurn(q)', pc'[q] \notin {"partition", "handoff"}, Below(q) = 0
      PROVE  Blank' /\ cpus_available' = Usable' /\ cpus_to_assign' = FullShare'
  <2>1. HasTurn(q) /\ pc[q] \notin {"partition", "handoff"}
    BY <1>3, Quiet
  <2> QED
    BY <1>1, <1>2, <1>3, <2>1, JobIsFixed DEF ShareInv
<1>4. ASSUME NEW q \in Proc, pc'[q] = "partition"
      PROVE  IF nr_processes' = N'
               THEN /\ cpus_to_assign' = FullShare'
                    /\ cpus_available' \subseteq Usable'
                    /\ process_rank' <= N'
                    /\ Cardinality(cpus_available')
                         = Cardinality(Usable') - process_rank' * FullShare'
                    /\ SharedTo(process_rank)'
               ELSE Blank'
  <2>1. nr_processes' = nr_processes
    BY <1>4, QuietBound
  <2>2. CASE pc[q] = "partition"
    BY <1>1, <1>2, <2>1, <2>2, JobIsFixed DEF ShareInv
  <2>3. CASE pc[q] = "collect"
    <3>1. HasTurn(q) /\ lock = q
      BY <2>3 DEF HasTurn, TypeInv, LockInv
    <3>2. process_rank = 0 /\ Below(q) = 0
      BY <2>3, <3>1, OwnPosition DEF ShareInv
    <3>3. Blank /\ cpus_available = Usable /\ cpus_to_assign = FullShare
      BY <2>3, <3>1, <3>2 DEF ShareInv
    <3>4. SharedTo(process_rank)
      BY <3>2 DEF SharedTo
    <3>5. Cardinality(Usable) \in Nat /\ FullShare \in Nat /\ N \in Nat
      BY FullShares
    <3>6. Cardinality(Usable) = Cardinality(Usable) - 0 * FullShare /\ 0 <= N
      BY <3>5
    <3> QED
      BY <1>1, <1>2, <3>2, <3>3, <3>4, <3>6, JobIsFixed
  <2> QED
    BY <1>4, <2>2, <2>3, Quiet
<1>5. \A q \in Proc : pc'[q] = "handoff" => Shared' \/ (Blank' /\ first_process_ind' = Nil)
  <2>1. \A q \in Proc : pc'[q] = "handoff" =>
          pc[q] = "handoff" /\ first_process_ind' = first_process_ind
    BY Quiet, QuietBound
  <2> QED
    BY <1>2, <2>1 DEF ShareInv
<1>6. \A q \in Proc : pc'[q] = "bind" => Shared' \/ (Blank' /\ \A r \in Proc : ~HasTurn(r)')
  BY <1>2, Quiet DEF ShareInv
<1>7. \A q \in Proc : HasTurn(q)' /\ Below(q) > 0 => Shared'
  BY <1>2, Quiet DEF ShareInv
<1>8. \A q \in Proc : pc'[q] \in {"collect", "partition"} => Below(q) = 0
  BY Quiet DEF ShareInv
<1>9. \A q \in Bound' : Shared' /\ mask'[q] = affinities'[ret'[q]]
  BY <1>1, <1>2, QuietBound DEF ShareInv
<1> QED
  BY <1>3, <1>4, <1>5, <1>6, <1>7, <1>8, <1>9, JobIsFixed DEF ShareInv

\* When the first process gets the turn, all usable CPUs are there to be handed out.
LEMMA ShareFirst ==
  ASSUME UniformJob, TypeInv, CountInv, OrderInv, GatherInv, SetInv, NEW p \in Proc, WakeFirst(p)
  PROVE  ShareInv'
<1>1. OneJob /\ ListInv /\ TurnInv /\ Open /\ lock = p
  BY WakeFirstFinds DEF UniformJob, OrderInv, Open, WakeFirst
<1>2. Blank /\ Bound = {} /\ \A q \in Proc : pc[q] # "bind"
  BY <1>1 DEF OrderInv, DisjointInv, TurnInv, Blank
<1>3. created /\ nr_processes_left_in_init <= 0
  BY <1>1, WakeFirstFinds, AllHaveAttached
<1>4. nr_processes_left_in_init = 0
  <2>1. Cardinality(Starting) \in Nat
    <3>1. Starting \subseteq Proc
      BY DEF Starting
    <3> QED
      BY <3>1, ProcAssumption, FS_Subset, FS_CardinalityType
  <2>2. Cardinality(Starting) <= nr_processes_left_in_init /\ nr_processes_left_in_init \in Int
    BY <1>3 DEF SetInv, TypeInv, TypeOK
  <2> QED
    BY <1>3, <2>1, <2>2
<1>5. cpus_available = Usable /\ cpus_to_assign = FullShare
  BY <1>1, <1>3, <1>4 DEF SetInv
<1>6. UNCHANGED << cpus_available, cpus_to_assign, affinities >>
  BY DEF WakeFirst
<1>7. Blank'
  BY <1>2, <1>6 DEF Blank
<1>8. \A q \in Proc : pc'[q] \notin {"collect", "partition", "handoff", "bind"}
  BY <1>1 DEF TypeInv, TypeOK, LockInv, WakeFirst, SignalAndGoto
<1>9. Bound' = {}
  BY <1>2 DEF TypeInv, TypeOK, Bound, WakeFirst, SignalAndGoto
<1>10. \A q \in Proc : HasTurn(q)' => Below(q) = 0
  BY <1>1, TurnToFirst, WakeFirstFinds
<1>11. \A q \in Proc : HasTurn(q)' => ~(Below(q) > 0)
  BY <1>10
<1> QED
  BY <1>5, <1>6, <1>7, <1>8, <1>9, <1>11, JobIsFixed DEF ShareInv

\* Who takes the turn partitions if it is the first, and otherwise finds the shares made.
LEMMA ShareTake ==
  ASSUME UniformJob, TypeInv, TurnInv, ShareInv, PositionInv, NEW p \in Proc, TakeTurn(p)
  PROVE  ShareInv'
<1>1. /\ UNCHANGED << cpus_available, affinities, cpus_to_assign, mask, ret, ready, timeout, my_i >>
      /\ pc[p] = "granted" /\ lock = p
      /\ pc'[p] = IF process_rank = 0 THEN "collect" ELSE "handoff"
      /\ \A q \in Proc : q # p => pc'[q] = pc[q]
  BY DEF TypeInv, TypeOK, LockInv, TakeTurn
<1>2. Shared' = Shared /\ Blank' = Blank
  BY <1>1, JobIsFixed DEF Shared, SharedTo, Blank
<1>3. \A q \in Proc : HasTurn(q)' <=> HasTurn(q)
  BY <1>1 DEF HasTurn
<1>4. Bound' = Bound
  BY <1>1 DEF Bound
<1>5. HasTurn(p) /\ process_rank = Below(p) /\ Below(p) \in Nat
  BY <1>1, OwnPosition, BelowGrows DEF HasTurn
<1>6. \A q \in Proc : q # p =>
          pc[q] \notin {"collect", "partition", "handoff", "bind"} /\ ~HasTurn(q)
  BY <1>1, <1>5 DEF TypeInv, LockInv, TurnInv
<1>7. CASE Below(p) = 0
  <2>1. pc'[p] = "collect" /\ Blank /\ cpus_available = Usable /\ cpus_to_assign = FullShare
    BY <1>1, <1>5, <1>7 DEF ShareInv
  <2> QED
    BY <1>1, <1>2, <1>3, <1>4, <1>6, <1>7, <2>1, JobIsFixed DEF ShareInv
<1>8. CASE Below(p) > 0
  <2>1. pc'[p] = "handoff" /\ Shared
    BY <1>1, <1>5, <1>8 DEF ShareInv
  <2> QED
    BY <1>1, <1>2, <1>3, <1>4, <1>6, <2>1, JobIsFixed DEF ShareInv
<1> QED
  BY <1>5, <1>7, <1>8

\* What is left of a set of CPUs.
LEMMA SetMinusShare ==
  ASSUME NEW S, IsFiniteSet(S), NEW T \in SUBSET S
  PROVE  /\ Cardinality(S) \in Nat /\ Cardinality(T) \in Nat
         /\ Cardinality(S \ T) = Cardinality(S) - Cardinality(T)
<1>1. S \cap T = T
  OBVIOUS
<1>2. IsFiniteSet(T)
  BY FS_Subset
<1>3. Cardinality(S) \in Nat /\ Cardinality(T) \in Nat
  BY <1>2, FS_CardinalityType
<1>4. Cardinality(S \ T) = Cardinality(S) - Cardinality(S \cap T)
  BY FS_Difference
<1> QED
  BY <1>1, <1>3, <1>4

\* As long as ranks are left to do, enough CPUs are left for a full share.
LEMMA EnoughLeft ==
  ASSUME UniformJob, NEW r \in Nat, r < N, NEW avail \in SUBSET Usable,
         Cardinality(avail) = Cardinality(Usable) - r * FullShare, cpus_to_assign = FullShare
  PROVE  /\ Share(avail) = FullShare
         /\ \A cpus \in SUBSET avail : Cardinality(cpus) = FullShare =>
              Cardinality(avail \ cpus) = Cardinality(Usable) - (r + 1) * FullShare
<1> DEFINE k == FullShare
           u == Cardinality(Usable)
<1>1. /\ N \in Nat /\ k \in Nat /\ k >= 1 /\ u \in Nat /\ N * k <= u /\ Max({1, k}) = k
      /\ IsFiniteSet(avail) /\ Cardinality(avail) \in Nat
  BY FullShares, FS_Subset, FS_CardinalityType
<1> HIDE DEF k, u
<1>2. r * k \in Nat /\ N * k \in Nat /\ (r + 1) * k = r * k + k /\ (r + 1) * k <= N * k
  BY <1>1, OneMoreShare
<1>3. Cardinality(avail) = u - r * k /\ cpus_to_assign = k
  BY DEF k, u
<1>4. k <= Cardinality(avail) /\ u - (r + 1) * k = Cardinality(avail) - k
  BY <1>1, <1>2, <1>3
<1>5. Share(avail) = k
  BY <1>1, <1>3, <1>4, MinWithShare DEF Share
<1>6. ASSUME NEW cpus \in SUBSET avail, Cardinality(cpus) = k
      PROVE  Cardinality(avail \ cpus) = u - (r + 1) * k
  BY <1>1, <1>4, <1>6, SetMinusShare
<1> QED
  BY <1>5, <1>6 DEF k, u

\* A rank gets a full share, and what is left is enough for the others.
LEMMA ShareRank ==
  ASSUME UniformJob, TypeInv, CountInv, TurnInv, RankInv, ShareInv, NEW p \in Proc,
         PartitionRank(p)
  PROVE  ShareInv'
<1>1. pc[p] = "partition" /\ lock = p /\ HasTurn(p) /\ Below(p) = 0 /\ Bound = {}
  BY DEF TypeInv, LockInv, HasTurn, PartitionRank, ShareInv, RankInv
<1>2. /\ UNCHANGED << nr_processes, cpus_to_assign, pc, ret, ready, timeout, my_i >>
      /\ process_rank < nr_processes /\ process_rank' = process_rank + 1
  BY DEF PartitionRank
<1>3. /\ process_rank \in Nat /\ nr_processes = N
      /\ N \in Nat /\ N <= MaxProcesses /\ MaxProcesses \in Nat
  <2>1. process_rank \in Nat /\ nr_processes \in {-1, N}
    BY DEF TypeInv, TypeOK, CountInv, GroupInv
  <2> QED
    BY <1>2, <2>1, FullShares, TwoSlots
<1>4. PICK r \in Slot : r = process_rank /\ r < N /\ r \in Nat
  BY <1>2, <1>3
<1>5. PICK avail : avail = cpus_available
  OBVIOUS
<1>6. /\ cpus_to_assign = FullShare /\ avail \subseteq Usable
      /\ Cardinality(avail) = Cardinality(Usable) - r * FullShare
      /\ SharedTo(process_rank)
  BY <1>1, <1>3, <1>4, <1>5 DEF ShareInv
<1>7. PICK cpus \in SUBSET avail :
        /\ Cardinality(cpus) = FullShare
        /\ cpus_available' = avail \ cpus
        /\ affinities' = [affinities EXCEPT ![r] = cpus]
  BY <1>4, <1>5, <1>6, EnoughLeft DEF PartitionRank, Commit
<1>8. Cardinality(cpus_available') = Cardinality(Usable) - (r + 1) * FullShare
  BY <1>4, <1>6, <1>7, EnoughLeft
<1>9. ASSUME NEW t \in Slot, t < r + 1
      PROVE  affinities'[t] \subseteq Usable /\ Cardinality(affinities'[t]) = FullShare
  <2>1. CASE t = r
    BY <1>6, <1>7, <2>1 DEF TypeInv, TypeOK
  <2>2. CASE t # r
    <3>1. t < r
      BY <1>4, <1>9, <2>2
    <3> QED
      BY <1>4, <1>6, <1>7, <2>2, <3>1 DEF SharedTo, TypeInv, TypeOK
  <2> QED
    BY <2>1, <2>2
<1>10. SharedTo(process_rank)'
  BY <1>2, <1>4, <1>9, JobIsFixed DEF SharedTo
<1>11. \A q \in Proc : q # p =>
          pc[q] \notin {"collect", "partition", "handoff", "bind"} /\ ~HasTurn(q)
  BY <1>1 DEF TypeInv, LockInv, TurnInv
<1>12. Bound' = {} /\ \A q \in Proc : HasTurn(q)' <=> HasTurn(q)
  BY <1>1, <1>2 DEF Bound, HasTurn
<1>13. process_rank' = r + 1 /\ r + 1 <= N /\ cpus_available' \subseteq Usable
  BY <1>2, <1>3, <1>4, <1>6, <1>7
<1>14. ~(Below(p) > 0)
  BY <1>1
<1> QED
  BY <1>1, <1>2, <1>3, <1>6, <1>8, <1>10, <1>11, <1>12, <1>13, <1>14, JobIsFixed DEF ShareInv

\* The loop is over when each rank has its share; it does nothing for an aborted group, and
\* then the list is empty.
LEMMA ShareDone ==
  ASSUME UniformJob, TypeInv, CountInv, TurnInv, RankInv, ChainInv, ShareInv, NEW p \in Proc,
         PartitionDone(p)
  PROVE  ShareInv'
<1>1. /\ pc[p] = "partition" /\ lock = p /\ p # 0 /\ HasTurn(p) /\ Below(p) = 0 /\ Bound = {}
      /\ Live
  BY ProcAssumption DEF TypeInv, LockInv, HasTurn, PartitionDone, ShareInv, RankInv, Live
<1>2. /\ UNCHANGED << nr_processes, first_process_ind, cpuVars, ret, ready, timeout, my_i >>
      /\ process_rank >= nr_processes
      /\ pc'[p] = "handoff" /\ \A q \in Proc : q # p => pc'[q] = pc[q]
  BY DEF PartitionDone, TypeInv, TypeOK
<1>3. process_rank \in Nat /\ N \in Nat
  BY FullShares DEF TypeInv, TypeOK
<1>4. Shared \/ (Blank /\ first_process_ind = Nil)
  <2>1. CASE nr_processes = N
    <3>1. process_rank = N /\ SharedTo(process_rank)
      BY <1>1, <1>2, <1>3, <2>1 DEF ShareInv
    <3> QED
      BY <3>1 DEF Shared
  <2>2. CASE nr_processes # N
    BY <1>1, <2>2 DEF ShareInv, ChainInv
  <2> QED
    BY <2>1, <2>2
<1>5. Shared' = Shared /\ Blank' = Blank
  BY <1>2, JobIsFixed DEF Shared, SharedTo, Blank
<1>6. \A q \in Proc : q # p =>
          pc[q] \notin {"collect", "partition", "handoff", "bind"} /\ ~HasTurn(q)
  BY <1>1 DEF TypeInv, LockInv, TurnInv
<1>7. Bound' = {} /\ \A q \in Proc : HasTurn(q)' => q = p
  BY <1>1, <1>2, <1>6 DEF Bound, HasTurn
<1>8. ~(Below(p) > 0)
  BY <1>1
<1> QED
  BY <1>1, <1>2, <1>4, <1>5, <1>6, <1>7, <1>8, JobIsFixed DEF ShareInv

\* The turn is passed on only if there are shares.
LEMMA ShareNext ==
  ASSUME TypeInv, ListInv, TurnInv, ChainInv, ShareInv, NEW p \in Proc,
         EndGroup(p) \/ WakeNext(p)
  PROVE  ShareInv'
<1>1. pc[p] = "handoff" /\ lock = p /\ HasTurn(p)
  BY DEF TypeInv, LockInv, HasTurn, EndGroup, WakeNext
<1>2. /\ UNCHANGED << affinities, mask, ret >> /\ pc'[p] = "bind"
      /\ \A q \in Proc : /\ q # p => pc'[q] \in {pc[q], "signalled"}
                         /\ q # p /\ pc'[q] # pc[q] => pc[q] = "waiting"
  BY DEF TypeInv, TypeOK, EndGroup, WakeNext, SignalAndGoto
<1>3. Shared' = Shared /\ Blank' = Blank
  BY <1>2, JobIsFixed DEF Shared, SharedTo, Blank
<1>4. \A q \in Proc : HasTurn(q)' => Below(q) = Below(p) + 1 /\ first_process_ind # Nil
  BY TurnPassed
<1>5. Bound' = Bound
  BY <1>1, <1>2 DEF Bound
<1>6. \A q \in Proc : /\ pc'[q] \notin {"collect", "partition", "handoff"}
                      /\ pc'[q] = "bind" => q = p
  BY <1>1, <1>2 DEF TypeInv, LockInv
<1>7. Shared \/ (Blank /\ first_process_ind = Nil)
  BY <1>1 DEF ShareInv
<1>8. \A q \in Proc : HasTurn(q)' => Below(q) # 0 /\ Shared
  <2>1. Below(p) \in Nat
    BY BelowGrows
  <2> QED
    BY <1>4, <1>7, <2>1
<1>9. Shared' \/ (Blank' /\ \A q \in Proc : ~HasTurn(q)')
  BY <1>3, <1>7, <1>8
<1>10. \A q \in Bound' : Shared' /\ mask'[q] = affinities'[ret'[q]]
  BY <1>2, <1>3, <1>5 DEF ShareInv
<1> QED
  BY <1>3, <1>6, <1>8, <1>9, <1>10, JobIsFixed DEF ShareInv

\* Who is bound has what its rank was given.
LEMMA ShareBind ==
  ASSUME UniformJob, TypeInv, TurnInv, ShareInv, PositionInv, NEW p \in Proc, Bind(p)
  PROVE  ShareInv'
<1>1. pc[p] = "bind" /\ lock = p
  BY DEF TypeInv, LockInv, Bind
<1>2. /\ affinities' = affinities /\ pc'[p] = "unlock"
      /\ \A q \in Proc : q # p => pc'[q] = pc[q] /\ ret'[q] = ret[q] /\ mask'[q] = mask[q]
      /\ \A q \in Proc : HasTurn(q)' => HasTurn(q)
  BY DEF TypeInv, TypeOK, HasTurn, Bind
<1>3. Shared' = Shared /\ Blank' = Blank
  BY <1>2, JobIsFixed DEF Shared, SharedTo, Blank
<1>4. \A q \in Proc : pc'[q] \notin {"collect", "partition", "handoff", "bind"}
  BY <1>1, <1>2 DEF TypeInv, LockInv
<1>5. \A q \in Proc : HasTurn(q)' => ~(Below(q) = 0)
  <2>1. \A q \in Proc : HasTurn(q) => p < q
    BY <1>1 DEF TurnInv
  <2>2. Below(p) \in Nat /\ \A q \in Proc : Below(q) \in Nat /\ (p < q => Below(p) + 1 <= Below(q))
    BY BelowGrows
  <2> QED
    BY <1>2, <2>1, <2>2
<1>6. \A q \in Proc : HasTurn(q)' => Shared
  BY <1>1, <1>2 DEF ShareInv
<1>7. p \notin Bound /\ Bound' \subseteq Bound \cup {p}
  BY <1>1, <1>2 DEF Bound
<1>8. \A q \in Bound' : Shared /\ mask'[q] = affinities[ret'[q]]
  <2>1. CASE Shared
    <3>1. mask'[p] = affinities[ret'[p]]
      BY <2>1, BindSucceeds DEF TypeInv, TypeOK
    <3> QED
      BY <1>2, <1>7, <2>1, <3>1 DEF ShareInv, Bound
  <2>2. CASE ~Shared
    BY <1>2, <1>7, <2>2, BindRefused DEF ShareInv
  <2> QED
    BY <2>1, <2>2
<1> QED
  BY <1>2, <1>3, <1>4, <1>5, <1>6, <1>8, JobIsFixed DEF ShareInv

\* Shares stay as they are said to be after every step.
LEMMA ShareStep ==
  ASSUME UniformJob, TypeInv, CountInv, OrderInv, TurnInv', GatherInv, ChainInv, SetInv,
         ShareInv, PositionInv, [Next]_vars
  PROVE  ShareInv'
<1>1. ListInv /\ TurnInv /\ RankInv
  BY DEF OrderInv
<1>2. CASE UNCHANGED vars
  <2>1. UNCHANGED << nr_processes, process_rank, cpus_available, affinities, cpus_to_assign,
                     first_process_ind, mask, ret, pc, ready, timeout, my_i >>
    BY <1>2 DEF vars
  <2>2. Bound' = Bound /\ \A q \in Proc : HasTurn(q) <=> HasTurn(q)'
    BY <2>1 DEF Bound, HasTurn
  <2>3. /\ Shared' = Shared /\ Blank' = Blank
        /\ SharedTo(process_rank)' = SharedTo(process_rank)
    BY <2>1, JobIsFixed DEF Shared, SharedTo, Blank
  <2> QED
    BY <2>1, <2>2, <2>3, JobIsFixed DEF ShareInv
<1>3. ASSUME NEW p \in Proc, EarlyStep(p)
      PROVE  ShareInv'
  BY <1>3, EarlySteps, ShareEarly DEF EarlyStep
<1> QED
  BY <1>1, <1>2, <1>3, ShareQuiet, ShareFirst, ShareTake, ShareRank, ShareDone, ShareNext,
     ShareBind, StepKinds

-----------------------------------------------------------------------------
\* Who is pinned, and with what, is decided by these three together.
BarrierInv == SetInv /\ ShareInv /\ PositionInv

\* They hold of any uniform job, whatever goes wrong in it.
LEMMA BarrierInvariance ==
  ASSUME UniformJob
  PROVE  Spec => []BarrierInv
<1>1. Init => BarrierInv
  <2> SUFFICES ASSUME Init
               PROVE  BarrierInv
    OBVIOUS
  <2>1. Bound = {} /\ \A p \in Proc : ~HasTurn(p) /\ pc[p] = "start"
    BY DEF Init, Bound, HasTurn
  <2>2. SetInv
    BY DEF Init, SetInv
  <2>3. ShareInv /\ PositionInv
    BY <2>1 DEF ShareInv, PositionInv
  <2> QED
    BY <2>2, <2>3 DEF BarrierInv
<1>2. ASSUME TypeInv, CountInv, OrderChainInv, TurnInv', BarrierInv, [Next]_vars
      PROVE  BarrierInv'
  <2>1. ListInv /\ TurnInv /\ OrderInv /\ GatherInv /\ ChainInv
    BY <1>2 DEF OrderChainInv, OrderInv
  <2> QED
    BY <1>2, <2>1, SetStep, ShareStep, PositionStep DEF BarrierInv
<1>3. OneJob /\ SamePpn
  BY FullShares, SizeOfJob
<1>4. OrderChainInv => TurnInv
  BY DEF OrderChainInv, OrderInv
<1> QED
  BY <1>1, <1>2, <1>3, <1>4, TypeInvariance, CountInvariance, ChainInvariance, PTL DEF Spec

\* What a bound process has.
LEMMA WhatIsBound ==
  ASSUME UniformJob, BarrierInv, NEW p \in Bound
  PROVE  /\ ret[p] = Below(p)
         /\ mask[p] \subseteq Usable /\ Cardinality(mask[p]) = FullShare
<1>1. p \in Proc /\ ret[p] = Below(p) /\ Shared /\ mask[p] = affinities[ret[p]]
  BY DEF BarrierInv, PositionInv, ShareInv, Bound
<1>2. Below(p) \in Nat /\ Below(p) < N /\ N <= MaxProcesses /\ N \in Nat /\ MaxProcesses \in Nat
  BY <1>1, BelowGrows, FullShares, TwoSlots
<1>3. Below(p) \in Slot
  BY <1>2
<1> QED
  BY <1>1, <1>2, <1>3 DEF Shared, SharedTo

\* The rank of a pinned process is its position in PID order among all processes of the
\* job, also if others failed, were killed or timed out: the turn leaves nobody out, and
\* who has it is bound before the next one is (865-880, 1085-1115).
THEOREM RanksArePositions ==
  ASSUME UniformJob
  PROVE  Spec => []RankIsPosition
<1>1. BarrierInv => RankIsPosition
  BY WhatIsBound DEF RankIsPosition, Pinned, Bound, Below
<1> QED
  BY <1>1, BarrierInvariance, PTL

\* A pinned process has as many of the usable CPUs as its share is, and no others, whoever
\* attached with which mask and however the CPUs were picked (1356-1402, 970-1070, 1098).
THEOREM SharesAreFair ==
  ASSUME UniformJob
  PROVE  Spec => []FairShare
<1>1. ASSUME BarrierInv, NEW p \in Pinned
      PROVE  /\ mask[p] \subseteq Usable
             /\ Cardinality(mask[p]) = Max({1, Cardinality(Usable) \div Ppn[p]})
  <2>1. p \in Bound /\ p \in Proc
    BY DEF Pinned, Bound
  <2>2. Ppn[p] = Cardinality(Proc)
    BY <2>1 DEF UniformJob, OneJob
  <2> QED
    BY <1>1, <2>1, <2>2, WhatIsBound DEF FullShare
<1>2. BarrierInv => FairShare
  BY <1>1 DEF FairShare
<1> QED
  BY <1>2, BarrierInvariance, PTL

-----------------------------------------------------------------------------
\* A step that neither ends anything nor gives anybody a slot is none of the barrier's.
LEMMA BarrierStutters ==
  ASSUME \A q \in Proc : /\ my_i'[q] # Nil <=> my_i[q] # Nil
                         /\ pc'[q] = pc[q] \/ (pc[q] \notin Ended /\ pc'[q] \notin Ended)
                         /\ pc[q] = "pinned" => ret'[q] = ret[q] /\ mask'[q] = mask[q]
  PROVE  UNCHANGED Barrier!vars
<1>1. \A q \in Proc : /\ pc'[q] = "pinned" <=> pc[q] = "pinned"
                      /\ pc'[q] \in Ended <=> pc[q] \in Ended
  OBVIOUS
<1>2. {q \in Proc : my_i'[q] # Nil} = {q \in Proc : my_i[q] # Nil}
  OBVIOUS
<1>3. [q \in Proc |-> IF pc'[q] = "pinned" THEN "pinned"
                      ELSE IF pc'[q] \in Ended THEN "failed" ELSE "pending"]
        = [q \in Proc |-> IF pc[q] = "pinned" THEN "pinned"
                          ELSE IF pc[q] \in Ended THEN "failed" ELSE "pending"]
  BY <1>1
<1>4. /\ [q \in Proc |-> IF pc'[q] = "pinned" THEN ret'[q] ELSE 0]
           = [q \in Proc |-> IF pc[q] = "pinned" THEN ret[q] ELSE 0]
      /\ [q \in Proc |-> IF pc'[q] = "pinned" THEN mask'[q] ELSE {}]
           = [q \in Proc |-> IF pc[q] = "pinned" THEN mask[q] ELSE {}]
  BY <1>1
<1> QED
  BY <1>2, <1>3, <1>4 DEF Barrier!vars

\* Taking a slot is arriving.
LEMMA RegisterArrives ==
  ASSUME TypeInv, NEW p \in Proc, Register(p)
  PROVE  Barrier!Arrive(p)
<1>1. pc[p] = "register" /\ my_i[p] = Nil
  BY DEF TypeInv, SlotInv, Register
<1>2. FreeSlot \in Slot
  BY <1>1, FreeSlotExists
<1>3. /\ my_i' = [my_i EXCEPT ![p] = FreeSlot] /\ UNCHANGED << ret, mask >>
      /\ pc'[p] \notin Ended /\ \A q \in Proc : q # p => pc'[q] = pc[q]
  BY DEF TypeInv, TypeOK, Register
<1>4. {q \in Proc : my_i'[q] # Nil} = {q \in Proc : my_i[q] # Nil} \cup {p}
  BY <1>2, <1>3 DEF TypeInv, TypeOK
<1>5. \A q \in Proc : /\ pc'[q] = "pinned" <=> pc[q] = "pinned"
                      /\ pc'[q] \in Ended <=> pc[q] \in Ended
  BY <1>1, <1>3
<1>6. [q \in Proc |-> IF pc'[q] = "pinned" THEN "pinned"
                      ELSE IF pc'[q] \in Ended THEN "failed" ELSE "pending"]
        = [q \in Proc |-> IF pc[q] = "pinned" THEN "pinned"
                          ELSE IF pc[q] \in Ended THEN "failed" ELSE "pending"]
  BY <1>5
<1>7. /\ [q \in Proc |-> IF pc'[q] = "pinned" THEN ret'[q] ELSE 0]
           = [q \in Proc |-> IF pc[q] = "pinned" THEN ret[q] ELSE 0]
      /\ [q \in Proc |-> IF pc'[q] = "pinned" THEN mask'[q] ELSE {}]
           = [q \in Proc |-> IF pc[q] = "pinned" THEN mask[q] ELSE {}]
  BY <1>3, <1>5
<1> QED
  BY <1>1, <1>4, <1>6, <1>7 DEF Barrier!Arrive

\* Returning with an error, or being killed, is failing.
LEMMA EndFails ==
  ASSUME TypeInv, NEW p \in Proc, pc[p] \notin Ended,
         pc' = [pc EXCEPT ![p] = "failed"] \/ pc' = [pc EXCEPT ![p] = "killed"],
         UNCHANGED << my_i, ret, mask >>
  PROVE  Barrier!Fail(p)
<1>1. /\ pc'[p] \in {"failed", "killed"}
      /\ \A q \in Proc : q # p => pc'[q] = pc[q]
  BY DEF TypeInv, TypeOK
<1>2. \A q \in Proc : pc'[q] = "pinned" <=> pc[q] = "pinned"
  BY <1>1
<1> DEFINE outcome == [q \in Proc |-> IF pc[q] = "pinned" THEN "pinned"
                                      ELSE IF pc[q] \in Ended THEN "failed" ELSE "pending"]
<1>3. [q \in Proc |-> IF pc'[q] = "pinned" THEN "pinned"
                      ELSE IF pc'[q] \in Ended THEN "failed" ELSE "pending"]
        = [outcome EXCEPT ![p] = "failed"]
  BY <1>1
<1>4. /\ [q \in Proc |-> IF pc'[q] = "pinned" THEN ret'[q] ELSE 0]
           = [q \in Proc |-> IF pc[q] = "pinned" THEN ret[q] ELSE 0]
      /\ [q \in Proc |-> IF pc'[q] = "pinned" THEN mask'[q] ELSE {}]
           = [q \in Proc |-> IF pc[q] = "pinned" THEN mask[q] ELSE {}]
  BY <1>2
<1>5. outcome[p] = "pending"
  OBVIOUS
<1> QED
  BY <1>3, <1>4, <1>5 DEF Barrier!Fail

\* PinBarrier counts as PartExec does.
LEMMA SameCount ==
  ASSUME NEW S
  PROVE  Barrier!Cardinality(S) = Cardinality(S)
  BY DEF Barrier!Cardinality, Cardinality

\* Returning with a rank is being pinned: everybody has arrived, the smaller PIDs are
\* pinned, and the CPUs are free ones.
LEMMA UnlockPins ==
  ASSUME UniformJob, TypeInv, OrderInv, BarrierInv, NEW p \in Proc, Unlock(p), ret[p] >= 0
  PROVE  Barrier!Pin(p)
<1>1. pc[p] = "unlock" /\ lock = p /\ p \in Bound
  BY DEF TypeInv, LockInv, Bound, Unlock
<1>2. /\ UNCHANGED << my_i, ret, mask >>
      /\ pc'[p] = "pinned" /\ \A q \in Proc : q # p => pc'[q] = pc[q]
  BY DEF TypeInv, TypeOK, Unlock
<1>3. {q \in Proc : my_i[q] # Nil} = Proc
  BY <1>1 DEF OrderInv, TurnInv, Open
<1>4. \A q \in Proc : q < p => pc[q] = "pinned"
  <2>1. \A q \in Proc : q < p => q \in Bound /\ q # p
    BY <1>1, ProcAssumption DEF BarrierInv, PositionInv
  <2> QED
    BY <1>1, <2>1 DEF Bound, TypeInv, LockInv
<1>5. ret[p] = Below(p) /\ mask[p] \subseteq Usable /\ Cardinality(mask[p]) = FullShare
  BY <1>1, WhatIsBound
<1> DEFINE outcome == [q \in Proc |-> IF pc[q] = "pinned" THEN "pinned"
                                      ELSE IF pc[q] \in Ended THEN "failed" ELSE "pending"]
           rank == [q \in Proc |-> IF pc[q] = "pinned" THEN ret[q] ELSE 0]
           cpus == [q \in Proc |-> IF pc[q] = "pinned" THEN mask[q] ELSE {}]
<1>6. \A q \in Proc : cpus[q] \cap mask[p] = {}
  <2> SUFFICES ASSUME NEW q \in Proc, pc[q] = "pinned"
               PROVE  mask[q] \cap mask[p] = {}
    OBVIOUS
  <2>1. q \in Bound /\ q # p
    BY <1>1 DEF Bound
  <2> QED
    BY <1>1, <2>1, BoundApart
<1>7. mask[p] \in SUBSET (Usable \ UNION {cpus[q] : q \in Proc})
  <2> HIDE DEF cpus
  <2> QED
    BY <1>5, <1>6
<1>8. [q \in Proc |-> IF pc'[q] = "pinned" THEN "pinned"
                      ELSE IF pc'[q] \in Ended THEN "failed" ELSE "pending"]
        = [outcome EXCEPT ![p] = "pinned"]
  BY <1>2
<1>9. [q \in Proc |-> IF pc'[q] = "pinned" THEN ret'[q] ELSE 0]
        = [rank EXCEPT ![p] = Barrier!Cardinality({q \in Proc : q < p})]
  <2>1. ret[p] = Barrier!Cardinality({q \in Proc : q < p})
    BY <1>5, SameCount DEF Below
  <2> QED
    BY <1>2, <2>1
<1>10. [q \in Proc |-> IF pc'[q] = "pinned" THEN mask'[q] ELSE {}]
        = [cpus EXCEPT ![p] = mask[p]]
  BY <1>2
<1>11. outcome[p] = "pending" /\ \A q \in Proc : q < p => outcome[q] = "pinned"
  BY <1>1, <1>4
<1>12. \E share \in SUBSET (Usable \ UNION {cpus[q] : q \in Proc}) :
         /\ Barrier!Cardinality(share) = FullShare
         /\ [q \in Proc |-> IF pc'[q] = "pinned" THEN mask'[q] ELSE {}]
              = [cpus EXCEPT ![p] = share]
  BY <1>5, <1>7, <1>10, SameCount
<1> QED
  BY <1>2, <1>3, <1>8, <1>9, <1>11, <1>12 DEF Barrier!Pin, Barrier!Free

\* What a step of pin_process() or main() is for the barrier.
LEMMA BarrierStep ==
  ASSUME UniformJob, TypeInv, OrderInv, BarrierInv, [Next]_vars
  PROVE  [Barrier!Next]_(Barrier!vars)
<1>1. TurnInv
  BY DEF OrderInv
<1>2. CASE UNCHANGED vars
  BY <1>2, BarrierStutters DEF vars
<1>3. ASSUME NEW p \in Proc, EarlyStep(p)
      PROVE  [Barrier!Next]_(Barrier!vars)
  <2>1. CASE Register(p)
    BY <2>1, RegisterArrives DEF Barrier!Next
  <2>2. CASE Create(p) \/ Attach(p) \/ Discover(p) \/ Lock(p) \/ Mismatch(p) \/ Walk(p) \/ Insert(p)
    <3>1. /\ my_i' = my_i /\ pc[p] \notin Ended /\ pc'[p] \notin Ended
          /\ \A q \in Proc : q # p => pc'[q] = pc[q] /\ ret'[q] = ret[q] /\ mask'[q] = mask[q]
      BY <2>2 DEF TypeInv, TypeOK, Create, Attach, Discover, Lock, Mismatch, Walk, Insert
    <3> QED
      BY <3>1, BarrierStutters
  <2> QED
    BY <1>3, <2>1, <2>2 DEF EarlyStep
<1>4. ASSUME NEW p \in Proc, QuietStep(p)
      PROVE  [Barrier!Next]_(Barrier!vars)
  <2>1. CASE Unlock(p)
    <3>1. CASE ret[p] >= 0
      BY <1>1, <2>1, <3>1, UnlockPins DEF Barrier!Next
    <3>2. CASE ~(ret[p] >= 0)
      <4>1. ret[p] < 0
        BY <3>2 DEF TypeInv, TypeOK
      <4>2. Barrier!Fail(p)
        BY <2>1, <4>1, EndFails DEF Unlock
      <4> QED
        BY <4>2 DEF Barrier!Next
    <3> QED
      BY <3>1, <3>2
  <2>2. CASE Kill(p)
    <3>1. Barrier!Fail(p)
      BY <2>2, EndFails DEF Kill
    <3> QED
      BY <3>1 DEF Barrier!Next
  <2>3. CASE \/ Wait(p) \/ Reacquire(p) \/ Resume(p) \/ AbortDone(p) \/ Collect(p)
             \/ PartitionFails(p) \/ TimeOut(p) \/ SpuriousWakeup(p)
    <3>1. /\ my_i' = my_i /\ mask' = mask /\ pc[p] \notin Ended /\ pc'[p] \notin Ended
          /\ \A q \in Proc : q # p => pc'[q] = pc[q] /\ ret'[q] = ret[q]
      BY <2>3 DEF TypeInv, TypeOK, Wait, Reacquire, Resume, AbortDone, Collect, PartitionFails,
         TimeOut, SpuriousWakeup
    <3> QED
      BY <3>1, BarrierStutters
  <2>4. CASE AbortNext(p)
    <3>1. /\ UNCHANGED << my_i, mask, ret >>
          /\ \A q \in Proc : pc'[q] = pc[q] \/ (pc[q] \in {"abort", "waiting"}
                                               /\ pc'[q] \in {"abort", "signalled"})
      BY <2>4 DEF TypeInv, TypeOK, AbortNext, SignalAndGoto
    <3> QED
      BY <3>1, BarrierStutters
  <2> QED
    BY <1>4, <2>1, <2>2, <2>3, <2>4 DEF QuietStep
<1>5. ASSUME NEW p \in Proc, WakeFirst(p) \/ WakeNext(p)
      PROVE  [Barrier!Next]_(Barrier!vars)
  <2>1. /\ UNCHANGED << my_i, mask, ret >> /\ pc[p] \notin Ended /\ pc'[p] \notin Ended
        /\ \A q \in Proc : q # p =>
             pc'[q] = pc[q] \/ (pc[q] = "waiting" /\ pc'[q] = "signalled")
    BY <1>5 DEF TypeInv, TypeOK, WakeFirst, WakeNext, SignalAndGoto
  <2> QED
    BY <2>1, BarrierStutters
<1>6. ASSUME NEW p \in Proc,
             TakeTurn(p) \/ PartitionRank(p) \/ PartitionDone(p) \/ EndGroup(p) \/ Bind(p)
      PROVE  [Barrier!Next]_(Barrier!vars)
  <2>1. /\ my_i' = my_i /\ pc[p] \notin Ended /\ pc'[p] \notin Ended
        /\ \A q \in Proc : q # p => pc'[q] = pc[q] /\ ret'[q] = ret[q] /\ mask'[q] = mask[q]
    BY <1>6 DEF TypeInv, TypeOK, TakeTurn, PartitionRank, PartitionDone, EndGroup, Bind
  <2> QED
    BY <2>1, BarrierStutters
<1> QED
  BY <1>2, <1>3, <1>4, <1>5, <1>6, StepKinds

\* PartExec implements PinBarrier: no process returns with a rank before all of the job
\* have come and all with smaller PIDs are pinned; its rank is its position and its CPUs
\* are a full share that nobody else has.  A timeout, a failure or a kill at any point,
\* between any two steps of the others, only ever leaves processes unpinned (778-1121).
THEOREM PinBarrierImplemented ==
  ASSUME UniformJob
  PROVE  Spec => ImplementsBarrier
<1>1. Init => Barrier!Init
  <2> SUFFICES ASSUME Init
               PROVE  Barrier!Init
    OBVIOUS
  <2>1. \A p \in Proc : pc[p] = "start" /\ my_i[p] = Nil
    BY DEF Init
  <2> QED
    BY <2>1 DEF Barrier!Init
<1>2. TypeInv /\ OrderInv /\ BarrierInv /\ [Next]_vars => [Barrier!Next]_(Barrier!vars)
  BY BarrierStep
<1>3. OneJob
  BY FullShares
<1> QED
  BY <1>1, <1>2, <1>3, TypeInvariance, OrderInvariance, BarrierInvariance, PTL
     DEF Spec, ImplementsBarrier, Barrier!Spec
=============================================================================
