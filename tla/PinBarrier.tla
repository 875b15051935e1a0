----------------------------- MODULE PinBarrier -----------------------------
(***************************************************************************)
(* What the processes of one job on a node are promised by the shared      *)
(* region: nobody is pinned before everybody is there; they are pinned in  *)
(* the order of their PIDs, each with its position in that order as its    *)
(* rank and with its share of CPUs that nobody else was given.  A process  *)
(* may fail at any time, and then those with larger PIDs are not pinned.   *)
(***************************************************************************)
EXTENDS Integers, FiniteSets

CONSTANTS
  Proc,   \* PIDs of the processes of the job
  CPU,    \* the CPUs that may be given to them
  Quota   \* the number of CPUs each is given

VARIABLES
  arrived,   \* the processes that have entered pin_process()
  outcome,   \* "pending", "pinned" or "failed", for each process
  rank,      \* the rank of each pinned process
  cpus       \* the CPUs of each pinned process, {} for the others

vars == << arrived, outcome, rank, cpus >>

Init ==
  /\ arrived = {}
  /\ outcome = [p \in Proc |-> "pending"]
  /\ rank = [p \in Proc |-> 0]
  /\ cpus = [p \in Proc |-> {}]

Arrive(p) ==
  /\ p \notin arrived
  /\ outcome[p] = "pending"
  /\ arrived' = arrived \cup {p}
  /\ UNCHANGED << outcome, rank, cpus >>

Free == CPU \ UNION {cpus[q] : q \in Proc}

Pin(p) ==
  /\ outcome[p] = "pending"
  /\ arrived = Proc
  /\ \A q \in Proc : q < p => outcome[q] = "pinned"
  /\ outcome' = [outcome EXCEPT ![p] = "pinned"]
  /\ rank' = [rank EXCEPT ![p] = Cardinality({q \in Proc : q < p})]
  /\ \E share \in SUBSET Free :
       /\ Cardinality(share) = Quota
       /\ cpus' = [cpus EXCEPT ![p] = share]
  /\ UNCHANGED arrived

Fail(p) ==
  /\ outcome[p] = "pending"
  /\ outcome' = [outcome EXCEPT ![p] = "failed"]
  /\ UNCHANGED << arrived, rank, cpus >>

Next == \E p \in Proc : Arrive(p) \/ Pin(p) \/ Fail(p)

Spec == Init /\ [][Next]_vars
=============================================================================
