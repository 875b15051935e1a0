-------------------------- MODULE PartExecBarrier --------------------------
(* PartExec, when all processes belong to one job, implements PinBarrier: a process *)
(* has arrived once it has a slot, and is pinned or has failed once it has returned *)
(* from pin_process().                                                              *)
EXTENDS PartExec

FullShare == Max({1, Cardinality(Usable) \div Cardinality(Proc)})

Barrier == INSTANCE PinBarrier WITH
  CPU     <- Usable,
  Quota   <- FullShare,
  arrived <- {p \in Proc : my_i[p] # Nil},
  outcome <- [p \in Proc |-> IF pc[p] = "pinned" THEN "pinned"
                              ELSE IF pc[p] \in Ended THEN "failed" ELSE "pending"],
  rank    <- [p \in Proc |-> IF pc[p] = "pinned" THEN ret[p] ELSE 0],
  cpus    <- [p \in Proc |-> IF pc[p] = "pinned" THEN mask[p] ELSE {}]

\* Whatever times out, fails or is killed on the way, no process is pinned before every
\* process of the job has arrived and every smaller PID is pinned, and each gets its
\* position as rank and a full, disjoint share (pin_process(), 778-1121).
ImplementsBarrier == Barrier!Spec
=============================================================================
