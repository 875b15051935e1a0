---------------------------- MODULE MCShmRegion ----------------------------
(* Instances of ShmRegion for TLC. *)
EXTENDS ShmRegion

\* Three jobs of two processes, of which the first may meet with faults.  PIDs have no
\* order across jobs.
Six    == 1 .. 6
ThreeJobs == << 2, 1, 3, 2, 1, 3 >>

\* Two jobs of two processes.
Four   == 1 .. 4
TwoJobs == << 2, 2, 1, 1 >>
=============================================================================
