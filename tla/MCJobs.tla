------------------------------- MODULE MCJobs -------------------------------
(* Instances of Jobs for TLC. *)
EXTENDS Jobs

Budget(tasks, fleets, faults, kills, destroys, ends) ==
    [tasks |-> tasks, fleets |-> fleets, faults |-> faults, kills |-> kills,
     destroys |-> destroys, ends |-> ends]

\* One job and everything that can happen to it; two jobs and one kind of trouble.
SmallBudgets ==
    { Budget(1, 0, 1, 1, 1, 1), Budget(0, 1, 1, 0, 0, 1), Budget(1, 1, 0, 0, 0, 0),
      Budget(2, 0, 0, 1, 0, 0), Budget(2, 0, 0, 0, 1, 0), Budget(2, 0, 0, 0, 0, 1) }

\* One fleet, and the process ends once.
FleetBudgets == { Budget(0, 1, 0, 0, 0, 1) }
=============================================================================
