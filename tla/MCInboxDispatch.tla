-------------------------- MODULE MCInboxDispatch --------------------------
(* Instances of InboxDispatch for TLC: every behaviour has one of the budgets. *)
EXTENDS InboxDispatch

Budget(n, p, r, f, c, a, z, o) ==
    [items |-> n, plain |-> p, rotations |-> r, faults |-> f, restarts |-> c, aborts |-> a,
     closes |-> z, refusals |-> 0, ops |-> o]
Refusing(b, n) == [b EXCEPT !.refusals = n]

\* Two user operations with nothing else; one with each kind of disturbance.
SmallBudgets ==
    {Budget(2, 0, 0, 0, 0, 1, 0, 2), Budget(2, 1, 0, 0, 0, 0, 0, 0),
     Budget(2, 0, 1, 0, 0, 0, 0, 0), Budget(2, 0, 0, 1, 0, 0, 0, 1),
     Budget(1, 1, 1, 0, 0, 0, 0, 1), Budget(1, 0, 0, 1, 1, 1, 0, 2),
     Budget(2, 0, 0, 0, 0, 1, 1, 0), Refusing(Budget(2, 1, 0, 0, 0, 0, 0, 0), 1)}
=============================================================================
