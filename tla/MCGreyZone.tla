----------------------------- MODULE MCGreyZone -----------------------------
\* Small instances of GreyZone for TLC.
EXTENDS GreyZone, TLC

\* Requests are interchangeable: no action compares or orders them.
RequestSymmetry == Permutations(Requests)

\* Bound: lessons are recorded in the first half of the run, so that their window
\* can pass within it.
EarlyLessons == \A l \in lessons : l.at <= 2
=============================================================================
