---------------------------- MODULE MCSliceStore ----------------------------
\* Small instances of SliceStore for TLC.
EXTENDS SliceStore, TLC

OnePayload == {[type |-> "Result", scope |-> "User"]}
MCDeltas == {[hits |-> 1, last |-> 2]}

HandledFaults == {"rename", "remove", "header", "power"}

\* IDs are interchangeable: no action compares or orders them.
IdSymmetry == Permutations(Ids)

\* Where a run with every failure stops: ReloadSame says nothing beyond it.
StillSafe == ~unsafe
=============================================================================
