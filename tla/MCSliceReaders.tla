--------------------------- MODULE MCSliceReaders ---------------------------
\* Small instances of SliceReaders for TLC.
EXTENDS SliceReaders, TLC

OnePayload == {[type |-> "Prompt", scope |-> "Project"]}
OneDelta == {[hits |-> 1, last |-> 1]}

\* IDs are interchangeable: no action compares or orders them.
IdSymmetry == Permutations(Ids)

\* Where a run with every failure stops: memory and disk have parted.
StillSafe == ~unsafe
=============================================================================
