------------------------ MODULE SliceReaders_proofs -------------------------
(***************************************************************************)
(* Readers that take turns with the writer leave no trace.                 *)
(***************************************************************************)
EXTENDS SliceReaders, SliceStore_proofs

\* A reader that has read the base has the store to itself, but for a loss of
\* power, until it has replayed the journal; and no journal lost its name.
Alone ==
  /\ ~orphan
  /\ rpc \in {"idle", "based", "open"}
  /\ rpc = "based" => pc = "down" /\ prune = {} /\ rgen = base.gen
  /\ pc = "down" => ~jw

\* A handle that is gone has no writer.
LEMMA DownHasNoWriter ==
  ASSUME pc = "down" => ~jw, Next
  PROVE  pc' = "down" => ~jw'
BY DEF Next, Open, Put, Delete, UpdateStats, UpdateStatsBatch, BeginWrite, Flush, FlushFails,
       FinishWrite, SyncFails, Close, Gone, Compact, GC, BeginFold, EndFold, handle,
       ensureJournalFails, FoldRename, FoldRenameFails, FoldCloseFails, FoldReopenFails,
       FoldRemove, FoldStatFails, FoldRemoveFails, FoldHeader, FoldHeaderFails,
       PruneArchive, PruneCommit, PruneAbort, Crash, PowerLoss

\* A closed store that no prune holds can only be opened, claimed by a prune,
\* or lose power; its base stays.
LEMMA ClosedSteps ==
  ASSUME pc = "down", prune = {}, Next
  PROVE  base' = base /\ pc' \in {"down", "open"}
BY DEF Next, Open, Put, Delete, UpdateStats, UpdateStatsBatch, BeginWrite, Flush, FlushFails,
       FinishWrite, SyncFails, Close, Gone, Compact, GC, ensureJournalFails, FoldRename,
       FoldRenameFails, FoldCloseFails, FoldReopenFails,
       FoldRemove, FoldStatFails, FoldRemoveFails, FoldHeader, FoldHeaderFails,
       PruneArchive, PruneCommit, PruneAbort, Crash, PowerLoss

\* A reader's steps, and what they leave of the store.
LEMMA ReaderStep ==
  ASSUME ~Concurrent, TypeOK, Alone, Reader
  PROVE  TypeOK' /\ Alone' /\ Recovered' = Recovered
<1>g. base.gen \in Nat \ {0} /\ jrnl \in Journals
  BY DEF TypeOK
<1>u. ASSUME UNCHANGED vars PROVE TypeOK' /\ Recovered' = Recovered
  <2>1. TypeOK'
    BY <1>u, TypeStep
  <2> QED BY <1>u, <2>1, RecoveredSame DEF vars, disk
<1>1. CASE ReaderLoadBase
  <2>1. Alone'
    BY <1>1 DEF ReaderLoadBase, Alone, vars, disk, handle
  <2> QED BY <1>1, <1>u, <2>1 DEF ReaderLoadBase
<1>2. CASE ReaderReplay
  <2>1. Alone'
    BY <1>2 DEF ReaderReplay, Alone, vars, disk, handle
  <2> QED BY <1>2, <1>u, <2>1 DEF ReaderReplay
<1>3. CASE ReaderClose
  <2>1. Alone'
    BY <1>3 DEF ReaderClose, Alone, vars, disk, handle
  <2> QED BY <1>3, <1>u, <2>1 DEF ReaderClose
<1>4. CASE ReaderStash
  <2>1. jrnl.gen # base.gen /\ ~jw /\ base' = base /\ jrnl' = NoJournal
    BY <1>4 DEF ReaderStash, Alone
  <2>2. jrnl'.gen # base'.gen /\ jrnl' \in Journals
    BY <1>g, <2>1, FreshFields, FreshType DEF NoJournal
  <2>3. Recovered' = Recovered
    BY <2>1, <2>2, RecoveredBase, RecoveredBaseNext
  <2>4. TypeOK'
    BY <1>4, <2>2 DEF ReaderStash, TypeOK, handle
  <2>5. Alone'
    BY <1>4, <2>1 DEF ReaderStash, Alone, handle
  <2> QED BY <2>3, <2>4, <2>5
<1> QED BY <1>1, <1>2, <1>3, <1>4 DEF Reader

\* The writer waits for a reader that is loading.
LEMMA WriterStep ==
  ASSUME ~Concurrent, TypeOK, Alone, Writer
  PROVE  TypeOK' /\ Alone'
<1>1. Next /\ ~orphan' /\ UNCHANGED <<rpc, rgen>>
  BY DEF Writer
<1>2. TypeOK'
  BY <1>1, TypeStep
<1>3. pc' = "down" => ~jw'
  BY <1>1, DownHasNoWriter DEF Alone
<1>4. CASE rpc = "based"
  <2>1. pc = "down" /\ prune = {} /\ rgen = base.gen
    BY <1>4 DEF Alone
  <2>2. base' = base /\ pc' \in {"down", "open"}
    BY <1>1, <2>1, ClosedSteps
  <2>3. pc' = "down" /\ prune' = {}
    BY <1>4, <2>1, <2>2 DEF Writer
  <2> QED BY <1>1, <1>2, <1>3, <2>1, <2>2, <2>3 DEF Alone
<1>5. CASE rpc # "based"
  BY <1>1, <1>2, <1>3, <1>5 DEF Alone
<1> QED BY <1>4, <1>5

\* Both hold of every reachable state.
THEOREM ReadersAlone == ASSUME ~Concurrent PROVE RSpec => [](TypeOK /\ Alone)
<1>1. RInit => TypeOK /\ Alone
  BY InitType DEF RInit, Init, Alone
<1>2. TypeOK /\ Alone /\ [RNext]_rvars => TypeOK' /\ Alone'
  <2> SUFFICES ASSUME TypeOK, Alone, [RNext]_rvars PROVE TypeOK' /\ Alone'
    OBVIOUS
  <2>1. CASE Reader
    BY <2>1, ReaderStep
  <2>2. CASE Writer
    BY <2>2, WriterStep
  <2>3. CASE UNCHANGED rvars
    <3>1. TypeOK'
      BY <2>3, TypeStep DEF rvars
    <3> QED BY <2>3, <3>1 DEF rvars, vars, disk, handle, Alone
  <2> QED BY <2>1, <2>2, <2>3 DEF RNext
<1> QED BY <1>1, <1>2, PTL DEF RSpec

(***************************************************************************)
(* A read-only command that takes turns with the writer's process leaves   *)
(* no write side effects, whatever failures the writer met before and with *)
(* any number of slices: setting an unbound journal aside changes nothing  *)
(* the next open loads, and takes no journal from under a writer.          *)
(***************************************************************************)
THEOREM ReadersLeaveNoTrace == ASSUME ~Concurrent PROVE RSpec => ReaderChangesNothing
<1> DEFINE Quiet == Reader => Recovered' = Recovered /\ ~orphan'
<1>1. TypeOK /\ Alone => Quiet
  BY ReaderStep DEF Alone
<1> HIDE DEF Quiet
<1>2. RSpec => [][Quiet]_rvars
  BY <1>1, ReadersAlone, PTL DEF RSpec
<1> QED BY <1>2 DEF Quiet, ReaderChangesNothing
=============================================================================
