---------------------------- MODULE SliceReaders ----------------------------
(***************************************************************************)
(* A read-only command (lookup, search, dashboard) in a process of its own *)
(* beside the process of SliceStore.  It opens the store with the same     *)
(* NewFileStore, under the same kind of shared lease, so it can open while *)
(* the writer is at work, and its load is not atomic: it reads the base    *)
(* through one descriptor and opens the journal by name afterwards.        *)
(***************************************************************************)
EXTENDS SliceStore

CONSTANT Concurrent  \* readers may load while the writer's handle is open

ASSUME ConcurrentAssumption == Concurrent \in BOOLEAN

VARIABLES rpc,     \* the reader: "idle", "based" (base read) or "open"
          rgen,    \* the generation of the base it read
          orphan   \* the writer's journal descriptor no longer has a name

rvars == <<vars, rpc, rgen, orphan>>

RInit == Init /\ rpc = "idle" /\ rgen = 0 /\ orphan = FALSE

\* The shared lease is refused only while a prune holds the exclusive one.
ReaderLoadBase ==
  /\ rpc = "idle"
  /\ prune = {}
  /\ Concurrent \/ pc = "down"
  /\ rpc' = "based"
  /\ rgen' = base.gen
  /\ UNCHANGED <<vars, orphan>>

\* Stand-in for ReaderReplay that sets a bound journal aside as well.
ReaderReplayAsStash ==
  /\ rpc = "based"
  /\ jrnl.gen \in {0, rgen}
  /\ rpc' = "open"
  /\ jrnl' = NoJournal
  /\ UNCHANGED <<base, archive, prune, pc, handle, unsafe, rgen, orphan>>

\* The journal is there and bound to the base just read, or is not there.
ReaderReplay ==
  /\ rpc = "based"
  /\ jrnl.gen \in {0, rgen}
  /\ rpc' = "open"
  /\ UNCHANGED <<vars, rgen, orphan>>

\* The journal is bound to another base: stashJournal renames it aside.
ReaderStash ==
  /\ rpc = "based"
  /\ jrnl.gen \notin {0, rgen}
  /\ rpc' = "open"
  /\ jrnl' = NoJournal
  /\ orphan' = jw
  /\ UNCHANGED <<base, archive, prune, pc, handle, unsafe, rgen>>

ReaderClose ==
  /\ rpc \in {"based", "open"}
  /\ rpc' = "idle"
  /\ rgen' = 0
  /\ UNCHANGED <<vars, orphan>>

Reader == ReaderLoadBase \/ ReaderReplay \/ ReaderStash \/ ReaderClose

\* The writer's process, and prune, which waits for every shared lease.  What
\* an orphaned journal goes on to lose is not followed further.
Writer ==
  /\ ~orphan
  /\ Next
  /\ prune = {} /\ prune' # {} => rpc = "idle"
  /\ ~Concurrent /\ pc = "down" /\ pc' = "open" => rpc # "based"
  /\ UNCHANGED <<rpc, rgen, orphan>>

RNext == Reader \/ Writer

RSpec == RInit /\ [][RNext]_rvars

(***************************************************************************)
(* Read-only commands leave the store as it is: no step of a reader        *)
(* changes what the next open will load, nor takes the journal from under  *)
(* a writer that is appending to it.  (A reader may rename a journal that  *)
(* belongs to no base aside, as the next writer's open would.)             *)
(***************************************************************************)
ReaderChangesNothing ==
  [][Reader => Recovered' = Recovered /\ ~orphan']_rvars
=============================================================================
