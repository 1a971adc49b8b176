----------------------------- MODULE SliceStore -----------------------------
(***************************************************************************)
(* The journalled slice store (kernel/slice/file_store.go) with the two    *)
(* maintenance passes that rewrite it: GC (maintenance.go) through the     *)
(* open handle, and prune (prune_store.go) under the exclusive lease.      *)
(*                                                                         *)
(* On disk are the base file and the journal.  The pair (size, mtime) that *)
(* binds a journal header to a base is a generation number, fresh for      *)
(* every base rename; generation 0 stands for "there is no journal file".  *)
(* One process at a time has the store open; every public operation runs   *)
(* under its mutex, so an operation is a sequence of steps that only a     *)
(* crash of the process can interrupt.  A step ends where a crash or an    *)
(* I/O error leaves the disk in a state the next step would have changed.  *)
(***************************************************************************)
EXTENDS SliceRecords, FiniteSets

CONSTANTS SyncEvery,      \* syncEveryOps: records between two fsyncs
          CompactMinOps,  \* floor of the geometric compaction trigger
          MaxLines,       \* bound: records one journal may hold
          MaxGen,         \* bound: base generations
          Faults          \* the failures a run lets happen

AllFaults == {"rename", "remove", "header", "power",  \* handled by the code
              "tear", "sync", "stat", "reopen"}       \* see unsafe below

ASSUME StoreAssumption ==
  /\ IsFiniteSet(Ids)
  /\ SyncEvery \in Nat \ {0}
  /\ CompactMinOps \in Nat \ {0}
  /\ MaxLines \in Nat
  /\ MaxGen \in Nat
  /\ Faults \subseteq AllFaults

VARIABLES
  base,      \* the base file: its generation and its content
  jrnl,      \* the journal file: see Journals
  archive,   \* slices the latest maintenance pass wrote and synced to its archive
  prune,     \* IDs a prune holding the exclusive lease is about to delete
  pc,        \* where the open handle is; "down" when there is none
  mem,       \* entries: what the handle serves
  hgen,      \* baseSize/baseMtime: the generation the handle believes in
  jw,        \* a journal writer is attached
  jOps,      \* jOps
  sinceSync, \* opsSinceSync
  pend,      \* records in the writer's buffer, not yet handed to the kernel
  kept,      \* what the fold in progress is writing as the new base
  limbo,     \* ghost: IDs the base has lost to a GC whose fold then failed
  unsafe     \* ghost: a failure the code does not recover from has happened

disk == <<base, jrnl, archive>>
handle == <<mem, hgen, jw, jOps, sinceSync, pend, kept, limbo>>
vars == <<disk, prune, pc, handle, unsafe>>

(***************************************************************************)
(* open: the last line has no newline, so the next append continues it.    *)
(* synced: how many leading lines an fsync has covered.                    *)
(***************************************************************************)
Journals ==
  {j \in [gen : Nat, lines : Seq(Lines), open : BOOLEAN, synced : Nat] :
     /\ j.synced <= Len(j.lines)
     /\ j.open => j.lines # <<>>}

Journal(g, ls, o, s) == [gen |-> g, lines |-> ls, open |-> o, synced |-> s]

Fresh(g)  == Journal(g, <<>>, FALSE, 0)
NoJournal == Fresh(0)

\* Stand-in for Bound that replays a journal whatever base it belongs to.
BoundToAnyBase(b, j) == j.lines

\* The header check at open: a journal of another generation is set aside.
Bound(b, j) == IF j.gen = b.gen THEN j.lines ELSE <<>>

\* What the next open will load.
Recovered == Replay(base.m, Bound(base, jrnl))

Live(m) == {id \in Ids : m[id] # Absent}

(***************************************************************************)
(* Appending to the file.  A record appended to an unterminated line makes *)
(* one line of two, and that line does not decode.                         *)
(***************************************************************************)
Written(j, ls) ==
  IF ls = <<>> THEN j
  ELSE Journal(j.gen,
               IF j.open
               THEN SubSeq(j.lines, 1, Len(j.lines) - 1) \o <<Garbage>> \o Tail(ls)
               ELSE j.lines \o ls,
               FALSE, j.synced)

\* A write cut short inside a record leaves a fragment, or the whole record
\* without its newline.
Torn(j, ls, rec) ==
  {Journal(j.gen, Written(j, Append(ls, line)).lines, TRUE, j.synced) :
     line \in {Garbage, rec}}

\* The journals an interrupted flush of pend can leave.
PartlyWritten(ls) ==
  {Written(jrnl, SubSeq(ls, 1, k)) : k \in 0 .. Len(ls)}
    \cup IF "tear" \in Faults
         THEN UNION {Torn(jrnl, SubSeq(ls, 1, k - 1), ls[k]) : k \in 1 .. Len(ls)}
         ELSE {}

\* The journals a power loss can leave: what was synced, and any prefix of
\* what was not.
Truncated(j) ==
  {Journal(j.gen, SubSeq(j.lines, 1, k), j.open /\ k = Len(j.lines), j.synced) :
     k \in j.synced .. Len(j.lines)}
    \cup IF "tear" \in Faults
         THEN UNION {Torn(Journal(j.gen, SubSeq(j.lines, 1, k - 1), FALSE, j.synced),
                          <<>>, j.lines[k]) : k \in j.synced + 1 .. Len(j.lines)}
         ELSE {}

Synced(j) == Journal(j.gen, j.lines, j.open, Len(j.lines))

-----------------------------------------------------------------------------
Init ==
  /\ base = [gen |-> 1, m |-> Empty]
  /\ jrnl = NoJournal
  /\ archive = {}
  /\ prune = {}
  /\ pc = "down"
  /\ mem = Empty /\ hgen = 0 /\ jw = FALSE /\ jOps = 0 /\ sinceSync = 0
  /\ pend = <<>> /\ kept = Empty /\ limbo = {}
  /\ unsafe = FALSE

\* The process is gone, and what it held in memory with it.
Gone ==
  /\ pc' = "down"
  /\ mem' = Empty /\ hgen' = 0 /\ jw' = FALSE /\ jOps' = 0 /\ sinceSync' = 0
  /\ pend' = <<>> /\ kept' = Empty /\ limbo' = {}

\* NewFileStore: take the shared lease, load the base, replay a journal bound
\* to it; a journal that is not is renamed aside and the base wins.
Open ==
  /\ pc = "down"
  /\ prune = {}
  /\ pc' = "open"
  /\ mem' = Recovered
  /\ hgen' = base.gen
  /\ jw' = (jrnl.gen = base.gen)
  /\ jOps' = Len(Bound(base, jrnl))
  /\ jrnl' = IF jrnl.gen = base.gen THEN jrnl ELSE NoJournal
  /\ sinceSync' = 0
  /\ UNCHANGED <<base, archive, prune, pend, kept, limbo, unsafe>>

-----------------------------------------------------------------------------
(***************************************************************************)
(* The mutations.  Each ensures a journal, appends its records to the      *)
(* buffer, flushes, and only then changes memory.                          *)
(***************************************************************************)

\* Stand-in for ensureJournal without the early return for an attached writer.
ensureJournalAlwaysNew ==
  /\ jw' = TRUE
  /\ jrnl' = Fresh(hgen)
  /\ jOps' = 0

ensureJournal ==
  /\ jw' = TRUE
  /\ jrnl' = IF jw THEN jrnl ELSE Fresh(hgen)
  /\ jOps' = IF jw THEN jOps ELSE 0

BeginWrite(recs) ==
  /\ pc = "open"
  /\ (IF jw THEN Len(jrnl.lines) ELSE 0) + Len(recs) <= MaxLines
  /\ ensureJournal
  /\ pend' = recs
  /\ pc' = "write"
  /\ UNCHANGED <<base, archive, prune, mem, hgen, sinceSync, kept, limbo, unsafe>>

\* The new header is in place but opening it for append fails: the mutation is
\* refused, and the next one will replace the header.
ensureJournalFails ==
  /\ pc = "open"
  /\ "header" \in Faults
  /\ ~jw
  /\ jrnl' = Fresh(hgen)
  /\ UNCHANGED <<base, archive, prune, pc, handle, unsafe>>

Put(id, p) == BeginWrite(<<PutRec(id, NewEntry(EnforceAdmission(p)))>>)

\* A missing ID is a no-op that writes nothing.
Delete(id) == mem[id] # Absent /\ BeginWrite(<<DelRec(id)>>)

UpdateStats(id, d) == mem[id] # Absent /\ BeginWrite(<<StatRec(id, d)>>)

\* One flush for the deltas of several IDs; IDs without an entry are skipped.
UpdateStatsBatch(ids, d) ==
  /\ ids \subseteq Live(mem)
  /\ \E order \in [1 .. Cardinality(ids) -> ids] :
       /\ \A i, k \in 1 .. Cardinality(ids) : i # k => order[i] # order[k]
       /\ BeginWrite([i \in 1 .. Cardinality(ids) |-> StatRec(order[i], d[order[i]])])

\* bufio hands the records to the kernel.
Flush ==
  /\ pc = "write"
  /\ jrnl' = Written(jrnl, pend)
  /\ unsafe' = (unsafe \/ jrnl.open)
  /\ jOps' = jOps + Len(pend)
  /\ sinceSync' = sinceSync + Len(pend)
  /\ pc' = "flushed"
  /\ UNCHANGED <<base, archive, prune, mem, hgen, jw, pend, kept, limbo>>

\* Stand-in for FlushFails whose handle accepts further writes.
FlushFailsNotSticky ==
  /\ pc = "write"
  /\ "tear" \in Faults
  /\ jrnl' \in PartlyWritten(pend)
  /\ unsafe' = (unsafe \/ (jrnl.open /\ jrnl' # jrnl))
  /\ pc' = "open"
  /\ pend' = <<>>
  /\ UNCHANGED <<base, archive, prune, mem, hgen, jw, jOps, sinceSync, kept, limbo>>

\* A short or failed write: bufio's error is sticky, so this handle refuses
\* every later mutation.
FlushFails ==
  /\ pc = "write"
  /\ "tear" \in Faults
  /\ jrnl' \in PartlyWritten(pend)
  /\ unsafe' = (unsafe \/ (jrnl.open /\ jrnl' # jrnl))
  /\ pc' = "broken"
  /\ pend' = <<>>
  /\ UNCHANGED <<base, archive, prune, mem, hgen, jw, jOps, sinceSync, kept, limbo>>

\* fsync when the batch is due (or, by bytes, at any time); then the records
\* take effect in memory; then the geometric trigger (by operations, or by
\* bytes at any time) may start an identity fold within the same call.
FinishWrite ==
  /\ pc = "flushed"
  /\ mem' = Replay(mem, pend)
  /\ \E sync, fold \in BOOLEAN :
       /\ sinceSync >= SyncEvery => sync
       /\ jOps >= CompactMinOps /\ jOps >= Cardinality(Live(mem')) => fold
       /\ jrnl' = IF sync THEN Synced(jrnl) ELSE jrnl
       /\ sinceSync' = IF sync THEN 0 ELSE sinceSync
       /\ limbo' = limbo \ {pend[i].id : i \in {k \in DOMAIN pend : pend[k].op # "stat"}}
       /\ pc' = IF fold THEN "fold" ELSE "open"
       /\ kept' = IF fold THEN mem' ELSE Empty
  /\ pend' = <<>>
  /\ UNCHANGED <<base, archive, prune, hgen, jw, jOps, unsafe>>

\* The fsync fails after the flush: the caller gets an error and memory does
\* not change, but the records are in the file.
SyncFails ==
  /\ pc = "flushed"
  /\ "sync" \in Faults
  /\ unsafe' = TRUE
  /\ pc' = "open"
  /\ pend' = <<>>
  /\ UNCHANGED <<disk, prune, mem, hgen, jw, jOps, sinceSync, kept, limbo>>

\* Close: flush, fsync, release the lease.  The fsync may fail.
Close ==
  /\ pc \in {"open", "broken"}
  /\ jrnl' \in IF ~jw THEN {jrnl}
               ELSE IF pc = "broken" \/ "sync" \in Faults THEN {jrnl, Synced(jrnl)}
               ELSE {Synced(jrnl)}
  /\ Gone
  /\ UNCHANGED <<base, archive, prune, unsafe>>

-----------------------------------------------------------------------------
(***************************************************************************)
(* compactLocked: write the live slices to a temporary base and fsync it   *)
(* (pc = "fold"), rename it over the base ("renamed"), read the new        *)
(* generation and remove the old journal ("removed"), create the new one.  *)
(***************************************************************************)
BeginFold(m) ==
  /\ pc' = "fold"
  /\ kept' = m
  /\ UNCHANGED <<base, jrnl, prune, mem, hgen, jw, jOps, sinceSync, pend, limbo, unsafe>>

\* Compact: nothing to do when the journal holds no record.
Compact ==
  /\ pc = "open"
  /\ jOps # 0
  /\ BeginFold(mem)
  /\ UNCHANGED archive

\* Stand-in for GC that evicts without archiving.
GCWithoutArchive(evict) ==
  /\ pc = "open"
  /\ archive' = archive
  /\ BeginFold(Drop(mem, evict))

\* GC at a process boundary: archive the slices chosen for eviction and sync
\* the archive, then fold without them.  The choice itself is EvictionOrder's.
GC(evict) ==
  /\ pc = "open"
  /\ archive' = {<<id, mem[id]>> : id \in evict}
  /\ BeginFold(Drop(mem, evict))

\* Back to the caller, with an error if the fold failed.
EndFold ==
  /\ pc' = "open"
  /\ kept' = Empty
  /\ UNCHANGED <<base, archive, prune, pend>>

\* The base swap is the commit point of a fold.
FoldRename ==
  /\ pc = "fold"
  /\ base.gen < MaxGen
  /\ base' = [gen |-> base.gen + 1, m |-> kept]
  /\ jw' = FALSE
  /\ limbo' = {id \in Ids : kept[id] # mem[id]}
  /\ pc' = "renamed"
  /\ UNCHANGED <<jrnl, archive, prune, mem, hgen, jOps, sinceSync, pend, kept, unsafe>>

\* Stand-in for FoldRenameFails that leaves the closed journal detached.
FoldRenameFailsWithoutReopen ==
  /\ pc = "fold"
  /\ "rename" \in Faults
  /\ EndFold
  /\ jw' = FALSE
  /\ UNCHANGED <<jrnl, mem, hgen, jOps, sinceSync, limbo, unsafe>>

\* Anything up to the rename fails: the temporary file goes, and a journal
\* whose descriptor was already closed is reopened, not recreated.
FoldRenameFails ==
  /\ pc = "fold"
  /\ "rename" \in Faults
  /\ EndFold
  /\ UNCHANGED <<jrnl, mem, hgen, jw, jOps, sinceSync, limbo, unsafe>>

\* Closing the old journal's descriptor fails: it is closed all the same and
\* stays attached, so every later mutation or fold of this handle fails.
FoldCloseFails ==
  /\ pc = "fold"
  /\ "rename" \in Faults
  /\ jw
  /\ pc' = "broken"
  /\ kept' = Empty
  /\ UNCHANGED <<disk, prune, mem, hgen, jw, jOps, sinceSync, pend, limbo, unsafe>>

\* The rename fails and so does reopening the journal.
FoldReopenFails ==
  /\ pc = "fold"
  /\ {"rename", "reopen"} \subseteq Faults
  /\ jw
  /\ EndFold
  /\ jw' = FALSE
  /\ unsafe' = TRUE
  /\ UNCHANGED <<jrnl, mem, hgen, jOps, sinceSync, limbo>>

\* Stat of the new base succeeds and the old journal is removed.
FoldRemove ==
  /\ pc = "renamed"
  /\ hgen' = base.gen
  /\ jrnl' = NoJournal
  /\ pc' = "removed"
  /\ UNCHANGED <<base, archive, prune, mem, jw, jOps, sinceSync, pend, kept, limbo, unsafe>>

\* Stat of the new base fails: the handle keeps the old generation.
FoldStatFails ==
  /\ pc = "renamed"
  /\ "stat" \in Faults
  /\ EndFold
  /\ unsafe' = TRUE
  /\ UNCHANGED <<jrnl, mem, hgen, jw, jOps, sinceSync, limbo>>

\* The old journal cannot be removed.
FoldRemoveFails ==
  /\ pc = "renamed"
  /\ "remove" \in Faults
  /\ EndFold
  /\ hgen' = base.gen
  /\ UNCHANGED <<jrnl, mem, jw, jOps, sinceSync, limbo, unsafe>>

\* The new header is renamed into place and memory becomes what was kept.
FoldHeader ==
  /\ pc = "removed"
  /\ ensureJournal
  /\ sinceSync' = 0
  /\ mem' = kept
  /\ limbo' = {}
  /\ EndFold
  /\ UNCHANGED <<hgen, unsafe>>

\* The new header cannot be created, or not opened: the next write will try
\* again, and until then memory keeps what a GC has evicted from the base.
FoldHeaderFails ==
  /\ pc = "removed"
  /\ "header" \in Faults
  /\ EndFold
  /\ jrnl' \in {jrnl, Fresh(hgen)}
  /\ UNCHANGED <<mem, hgen, jw, jOps, sinceSync, limbo, unsafe>>

-----------------------------------------------------------------------------
(***************************************************************************)
(* pruneFile with Apply: the exclusive lease excludes every open handle.   *)
(* The strict load refuses a journal it would have to skip lines of or set *)
(* aside.  Which slices are candidates is a policy and any choice is       *)
(* allowed here.                                                           *)
(***************************************************************************)
PruneArchive(ids) ==
  /\ pc = "down"
  /\ prune = {}
  /\ jrnl.gen \in {0, base.gen}
  /\ \A i \in DOMAIN jrnl.lines : jrnl.lines[i] # Garbage
  /\ ids # {} /\ ids \subseteq Live(Recovered)
  /\ Len(jrnl.lines) + Cardinality(ids) <= MaxLines
  /\ archive' = {<<id, Recovered[id]>> : id \in ids}
  /\ prune' = ids
  /\ UNCHANGED <<base, jrnl, pc, handle, unsafe>>

\* The old journal, its last line terminated, plus one del per candidate, is
\* renamed over the journal in one step.
PruneCommit ==
  /\ prune # {}
  /\ \E order \in [1 .. Cardinality(prune) -> prune] :
       /\ \A i, k \in 1 .. Cardinality(prune) : i # k => order[i] # order[k]
       /\ jrnl' = LET ls == jrnl.lines \o [i \in 1 .. Cardinality(prune) |-> DelRec(order[i])]
                  IN  Journal(base.gen, ls, FALSE, Len(ls))
  /\ prune' = {}
  /\ UNCHANGED <<base, archive, pc, handle, unsafe>>

\* The prune fails, or its process dies, before the commit.
PruneAbort ==
  /\ prune # {}
  /\ prune' = {}
  /\ UNCHANGED <<disk, pc, handle, unsafe>>

-----------------------------------------------------------------------------
\* The process dies; a flush in progress has reached the file in part.
Crash ==
  /\ pc # "down"
  /\ jrnl' \in IF pc = "write" THEN PartlyWritten(pend) ELSE {jrnl}
  /\ unsafe' = (unsafe \/ (jrnl.open /\ jrnl' # jrnl))
  /\ Gone
  /\ UNCHANGED <<base, archive, prune>>

\* The machine dies; renames are durable in order, file data up to its fsync.
PowerLoss ==
  /\ "power" \in Faults
  /\ jrnl' \in Truncated(jrnl)
  /\ prune' = {}
  /\ Gone
  /\ UNCHANGED <<base, archive, unsafe>>

Next ==
  \/ Open
  \/ \E id \in Ids, p \in Payloads : Put(id, p)
  \/ \E id \in Ids : Delete(id)
  \/ \E id \in Ids, d \in Deltas : UpdateStats(id, d)
  \/ \E ids \in SUBSET Ids \ {{}}, d \in [Ids -> Deltas] : UpdateStatsBatch(ids, d)
  \/ ensureJournalFails \/ Flush \/ FlushFails \/ FinishWrite \/ SyncFails \/ Close
  \/ Compact
  \/ \E evict \in SUBSET Live(mem) : GC(evict)
  \/ FoldRename \/ FoldRenameFails \/ FoldCloseFails \/ FoldReopenFails
  \/ FoldRemove \/ FoldStatFails \/ FoldRemoveFails
  \/ FoldHeader \/ FoldHeaderFails
  \/ \E ids \in SUBSET Ids : PruneArchive(ids)
  \/ PruneCommit \/ PruneAbort
  \/ Crash \/ PowerLoss

Spec == Init /\ [][Next]_vars

-----------------------------------------------------------------------------
\* Every variable keeps its shape; in particular no slice the admission
\* matrix forbids (a tool pattern or a result in User scope) is ever in
\* memory, in the base or in the journal, whoever called Put.
TypeOK ==
  /\ base \in [gen : Nat \ {0}, m : States]
  /\ jrnl \in Journals
  /\ archive \subseteq Ids \X Entries
  /\ prune \subseteq Ids
  /\ pc \in {"down", "open", "write", "flushed", "broken", "fold", "renamed", "removed"}
  /\ mem \in States /\ kept \in States
  /\ hgen \in Nat /\ jOps \in Nat /\ sinceSync \in Nat
  /\ jw \in BOOLEAN /\ unsafe \in BOOLEAN
  /\ pend \in Seq(Recs)
  /\ limbo \subseteq Ids

(***************************************************************************)
(* Between operations, what the open handle serves is what a restart would *)
(* load: no acknowledged write depends on memory alone, and the disk holds *)
(* nothing the handle does not know of.  The one exception is a slice a    *)
(* GC evicted from the base whose fold then failed: memory still has it.   *)
(* This covers every order of writes, folds, failed folds, prunes, crashes *)
(* and restarts, as long as none of the four failures recorded in unsafe   *)
(* has happened.                                                           *)
(***************************************************************************)
ReloadSame ==
  ~unsafe /\ pc \in {"open", "write"} =>
    \A id \in Ids : \/ mem[id] = Recovered[id]
                    \/ id \in limbo /\ Recovered[id] = Absent

(***************************************************************************)
(* Archive before delete: when maintenance (a GC's base swap or a prune's  *)
(* journal swap) makes a slice unrecoverable, the very version that would  *)
(* have been recovered is already in that pass's archive file.             *)
(***************************************************************************)
ArchivedFirst ==
  [][~unsafe /\ (base' # base \/ (prune # {} /\ Len(jrnl'.lines) > Len(jrnl.lines))) =>
       \A id \in Ids : Recovered[id] # Absent /\ Recovered'[id] = Absent =>
                         <<id, Recovered[id]>> \in archive]_vars

(***************************************************************************)
(* The store implements a durable map.  The refinement mapping reads only  *)
(* the disk: the states after the synced prefix of the bound journal, and  *)
(* after each further record.  Thus every step of every operation, crash   *)
(* and failed fold included, either commits whole records in order, or     *)
(* makes what is there durable, or evicts (and may take back an eviction   *)
(* whose fold failed half-way), or forgets a suffix that was never synced. *)
(* Which step may do which of these is KeptUnlessPowerLoss, below.         *)
(***************************************************************************)
Durable ==
  LET ls == Bound(base, jrnl)
      s  == IF jrnl.gen = base.gen THEN jrnl.synced ELSE 0
  IN  [i \in 1 .. Len(ls) - s + 1 |-> Replay(base.m, SubSeq(ls, 1, s + i - 1))]

Abs == INSTANCE SliceStoreAbs WITH hist <- Durable, half <- limbo

ImplementsAbs == Abs!ASpec

(***************************************************************************)
(* A record that reached the file is forgotten by nothing but a loss of    *)
(* power, and taken out by nothing but the commit of a maintenance pass:   *)
(* the base swap of a fold or the journal swap of a prune.  On every other *)
(* step, a killed process, an error on any path of a fold, a close, a      *)
(* restart and the setting aside of a stale journal included, the line of  *)
(* durable states only grows at its end or has its older part settled.     *)
(***************************************************************************)
MaintenanceCommits == FoldRename \/ PruneCommit

KeptUnlessPowerLoss ==
  [][~PowerLoss => [\/ Abs!Commit \/ Abs!Settle
                    \/ MaintenanceCommits /\ Abs!Maintain]_Durable]_vars

(***************************************************************************)
(* What the journal's design document and its torn-tail test say: a write  *)
(* that was acknowledged survives a crash of the process, torn tail or     *)
(* not.                                                                    *)
(***************************************************************************)
AcknowledgedSurvives == pc = "open" => mem = Recovered
=============================================================================
