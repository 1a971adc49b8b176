---------------------------- MODULE SessionInbox ----------------------------
(***************************************************************************)
(* The durable session inbox on disk (harness/sessioninbox): a manifest of *)
(* entries, one body file per entry, and the processes that have the same  *)
(* session open.                                                           *)
(*                                                                         *)
(* Every operation takes the inbox's file lock, reloads the manifest and   *)
(* runs its transaction: write the new body, replace the manifest          *)
(* atomically, remove the old body.  Nobody sees the disk in between       *)
(* unless the process dies, so an operation is one action whose outcomes   *)
(* (Transact) are the points where it can fail or die: in the load, whose  *)
(* own commit may fail, and before and after its commit.  The three        *)
(* in-flight states are one here: the store never tells them apart.  The   *)
(* order of entries, their intent and sizes are left out; InboxDispatch    *)
(* models the order.  Bodies stay readable; only the manifest is damaged.  *)
(***************************************************************************)
EXTENDS Naturals, Sequences, FiniteSets

CONSTANTS
    Procs,          \* processes with the session open
    Gone,           \* the run id of a process that is no more
    Keys,           \* idempotency keys of the clients' requests
    NoKey,          \* a request without one
    MaxStems,       \* bound: body files ever written
    MaxItems,       \* Limits.MaxItems
    MaxReceipts,    \* maxIdempotencyReceipts
    MaxCorruptions  \* bound: times the manifest becomes unreadable

ASSUME InboxAssumption ==
    /\ Gone \notin Procs /\ NoKey \notin Keys /\ IsFiniteSet(Keys)
    /\ MaxStems \in Nat /\ MaxItems \in Nat /\ MaxReceipts \in Nat
    /\ MaxCorruptions \in Nat

\* A body file's name, and the id of an entry: the name of its first body.
Stems == 1 .. MaxStems
NoStem == 0

Pending == {"queued", "blocked", "uncertain"}
States == Pending \cup {"inflight", "none"}

VARIABLES
    man,        \* manifest.json
    file,       \* it is missing, readable, or corrupt: it cannot be decoded
    blobs,      \* the body files
    aside,      \* body files moved to the quarantine directory
    hold,       \* the entries each process is executing (volatile)
    stems,      \* body files written so far
    broken,     \* corruptions so far
    \* history
    live,       \* current bodies of entries accepted and not yet finished
    stranded,   \* those of a corrupt manifest that was moved away unsalvaged
    effects,    \* requests with this key that took effect
    forgotten,  \* keys whose receipt expired, was pruned or was lost
    by,         \* the process that put an entry in flight
    misacked    \* an acknowledgement removed another process's execution

vars == <<man, file, blobs, aside, hold, stems, broken, live, stranded, effects,
          forgotten, by, misacked>>

emptyManifest ==
    [run |-> Gone, paused |-> FALSE,
     st |-> [i \in Stems |-> "none"], blob |-> [i \in Stems |-> NoStem],
     key |-> [k \in Keys |-> NoStem], receipts |-> <<>>]

Init ==
    /\ man = emptyManifest /\ file = "missing"
    /\ blobs = {} /\ aside = {} /\ hold = [p \in Procs |-> {}]
    /\ stems = 0 /\ broken = 0
    /\ live = {} /\ stranded = {} /\ effects = [k \in Keys |-> 0] /\ forgotten = {}
    /\ by = [i \in Stems |-> Gone] /\ misacked = FALSE

Entries(m) == {i \in Stems : m.st[i] # "none"}
Bodies(m) == {m.blob[i] : i \in Entries(m)}

-----------------------------------------------------------------------------
(* loadOrInitLocked *)

\* A manifest another run wrote: what was in flight there is uncertain, and an
\* inbox with entries waits for its user.
RecoveredPauseOnly(m) == [m EXCEPT !.paused = m.paused \/ Entries(m) # {}]
Recovered(m) ==
    [m EXCEPT !.st = [i \in Stems |-> IF m.st[i] = "inflight" THEN "uncertain" ELSE m.st[i]],
              !.paused = m.paused \/ Entries(m) # {}]

\* An unreadable one: every body on disk becomes an uncertain entry.
Salvaged ==
    [emptyManifest EXCEPT !.st = [i \in Stems |-> IF i \in blobs THEN "uncertain" ELSE "none"],
                          !.blob = [i \in Stems |-> IF i \in blobs THEN i ELSE NoStem],
                          !.paused = TRUE]

\* What process p works from, and whether loading it has to be committed.  A
\* missing manifest is read as the empty one, which man is then.
Loaded(p) ==
    LET m == IF file = "corrupt" THEN Salvaged
             ELSE IF man.run # p THEN Recovered(man) ELSE man
    IN  [m EXCEPT !.run = p]
LoadCommits(p) == file = "corrupt" \/ (man.run # p /\ Entries(man) # {})

\* gcOrphansLocked, when there was a manifest and the load committed nothing:
\* orphans are quarantined.
Kept(p) == IF LoadCommits(p) \/ file = "missing" THEN blobs ELSE blobs \cap Bodies(man)

OnDisk(p) == IF LoadCommits(p) THEN Loaded(p) ELSE man

\* A dead process comes back with a new run id and executes nothing.
Dies(p, m) ==
    /\ man' = [m EXCEPT !.run = IF @ = p THEN Gone ELSE @]
    /\ hold' = [hold EXCEPT ![p] = {}]

history == <<live, effects, forgotten, by>>

\* The load's own commit fails, or the process dies before it.  A corrupt manifest
\* is moved away before what can be salvaged is committed: it may be gone.
LoadFails(p) ==
    /\ LoadCommits(p)
    /\ \E left \in {file} \cup (IF file = "corrupt" THEN {"missing"} ELSE {}) :
         LET m == IF left = file THEN man ELSE emptyManifest
         IN  /\ file' = left
             /\ stranded' = IF left = file THEN stranded ELSE stranded \cup live
             /\ \/ man' = m /\ UNCHANGED hold
                \/ Dies(p, m)
    /\ UNCHANGED <<blobs, aside, history>>

\* The load alone; held is what p executes afterwards.  add are bodies written
\* after it, which a transaction that fails takes back unless it dies.
Loads(p, add, held) ==
    /\ file' = IF LoadCommits(p) THEN "readable" ELSE file
    /\ aside' = aside \cup (blobs \ Kept(p))
    /\ \/ /\ man' = OnDisk(p) /\ blobs' = Kept(p)
          /\ hold' = [hold EXCEPT ![p] = held]
       \/ /\ Dies(p, OnDisk(p)) /\ blobs' = Kept(p) \cup add
    /\ UNCHANGED <<stranded, history>>

\* The manifest next replaces the loaded one, after the bodies add were written;
\* then, unless the process dies, the bodies drop are removed.
Commits(p, next, add, drop, held, Done) ==
    /\ file' = "readable"
    /\ aside' = aside \cup (blobs \ Kept(p))
    /\ \/ /\ man' = next /\ blobs' = (Kept(p) \cup add) \ drop
          /\ hold' = [hold EXCEPT ![p] = held]
       \/ /\ Dies(p, next) /\ blobs' = Kept(p) \cup add
    /\ Done /\ UNCHANGED stranded

\* Stand-in for Transact that removes the old bodies first.
TransactDropFirst(p, next, add, drop, held, Done) ==
    /\ UNCHANGED broken
    /\ \/ Commits(p, next, add, drop, held, Done)
       \/ /\ Dies(p, OnDisk(p)) /\ blobs' = (Kept(p) \cup add) \ drop
          /\ file' = IF LoadCommits(p) THEN "readable" ELSE file
          /\ aside' = aside \cup (blobs \ Kept(p))
          /\ UNCHANGED <<stranded, history>>

\* The outcomes of p's transaction, from the loaded manifest to next: it is done,
\* and Done is what history records; the manifest cannot be replaced, or the
\* process dies before that; the load itself fails.
Transact(p, next, add, drop, held, Done) ==
    /\ UNCHANGED broken
    /\ \/ Commits(p, next, add, drop, held, Done)
       \/ Loads(p, add, hold[p])
       \/ LoadFails(p)

\* An operation that loads, and finds nothing to change.
LoadOnly(p, held) == UNCHANGED broken /\ (Loads(p, {}, held) \/ LoadFails(p))

\* The transactions that write no body and finish no entry.
Rewrite(p, next) == Transact(p, next, {}, {}, hold[p], UNCHANGED history)
                    /\ UNCHANGED <<stems, misacked>>

-----------------------------------------------------------------------------
(* Enqueue and update *)

SetState(m, i, s) == [m EXCEPT !.st[i] = s]
Keyed(m, k, i) == IF k = NoKey THEN m ELSE [m EXCEPT !.key[k] = i]
ReceiptOf(m, k) == {m.receipts[n].id : n \in {n \in DOMAIN m.receipts : m.receipts[n].key = k}}
TookEffect(k) == effects' = [j \in Keys |-> IF j = k /\ effects[j] < 2 THEN effects[j] + 1 ELSE effects[j]]

\* idempotentReceiptLocked: the entry this key is bound to, or was.
Replayed(m, k) == k # NoKey /\ (m.key[k] # NoStem \/ ReceiptOf(m, k) # {})

\* Enqueue; a redelivered request changes nothing.
Enqueue(p, k) ==
    LET m == Loaded(p)
        i == stems + 1
        next == Keyed([SetState(m, i, "queued") EXCEPT !.blob[i] = i], k, i)
    IN  /\ stems < MaxStems
        /\ ~Replayed(m, k)
        /\ Cardinality(Entries(m)) < MaxItems
        /\ stems' = i /\ UNCHANGED misacked
        /\ Transact(p, next, {i}, {}, hold[p],
                    /\ live' = live \cup {i}
                    /\ TookEffect(k)
                    /\ UNCHANGED <<forgotten, by>>)

\* UpdateItemWithIdempotency: a new body; a second request may be merged into
\* the entry under its own key.  A key already used binds nothing again.
Update(p, i, k) ==
    LET m == Loaded(p)
        b == stems + 1
        s == IF m.st[i] = "blocked" THEN "queued" ELSE m.st[i]
        next == Keyed([SetState(m, i, s) EXCEPT !.blob[i] = b], k, i)
    IN  /\ stems < MaxStems
        /\ m.st[i] \in Pending
        /\ ~Replayed(m, k)
        /\ stems' = b /\ UNCHANGED misacked
        /\ Transact(p, next, {b}, {m.blob[i]}, hold[p],
                    /\ live' = (live \ {m.blob[i]}) \cup {b}
                    /\ TookEffect(k)
                    /\ UNCHANGED <<forgotten, by>>)

-----------------------------------------------------------------------------
(* Removing entries *)

\* rememberReceipt, pruneReceipts and removeItem: the keys of a removed entry
\* leave receipts, the oldest of which are dropped beyond the limit.
KeysFor(m, S) == {k \in Keys : m.key[k] \in S}
Orderings(S) == {q \in [1 .. Cardinality(S) -> S] : \A a, b \in DOMAIN q : q[a] = q[b] => a = b}
WithReceipts(m, q) == m.receipts \o [n \in DOMAIN q |-> [key |-> q[n], id |-> m.key[q[n]]]]
Excess(q) == IF Len(q) > MaxReceipts THEN Len(q) - MaxReceipts ELSE 0
PrunedNever(q) == q
Pruned(q) == SubSeq(q, Excess(q) + 1, Len(q))

Cleared(m, S) ==
    [m EXCEPT !.st = [i \in Stems |-> IF i \in S THEN "none" ELSE m.st[i]],
              !.blob = [i \in Stems |-> IF i \in S THEN NoStem ELSE m.blob[i]],
              !.key = [k \in Keys |-> IF m.key[k] \in S THEN NoStem ELSE m.key[k]]]
RemovedWithoutReceipt(m, S, q) == Cleared(m, S)
Removed(m, S, q) == [Cleared(m, S) EXCEPT !.receipts = Pruned(WithReceipts(m, q))]

Remove(p, S, held) ==
    LET m == Loaded(p)
        drop == {m.blob[i] : i \in S}
    IN  \E q \in Orderings(KeysFor(m, S)) :
          Transact(p, Removed(m, S, q), {}, drop, held,
                   /\ live' = live \ drop
                   /\ forgotten' = forgotten \cup
                        {WithReceipts(m, q)[n].key : n \in 1 .. Excess(WithReceipts(m, q))}
                   /\ UNCHANGED <<effects, by>>)

\* DeleteItem and DiscardPendingItemsOwned: only entries not yet admitted.
Discard(p, S) ==
    /\ S # {} /\ \A i \in S : Loaded(p).st[i] \in Pending
    /\ Remove(p, S, hold[p])
    /\ UNCHANGED <<stems, misacked>>

\* AckDequeue of an executed entry.  One that is no longer in flight is refused,
\* and the caller marks it uncertain and pauses; one that is gone is let be.
Acknowledgeable(m, i) == m.st[i] = "inflight"
Ack(p, i) ==
    LET m == Loaded(p)
    IN  /\ i \in hold[p]
        /\ IF Acknowledgeable(m, i)
           THEN Remove(p, {i}, hold[p] \ {i})
           ELSE IF m.st[i] = "none"
           THEN LoadOnly(p, hold[p] \ {i})
           ELSE Transact(p, [SetState(m, i, "uncertain") EXCEPT !.paused = TRUE],
                         {}, {}, hold[p] \ {i}, UNCHANGED history)
        /\ misacked' = (misacked \/ (Acknowledgeable(m, i) /\ by[i] # p))
        /\ UNCHANGED stems

-----------------------------------------------------------------------------
(* State changes *)

TakeOff(p, i) ==
    /\ Transact(p, SetState(Loaded(p), i, "inflight"), {}, {}, hold[p] \cup {i},
                /\ by' = [by EXCEPT ![i] = p]
                /\ UNCHANGED <<live, effects, forgotten>>)
    /\ UNCHANGED <<stems, misacked>>

\* ClaimItem: queued to running, refused while paused.
Claim(p, i) ==
    /\ Loaded(p).st[i] = "queued" /\ ~Loaded(p).paused
    /\ TakeOff(p, i)

\* SetState to steer_accepted.  The caller saw the entry queued or uncertain in
\* an earlier transaction; SetState itself does not look.
SteerAccept(p, i) ==
    /\ Loaded(p).st[i] # "none" /\ i \notin hold[p]
    /\ TakeOff(p, i)

\* SetState of an entry p executes: back to queued when its admission failed,
\* uncertain when it was not applied.
Release(p, i, s) ==
    /\ i \in hold[p] /\ s \in {"queued", "uncertain"}
    /\ Loaded(p).st[i] # "none"
    /\ Transact(p, SetState(Loaded(p), i, s), {}, {}, hold[p] \ {i}, UNCHANGED history)
    /\ UNCHANGED <<stems, misacked>>

\* SetState to blocked after Enqueue: the entry's references cannot be read.
Block(p, i) == Loaded(p).st[i] = "queued" /\ Rewrite(p, SetState(Loaded(p), i, "blocked"))

\* RetryItem, SetPaused and ForcePause: the user's decisions.
RetryItem(p, i) ==
    /\ Loaded(p).st[i] \in {"uncertain", "blocked"}
    /\ Rewrite(p, SetState(Loaded(p), i, "queued"))

SetPaused(p) == Rewrite(p, [Loaded(p) EXCEPT !.paused = ~@])

\* RecoverOrphanedInFlightOwnedBy: entries of this run that nobody executes.
Recover(p) ==
    LET m == Loaded(p)
        orphans == {i \in Stems : m.st[i] = "inflight"} \ hold[p]
    IN  /\ orphans # {}
        /\ Rewrite(p, [m EXCEPT !.st = [i \in Stems |-> IF i \in orphans THEN "uncertain"
                                                          ELSE m.st[i]],
                                !.paused = TRUE])

\* Open, Snapshot, ReadItem and refused operations only load.
Touch(p) == LoadOnly(p, hold[p]) /\ UNCHANGED <<stems, misacked>>

-----------------------------------------------------------------------------
(* The world *)

\* An executor that never reports back (its disk failed for good).
Forget(p, i) ==
    /\ i \in hold[p]
    /\ hold' = [hold EXCEPT ![p] = @ \ {i}]
    /\ UNCHANGED <<man, file, blobs, aside, stems, broken, stranded, history, misacked>>

\* A receipt grows older than idempotencyReceiptTTL.
Without(q, n) == SubSeq(q, 1, n - 1) \o SubSeq(q, n + 1, Len(q))
Expire(k) ==
    /\ \E n \in DOMAIN man.receipts :
         /\ man.receipts[n].key = k
         /\ man' = [man EXCEPT !.receipts = Without(@, n)]
    /\ forgotten' = forgotten \cup {k}
    /\ UNCHANGED <<file, blobs, aside, hold, stems, broken, live, stranded, effects, by, misacked>>

Corrupt ==
    /\ broken < MaxCorruptions /\ file = "readable"
    /\ file' = "corrupt"
    /\ broken' = broken + 1
    /\ forgotten' = Keys
    /\ UNCHANGED <<man, blobs, aside, hold, stems, live, stranded, effects, by, misacked>>

Next ==
    \/ \E p \in Procs :
         \/ \E k \in Keys \cup {NoKey} : Enqueue(p, k)
         \/ \E i \in Stems, k \in Keys \cup {NoKey} : Update(p, i, k)
         \/ \E S \in SUBSET Stems : Discard(p, S)
         \/ \E i \in Stems : Ack(p, i)
         \/ \E i \in Stems : Claim(p, i)
         \/ \E i \in Stems : SteerAccept(p, i)
         \/ \E i \in Stems, s \in Pending : Release(p, i, s)
         \/ \E i \in Stems : Block(p, i)
         \/ \E i \in Stems : RetryItem(p, i)
         \/ \E i \in Stems : Forget(p, i)
         \/ SetPaused(p)
         \/ Recover(p)
         \/ Touch(p)
    \/ \E k \in Keys : Expire(k)
    \/ Corrupt

Spec == Init /\ [][Next]_vars

-----------------------------------------------------------------------------
(* Properties *)

\* Types, the capacity of the inbox and of its receipts.
TypeOK ==
    /\ man.st \in [Stems -> States] /\ man.blob \in [Stems -> Stems \cup {NoStem}]
    /\ man.key \in [Keys -> Stems \cup {NoStem}] /\ man.run \in Procs \cup {Gone}
    /\ Len(man.receipts) <= MaxReceipts
    /\ file \in {"missing", "readable", "corrupt"}
    /\ blobs \subseteq 1 .. stems /\ hold \in [Procs -> SUBSET Stems]

\* What was accepted and is not finished survives every crash and failure.  Its
\* current body is never deleted: at worst it is in the quarantine directory.
\* Unless a corrupt manifest was moved away and the salvage then failed, the body
\* is in place and (once the manifest is readable) an entry of the manifest is
\* about it.  No entry of a readable manifest ever lacks its body.
BodiesKept ==
    /\ live \subseteq blobs \cup aside
    /\ live \ stranded \subseteq blobs
    /\ file # "corrupt" => live \ stranded \subseteq Bodies(man) /\ Bodies(man) \subseteq blobs

\* A request with an idempotency key takes effect once, however often and
\* through whichever process the client repeats it after a crash, a lost reply,
\* an acknowledgement or a deletion, until its receipt is pruned or lost.
KeyedOnce == \A k \in Keys \ forgotten : effects[k] <= 1

\* A process acknowledges only executions of its own: when another process has
\* taken the entry over (its load recovered it, its user retried it, it is in
\* flight again), the first one's late acknowledgement must not remove it.
AckedByExecutor == ~misacked

\* What the comment of the salvage path says of a corrupt manifest: its entries
\* come back, to be inspected, and an inbox with accepted work is never presented
\* as having none.
NeverZeroRecovered == \A p \in Procs : live # {} => Entries(Loaded(p)) # {}
=============================================================================
