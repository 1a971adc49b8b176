------------------------- MODULE JobsPromises_proofs -------------------------
(***************************************************************************)
(* What the manager of background jobs promises the turns, for any number  *)
(* of jobs and managers: no more tasks than the limit although a start     *)
(* counts before it registers, a note for every job that is seen to have   *)
(* ended, and changes of a task that wait for a delivered turn, in memory  *)
(* and on disk.  The invariant adds to IInv and Kept of Jobs_proofs what   *)
(* reservations, notes, a destroyed session and records have to do with    *)
(* the stage each job has reached.                                         *)
(***************************************************************************)
EXTENDS Jobs_proofs, FiniteSetTheorems

Over(i) == job[i].pc \in {"written", "noted", "published", "done", "gone"}
Ended == {"done", "failed", "killed"}

\* A start of the open manager under way.
Starter(i) == Starting(i) /\ job[i].owner = cur /\ Open

\* Reservations: a task of the open manager holds one from its call until it is in
\* the table, and what is unfinished or reserved stays within the limit.
Reserved ==
    /\ held \subseteq Ids /\ \A i \in held : Open /\ job[i].owner = cur
    /\ \A i \in Ids : At(i, "called") /\ job[i].kind = "task" /\ Starter(i) => i \in held
Ahead == \A m \in Managers, i \in Ids : m > cur => table[m][i].st = "none" /\ ~table[m][i].done
Claims == Unfinished("task") \cup held
Within == Open => Cardinality(Claims) <= Limit
Booked == Reserved /\ Ahead /\ Within

\* A session is destroyed, loaded or in a turn, one at a time.
Exclusive ==
    /\ notes \in [Ids -> {"no", "queued", "told"}] /\ destroying \in BOOLEAN
    /\ destroying => Open /\ turn.at = "idle" /\ load.at \notin {"read", "settle"}
    /\ load.at \in {"read", "settle"} => turn.at = "idle"
    /\ turn.at = "idle" => turn.leases = {}

\* What the entry of an own job shows at each stage, and when its note is there.
Shown(i, e) ==
    IF job[i].pc \in {"published", "done"} THEN e.st \in Ended
    ELSE e.st \in {"running", "killed"} /\ (destroying => e.st = "killed")
Told(i) ==
    /\ Starter(i) => turn.at = "run"
    /\ Own(i) => Shown(i, table[cur][i])
    /\ Own(i) /\ ~destroying /\ job[i].pc \in {"noted", "published", "done"} => notes[i] # "no"
    /\ notes[i] = "queued" => ~destroying /\ i \notin dropped

\* A job of a destroyed session has unwound and left nothing behind.
Purged(i) ==
    i \in dropped =>
      /\ ~At(i, "none")
      /\ job[i].owner = cur => job[i].pc \in {"published", "done", "gone"}
      /\ job[i].owner = cur /\ Open =>
           /\ table[cur][i].st = "none" /\ ~table[cur][i].done /\ disk[i].st = "none"
           /\ i \notin load.todo /\ (load.at = "settle" => load.id # i)

\* A task that ended has nothing to answer for, or its evidence says so.
Owes(i, ev) == job[i].kind = "task" => Answered(i) \/ ev
Ends(i, st, ev) == st \in Ended => Over(i) /\ Owes(i, ev)

\* A run that returned has published its evidence; what is then on disk, in the
\* loader's hands and in the open manager's table carries it on.
Returned(i) ==
    /\ job[i].pc \in {"returned", "written", "noted"} => job[i].out # "running"
    /\ At(i, "returned") /\ i \notin dropped => Entry(i).ev = job[i].wrote
OnDisk(i) ==
    /\ Ends(i, disk[i].st, disk[i].ev)
    /\ job[i].saved => Over(i) /\ (i \in dropped \/ disk[i].st \in Ended \cup {"interrupted"})
InLoad(i) ==
    /\ i \in load.todo => disk[i].st # "none"
    /\ load.at = "settle" /\ load.id = i =>
         load.meta.st # "none" /\ Ends(i, load.meta.st, load.meta.ev)
InTable(i) ==
    Open => /\ table[cur][i].done => /\ table[cur][i].st \in Ended \cup {"interrupted"}
                                     /\ Ends(i, table[cur][i].st, table[cur][i].ev)
            /\ i \in turn.leases => /\ table[cur][i].done
                                    /\ i \in turn.merged \/ table[cur][i].com \/ ~table[cur][i].ev

Promised(i) == Told(i) /\ Purged(i) /\ Returned(i) /\ OnDisk(i) /\ InLoad(i) /\ InTable(i)

Promises == Booked /\ Exclusive /\ \A i \in Ids : Promised(i)

-----------------------------------------------------------------------------
(* Facts used throughout *)

\* The sets that are counted are finite.
LEMMA Countable ==
    /\ IsFiniteSet(Ids)
    /\ \A S \in SUBSET Ids : IsFiniteSet(S) /\ Cardinality(S) \in Nat
<1>1. IsFiniteSet(Ids)
  BY FS_Interval, JobsAssumption DEF Ids
<1>2. \A S \in SUBSET Ids : IsFiniteSet(S)
  BY <1>1, FS_Subset
<1> QED BY <1>1, <1>2, FS_CardinalityType

\* A step that reserves and registers nothing new stays within the limit.
LEMMA StaysWithin ==
    ASSUME IInv, Booked, Open' => Open, held' \subseteq held,
           Open => Unfinished("task")' \subseteq Claims
    PROVE  Within'
<1> SUFFICES ASSUME Open'
             PROVE  (Cardinality(Claims) <= Limit)'
  BY DEF Within
<1>1. Claims \subseteq Ids /\ Claims' \subseteq Claims
  BY DEF Booked, Reserved, Claims, Unfinished
<1>2. /\ IsFiniteSet(Claims) /\ Cardinality(Claims) \in Nat
      /\ Cardinality(Claims') \in Nat
  BY <1>1, Countable
<1>3. Cardinality(Claims') <= Cardinality(Claims)
  BY <1>1, <1>2, FS_Subset
<1>4. Cardinality(Claims) <= Limit
  BY DEF Booked, Within
<1> HIDE DEF Claims
<1> QED BY <1>2, <1>3, <1>4, JobsAssumption

\* A step that leaves the managers and the kinds alone, and makes no entry of the
\* open manager unfinished that has no reservation.
LEMMA BookedKept ==
    ASSUME IInv, Booked, UNCHANGED <<mgr, cur>>, held' \subseteq held,
           \A j \in Ids :
             /\ job'[j].owner = job[j].owner /\ job'[j].kind = job[j].kind
             /\ job'[j].pc = "called" => job[j].pc = "called" /\ (j \in held => j \in held'),
           \A m \in Managers, j \in Ids : m > cur => table'[m][j] = table[m][j],
           \A j \in Ids :
             Open /\ table'[cur][j].st # "none" /\ ~table'[cur][j].done
             => \/ table[cur][j].st # "none" /\ ~table[cur][j].done
                \/ job[j].kind = "task" => j \in held
    PROVE  Booked'
<1>1. Reserved'
  BY DEF Booked, Reserved, At, Starter, Starting, Open
<1>2. Ahead'
  BY DEF Booked, Ahead
<1>3. Within'
  <2>1. Open => Unfinished("task")' \subseteq Claims
    BY DEF Unfinished, Claims, Mine
  <2> QED BY <2>1, StaysWithin DEF Open
<1> QED BY <1>1, <1>2, <1>3 DEF Booked

\* A job that a step leaves alone keeps what is promised of it.
LEMMA Apart ==
    ASSUME IInv, Promises, NEW j \in Ids,
           UNCHANGED <<mgr, cur, load, destroying, dropped, reviewed>>,
           turn'.at = turn.at, turn'.merged = turn.merged,
           j \in turn'.leases => j \in turn.leases,
           job'[j] = job[j], disk'[j] = disk[j], notes'[j] = notes[j],
           \A m \in Managers : table'[m][j] = table[m][j]
    PROVE  Promised(j)'
<1>1. Promised(j) /\ (~At(j, "none") => job[j].owner \in Managers) /\ (Open => cur \in Managers)
  BY OwnerIsManager DEF Promises
<1>2. Told(j)' /\ Purged(j)'
  BY <1>1 DEF Promised, Told, Purged, Starter, Starting, Own, Fresh, Open, Shown, At
<1>3. Returned(j)'
  BY <1>1 DEF Promised, Returned, Entry, At
<1>4. OnDisk(j)' /\ InLoad(j)' /\ InTable(j)'
  BY <1>1 DEF Promised, OnDisk, InLoad, InTable, Ends, Over, Owes, Answered, Open
<1> QED BY <1>2, <1>3, <1>4 DEF Promised

-----------------------------------------------------------------------------
(* The steps of a job *)

\* The goroutine starts.
LEMMA PromiseLaunch ==
    ASSUME IInv, Kept, Promises, NEW i \in Ids, Launch(i)
    PROVE  Promises'
<1>0. /\ Promised(i) /\ job[i] \in JobType /\ disk[i] \in RecType
      /\ ~At(i, "none") => job[i].owner \in Managers
      /\ Open => cur \in Managers
      /\ \A m \in Managers : table[m][i] \in EntryType
  BY OwnerIsManager, Retype DEF Promises
<1>1. /\ \A j \in Ids \ {i} : job'[j] = job[j] /\ disk'[j] = disk[j] /\ notes'[j] = notes[j]
      /\ \A j \in Ids, m \in Managers : table'[m][j] = table[m][j]
      /\ disk'[i] = disk[i] /\ notes'[i] = notes[i]
      /\ job'[i].kind = job[i].kind /\ job'[i].owner = job[i].owner
      /\ job'[i].ctx = job[i].ctx /\ job'[i].wrote = job[i].wrote
      /\ job'[i].out = job[i].out /\ job'[i].saved = job[i].saved
      /\ job'[i].pc \in {"refused", "running"} /\ At(i, "recorded") /\ held' = held
  BY <1>0 DEF Launch, IInv, Shape, Goto, At, JobType
<1>2. UNCHANGED <<mgr, cur, load, destroying, dropped, turn, reviewed>>
  BY DEF Launch
<1>3. Booked'
  BY <1>0, <1>1, <1>2, BookedKept DEF Launch, Promises, At
<1>4. Exclusive'
  BY <1>0, <1>1, <1>2 DEF Launch, Promises, Exclusive, Open
<1>5. Promised(i)'
  <2>1. Told(i)' /\ Purged(i)'
    BY <1>0, <1>1, <1>2 DEF Promised, Told, Purged, Starter, Starting, Own, Fresh, Open,
       Shown, At, Launch
  <2>2. Returned(i)'
    BY <1>0, <1>1, <1>2 DEF Promised, Returned, Entry, At, Launch
  <2>3. OnDisk(i)' /\ InLoad(i)' /\ InTable(i)'
    BY <1>0, <1>1, <1>2 DEF Promised, OnDisk, InLoad, InTable, Ends, Over, Owes, Answered,
       Open, At, Launch
  <2> QED BY <2>1, <2>2, <2>3 DEF Promised
<1>6. \A j \in Ids \ {i} : Promised(j)'
  BY <1>1, <1>2, Apart
<1> QED BY <1>3, <1>4, <1>5, <1>6 DEF Promises

\* A run changes files; nothing of it is on record as ended.
LEMMA PromiseMutate ==
    ASSUME IInv, Kept, Promises, NEW i \in Ids, Mutate(i)
    PROVE  Promises'
<1>0. /\ Promised(i) /\ job[i] \in JobType /\ disk[i] \in RecType
      /\ ~At(i, "none") => job[i].owner \in Managers
      /\ Open => cur \in Managers
      /\ \A m \in Managers : table[m][i] \in EntryType
  BY OwnerIsManager, Retype DEF Promises
<1>1. /\ \A j \in Ids \ {i} : job'[j] = job[j] /\ disk'[j] = disk[j] /\ notes'[j] = notes[j]
      /\ \A j \in Ids, m \in Managers : table'[m][j] = table[m][j]
      /\ disk'[i] = disk[i] /\ notes'[i] = notes[i]
      /\ job'[i].pc = job[i].pc /\ job'[i].kind = job[i].kind
      /\ job'[i].owner = job[i].owner /\ job'[i].ctx = job[i].ctx
      /\ job'[i].out = job[i].out /\ job'[i].saved = job[i].saved
      /\ At(i, "running") /\ held' = held
  BY <1>0 DEF Mutate, IInv, Shape, At, JobType
<1>2. UNCHANGED <<mgr, cur, load, destroying, dropped, turn, reviewed>>
  BY DEF Mutate
<1>3. Booked'
  BY <1>0, <1>1, <1>2, BookedKept DEF Mutate, Promises, At
<1>4. Exclusive'
  BY <1>0, <1>1, <1>2 DEF Mutate, Promises, Exclusive, Open
<1>5. Promised(i)'
  <2>1. Told(i)' /\ Purged(i)'
    BY <1>0, <1>1, <1>2 DEF Promised, Told, Purged, Starter, Starting, Own, Fresh, Open,
       Shown, At, Mutate
  <2>2. Returned(i)'
    BY <1>0, <1>1, <1>2 DEF Promised, Returned, Entry, At, Mutate
  <2>3. OnDisk(i)' /\ InLoad(i)' /\ InTable(i)'
    BY <1>0, <1>1, <1>2 DEF Promised, OnDisk, InLoad, InTable, Ends, Over, Owes, Answered,
       Open, At, Mutate
  <2> QED BY <2>1, <2>2, <2>3 DEF Promised
<1>6. \A j \in Ids \ {i} : Promised(j)'
  BY <1>1, <1>2, Apart
<1> QED BY <1>3, <1>4, <1>5, <1>6 DEF Promises

\* A killed job's context is cancelled.
LEMMA PromiseCancelCtx ==
    ASSUME IInv, Kept, Promises, NEW i \in Ids, CancelCtx(i)
    PROVE  Promises'
<1>0. /\ Promised(i) /\ job[i] \in JobType /\ disk[i] \in RecType
      /\ ~At(i, "none") => job[i].owner \in Managers
      /\ Open => cur \in Managers
      /\ \A m \in Managers : table[m][i] \in EntryType
  BY OwnerIsManager, Retype DEF Promises
<1>1. /\ \A j \in Ids \ {i} : job'[j] = job[j] /\ disk'[j] = disk[j] /\ notes'[j] = notes[j]
      /\ \A j \in Ids, m \in Managers : table'[m][j] = table[m][j]
      /\ disk'[i] = disk[i] /\ notes'[i] = notes[i]
      /\ job'[i].pc = job[i].pc /\ job'[i].kind = job[i].kind
      /\ job'[i].owner = job[i].owner /\ job'[i].wrote = job[i].wrote
      /\ job'[i].out = job[i].out /\ job'[i].saved = job[i].saved
      /\ held' = held
  BY <1>0 DEF CancelCtx, IInv, Shape, JobType
<1>2. UNCHANGED <<mgr, cur, load, destroying, dropped, turn, reviewed>>
  BY DEF CancelCtx
<1>3. Booked'
  BY <1>0, <1>1, <1>2, BookedKept DEF CancelCtx, Promises, At
<1>4. Exclusive'
  BY <1>0, <1>1, <1>2 DEF CancelCtx, Promises, Exclusive, Open
<1>5. Promised(i)'
  <2>1. Told(i)' /\ Purged(i)'
    BY <1>0, <1>1, <1>2 DEF Promised, Told, Purged, Starter, Starting, Own, Fresh, Open,
       Shown, At, CancelCtx
  <2>2. Returned(i)'
    BY <1>0, <1>1, <1>2 DEF Promised, Returned, Entry, At, CancelCtx
  <2>3. OnDisk(i)' /\ InLoad(i)' /\ InTable(i)'
    BY <1>0, <1>1, <1>2 DEF Promised, OnDisk, InLoad, InTable, Ends, Over, Owes, Answered,
       Open, At, CancelCtx
  <2> QED BY <2>1, <2>2, <2>3 DEF Promised
<1>6. \A j \in Ids \ {i} : Promised(j)'
  BY <1>1, <1>2, Apart
<1> QED BY <1>3, <1>4, <1>5, <1>6 DEF Promises

\* The tool call has returned; its reservation ends.
LEMMA PromiseReleaseStart ==
    ASSUME IInv, Kept, Promises, NEW i \in Ids, ReleaseStart(i)
    PROVE  Promises'
<1>0. /\ Promised(i) /\ job[i] \in JobType /\ disk[i] \in RecType
      /\ ~At(i, "none") => job[i].owner \in Managers
      /\ Open => cur \in Managers
      /\ \A m \in Managers : table[m][i] \in EntryType
  BY OwnerIsManager, Retype DEF Promises
<1>1. /\ UNCHANGED <<job, table, disk, notes>>
      /\ \A j \in Ids \ {i} : job'[j] = job[j] /\ disk'[j] = disk[j] /\ notes'[j] = notes[j]
      /\ \A j \in Ids, m \in Managers : table'[m][j] = table[m][j]
      /\ held' = held \ {i} /\ job[i].pc # "called"
  BY <1>0 DEF ReleaseStart, IInv, Shape, Starting
<1>2. UNCHANGED <<mgr, cur, load, destroying, dropped, turn, reviewed>>
  BY DEF ReleaseStart
<1>3. Booked'
  BY <1>0, <1>1, <1>2, BookedKept DEF ReleaseStart, Promises, At
<1>4. Exclusive'
  BY <1>0, <1>1, <1>2 DEF ReleaseStart, Promises, Exclusive, Open
<1>5. Promised(i)'
  <2>1. Told(i)' /\ Purged(i)'
    BY <1>0, <1>1, <1>2 DEF Promised, Told, Purged, Starter, Starting, Own, Fresh, Open,
       Shown, At, ReleaseStart
  <2>2. Returned(i)'
    BY <1>0, <1>1, <1>2 DEF Promised, Returned, Entry, At, ReleaseStart
  <2>3. OnDisk(i)' /\ InLoad(i)' /\ InTable(i)'
    BY <1>0, <1>1, <1>2 DEF Promised, OnDisk, InLoad, InTable, Ends, Over, Owes, Answered,
       Open, At, ReleaseStart
  <2> QED BY <2>1, <2>2, <2>3 DEF Promised
<1>6. \A j \in Ids \ {i} : Promised(j)'
  BY <1>1, <1>2, Apart
<1> QED BY <1>3, <1>4, <1>5, <1>6 DEF Promises

\* The note is queued, unless the session is being destroyed.
LEMMA PromiseRecordCompletion ==
    ASSUME IInv, Kept, Promises, NEW i \in Ids, RecordCompletion(i)
    PROVE  Promises'
<1>0. /\ Promised(i) /\ job[i] \in JobType /\ disk[i] \in RecType
      /\ ~At(i, "none") => job[i].owner \in Managers
      /\ Open => cur \in Managers
      /\ \A m \in Managers : table[m][i] \in EntryType
  BY OwnerIsManager, Retype DEF Promises
<1>1. /\ \A j \in Ids \ {i} : job'[j] = job[j] /\ disk'[j] = disk[j] /\ notes'[j] = notes[j]
      /\ \A j \in Ids, m \in Managers : table'[m][j] = table[m][j]
      /\ disk'[i] = disk[i]
      /\ job'[i].kind = job[i].kind /\ job'[i].owner = job[i].owner
      /\ job'[i].ctx = job[i].ctx /\ job'[i].wrote = job[i].wrote
      /\ job'[i].out = job[i].out /\ job'[i].saved = job[i].saved
      /\ At(i, "written") /\ job'[i].pc = "noted" /\ held' = held
      /\ notes'[i] = IF job[i].owner # cur \/ destroying THEN notes[i] ELSE "queued"
      /\ notes' \in [Ids -> {"no", "queued", "told"}]
  BY <1>0 DEF RecordCompletion, IInv, Shape, Goto, At, JobType, Noted, Promises, Exclusive
<1>2. UNCHANGED <<mgr, cur, load, destroying, dropped, turn, reviewed>>
  BY DEF RecordCompletion
<1>3. Booked'
  BY <1>0, <1>1, <1>2, BookedKept DEF RecordCompletion, Promises, At
<1>4. Exclusive'
  BY <1>0, <1>1, <1>2 DEF RecordCompletion, Promises, Exclusive, Open
<1>5. Promised(i)'
  <2>1. Told(i)' /\ Purged(i)'
    BY <1>0, <1>1, <1>2 DEF Promised, Told, Purged, Starter, Starting, Own, Fresh, Open,
       Shown, At, RecordCompletion
  <2>2. Returned(i)'
    BY <1>0, <1>1, <1>2 DEF Promised, Returned, Entry, At, RecordCompletion
  <2>3. OnDisk(i)' /\ InLoad(i)' /\ InTable(i)'
    BY <1>0, <1>1, <1>2 DEF Promised, OnDisk, InLoad, InTable, Ends, Over, Owes, Answered,
       Open, At, RecordCompletion
  <2> QED BY <2>1, <2>2, <2>3 DEF Promised
<1>6. \A j \in Ids \ {i} : Promised(j)'
  BY <1>1, <1>2, Apart
<1> QED BY <1>3, <1>4, <1>5, <1>6 DEF Promises

\* The job enters its manager's table; its reservation counts it already.
LEMMA PromiseRegister ==
    ASSUME IInv, Kept, Promises, NEW i \in Ids, Register(i)
    PROVE  Promises'
<1>0. /\ Promised(i) /\ job[i] \in JobType /\ disk[i] \in RecType
      /\ ~At(i, "none") => job[i].owner \in Managers
      /\ Open => cur \in Managers
      /\ \A m \in Managers : table[m][i] \in EntryType
  BY OwnerIsManager, Retype DEF Promises
<1>1. /\ \A j \in Ids \ {i} : job'[j] = job[j] /\ disk'[j] = disk[j] /\ notes'[j] = notes[j]
      /\ \A j \in Ids \ {i}, m \in Managers : table'[m][j] = table[m][j]
      /\ disk'[i] = disk[i] /\ notes'[i] = notes[i]
      /\ job'[i].kind = job[i].kind /\ job'[i].owner = job[i].owner
      /\ job'[i].wrote = job[i].wrote /\ job'[i].out = job[i].out
      /\ job'[i].saved = job[i].saved
      /\ At(i, "called") /\ job'[i].pc = "registered" /\ held' = held
      /\ job[i].owner \in Managers
      /\ \A m \in Managers \ {job[i].owner} : table'[m][i] = table[m][i]
      /\ table'[job[i].owner][i].st = "running" /\ ~table'[job[i].owner][i].done
      /\ job[i].owner \in 1 .. cur /\ i \notin turn.leases
  BY <1>0 DEF Register, IInv, Shape, SetEntry, At, JobType, NoEntry, Origin, Kept, Unused,
     Fresh
<1>2. UNCHANGED <<mgr, cur, load, destroying, dropped, turn, reviewed>>
  BY DEF Register
<1>3. Booked'
  <2>1. Open /\ job[i].owner = cur /\ job[i].kind = "task" => i \in held
    BY <1>1 DEF Promises, Booked, Reserved, Starter, Starting, At
  <2> QED BY <1>0, <1>1, <1>2, <2>1, BookedKept DEF Promises, At, IInv, Shape, Owners, Managers
<1>4. Exclusive'
  BY <1>0, <1>1, <1>2 DEF Register, Promises, Exclusive, Open
<1>5. Promised(i)'
  <2>1. Told(i)' /\ Purged(i)'
    BY <1>0, <1>1, <1>2 DEF Promised, Told, Purged, Starter, Starting, Own, Fresh, Open,
       Shown, At, Register, Promises, Exclusive
  <2>2. Returned(i)'
    BY <1>0, <1>1, <1>2 DEF Promised, Returned, Entry, At, Register, Promises, Exclusive
  <2>3. OnDisk(i)' /\ InLoad(i)' /\ InTable(i)'
    BY <1>0, <1>1, <1>2 DEF Promised, OnDisk, InLoad, InTable, Ends, Over, Owes, Answered,
       Open, At, Register, Promises, Exclusive
  <2> QED BY <2>1, <2>2, <2>3 DEF Promised
<1>6. \A j \in Ids \ {i} : Promised(j)'
  BY <1>1, <1>2, Apart
<1> QED BY <1>3, <1>4, <1>5, <1>6 DEF Promises

\* A task is called with a reservation, which ReserveStartForSession counts.
LEMMA PromiseReserve ==
    ASSUME IInv, Kept, Promises, NEW i \in Ids, Reserve(i)
    PROVE  Promises'
<1>0. /\ Promised(i) /\ job[i] \in JobType /\ disk[i] \in RecType
      /\ ~At(i, "none") => job[i].owner \in Managers
      /\ Open => cur \in Managers
      /\ \A m \in Managers : table[m][i] \in EntryType
  BY OwnerIsManager, Retype DEF Promises
<1>1. /\ \A j \in Ids \ {i} : job'[j] = job[j] /\ disk'[j] = disk[j] /\ notes'[j] = notes[j]
      /\ \A j \in Ids, m \in Managers : table'[m][j] = table[m][j]
      /\ disk'[i] = disk[i] /\ notes'[i] = notes[i]
      /\ job'[i].pc = "called" /\ job'[i].kind = "task" /\ job'[i].owner = cur
      /\ ~job'[i].wrote /\ ~job'[i].saved
      /\ At(i, "none") /\ Open /\ turn.at = "run" /\ i \notin dropped
      /\ disk[i].st = "none" /\ i \notin load.todo /\ (load.at = "settle" => load.id # i)
      /\ \A m \in Managers : table[m][i].st = "none" /\ ~table[m][i].done
      /\ i \notin turn.leases
      /\ held' = held \cup {i} /\ RoomFor("task")
  BY <1>0 DEF Reserve, IInv, Shape, NextId, Call, NoJob, At, Origin, Kept, Unused, Fresh,
     Promised, Purged, Spend
<1>2. UNCHANGED <<mgr, cur, load, destroying, dropped, turn, reviewed>>
  BY DEF Reserve
<1>3. Booked'
  <2>1. Reserved'
    BY <1>1, <1>2 DEF Promises, Booked, Reserved, At, Starter, Starting, Open
  <2>2. Ahead'
    BY <1>1, <1>2 DEF Promises, Booked, Ahead
  <2>3. Unfinished("task")' \subseteq Unfinished("task")
    BY <1>0, <1>1, <1>2 DEF Unfinished, Mine
  <2>4. Claims' \subseteq Claims \cup {i} /\ Claims \subseteq Ids
    BY <1>1, <2>3 DEF Claims, Promises, Booked, Reserved, Unfinished
  <2>5. Cardinality(Claims) < Limit
    <3>1. held \subseteq Ids /\ Unfinished("task") \subseteq Ids
      BY DEF Promises, Booked, Reserved, Unfinished
    <3>2. /\ IsFiniteSet(held) /\ IsFiniteSet(Unfinished("task"))
          /\ Cardinality(held) \in Nat /\ Cardinality(Unfinished("task")) \in Nat
          /\ Cardinality(Unfinished("task") \cap held) \in Nat
      BY <3>1, Countable
    <3>3. Cardinality(Claims) = Cardinality(Unfinished("task")) + Cardinality(held)
                                - Cardinality(Unfinished("task") \cap held)
      BY <3>2, FS_Union DEF Claims
    <3> HIDE DEF Claims, Unfinished
    <3> QED BY <1>1, <3>2, <3>3, JobsAssumption DEF RoomFor
  <2>6. Cardinality(Claims') <= Limit
    <3> DEFINE S == Claims \cup {i}
    <3>1. IsFiniteSet(Claims) /\ Cardinality(Claims) \in Nat
      BY <2>4, Countable
    <3>2. IsFiniteSet(S) /\ Cardinality(S) <= Cardinality(Claims) + 1 /\ Cardinality(S) \in Nat
      <4> HIDE DEF Claims
      <4>1. IsFiniteSet(S) /\ (Cardinality(S) = Cardinality(Claims) \/ Cardinality(S) = Cardinality(Claims) + 1)
        BY <3>1, FS_AddElement
      <4> HIDE DEF S
      <4> QED BY <3>1, <4>1
    <3>3. Cardinality(Claims') <= Cardinality(S) /\ Cardinality(Claims') \in Nat
      BY <2>4, <3>2, FS_Subset, FS_CardinalityType
    <3> HIDE DEF Claims, S
    <3> QED BY <2>5, <3>1, <3>2, <3>3, JobsAssumption
  <2> QED BY <2>1, <2>2, <2>6 DEF Booked, Within
<1>4. Exclusive'
  BY <1>0, <1>1, <1>2 DEF Reserve, Promises, Exclusive, Open
<1>5. Promised(i)'
  <2>1. Told(i)' /\ Purged(i)'
    BY <1>0, <1>1, <1>2 DEF Promised, Told, Purged, Starter, Starting, Own, Fresh, Open,
       Shown, At, Reserve
  <2>2. Returned(i)'
    BY <1>0, <1>1, <1>2 DEF Promised, Returned, Entry, At, Reserve
  <2>3. OnDisk(i)' /\ InLoad(i)' /\ InTable(i)'
    BY <1>0, <1>1, <1>2 DEF Promised, OnDisk, InLoad, InTable, Ends, Over, Owes, Answered,
       Open, At, Reserve
  <2> QED BY <2>1, <2>2, <2>3 DEF Promised
<1>6. \A j \in Ids \ {i} : Promised(j)'
  BY <1>1, <1>2, Apart
<1> QED BY <1>3, <1>4, <1>5, <1>6 DEF Promises

\* A fleet is called; it reserves nothing and the limit does not count it.
LEMMA PromiseStartFleet ==
    ASSUME IInv, Kept, Promises, NEW i \in Ids, StartFleet(i)
    PROVE  Promises'
<1>0. /\ Promised(i) /\ job[i] \in JobType /\ disk[i] \in RecType
      /\ ~At(i, "none") => job[i].owner \in Managers
      /\ Open => cur \in Managers
      /\ \A m \in Managers : table[m][i] \in EntryType
  BY OwnerIsManager, Retype DEF Promises
<1>1. /\ \A j \in Ids \ {i} : job'[j] = job[j] /\ disk'[j] = disk[j] /\ notes'[j] = notes[j]
      /\ \A j \in Ids, m \in Managers : table'[m][j] = table[m][j]
      /\ disk'[i] = disk[i] /\ notes'[i] = notes[i]
      /\ job'[i].pc = "called" /\ job'[i].kind = "fleet" /\ job'[i].owner = cur
      /\ ~job'[i].wrote /\ ~job'[i].saved
      /\ At(i, "none") /\ Open /\ turn.at = "run" /\ i \notin dropped
      /\ disk[i].st = "none" /\ i \notin load.todo /\ (load.at = "settle" => load.id # i)
      /\ \A m \in Managers : table[m][i].st = "none" /\ ~table[m][i].done
      /\ i \notin turn.leases
      /\ held' = held
  BY <1>0 DEF StartFleet, IInv, Shape, NextId, Call, NoJob, At, Origin, Kept, Unused,
     Fresh, Promised, Purged, Spend
<1>2. UNCHANGED <<mgr, cur, load, destroying, dropped, turn, reviewed>>
  BY DEF StartFleet
<1>3. Booked'
  <2>1. Reserved'
    BY <1>1, <1>2 DEF Promises, Booked, Reserved, At, Starter, Starting, Open
  <2>2. Ahead'
    BY <1>1, <1>2 DEF Promises, Booked, Ahead
  <2>3. Unfinished("task")' \subseteq Claims
    BY <1>0, <1>1, <1>2 DEF Unfinished, Claims, Mine
  <2> QED BY <1>1, <1>2, <2>1, <2>2, <2>3, StaysWithin DEF Booked, Open, Promises
<1>4. Exclusive'
  BY <1>0, <1>1, <1>2 DEF StartFleet, Promises, Exclusive, Open
<1>5. Promised(i)'
  <2>1. Told(i)' /\ Purged(i)'
    BY <1>0, <1>1, <1>2 DEF Promised, Told, Purged, Starter, Starting, Own, Fresh, Open,
       Shown, At, StartFleet
  <2>2. Returned(i)'
    BY <1>0, <1>1, <1>2 DEF Promised, Returned, Entry, At, StartFleet
  <2>3. OnDisk(i)' /\ InLoad(i)' /\ InTable(i)'
    BY <1>0, <1>1, <1>2 DEF Promised, OnDisk, InLoad, InTable, Ends, Over, Owes, Answered,
       Open, At, StartFleet
  <2> QED BY <2>1, <2>2, <2>3 DEF Promised
<1>6. \A j \in Ids \ {i} : Promised(j)'
  BY <1>1, <1>2, Apart
<1> QED BY <1>3, <1>4, <1>5, <1>6 DEF Promises

\* The setup of a task fails; its reservation ends with it.
LEMMA PromiseAbandon ==
    ASSUME IInv, Kept, Promises, NEW i \in Ids, Abandon(i)
    PROVE  Promises'
<1>0. /\ Promised(i) /\ job[i] \in JobType /\ disk[i] \in RecType
      /\ ~At(i, "none") => job[i].owner \in Managers
      /\ Open => cur \in Managers
      /\ \A m \in Managers : table[m][i] \in EntryType
  BY OwnerIsManager, Retype DEF Promises
<1>1. /\ \A j \in Ids \ {i} : job'[j] = job[j] /\ disk'[j] = disk[j] /\ notes'[j] = notes[j]
      /\ \A j \in Ids, m \in Managers : table'[m][j] = table[m][j]
      /\ disk'[i] = disk[i] /\ notes'[i] = notes[i]
      /\ job'[i].pc = "none" /\ ~job'[i].saved /\ At(i, "called")
      /\ i \in held /\ held' = held \ {i}
      /\ disk[i].st = "none" /\ i \notin load.todo /\ (load.at = "settle" => load.id # i)
      /\ \A m \in Managers : table[m][i].st = "none" /\ ~table[m][i].done
      /\ i \notin turn.leases
      /\ i \notin dropped
  BY <1>0 DEF Abandon, IInv, Shape, NextId, Call, NoJob, At, Origin, Kept, Unused, Fresh,
     Promised, Purged, Spend, Promises, Booked, Reserved
<1>2. UNCHANGED <<mgr, cur, load, destroying, dropped, turn, reviewed>>
  BY DEF Abandon
<1>3. Booked'
  <2>1. Reserved'
    BY <1>1, <1>2 DEF Promises, Booked, Reserved, At, Starter, Starting, Open
  <2>2. Ahead'
    BY <1>1, <1>2 DEF Promises, Booked, Ahead
  <2>3. Open => Unfinished("task")' \subseteq Claims
    BY <1>0, <1>1, <1>2 DEF Unfinished, Claims, Mine
  <2> QED BY <1>1, <1>2, <2>1, <2>2, <2>3, StaysWithin DEF Booked, Open, Promises
<1>4. Exclusive'
  BY <1>0, <1>1, <1>2 DEF Abandon, Promises, Exclusive, Open
<1>5. Promised(i)'
  <2>1. Told(i)' /\ Purged(i)'
    BY <1>0, <1>1, <1>2 DEF Promised, Told, Purged, Starter, Starting, Own, Fresh, Open,
       Shown, At, Abandon
  <2>2. Returned(i)'
    BY <1>0, <1>1, <1>2 DEF Promised, Returned, Entry, At, Abandon
  <2>3. OnDisk(i)' /\ InLoad(i)' /\ InTable(i)'
    BY <1>0, <1>1, <1>2 DEF Promised, OnDisk, InLoad, InTable, Ends, Over, Owes, Answered,
       Open, At, Abandon
  <2> QED BY <2>1, <2>2, <2>3 DEF Promised
<1>6. \A j \in Ids \ {i} : Promised(j)'
  BY <1>1, <1>2, Apart
<1> QED BY <1>3, <1>4, <1>5, <1>6 DEF Promises

\* The Running record, or a failure to write it.
LEMMA PromiseWriteRunning ==
    ASSUME IInv, Kept, Promises, NEW i \in Ids, WriteRunning(i)
    PROVE  Promises'
<1>0. /\ Promised(i) /\ job[i] \in JobType /\ disk[i] \in RecType
      /\ ~At(i, "none") => job[i].owner \in Managers
      /\ Open => cur \in Managers
      /\ \A m \in Managers : table[m][i] \in EntryType
  BY OwnerIsManager, Retype DEF Promises
<1> DEFINE r == Record(i, "running", FALSE, job[i].owner)
<1>r. r \in RecType /\ r.st = "running"
  BY <1>0 DEF Record, RecType, JobType, Statuses
<1> HIDE DEF r
<1>w. /\ disk' \in [Ids -> RecType]
      /\ disk'[i] = r \/ disk'[i] = disk[i]
      /\ \A j \in Ids \ {i} : disk'[j] = disk[j]
  BY <1>r, WritesRecord DEF WriteRunning, r
<1>1. /\ \A j \in Ids \ {i} : job'[j] = job[j] /\ notes'[j] = notes[j]
      /\ \A j \in Ids, m \in Managers : table'[m][j] = table[m][j]
      /\ notes'[i] = notes[i]
      /\ job'[i].kind = job[i].kind /\ job'[i].owner = job[i].owner
      /\ job'[i].ctx = job[i].ctx /\ job'[i].wrote = job[i].wrote
      /\ job'[i].out = job[i].out /\ job'[i].saved = job[i].saved
      /\ At(i, "registered") /\ job'[i].pc = "recorded" /\ held' = held
  BY <1>0 DEF WriteRunning, IInv, Shape, Goto, At, JobType
<1>2. UNCHANGED <<mgr, cur, load, destroying, dropped, turn, reviewed>>
  BY DEF WriteRunning
<1>3. Booked'
  BY <1>0, <1>1, <1>2, BookedKept DEF Promises, At
<1>4. Exclusive'
  BY <1>0, <1>1, <1>2 DEF WriteRunning, Promises, Exclusive, Open
<1>5. Promised(i)'
  <2>1. Told(i)' /\ Purged(i)'
    BY <1>0, <1>1, <1>2, <1>r, <1>w DEF Promised, Told, OnDisk, Ends, Over, Purged,
       Starter, Starting, Own, Fresh, Open, Shown, At, Ended
  <2>2. Returned(i)'
    BY <1>0, <1>1, <1>2, <1>r, <1>w DEF Promised, Returned, Entry, At, Ended
  <2>3. OnDisk(i)' /\ InLoad(i)' /\ InTable(i)'
    BY <1>0, <1>1, <1>2, <1>r, <1>w DEF Promised, OnDisk, InLoad, InTable, Ends, Over,
       Owes, Answered, Open, At, Ended
  <2> QED BY <2>1, <2>2, <2>3 DEF Promised
<1>6. \A j \in Ids \ {i} : Promised(j)'
  BY <1>1, <1>2, <1>w, Apart
<1> QED BY <1>3, <1>4, <1>5, <1>6 DEF Promises

\* A run publishes its evidence and returns.
LEMMA PromiseReturn ==
    ASSUME IInv, Kept, Promises, NEW i \in Ids, Return(i)
    PROVE  Promises'
<1>0. /\ Promised(i) /\ job[i] \in JobType /\ disk[i] \in RecType
      /\ ~At(i, "none") => job[i].owner \in Managers
      /\ Open => cur \in Managers
      /\ \A m \in Managers : table[m][i] \in EntryType
  BY OwnerIsManager, Retype DEF Promises
<1>1. /\ \A j \in Ids \ {i} : job'[j] = job[j] /\ disk'[j] = disk[j] /\ notes'[j] = notes[j]
      /\ \A j \in Ids \ {i}, m \in Managers : table'[m][j] = table[m][j]
      /\ disk'[i] = disk[i] /\ notes'[i] = notes[i]
      /\ job'[i].kind = job[i].kind /\ job'[i].owner = job[i].owner
      /\ job'[i].ctx = job[i].ctx /\ job'[i].wrote = job[i].wrote
      /\ job'[i].saved = job[i].saved
      /\ job[i].pc \in {"running", "refused"} /\ job'[i].pc = "returned"
      /\ job'[i].out # "running"
      /\ held' = held
      /\ job[i].owner \in 1 .. cur /\ job[i].owner \in Managers
      /\ \A m \in Managers \ {job[i].owner} : table'[m][i] = table[m][i]
  BY <1>0 DEF Return, IInv, Shape, SetEntry, At, JobType, Outcomes, Origin
<1>q. table'[job[i].owner][i] = [Entry(i) EXCEPT !.ev = job[i].wrote]
  BY <1>0, <1>1 DEF Return, IInv, Shape, SetEntry, At, JobType, Outcomes, Origin
<1>t. LET e == table'[job[i].owner][i] IN
        /\ e.st = table[job[i].owner][i].st /\ e.done = table[job[i].owner][i].done
        /\ e.com = table[job[i].owner][i].com /\ e.ev = job[i].wrote
  BY <1>0, <1>1, <1>q DEF Entry, EntryType
<1>2. UNCHANGED <<mgr, cur, load, destroying, dropped, turn, reviewed>>
  BY DEF Return
<1>o. Open /\ job[i].owner = cur => /\ Own(i) /\ table[cur][i].st # "none"
                                    /\ ~table[cur][i].done /\ i \notin turn.leases
  BY <1>0, <1>1 DEF Promised, Purged, Kept, OwnKept, Own, Carries, Fresh, At
<1>3. Booked'
  BY <1>0, <1>1, <1>t, <1>2, BookedKept DEF Promises, At, IInv, Shape, Owners, Managers
<1>4. Exclusive'
  BY <1>0, <1>1, <1>2 DEF Return, Promises, Exclusive, Open
<1>5. Promised(i)'
  <2>1. Told(i)' /\ Purged(i)'
    BY <1>0, <1>1, <1>t, <1>o, <1>2 DEF Promised, Told, Purged, Starter, Starting, Own,
       Fresh, Open, Shown, At, Ended
  <2>2. Returned(i)'
    BY <1>0, <1>1, <1>t, <1>o, <1>2 DEF Promised, Returned, Entry, At, Ended
  <2>3. OnDisk(i)' /\ InLoad(i)' /\ InTable(i)'
    BY <1>0, <1>1, <1>t, <1>o, <1>2 DEF Promised, OnDisk, InLoad, InTable, Ends, Over,
       Owes, Answered, Open, At, Ended
  <2> QED BY <2>1, <2>2, <2>3 DEF Promised
<1>6. \A j \in Ids \ {i} : Promised(j)'
  BY <1>1, <1>2, Apart
<1> QED BY <1>3, <1>4, <1>5, <1>6 DEF Promises

\* The terminal record carries the evidence the run published, or is not written.
LEMMA PromiseWriteTerminal ==
    ASSUME IInv, Kept, Promises, NEW i \in Ids, WriteTerminal(i)
    PROVE  Promises'
<1>0. /\ Promised(i) /\ job[i] \in JobType /\ disk[i] \in RecType
      /\ ~At(i, "none") => job[i].owner \in Managers
      /\ Open => cur \in Managers
      /\ \A m \in Managers : table[m][i] \in EntryType
  BY OwnerIsManager, Retype DEF Promises
<1> DEFINE r == IF i \in dropped THEN disk[i]
                ELSE Record(i, job[i].out, Entry(i).ev, job[i].owner)
<1>e. job[i].owner \in Managers /\ Entry(i) \in EntryType
  BY <1>0 DEF WriteTerminal, At, Entry
<1>r. /\ r \in RecType
      /\ i \in dropped => r = disk[i]
      /\ i \notin dropped => /\ r.st = job[i].out
                             /\ r.ev <=> Entry(i).ev /\ job[i].kind = "task"
  BY <1>0, <1>e DEF Record, RecType, JobType, EntryType, Statuses
<1> HIDE DEF r
<1>w. /\ disk' \in [Ids -> RecType]
      /\ disk'[i] = r \/ disk'[i] = disk[i]
      /\ \A j \in Ids \ {i} : disk'[j] = disk[j]
  BY <1>r, WritesRecord DEF WriteTerminal, r
<1>k. job[i].out \in Ended /\ (i \notin dropped => Entry(i).ev = job[i].wrote)
  BY <1>0 DEF WriteTerminal, Promised, Returned, JobType, Ended, At
<1>1. /\ \A j \in Ids \ {i} : job'[j] = job[j] /\ notes'[j] = notes[j]
      /\ \A j \in Ids, m \in Managers : table'[m][j] = table[m][j]
      /\ notes'[i] = notes[i]
      /\ job'[i].kind = job[i].kind /\ job'[i].owner = job[i].owner
      /\ job'[i].ctx = job[i].ctx /\ job'[i].wrote = job[i].wrote
      /\ job'[i].out = job[i].out
      /\ At(i, "returned") /\ job'[i].pc = "written" /\ held' = held
      /\ job'[i].saved <=> disk'[i].st = job[i].out
  BY <1>0 DEF WriteTerminal, IInv, Shape, At, JobType
<1>2. UNCHANGED <<mgr, cur, load, destroying, dropped, turn, reviewed>>
  BY DEF WriteTerminal
<1>3. Booked'
  BY <1>0, <1>1, <1>2, BookedKept DEF Promises, At
<1>4. Exclusive'
  BY <1>0, <1>1, <1>2 DEF WriteTerminal, Promises, Exclusive, Open
<1>5. Promised(i)'
  <2>1. Told(i)' /\ Purged(i)'
    BY <1>0, <1>1, <1>2, <1>r, <1>k, <1>w DEF Promised, Told, Purged, Starter, Starting,
       Own, Fresh, Open, Shown, At, Ended
  <2>2. Returned(i)'
    BY <1>0, <1>1, <1>2, <1>r, <1>k, <1>w DEF Promised, Returned, Entry, At, Ended
  <2>3. OnDisk(i)' /\ InLoad(i)' /\ InTable(i)'
    BY <1>0, <1>1, <1>2, <1>r, <1>k, <1>w DEF Promised, OnDisk, InLoad, InTable, Ends,
       Over, Owes, Answered, Open, At, Ended
  <2> QED BY <2>1, <2>2, <2>3 DEF Promised
<1>6. \A j \in Ids \ {i} : Promised(j)'
  BY <1>1, <1>2, <1>w, Apart
<1> QED BY <1>3, <1>4, <1>5, <1>6 DEF Promises

\* The terminal status is published, unless the job was killed.
LEMMA PromisePublish ==
    ASSUME IInv, Kept, Promises, NEW i \in Ids, Publish(i)
    PROVE  Promises'
<1>0. /\ Promised(i) /\ job[i] \in JobType /\ disk[i] \in RecType
      /\ ~At(i, "none") => job[i].owner \in Managers
      /\ Open => cur \in Managers
      /\ \A m \in Managers : table[m][i] \in EntryType
  BY OwnerIsManager, Retype DEF Promises
<1>1. /\ \A j \in Ids \ {i} : job'[j] = job[j] /\ disk'[j] = disk[j] /\ notes'[j] = notes[j]
      /\ \A j \in Ids \ {i}, m \in Managers : table'[m][j] = table[m][j]
      /\ disk'[i] = disk[i] /\ notes'[i] = notes[i]
      /\ job'[i].kind = job[i].kind /\ job'[i].owner = job[i].owner
      /\ job'[i].ctx = job[i].ctx /\ job'[i].wrote = job[i].wrote
      /\ job'[i].saved = job[i].saved
      /\ At(i, "noted") /\ job'[i].pc = "published" /\ held' = held
      /\ job[i].owner \in 1 .. cur /\ job[i].owner \in Managers
      /\ \A m \in Managers \ {job[i].owner} : table'[m][i] = table[m][i]
      /\ table'[job[i].owner][i] = Published(i)
  BY <1>0 DEF Publish, IInv, Shape, SetEntry, At, JobType, Origin
<1>t. LET e == table'[job[i].owner][i] IN
        /\ e.done = table[job[i].owner][i].done /\ e.ev = table[job[i].owner][i].ev
        /\ e.com = table[job[i].owner][i].com
        /\ table[job[i].owner][i].st = "none" => e.st = "none"
        /\ table[job[i].owner][i].st # "none" => e.st \in Ended
  <2>1. job[i].out \in Ended
    BY <1>0, <1>1 DEF Promised, Returned, JobType, Ended, At
  <2> QED BY <1>0, <1>1, <2>1 DEF Entry, EntryType, Published, Ended
<1>2. UNCHANGED <<mgr, cur, load, destroying, dropped, turn, reviewed>>
  BY DEF Publish
<1>o. Open /\ job[i].owner = cur => /\ Own(i) /\ table[cur][i].st # "none"
                                    /\ ~table[cur][i].done /\ i \notin turn.leases
  BY <1>0, <1>1 DEF Promised, Purged, Kept, OwnKept, Own, Carries, Fresh, At
<1>3. Booked'
  BY <1>0, <1>1, <1>t, <1>2, BookedKept DEF Promises, At, IInv, Shape, Owners, Managers
<1>4. Exclusive'
  BY <1>0, <1>1, <1>2 DEF Publish, Promises, Exclusive, Open
<1>5. Promised(i)'
  <2>1. Told(i)' /\ Purged(i)'
    BY <1>0, <1>1, <1>t, <1>o, <1>2 DEF Promised, Told, Purged, Starter, Starting, Own,
       Fresh, Open, Shown, At, Publish
  <2>2. Returned(i)'
    BY <1>0, <1>1, <1>t, <1>o, <1>2 DEF Promised, Returned, Entry, At, Publish
  <2>3. OnDisk(i)' /\ InLoad(i)' /\ InTable(i)'
    BY <1>0, <1>1, <1>t, <1>o, <1>2 DEF Promised, OnDisk, InLoad, InTable, Ends, Over,
       Owes, Answered, Open, At, Publish
  <2> QED BY <2>1, <2>2, <2>3 DEF Promised
<1>6. \A j \in Ids \ {i} : Promised(j)'
  BY <1>1, <1>2, Apart
<1> QED BY <1>3, <1>4, <1>5, <1>6 DEF Promises

\* The done channel is closed; the entry's evidence is what the run changed.
LEMMA PromiseCloseDone ==
    ASSUME IInv, Kept, Promises, NEW i \in Ids, CloseDone(i)
    PROVE  Promises'
<1>0. /\ Promised(i) /\ job[i] \in JobType /\ disk[i] \in RecType
      /\ ~At(i, "none") => job[i].owner \in Managers
      /\ Open => cur \in Managers
      /\ \A m \in Managers : table[m][i] \in EntryType
  BY OwnerIsManager, Retype DEF Promises
<1>1. /\ \A j \in Ids \ {i} : job'[j] = job[j] /\ disk'[j] = disk[j] /\ notes'[j] = notes[j]
      /\ \A j \in Ids \ {i}, m \in Managers : table'[m][j] = table[m][j]
      /\ disk'[i] = disk[i] /\ notes'[i] = notes[i]
      /\ job'[i].kind = job[i].kind /\ job'[i].owner = job[i].owner
      /\ job'[i].wrote = job[i].wrote /\ job'[i].out = job[i].out
      /\ job'[i].saved = job[i].saved
      /\ At(i, "published") /\ job'[i].pc = "done" /\ held' = held
      /\ job[i].owner \in 1 .. cur /\ job[i].owner \in Managers
      /\ \A m \in Managers \ {job[i].owner} : table'[m][i] = table[m][i]
  BY <1>0 DEF CloseDone, IInv, Shape, SetEntry, At, JobType, Origin
<1>q. table'[job[i].owner][i] = [Entry(i) EXCEPT !.done = (@ \/ Entry(i).st # "none")]
  BY <1>0, <1>1 DEF CloseDone, IInv, Shape, SetEntry, At, JobType, Origin
<1>t. LET e == table'[job[i].owner][i] IN
        /\ e.st = table[job[i].owner][i].st /\ e.ev = table[job[i].owner][i].ev
        /\ e.com = table[job[i].owner][i].com
        /\ e.done <=> table[job[i].owner][i].done \/ table[job[i].owner][i].st # "none"
  BY <1>0, <1>1, <1>q DEF Entry, EntryType
<1>2. UNCHANGED <<mgr, cur, load, destroying, dropped, turn, reviewed>>
  BY DEF CloseDone
<1>o. Open /\ job[i].owner = cur =>
        \/ Own(i) /\ ~table[cur][i].com /\ (table[cur][i].ev <=> job[i].wrote)
           /\ i \notin turn.leases /\ table[cur][i].st \in Ended
        \/ table[cur][i].st = "none" /\ ~table[cur][i].done /\ i \in dropped
  BY <1>0, <1>1 DEF Promised, Told, Shown, Purged, Kept, OwnKept, Own, Carries, Fresh, At
<1>3. Booked'
  BY <1>0, <1>1, <1>t, <1>2, BookedKept DEF Promises, At, IInv, Shape, Owners, Managers
<1>4. Exclusive'
  BY <1>0, <1>1, <1>2 DEF CloseDone, Promises, Exclusive, Open
<1>5. Promised(i)'
  <2>1. Told(i)' /\ Purged(i)'
    BY <1>0, <1>1, <1>t, <1>o, <1>2 DEF Promised, Told, Purged, Starter, Starting, Own,
       Fresh, Open, Shown, At, Ended
  <2>2. Returned(i)'
    BY <1>0, <1>1, <1>t, <1>o, <1>2 DEF Promised, Returned, Entry, At, Ended
  <2>3. OnDisk(i)' /\ InLoad(i)' /\ InTable(i)'
    BY <1>0, <1>1, <1>t, <1>o, <1>2 DEF Promised, OnDisk, InLoad, InTable, Ends, Over,
       Owes, Answered, Open, At, Ended
  <2> QED BY <2>1, <2>2, <2>3 DEF Promised
<1>6. \A j \in Ids \ {i} : Promised(j)'
  BY <1>1, <1>2, Apart
<1> QED BY <1>3, <1>4, <1>5, <1>6 DEF Promises

\* A running job of the open manager is killed; it has not ended yet.
LEMMA PromiseKill ==
    ASSUME IInv, Kept, Promises, NEW i \in Ids, Kill(i)
    PROVE  Promises'
<1>0. /\ Promised(i) /\ job[i] \in JobType /\ disk[i] \in RecType
      /\ ~At(i, "none") => job[i].owner \in Managers
      /\ Open => cur \in Managers
      /\ \A m \in Managers : table[m][i] \in EntryType
  BY OwnerIsManager, Retype DEF Promises
<1>1. /\ \A j \in Ids \ {i} : job'[j] = job[j] /\ disk'[j] = disk[j] /\ notes'[j] = notes[j]
      /\ \A j \in Ids \ {i}, m \in Managers : table'[m][j] = table[m][j]
      /\ disk'[i] = disk[i] /\ notes'[i] = notes[i]
      /\ job'[i].pc = job[i].pc /\ job'[i].kind = job[i].kind
      /\ job'[i].owner = job[i].owner /\ job'[i].wrote = job[i].wrote
      /\ job'[i].out = job[i].out /\ job'[i].saved = job[i].saved
      /\ Open /\ cur \in Managers /\ job[i].owner = cur /\ table[cur][i].st = "running"
      /\ held' = held
      /\ \A m \in Managers \ {cur} : table'[m][i] = table[m][i]
  BY <1>0 DEF Kill, IInv, Shape, JobType, Mine, Spend, Ownership
<1>q. table'[cur][i] = [table[cur][i] EXCEPT !.st = "killed"]
  BY <1>0, <1>1 DEF Kill, IInv, Shape, JobType, Mine, Spend, Ownership
<1>t. LET e == table'[cur][i] IN
        /\ e.st = "killed" /\ e.done = table[cur][i].done
        /\ e.com = table[cur][i].com /\ e.ev = table[cur][i].ev
  BY <1>0, <1>1, <1>q DEF EntryType
<1>2. UNCHANGED <<mgr, cur, load, destroying, dropped, turn, reviewed>>
  BY DEF Kill
<1>o. /\ i \notin dropped /\ ~table[cur][i].done /\ i \notin turn.leases
      /\ job[i].pc \notin {"published", "done", "returned"} \/ Own(i)
  BY <1>0, <1>1 DEF Promised, Purged, InTable, Own, Fresh, At, Ended
<1>3. Booked'
  BY <1>0, <1>1, <1>t, <1>2, BookedKept DEF Promises, At, IInv, Shape, Owners, Managers
<1>4. Exclusive'
  BY <1>0, <1>1, <1>2 DEF Kill, Promises, Exclusive, Open
<1>5. Promised(i)'
  <2>1. Told(i)' /\ Purged(i)'
    BY <1>0, <1>1, <1>t, <1>o, <1>2 DEF Promised, Told, Purged, Starter, Starting, Own,
       Fresh, Open, Shown, At, Ended
  <2>2. Returned(i)'
    BY <1>0, <1>1, <1>t, <1>o, <1>2 DEF Promised, Returned, Entry, At, Ended
  <2>3. OnDisk(i)' /\ InLoad(i)' /\ InTable(i)'
    BY <1>0, <1>1, <1>t, <1>o, <1>2 DEF Promised, OnDisk, InLoad, InTable, Ends, Over,
       Owes, Answered, Open, At, Ended
  <2> QED BY <2>1, <2>2, <2>3 DEF Promised
<1>6. \A j \in Ids \ {i} : Promised(j)'
  BY <1>1, <1>2, Apart
<1> QED BY <1>3, <1>4, <1>5, <1>6 DEF Promises

-----------------------------------------------------------------------------
(* Loading, and turns *)

\* A step of the loader that has nothing but what is on disk in its hands.
LEMMA LoadOnly ==
    ASSUME IInv, Promises,
           UNCHANGED <<mgr, cur, table, job, disk, held, notes, turn, destroying, reviewed, dropped>>,
           load'.at \in {"read", "settle"} => turn.at = "idle" /\ ~destroying,
           \A j \in Ids :
             /\ j \in load'.todo => disk[j].st # "none"
             /\ load'.at = "settle" /\ load'.id = j => load'.meta = disk[j] /\ disk[j].st # "none"
    PROVE  Promises'
<1>1. Booked' /\ Exclusive'
  BY DEF Promises, Booked, Reserved, Ahead, Within, Claims, Unfinished, Mine, Exclusive, Open,
     Starter, Starting, At
<1>2. ASSUME NEW j \in Ids
      PROVE  Promised(j)'
  <2>1. Promised(j)
    BY DEF Promises
  <2>2. Told(j)' /\ Purged(j)' /\ Returned(j)'
    BY <2>1 DEF Promised, Told, Purged, Returned, Starter, Starting, Own, Fresh, Open,
       Shown, At,
       Entry
  <2>3. OnDisk(j)' /\ InLoad(j)' /\ InTable(j)'
    BY <2>1 DEF Promised, OnDisk, InLoad, InTable, Ends, Over, Owes, Answered, Open
  <2> QED BY <2>2, <2>3 DEF Promised
<1> QED BY <1>1, <1>2 DEF Promises

\* The loader lists the records.
LEMMA PromiseBeginLoad ==
    ASSUME IInv, Promises, BeginLoad
    PROVE  Promises'
<1> DEFINE S == {i \in Ids : disk[i].st # "none"}
<1>1. /\ load'.todo = S /\ load'.at \in {"idle", "read"}
  BY LoadTyped DEF BeginLoad
<1> QED BY <1>1, LoadOnly DEF BeginLoad

\* The loader reads one of them.
LEMMA PromiseLoadRead ==
    ASSUME IInv, Promises, NEW i \in Ids, LoadRead(i)
    PROVE  Promises'
<1>1. /\ load'.at = "settle" /\ load'.id = i /\ load'.meta = disk[i]
      /\ load'.todo = load.todo
      /\ load.at = "read" /\ i \in load.todo
  BY DEF LoadRead, IInv, Shape, LoadType
<1>2. \A j \in Ids : j \in load.todo => disk[j].st # "none"
  BY DEF Promises, Promised, InLoad
<1>3. turn.at = "idle" /\ ~destroying
  BY <1>1 DEF Promises, Exclusive
<1> QED BY <1>1, <1>2, <1>3, LoadOnly DEF LoadRead

\* The loader is done with a record: the job becomes a tombstone that shows what the
\* record says, or stays as it is in the table.
LEMMA Settling ==
    ASSUME IInv, Kept, Promises, load.at = "settle", NEW k \in Ids, k = load.id,
           UNCHANGED <<mgr, cur, job, held, notes, turn, destroying, reviewed, dropped>>,
           load'.at \in {"idle", "read"}, load'.todo \subseteq load.todo \ {k},
           \A j \in Ids \ {k} : disk'[j] = disk[j],
           \/ disk'[k] = disk[k]
           \/ disk'[k].st = "interrupted",
           NEW st, st \in Ended \cup {"interrupted"}, st \in Ended => st = load.meta.st,
           table' = table \/ Tombstone(st)
    PROVE  Promises'
<1>0. /\ Open /\ cur \in Managers /\ turn.at = "idle" /\ ~destroying
      /\ Promised(k)
  BY OwnerIsManager DEF IInv, Shape, Promises, Exclusive
<1>1. /\ \A m \in Managers, j \in Ids : m # cur \/ j # k => table'[m][j] = table[m][j]
      /\ \/ table'[cur][k] = table[cur][k]
         \/ /\ table[cur][k].st = "none" /\ table'[cur][k].st = st
            /\ table'[cur][k].ev = load.meta.ev /\ table'[cur][k].done
  BY <1>0 DEF Tombstone, Mine, IInv, Shape
<1>2. Booked'
  BY <1>0, <1>1, BookedKept DEF Promises, IInv, Shape, Owners, Managers
<1>3. Exclusive'
  BY <1>0 DEF Promises, Exclusive, Open
<1>4. ASSUME NEW j \in Ids, j # k
      PROVE  Promised(j)'
  <2>1. Promised(j) /\ disk'[j] = disk[j] /\ \A m \in Managers : table'[m][j] = table[m][j]
    BY <1>1, <1>4 DEF Promises
  <2>2. ~At(j, "none") => job[j].owner \in Managers
    BY OwnerIsManager
  <2>3. Told(j)' /\ Purged(j)' /\ Returned(j)'
    BY <1>0, <2>1, <2>2 DEF Promised, Told, Purged, Returned, Starter, Starting, Own,
       Fresh, Open,
       Shown, At, Entry
  <2>4. OnDisk(j)' /\ InLoad(j)' /\ InTable(j)'
    BY <1>0, <2>1 DEF Promised, OnDisk, InLoad, InTable, Ends, Over, Owes, Answered, Open
  <2> QED BY <2>3, <2>4 DEF Promised
<1>5. Promised(k)'
  <2>1. job[k].owner = cur => table'[cur][k] = table[cur][k]
    <3>1. job[k].owner = cur /\ ~Fresh(k) => Own(k)
      BY <1>0 DEF Promised, Purged, Own
    <3>2. Own(k) => table[cur][k].st # "none"
      BY <1>0 DEF Kept, OwnKept, Carries
    <3>3. ~Fresh(k)
      BY <1>0 DEF IInv, Origin
    <3> QED BY <1>1, <3>1, <3>2, <3>3
  <2>2. k \notin dropped \/ job[k].owner # cur
    BY <1>0 DEF Promised, Purged
  <2>3. ~At(k, "none") => job[k].owner \in Managers
    BY <1>0, OwnerIsManager
  <2>4. Told(k)' /\ Purged(k)'
    BY <1>0, <2>1, <2>2 DEF Promised, Told, Purged, Starter, Starting, Own, Fresh, Open,
       Shown, At
  <2>5. Returned(k)'
    BY <1>0, <1>1, <2>1, <2>3 DEF Promised, Returned, Entry, At
  <2>6. OnDisk(k)' /\ InLoad(k)'
    BY <1>0 DEF Promised, OnDisk, InLoad, Ends, Over, Owes, Answered, Ended
  <2>7. InTable(k)'
    BY <1>0, <1>1 DEF Promised, InTable, InLoad, Ends, Over, Owes, Answered, Open, Ended
  <2> QED BY <2>4, <2>5, <2>6, <2>7 DEF Promised
<1> QED BY <1>2, <1>3, <1>4, <1>5 DEF Promises

\* What the loader has left after a record.
LEMMA AfterRecord ==
    ASSUME IInv, load.at = "settle", NEW d \in BOOLEAN, Defers(d)
    PROVE  load'.at \in {"idle", "read"} /\ load'.todo = load.todo \ {load.id}
<1>1. load.todo \ {load.id} \in SUBSET Ids /\ load.deferred \in BOOLEAN
  BY DEF IInv, Shape, LoadType
<1> QED BY <1>1, LoadTyped DEF Defers

\* A terminal record becomes a tombstone with its evidence.
LEMMA PromiseLoadTerminal ==
    ASSUME IInv, Kept, Promises, LoadTerminal
    PROVE  Promises'
<1>1. load'.at \in {"idle", "read"} /\ load'.todo = load.todo \ {load.id}
  BY AfterRecord DEF LoadTerminal
<1>2. load.id \in Ids /\ load.meta.st \in Statuses \cup {"none"} /\ Promised(load.id)
  BY DEF LoadTerminal, IInv, Shape, LoadType, RecType, Promises
<1>3. load.meta.st \in Ended \cup {"interrupted"}
  BY <1>2 DEF LoadTerminal, Promised, InLoad, Ended, Statuses
<1> QED BY <1>1, <1>2, <1>3, Settling DEF LoadTerminal

\* A Running record is repaired as interrupted or left for a later bind.
LEMMA PromiseLoadRunning ==
    ASSUME IInv, Kept, Promises, LoadRunning
    PROVE  Promises'
<1>0. load.at = "settle" /\ load.id \in Ids
  BY DEF LoadRunning, IInv, Shape
<1>1. \E d \in BOOLEAN : Defers(d)
  BY DEF LoadRunning
<1>2. load'.at \in {"idle", "read"} /\ load'.todo = load.todo \ {load.id}
  BY <1>0, <1>1, AfterRecord
<1>3. CASE UNCHANGED <<disk, table>>
  BY <1>0, <1>2, <1>3, Settling DEF LoadRunning, Ended
<1>4. CASE disk' = [disk EXCEPT ![load.id] = [load.meta EXCEPT !.st = "interrupted"]]
           /\ Tombstone("interrupted")
  <2>1. disk'[load.id].st = "interrupted" /\ \A j \in Ids \ {load.id} : disk'[j] = disk[j]
    BY <1>0, <1>4 DEF IInv, Shape, LoadType, RecType
  <2> QED BY <1>0, <1>2, <1>4, <2>1, Settling DEF LoadRunning, Ended
<1> QED BY <1>3, <1>4 DEF LoadRunning

\* A step of the turn that changes no job, table or record: it may begin only when
\* nothing else has the session, and leases only what has ended.
LEMMA TurnOnly ==
    ASSUME IInv, Promises,
           UNCHANGED <<mgr, cur, table, job, disk, held, load, destroying, dropped>>,
           reviewed \subseteq reviewed', notes' \in [Ids -> {"no", "queued", "told"}],
           turn'.at # "idle" => ~destroying /\ load.at \notin {"read", "settle"},
           turn'.at = "idle" => turn'.leases = {},
           \A j \in Ids :
             /\ notes[j] # "no" => notes'[j] # "no"
             /\ notes'[j] = "queued" => notes[j] = "queued"
             /\ Starter(j) => turn'.at = "run"
             /\ Open /\ j \in turn'.leases =>
                  /\ table[cur][j].done
                  /\ j \in turn'.merged \/ table[cur][j].com \/ ~table[cur][j].ev
    PROVE  Promises'
<1>1. Booked' /\ Exclusive'
  BY DEF Promises, Booked, Reserved, Ahead, Within, Claims, Unfinished, Mine, Exclusive, Open,
     Starter, Starting, At
<1>2. ASSUME NEW j \in Ids
      PROVE  Promised(j)'
  <2>1. Promised(j)
    BY DEF Promises
  <2>2. Told(j)' /\ Purged(j)' /\ Returned(j)'
    BY <2>1 DEF Promised, Told, Purged, Returned, Starter, Starting, Own, Fresh, Open,
       Shown, At,
       Entry
  <2>3. OnDisk(j)' /\ InLoad(j)' /\ InTable(j)'
    BY <2>1 DEF Promised, OnDisk, InLoad, InTable, Ends, Over, Owes, Answered, Open
  <2> QED BY <2>2, <2>3 DEF Promised
<1> QED BY <1>1, <1>2 DEF Promises

\* What the turn has leased at any moment, from Promises.
LEMMA LeasesEnded ==
    ASSUME Promises
    PROVE  /\ notes \in [Ids -> {"no", "queued", "told"}]
           /\ turn.at # "idle" => ~destroying /\ load.at \notin {"read", "settle"}
           /\ \A j \in Ids :
                /\ Starter(j) => turn.at = "run"
                /\ Open /\ j \in turn.leases =>
                     /\ table[cur][j].done
                     /\ j \in turn.merged \/ table[cur][j].com \/ ~table[cur][j].ev
BY DEF Promises, Exclusive, Promised, Told, InTable

\* A turn begins: it leases what is pending, and takes the notes.
LEMMA PromiseBeginTurn ==
    ASSUME IInv, Promises, NEW plan \in BOOLEAN, BeginTurn(plan)
    PROVE  Promises'
<1>1. turn'.at = "run" /\ turn'.leases \subseteq Pending /\ turn'.merged = turn'.leases
  BY DEF BeginTurn, TurnLedger, NoTurn
<1>2. notes' \in [Ids -> {"no", "queued", "told"}]
  BY LeasesEnded DEF BeginTurn
<1>3. \A j \in Ids : /\ notes[j] # "no" => notes'[j] # "no"
                     /\ notes'[j] = "queued" => notes[j] = "queued"
  BY DEF BeginTurn
<1>4. ~destroying /\ load.at = "idle"
  BY DEF BeginTurn
<1>5. \A j \in Ids : j \in turn'.leases => table[cur][j].done /\ j \in turn'.merged
  BY <1>1 DEF Pending, Mine
<1> QED BY <1>1, <1>2, <1>3, <1>4, <1>5, TurnOnly DEF BeginTurn

\* A turn collects a job that has ended.
LEMMA PromiseCollect ==
    ASSUME IInv, Kept, Promises, NEW i \in Ids, Collect(i)
    PROVE  Promises'
<1>1. /\ turn'.at = turn.at /\ turn.at = "run"
      /\ turn'.leases = turn.leases \cup {i} /\ turn.merged \subseteq turn'.merged
      /\ i \in Pending => i \in turn'.merged
  BY DEF Collect, Kept, Answering, TurnType
<1>2. table[cur][i].done /\ (i \in turn'.merged \/ table[cur][i].com \/ ~table[cur][i].ev)
  BY <1>1 DEF Collect, Ready, Pending, Mine
<1> QED BY <1>1, <1>2, LeasesEnded, TurnOnly DEF Collect

\* A turn is delivered with what its ledger holds.
LEMMA PromiseDeliver ==
    ASSUME IInv, Kept, Promises, Deliver
    PROVE  Promises'
<1>1. turn.at = "run" /\ turn'.leases = turn.leases /\ turn'.merged = turn.merged
  BY DEF Deliver, Kept, Answering, TurnType
<1>2. \A j \in Ids : ~Starter(j)
  BY DEF Deliver, NoStarts, Starter
<1> QED BY <1>1, <1>2, LeasesEnded, TurnOnly DEF Deliver

\* A turn ends, delivered or not.
LEMMA PromiseTurnEnds ==
    ASSUME IInv, Promises, FailTurn \/ EndTurn
    PROVE  Promises'
<1>1. turn'.at = "idle" /\ turn'.leases = {} /\ UNCHANGED <<notes, reviewed>>
  BY DEF FailTurn, EndTurn, NoTurn
<1>2. \A j \in Ids : ~Starter(j)
  BY LeasesEnded DEF FailTurn, EndTurn, NoStarts, Starter
<1> QED BY <1>1, <1>2, LeasesEnded, TurnOnly DEF FailTurn, EndTurn

\* CommitEvidenceForSession: the evidence of an entry goes once a delivered turn had
\* it in its ledger, or when there is nothing to have.
LEMMA PromiseCommit ==
    ASSUME IInv, Kept, Promises, NEW i \in Ids, Commit(i)
    PROVE  Promises'
<1>0. /\ Open /\ cur \in Managers /\ turn.at = "commit" /\ i \in turn.leases
      /\ turn.merged \subseteq reviewed /\ Promised(i) /\ table[cur][i] \in EntryType
      /\ disk[i] \in RecType /\ job[i] \in JobType
  BY OwnerIsManager, Retype DEF Commit, IInv, Shape, Kept, Answering, Promises
<1>1. UNCHANGED <<mgr, cur, job, held, notes, load, destroying, reviewed, dropped>>
  BY DEF Commit
<1>2. /\ turn'.at = turn.at /\ turn'.merged = turn.merged
      /\ turn'.leases = turn.leases \ {i}
  BY DEF Commit, Kept, Answering, TurnType
<1>3. /\ table[cur][i].done
      /\ table[cur][i].st \in Ended \cup {"interrupted"}
      /\ Ends(i, table[cur][i].st, table[cur][i].ev)
      /\ i \in reviewed \/ table[cur][i].com \/ ~table[cur][i].ev
      /\ job[i].owner = cur => At(i, "done") /\ i \notin dropped
  <2>1. /\ table[cur][i].done
        /\ table[cur][i].st \in Ended \cup {"interrupted"}
        /\ Ends(i, table[cur][i].st, table[cur][i].ev)
        /\ i \in reviewed \/ table[cur][i].com \/ ~table[cur][i].ev
    BY <1>0 DEF Promised, InTable
  <2>2. ~Fresh(i)
    BY <1>0 DEF Kept, Unused
  <2>3. job[i].owner = cur => i \notin dropped
    BY <1>0, <2>1 DEF Promised, Purged
  <2>4. job[i].owner = cur => At(i, "done")
    BY <1>0, <2>1, <2>2, <2>3 DEF Kept, OwnKept, Own, Carries
  <2> QED BY <2>1, <2>3, <2>4
<1> DEFINE e == table[cur][i]
           r == Record(i, e.st, FALSE, cur)
<1>r. r \in RecType /\ r.st = e.st /\ ~r.ev
  <2>1. cur \in Owners /\ e.st \in Statuses \cup {"none"}
    BY <1>0 DEF EntryType, IInv, Shape
  <2> HIDE DEF e
  <2> QED BY <2>1 DEF Record, RecType
<1>4. /\ \A j \in Ids \ {i}, m \in Managers : table'[m][j] = table[m][j]
      /\ \A m \in Managers \ {cur} : table'[m][i] = table[m][i]
      /\ \/ table'[cur][i] = table[cur][i] /\ table[cur][i].com
         \/ ~table[cur][i].com /\ table'[cur][i] = [table[cur][i] EXCEPT !.com = TRUE, !.ev = FALSE]
  <2>1. CASE e.done /\ ~e.com
    <3>1. table' = [table EXCEPT ![cur][i].com = TRUE, ![cur][i].ev = FALSE]
      BY <2>1 DEF Commit, Mine
    <3> QED BY <1>0, <2>1, <3>1 DEF IInv, Shape
  <2>2. CASE ~(e.done /\ ~e.com)
    <3>1. table' = table
      BY <2>2 DEF Commit, Mine
    <3> QED BY <1>3, <2>2, <3>1
  <2> QED BY <2>1, <2>2
<1>5. /\ table'[cur][i].st = table[cur][i].st /\ table'[cur][i].done = table[cur][i].done
      /\ \/ table'[cur][i].ev = table[cur][i].ev
         \/ ~table'[cur][i].ev /\ ~table[cur][i].com
  BY <1>0, <1>4 DEF EntryType
<1>6. /\ \A j \in Ids \ {i} : disk'[j] = disk[j]
      /\ \/ disk'[i] = disk[i]
         \/ /\ disk'[i].st = table[cur][i].st /\ ~disk'[i].ev /\ i \in reviewed
  <2>1. CASE e.done /\ ~e.com /\ e.ev
    <3>1. Writes(i, r)
      BY <2>1 DEF Commit, Mine
    <3> HIDE DEF r
    <3>2. /\ disk'[i] = r \/ disk'[i] = disk[i]
          /\ \A j \in Ids \ {i} : disk'[j] = disk[j]
      BY <1>r, <3>1, WritesRecord
    <3> QED BY <1>3, <1>r, <2>1, <3>2
  <2>2. CASE ~(e.done /\ ~e.com /\ e.ev)
    <3>1. disk' = disk
      BY <2>2 DEF Commit, Mine
    <3> QED BY <3>1
  <2> QED BY <2>1, <2>2
<1> HIDE DEF e, r
<1>7. Booked'
  BY <1>0, <1>1, <1>4, <1>5, BookedKept DEF Promises, IInv, Shape, Owners, Managers
<1>8. Exclusive'
  BY <1>0, <1>1, <1>2 DEF Promises, Exclusive, Open
<1>9. Promised(i)'
  <2>1. Told(i)' /\ Purged(i)'
    BY <1>0, <1>1, <1>2, <1>3, <1>5
       DEF Promised, Told, Purged, Starter, Starting, Own, Fresh, Open, Shown, At
  <2>2. Returned(i)'
    <3>1. At(i, "returned") => job[i].owner \in Managers \ {cur}
      BY <1>3, OwnerIsManager DEF At
    <3> QED BY <1>0, <1>1, <1>4, <3>1 DEF Promised, Returned, Entry, At
  <2>3. OnDisk(i)' /\ InLoad(i)'
    BY <1>0, <1>1, <1>3, <1>6 DEF Promised, OnDisk, InLoad, Ends, Over, Owes, Answered,
       Ended
  <2>4. InTable(i)'
    BY <1>0, <1>1, <1>2, <1>3, <1>5 DEF InTable, Ends, Over, Owes, Answered, Ended
  <2> QED BY <2>1, <2>2, <2>3, <2>4 DEF Promised
<1>10. \A j \in Ids \ {i} : Promised(j)'
  BY <1>1, <1>2, <1>4, <1>6, Apart
<1> QED BY <1>7, <1>8, <1>9, <1>10 DEF Promises

-----------------------------------------------------------------------------
(* Managers *)

\* What stopping makes of an entry.
LEMMA StoppedEntry ==
    ASSUME NEW e \in EntryType
    PROVE  LET f == Stopped(e) IN
             /\ f.done = e.done /\ f.ev = e.ev /\ f.com = e.com
             /\ f.st = IF e.st = "running" /\ ~e.done THEN "killed" ELSE e.st
BY DEF Stopped, EntryType

\* The session's destruction begins: what runs is marked killed, no note is left.
LEMMA PromiseBeginDestroy ==
    ASSUME IInv, Kept, Promises, BeginDestroy
    PROVE  Promises'
<1>0. Open /\ cur \in Managers /\ turn.at = "idle" /\ load.at = "idle" /\ destroying'
  BY OwnerIsManager DEF BeginDestroy
<1>1. UNCHANGED <<mgr, cur, disk, held, turn, load, reviewed, dropped>>
  BY DEF BeginDestroy
<1>2. \A j \in Ids : /\ job'[j].pc = job[j].pc /\ job'[j].kind = job[j].kind
                     /\ job'[j].owner = job[j].owner /\ job'[j].wrote = job[j].wrote
                     /\ job'[j].out = job[j].out /\ job'[j].saved = job[j].saved
  BY DEF BeginDestroy, IInv, Shape, JobType
<1>3. /\ \A m \in Managers \ {cur}, j \in Ids : table'[m][j] = table[m][j]
      /\ \A j \in Ids : table'[cur][j] = Stopped(table[cur][j])
  BY <1>0 DEF BeginDestroy, Mine, IInv, Shape
<1>4. \A j \in Ids : LET e == table[cur][j] f == table'[cur][j] IN
        /\ f.done = e.done /\ f.ev = e.ev /\ f.com = e.com
        /\ f.st = IF e.st = "running" /\ ~e.done THEN "killed" ELSE e.st
  BY <1>0, <1>3, StoppedEntry, Retype
<1>5. notes' \in [Ids -> {"no", "queued", "told"}] /\ \A j \in Ids : notes'[j] # "queued"
  BY DEF BeginDestroy, Promises, Exclusive
<1>6. Booked'
  BY <1>0, <1>1, <1>2, <1>3, <1>4, BookedKept DEF Promises, IInv, Shape, Owners, Managers
<1>7. Exclusive'
  BY <1>0, <1>1, <1>5 DEF Promises, Exclusive, Open
<1>8. ASSUME NEW j \in Ids
      PROVE  Promised(j)'
  <2>1. Promised(j) /\ (Own(j) => Carries(j, table[cur][j]))
    BY DEF Promises, Kept, OwnKept
  <2>2. ~At(j, "none") => job[j].owner \in Managers
    BY OwnerIsManager
  <2>3. Told(j)' /\ Purged(j)'
    BY <1>0, <1>1, <1>2, <1>4, <1>5, <2>1
       DEF Promised, Told, Purged, Starter, Starting, Own, Fresh, Open, Shown, At, Carries, Ended
  <2>4. Returned(j)'
    BY <1>1, <1>2, <1>3, <1>4, <2>1, <2>2 DEF Promised, Returned, Entry, At
  <2>5. OnDisk(j)' /\ InLoad(j)'
    BY <1>1, <1>2, <2>1 DEF Promised, OnDisk, InLoad, Ends, Over, Owes, Answered
  <2>6. InTable(j)'
    BY <1>0, <1>1, <1>2, <1>4, <2>1
       DEF Promised, InTable, Ends, Over, Owes, Answered, Open, Ended
  <2> QED BY <2>3, <2>4, <2>5, <2>6 DEF Promised
<1> QED BY <1>6, <1>7, <1>8 DEF Promises

\* The session is gone: every job of it has unwound.
LEMMA PromiseFinishDestroy ==
    ASSUME IInv, Kept, Promises, FinishDestroy
    PROVE  Promises'
<1>0. /\ Open /\ cur \in Managers /\ destroying /\ ~destroying' /\ destroying' \in BOOLEAN
      /\ turn.at = "idle" /\ turn.leases = {}
  BY OwnerIsManager DEF FinishDestroy, Promises, Exclusive
<1>1. UNCHANGED <<mgr, cur, job, held, notes, turn, reviewed>>
  BY DEF FinishDestroy
<1>2. /\ \A j \in Ids : disk'[j].st = "none" /\ (j \in dropped' <=> ~At(j, "none"))
      /\ load'.at = "unbound" /\ load'.todo = {}
  BY LoadTyped DEF FinishDestroy, NoRec
<1>3. /\ \A m \in Managers \ {cur}, j \in Ids : table'[m][j] = table[m][j]
      /\ \A j \in Ids : table'[cur][j].st = "none" /\ ~table'[cur][j].done
  BY <1>0 DEF FinishDestroy, NoEntry, IInv, Shape
<1>4. Booked'
  BY <1>0, <1>1, <1>3, BookedKept DEF Promises, IInv, Shape, Owners, Managers
<1>5. Exclusive'
  BY <1>0, <1>1, <1>2 DEF Promises, Exclusive, Open
<1>6. ASSUME NEW j \in Ids
      PROVE  Promised(j)'
  <2>1. Promised(j)
    BY DEF Promises
  <2>2. job[j].owner = cur /\ ~At(j, "none") => job[j].pc \in {"published", "done", "gone"}
    <3>1. CASE j \in dropped
      BY <2>1, <3>1 DEF Promised, Purged
    <3>2. CASE Own(j)
      <4>1. Carries(j, table[cur][j]) /\ Shown(j, table[cur][j])
        BY <2>1, <3>2 DEF Promised, Told, Kept, OwnKept
      <4>2. table[cur][j].st = "killed" => table[cur][j].done
        BY DEF FinishDestroy, Unwound, Mine
      <4> QED BY <1>0, <4>1, <4>2 DEF Carries, Shown, At
    <3>3. CASE Fresh(j)
      BY <1>0, <2>1, <3>3 DEF Promised, Told, Starter, Starting, Fresh, At
    <3> QED BY <1>0, <3>1, <3>2, <3>3 DEF Own
  <2>3. Told(j)'
    BY <1>0, <1>1, <1>2, <2>1 DEF Promised, Told, Starter, Starting, Own, Fresh, Open, At
  <2>4. Purged(j)'
    BY <1>1, <1>2, <1>3, <2>2 DEF Purged, At
  <2>5. Returned(j)'
    BY <1>1, <1>2, <2>1 DEF Promised, Returned, At
  <2>6. OnDisk(j)' /\ InLoad(j)'
    BY <1>1, <1>2, <2>1 DEF Promised, OnDisk, InLoad, Ends, Over, Ended, At
  <2>7. InTable(j)'
    BY <1>0, <1>1, <1>3 DEF InTable
  <2> QED BY <2>3, <2>4, <2>5, <2>6, <2>7 DEF Promised
<1> QED BY <1>4, <1>5, <1>6 DEF Promises

\* The manager closes: nothing is open any more, and what runs keeps its evidence.
LEMMA PromiseClose ==
    ASSUME IInv, Kept, Promises, Close
    PROVE  Promises'
<1>0. Open /\ cur \in Managers
  BY OwnerIsManager DEF Close
<1>1. /\ UNCHANGED <<cur, disk, reviewed, dropped>> /\ ~Open'
      /\ held' = {} /\ turn'.at = "idle" /\ turn'.leases = {} /\ ~destroying'
      /\ destroying' \in BOOLEAN
      /\ load'.at = "unbound" /\ load'.todo = {}
  BY <1>0, LoadTyped DEF Close, Open, NoTurn, IInv, Shape
<1>2. \A j \in Ids : /\ job'[j].pc = job[j].pc /\ job'[j].kind = job[j].kind
                     /\ job'[j].owner = job[j].owner /\ job'[j].wrote = job[j].wrote
                     /\ job'[j].out = job[j].out /\ job'[j].saved = job[j].saved
  BY DEF Close, RootCancelled, IInv, Shape, JobType
<1>3. /\ \A m \in Managers \ {cur}, j \in Ids : table'[m][j] = table[m][j]
      /\ \A j \in Ids : table'[cur][j] = Stopped(table[cur][j])
  BY <1>0 DEF Close, Mine, IInv, Shape
<1>4. \A m \in Managers, j \in Ids : table'[m][j].ev = table[m][j].ev
  BY <1>0, <1>3, StoppedEntry, Retype
<1>5. notes' \in [Ids -> {"no", "queued", "told"}] /\ \A j \in Ids : notes'[j] = "no"
  BY DEF Close
<1>6. Booked'
  BY <1>0, <1>1, <1>3
     DEF Promises, Booked, Reserved, Ahead, Within, Starter, IInv, Shape, Owners, Managers
<1>7. Exclusive'
  BY <1>1, <1>5 DEF Exclusive
<1>8. ASSUME NEW j \in Ids
      PROVE  Promised(j)'
  <2>1. Promised(j) /\ (~At(j, "none") => job[j].owner \in Managers)
    BY OwnerIsManager DEF Promises
  <2>2. Told(j)' /\ Purged(j)'
    BY <1>1, <1>2, <1>5, <2>1 DEF Promised, Told, Purged, Starter, Own, At
  <2>3. Returned(j)'
    BY <1>1, <1>2, <1>4, <2>1 DEF Promised, Returned, Entry, At
  <2>4. OnDisk(j)' /\ InLoad(j)' /\ InTable(j)'
    BY <1>1, <1>2, <2>1 DEF Promised, OnDisk, InLoad, InTable, Ends, Over, Owes, Answered
  <2> QED BY <2>2, <2>3, <2>4 DEF Promised
<1> QED BY <1>6, <1>7, <1>8 DEF Promises

\* A closed manager gives up its ownership; no run of its own is between its return
\* and its record.
LEMMA PromiseReleaseOwner ==
    ASSUME IInv, Kept, Promises, NEW m \in Managers, ReleaseOwner(m)
    PROVE  Promises'
<1>1. UNCHANGED <<cur, job, disk, held, notes, turn, load, destroying, reviewed, dropped>>
  BY DEF ReleaseOwner
<1>2. (Open' <=> Open) /\ (Open => cur \in Managers \ {m})
  BY OwnerIsManager DEF ReleaseOwner, Open, IInv, Shape, Managers, Owners
<1>3. /\ \A n \in Managers \ {m}, j \in Ids : table'[n][j] = table[n][j]
      /\ \A j \in Ids : \/ table'[m][j] = table[m][j]
                        \/ table'[m][j].st = "none" /\ ~table'[m][j].done
  BY DEF ReleaseOwner, NoEntry, IInv, Shape
<1>4. Booked'
  <2>1. Reserved'
    BY <1>1, <1>2 DEF Promises, Booked, Reserved, At, Starter, Starting
  <2>2. Ahead'
    BY <1>1, <1>3 DEF Promises, Booked, Ahead
  <2>3. Open => Unfinished("task")' \subseteq Claims
    BY <1>1, <1>2, <1>3 DEF Unfinished, Claims, Mine
  <2> QED BY <1>1, <1>2, <2>1, <2>2, <2>3, StaysWithin DEF Promises, Booked
<1>5. Exclusive'
  BY <1>1, <1>2 DEF Promises, Exclusive
<1>6. ASSUME NEW j \in Ids
      PROVE  Promised(j)'
  <2>1. Promised(j) /\ (~At(j, "none") => job[j].owner \in Managers)
    BY OwnerIsManager DEF Promises
  <2>2. Told(j)' /\ Purged(j)'
    BY <1>1, <1>2, <1>3, <2>1
       DEF Promised, Told, Purged, Starter, Starting, Own, Fresh, Shown, At
  <2>3. Returned(j)'
    <3>1. At(j, "returned") => job[j].owner # m
      BY DEF ReleaseOwner, Counted, At
    <3> QED BY <1>1, <1>3, <2>1, <3>1 DEF Promised, Returned, Entry, At
  <2>4. OnDisk(j)' /\ InLoad(j)' /\ InTable(j)'
    BY <1>1, <1>2, <1>3, <2>1 DEF Promised, OnDisk, InLoad, InTable, Ends, Over, Owes,
       Answered
  <2> QED BY <2>2, <2>3, <2>4 DEF Promised
<1> QED BY <1>4, <1>5, <1>6 DEF Promises

\* The process ends: only the records are left.
LEMMA PromiseExit ==
    ASSUME IInv, Kept, Promises, Exit
    PROVE  Promises'
<1>1. /\ UNCHANGED <<cur, disk, reviewed, dropped>>
      /\ held' = {} /\ turn'.at = "idle" /\ turn'.leases = {} /\ ~destroying'
      /\ destroying' \in BOOLEAN
      /\ load'.at = "unbound" /\ load'.todo = {}
  BY LoadTyped DEF Exit, NoTurn
<1>2. ~Open'
  <2>1. \A m \in Managers : mgr'[m] # "open"
    BY DEF Exit
  <2>2. cur # 0 => cur \in Managers
    BY DEF IInv, Shape, Owners, Managers
  <2> QED BY <1>1, <2>1, <2>2 DEF Open
<1>3. ASSUME NEW j \in Ids
      PROVE  /\ job'[j].pc = IF job[j].pc \in {"none", "done"} THEN job[j].pc ELSE "gone"
             /\ job'[j].kind = job[j].kind /\ job'[j].wrote = job[j].wrote
             /\ job'[j].saved = job[j].saved
  <2>1. CASE job[j].pc \in {"none", "done"}
    BY <2>1 DEF Exit
  <2>2. CASE job[j].pc \notin {"none", "done"}
    <3>1. job'[j] = [job[j] EXCEPT !.pc = "gone", !.ctx = "live", !.out = "running"]
      BY <2>2 DEF Exit
    <3> QED BY <2>2, <3>1, Retype DEF JobType
  <2> QED BY <2>1, <2>2
<1>4. \A m \in Managers, j \in Ids : table'[m][j].st = "none" /\ ~table'[m][j].done
  BY DEF Exit, NoEntry
<1>5. notes' \in [Ids -> {"no", "queued", "told"}] /\ \A j \in Ids : notes'[j] = "no"
  BY DEF Exit
<1>6. Booked'
  BY <1>1, <1>2, <1>4 DEF Booked, Reserved, Ahead, Within, Starter
<1>7. Exclusive'
  BY <1>1, <1>5 DEF Exclusive
<1>8. ASSUME NEW j \in Ids
      PROVE  Promised(j)'
  <2>1. Promised(j)
    BY DEF Promises
  <2>2. Told(j)' /\ Purged(j)'
    BY <1>1, <1>2, <1>3, <1>5, <2>1 DEF Promised, Told, Purged, Starter, Own, At
  <2>3. Returned(j)'
    BY <1>3 DEF Returned, At
  <2>4. OnDisk(j)' /\ InLoad(j)' /\ InTable(j)'
    BY <1>1, <1>2, <1>3, <2>1 DEF Promised, OnDisk, InLoad, InTable, Ends, Over, Owes,
       Answered
  <2> QED BY <2>2, <2>3, <2>4 DEF Promised
<1> QED BY <1>6, <1>7, <1>8 DEF Promises

\* A successor starts with an empty table and owns no job yet.
LEMMA PromiseNewManager ==
    ASSUME IInv, Kept, Promises, NewManager
    PROVE  Promises'
<1>1. /\ UNCHANGED <<table, job, disk, held, notes, turn, load, destroying, reviewed, dropped>>
      /\ cur' = cur + 1 /\ cur' \in Managers /\ cur \in Nat /\ ~Open
  BY JobsAssumption DEF NewManager, IInv, Shape, Owners, Managers
<1>2. \A j \in Ids : ~At(j, "none") => job[j].owner # cur'
  BY <1>1 DEF IInv, Origin
<1>3. \A j \in Ids : table[cur'][j].st = "none" /\ ~table[cur'][j].done
  BY <1>1 DEF Promises, Booked, Ahead
<1>4. held = {} /\ ~destroying /\ turn.at = "idle" /\ turn.leases = {}
  BY <1>1 DEF Promises, Booked, Reserved, Exclusive, IInv, Shape
<1>5. Booked'
  <2>1. Reserved'
    BY <1>1, <1>2, <1>4 DEF Reserved, Starter, Starting, At
  <2>2. Ahead'
    BY <1>1 DEF Promises, Booked, Ahead, Managers
  <2>3. Claims' = {}
    BY <1>1, <1>3, <1>4 DEF Claims, Unfinished, Mine
  <2>4. Within'
    BY <2>3, FS_EmptySet, JobsAssumption DEF Within
  <2> QED BY <2>1, <2>2, <2>4 DEF Booked
<1>6. Exclusive'
  BY <1>1, <1>4 DEF Promises, Exclusive
<1>7. ASSUME NEW j \in Ids
      PROVE  Promised(j)'
  <2>1. Promised(j)
    BY DEF Promises
  <2>2. Told(j)' /\ Purged(j)'
    BY <1>1, <1>2, <1>4, <2>1 DEF Promised, Told, Purged, Starter, Starting, Own, Fresh, At
  <2>3. Returned(j)'
    BY <1>1, <2>1 DEF Promised, Returned, Entry, At
  <2>4. OnDisk(j)' /\ InLoad(j)'
    BY <1>1, <2>1 DEF Promised, OnDisk, InLoad, Ends, Over, Owes, Answered
  <2>5. InTable(j)'
    BY <1>1, <1>3, <1>4 DEF InTable
  <2> QED BY <2>2, <2>3, <2>4, <2>5 DEF Promised
<1> QED BY <1>5, <1>6, <1>7 DEF Promises

-----------------------------------------------------------------------------
(* The invariant *)

\* Nothing has been started, noted or recorded.
LEMMA InitPromises == Init => Promises
<1> SUFFICES ASSUME Init
             PROVE  Promises
  OBVIOUS
<1>1. /\ \A i \in Ids : /\ job[i].pc = "none" /\ ~job[i].saved /\ disk[i].st = "none"
                        /\ notes[i] = "no"
      /\ \A m \in Managers, i \in Ids : table[m][i].st = "none" /\ ~table[m][i].done
      /\ cur = 0 /\ turn.at = "idle" /\ turn.leases = {} /\ ~destroying
      /\ destroying \in BOOLEAN
      /\ load.at = "unbound" /\ load.todo = {} /\ held = {} /\ dropped = {}
      /\ notes \in [Ids -> {"no", "queued", "told"}]
  BY LoadTyped DEF Init, NoJob, NoRec, NoEntry, NoTurn
<1>2. Booked
  BY <1>1 DEF Booked, Reserved, Ahead, Within, Starter, Open
<1>3. Exclusive
  BY <1>1 DEF Exclusive
<1>4. ASSUME NEW i \in Ids
      PROVE  Promised(i)
  <2>1. Told(i) /\ Purged(i) /\ Returned(i)
    BY <1>1 DEF Told, Purged, Returned, Starter, Own, Open, At
  <2>2. OnDisk(i) /\ InLoad(i) /\ InTable(i)
    BY <1>1 DEF OnDisk, InLoad, InTable, Ends, Ended, Open
  <2> QED BY <2>1, <2>2 DEF Promised
<1> QED BY <1>2, <1>3, <1>4 DEF Promises

\* A step that changes nothing.
LEMMA PromiseStutter ==
    ASSUME IInv, Promises, UNCHANGED vars
    PROVE  Promises'
<1>1. UNCHANGED <<mgr, cur, table, job, disk, held, notes, turn, load, destroying, dropped, reviewed>>
  BY DEF vars
<1>2. turn.at = "idle" => turn.leases = {}
  BY DEF Promises, Exclusive
<1> QED BY <1>1, <1>2, LeasesEnded, TurnOnly

\* Every step keeps the promises.
LEMMA NextPromises == IInv /\ Kept /\ Promises /\ [Next]_vars => Promises'
<1> SUFFICES ASSUME IInv, Kept, Promises, [Next]_vars
             PROVE  Promises'
  OBVIOUS
<1>1. CASE UNCHANGED vars
  BY <1>1, PromiseStutter
<1>2. ASSUME NEW i \in Ids, Reserve(i) \/ Abandon(i) \/ StartFleet(i) \/ Start(i)
      PROVE  Promises'
  BY <1>2, PromiseReserve, PromiseAbandon, PromiseStartFleet, PromiseRegister,
     PromiseWriteRunning, PromiseLaunch, PromiseReleaseStart DEF Start
<1>3. ASSUME NEW i \in Ids,
             Mutate(i) \/ Return(i) \/ Goroutine(i) \/ Kill(i) \/ CancelCtx(i)
      PROVE  Promises'
  BY <1>3, PromiseMutate, PromiseReturn, PromiseWriteTerminal, PromiseRecordCompletion,
     PromisePublish, PromiseCloseDone, PromiseKill, PromiseCancelCtx DEF Goroutine
<1>4. ASSUME NEW i \in Ids, LoadRead(i) \/ Collect(i) \/ Commit(i)
      PROVE  Promises'
  BY <1>4, PromiseLoadRead, PromiseCollect, PromiseCommit
<1>5. CASE BeginDestroy \/ FinishDestroy \/ Close \/ Exit \/ NewManager
  BY <1>5, PromiseBeginDestroy, PromiseFinishDestroy, PromiseClose, PromiseExit,
     PromiseNewManager
<1>6. ASSUME NEW m \in Managers, ReleaseOwner(m)
      PROVE  Promises'
  BY <1>6, PromiseReleaseOwner
<1>7. CASE BeginLoad \/ LoadTerminal \/ LoadRunning
  BY <1>7, PromiseBeginLoad, PromiseLoadTerminal, PromiseLoadRunning
<1>8. ASSUME NEW plan \in BOOLEAN, BeginTurn(plan)
      PROVE  Promises'
  BY <1>8, PromiseBeginTurn
<1>9. CASE Deliver \/ FailTurn \/ EndTurn
  BY <1>9, PromiseDeliver, PromiseTurnEnds
<1> QED BY <1>1, <1>2, <1>3, <1>4, <1>5, <1>6, <1>7, <1>8, <1>9 DEF Next

\* What the manager promises holds in every reachable state, for any number of jobs
\* and managers, any limit and any faults.
THEOREM PromisesKept == Spec => []Promises
<1>1. Init => Promises
  BY InitPromises
<1>2. IInv /\ Kept /\ Promises /\ [Next]_vars => Promises'
  BY NextPromises
<1>3. Spec => []IInv
  BY JobsInvariant
<1>4. Spec => []Kept
  BY EvidenceKept
<1> QED BY <1>1, <1>2, <1>3, <1>4, PTL DEF Spec

\* Types; and the tasks of a session never exceed maxConcurrentBackgroundTasks,
\* although ReserveStartForSession counts before StartForSession registers.
THEOREM LimitHolds == Spec => []TypeOK
<1>1. IInv /\ Kept /\ Promises => TypeOK
  <2> SUFFICES ASSUME IInv, Kept, Promises
               PROVE  TypeOK
    OBVIOUS
  <2>1. /\ mgr \in [Managers -> {"none", "open", "closing", "closed"}]
        /\ cur \in 0 .. MaxManagers
    BY DEF IInv, Shape, Owners
  <2>2. ASSUME NEW i \in Ids
        PROVE  /\ job[i].pc \in {"none", "called", "registered", "recorded", "running",
                                 "refused", "returned", "written", "noted", "published",
                                 "done", "gone"}
               /\ disk[i].st \in Statuses \cup {"none"}
               /\ notes[i] \in {"no", "queued", "told"}
               /\ \A m \in Managers : table[m][i].st \in Statuses \cup {"none"}
    BY Retype DEF JobType, Pcs, RecType, EntryType, Promises, Exclusive
  <2>3. turn.leases \subseteq Ids /\ load.todo \subseteq Ids
    BY DEF IInv, Shape, LoadType, Kept, Answering, TurnType
  <2>4. ASSUME Open
        PROVE  Cardinality(Unfinished("task")) <= Limit
    <3>1. Claims \subseteq Ids /\ Unfinished("task") \subseteq Claims
      BY DEF Claims, Unfinished, Promises, Booked, Reserved
    <3>2. /\ IsFiniteSet(Claims) /\ Cardinality(Claims) \in Nat
          /\ Cardinality(Unfinished("task")) \in Nat
      BY <3>1, Countable
    <3>3. Cardinality(Unfinished("task")) <= Cardinality(Claims)
      BY <3>1, <3>2, FS_Subset
    <3>4. Cardinality(Claims) <= Limit
      BY <2>4 DEF Promises, Booked, Within
    <3> HIDE DEF Claims, Unfinished
    <3> QED BY <3>2, <3>3, <3>4, JobsAssumption
  <2> QED BY <2>1, <2>2, <2>3, <2>4 DEF TypeOK
<1> QED BY <1>1, JobsInvariant, EvidenceKept, PromisesKept, PTL

\* A job seen as done or failed, or whose done channel is closed, has its note
\* queued or told, and none is queued for a destroyed session (recordCompletion).
THEOREM NotesAreThere == Spec => []NotesMatch
<1>1. IInv /\ Kept /\ Promises => NotesMatch
  <2> SUFFICES ASSUME IInv, Kept, Promises, Open, NEW i \in Ids
               PROVE  /\ table[cur][i].st \in {"done", "failed"} \/ table[cur][i].done
                         => notes[i] # "no" \/ destroying \/ job[i].owner # cur
                      /\ notes[i] = "queued" => ~destroying /\ i \notin dropped
    BY DEF NotesMatch, Mine
  <2>1. Promised(i)
    BY DEF Promises
  <2>2. CASE Own(i)
    <3>1. Carries(i, table[cur][i])
      BY <2>2 DEF Kept, OwnKept
    <3> QED BY <2>1, <2>2, <3>1 DEF Promised, Told, Shown, Carries, At
  <2>3. CASE i \in dropped
    BY <2>1, <2>3 DEF Promised, Told, Purged
  <2>4. CASE Fresh(i)
    BY <2>1, <2>4, OwnerIsManager DEF Promised, Told, Kept, Unused, IInv, Origin
  <2>5. CASE job[i].owner # cur
    BY <2>1, <2>5 DEF Promised, Told
  <2> QED BY <2>2, <2>3, <2>4, <2>5 DEF Own
<1> QED BY <1>1, JobsInvariant, EvidenceKept, PromisesKept, PTL

\* The changes of a finished task wait for a delivered turn, in the open manager's
\* table and in the record a successor loads, whatever is killed, failed, closed or
\* restarted in between.
THEOREM TaskChangesWait == Spec => []ChangesWait
<1>1. IInv /\ Kept /\ Promises => ChangesWait
  <2> SUFFICES ASSUME IInv, Kept, Promises, NEW i \in Ids, job[i].kind = "task"
               PROVE  Offered(i) /\ Filed(i)
    BY DEF ChangesWait
  <2>1. Promised(i)
    BY DEF Promises
  <2>2. Offered(i)
    BY <2>1 DEF Promised, InTable, Ends, Owes, Offered, Mine
  <2>3. Filed(i)
    BY <2>1 DEF Promised, OnDisk, Ends, Owes, Filed, Answered
  <2> QED BY <2>2, <2>3
<1> QED BY <1>1, JobsInvariant, EvidenceKept, PromisesKept, PTL

-----------------------------------------------------------------------------
(* Nothing ships unreviewed *)

\* Evidence that was committed is gone from the table.
CommitsClear == Open => \A i \in Ids : table[cur][i].done /\ table[cur][i].com => ~table[cur][i].ev

\* A goroutine of the open manager that has not ended has committed nothing.
LEMMA NotCommitted ==
    ASSUME IInv, Kept, Promises, Open, NEW i \in Ids, job[i].owner = cur,
           job[i].pc \in {"running", "refused", "published"}
    PROVE  \/ ~table[cur][i].com
           \/ i \in dropped /\ At(i, "published") /\ ~table[cur][i].done /\ table[cur][i].st = "none"
<1>1. Promised(i)
  BY DEF Promises
<1>2. CASE i \in dropped
  BY <1>1, <1>2 DEF Promised, Purged, At
<1>3. CASE i \notin dropped
  <2>1. Own(i)
    BY <1>3 DEF Own, Fresh
  <2> QED BY <2>1 DEF Kept, OwnKept, Carries, At
<1> QED BY <1>2, <1>3

\* One entry changes, and not to committed evidence that is still there.
LEMMA ClearEntry ==
    ASSUME IInv, CommitsClear, UNCHANGED <<mgr, cur>>, NEW m \in Managers, NEW i \in Ids, NEW e,
           table' = [table EXCEPT ![m][i] = e],
           Open /\ m = cur => ~e.done \/ ~e.com \/ ~e.ev
    PROVE  CommitsClear'
<1> SUFFICES ASSUME Open, NEW j \in Ids
             PROVE  ~table'[cur][j].done \/ ~table'[cur][j].com \/ ~table'[cur][j].ev
  BY DEF CommitsClear, Open
<1>1. cur \in Managers
  BY OwnerIsManager
<1>2. CASE m = cur /\ j = i
  <2>1. table'[cur][j] = e
    BY <1>1, <1>2 DEF IInv, Shape
  <2> QED BY <1>2, <2>1
<1>3. CASE ~(m = cur /\ j = i)
  <2>1. table'[cur][j] = table[cur][j]
    BY <1>1, <1>3 DEF IInv, Shape
  <2> QED BY <2>1, Zenon DEF CommitsClear
<1> QED BY <1>2, <1>3

\* The steps of one job.
LEMMA ClearJob ==
    ASSUME IInv, Kept, Promises, CommitsClear, NEW i \in Ids,
           \/ Reserve(i) \/ Abandon(i) \/ StartFleet(i) \/ Start(i)
           \/ Mutate(i) \/ Return(i) \/ Goroutine(i) \/ Kill(i) \/ CancelCtx(i)
           \/ LoadRead(i) \/ Collect(i) \/ Commit(i)
    PROVE  CommitsClear'
<1>1. CASE UNCHANGED <<mgr, cur, table>>
  BY <1>1 DEF CommitsClear, Open
<1>2. CASE Register(i)
  BY <1>2, OwnerIsManager, ClearEntry DEF Register, SetEntry, NoEntry, At
<1>3. CASE Return(i)
  <2>1. Open => job[i].owner # cur \/ ~table[cur][i].com
    BY <1>3, NotCommitted DEF Return, At
  <2>2. job[i].owner \in Managers /\ Entry(i) \in EntryType
    BY <1>3, OwnerIsManager, Retype DEF Return, At, Entry
  <2> DEFINE e == [Entry(i) EXCEPT !.ev = job[i].wrote]
  <2>3. e.com = Entry(i).com
    BY <2>2 DEF EntryType
  <2>4. table' = [table EXCEPT ![job[i].owner][i] = e] /\ UNCHANGED <<mgr, cur>>
    BY <1>3 DEF Return, SetEntry
  <2> HIDE DEF e
  <2> QED BY <2>1, <2>2, <2>3, <2>4, ClearEntry DEF Entry
<1>4. CASE Publish(i)
  <2>1. job[i].owner \in Managers /\ Entry(i) \in EntryType
    BY <1>4, OwnerIsManager, Retype DEF Publish, At, Entry
  <2>2. /\ Published(i).com = Entry(i).com /\ Published(i).done = Entry(i).done
        /\ Published(i).ev = Entry(i).ev
    BY <2>1 DEF EntryType, Published
  <2>3. table' = [table EXCEPT ![job[i].owner][i] = Published(i)] /\ UNCHANGED <<mgr, cur>>
    BY <1>4 DEF Publish, SetEntry
  <2>4. Open /\ job[i].owner = cur => ~Entry(i).done \/ ~Entry(i).com \/ ~Entry(i).ev
    BY Zenon DEF CommitsClear, Entry
  <2> QED BY <2>1, <2>2, <2>3, <2>4, ClearEntry
<1>5. CASE CloseDone(i)
  <2>1. \/ ~Open \/ job[i].owner # cur \/ ~table[cur][i].com
        \/ ~table[cur][i].done /\ table[cur][i].st = "none"
    BY <1>5, NotCommitted DEF CloseDone, At
  <2>2. job[i].owner \in Managers /\ Entry(i) \in EntryType
    BY <1>5, OwnerIsManager, Retype DEF CloseDone, At, Entry
  <2> DEFINE e == [Entry(i) EXCEPT !.done = (@ \/ Entry(i).st # "none")]
  <2>3. e.com = Entry(i).com /\ e.done = (Entry(i).done \/ Entry(i).st # "none")
    BY <2>2 DEF EntryType
  <2>4. table' = [table EXCEPT ![job[i].owner][i] = e] /\ UNCHANGED <<mgr, cur>>
    BY <1>5 DEF CloseDone, SetEntry
  <2>5. Open /\ job[i].owner = cur => ~e.com \/ ~e.done
    BY <2>1, <2>3 DEF Entry
  <2> HIDE DEF e
  <2> QED BY <2>2, <2>4, <2>5, ClearEntry
<1>6. CASE Kill(i)
  <2> DEFINE e == [table[cur][i] EXCEPT !.st = "killed"]
  <2>1. Open /\ cur \in Managers /\ table[cur][i] \in EntryType
    BY <1>6, OwnerIsManager, Retype DEF Kill
  <2>2. e.com = table[cur][i].com /\ e.done = table[cur][i].done /\ e.ev = table[cur][i].ev
    BY <2>1 DEF EntryType
  <2>3. table' = [table EXCEPT ![cur][i] = e] /\ UNCHANGED <<mgr, cur>>
    BY <1>6, <2>1 DEF Kill, IInv, Shape
  <2>4. ~table[cur][i].done \/ ~table[cur][i].com \/ ~table[cur][i].ev
    BY <2>1, Zenon DEF CommitsClear
  <2> HIDE DEF e
  <2> QED BY <2>1, <2>2, <2>3, <2>4, ClearEntry
<1>7. CASE Commit(i)
  <2> DEFINE e == [table[cur][i] EXCEPT !.com = TRUE, !.ev = FALSE]
  <2>1. UNCHANGED <<mgr, cur>> /\ turn.at # "idle"
    BY <1>7 DEF Commit
  <2>2. Open /\ cur \in Managers /\ table[cur][i] \in EntryType
    BY <2>1, OwnerIsManager, Retype DEF IInv, Shape
  <2>3. e.ev = FALSE
    BY <2>2 DEF EntryType
  <2>4. table' = table \/ table' = [table EXCEPT ![cur][i] = e]
    BY <1>7, <2>2 DEF Commit, IInv, Shape
  <2> HIDE DEF e
  <2> QED BY <1>1, <2>1, <2>2, <2>3, <2>4, ClearEntry
<1>8. CASE \/ Reserve(i) \/ Abandon(i) \/ StartFleet(i) \/ WriteRunning(i) \/ Launch(i)
           \/ ReleaseStart(i) \/ Mutate(i) \/ WriteTerminal(i) \/ RecordCompletion(i)
           \/ CancelCtx(i) \/ LoadRead(i) \/ Collect(i)
  <2>1. UNCHANGED <<mgr, cur, table>>
    BY <1>8, Zenon DEF Reserve, Abandon, StartFleet, WriteRunning, Launch, ReleaseStart, Mutate,
       WriteTerminal, RecordCompletion, CancelCtx, LoadRead, Collect
  <2> QED BY <2>1, <1>1
<1> QED BY <1>2, <1>3, <1>4, <1>5, <1>6, <1>7, <1>8 DEF Start, Goroutine

\* Every step.
LEMMA NextClear == IInv /\ Kept /\ Promises /\ CommitsClear /\ [Next]_vars => CommitsClear'
<1> SUFFICES ASSUME IInv, Kept, Promises, CommitsClear, [Next]_vars
             PROVE  CommitsClear'
  OBVIOUS
<1>1. CASE UNCHANGED <<mgr, cur, table>>
  BY <1>1 DEF CommitsClear, Open
<1>2. ASSUME NEW i \in Ids,
             \/ Reserve(i) \/ Abandon(i) \/ StartFleet(i) \/ Start(i)
             \/ Mutate(i) \/ Return(i) \/ Goroutine(i) \/ Kill(i) \/ CancelCtx(i)
             \/ LoadRead(i) \/ Collect(i) \/ Commit(i)
      PROVE  CommitsClear'
  BY <1>2, ClearJob
<1>3. CASE BeginDestroy
  <2>1. Open /\ cur \in Managers /\ UNCHANGED <<mgr, cur>>
    BY <1>3, OwnerIsManager DEF BeginDestroy
  <2>2. \A i \in Ids : table'[cur][i] = Stopped(table[cur][i])
    BY <1>3, <2>1 DEF BeginDestroy, Mine, IInv, Shape
  <2>3. ASSUME NEW i \in Ids
        PROVE  /\ Stopped(table[cur][i]).com = table[cur][i].com
               /\ Stopped(table[cur][i]).done = table[cur][i].done
               /\ Stopped(table[cur][i]).ev = table[cur][i].ev
    BY <2>1, Retype DEF Stopped, EntryType
  <2> QED BY <2>1, <2>2, <2>3, Zenon DEF CommitsClear
<1>4. CASE FinishDestroy
  BY <1>4, Retype DEF CommitsClear, Open, FinishDestroy, NoEntry, IInv, Shape
<1>5. CASE Close
  BY <1>5 DEF CommitsClear, Open, Close, IInv, Shape, Owners
<1>6. ASSUME NEW m \in Managers, ReleaseOwner(m)
      PROVE  CommitsClear'
  BY <1>6 DEF CommitsClear, Open, ReleaseOwner, IInv, Shape, Owners
<1>7. CASE Exit
  <2>1. cur' = cur /\ mgr' = [m \in Managers |-> IF mgr[m] = "none" THEN "none" ELSE "closed"]
    BY <1>7 DEF Exit
  <2>2. cur = 0 \/ cur \in Managers
    BY JobsAssumption DEF IInv, Shape, Owners, Managers
  <2>3. ~Open'
    BY <2>1, <2>2 DEF Open
  <2> QED BY <2>3 DEF CommitsClear
<1>8. CASE NewManager
  BY <1>8, JobsAssumption DEF CommitsClear, NewManager, Promises, Booked, Ahead, Managers,
     IInv, Shape, Owners
<1>9. CASE LoadTerminal \/ LoadRunning
  <2>1. /\ UNCHANGED <<mgr, cur>> /\ load.at = "settle"
        /\ table' = table \/ \E st : Tombstone(st)
    BY <1>9, Zenon DEF LoadTerminal, LoadRunning
  <2>2. Open /\ cur \in Managers /\ load.id \in Ids
    BY <2>1, OwnerIsManager DEF IInv, Shape
  <2>3. CASE table' = table
    BY <1>1, <2>1, <2>3
  <2>4. ASSUME NEW st, Tombstone(st)
        PROVE  CommitsClear'
    <3> DEFINE e == [st |-> st, ev |-> load.meta.ev, com |-> FALSE, done |-> TRUE]
    <3>1. table' = table \/ table' = [table EXCEPT ![cur][load.id] = e]
      BY <2>4, Zenon DEF Tombstone
    <3>2. e.com = FALSE
      OBVIOUS
    <3> HIDE DEF e
    <3> QED BY <2>1, <2>2, <2>3, <3>1, <3>2, ClearEntry
  <2> QED BY <2>1, <2>3, <2>4
<1>10. CASE BeginLoad \/ (\E plan \in BOOLEAN : BeginTurn(plan)) \/ Deliver \/ FailTurn \/ EndTurn
  <2>1. UNCHANGED <<mgr, cur, table>>
    BY <1>10, Zenon DEF BeginLoad, BeginTurn, Deliver, FailTurn, EndTurn
  <2> QED BY <2>1, <1>1
<1>11. CASE UNCHANGED vars
  <2>1. UNCHANGED <<mgr, cur, table>>
    BY <1>11 DEF vars
  <2> QED BY <2>1, <1>1
<1> QED BY <1>2, <1>3, <1>4, <1>5, <1>6, <1>7, <1>8, <1>9, <1>10, <1>11 DEF Next

\* What a turn owes when it begins is in its ledger.
Ledgered == turn.owed \subseteq turn.merged

\* The evidence of every job the turn owes for is pending.
LEMMA OwedIsPending ==
    ASSUME IInv, Kept, Promises, CommitsClear, Open
    PROVE  Owed \subseteq Pending
<1> SUFFICES ASSUME NEW i \in Owed
             PROVE  i \in Pending
  OBVIOUS
<1>1. i \in Ids /\ job[i].wrote /\ i \notin reviewed \cup dropped
  BY DEF Owed
<1>2. Promised(i)
  BY <1>1 DEF Promises
<1>3. CASE OwnDone(i)
  <2>1. Own(i)
    BY <1>1, <1>3 DEF OwnDone, Own, Fresh, At
  <2>2. Carries(i, table[cur][i])
    BY <1>1, <2>1 DEF Kept, OwnKept
  <2> QED BY <1>1, <1>3, <2>2 DEF OwnDone, Carries, Settled, Pending, Mine, At
<1>4. CASE RestoredTask(i)
  <2>1. table[cur][i].done /\ table[cur][i].ev
    BY <1>1, <1>2, <1>4 DEF RestoredTask, Mine, Promised, InTable, Ends, Owes, Answered
  <2> QED BY <1>1, <2>1 DEF CommitsClear, Pending, Mine
<1> QED BY <1>3, <1>4 DEF Owed

\* Only a turn's own steps, and the end of its manager, change what it owes.
LEMMA NextLedgered ==
    IInv /\ Kept /\ Promises /\ CommitsClear /\ Ledgered /\ [Next]_vars => Ledgered'
<1> SUFFICES ASSUME IInv, Kept, Promises, CommitsClear, Ledgered, [Next]_vars
             PROVE  Ledgered'
  OBVIOUS
<1> USE DEF Ledgered
<1>1. CASE UNCHANGED turn
  BY <1>1
<1>2. CASE turn' = NoTurn
  BY <1>2 DEF NoTurn
<1>3. ASSUME NEW plan \in BOOLEAN, BeginTurn(plan)
      PROVE  Ledgered'
  BY <1>3, OwedIsPending DEF BeginTurn, TurnLedger, NoTurn
<1>4. ASSUME NEW i \in Ids, Collect(i) \/ Commit(i)
      PROVE  Ledgered'
  BY <1>4 DEF Collect, Commit, Kept, Answering, TurnType
<1>5. CASE Deliver
  BY <1>5 DEF Deliver, Kept, Answering, TurnType
<1>6. ASSUME NEW i \in Ids,
             \/ Reserve(i) \/ Abandon(i) \/ StartFleet(i) \/ Start(i)
             \/ Mutate(i) \/ Return(i) \/ Goroutine(i) \/ Kill(i) \/ CancelCtx(i) \/ LoadRead(i)
      PROVE  Ledgered'
  <2>1. UNCHANGED turn
    BY <1>6, Zenon DEF Reserve, Abandon, StartFleet, Start, Register, WriteRunning, Launch,
       ReleaseStart, Mutate, Return, Goroutine, WriteTerminal, RecordCompletion, Publish,
       CloseDone, Kill, CancelCtx, LoadRead
  <2> QED BY <2>1, <1>1
<1>7. CASE \/ BeginDestroy \/ FinishDestroy \/ NewManager \/ BeginLoad \/ LoadTerminal \/ LoadRunning
           \/ (\E m \in Managers : ReleaseOwner(m)) \/ UNCHANGED vars
  <2>1. UNCHANGED turn
    BY <1>7, Zenon DEF BeginDestroy, FinishDestroy, NewManager, BeginLoad, LoadTerminal,
       LoadRunning, ReleaseOwner, vars
  <2> QED BY <2>1, <1>1
<1>8. CASE Close \/ Exit \/ FailTurn \/ EndTurn
  BY <1>2, <1>8 DEF Close, Exit, FailTurn, EndTurn
<1> QED BY <1>3, <1>4, <1>5, <1>6, <1>7, <1>8 DEF Next

\* No answer of a turn that is not a plan turn ships before its ledger holds the
\* changes of the open manager's own finished jobs and of the tasks it restored from
\* their records, for any number of jobs, turns, failures and managers.
THEOREM ShipsReviewed == Spec => NothingShipsUnreviewed
<1>1. Init => CommitsClear /\ Ledgered
  BY DEF Init, CommitsClear, Open, Ledgered, NoTurn
<1>2. IInv /\ Kept /\ Promises /\ CommitsClear /\ [Next]_vars => CommitsClear'
  BY NextClear
<1>3. IInv /\ Kept /\ Promises /\ CommitsClear /\ Ledgered /\ [Next]_vars => Ledgered'
  BY NextLedgered
<1>4. Ledgered => [Deliver => turn.owed \subseteq turn.merged]_vars
  BY DEF Ledgered
<1>5. Spec => []IInv /\ []Kept /\ []Promises
  BY JobsInvariant, EvidenceKept, PromisesKept
<1> QED BY <1>1, <1>2, <1>3, <1>4, <1>5, PTL DEF Spec, NothingShipsUnreviewed
=============================================================================
