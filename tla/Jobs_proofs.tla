---------------------------- MODULE Jobs_proofs ----------------------------
(***************************************************************************)
(* Two results about background jobs, for any number of jobs and managers. *)
(*                                                                         *)
(* A record repaired as interrupted is of a job that is over.  This goes   *)
(* through ownership (IInv): a running job has a live owner, a record that *)
(* says running names the job's own owner, and an owner that is gone never *)
(* comes back.                                                             *)
(*                                                                         *)
(* No answer ships unreviewed.  This goes through the evidence (Kept): a   *)
(* job's entry carries it from the end of its run until a delivered turn   *)
(* had it in its ledger, so whatever a turn owes when it begins is pending *)
(* then.                                                                   *)
(***************************************************************************)
EXTENDS Jobs, TLAPS

Owners == 0 .. MaxManagers
Pcs == {"none", "called", "registered", "recorded", "running", "refused", "returned",
        "written", "noted", "published", "done", "gone"}
JobType == [pc : Pcs, kind : {"task", "fleet"}, owner : Owners,
            ctx : {"live", "asked", "cancelled"}, wrote : BOOLEAN,
            out : {"running", "done", "failed", "killed"}, saved : BOOLEAN]
RecType == [st : Statuses \cup {"none"}, ev : BOOLEAN, owner : Owners]
EntryType == [st : Statuses \cup {"none"}, ev : BOOLEAN, com : BOOLEAN, done : BOOLEAN]
LoadType == [at : {"unbound", "idle", "read", "settle"}, todo : SUBSET Ids, id : 0 .. MaxJobs,
             meta : RecType, deferred : BOOLEAN, loaded : BOOLEAN]

Shape ==
    /\ mgr \in [Managers -> {"none", "open", "closing", "closed"}]
    /\ cur \in Owners
    /\ table \in [Managers -> [Ids -> EntryType]]
    /\ job \in [Ids -> JobType]
    /\ disk \in [Ids -> RecType]
    /\ load \in LoadType
    /\ load.at \in {"read", "settle"} => Open
    /\ load.at = "settle" => load.id \in Ids
    /\ turn.at # "idle" => Open

\* Managers are made one after the other, and one that closed stays closed.
Succession == \A m \in Managers : mgr[m] = "none" <=> m > cur

\* A job that was called has a manager; one that was not yet registered has left
\* nothing behind.
Fresh(i) == job[i].pc \in {"none", "called"}
Origin ==
    \A i \in Ids :
      /\ ~At(i, "none") => job[i].owner \in 1 .. cur
      /\ Fresh(i) => /\ disk[i].st = "none" /\ i \notin load.todo
                     /\ load.at = "settle" => load.id # i
                     /\ \A m \in Managers : table[m][i].st = "none"

\* A running job has a live owner; a start under way after its owner's close has a
\* cancelled context.
LiveOwner ==
    \A i \in Ids :
      /\ At(i, "running") => mgr[job[i].owner] \in {"open", "closing"}
      /\ At(i, "registered") \/ At(i, "recorded")
         => mgr[job[i].owner] = "open" \/ job[i].ctx = "cancelled"

\* Whatever says running, on disk, in the loader's hands or in a table, is of the
\* job's own manager; whatever says interrupted is of a job whose manager is gone.
Ownership ==
    \A i \in Ids :
      /\ disk[i].st = "running" => disk[i].owner = job[i].owner
      /\ disk[i].st = "interrupted" => mgr[job[i].owner] = "closed"
      /\ load.at = "settle" /\ load.id = i =>
           /\ load.meta.st = "running" => load.meta.owner = job[i].owner
           /\ load.meta.st = "interrupted" => mgr[job[i].owner] = "closed"
      /\ \A m \in Managers :
           /\ table[m][i].st = "running" => job[i].owner = m
           /\ table[m][i].st = "interrupted" => mgr[job[i].owner] = "closed"

IInv == Shape /\ Succession /\ Origin /\ LiveOwner /\ Ownership

-----------------------------------------------------------------------------
(* Facts used throughout *)

\* The owner of a job that was called is a manager, and so is the current one.
LEMMA OwnerIsManager ==
    ASSUME IInv
    PROVE  /\ \A i \in Ids : ~At(i, "none") => job[i].owner \in Managers
           /\ Open => cur \in Managers
BY JobsAssumption DEF IInv, Shape, Origin, Open, Managers, Owners

\* Replacing one job, entry or record by one of its type keeps the types.
LEMMA Retype ==
    ASSUME IInv, NEW i \in Ids
    PROVE  /\ \A r \in JobType : [job EXCEPT ![i] = r] \in [Ids -> JobType]
           /\ \A r \in RecType : [disk EXCEPT ![i] = r] \in [Ids -> RecType]
           /\ \A m \in Managers, e \in EntryType :
                [table EXCEPT ![m][i] = e] \in [Managers -> [Ids -> EntryType]]
           /\ job[i] \in JobType /\ disk[i] \in RecType
           /\ \A m \in Managers : table[m][i] \in EntryType
BY DEF IInv, Shape

\* What a job writes is a record, and a failed write leaves the old one.
LEMMA WritesRecord ==
    ASSUME IInv, NEW i \in Ids, NEW r \in RecType, Writes(i, r)
    PROVE  /\ disk' \in [Ids -> RecType]
           /\ disk'[i] = r \/ disk'[i] = disk[i]
           /\ \A j \in Ids \ {i} : disk'[j] = disk[j]
<1>1. CASE disk' = disk
  BY <1>1 DEF IInv, Shape
<1>2. CASE disk' = [disk EXCEPT ![i] = r]
  BY <1>2 DEF IInv, Shape
<1> QED BY <1>1, <1>2 DEF Writes, Spend

\* The loader's state before a bind, and after any of its records.
LEMMA LoadTyped ==
    /\ Unbound \in LoadType /\ Unbound.at = "unbound" /\ Unbound.todo = {}
    /\ \A todo \in SUBSET Ids, d \in BOOLEAN :
         /\ AfterLoad(todo, d) \in LoadType /\ AfterLoad(todo, d).todo = todo
         /\ AfterLoad(todo, d).at \in {"idle", "read"}
<1>1. NoRec \in RecType /\ 0 \in 0 .. MaxJobs
  BY JobsAssumption DEF NoRec, RecType, Owners
<1>2. Unbound \in LoadType /\ Unbound.at = "unbound" /\ Unbound.todo = {}
  BY <1>1 DEF Unbound, LoadType
<1>3. ASSUME NEW todo \in SUBSET Ids, NEW d \in BOOLEAN
      PROVE  /\ AfterLoad(todo, d) \in LoadType /\ AfterLoad(todo, d).todo = todo
             /\ AfterLoad(todo, d).at \in {"idle", "read"}
  BY <1>2 DEF AfterLoad, LoadType
<1> QED BY <1>2, <1>3

\* A step that keeps the owners, the managers, the loader and what the tables and
\* the records say keeps the ownership.
LEMMA OwnershipKept ==
    ASSUME IInv, UNCHANGED <<mgr, load>>,
           \A j \in Ids : job'[j].owner = job[j].owner,
           \A m \in Managers, j \in Ids :
             \/ table'[m][j].st = table[m][j].st
             \/ table'[m][j].st \notin {"running", "interrupted"},
           \A j \in Ids : \/ disk'[j] = disk[j]
                          \/ /\ disk'[j].st # "interrupted"
                             /\ disk'[j].st = "running" => disk'[j].owner = job[j].owner
    PROVE  Ownership'
<1> SUFFICES ASSUME NEW j \in Ids
             PROVE  /\ disk'[j].st = "running" => disk'[j].owner = job[j].owner
                    /\ disk'[j].st = "interrupted" => mgr[job[j].owner] = "closed"
                    /\ load.at = "settle" /\ load.id = j =>
                         /\ load.meta.st = "running" => load.meta.owner = job[j].owner
                         /\ load.meta.st = "interrupted" => mgr[job[j].owner] = "closed"
                    /\ \A m \in Managers :
                         /\ table'[m][j].st = "running" => job[j].owner = m
                         /\ table'[m][j].st = "interrupted" => mgr[job[j].owner] = "closed"
  BY DEF Ownership
<1> QED BY DEF IInv, Ownership

-----------------------------------------------------------------------------
(* The steps *)

\* A task is called with a reservation.
LEMMA StepReserve ==
    ASSUME IInv, NEW i \in Ids, Reserve(i)
    PROVE  IInv'
<1>1. Shape'
  BY OwnerIsManager, JobsAssumption DEF IInv, Shape, Reserve, Call, NextId, Spend, At,
     Open, NoJob, Succession, Origin, Fresh, LiveOwner, Ownership, JobType, RecType,
     EntryType, LoadType, Owners, Managers, Ids, Statuses, Pcs
<1>2. Succession'
  BY DEF IInv, Shape, Succession, Reserve, Call, NextId, Spend, At
<1>3. Origin'
  BY OwnerIsManager, JobsAssumption DEF IInv, Shape, Origin, Fresh, Reserve, Call, NextId,
     Spend, At, Open, NoJob, Succession, LiveOwner, Ownership, JobType, RecType, EntryType,
     LoadType, Owners, Managers, Ids, Statuses, Pcs
<1>4. LiveOwner'
  BY DEF IInv, Shape, LiveOwner, Reserve, Call, NextId, Spend, At
<1>5. Ownership'
  BY DEF IInv, Shape, Ownership, Reserve, Call, NextId, Spend, At, Open, NoJob, Succession,
     Origin, Fresh, LiveOwner
<1> QED BY <1>1, <1>2, <1>3, <1>4, <1>5 DEF IInv

\* The setup of a task fails; its place is free again.
LEMMA StepAbandon ==
    ASSUME IInv, NEW i \in Ids, Abandon(i)
    PROVE  IInv'
<1>1. Shape'
  BY OwnerIsManager, JobsAssumption DEF IInv, Shape, Abandon, At, Open, NoJob, Succession,
     Origin, Fresh, LiveOwner, Ownership, JobType, RecType, EntryType, LoadType, Owners,
     Managers, Ids, Statuses, Pcs
<1>2. Succession'
  BY DEF IInv, Shape, Succession, Abandon, At
<1>3. Origin'
  BY DEF IInv, Shape, Origin, Fresh, Abandon, At, Open, NoJob
<1>4. LiveOwner'
  BY DEF IInv, Shape, LiveOwner, Abandon, At, Open, NoJob
<1>5. Ownership'
  <2>1. \A j \in Ids : j = i \/ job'[j] = job[j]
    BY DEF Abandon, IInv, Shape
  <2>2. /\ disk[i].st = "none" /\ \A m \in Managers : table[m][i].st = "none"
        /\ load.at = "settle" => load.id # i
    BY DEF Abandon, IInv, Origin, Fresh, At
  <2> QED BY <2>1, <2>2 DEF IInv, Ownership, Abandon
<1> QED BY <1>1, <1>2, <1>3, <1>4, <1>5 DEF IInv

\* A fleet is called.
LEMMA StepStartFleet ==
    ASSUME IInv, NEW i \in Ids, StartFleet(i)
    PROVE  IInv'
<1>1. Shape'
  BY OwnerIsManager, JobsAssumption DEF IInv, Shape, StartFleet, Call, NextId, Spend, At,
     Open, NoJob, Succession, Origin, Fresh, LiveOwner, Ownership, JobType, RecType,
     EntryType, LoadType, Owners, Managers, Ids, Statuses, Pcs
<1>2. Succession'
  BY DEF IInv, Shape, Succession, StartFleet, Call, NextId, Spend, At
<1>3. Origin'
  BY OwnerIsManager, JobsAssumption DEF IInv, Shape, Origin, Fresh, StartFleet, Call,
     NextId, Spend, At, Open, NoJob, Succession, LiveOwner, Ownership, JobType, RecType,
     EntryType, LoadType, Owners, Managers, Ids, Statuses, Pcs
<1>4. LiveOwner'
  BY DEF IInv, Shape, LiveOwner, StartFleet, Call, NextId, Spend, At
<1>5. Ownership'
  BY DEF IInv, Shape, Ownership, StartFleet, Call, NextId, Spend, At, Open, NoJob,
     Succession, Origin, Fresh, LiveOwner
<1> QED BY <1>1, <1>2, <1>3, <1>4, <1>5 DEF IInv

\* The job enters its manager's table.
LEMMA StepRegister ==
    ASSUME IInv, NEW i \in Ids, Register(i)
    PROVE  IInv'
<1>1. Shape'
  <2>1. job[i] \in JobType /\ job[i].owner \in Managers
    BY Retype, OwnerIsManager DEF Register, At
  <2>2. [job[i] EXCEPT !.pc = "registered",
          !.ctx = IF mgr[job[i].owner] = "open" THEN "live" ELSE "cancelled"] \in JobType
    BY <2>1 DEF JobType, Pcs
  <2>3. Entry(i) \in EntryType
    BY <2>1, Retype DEF Entry
  <2>4. [NoEntry EXCEPT !.st = "running"] \in EntryType
    BY <2>1, <2>3 DEF EntryType, Statuses, JobType, NoEntry
  <2>5. table' \in [Managers -> [Ids -> EntryType]]
    BY <2>1, <2>4, Retype DEF Register, SetEntry
  <2> QED BY <2>2, <2>5 DEF IInv, Shape, Open, Register
<1>2. Succession'
  BY DEF IInv, Shape, Succession, Register, SetEntry, At
<1>3. Origin'
  BY DEF IInv, Shape, Origin, Fresh, Register, SetEntry, At
<1>4. LiveOwner'
  BY DEF IInv, Shape, LiveOwner, Register, SetEntry, At
<1>5. Ownership'
  BY DEF IInv, Shape, Ownership, Register, SetEntry, At
<1> QED BY <1>1, <1>2, <1>3, <1>4, <1>5 DEF IInv

\* The Running record, or a failure to write it.
LEMMA StepWriteRunning ==
    ASSUME IInv, NEW i \in Ids, WriteRunning(i)
    PROVE  IInv'
<1> DEFINE r == Record(i, "running", FALSE, job[i].owner)
<1>r. r \in RecType /\ r.st = "running" /\ r.owner = job[i].owner
  BY Retype DEF Record, RecType, JobType, Statuses
<1> HIDE DEF r
<1>w. /\ disk' \in [Ids -> RecType]
      /\ disk'[i] = r \/ disk'[i] = disk[i]
      /\ \A j \in Ids \ {i} : disk'[j] = disk[j]
  BY <1>r, WritesRecord DEF WriteRunning, r
<1>1. Shape'
  <2>1. job[i] \in JobType
    BY Retype
  <2>2. [job[i] EXCEPT !.pc = "recorded"] \in JobType
    BY <2>1 DEF JobType, Pcs
  <2> QED BY <2>2, <1>w DEF IInv, Shape, Open, WriteRunning, Goto
<1>2. Succession'
  BY DEF IInv, Shape, Succession, WriteRunning, Goto, Writes, Record, Spend, At
<1>3. Origin'
  BY DEF IInv, Shape, Origin, Fresh, WriteRunning, Goto, Writes, Record, Spend, At
<1>4. LiveOwner'
  BY DEF IInv, Shape, LiveOwner, WriteRunning, Goto, Writes, Record, Spend, At
<1>5. Ownership'
  BY DEF IInv, Shape, Ownership, WriteRunning, Goto, Writes, Record, Spend, At
<1> QED BY <1>1, <1>2, <1>3, <1>4, <1>5 DEF IInv

\* The goroutine starts; only under an open owner does it run.
LEMMA StepLaunch ==
    ASSUME IInv, NEW i \in Ids, Launch(i)
    PROVE  IInv'
<1>1. Shape'
  <2>1. job[i] \in JobType
    BY Retype
  <2>2. [job[i] EXCEPT !.pc = IF job[i].ctx = "cancelled" THEN "refused" ELSE "running"] \in JobType
    BY <2>1 DEF JobType, Pcs
  <2> QED BY <2>2 DEF IInv, Shape, Open, Launch, Goto
<1>2. Succession'
  BY DEF IInv, Shape, Succession, Launch, Goto, At
<1>3. Origin'
  BY DEF IInv, Shape, Origin, Fresh, Launch, Goto, At
<1>4. LiveOwner'
  BY DEF IInv, Shape, LiveOwner, Launch, Goto, At
<1>5. Ownership'
  BY DEF IInv, Shape, Ownership, Launch, Goto, At
<1> QED BY <1>1, <1>2, <1>3, <1>4, <1>5 DEF IInv

\* A run changes files.
LEMMA StepMutate ==
    ASSUME IInv, NEW i \in Ids, Mutate(i)
    PROVE  IInv'
<1>1. Shape'
  <2>1. job[i] \in JobType
    BY Retype
  <2>2. [job[i] EXCEPT !.wrote = TRUE] \in JobType
    BY <2>1 DEF JobType, Pcs
  <2> QED BY <2>2 DEF IInv, Shape, Open, Mutate
<1>2. Succession'
  BY DEF IInv, Shape, Succession, Mutate, At
<1>3. Origin'
  BY DEF IInv, Shape, Origin, Fresh, Mutate, At
<1>4. LiveOwner'
  BY DEF IInv, Shape, LiveOwner, Mutate, At
<1>5. Ownership'
  BY DEF IInv, Shape, Ownership, Mutate, At
<1> QED BY <1>1, <1>2, <1>3, <1>4, <1>5 DEF IInv

\* The run publishes its evidence and returns.
LEMMA StepReturn ==
    ASSUME IInv, NEW i \in Ids, Return(i)
    PROVE  IInv'
<1>1. Shape'
  <2>1. job[i] \in JobType /\ job[i].owner \in Managers
    BY Retype, OwnerIsManager DEF Return, At
  <2>2. PICK o \in Outcomes(i) : job' = [job EXCEPT ![i].pc = "returned", ![i].out = o]
    BY DEF Return
  <2>3. [job[i] EXCEPT !.pc = "returned", !.out = o] \in JobType
    <3>1. o \in {"done", "failed", "killed"}
      BY DEF Outcomes
    <3> QED BY <2>1, <3>1 DEF JobType, Pcs
  <2>4. Entry(i) \in EntryType
    BY <2>1, Retype DEF Entry
  <2>5. [Entry(i) EXCEPT !.ev = job[i].wrote] \in EntryType
    BY <2>1, <2>4 DEF EntryType, JobType
  <2>6. table' \in [Managers -> [Ids -> EntryType]]
    BY <2>1, <2>5, Retype DEF Return, SetEntry
  <2> QED BY <2>2, <2>3, <2>6 DEF IInv, Shape, Open, Return
<1>2. Succession'
  BY DEF IInv, Shape, Succession, Return, SetEntry, Entry, Outcomes
<1>3. Origin'
  BY DEF IInv, Shape, Origin, Fresh, Return, SetEntry, Entry, Outcomes, At
<1>4. LiveOwner'
  BY DEF IInv, Shape, LiveOwner, Return, SetEntry, Entry, Outcomes, At
<1>5. Ownership'
  <2>1. job[i] \in JobType /\ job[i].owner \in Managers
    BY Retype, OwnerIsManager DEF Return, At
  <2>2. \A j \in Ids : job'[j].owner = job[j].owner
    BY DEF Return, IInv, Shape, JobType
  <2>3. \A m \in Managers, j \in Ids : table'[m][j].st = table[m][j].st
    BY <2>1 DEF Return, SetEntry, Entry, IInv, Shape, EntryType
  <2> QED BY <2>2, <2>3, OwnershipKept DEF Return
<1> QED BY <1>1, <1>2, <1>3, <1>4, <1>5 DEF IInv

\* The terminal record, or a failure to write it.
LEMMA StepWriteTerminal ==
    ASSUME IInv, NEW i \in Ids, WriteTerminal(i)
    PROVE  IInv'
<1> DEFINE r == IF i \in dropped THEN disk[i]
                ELSE Record(i, job[i].out, Entry(i).ev, job[i].owner)
<1>o. job[i] \in JobType /\ job[i].owner \in Managers /\ disk[i] \in RecType
  BY Retype, OwnerIsManager DEF WriteTerminal, At
<1>r. /\ r \in RecType
      /\ r = disk[i] \/ (r.st # "interrupted" /\ r.owner = job[i].owner)
  <2>1. Entry(i).ev \in BOOLEAN
    BY <1>o, Retype DEF Entry, EntryType
  <2> QED BY <1>o, <2>1 DEF Record, RecType, JobType, Statuses, Owners
<1> HIDE DEF r
<1>w. /\ disk' \in [Ids -> RecType]
      /\ disk'[i] = r \/ disk'[i] = disk[i]
      /\ \A j \in Ids \ {i} : disk'[j] = disk[j]
  BY <1>r, WritesRecord DEF WriteTerminal, r
<1>1. Shape'
  <2>1. [job[i] EXCEPT !.pc = "written", !.saved = (disk'[i].st = job[i].out)] \in JobType
    BY <1>o DEF JobType, Pcs
  <2> QED BY <2>1, <1>w DEF IInv, Shape, Open, WriteTerminal
<1>2. Succession'
  BY DEF IInv, Shape, Succession, WriteTerminal, Writes, Record, Entry, Spend, At
<1>3. Origin'
  BY DEF IInv, Shape, Origin, Fresh, WriteTerminal, Writes, Record, Entry, Spend, At
<1>4. LiveOwner'
  BY DEF IInv, Shape, LiveOwner, WriteTerminal, Writes, Record, Entry, Spend, At
<1>5. Ownership'
  <2>1. \A j \in Ids : job'[j].owner = job[j].owner
    BY DEF WriteTerminal, IInv, Shape, JobType
  <2>2. UNCHANGED <<mgr, load, table>>
    BY DEF WriteTerminal
  <2>3. \A j \in Ids : \/ disk'[j] = disk[j]
                       \/ disk'[j].st # "interrupted" /\ disk'[j].owner = job[j].owner
    BY <1>r, <1>w
  <2> QED BY <2>1, <2>2, <2>3, OwnershipKept
<1> QED BY <1>1, <1>2, <1>3, <1>4, <1>5 DEF IInv

\* The note is queued.
LEMMA StepRecordCompletion ==
    ASSUME IInv, NEW i \in Ids, RecordCompletion(i)
    PROVE  IInv'
<1>1. Shape'
  <2>1. job[i] \in JobType
    BY Retype
  <2>2. [job[i] EXCEPT !.pc = "noted"] \in JobType
    BY <2>1 DEF JobType, Pcs
  <2> QED BY <2>2 DEF IInv, Shape, Open, RecordCompletion, Goto
<1>2. Succession'
  BY DEF IInv, Shape, Succession, RecordCompletion, Goto, At
<1>3. Origin'
  BY DEF IInv, Shape, Origin, Fresh, RecordCompletion, Goto, At
<1>4. LiveOwner'
  BY DEF IInv, Shape, LiveOwner, RecordCompletion, Goto, At
<1>5. Ownership'
  BY DEF IInv, Shape, Ownership, RecordCompletion, Goto, At
<1> QED BY <1>1, <1>2, <1>3, <1>4, <1>5 DEF IInv

\* The terminal status is published.
LEMMA StepPublish ==
    ASSUME IInv, NEW i \in Ids, Publish(i)
    PROVE  IInv'
<1>1. Shape'
  <2>1. job[i] \in JobType /\ job[i].owner \in Managers
    BY Retype, OwnerIsManager DEF Publish, At
  <2>2. [job[i] EXCEPT !.pc = "published", !.out = "running"] \in JobType
    BY <2>1 DEF JobType, Pcs
  <2>3. Entry(i) \in EntryType
    BY <2>1, Retype DEF Entry
  <2>4. Published(i) \in EntryType
    BY <2>1, <2>3 DEF EntryType, Statuses, JobType, Published
  <2>5. table' \in [Managers -> [Ids -> EntryType]]
    BY <2>1, <2>4, Retype DEF Publish, SetEntry
  <2> QED BY <2>2, <2>5 DEF IInv, Shape, Open, Publish
<1>2. Succession'
  BY DEF IInv, Shape, Succession, Publish, SetEntry, Entry, Published, At
<1>3. Origin'
  BY DEF IInv, Shape, Origin, Fresh, Publish, SetEntry, Entry, Published, At
<1>4. LiveOwner'
  BY DEF IInv, Shape, LiveOwner, Publish, SetEntry, Entry, Published, At
<1>5. Ownership'
  <2>1. job[i] \in JobType /\ job[i].owner \in Managers
    BY Retype, OwnerIsManager DEF Publish, At
  <2>2. \A j \in Ids : job'[j].owner = job[j].owner
    BY DEF Publish, IInv, Shape, JobType
  <2>3. \A m \in Managers, j \in Ids :
          table'[m][j] = table[m][j] \/ (m = job[i].owner /\ j = i /\ table'[m][j] = Published(i))
    BY <2>1 DEF Publish, SetEntry, IInv, Shape
  <2>4. Published(i).st # "interrupted" \/ Published(i) = table[job[i].owner][i]
    <3>1. table[job[i].owner][i] \in EntryType
      BY <2>1, Retype
    <3> QED BY <2>1, <3>1 DEF Published, Entry, JobType, EntryType
  <2>5. UNCHANGED <<mgr, load, disk>>
    BY DEF Publish
  <2>6. \A m \in Managers, j \in Ids :
          /\ table'[m][j].st = "running" => job[j].owner = m
          /\ table'[m][j].st = "interrupted" => mgr[job[j].owner] = "closed"
    BY <2>1, <2>3, <2>4 DEF IInv, Ownership
  <2> QED BY <2>2, <2>5, <2>6 DEF IInv, Ownership
<1> QED BY <1>1, <1>2, <1>3, <1>4, <1>5 DEF IInv

\* The done channel is closed.
LEMMA StepCloseDone ==
    ASSUME IInv, NEW i \in Ids, CloseDone(i)
    PROVE  IInv'
<1>1. Shape'
  <2>1. job[i] \in JobType /\ job[i].owner \in Managers
    BY Retype, OwnerIsManager DEF CloseDone, At
  <2>2. [job[i] EXCEPT !.pc = "done", !.ctx = "live"] \in JobType
    BY <2>1 DEF JobType, Pcs
  <2>3. Entry(i) \in EntryType
    BY <2>1, Retype DEF Entry
  <2>4. [Entry(i) EXCEPT !.done = (@ \/ Entry(i).st # "none")] \in EntryType
    BY <2>1, <2>3 DEF EntryType, Statuses, JobType
  <2>5. table' \in [Managers -> [Ids -> EntryType]]
    BY <2>1, <2>4, Retype DEF CloseDone, SetEntry
  <2> QED BY <2>2, <2>5 DEF IInv, Shape, Open, CloseDone
<1>2. Succession'
  BY DEF IInv, Shape, Succession, CloseDone, SetEntry, Entry, At
<1>3. Origin'
  BY DEF IInv, Shape, Origin, Fresh, CloseDone, SetEntry, Entry, At
<1>4. LiveOwner'
  BY DEF IInv, Shape, LiveOwner, CloseDone, SetEntry, Entry, At
<1>5. Ownership'
  BY DEF IInv, Shape, Ownership, CloseDone, SetEntry, Entry, At
<1> QED BY <1>1, <1>2, <1>3, <1>4, <1>5 DEF IInv

\* A job of the open manager is killed.
LEMMA StepKill ==
    ASSUME IInv, NEW i \in Ids, Kill(i)
    PROVE  IInv'
<1>1. Shape'
  <2>1. job[i] \in JobType /\ cur \in Managers
    BY Retype, OwnerIsManager DEF Kill
  <2>2. [job[i] EXCEPT !.ctx = "asked"] \in JobType
    BY <2>1 DEF JobType
  <2>3. table[cur][i] \in EntryType
    BY <2>1, Retype
  <2>4. [table[cur][i] EXCEPT !.st = "killed"] \in EntryType
    BY <2>3 DEF EntryType, Statuses
  <2>5. table' \in [Managers -> [Ids -> EntryType]]
    BY <2>1, <2>4, Retype DEF Kill, IInv, Shape
  <2> QED BY <2>2, <2>5 DEF IInv, Shape, Open, Kill
<1>2. Succession'
  BY DEF IInv, Shape, Succession, Kill, Spend
<1>3. Origin'
  BY DEF IInv, Shape, Origin, Fresh, Kill, Spend, At, Open, Mine
<1>4. LiveOwner'
  BY OwnerIsManager, JobsAssumption DEF IInv, Shape, LiveOwner, Kill, Spend, At, Open,
     Mine, Succession, Origin, Fresh, Ownership, JobType, RecType, EntryType, LoadType
<1>5. Ownership'
  BY DEF IInv, Shape, Ownership, Kill, Spend
<1> QED BY <1>1, <1>2, <1>3, <1>4, <1>5 DEF IInv

\* The killed job's context is cancelled.
LEMMA StepCancelCtx ==
    ASSUME IInv, NEW i \in Ids, CancelCtx(i)
    PROVE  IInv'
<1>1. Shape'
  <2>1. job[i] \in JobType
    BY Retype
  <2>2. [job[i] EXCEPT !.ctx = "cancelled"] \in JobType
    BY <2>1 DEF JobType, Pcs
  <2> QED BY <2>2 DEF IInv, Shape, Open, CancelCtx
<1>2. Succession'
  BY DEF IInv, Shape, Succession, CancelCtx
<1>3. Origin'
  BY DEF IInv, Shape, Origin, Fresh, CancelCtx, At
<1>4. LiveOwner'
  BY DEF IInv, Shape, LiveOwner, CancelCtx, At
<1>5. Ownership'
  BY DEF IInv, Shape, Ownership, CancelCtx
<1> QED BY <1>1, <1>2, <1>3, <1>4, <1>5 DEF IInv

\* The session's destruction begins.
LEMMA StepBeginDestroy ==
    ASSUME IInv, BeginDestroy
    PROVE  IInv'
<1>1. Shape'
  <2>1. cur \in Managers
    BY OwnerIsManager DEF BeginDestroy
  <2>2. \A i \in Ids : Stopped(Mine[i]) \in EntryType
    <3> SUFFICES ASSUME NEW i \in Ids
                 PROVE  Stopped(Mine[i]) \in EntryType
      OBVIOUS
    <3>1. Mine[i] \in EntryType
      BY <2>1, Retype DEF Mine
    <3> QED BY <3>1 DEF Stopped, EntryType, Statuses
  <2>3. job' \in [Ids -> JobType]
    BY DEF BeginDestroy, IInv, Shape, JobType
  <2> QED BY <2>1, <2>2, <2>3 DEF IInv, Shape, Open, BeginDestroy
<1>2. Succession'
  BY DEF IInv, Shape, Succession, BeginDestroy, Stopped, Spend
<1>3. Origin'
  BY DEF IInv, Shape, Origin, Fresh, BeginDestroy, Stopped, Spend, At, Open, Mine
<1>4. LiveOwner'
  BY OwnerIsManager, JobsAssumption DEF IInv, Shape, LiveOwner, BeginDestroy, Stopped,
     Spend, At, Open, Mine, Succession, Origin, Fresh, Ownership, JobType, RecType,
     EntryType, LoadType
<1>5. Ownership'
  BY DEF IInv, Shape, Ownership, BeginDestroy, Stopped, Spend, Open, Mine
<1> QED BY <1>1, <1>2, <1>3, <1>4, <1>5 DEF IInv

\* The session's records and entries are gone.
LEMMA StepFinishDestroy ==
    ASSUME IInv, FinishDestroy
    PROVE  IInv'
<1>1. Shape'
  BY OwnerIsManager, JobsAssumption DEF IInv, Shape, FinishDestroy, At, Open, NoEntry,
     NoRec, Unbound, Succession, Origin, Fresh, LiveOwner, Ownership, JobType, RecType,
     EntryType, LoadType, Owners, Managers, Ids, Statuses, Pcs
<1>2. Succession'
  BY DEF IInv, Shape, Succession, FinishDestroy, At
<1>3. Origin'
  BY DEF IInv, Shape, Origin, Fresh, FinishDestroy, At, Open, NoEntry, NoRec, Unbound
<1>4. LiveOwner'
  BY DEF IInv, Shape, LiveOwner, FinishDestroy, At
<1>5. Ownership'
  BY DEF IInv, Shape, Ownership, FinishDestroy, At, Open, NoEntry, NoRec, Unbound
<1> QED BY <1>1, <1>2, <1>3, <1>4, <1>5 DEF IInv

\* The manager is closed and every context under it cancelled.
LEMMA StepClose ==
    ASSUME IInv, Close
    PROVE  IInv'
<1>1. Shape'
  <2>1. cur \in Managers
    BY OwnerIsManager DEF Close
  <2>2. \A i \in Ids : Stopped(Mine[i]) \in EntryType
    <3> SUFFICES ASSUME NEW i \in Ids
                 PROVE  Stopped(Mine[i]) \in EntryType
      OBVIOUS
    <3>1. Mine[i] \in EntryType
      BY <2>1, Retype DEF Mine
    <3> QED BY <3>1 DEF Stopped, EntryType, Statuses
  <2>3. job' \in [Ids -> JobType]
    BY DEF Close, RootCancelled, IInv, Shape, JobType
  <2>4. load' \in LoadType /\ load'.at = "unbound"
    BY LoadTyped DEF Close
  <2> QED BY <2>1, <2>2, <2>3, <2>4 DEF IInv, Shape, Open, Close, NoTurn
<1>2. Succession'
  BY DEF IInv, Shape, Succession, Close, Stopped, RootCancelled, Counted, Spend, At, Open,
     Mine, NoRec, Unbound
<1>3. Origin'
  BY DEF IInv, Shape, Origin, Fresh, Close, Stopped, RootCancelled, Counted, Spend, At,
     Open, Mine, NoRec, Unbound
<1>4. LiveOwner'
  BY DEF IInv, Shape, LiveOwner, Close, Stopped, RootCancelled, Counted, Spend, At
<1>5. Ownership'
  BY DEF IInv, Shape, Ownership, Close, Stopped, RootCancelled, Counted, Spend, At, Open,
     Mine, NoRec, Unbound
<1> QED BY <1>1, <1>2, <1>3, <1>4, <1>5 DEF IInv

\* A closed manager without goroutines gives up its ownership.
LEMMA StepReleaseOwner ==
    ASSUME IInv, NEW m \in Managers, ReleaseOwner(m)
    PROVE  IInv'
<1>1. Shape'
  <2>1. NoEntry \in EntryType
    BY DEF NoEntry, EntryType
  <2>2. table' \in [Managers -> [Ids -> EntryType]]
    BY <2>1 DEF ReleaseOwner, IInv, Shape
  <2> QED BY <2>2 DEF IInv, Shape, Open, ReleaseOwner
<1>2. Succession'
  BY DEF IInv, Shape, Succession, ReleaseOwner, Counted, Starting
<1>3. Origin'
  BY DEF IInv, Shape, Origin, Fresh, ReleaseOwner, Counted, Starting, At, Open, NoEntry
<1>4. LiveOwner'
  BY DEF IInv, Shape, LiveOwner, ReleaseOwner, Counted, Starting, At
<1>5. Ownership'
  BY DEF IInv, Shape, Ownership, ReleaseOwner, Counted, Starting, Open, NoEntry
<1> QED BY <1>1, <1>2, <1>3, <1>4, <1>5 DEF IInv

\* The process ends.
LEMMA StepExit ==
    ASSUME IInv, Exit
    PROVE  IInv'
<1>j. ASSUME NEW i \in Ids
      PROVE  /\ job'[i] \in JobType /\ job'[i].owner = job[i].owner
             /\ job'[i].pc \in {"none", "done", "gone"}
             /\ At(i, "none")' <=> At(i, "none")
  <2>1. job[i] \in JobType
    BY Retype
  <2>2. CASE job[i].pc \in {"none", "done"}
    BY <2>1, <2>2 DEF Exit, At, JobType
  <2>3. CASE job[i].pc \notin {"none", "done"}
    <3>1. job'[i] = [job[i] EXCEPT !.pc = "gone", !.ctx = "live", !.out = "running"]
      BY <2>3 DEF Exit
    <3> QED BY <2>1, <2>3, <3>1 DEF At, JobType, Pcs
  <2> QED BY <2>2, <2>3
<1>l. load' \in LoadType /\ load'.at = "unbound" /\ load'.todo = {}
  BY LoadTyped DEF Exit
<1>t. /\ table' \in [Managers -> [Ids -> EntryType]]
      /\ \A m \in Managers, i \in Ids : table'[m][i].st = "none"
  BY DEF Exit, EntryType, NoEntry
<1>1. Shape'
  <2>1. job' \in [Ids -> JobType]
    BY <1>j DEF Exit
  <2>2. mgr' \in [Managers -> {"none", "open", "closing", "closed"}]
    BY DEF Exit
  <2> QED BY <1>l, <1>t, <2>1, <2>2 DEF IInv, Shape, Open, Exit, NoTurn
<1>2. Succession'
  BY DEF IInv, Shape, Succession, Exit, Spend
<1>3. Origin'
  BY <1>j, <1>l, <1>t DEF IInv, Origin, Fresh, At, Exit
<1>4. LiveOwner'
  BY <1>j DEF LiveOwner, At
<1>5. Ownership'
  <2>1. \A m \in Managers : mgr[m] = "closed" => mgr'[m] = "closed"
    BY DEF Exit
  <2>2. \A i \in Ids : disk[i].st # "none" => job[i].owner \in Managers
    BY OwnerIsManager DEF IInv, Origin, Fresh, At
  <2>3. disk' = disk
    BY DEF Exit
  <2>4. \A i \in Ids : /\ disk[i].st = "running" => disk[i].owner = job[i].owner
                       /\ disk[i].st = "interrupted" => mgr[job[i].owner] = "closed"
    BY DEF IInv, Ownership
  <2> QED BY <1>j, <1>l, <1>t, <2>1, <2>2, <2>3, <2>4 DEF Ownership
<1> QED BY <1>1, <1>2, <1>3, <1>4, <1>5 DEF IInv

\* A successor is made.
LEMMA StepNewManager ==
    ASSUME IInv, NewManager
    PROVE  IInv'
<1>o. cur \in Nat /\ cur + 1 \in Managers /\ cur' = cur + 1 /\ cur' \in Owners
  BY JobsAssumption DEF IInv, Shape, NewManager, Owners, Managers
<1>m. \A m \in Managers : mgr'[m] = IF m = cur + 1 THEN "open" ELSE mgr[m]
  BY <1>o DEF IInv, Shape, NewManager
<1>1. Shape'
  <2>1. mgr' \in [Managers -> {"none", "open", "closing", "closed"}]
    BY <1>o DEF IInv, Shape, NewManager
  <2> QED BY <1>o, <2>1 DEF IInv, Shape, NewManager, Open
<1>2. Succession'
  <2>1. Managers \subseteq Nat
    BY DEF Managers
  <2> QED BY <1>o, <1>m, <2>1 DEF IInv, Succession
<1>3. Origin'
  BY <1>o DEF IInv, Origin, Fresh, At, NewManager
<1>4. LiveOwner'
  <2>1. \A i \in Ids : ~At(i, "none") => job[i].owner # cur + 1 /\ job[i].owner \in Managers
    BY <1>o, OwnerIsManager DEF IInv, Origin
  <2> QED BY <1>m, <2>1 DEF IInv, LiveOwner, At, NewManager
<1>5. Ownership'
  <2>1. \A i \in Ids : ~At(i, "none") => job[i].owner # cur + 1 /\ job[i].owner \in Managers
    BY <1>o, OwnerIsManager DEF IInv, Origin
  <2>2. \A i \in Ids : At(i, "none") =>
          /\ disk[i].st = "none" /\ (load.at = "settle" => load.id # i)
          /\ \A m \in Managers : table[m][i].st = "none"
    BY DEF IInv, Origin, Fresh, At
  <2>3. UNCHANGED <<job, disk, load, table>>
    BY DEF NewManager
  <2> QED BY <1>m, <2>1, <2>2, <2>3 DEF IInv, Ownership
<1> QED BY <1>1, <1>2, <1>3, <1>4, <1>5 DEF IInv

\* The session is bound to its path.
LEMMA StepBeginLoad ==
    ASSUME IInv, BeginLoad
    PROVE  IInv'
<1>1. Shape'
  <2>1. load' \in LoadType /\ load'.at # "settle"
    BY LoadTyped DEF BeginLoad
  <2> QED BY <2>1 DEF IInv, Shape, Open, BeginLoad
<1>2. Succession'
  BY DEF IInv, Shape, Succession, BeginLoad, AfterLoad
<1>3. Origin'
  BY DEF IInv, Shape, Origin, Fresh, BeginLoad, AfterLoad, At
<1>4. LiveOwner'
  BY DEF IInv, Shape, LiveOwner, BeginLoad, AfterLoad, At
<1>5. Ownership'
  BY DEF IInv, Shape, Ownership, BeginLoad, AfterLoad
<1> QED BY <1>1, <1>2, <1>3, <1>4, <1>5 DEF IInv

\* The loader reads a record.
LEMMA StepLoadRead ==
    ASSUME IInv, NEW i \in Ids, LoadRead(i)
    PROVE  IInv'
<1>1. Shape'
  <2>1. load' \in LoadType
    <3>1. disk[i] \in RecType /\ load \in LoadType /\ i \in 0 .. MaxJobs
      BY Retype, JobsAssumption DEF IInv, Shape, Ids
    <3> QED BY <3>1 DEF LoadRead, LoadType
  <2> QED BY <2>1 DEF IInv, Shape, Open, LoadRead, LoadType
<1>2. Succession'
  BY DEF IInv, Shape, Succession, LoadRead
<1>3. Origin'
  BY DEF IInv, Shape, Origin, Fresh, LoadRead, At
<1>4. LiveOwner'
  BY DEF IInv, Shape, LiveOwner, LoadRead, At
<1>5. Ownership'
  BY DEF IInv, Shape, Ownership, LoadRead
<1> QED BY <1>1, <1>2, <1>3, <1>4, <1>5 DEF IInv

\* A terminal record becomes a tombstone.
LEMMA StepLoadTerminal ==
    ASSUME IInv, LoadTerminal
    PROVE  IInv'
<1>o. cur \in Managers /\ load.id \in Ids
  BY OwnerIsManager DEF LoadTerminal, IInv, Shape
<1>l. load' \in LoadType /\ load'.at # "settle" /\ load'.todo \subseteq load.todo
  <2>1. \E d \in BOOLEAN : Defers(d)
    BY DEF LoadTerminal
  <2>2. load.todo \in SUBSET Ids /\ load.deferred \in BOOLEAN
    BY DEF IInv, Shape, LoadType
  <2> QED BY <2>1, <2>2, LoadTyped DEF Defers
<1>1. Shape'
  <2>1. table' \in [Managers -> [Ids -> EntryType]]
    <3>1. [st |-> load.meta.st, ev |-> load.meta.ev, com |-> FALSE, done |-> TRUE] \in EntryType
      BY DEF IInv, Shape, LoadType, RecType, EntryType
    <3> QED BY <1>o, <3>1, Retype DEF LoadTerminal, Tombstone, IInv, Shape
  <2> QED BY <1>l, <2>1 DEF IInv, Shape, Open, LoadTerminal
<1>2. Succession'
  BY DEF IInv, Shape, Succession, LoadTerminal, Tombstone, Defers, AfterLoad
<1>3. Origin'
  BY DEF IInv, Shape, Origin, Fresh, LoadTerminal, Tombstone, Defers, AfterLoad, At
<1>4. LiveOwner'
  BY DEF IInv, Shape, LiveOwner, LoadTerminal, Tombstone, Defers, AfterLoad, At
<1>5. Ownership'
  BY DEF IInv, Shape, Ownership, LoadTerminal, Tombstone, Defers, AfterLoad
<1> QED BY <1>1, <1>2, <1>3, <1>4, <1>5 DEF IInv

\* A Running record is left alone, or repaired because its owner, the job's own, is gone.
LEMMA StepLoadRunning ==
    ASSUME IInv, LoadRunning
    PROVE  IInv'
<1>o. cur \in Managers /\ load.id \in Ids
  BY OwnerIsManager DEF LoadRunning, IInv, Shape
<1>l. load' \in LoadType /\ load'.at # "settle" /\ load'.todo \subseteq load.todo
  <2>1. \E d \in BOOLEAN : Defers(d)
    BY DEF LoadRunning
  <2>2. load.todo \in SUBSET Ids /\ load.deferred \in BOOLEAN
    BY DEF IInv, Shape, LoadType
  <2> QED BY <2>1, <2>2, LoadTyped DEF Defers
<1>n. ~At(load.id, "none") /\ job[load.id].owner \in Managers
  BY <1>o, OwnerIsManager DEF LoadRunning, IInv, Origin, Fresh, At
<1>5. CASE UNCHANGED <<disk, table>>
  <2>1. Shape'
    BY <1>5, <1>l DEF IInv, Shape, Open, LoadRunning
  <2>2. Succession'
    BY DEF IInv, Succession, LoadRunning
  <2>3. Origin'
    BY <1>5, <1>l DEF IInv, Origin, Fresh, At, LoadRunning
  <2>4. LiveOwner'
    BY DEF IInv, LiveOwner, At, LoadRunning
  <2>5. Ownership'
    BY <1>5, <1>l DEF IInv, Ownership, LoadRunning
  <2> QED BY <2>1, <2>2, <2>3, <2>4, <2>5 DEF IInv
<1>6. CASE /\ ~Live(load.meta.owner)
            /\ disk' = [disk EXCEPT ![load.id] = [load.meta EXCEPT !.st = "interrupted"]]
            /\ Tombstone("interrupted")
  <2>c. mgr[job[load.id].owner] = "closed"
    <3>1. load.meta.owner = job[load.id].owner
      BY <1>o DEF LoadRunning, IInv, Ownership
    <3>2. job[load.id].owner # 0 /\ mgr[job[load.id].owner] # "none"
      BY <1>o, <1>n, JobsAssumption
         DEF IInv, Shape, Origin, Succession, Owners, Managers
    <3> QED BY <1>n, <1>6, <3>1, <3>2 DEF Live, IInv, Shape
  <2>t. /\ table' \in [Managers -> [Ids -> EntryType]]
        /\ \A m \in Managers, i \in Ids :
             table'[m][i] = table[m][i] \/ (i = load.id /\ table'[m][i].st = "interrupted")
    <3> DEFINE e == [st |-> "interrupted", ev |-> load.meta.ev, com |-> FALSE, done |-> TRUE]
    <3>1. e \in EntryType /\ e.st = "interrupted"
      BY DEF IInv, Shape, LoadType, RecType, EntryType, Statuses
    <3>2. table' = table \/ table' = [table EXCEPT ![cur][load.id] = e]
      BY <1>6 DEF Tombstone
    <3> HIDE DEF e
    <3>3. CASE table' = table
      BY <3>3 DEF IInv, Shape
    <3>4. CASE table' = [table EXCEPT ![cur][load.id] = e]
      <4>1. table' \in [Managers -> [Ids -> EntryType]]
        BY <1>o, <3>1, <3>4, Retype
      <4> QED BY <1>o, <3>1, <3>4, <4>1 DEF IInv, Shape
    <3> QED BY <3>2, <3>3, <3>4
  <2>d. /\ disk' \in [Ids -> RecType]
        /\ \A i \in Ids : disk'[i] = disk[i] \/ (i = load.id /\ disk'[i].st = "interrupted")
    <3>1. [load.meta EXCEPT !.st = "interrupted"] \in RecType
      BY DEF IInv, Shape, LoadType, RecType, Statuses
    <3> QED BY <1>o, <1>6, <3>1 DEF IInv, Shape, RecType
  <2>1. Shape'
    BY <1>l, <2>t, <2>d DEF IInv, Shape, Open, LoadRunning
  <2>2. Succession'
    BY DEF IInv, Succession, LoadRunning
  <2>3. Origin'
    BY <1>o, <1>l, <2>t, <2>d DEF IInv, Origin, Fresh, At, LoadRunning
  <2>4. LiveOwner'
    BY DEF IInv, LiveOwner, At, LoadRunning
  <2>5. Ownership'
    BY <1>l, <2>c, <2>t, <2>d DEF IInv, Ownership, LoadRunning
  <2> QED BY <2>1, <2>2, <2>3, <2>4, <2>5 DEF IInv
<1> QED BY <1>5, <1>6 DEF LoadRunning, Repairable

\* A delivered turn commits a lease.
LEMMA StepCommit ==
    ASSUME IInv, NEW i \in Ids, Commit(i)
    PROVE  IInv'
<1>o. cur \in Managers /\ Mine[i] \in EntryType
  BY OwnerIsManager, Retype DEF Commit, IInv, Shape, Mine
<1> DEFINE r == Record(i, Mine[i].st, FALSE, cur)
<1>r. r \in RecType /\ r.st = Mine[i].st /\ r.owner = cur
  BY <1>o, JobsAssumption DEF Record, RecType, EntryType, Owners, Managers
<1>w. /\ disk' \in [Ids -> RecType]
      /\ disk'[i] = r \/ disk'[i] = disk[i]
      /\ \A j \in Ids \ {i} : disk'[j] = disk[j]
  <2>1. CASE disk' = disk
    BY <2>1 DEF IInv, Shape
  <2>2. CASE Writes(i, r)
    BY <2>2, <1>r, WritesRecord
  <2> QED BY <2>1, <2>2 DEF Commit
<1>t. /\ table' \in [Managers -> [Ids -> EntryType]]
      /\ \A m \in Managers, j \in Ids : table'[m][j].st = table[m][j].st
  <2>1. CASE table' = table
    BY <2>1 DEF IInv, Shape
  <2>2. CASE table' = [table EXCEPT ![cur][i].com = TRUE, ![cur][i].ev = FALSE]
    <3>1. [table[cur][i] EXCEPT !.com = TRUE, !.ev = FALSE] \in EntryType
      BY <1>o DEF Mine, EntryType
    <3>2. table' = [table EXCEPT ![cur][i] = [table[cur][i] EXCEPT !.com = TRUE, !.ev = FALSE]]
      BY <1>o, <2>2 DEF IInv, Shape
    <3> QED BY <1>o, <3>1, <3>2 DEF IInv, Shape, EntryType, Mine
  <2> QED BY <2>1, <2>2 DEF Commit
<1> HIDE DEF r
<1>1. Shape'
  BY <1>w, <1>t DEF IInv, Shape, Open, Commit
<1>2. Succession'
  BY DEF IInv, Shape, Succession, Commit, Writes, Record, Spend
<1>3. Origin'
  <2>1. UNCHANGED <<mgr, cur, job, load>>
    BY DEF Commit
  <2>2. Fresh(i) => Mine[i].st = "none"
    BY <1>o DEF IInv, Origin, Mine
  <2>3. \A j \in Ids : Fresh(j) => disk'[j].st = "none"
    BY <1>r, <1>w, <2>2 DEF IInv, Origin
  <2> QED BY <1>t, <2>1, <2>3 DEF IInv, Origin, Fresh, At
<1>4. LiveOwner'
  BY DEF IInv, Shape, LiveOwner, Commit, Writes, Record, Spend, At
<1>5. Ownership'
  <2>1. UNCHANGED <<mgr, cur, job, load>>
    BY DEF Commit
  <2>2. /\ Mine[i].st = "running" => job[i].owner = cur
        /\ Mine[i].st = "interrupted" => mgr[job[i].owner] = "closed"
    BY <1>o DEF IInv, Ownership, Mine
  <2>3. \A j \in Ids : /\ disk'[j].st = "running" => disk'[j].owner = job[j].owner
                       /\ disk'[j].st = "interrupted" => mgr[job[j].owner] = "closed"
    BY <1>r, <1>w, <2>2 DEF IInv, Ownership
  <2> QED BY <1>t, <2>1, <2>3 DEF IInv, Ownership
<1> QED BY <1>1, <1>2, <1>3, <1>4, <1>5 DEF IInv

\* Turns take, collect and give up leases and end: none of it touches a job.
LEMMA StepQuiet ==
    ASSUME IInv, UNCHANGED <<mgr, cur, table, job, disk, load>>,
           turn'.at # "idle" => Open
    PROVE  IInv'
BY DEF IInv, Shape, Succession, Origin, Fresh, LiveOwner, Ownership, At, Open

-----------------------------------------------------------------------------
(* The invariant *)

\* Nothing has happened yet: no manager, no job, no record.
LEMMA InitInv == Init => IInv
<1> SUFFICES ASSUME Init
             PROVE  IInv
  OBVIOUS
<1>1. /\ \A i \in Ids : job[i] = NoJob /\ disk[i] = NoRec
      /\ \A m \in Managers, i \in Ids : table[m][i] = NoEntry
      /\ \A m \in Managers : mgr[m] = "none"
      /\ cur = 0 /\ load = Unbound /\ turn.at = "idle"
  BY DEF Init, NoTurn
<1>2. NoJob \in JobType /\ NoRec \in RecType /\ NoEntry \in EntryType
  BY JobsAssumption DEF NoJob, JobType, Pcs, NoRec, RecType, NoEntry, EntryType, Owners
<1>3. Shape
  BY <1>1, <1>2, LoadTyped, JobsAssumption DEF Init, Shape, Owners
<1>4. Succession
  BY <1>1 DEF Succession, Managers
<1>5. Origin /\ LiveOwner /\ Ownership
  BY <1>1, LoadTyped
     DEF Origin, Fresh, LiveOwner, Ownership, At, NoJob, NoRec, NoEntry
<1> QED BY <1>3, <1>4, <1>5 DEF IInv

\* The steps of a job, from its call to the end of its goroutine.
LEMMA JobSteps ==
    ASSUME IInv, NEW i \in Ids,
           \/ Reserve(i) \/ Abandon(i) \/ StartFleet(i) \/ Start(i)
           \/ Mutate(i) \/ Return(i) \/ Goroutine(i) \/ Kill(i) \/ CancelCtx(i)
           \/ LoadRead(i) \/ Collect(i) \/ Commit(i)
    PROVE  IInv'
<1>1. CASE Reserve(i) \/ Abandon(i) \/ StartFleet(i)
  BY <1>1, StepReserve, StepAbandon, StepStartFleet
<1>2. CASE Start(i)
  <2>1. CASE ReleaseStart(i)
    BY <2>1, StepQuiet DEF ReleaseStart, IInv, Shape
  <2> QED BY <1>2, <2>1, StepRegister, StepWriteRunning, StepLaunch DEF Start
<1>3. CASE Mutate(i) \/ Return(i) \/ Kill(i) \/ CancelCtx(i)
  BY <1>3, StepMutate, StepReturn, StepKill, StepCancelCtx
<1>4. CASE Goroutine(i)
  BY <1>4, StepWriteTerminal, StepRecordCompletion, StepPublish, StepCloseDone DEF Goroutine
<1>5. CASE Collect(i)
  BY <1>5, StepQuiet DEF Collect, IInv, Shape
<1>6. CASE LoadRead(i) \/ Commit(i)
  BY <1>6, StepLoadRead, StepCommit
<1> QED BY <1>1, <1>2, <1>3, <1>4, <1>5, <1>6

\* Every step keeps the invariant.
LEMMA NextInv == IInv /\ [Next]_vars => IInv'
<1> SUFFICES ASSUME IInv, [Next]_vars
             PROVE  IInv'
  OBVIOUS
<1>1. CASE UNCHANGED vars
  BY <1>1, StepQuiet DEF vars, IInv, Shape
<1>2. ASSUME NEW i \in Ids,
             \/ Reserve(i) \/ Abandon(i) \/ StartFleet(i) \/ Start(i)
             \/ Mutate(i) \/ Return(i) \/ Goroutine(i) \/ Kill(i) \/ CancelCtx(i)
             \/ LoadRead(i) \/ Collect(i) \/ Commit(i)
      PROVE  IInv'
  BY <1>2, JobSteps
<1>3. CASE BeginDestroy \/ FinishDestroy \/ Close \/ Exit \/ NewManager
  BY <1>3, StepBeginDestroy, StepFinishDestroy, StepClose, StepExit, StepNewManager
<1>4. ASSUME NEW m \in Managers, ReleaseOwner(m)
      PROVE  IInv'
  BY <1>4, StepReleaseOwner
<1>5. CASE BeginLoad \/ LoadTerminal \/ LoadRunning
  BY <1>5, StepBeginLoad, StepLoadTerminal, StepLoadRunning
<1>6. ASSUME NEW plan \in BOOLEAN, BeginTurn(plan)
      PROVE  IInv'
  BY <1>6, StepQuiet DEF BeginTurn
<1>7. CASE Deliver \/ FailTurn \/ EndTurn
  BY <1>7, StepQuiet DEF Deliver, FailTurn, EndTurn, NoTurn, IInv, Shape
<1> QED BY <1>1, <1>2, <1>3, <1>4, <1>5, <1>6, <1>7 DEF Next

\* The inductive invariant holds in every reachable state, for any number of jobs
\* and managers, any limit and any faults.
THEOREM JobsInvariant == Spec => []IInv
<1>1. Init => IInv
  BY InitInv
<1>2. IInv /\ [Next]_vars => IInv'
  BY NextInv
<1> QED BY <1>1, <1>2, PTL DEF Spec

\* A record that loadSessionArtifacts repaired as interrupted is of a job that
\* changes nothing any more, whatever closed, crashed or was still unwinding.
THEOREM RepairedIsOver == Spec => []InterruptedIsOver
<1>1. IInv => InterruptedIsOver
  BY DEF IInv, LiveOwner, Ownership, InterruptedIsOver
<1>2. Spec => []IInv
  BY JobsInvariant
<1> QED BY <1>1, <1>2, PTL

-----------------------------------------------------------------------------
(* Evidence *)

TurnType == [at : {"idle", "run", "commit"}, plan : BOOLEAN, leases : SUBSET Ids,
             merged : SUBSET Ids, owed : SUBSET Ids]

\* A turn that commits has been delivered.
Answering ==
    /\ turn \in TurnType
    /\ turn.at = "commit" => turn.merged \subseteq reviewed

\* An id not yet registered was never finished and is in no lease.
Unused ==
    \A i \in Ids : Fresh(i) => i \notin turn.leases /\ \A m \in Managers : ~table[m][i].done

\* A registered job of the open manager, not of a destroyed session.
Own(i) == Open /\ job[i].owner = cur /\ ~Fresh(i) /\ i \notin dropped

\* Its entry carries the evidence of its changes until a delivered turn had them in
\* its ledger; a lease on it was taken after its goroutine ended, and either has the
\* changes or there is nothing left to have.
Settled(i) == i \in reviewed \/ ~job[i].wrote
Carries(i, e) ==
    /\ job[i].pc # "gone" /\ e.st # "none"
    /\ e.done <=> At(i, "done")
    /\ e.com => At(i, "done") /\ Settled(i)
    /\ ~e.com /\ job[i].pc \in {"returned", "written", "noted", "published", "done"}
       => (e.ev <=> job[i].wrote)
    /\ i \in turn.leases => At(i, "done") /\ (i \in turn.merged \/ Settled(i))
OwnKept == \A i \in Ids : Own(i) => Carries(i, table[cur][i])

Kept == Answering /\ Unused /\ OwnKept

\* A step on one job leaves what the others carry alone.
LEMMA OthersKept ==
    ASSUME IInv, Kept, NEW i \in Ids, UNCHANGED <<mgr, cur, turn, reviewed, dropped>>,
           \A j \in Ids \ {i} : job'[j] = job[j] /\ (Open => table'[cur][j] = table[cur][j]),
           Own(i)' => Carries(i, table[cur][i])'
    PROVE  OwnKept'
<1> SUFFICES ASSUME NEW j \in Ids, Own(j)'
             PROVE  Carries(j, table[cur][j])'
  BY DEF OwnKept
<1>1. CASE j = i
  BY <1>1
<1>2. CASE j # i
  <2>1. job'[j] = job[j] /\ table'[cur][j] = table[cur][j]
    BY <1>2 DEF Own, Open
  <2>2. Carries(j, table[cur][j])
    BY <2>1 DEF Own, Open, Fresh, Kept, OwnKept
  <2> QED BY <2>1, <2>2 DEF Carries, Settled, At
<1> QED BY <1>1, <1>2

\* A task is called with a reservation.
LEMMA KeepReserve ==
    ASSUME IInv, Kept, NEW i \in Ids, Reserve(i)
    PROVE  Kept'
<1>1. Answering'
  BY DEF Kept, Answering, Reserve, Call, NextId, Spend
<1>2. Unused'
  BY DEF Kept, Unused, Fresh, IInv, Shape, Origin, At, Open, JobType, EntryType, TurnType,
     Answering, NoJob, Reserve, Call, NextId, Spend
<1>3. OwnKept'
  BY DEF Kept, OwnKept, Own, Carries, Settled, Fresh, At, Open, Reserve, Call, NextId, Spend
<1> QED BY <1>1, <1>2, <1>3 DEF Kept

\* The setup of a task fails; its place is free again.
LEMMA KeepAbandon ==
    ASSUME IInv, Kept, NEW i \in Ids, Abandon(i)
    PROVE  Kept'
<1>1. Answering'
  BY DEF Kept, Answering, Abandon
<1>2. Unused'
  BY DEF Kept, Unused, Fresh, IInv, Shape, Origin, At, Open, JobType, EntryType, TurnType,
     Answering, NoJob, Abandon
<1>3. OwnKept'
  BY DEF Kept, OwnKept, Own, Carries, Settled, Fresh, At, Open, IInv, Shape, JobType,
     EntryType, TurnType, Answering, Unused, NoJob, Abandon
<1> QED BY <1>1, <1>2, <1>3 DEF Kept

\* A fleet is called.
LEMMA KeepStartFleet ==
    ASSUME IInv, Kept, NEW i \in Ids, StartFleet(i)
    PROVE  Kept'
<1>1. Answering'
  BY DEF Kept, Answering, StartFleet, Call, NextId, Spend
<1>2. Unused'
  BY DEF Kept, Unused, Fresh, IInv, Shape, Origin, At, Open, JobType, EntryType, TurnType,
     Answering, NoJob, StartFleet, Call, NextId, Spend
<1>3. OwnKept'
  BY DEF Kept, OwnKept, Own, Carries, Settled, Fresh, At, Open, StartFleet, Call, NextId,
     Spend
<1> QED BY <1>1, <1>2, <1>3 DEF Kept

\* The job enters its manager's table.
LEMMA KeepRegister ==
    ASSUME IInv, Kept, NEW i \in Ids, Register(i)
    PROVE  Kept'
<1>1. Answering'
  BY DEF Kept, Answering, Register, SetEntry
<1>2. Unused'
  BY DEF Kept, Unused, Fresh, IInv, Shape, Origin, At, Open, JobType, EntryType, TurnType,
     Answering, NoEntry, Register, SetEntry
<1>3. OwnKept'
  BY OwnerIsManager DEF Kept, OwnKept, Own, Carries, Settled, Fresh, At, Open, IInv, Shape,
     JobType, EntryType, TurnType, Answering, Unused, NoEntry, Register, SetEntry
<1> QED BY <1>1, <1>2, <1>3 DEF Kept

\* The Running record, or a failure to write it.
LEMMA KeepWriteRunning ==
    ASSUME IInv, Kept, NEW i \in Ids, WriteRunning(i)
    PROVE  Kept'
<1>1. Answering'
  BY DEF Kept, Answering, WriteRunning, Goto, Writes, Record, Spend
<1>2. Unused'
  BY DEF Kept, Unused, Fresh, WriteRunning, Goto, Writes, Record, Spend
<1>3. OwnKept'
  BY DEF Kept, OwnKept, Own, Carries, Settled, Fresh, At, Open, WriteRunning, Goto, Writes,
     Record, Spend
<1> QED BY <1>1, <1>2, <1>3 DEF Kept

\* The goroutine starts; only under an open owner does it run.
LEMMA KeepLaunch ==
    ASSUME IInv, Kept, NEW i \in Ids, Launch(i)
    PROVE  Kept'
<1>1. Answering'
  BY DEF Kept, Answering, Launch, Goto
<1>2. Unused'
  BY DEF Kept, Unused, Fresh, Launch, Goto
<1>3. OwnKept'
  BY DEF Kept, OwnKept, Own, Carries, Settled, Fresh, At, Open, Launch, Goto
<1> QED BY <1>1, <1>2, <1>3 DEF Kept

\* A run changes files.
LEMMA KeepMutate ==
    ASSUME IInv, Kept, NEW i \in Ids, Mutate(i)
    PROVE  Kept'
<1>1. Answering'
  BY DEF Kept, Answering, Mutate
<1>2. Unused'
  BY DEF Kept, Unused, Fresh, Mutate
<1>3. OwnKept'
  BY DEF Kept, OwnKept, Own, Carries, Settled, Fresh, At, Open, Mutate
<1> QED BY <1>1, <1>2, <1>3 DEF Kept

\* The run publishes its evidence and returns.
LEMMA KeepReturn ==
    ASSUME IInv, Kept, NEW i \in Ids, Return(i)
    PROVE  Kept'
<1>1. Answering'
  BY DEF Kept, Answering, Return, SetEntry, Entry, Outcomes
<1>2. Unused'
  BY DEF Kept, Unused, Fresh, IInv, Shape, Origin, At, Open, JobType, EntryType, TurnType,
     Answering, Entry, Return, SetEntry, Outcomes
<1>3. OwnKept'
  <2>1. job[i] \in JobType /\ job[i].owner \in Managers /\ Entry(i) \in EntryType
    BY Retype, OwnerIsManager DEF Return, At, Entry
  <2>2. job'[i].owner = job[i].owner /\ job'[i].pc = "returned" /\ job'[i].wrote = job[i].wrote
    BY <2>1 DEF Return, IInv, Shape, JobType
  <2>3. table'[job[i].owner][i] = [Entry(i) EXCEPT !.ev = job[i].wrote]
    BY <2>1 DEF Return, SetEntry, IInv, Shape
  <2>4. Own(i) => Carries(i, table[cur][i])
    BY DEF Kept, OwnKept
  <2>5. Own(i)' => Carries(i, table[cur][i])'
    BY <2>1, <2>2, <2>3, <2>4
       DEF Return, Own, Carries, Settled, Fresh, At, Entry, Open, EntryType
  <2>6. \A j \in Ids \ {i} : job'[j] = job[j] /\ (Open => table'[cur][j] = table[cur][j])
    BY <2>1 DEF Return, SetEntry, IInv, Shape
  <2> QED BY <2>5, <2>6, OthersKept DEF Return
<1> QED BY <1>1, <1>2, <1>3 DEF Kept

\* The terminal record, or a failure to write it.
LEMMA KeepWriteTerminal ==
    ASSUME IInv, Kept, NEW i \in Ids, WriteTerminal(i)
    PROVE  Kept'
<1>1. Answering'
  BY DEF Kept, Answering, WriteTerminal, Writes, Record, Entry, Spend
<1>2. Unused'
  BY DEF Kept, Unused, Fresh, IInv, Shape, Origin, At, Open, JobType, EntryType, TurnType,
     Answering, Entry, WriteTerminal, Writes, Record, Spend
<1>3. OwnKept'
  BY OwnerIsManager DEF Kept, OwnKept, Own, Carries, Settled, Fresh, At, Open, IInv, Shape,
     JobType, EntryType, TurnType, Answering, Unused, Entry, WriteTerminal, Writes, Record,
     Spend
<1> QED BY <1>1, <1>2, <1>3 DEF Kept

\* The note is queued.
LEMMA KeepRecordCompletion ==
    ASSUME IInv, Kept, NEW i \in Ids, RecordCompletion(i)
    PROVE  Kept'
<1>1. Answering'
  BY DEF Kept, Answering, RecordCompletion, Goto
<1>2. Unused'
  BY DEF Kept, Unused, Fresh, RecordCompletion, Goto
<1>3. OwnKept'
  BY DEF Kept, OwnKept, Own, Carries, Settled, Fresh, At, Open, RecordCompletion, Goto
<1> QED BY <1>1, <1>2, <1>3 DEF Kept

\* The terminal status is published.
LEMMA KeepPublish ==
    ASSUME IInv, Kept, NEW i \in Ids, Publish(i)
    PROVE  Kept'
<1>1. Answering'
  BY DEF Kept, Answering, Publish, SetEntry, Entry, Published
<1>2. Unused'
  BY DEF Kept, Unused, Fresh, IInv, Shape, Origin, At, Open, JobType, EntryType, TurnType,
     Answering, Entry, Publish, SetEntry, Published
<1>3. OwnKept'
  <2>1. job[i] \in JobType /\ job[i].owner \in Managers /\ Entry(i) \in EntryType
    BY Retype, OwnerIsManager DEF Publish, At, Entry
  <2>2. job'[i].owner = job[i].owner /\ job'[i].pc = "published" /\ job'[i].wrote = job[i].wrote
    BY <2>1 DEF Publish, IInv, Shape, JobType
  <2>3. table'[job[i].owner][i] = Published(i)
    BY <2>1 DEF Publish, SetEntry, IInv, Shape
  <2>4. /\ Published(i).ev = Entry(i).ev /\ Published(i).com = Entry(i).com
        /\ Published(i).done = Entry(i).done
        /\ Entry(i).st # "none" => Published(i).st # "none"
    BY <2>1 DEF Published, EntryType, JobType
  <2>5. Own(i) => Carries(i, table[cur][i])
    BY DEF Kept, OwnKept
  <2>6. Own(i)' => Carries(i, table[cur][i])'
    BY <2>1, <2>2, <2>3, <2>4, <2>5
       DEF Publish, Own, Carries, Settled, Fresh, At, Entry, Open, EntryType
  <2>7. \A j \in Ids \ {i} : job'[j] = job[j] /\ (Open => table'[cur][j] = table[cur][j])
    BY <2>1 DEF Publish, SetEntry, IInv, Shape
  <2> QED BY <2>6, <2>7, OthersKept DEF Publish
<1> QED BY <1>1, <1>2, <1>3 DEF Kept

\* The done channel is closed.
LEMMA KeepCloseDone ==
    ASSUME IInv, Kept, NEW i \in Ids, CloseDone(i)
    PROVE  Kept'
<1>1. Answering'
  BY DEF Kept, Answering, CloseDone, SetEntry, Entry
<1>2. Unused'
  BY DEF Kept, Unused, Fresh, IInv, Shape, Origin, At, Open, JobType, EntryType, TurnType,
     Answering, Entry, CloseDone, SetEntry
<1>3. OwnKept'
  <2>1. job[i] \in JobType /\ job[i].owner \in Managers /\ Entry(i) \in EntryType
    BY Retype, OwnerIsManager DEF CloseDone, At, Entry
  <2>2. job'[i].owner = job[i].owner /\ job'[i].pc = "done" /\ job'[i].wrote = job[i].wrote
    BY <2>1 DEF CloseDone, IInv, Shape, JobType
  <2>3. table'[job[i].owner][i] = [Entry(i) EXCEPT !.done = (@ \/ Entry(i).st # "none")]
    BY <2>1 DEF CloseDone, SetEntry, IInv, Shape
  <2>4. Own(i) => Carries(i, table[cur][i])
    BY DEF Kept, OwnKept
  <2>5. /\ table'[job[i].owner][i].st = Entry(i).st /\ table'[job[i].owner][i].ev = Entry(i).ev
        /\ table'[job[i].owner][i].com = Entry(i).com
        /\ Entry(i).st # "none" => table'[job[i].owner][i].done
    BY <2>1, <2>3 DEF EntryType
  <2>6. Own(i)' => Carries(i, table[cur][i])'
    BY <2>1, <2>2, <2>4, <2>5
       DEF CloseDone, Own, Carries, Settled, Fresh, At, Entry, Open
  <2>7. \A j \in Ids \ {i} : job'[j] = job[j] /\ (Open => table'[cur][j] = table[cur][j])
    BY <2>1 DEF CloseDone, SetEntry, IInv, Shape
  <2> QED BY <2>6, <2>7, OthersKept DEF CloseDone
<1> QED BY <1>1, <1>2, <1>3 DEF Kept

\* A job of the open manager is killed.
LEMMA KeepKill ==
    ASSUME IInv, Kept, NEW i \in Ids, Kill(i)
    PROVE  Kept'
<1>1. Answering'
  BY DEF Kept, Answering, Kill, Spend
<1>2. Unused'
  BY DEF Kept, Unused, Fresh, Kill, Spend
<1>3. OwnKept'
  BY DEF Kept, OwnKept, Own, Carries, Settled, Fresh, At, Open, Kill, Spend
<1> QED BY <1>1, <1>2, <1>3 DEF Kept

\* The killed job's context is cancelled.
LEMMA KeepCancelCtx ==
    ASSUME IInv, Kept, NEW i \in Ids, CancelCtx(i)
    PROVE  Kept'
<1>1. Answering'
  BY DEF Kept, Answering, CancelCtx
<1>2. Unused'
  BY DEF Kept, Unused, Fresh, CancelCtx
<1>3. OwnKept'
  BY DEF Kept, OwnKept, Own, Carries, Settled, Fresh, At, Open, CancelCtx
<1> QED BY <1>1, <1>2, <1>3 DEF Kept

\* The session's destruction begins.
LEMMA KeepBeginDestroy ==
    ASSUME IInv, Kept, BeginDestroy
    PROVE  Kept'
<1>1. Answering'
  BY DEF Kept, Answering, BeginDestroy, Stopped, Spend
<1>2. Unused'
  BY DEF Kept, Unused, Fresh, IInv, Shape, Origin, At, Open, Mine, JobType, EntryType,
     TurnType, Answering, BeginDestroy, Stopped, Spend
<1>3. OwnKept'
  BY DEF Kept, OwnKept, Own, Carries, Settled, Fresh, At, Open, IInv, Shape, Mine, JobType,
     EntryType, TurnType, Answering, Unused, BeginDestroy, Stopped, Spend
<1> QED BY <1>1, <1>2, <1>3 DEF Kept

\* The session's records and entries are gone.
LEMMA KeepFinishDestroy ==
    ASSUME IInv, Kept, FinishDestroy
    PROVE  Kept'
<1>1. Answering'
  BY DEF Kept, Answering, FinishDestroy
<1>2. Unused'
  BY DEF Kept, Unused, Fresh, IInv, Shape, Origin, At, Open, JobType, EntryType, TurnType,
     Answering, NoEntry, FinishDestroy
<1>3. OwnKept'
  BY DEF Kept, OwnKept, Own, Carries, Settled, Fresh, At, Open, FinishDestroy
<1> QED BY <1>1, <1>2, <1>3 DEF Kept

\* The manager is closed and every context under it cancelled.
LEMMA KeepClose ==
    ASSUME IInv, Kept, Close
    PROVE  Kept'
<1>1. Answering'
  BY DEF Close, NoTurn, Answering, TurnType
<1>2. Unused'
  <2>1. cur \in Managers
    BY OwnerIsManager DEF Close
  <2>2. \A i \in Ids, m \in Managers : table'[m][i].done = table[m][i].done
    BY <2>1 DEF Close, Stopped, Mine, IInv, Shape, EntryType
  <2>3. turn'.leases = {}
    BY DEF Close, NoTurn
  <2>4. \A i \in Ids : job'[i].pc = job[i].pc
    BY DEF Close, RootCancelled, IInv, Shape, JobType
  <2> QED BY <2>2, <2>3, <2>4 DEF Kept, Unused, Fresh
<1>3. OwnKept'
  BY OwnerIsManager DEF Kept, OwnKept, Own, Carries, Settled, Fresh, At, Open, IInv, Shape,
     Mine, JobType, EntryType, TurnType, Answering, Unused, Close, Stopped, RootCancelled,
     Counted, Spend
<1> QED BY <1>1, <1>2, <1>3 DEF Kept

\* A closed manager without goroutines gives up its ownership.
LEMMA KeepReleaseOwner ==
    ASSUME IInv, Kept, NEW m \in Managers, ReleaseOwner(m)
    PROVE  Kept'
<1>1. Answering'
  BY DEF Kept, Answering, ReleaseOwner, Counted, Starting
<1>2. Unused'
  BY DEF Kept, Unused, Fresh, IInv, Shape, Origin, At, Open, JobType, EntryType, TurnType,
     Answering, NoEntry, ReleaseOwner, Counted, Starting
<1>3. OwnKept'
  BY DEF Kept, OwnKept, Own, Carries, Settled, Fresh, At, Open, ReleaseOwner, Counted,
     Starting
<1> QED BY <1>1, <1>2, <1>3 DEF Kept

\* The process ends.
LEMMA KeepExit ==
    ASSUME IInv, Kept, Exit
    PROVE  Kept'
<1>1. Answering'
  BY DEF Exit, NoTurn, Answering, TurnType
<1>2. Unused'
  <2>1. \A i \in Ids, m \in Managers : ~table'[m][i].done
    BY DEF Exit, NoEntry
  <2>2. turn'.leases = {}
    BY DEF Exit, NoTurn
  <2> QED BY <2>1, <2>2 DEF Unused
<1>3. OwnKept'
  <2>1. ASSUME Open'
        PROVE  FALSE
    <3>1. cur \in Managers
      <4>1. cur # 0
        BY <2>1 DEF Open, Exit
      <4>2. cur \in Owners
        BY DEF IInv, Shape
      <4> QED BY <4>1, <4>2, JobsAssumption DEF Owners, Managers
    <3>2. mgr'[cur] \in {"none", "closed"}
      BY <3>1 DEF Exit
    <3> QED BY <2>1, <3>2 DEF Open, Exit
  <2> QED BY <2>1 DEF OwnKept, Own
<1> QED BY <1>1, <1>2, <1>3 DEF Kept

\* A successor is made.
LEMMA KeepNewManager ==
    ASSUME IInv, Kept, NewManager
    PROVE  Kept'
<1>1. Answering'
  BY DEF Kept, Answering, NewManager
<1>2. Unused'
  BY DEF Kept, Unused, Fresh, NewManager
<1>3. OwnKept'
  <2>1. \A i \in Ids : ~At(i, "none") => job[i].owner # cur + 1
    BY JobsAssumption DEF IInv, Shape, Origin, Owners
  <2> QED BY <2>1 DEF OwnKept, Own, Fresh, At, NewManager
<1> QED BY <1>1, <1>2, <1>3 DEF Kept

\* The session is bound to its path.
LEMMA KeepBeginLoad ==
    ASSUME IInv, Kept, BeginLoad
    PROVE  Kept'
<1>1. Answering'
  BY DEF Kept, Answering, BeginLoad, AfterLoad
<1>2. Unused'
  BY DEF Kept, Unused, Fresh, BeginLoad, AfterLoad
<1>3. OwnKept'
  BY DEF Kept, OwnKept, Own, Carries, Settled, Fresh, At, Open, BeginLoad, AfterLoad
<1> QED BY <1>1, <1>2, <1>3 DEF Kept

\* The loader reads a record.
LEMMA KeepLoadRead ==
    ASSUME IInv, Kept, NEW i \in Ids, LoadRead(i)
    PROVE  Kept'
<1>1. Answering'
  BY DEF Kept, Answering, LoadRead
<1>2. Unused'
  BY DEF Kept, Unused, Fresh, LoadRead
<1>3. OwnKept'
  BY DEF Kept, OwnKept, Own, Carries, Settled, Fresh, At, Open, LoadRead
<1> QED BY <1>1, <1>2, <1>3 DEF Kept

\* A terminal record becomes a tombstone.
LEMMA KeepLoadTerminal ==
    ASSUME IInv, Kept, LoadTerminal
    PROVE  Kept'
<1>1. Answering'
  BY DEF Kept, Answering, LoadTerminal, Tombstone, Defers, AfterLoad
<1>2. Unused'
  BY DEF Kept, Unused, Fresh, IInv, Shape, Origin, At, Open, Mine, JobType, EntryType,
     TurnType, Answering, LoadTerminal, Tombstone, Defers, AfterLoad
<1>3. OwnKept'
  BY DEF Kept, OwnKept, Own, Carries, Settled, Fresh, At, Open, IInv, Shape, Mine, JobType,
     EntryType, TurnType, Answering, Unused, LoadTerminal, Tombstone, Defers, AfterLoad
<1> QED BY <1>1, <1>2, <1>3 DEF Kept

\* A Running record is left alone, or repaired because its owner, the job's own, is gone.
LEMMA KeepLoadRunning ==
    ASSUME IInv, Kept, LoadRunning
    PROVE  Kept'
<1>1. Answering'
  BY DEF Kept, Answering, LoadRunning, Tombstone, Defers, AfterLoad, Repairable, Live, Spend
<1>2. Unused'
  BY DEF Kept, Unused, Fresh, IInv, Shape, Origin, At, Open, Mine, JobType, EntryType,
     TurnType, Answering, LoadRunning, Tombstone, Defers, AfterLoad, Repairable, Live, Spend
<1>3. OwnKept'
  <2>1. cur \in Managers /\ load.id \in Ids /\ ~Fresh(load.id)
    BY OwnerIsManager DEF LoadRunning, IInv, Shape, Origin
  <2>2. UNCHANGED <<mgr, cur, job, turn, reviewed, dropped>>
    BY DEF LoadRunning
  <2>3. table' = table \/ Tombstone("interrupted")
    BY DEF LoadRunning
  <2>4. \A j \in Ids : table'[cur][j] = table[cur][j] \/ (j = load.id /\ table[cur][j].st = "none")
    BY <2>1, <2>3 DEF Tombstone, Mine, IInv, Shape
  <2>5. \A j \in Ids : Own(j) => table[cur][j].st # "none" /\ Carries(j, table[cur][j])
    BY DEF Kept, OwnKept, Carries
  <2> QED BY <2>2, <2>4, <2>5 DEF OwnKept, Own, Carries, Settled, Fresh, At, Open
<1> QED BY <1>1, <1>2, <1>3 DEF Kept

\* A delivered turn commits a lease.
LEMMA KeepCommit ==
    ASSUME IInv, Kept, NEW i \in Ids, Commit(i)
    PROVE  Kept'
<1>1. Answering'
  BY DEF Kept, Answering, TurnType, Own, OwnKept, Carries, Settled, Fresh, At, Open, Mine,
     IInv, Shape, Commit, Writes, Record, Spend
<1>2. Unused'
  <2>1. cur \in Managers
    BY OwnerIsManager DEF Commit, IInv, Shape
  <2>2. \A m \in Managers, j \in Ids : table'[m][j].done = table[m][j].done
    <3>1. CASE table' = table
      BY <3>1
    <3>2. CASE table' = [table EXCEPT ![cur][i].com = TRUE, ![cur][i].ev = FALSE]
      BY <2>1, <3>2 DEF IInv, Shape, EntryType
    <3> QED BY <3>1, <3>2 DEF Commit
  <2>3. turn'.leases \subseteq turn.leases
    BY DEF Commit, Kept, Answering, TurnType
  <2> QED BY <2>2, <2>3 DEF Kept, Unused, Fresh, Commit
<1>3. OwnKept'
  <2> SUFFICES ASSUME NEW j \in Ids, Own(j)'
               PROVE  Carries(j, table[cur][j])'
    BY DEF OwnKept
  <2>1. /\ turn.at = "commit" /\ i \in turn.leases
        /\ UNCHANGED <<mgr, cur, job, reviewed, dropped>>
        /\ turn' = [turn EXCEPT !.leases = @ \ {i}]
        /\ \/ table' = table
           \/ table' = [table EXCEPT ![cur][i].com = TRUE, ![cur][i].ev = FALSE]
    BY DEF Commit
  <2>2. cur \in Managers /\ Own(j)
    BY <2>1, OwnerIsManager DEF Own, Open, Fresh, IInv, Shape
  <2>3. Carries(j, table[cur][j])
    BY <2>2 DEF Kept, OwnKept
  <2>4. /\ turn'.leases = turn.leases \ {i} /\ turn'.merged = turn.merged
        /\ turn.merged \subseteq reviewed
    BY <2>1 DEF Kept, Answering, TurnType
  <2>5. CASE table' = table \/ j # i
    <3>1. table'[cur][j] = table[cur][j]
      BY <2>1, <2>2, <2>5 DEF IInv, Shape
    <3> QED BY <2>1, <2>3, <2>4, <3>1 DEF Carries, Settled, At
  <2>6. CASE /\ table' = [table EXCEPT ![cur][i].com = TRUE, ![cur][i].ev = FALSE]
             /\ j = i
    <3>1. table'[cur][j] = [table[cur][j] EXCEPT !.com = TRUE, !.ev = FALSE]
      BY <2>2, <2>6 DEF IInv, Shape
    <3>2. At(j, "done") /\ Settled(j)
      BY <2>1, <2>3, <2>4, <2>6 DEF Carries, Settled
    <3>3. table[cur][j] \in EntryType
      BY <2>2 DEF IInv, Shape
    <3>4. /\ table'[cur][j].st = table[cur][j].st /\ table'[cur][j].com
          /\ table'[cur][j].done = table[cur][j].done
      BY <3>1, <3>3 DEF EntryType
    <3>5. job'[j] = job[j] /\ j \notin turn'.leases /\ cur' = cur /\ reviewed' = reviewed
      BY <2>1, <2>4, <2>6
    <3> QED BY <2>3, <3>2, <3>4, <3>5, Zenon DEF Carries, Settled, At
  <2> QED BY <2>1, <2>5, <2>6
<1> QED BY <1>1, <1>2, <1>3 DEF Kept

\* The reservation of a start is given back.
LEMMA KeepReleaseStart ==
    ASSUME IInv, Kept, NEW i \in Ids, ReleaseStart(i)
    PROVE  Kept'
<1>1. Answering'
  BY DEF Kept, Answering, ReleaseStart
<1>2. Unused'
  BY DEF Kept, Unused, Fresh, ReleaseStart
<1>3. OwnKept'
  BY DEF Kept, OwnKept, Own, Carries, Settled, Fresh, At, Open, ReleaseStart
<1> QED BY <1>1, <1>2, <1>3 DEF Kept

\* A turn collects a job that has ended: its changes are in the ledger, or none are left.
LEMMA KeepCollect ==
    ASSUME IInv, Kept, NEW i \in Ids, Collect(i)
    PROVE  Kept'
<1>1. Answering'
  <2>1. turn' \in TurnType
    BY DEF Kept, Answering, TurnType, Collect
  <2>2. turn'.at = "run"
    BY DEF Kept, Answering, TurnType, Collect
  <2> QED BY <2>1, <2>2 DEF Kept, Answering, Collect
<1>2. Unused'
  BY OwnerIsManager DEF Kept, Unused, Fresh, IInv, Shape, Origin, At, Open, Mine, JobType,
     EntryType, TurnType, Answering, Collect, Pending, Ready
<1>3. OwnKept'
  BY DEF Kept, OwnKept, Own, Carries, Settled, Fresh, At, Open, IInv, Shape, Mine, JobType,
     EntryType, TurnType, Answering, Unused, Collect, Pending, Ready
<1> QED BY <1>1, <1>2, <1>3 DEF Kept

\* A turn begins with all the evidence no turn has committed.
LEMMA KeepBeginTurn ==
    ASSUME IInv, Kept, NEW plan \in BOOLEAN, BeginTurn(plan)
    PROVE  Kept'
<1>1. Answering'
  BY DEF Kept, Answering, TurnType, Own, OwnKept, Carries, Settled, Fresh, At, Open, Mine,
     IInv, Shape, BeginTurn, TurnLedger, Pending, Owed, NoTurn
<1>2. Unused'
  BY OwnerIsManager DEF Kept, Unused, Fresh, IInv, Shape, Origin, At, Open, Mine, JobType,
     EntryType, TurnType, Answering, BeginTurn, TurnLedger, Pending, Owed, NoTurn
<1>3. OwnKept'
  BY DEF Kept, OwnKept, Own, Carries, Settled, Fresh, At, Open, IInv, Shape, Mine, JobType,
     EntryType, TurnType, Answering, Unused, BeginTurn, TurnLedger, Pending, Owed, NoTurn
<1> QED BY <1>1, <1>2, <1>3 DEF Kept

\* The answer is delivered with what the ledger holds.
LEMMA KeepDeliver ==
    ASSUME IInv, Kept, Deliver
    PROVE  Kept'
<1>1. Answering'
  BY DEF Kept, Answering, TurnType, Own, OwnKept, Carries, Settled, Fresh, At, Open, IInv,
     Shape, Deliver
<1>2. Unused'
  BY DEF Kept, Unused, Fresh, Deliver
<1>3. OwnKept'
  BY DEF Kept, OwnKept, Own, Carries, Settled, Fresh, At, Open, Deliver
<1> QED BY <1>1, <1>2, <1>3 DEF Kept

\* The turn fails and its leases lapse.
LEMMA KeepFailTurn ==
    ASSUME IInv, Kept, FailTurn
    PROVE  Kept'
<1>1. Answering'
  BY DEF Kept, Answering, TurnType, Own, OwnKept, Carries, Settled, Fresh, At, Open, IInv,
     Shape, FailTurn, NoTurn
<1>2. Unused'
  BY DEF Kept, Unused, Fresh, FailTurn, NoTurn
<1>3. OwnKept'
  BY DEF Kept, OwnKept, Own, Carries, Settled, Fresh, At, Open, FailTurn, NoTurn
<1> QED BY <1>1, <1>2, <1>3 DEF Kept

\* The turn is over.
LEMMA KeepEndTurn ==
    ASSUME IInv, Kept, EndTurn
    PROVE  Kept'
<1>1. Answering'
  BY DEF Kept, Answering, TurnType, Own, OwnKept, Carries, Settled, Fresh, At, Open, IInv,
     Shape, EndTurn, NoTurn
<1>2. Unused'
  BY DEF Kept, Unused, Fresh, EndTurn, NoTurn
<1>3. OwnKept'
  BY DEF Kept, OwnKept, Own, Carries, Settled, Fresh, At, Open, EndTurn, NoTurn
<1> QED BY <1>1, <1>2, <1>3 DEF Kept

\* No turn and no job yet.
LEMMA InitKept == Init => Kept
<1> SUFFICES ASSUME Init
             PROVE  Kept
  OBVIOUS
<1>1. Answering
  BY DEF Init, Answering, TurnType, NoTurn
<1>2. Unused
  BY DEF Init, Unused, NoEntry, NoTurn
<1>3. OwnKept
  BY DEF Init, OwnKept, Own, Open
<1> QED BY <1>1, <1>2, <1>3 DEF Kept

\* Every step keeps the evidence.
LEMMA NextKept == IInv /\ Kept /\ [Next]_vars => Kept'
<1> SUFFICES ASSUME IInv, Kept, [Next]_vars
             PROVE  Kept'
  OBVIOUS
<1>1. CASE UNCHANGED vars
  BY <1>1
     DEF vars, Kept, Answering, Unused, OwnKept, Own, Carries, Settled, Fresh, At, Open
<1>2. ASSUME NEW i \in Ids,
             \/ Reserve(i) \/ Abandon(i) \/ StartFleet(i) \/ Start(i)
             \/ Mutate(i) \/ Return(i) \/ Goroutine(i) \/ Kill(i) \/ CancelCtx(i)
             \/ LoadRead(i) \/ Collect(i) \/ Commit(i)
      PROVE  Kept'
  <2>1. CASE Reserve(i) \/ Abandon(i) \/ StartFleet(i)
    BY <2>1, KeepReserve, KeepAbandon, KeepStartFleet
  <2>2. CASE Start(i)
    BY <2>2, KeepRegister, KeepWriteRunning, KeepLaunch, KeepReleaseStart DEF Start
  <2>3. CASE Mutate(i) \/ Return(i) \/ Kill(i) \/ CancelCtx(i)
    BY <2>3, KeepMutate, KeepReturn, KeepKill, KeepCancelCtx
  <2>4. CASE Goroutine(i)
    BY <2>4, KeepWriteTerminal, KeepRecordCompletion, KeepPublish, KeepCloseDone DEF Goroutine
  <2>5. CASE LoadRead(i) \/ Collect(i) \/ Commit(i)
    BY <2>5, KeepLoadRead, KeepCollect, KeepCommit
  <2> QED BY <1>2, <2>1, <2>2, <2>3, <2>4, <2>5
<1>3. CASE BeginDestroy \/ FinishDestroy \/ Close \/ Exit \/ NewManager
  BY <1>3, KeepBeginDestroy, KeepFinishDestroy, KeepClose, KeepExit, KeepNewManager
<1>4. ASSUME NEW m \in Managers, ReleaseOwner(m)
      PROVE  Kept'
  BY <1>4, KeepReleaseOwner
<1>5. CASE BeginLoad \/ LoadTerminal \/ LoadRunning
  BY <1>5, KeepBeginLoad, KeepLoadTerminal, KeepLoadRunning
<1>6. ASSUME NEW plan \in BOOLEAN, BeginTurn(plan)
      PROVE  Kept'
  BY <1>6, KeepBeginTurn
<1>7. CASE Deliver \/ FailTurn \/ EndTurn
  BY <1>7, KeepDeliver, KeepFailTurn, KeepEndTurn
<1> QED BY <1>1, <1>2, <1>3, <1>4, <1>5, <1>6, <1>7 DEF Next

\* A registered job of the open manager carries the evidence of its changes until a
\* delivered turn has answered for them, in every reachable state.
THEOREM EvidenceKept == Spec => []Kept
<1>1. Init => Kept
  BY InitKept
<1>2. IInv /\ Kept /\ [Next]_vars => Kept'
  BY NextKept
<1>3. Spec => []IInv
  BY JobsInvariant
<1> QED BY <1>1, <1>2, <1>3, PTL DEF Spec
=============================================================================
