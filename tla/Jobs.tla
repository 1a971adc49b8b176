-------------------------------- MODULE Jobs --------------------------------
(***************************************************************************)
(* The background jobs of one session (harness/jobs): the manager's table  *)
(* of jobs, the goroutine of each job, the records jobs leave on disk, the *)
(* turns that collect what jobs changed, and the manager's end and its     *)
(* successor.                                                              *)
(*                                                                         *)
(* A job that changes files publishes evidence of it.  A turn leases the   *)
(* evidence into its ledger and only a delivered turn commits it; until    *)
(* then it must survive failed turns, kills and restarts.  Managers come   *)
(* one after the other; an old one may still be unwinding its jobs while   *)
(* the next loads their records.  Output, labels, log files and bash jobs, *)
(* which publish no evidence, are left out.                                *)
(***************************************************************************)
EXTENDS Naturals, FiniteSets

CONSTANTS
    MaxJobs,      \* bound: jobs ever started
    MaxManagers,  \* bound: managers ever created for the session
    Limit,        \* maxConcurrentBackgroundTasks
    Budgets       \* bound: how much may happen in one behaviour

ASSUME JobsAssumption ==
    /\ MaxJobs \in Nat /\ MaxManagers \in Nat \ {0} /\ Limit \in Nat \ {0}
    /\ Budgets \subseteq [tasks : Nat, fleets : Nat, faults : Nat, kills : Nat,
                    destroys : Nat, ends : Nat]

Ids == 1 .. MaxJobs
Managers == 1 .. MaxManagers
Statuses == {"running", "done", "failed", "killed", "interrupted"}

VARIABLES
    mgr,         \* manager -> "none", "open", "closing" or "closed" (owner released)
    cur,         \* the newest manager; 0 before the first
    table,       \* m.jobs: manager -> job -> its Job object
    job,         \* job -> its starter and its goroutine
    disk,        \* job -> its metadata record
    held,        \* start reservations
    notes,       \* job -> "no", "queued" (m.completed) or "told" (drained)
    turn,        \* the foreground turn and its ledger
    load,        \* loadSessionArtifacts and m.loaded
    destroying,  \* m.destroying
    left,        \* the budget not yet used
    \* history
    reviewed,    \* jobs whose changes were in the ledger of a delivered turn
    dropped      \* jobs of a session that was destroyed

vars == <<mgr, cur, table, job, disk, held, notes, turn, load, destroying, left, reviewed,
          dropped>>

NoEntry == [st |-> "none", ev |-> FALSE, com |-> FALSE, done |-> FALSE]
NoRec == [st |-> "none", ev |-> FALSE, owner |-> 0]
NoJob == [pc |-> "none", kind |-> "task", owner |-> 0, ctx |-> "live", wrote |-> FALSE,
          out |-> "running", saved |-> FALSE]
NoTurn == [at |-> "idle", plan |-> FALSE, leases |-> {}, merged |-> {}, owed |-> {}]
Unbound == [at |-> "unbound", todo |-> {}, id |-> 0, meta |-> NoRec, deferred |-> FALSE,
            loaded |-> FALSE]

Init ==
    /\ mgr = [m \in Managers |-> "none"] /\ cur = 0
    /\ table = [m \in Managers |-> [i \in Ids |-> NoEntry]]
    /\ job = [i \in Ids |-> NoJob] /\ disk = [i \in Ids |-> NoRec]
    /\ held = {} /\ notes = [i \in Ids |-> "no"]
    /\ turn = NoTurn /\ load = Unbound /\ destroying = FALSE
    /\ left \in Budgets /\ reviewed = {} /\ dropped = {}

-----------------------------------------------------------------------------
Spend(what) == left[what] > 0 /\ left' = [left EXCEPT ![what] = @ - 1]

Open == cur # 0 /\ mgr[cur] = "open"
Mine == table[cur]
Entry(i) == table[job[i].owner][i]
SetEntry(i, e) == table' = [table EXCEPT ![job[i].owner][i] = e]
At(i, pc) == job[i].pc = pc
Goto(i, pc) == job' = [job EXCEPT ![i].pc = pc]

\* A start whose tool call has not returned.
Starting(i) == job[i].pc \in {"called", "registered", "recorded"}
\* A goroutine the manager's wait group counts.
Counted(i) ==
    job[i].pc \in {"running", "refused", "returned", "written", "noted", "published"}

\* writeJobMetaLocked: the record of a task carries its evidence, no other does.
Record(i, st, ev, m) == [st |-> st, ev |-> ev /\ job[i].kind = "task", owner |-> m]
\* An atomic rename, or an error the job notes and survives.
Writes(i, r) ==
    \/ disk' = [disk EXCEPT ![i] = r] /\ UNCHANGED left
    \/ Spend("faults") /\ UNCHANGED disk

-----------------------------------------------------------------------------
(* Starting a job: the task and fleet tools *)

Unfinished(k) == {i \in Ids : Mine[i].st # "none" /\ ~Mine[i].done /\ job[i].kind = k}
RoomWithoutReservations(k) == Cardinality(Unfinished(k)) < Limit
RoomFor(k) == Cardinality(Unfinished(k)) + Cardinality(held) < Limit

\* m.seq; every job has an id of its own.  (In the code the sequence goes on from the
\* records a manager could load, so the id of a job that has none is used again.)
NextId(i) == At(i, "none") /\ \A j \in Ids : j < i => ~At(j, "none")
Call(i, k) == job' = [job EXCEPT ![i] = [NoJob EXCEPT !.pc = "called", !.kind = k, !.owner = cur]]

Reserve(i) ==
    /\ Spend("tasks")
    /\ Open /\ turn.at = "run" /\ NextId(i)
    /\ RoomFor("task")
    /\ Call(i, "task") /\ held' = held \cup {i}
    /\ UNCHANGED <<mgr, cur, table, disk, notes, turn, load, destroying, reviewed, dropped>>

\* The setup after the reservation fails.
Abandon(i) ==
    /\ At(i, "called") /\ i \in held
    /\ job' = [job EXCEPT ![i] = NoJob] /\ held' = held \ {i}
    /\ UNCHANGED <<mgr, cur, table, disk, notes, turn, load, destroying, reviewed, dropped, left>>

\* A fleet reserves nothing.
StartFleet(i) ==
    /\ Spend("fleets")
    /\ Open /\ turn.at = "run" /\ NextId(i)
    /\ Call(i, "fleet")
    /\ UNCHANGED <<mgr, cur, table, disk, held, notes, turn, load, destroying, reviewed,
                   dropped>>

\* StartForSession of a valid session and kind: the job enters the table; its context
\* hangs off the manager's.
Register(i) ==
    /\ At(i, "called")
    /\ job' = [job EXCEPT ![i].pc = "registered",
                          ![i].ctx = IF mgr[job[i].owner] = "open" THEN "live" ELSE "cancelled"]
    /\ SetEntry(i, [NoEntry EXCEPT !.st = "running"])
    /\ UNCHANGED <<mgr, cur, disk, held, notes, turn, load, destroying, reviewed, dropped, left>>

WriteRunning(i) ==
    /\ At(i, "registered")
    /\ Goto(i, "recorded") /\ Writes(i, Record(i, "running", FALSE, job[i].owner))
    /\ UNCHANGED <<mgr, cur, table, held, notes, turn, load, destroying, reviewed, dropped>>

\* A run whose context is already cancelled is refused its first model call.
Launch(i) ==
    /\ At(i, "recorded")
    /\ Goto(i, IF job[i].ctx = "cancelled" THEN "refused" ELSE "running")
    /\ UNCHANGED <<mgr, cur, table, disk, held, notes, turn, load, destroying, reviewed,
                   dropped, left>>

ReleaseStart(i) ==
    /\ i \in held /\ ~Starting(i)
    /\ held' = held \ {i}
    /\ UNCHANGED <<mgr, cur, table, job, disk, notes, turn, load, destroying, reviewed,
                   dropped, left>>

-----------------------------------------------------------------------------
(* The job's goroutine *)

Mutate(i) ==
    /\ At(i, "running") /\ ~job[i].wrote
    /\ job' = [job EXCEPT ![i].wrote = TRUE]
    /\ UNCHANGED <<mgr, cur, table, disk, held, notes, turn, load, destroying, reviewed,
                   dropped, left>>

\* run publishes its evidence and returns, or panics after publishing it.
Outcomes(i) == IF job[i].ctx = "cancelled" THEN {"killed"} ELSE {"done", "failed"}
Return(i) ==
    /\ job[i].pc \in {"running", "refused"}
    /\ \E o \in Outcomes(i) : job' = [job EXCEPT ![i].pc = "returned", ![i].out = o]
    /\ SetEntry(i, [Entry(i) EXCEPT !.ev = job[i].wrote])
    /\ UNCHANGED <<mgr, cur, disk, held, notes, turn, load, destroying, reviewed, dropped, left>>

\* The terminal record.  A destroyed session's directory is not this one's.
WriteTerminal(i) ==
    /\ At(i, "returned")
    /\ Writes(i, IF i \in dropped THEN disk[i]
                 ELSE Record(i, job[i].out, Entry(i).ev, job[i].owner))
    /\ job' = [job EXCEPT ![i].pc = "written", ![i].saved = (disk'[i].st = job[i].out)]
    /\ UNCHANGED <<mgr, cur, table, held, notes, turn, load, destroying, reviewed, dropped>>

\* Only the newest manager's notes have a reader.
NotedAnyway(i) ==
    IF job[i].owner # cur THEN notes ELSE [notes EXCEPT ![i] = "queued"]
Noted(i) ==
    IF job[i].owner # cur \/ destroying THEN notes ELSE [notes EXCEPT ![i] = "queued"]
Published(i) ==
    IF Entry(i).st \in {"none", "killed"} THEN Entry(i) ELSE [Entry(i) EXCEPT !.st = job[i].out]

RecordCompletion(i) ==
    /\ At(i, "written")
    /\ Goto(i, "noted") /\ notes' = Noted(i)
    /\ UNCHANGED <<mgr, cur, table, disk, held, turn, load, destroying, reviewed, dropped, left>>

Publish(i) ==
    /\ At(i, "noted")
    /\ job' = [job EXCEPT ![i].pc = "published", ![i].out = "running"]
    /\ SetEntry(i, Published(i))
    /\ UNCHANGED <<mgr, cur, disk, held, notes, turn, load, destroying, reviewed, dropped, left>>

CloseDone(i) ==
    /\ At(i, "published")
    /\ job' = [job EXCEPT ![i].pc = "done", ![i].ctx = "live"]
    /\ SetEntry(i, [Entry(i) EXCEPT !.done = (@ \/ Entry(i).st # "none")])
    /\ UNCHANGED <<mgr, cur, disk, held, notes, turn, load, destroying, reviewed, dropped, left>>

-----------------------------------------------------------------------------
(* Stopping jobs *)

\* The status changes at once, the context a moment later.
Kill(i) ==
    /\ Spend("kills")
    /\ Open /\ Mine[i].st = "running"
    /\ table' = [table EXCEPT ![cur][i].st = "killed"]
    /\ job' = [job EXCEPT ![i].ctx = "asked"]
    /\ UNCHANGED <<mgr, cur, disk, held, notes, turn, load, destroying, reviewed, dropped>>

CancelCtx(i) ==
    /\ job[i].ctx = "asked"
    /\ job' = [job EXCEPT ![i].ctx = "cancelled"]
    /\ UNCHANGED <<mgr, cur, table, disk, held, notes, turn, load, destroying, reviewed,
                   dropped, left>>

Stopped(e) == IF e.st = "running" /\ ~e.done THEN [e EXCEPT !.st = "killed"] ELSE e

BeginDestroy ==
    /\ Spend("destroys")
    /\ Open /\ turn.at = "idle" /\ load.at = "idle" /\ ~destroying
    /\ destroying' = TRUE
    /\ notes' = [i \in Ids |-> IF notes[i] = "queued" THEN "no" ELSE notes[i]]
    /\ table' = [table EXCEPT ![cur] = [i \in Ids |-> Stopped(Mine[i])]]
    /\ job' = [i \in Ids |->
                 IF Mine[i].st = "running" THEN [job[i] EXCEPT !.ctx = "asked"] ELSE job[i]]
    /\ UNCHANGED <<mgr, cur, disk, held, turn, load, reviewed, dropped>>

\* Every stopped job has unwound; the artifacts are removed and the table purged.
Unwound == \A i \in Ids : Mine[i].st = "killed" => Mine[i].done
FinishDestroy ==
    /\ Open /\ destroying /\ Unwound
    /\ destroying' = FALSE
    /\ table' = [table EXCEPT ![cur] = [i \in Ids |-> NoEntry]]
    /\ disk' = [i \in Ids |-> NoRec]
    /\ dropped' = {i \in Ids : ~At(i, "none")}
    /\ load' = Unbound
    /\ UNCHANGED <<mgr, cur, job, held, notes, turn, reviewed, left>>

\* m.cancel: every job's context hangs off the manager's.
RootKept == job
RootCancelled ==
    [i \in Ids |-> IF job[i].owner = cur /\ (At(i, "registered") \/ At(i, "recorded") \/ Counted(i))
                   THEN [job[i] EXCEPT !.ctx = "cancelled"] ELSE job[i]]

\* Close and CloseAsync: the turn is cancelled with the controller; a start that is
\* already under way goes on with a cancelled context.
Close ==
    /\ Spend("ends")
    /\ Open
    /\ mgr' = [mgr EXCEPT ![cur] = "closing"]
    /\ table' = [table EXCEPT ![cur] = [i \in Ids |-> Stopped(Mine[i])]]
    /\ job' = RootCancelled
    /\ turn' = NoTurn /\ load' = Unbound /\ destroying' = FALSE
    /\ held' = {} /\ notes' = [i \in Ids |-> "no"]
    /\ UNCHANGED <<cur, disk, reviewed, dropped>>

\* releaseOwner, once the wait group is empty; nobody reads the table any more.
ReleaseOwner(m) ==
    /\ mgr[m] = "closing"
    /\ \A i \in Ids : job[i].owner = m => ~Counted(i)
    /\ mgr' = [mgr EXCEPT ![m] = "closed"]
    /\ table' = [table EXCEPT ![m] = [i \in Ids |->
                    IF job[i].owner = m /\ Starting(i) THEN @[i] ELSE NoEntry]]
    /\ UNCHANGED <<cur, job, disk, held, notes, turn, load, destroying, reviewed, dropped, left>>

\* The process ends, with whatever was still going on.
Exit ==
    /\ Spend("ends")
    /\ \E m \in Managers : mgr[m] \in {"open", "closing"}
    /\ mgr' = [m \in Managers |-> IF mgr[m] = "none" THEN "none" ELSE "closed"]
    /\ table' = [m \in Managers |-> [i \in Ids |-> NoEntry]]
    /\ job' = [i \in Ids |-> IF job[i].pc \in {"none", "done"} THEN job[i]
                             ELSE [job[i] EXCEPT !.pc = "gone", !.ctx = "live", !.out = "running"]]
    /\ turn' = NoTurn /\ load' = Unbound /\ destroying' = FALSE
    /\ held' = {} /\ notes' = [i \in Ids |-> "no"]
    /\ UNCHANGED <<cur, disk, reviewed, dropped>>

NewManager ==
    /\ cur < MaxManagers /\ ~Open
    /\ cur' = cur + 1 /\ mgr' = [mgr EXCEPT ![cur + 1] = "open"]
    /\ UNCHANGED <<table, job, disk, held, notes, turn, load, destroying, reviewed, dropped, left>>

-----------------------------------------------------------------------------
(* loadSessionArtifacts, when the session is bound to its path *)

Live(m) == m # 0 /\ mgr[m] \in {"open", "closing"}

\* The records are read one by one, while old managers may still write them.
AfterLoad(todo, deferred) ==
    [Unbound EXCEPT !.at = IF todo = {} THEN "idle" ELSE "read", !.todo = todo,
                    !.deferred = (todo # {} /\ deferred), !.loaded = (todo = {} /\ ~deferred)]

BeginLoad ==
    /\ Open /\ turn.at = "idle" /\ ~destroying
    /\ load.at \in {"unbound", "idle"} /\ ~load.loaded
    /\ load' = AfterLoad({i \in Ids : disk[i].st # "none"}, FALSE)
    /\ UNCHANGED <<mgr, cur, table, job, disk, held, notes, turn, destroying, reviewed,
                   dropped, left>>

LoadRead(i) ==
    /\ load.at = "read" /\ i \in load.todo /\ \A j \in load.todo : i <= j
    /\ load' = [load EXCEPT !.at = "settle", !.id = i, !.meta = disk[i]]
    /\ UNCHANGED <<mgr, cur, table, job, disk, held, notes, turn, destroying, reviewed,
                   dropped, left>>

\* A Running record of a live owner, or of a session this runtime does not hold
\* (probe), is left for a later bind.
RepairableIfHeld(r, probe) == probe
Repairable(r, probe) == ~Live(r.owner) /\ probe

Defers(defer) == load' = AfterLoad(load.todo \ {load.id}, load.deferred \/ defer)

\* The job becomes a tombstone of this manager, unless it is in the table.
Tombstone(st) ==
    table' = IF Mine[load.id].st # "none" THEN table
             ELSE [table EXCEPT ![cur][load.id] =
                     [st |-> st, ev |-> load.meta.ev, com |-> FALSE, done |-> TRUE]]

LoadTerminal ==
    /\ load.at = "settle" /\ load.meta.st # "running"
    /\ Tombstone(load.meta.st) /\ Defers(FALSE)
    /\ UNCHANGED <<mgr, cur, job, disk, held, notes, turn, destroying, reviewed, dropped, left>>

\* Repaired as interrupted; if that cannot be written, left for a later bind too.
LoadRunning ==
    /\ load.at = "settle" /\ load.meta.st = "running"
    /\ \E probe \in BOOLEAN :
         IF Repairable(load.meta, probe)
         THEN \/ /\ disk' = [disk EXCEPT ![load.id] = [load.meta EXCEPT !.st = "interrupted"]]
                 /\ Tombstone("interrupted") /\ Defers(FALSE) /\ UNCHANGED left
              \/ Spend("faults") /\ Defers(TRUE) /\ UNCHANGED <<disk, table>>
         ELSE Defers(TRUE) /\ UNCHANGED <<disk, table, left>>
    /\ UNCHANGED <<mgr, cur, job, held, notes, turn, destroying, reviewed, dropped>>

-----------------------------------------------------------------------------
(* A turn and its evidence *)

Pending == {i \in Ids : Mine[i].done /\ ~Mine[i].com /\ Mine[i].ev}

\* Changes that no turn has answered for, of the open manager's own finished jobs and
\* of the finished tasks whose records it has loaded.
OwnDone(i) == job[i].owner = cur /\ At(i, "done")
RestoredTask(i) == job[i].kind = "task" /\ Mine[i].done /\ Mine[i].st # "interrupted"
Owed == {i \in Ids : job[i].wrote /\ (OwnDone(i) \/ RestoredTask(i))} \ (reviewed \cup dropped)

\* The turn's text takes the queued notes; its ledger starts from the evidence no
\* turn has committed.  A plan turn leaves it alone.
TurnLedgerEmpty(plan) ==
    [NoTurn EXCEPT !.at = "run", !.plan = plan, !.owed = IF plan THEN {} ELSE Owed]
TurnLedger(plan) ==
    LET p == IF plan THEN {} ELSE Pending
    IN  [NoTurn EXCEPT !.at = "run", !.plan = plan, !.leases = p, !.merged = p,
                       !.owed = IF plan THEN {} ELSE Owed]

BeginTurn(plan) ==
    /\ Open /\ turn.at = "idle" /\ load.at = "idle" /\ ~destroying
    /\ turn' = TurnLedger(plan)
    /\ notes' = [i \in Ids |-> IF notes[i] = "queued" THEN "told" ELSE notes[i]]
    /\ UNCHANGED <<mgr, cur, table, job, disk, held, load, destroying, reviewed, dropped, left>>

\* wait and bash_output on a job that does not run any more.
ReadyOnStatus(i) == TRUE
Ready(i) == Mine[i].done
Collect(i) ==
    /\ turn.at = "run" /\ ~turn.plan
    /\ Mine[i].st \notin {"none", "running"} /\ Ready(i) /\ i \notin turn.leases
    /\ turn' = [turn EXCEPT !.leases = @ \cup {i},
                            !.merged = IF i \in Pending THEN @ \cup {i} ELSE @]
    /\ UNCHANGED <<mgr, cur, table, job, disk, held, notes, load, destroying, reviewed,
                   dropped, left>>

NoStarts == held = {} /\ \A i \in Ids : job[i].owner = cur => ~Starting(i)

\* The answer passed the delivery gates, with what the ledger holds.
Deliver ==
    /\ turn.at = "run" /\ NoStarts
    /\ turn' = [turn EXCEPT !.at = "commit", !.owed = {}]
    /\ reviewed' = reviewed \cup turn.merged
    /\ UNCHANGED <<mgr, cur, table, job, disk, held, notes, load, destroying, dropped, left>>

\* An error or a cancellation: the leases lapse.
FailTurn ==
    /\ turn.at = "run" /\ NoStarts
    /\ turn' = NoTurn
    /\ UNCHANGED <<mgr, cur, table, job, disk, held, notes, load, destroying, reviewed,
                   dropped, left>>

\* CommitEvidenceForSession, one lease after the other.
Commit(i) ==
    /\ turn.at = "commit" /\ i \in turn.leases
    /\ turn' = [turn EXCEPT !.leases = @ \ {i}]
    /\ IF Mine[i].done /\ ~Mine[i].com
       THEN /\ table' = [table EXCEPT ![cur][i].com = TRUE, ![cur][i].ev = FALSE]
            /\ IF Mine[i].ev THEN Writes(i, Record(i, Mine[i].st, FALSE, cur))
               ELSE UNCHANGED <<disk, left>>
       ELSE UNCHANGED <<table, disk, left>>
    /\ UNCHANGED <<mgr, cur, job, held, notes, load, destroying, reviewed, dropped>>

EndTurn ==
    /\ turn.at = "commit" /\ turn.leases = {}
    /\ turn' = NoTurn
    /\ UNCHANGED <<mgr, cur, table, job, disk, held, notes, load, destroying, reviewed,
                   dropped, left>>

-----------------------------------------------------------------------------
Start(i) == Register(i) \/ WriteRunning(i) \/ Launch(i) \/ ReleaseStart(i)
Goroutine(i) == WriteTerminal(i) \/ RecordCompletion(i) \/ Publish(i) \/ CloseDone(i)

Next ==
    \/ \E i \in Ids :
         \/ Reserve(i) \/ Abandon(i) \/ StartFleet(i) \/ Start(i)
         \/ Mutate(i) \/ Return(i) \/ Goroutine(i)
         \/ Kill(i) \/ CancelCtx(i)
         \/ LoadRead(i) \/ Collect(i) \/ Commit(i)
    \/ BeginDestroy \/ FinishDestroy
    \/ Close \/ (\E m \in Managers : ReleaseOwner(m)) \/ Exit \/ NewManager
    \/ BeginLoad \/ LoadTerminal \/ LoadRunning
    \/ (\E plan \in BOOLEAN : BeginTurn(plan)) \/ Deliver \/ FailTurn \/ EndTurn

Spec == Init /\ [][Next]_vars

\* Goroutines run; a run whose context is cancelled returns.  Nothing obliges a run
\* that nobody stopped, a user or a turn.
Fairness ==
    /\ \A i \in Ids :
         /\ WF_vars(Start(i)) /\ WF_vars(Goroutine(i)) /\ WF_vars(CancelCtx(i))
         /\ WF_vars(Return(i) /\ job[i].ctx = "cancelled")
    /\ \A m \in Managers : WF_vars(ReleaseOwner(m))
LiveSpec == Spec /\ Fairness

-----------------------------------------------------------------------------
(* Properties *)

\* Types; and concurrent starts never exceed the session's limit of background
\* tasks, although ReserveStartForSession counts before StartForSession registers.
TypeOK ==
    /\ mgr \in [Managers -> {"none", "open", "closing", "closed"}] /\ cur \in 0 .. MaxManagers
    /\ \A i \in Ids :
         /\ job[i].pc \in {"none", "called", "registered", "recorded", "running", "refused",
                           "returned", "written", "noted", "published", "done", "gone"}
         /\ disk[i].st \in Statuses \cup {"none"}
         /\ notes[i] \in {"no", "queued", "told"}
         /\ \A m \in Managers : table[m][i].st \in Statuses \cup {"none"}
    /\ turn.leases \subseteq Ids /\ load.todo \subseteq Ids
    /\ Open => Cardinality(Unfinished("task")) <= Limit

\* The changes of a finished job wait for a turn: the open manager offers them as
\* evidence until a turn that merged them has been delivered, whatever was killed,
\* failed, closed or restarted in between.  A job whose record was repaired as
\* interrupted is excepted.
Answered(i) == ~job[i].wrote \/ i \in reviewed \cup dropped
Offered(i) ==
    Open /\ Mine[i].done /\ Mine[i].st # "interrupted" => Answered(i) \/ Mine[i].ev
Filed(i) ==
    job[i].saved /\ disk[i].st # "interrupted" => Answered(i) \/ disk[i].ev

\* Of tasks, in memory and on disk.
ChangesWait == \A i \in Ids : job[i].kind = "task" => Offered(i) /\ Filed(i)

\* Of every job, as the comment on PendingEvidenceJobIDsForSession has it: a change
\* is offered again to the next turn, also when the process restarted before any
\* turn collected it.
AllChangesWait == \A i \in Ids : Offered(i)

\* No answer of a turn that is not a plan turn is delivered before its ledger holds
\* the unanswered changes of the jobs that had finished when the turn began: the open
\* manager's own jobs, also when an earlier turn collected them and failed, and the
\* tasks it restored from their records.  Not among them are tasks repaired as
\* interrupted and fleets of an earlier manager, whose records carry no evidence, and
\* tasks whose record was not there when the manager loaded.
NothingShipsUnreviewed == [][Deliver => turn.owed \subseteq turn.merged]_vars

\* What recordCompletion's caller promises: a job seen as done or failed, or whose
\* done channel is closed, has its note queued or told; and none is queued for a
\* session that is being or has been destroyed.  (A start with a malformed session
\* or kind, which is not modelled, closes the channel before it queues the note.)
NotesMatch ==
    Open => \A i \in Ids :
      /\ Mine[i].st \in {"done", "failed"} \/ Mine[i].done
         => \/ notes[i] # "no" \/ destroying \/ job[i].owner # cur
      /\ notes[i] = "queued" => ~destroying /\ i \notin dropped

\* A record repaired as interrupted is of a job that changes nothing any more.
InterruptedIsOver == \A i \in Ids : disk[i].st = "interrupted" => ~At(i, "running")

\* A stopped job unwinds and a closed manager gives up the ownership its successor
\* waits for.
StopsUnwind ==
    /\ \A i \in Ids : job[i].ctx # "live" ~> job[i].pc \in {"done", "gone"}
    /\ \A m \in Managers : mgr[m] = "closing" ~> mgr[m] = "closed"
=============================================================================
