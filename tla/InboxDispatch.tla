--------------------------- MODULE InboxDispatch ---------------------------
(***************************************************************************)
(* The controller's side of the durable session inbox                      *)
(* (harness/control/inbox*.go, admission_guard.go, the turn lifecycle of   *)
(* controller.go and the steer intake of harness/agent): which queued      *)
(* instruction becomes a turn, which is steered into the running turn,     *)
(* when its durable entry is removed, and who wakes the dispatcher.        *)
(*                                                                         *)
(* Four threads interleave: the dispatcher loop, the turn's goroutine, one *)
(* frontend call, and a snapshot that recovers orphaned entries.  Every    *)
(* operation of the store is one atomic transaction (module SessionInbox   *)
(* opens them up); the locks between the threads are explicit:             *)
(*   admissionMu  held by the dispatcher from "claim" on and by a steer    *)
(*                call from "mark" on;                                     *)
(*   c.mu         held by a steer call at "active";                        *)
(*   the store    held by a recovery at "held".                            *)
(* Only guarded (asynchronous) turns are modelled.                         *)
(***************************************************************************)
EXTENDS Naturals, Sequences, FiniteSets

CONSTANTS
    NumItems,           \* entries the users may ever enqueue
    None,               \* no entry
    MaxRetryAttempts,   \* maxInboxDispatchRetryAttempts
    Budgets             \* bound: how often what may happen in one behaviour

Items == 1 .. NumItems

ASSUME DispatchAssumption ==
    /\ NumItems \in Nat
    /\ None \notin Items
    /\ MaxRetryAttempts \in Nat \ {0}
    /\ Budgets \subseteq [items : 0 .. NumItems,   \* entries enqueued
                          plain : Nat,       \* turns submitted outside the inbox
                          rotations : Nat,   \* rotations of the session
                          faults : Nat,      \* failing disk operations
                          restarts : Nat,    \* restarts of the process
                          aborts : Nat,      \* turns that fail or are cancelled
                          closes : Nat,      \* closed controllers
                          refusals : Nat,    \* prompts pending outside a turn, and
                                             \* admissions the session refuses
                          ops : Nat]         \* operations on queued entries

InFlight == {"running", "steer_accepted", "steer_consumed"}
Pending == {"queued", "blocked", "uncertain"}

VARIABLES
    \* the manifest: state of each entry ("none": not in the manifest; entries
    \* are enqueued in the order of their numbers), its intent, the pause flag
    st, intent, paused,
    \* Controller: admission gate, and turns parked while one is finishing
    running, finishing, rotating, closed, parked,
    \* inboxState: ownership published to the lock-free recovery check
    active, admitting,
    \* inboxState: the dispatcher
    disp, pending, attempts, scheduled,
    \* the guarded turn and the agent's queue of steers
    turn, steerQ,
    \* the frontend call and the recovery
    call, rec,
    \* entries enqueued so far; what is left of the budget
    enqueued, left,
    \* history: applications of an entry since a user last asked for it;
    \* whether the queue may be dispatchable although nothing will kick it; and
    \* the entries that the agent gave up while a steer was just admitting them
    applied, unannounced, crossed

diskVars == <<st, intent, paused>>
gateVars == <<running, finishing, rotating, closed, parked>>
dispVars == <<disp, pending, attempts, scheduled>>
historyVars == <<applied, unannounced, crossed>>
vars == <<st, intent, paused, running, finishing, rotating, closed, parked,
          active, admitting, disp, pending, attempts, scheduled, turn, steerQ,
          call, rec, enqueued, left, applied, unannounced, crossed>>

NoTurn == [pc |-> "none", item |-> None, steers |-> {}, ids |-> {}, todo |-> {}]
TurnOf(i) == [NoTurn EXCEPT !.pc = "prep", !.item = i]
NoCall == [pc |-> "idle", item |-> None, was |-> FALSE]
NoRec == [pc |-> "idle", seen |-> {}]
DispAt(pc, i) == [pc |-> pc, item |-> i]

Init ==
    /\ st = [i \in Items |-> "none"]
    /\ intent = [i \in Items |-> "followup"]
    /\ paused = FALSE
    /\ running = FALSE /\ finishing = FALSE /\ rotating = FALSE
    /\ closed = FALSE /\ parked = 0
    /\ active = {} /\ admitting = {}
    /\ disp = DispAt("idle", None) /\ pending = FALSE
    /\ attempts = 0 /\ scheduled = FALSE
    /\ turn = NoTurn /\ steerQ = <<>>
    /\ call = NoCall /\ rec = NoRec
    /\ enqueued = 0 /\ left \in Budgets
    /\ applied = [i \in Items |-> 0] /\ unannounced = FALSE /\ crossed = {}

-----------------------------------------------------------------------------
(* Locks, faults, and the history of applications *)

StoreFree == rec.pc = "idle"
ControllerFree == call.pc # "active"
DispatcherAdmits == disp.pc \in {"claim", "admit", "unclaim", "start", "untrack"}
SteerAdmits == call.pc \in {"mark", "accept", "active", "requeue", "end", "endKick"}

Spend(what) == left[what] > 0 /\ left' = [left EXCEPT ![what] = @ - 1]
Fails == Spend("faults")
Succeeds == UNCHANGED left

\* Writes whose error the code ignores, after a first failure: any may fail too.
MayPause == paused' = TRUE \/ UNCHANGED paused
TryPause == (Succeeds /\ paused' = TRUE) \/ (Fails /\ UNCHANGED paused)

Apply(i) == applied' = [applied EXCEPT ![i] = IF @ < 2 THEN @ + 1 ELSE 2]
UncertainAsQueued(S) == [i \in Items |-> IF i \in S /\ st[i] # "none" THEN "queued" ELSE st[i]]
Uncertain(S) == [i \in Items |-> IF i \in S /\ st[i] # "none" THEN "uncertain" ELSE st[i]]

-----------------------------------------------------------------------------
(* maybeDispatchInbox: publish the work, become the dispatcher if none is *)

KickUnlessDispatching ==
    /\ pending' = (pending \/ disp.pc = "idle")
    /\ disp' = IF disp.pc = "idle" THEN DispAt("loop", None) ELSE disp
    /\ unannounced' = FALSE

Kick ==
    /\ pending' = TRUE
    /\ disp' = IF disp.pc = "idle" THEN DispAt("loop", None) ELSE disp
    /\ unannounced' = FALSE

\* The active dispatcher stops only after it saw no kick under the same lock.
DispatchLoop ==
    /\ disp.pc = "loop"
    /\ pending' = FALSE
    /\ disp' = DispAt(IF pending THEN "gate" ELSE "idle", None)
    /\ UNCHANGED <<diskVars, gateVars, active, admitting, attempts, scheduled,
                   turn, steerQ, call, rec, enqueued, left, historyVars>>

\* Outcomes of dispatchInboxOnce: idle and started forget earlier failures.
IdleOrStarted ==
    /\ disp' = DispAt("loop", None)
    /\ attempts' = 0
    /\ UNCHANGED <<scheduled, unannounced>>
Advance(pc, i) == disp' = DispAt(pc, i) /\ UNCHANGED <<attempts, scheduled, unannounced>>

ScheduleRetryUnbounded ==
    /\ disp' = DispAt("loop", None)
    /\ IF scheduled
       THEN UNCHANGED <<attempts, scheduled>>
       ELSE attempts' = attempts + 1 /\ scheduled' = TRUE
    /\ UNCHANGED unannounced

\* scheduleInboxDispatchRetry: one timer at a time, a bounded number of them.
ScheduleRetry ==
    /\ disp' = DispAt("loop", None)
    /\ IF scheduled \/ attempts >= MaxRetryAttempts
       THEN UNCHANGED <<attempts, scheduled>>
       ELSE attempts' = attempts + 1 /\ scheduled' = TRUE
    /\ unannounced' = (unannounced \/ (~scheduled /\ attempts >= MaxRetryAttempts))

RetryTimer ==
    /\ scheduled
    /\ scheduled' = FALSE
    /\ Kick
    /\ UNCHANGED <<diskVars, gateVars, active, admitting, attempts, turn, steerQ,
                   call, rec, enqueued, left, applied, crossed>>

\* A prompt that is pending although no turn runs (a background job asks the
\* user) drops the kick, and answering it gives none; the end of a turn, of the
\* finishing window or of a rotation gives one.
Busy == running \/ finishing \/ rotating \/ closed
DispatchGate ==
    /\ disp.pc = "gate"
    /\ ControllerFree
    /\ \/ Busy /\ Succeeds /\ IdleOrStarted
       \/ ~Busy /\ Succeeds /\ Advance("scan", None)
       \/ /\ ~Busy
          /\ Spend("refusals")
          /\ disp' = DispAt("loop", None)
          /\ attempts' = 0
          /\ unannounced' = TRUE
          /\ UNCHANGED scheduled
    /\ UNCHANGED <<diskVars, gateVars, active, admitting, pending, turn, steerQ,
                   call, rec, enqueued, applied, crossed>>

\* Store.NextQueued: the first queued follow-up, else the first queued entry.
Queued == {i \in Items : st[i] = "queued"}
NextQueued ==
    LET followups == {i \in Queued : intent[i] = "followup"}
        from == IF followups # {} THEN followups ELSE Queued
    IN  IF paused \/ from = {} THEN None
        ELSE CHOOSE i \in from : \A j \in from : i <= j

DispatchScan ==
    /\ disp.pc = "scan"
    /\ StoreFree
    /\ \/ Fails /\ ScheduleRetry              \* the inbox does not open
       \/ /\ Succeeds
          /\ IF NextQueued = None
             THEN IdleOrStarted
             ELSE Advance("submit", NextQueued)
    /\ UNCHANGED <<diskVars, gateVars, active, admitting, pending, turn, steerQ,
                   call, rec, enqueued, applied, crossed>>

\* TrySubmitInboxItem up to trackAdmission.  Preparing the entry may find its
\* frozen references unavailable, which blocks it and pauses the inbox.
DispatchSubmit ==
    /\ disp.pc = "submit"
    /\ StoreFree
    /\ ~SteerAdmits
    /\ \/ /\ IF st[disp.item] = "queued" /\ ~paused THEN Fails ELSE Succeeds
          /\ ScheduleRetry
          /\ UNCHANGED <<diskVars, admitting>>
       \/ /\ st[disp.item] = "queued" /\ ~paused
          /\ \/ Succeeds /\ st' = [st EXCEPT ![disp.item] = "blocked"] /\ paused' = TRUE
             \/ Fails /\ st' = [st EXCEPT ![disp.item] = "blocked"] /\ UNCHANGED paused
             \/ Fails /\ UNCHANGED st /\ paused' = TRUE
          /\ ScheduleRetry
          /\ UNCHANGED <<intent, admitting>>
       \/ /\ st[disp.item] = "queued" /\ ~paused
          /\ Succeeds
          /\ admitting' = admitting \cup {disp.item}
          /\ Advance("claim", disp.item)
          /\ UNCHANGED diskVars
    /\ UNCHANGED <<gateVars, active, pending, turn, steerQ, call, rec, enqueued, applied, crossed>>

\* Store.ClaimItem: queued to running, refused while paused.
DispatchClaim ==
    /\ disp.pc = "claim"
    /\ StoreFree
    /\ \/ /\ st[disp.item] = "queued" /\ ~paused
          /\ Succeeds
          /\ st' = [st EXCEPT ![disp.item] = "running"]
          /\ Advance("admit", disp.item)
          /\ UNCHANGED admitting
       \/ /\ IF st[disp.item] = "queued" /\ ~paused THEN Fails ELSE Succeeds
          /\ admitting' = admitting \ {disp.item}
          /\ ScheduleRetry
          /\ UNCHANGED st
    /\ UNCHANGED <<intent, paused, gateVars, active, pending, turn, steerQ, call,
                   rec, enqueued, applied, crossed>>

\* admitGuardedTurn: reserve the turn, or find the gate closed, or be refused: the
\* session lost its write authority, or its runtime generation is draining.
\* Whoever holds the gate kicks when it is released; after a refusal nobody does.
DispatchAdmit ==
    /\ disp.pc = "admit"
    /\ ControllerFree
    /\ \/ /\ Busy /\ Succeeds
          /\ disp' = DispAt("unclaim", disp.item)
          /\ UNCHANGED <<running, unannounced>>
       \/ /\ ~Busy /\ Succeeds
          /\ disp' = DispAt("start", disp.item)
          /\ running' = TRUE
          /\ UNCHANGED unannounced
       \/ /\ Spend("refusals")
          /\ disp' = DispAt("unclaim", disp.item)
          /\ unannounced' = TRUE
          /\ UNCHANGED running
    /\ UNCHANGED <<diskVars, finishing, rotating, closed, parked, active, admitting,
                   pending, attempts, scheduled, turn, steerQ, call, rec, enqueued,
                   applied, crossed>>

\* The turn was refused: back to queued, or (the write fails) forced pause.
DispatchUnclaim ==
    /\ disp.pc = "unclaim"
    /\ StoreFree
    /\ admitting' = admitting \ {disp.item}
    /\ \/ /\ Succeeds
          /\ st' = [st EXCEPT ![disp.item] = IF @ = "none" THEN @ ELSE "queued"]
          /\ IdleOrStarted
          /\ UNCHANGED paused
       \/ /\ Fails
          /\ MayPause
          /\ ScheduleRetry
          /\ UNCHANGED st
    /\ UNCHANGED <<intent, gateVars, active, pending, turn, steerQ, call, rec,
                   enqueued, applied, crossed>>

\* onStart publishes the active ownership, then the turn's goroutine starts.
DispatchStart ==
    /\ disp.pc = "start"
    /\ active' = active \cup {disp.item}
    /\ turn' = TurnOf(disp.item)
    /\ Apply(disp.item)
    /\ disp' = DispAt("untrack", disp.item)
    /\ UNCHANGED <<diskVars, gateVars, admitting, pending, attempts, scheduled,
                   steerQ, call, rec, enqueued, left, unannounced, crossed>>

DispatchUntrack ==
    /\ disp.pc = "untrack"
    /\ admitting' = admitting \ {disp.item}
    /\ IdleOrStarted
    /\ UNCHANGED <<diskVars, gateVars, active, pending, turn, steerQ, call, rec,
                   enqueued, left, applied, crossed>>

-----------------------------------------------------------------------------
(* The turn's goroutine: the agent's steer intake, then finishGuardedTurn *)

IntakeOpen == turn.pc \in {"run", "unapplied"}     \* steerRunActive
Owned == ({turn.item} \cup turn.steers) \ {None}

\* Agent.Run opens the intake.
AgentStart ==
    /\ turn.pc = "prep"
    /\ turn' = [turn EXCEPT !.pc = "run"]
    /\ UNCHANGED <<diskVars, gateVars, active, admitting, dispVars, steerQ, call, rec,
                   enqueued, left, historyVars>>

\* onInboxUnappliedSteer ends the ownership of guidance nobody will read.
Waiting == {steerQ[k] : k \in DOMAIN steerQ}
GiveUp(S) ==
    /\ active' = active \ S
    /\ crossed' = crossed \cup {i \in S : i \in Waiting \/ (call.pc = "active" /\ call.item = i)}

\* consumeSteer: the oldest guidance joins the conversation and its entry is
\* marked consumed (an ignored error); when its body does not load, it is given
\* up: uncertain first, then (Unapplied) a pause and the end of its ownership.
ConsumeSteer ==
    /\ turn.pc = "run" /\ steerQ # <<>>
    /\ StoreFree
    /\ steerQ' = Tail(steerQ)
    /\ LET i == Head(steerQ) IN
       \/ /\ Succeeds
          /\ st' = [st EXCEPT ![i] = IF @ = "none" THEN @ ELSE "steer_consumed"]
          /\ turn' = [turn EXCEPT !.steers = @ \cup {i}]
          /\ Apply(i)
       \/ /\ Fails
          /\ st' = Uncertain({i}) \/ UNCHANGED st
          /\ turn' = [turn EXCEPT !.pc = "unapplied", !.todo = {i}]
          /\ UNCHANGED applied
       \/ /\ Fails
          /\ turn' = [turn EXCEPT !.steers = @ \cup {i}]
          /\ Apply(i)
          /\ UNCHANGED st
    /\ UNCHANGED <<intent, paused, gateVars, active, admitting, dispVars, call, rec,
                   enqueued, unannounced, crossed>>

Unapplied ==
    /\ turn.pc = "unapplied"
    /\ StoreFree
    /\ TryPause
    /\ GiveUp(turn.todo)
    /\ turn' = [turn EXCEPT !.pc = "run", !.todo = {}]
    /\ UNCHANGED <<st, intent, gateVars, admitting, dispVars, steerQ, call, rec,
                   enqueued, applied, unannounced>>

\* closeSteerIntakeIfIdle: a final answer ends the run only with no guidance left.
MayFinishAnyway == TRUE
MayFinish == steerQ = <<>>
CloseIntake ==
    /\ turn.pc = "run"
    /\ MayFinish
    /\ turn' = [turn EXCEPT !.pc = "exit"]
    /\ UNCHANGED <<diskVars, gateVars, active, admitting, dispVars, steerQ, call, rec,
                   enqueued, left, historyVars>>

\* An error or a cancellation ends the run: flushSteerQueue closes the intake
\* and gives up whatever guidance is left.
Abort ==
    /\ Spend("aborts")
    /\ turn.pc \in {"prep", "run"}
    /\ turn' = [turn EXCEPT !.pc = "flush",
                            !.todo = Waiting]
    /\ steerQ' = <<>>
    /\ UNCHANGED <<diskVars, gateVars, active, admitting, dispVars, call, rec,
                   enqueued, historyVars>>

FlushMark ==
    /\ turn.pc = "flush" /\ turn.todo # {}
    /\ StoreFree
    /\ \E i \in turn.todo :
         /\ \/ Succeeds /\ st' = Uncertain({i})
            \/ Fails /\ UNCHANGED st
         /\ turn' = [turn EXCEPT !.pc = "flushed", !.todo = @ \ {i}, !.ids = {i}]
    /\ UNCHANGED <<intent, paused, gateVars, active, admitting, dispVars, steerQ, call,
                   rec, enqueued, historyVars>>

FlushUntrack ==
    /\ turn.pc = "flushed"
    /\ StoreFree
    /\ TryPause
    /\ GiveUp(turn.ids)
    /\ turn' = [turn EXCEPT !.pc = "flush", !.ids = {}]
    /\ UNCHANGED <<st, intent, gateVars, admitting, dispVars, steerQ, call, rec,
                   enqueued, applied, unannounced>>

TurnEndWithoutWindow ==
    /\ turn.pc = "exit" \/ (turn.pc = "flush" /\ turn.todo = {})
    /\ ControllerFree
    /\ running' = FALSE
    /\ turn' = [turn EXCEPT !.pc = "ids"]
    /\ UNCHANGED <<diskVars, finishing, rotating, closed, parked, active, admitting, dispVars,
                   steerQ, call, rec, enqueued, left, historyVars>>

TurnEnd ==
    /\ turn.pc = "exit" \/ (turn.pc = "flush" /\ turn.todo = {})
    /\ ControllerFree
    /\ running' = FALSE
    /\ finishing' = ~closed
    /\ turn' = [turn EXCEPT !.pc = "ids"]
    /\ UNCHANGED <<diskVars, rotating, closed, parked, active, admitting, dispVars,
                   steerQ, call, rec, enqueued, left, historyVars>>

\* onInboxTurnDone: the entries this turn has to acknowledge.
TurnIds ==
    /\ turn.pc = "ids"
    /\ turn' = [turn EXCEPT !.ids = active, !.todo = active,
                            !.pc = IF active = {} THEN "deliver" ELSE "snap"]
    /\ UNCHANGED <<diskVars, gateVars, active, admitting, dispVars, steerQ, call, rec,
                   enqueued, left, historyVars>>

\* SnapshotActivity: the transcript is durable before any entry is removed.  When
\* it fails, the entries are left for review, as far as the disk can be written.
TurnSnapshot ==
    /\ turn.pc = "snap"
    /\ StoreFree
    /\ \/ /\ Succeeds
          /\ turn' = [turn EXCEPT !.pc = "ack"]
          /\ UNCHANGED <<st, paused>>
       \/ /\ Fails
          /\ \E written \in SUBSET turn.ids : st' = Uncertain(written)
          /\ MayPause
          /\ turn' = [turn EXCEPT !.pc = "untrack"]
    /\ UNCHANGED <<intent, gateVars, active, admitting, dispVars, steerQ, call, rec,
                   enqueued, historyVars>>

\* AckDequeue of one entry; a failing one is left for review, as far as the
\* disk still lets itself be written.
TurnAck ==
    /\ turn.pc = "ack" /\ turn.todo # {}
    /\ StoreFree
    /\ \E i \in turn.todo :
         /\ turn' = [turn EXCEPT !.todo = @ \ {i},
                                 !.pc = IF turn.todo = {i} THEN "untrack" ELSE "ack"]
         /\ \/ /\ st[i] \in InFlight \cup {"none"}
               /\ Succeeds
               /\ st' = [st EXCEPT ![i] = "none"]
               /\ UNCHANGED paused
            \/ /\ IF st[i] \in InFlight THEN Fails ELSE Succeeds
               /\ st[i] # "none"
               /\ st' = Uncertain({i}) \/ UNCHANGED st
               /\ MayPause
    /\ UNCHANGED <<intent, gateVars, active, admitting, dispVars, steerQ, call, rec,
                   enqueued, historyVars>>

TurnUntrack ==
    /\ turn.pc = "untrack"
    /\ active' = active \ turn.ids
    /\ turn' = [turn EXCEPT !.pc = "deliver"]
    /\ UNCHANGED <<diskVars, gateVars, admitting, dispVars, steerQ, call, rec,
                   enqueued, left, historyVars>>

\* TurnDone was delivered: reopen the gate, or hand it to the oldest parked turn
\* in the same critical section.
TurnDeliver ==
    /\ turn.pc = "deliver"
    /\ ControllerFree
    /\ finishing' = FALSE
    /\ IF closed
       THEN turn' = NoTurn /\ UNCHANGED <<running, parked, pending, disp, unannounced>>
       ELSE IF parked > 0
       THEN /\ parked' = parked - 1
            /\ running' = TRUE
            /\ turn' = TurnOf(None)
            /\ UNCHANGED <<pending, disp, unannounced>>
       ELSE /\ turn' = NoTurn
            /\ Kick
            /\ UNCHANGED <<running, parked>>
    /\ UNCHANGED <<diskVars, rotating, closed, active, admitting, attempts, scheduled,
                   steerQ, call, rec, enqueued, left, applied, crossed>>

-----------------------------------------------------------------------------
(* Other users of the admission gate *)

\* A turn submitted outside the inbox starts, or waits in volatile memory.
PlainSubmit ==
    /\ Spend("plain")
    /\ ControllerFree
    /\ ~closed /\ ~rotating
    /\ IF running \/ finishing
       THEN parked' = parked + 1 /\ UNCHANGED <<running, turn>>
       ELSE running' = TRUE /\ turn' = TurnOf(None) /\ UNCHANGED parked
    /\ UNCHANGED <<diskVars, finishing, rotating, closed, active, admitting, dispVars,
                   steerQ, call, rec, enqueued, historyVars>>

BeginRotation ==
    /\ Spend("rotations")
    /\ ControllerFree
    /\ ~running /\ ~finishing /\ ~rotating
    /\ rotating' = TRUE
    /\ UNCHANGED <<diskVars, running, finishing, closed, parked, active, admitting,
                   dispVars, turn, steerQ, call, rec, enqueued, historyVars>>

EndRotation ==
    /\ rotating
    /\ ControllerFree
    /\ rotating' = FALSE
    /\ Kick
    /\ UNCHANGED <<diskVars, running, finishing, closed, parked, active, admitting,
                   attempts, scheduled, turn, steerQ, call, rec, enqueued, left, applied,
                   crossed>>

Close ==
    /\ Spend("closes")
    /\ ~closed
    /\ ControllerFree
    /\ closed' = TRUE /\ finishing' = FALSE /\ parked' = 0
    /\ UNCHANGED <<diskVars, running, rotating, active, admitting, dispVars, turn,
                   steerQ, call, rec, enqueued, historyVars>>

\* A crash at any point, and the next process opening the inbox: entries that
\* were in flight are uncertain, and a non-empty inbox waits for the user.
Restart ==
    /\ Spend("restarts")
    /\ st' = Uncertain({i \in Items : st[i] \in InFlight})
    /\ paused' = (paused \/ \E i \in Items : st[i] # "none")
    /\ running' = FALSE /\ finishing' = FALSE /\ rotating' = FALSE
    /\ closed' = FALSE /\ parked' = 0
    /\ active' = {} /\ admitting' = {}
    /\ disp' = DispAt("idle", None) /\ pending' = FALSE
    /\ attempts' = 0 /\ scheduled' = FALSE
    /\ turn' = NoTurn /\ steerQ' = <<>> /\ call' = NoCall /\ rec' = NoRec
    /\ unannounced' = FALSE
    /\ UNCHANGED <<intent, enqueued, applied, crossed>>

-----------------------------------------------------------------------------
(* The frontend's calls, one at a time *)

Others == <<gateVars, attempts, scheduled, turn, rec>>
CallAt(pc) == [call EXCEPT !.pc = pc]
NoKick == UNCHANGED <<pending, disp, unannounced>>

\* EnqueueInbox with either intent; references that cannot be frozen block the
\* entry and pause the inbox.  TryEnqueueFollowup goes on to "check",
\* TryEnqueueAndSteer to "steer".
Enqueue ==
    /\ call.pc = "idle" /\ StoreFree
    /\ Spend("items") /\ enqueued' = enqueued + 1
    /\ \E i \in {enqueued + 1}, how \in {"followup", "steer"}, readable \in BOOLEAN :
         /\ st' = [st EXCEPT ![i] = IF readable THEN "queued" ELSE "blocked"]
         /\ intent' = [intent EXCEPT ![i] = how]
         /\ paused' = (paused \/ ~readable)
         /\ call' = [pc |-> IF how = "followup" THEN "check" ELSE "steer",
                     item |-> i, was |-> FALSE]
    /\ NoKick
    /\ UNCHANGED <<Others, active, admitting, steerQ, applied, crossed>>

\* Running() is read after the entry is durable.
CheckIdle ==
    /\ call.pc = "check" /\ ControllerFree
    /\ IF running \/ finishing THEN NoKick ELSE Kick
    /\ call' = NoCall
    /\ UNCHANGED <<Others, enqueued, diskVars, active, admitting, steerQ, left, applied, crossed>>

\* TrySteerInboxItem for an entry already in the queue.
Steer ==
    /\ call.pc = "idle" /\ Spend("ops")
    /\ \E i \in Items : st[i] \in Pending /\ call' = [NoCall EXCEPT !.pc = "steer", !.item = i]
    /\ NoKick
    /\ UNCHANGED <<Others, enqueued, diskVars, active, admitting, steerQ, applied, crossed>>

\* Under admissionMu: validate, give an uncertain entry back to the queue on
\* the user's word, look at the gate, publish the admission.
SteerBegin ==
    /\ call.pc = "steer"
    /\ ~DispatcherAdmits /\ StoreFree
    /\ LET i == call.item
           steerable == st[i] \in {"queued", "uncertain"} /\ ~paused
       IN
       \/ /\ ~steerable /\ Succeeds
          /\ call' = NoCall
          /\ NoKick
          /\ UNCHANGED <<st, admitting, applied>>
       \/ /\ Fails                       \* the inbox or the entry is not readable
          /\ call' = NoCall
          /\ unannounced' = TRUE
          /\ UNCHANGED <<pending, disp, st, admitting, applied>>
       \/ /\ steerable /\ Succeeds
          /\ st' = [st EXCEPT ![i] = "queued"]
          /\ applied' = [applied EXCEPT ![i] = IF st[i] = "uncertain" THEN 0 ELSE @]
          /\ IF closed \/ rotating
             THEN /\ call' = NoCall
                  /\ IF rotating /\ ~closed THEN Kick ELSE NoKick
                  /\ UNCHANGED admitting
             ELSE /\ call' = CallAt("mark")
                  /\ admitting' = admitting \cup {i}
                  /\ NoKick
    /\ UNCHANGED <<Others, enqueued, intent, paused, active, steerQ, crossed>>

\* The admission is durable before the agent can see the guidance.
SteerMark ==
    /\ call.pc = "mark" /\ StoreFree
    /\ \/ /\ Succeeds
          /\ st' = [st EXCEPT ![call.item] = "steer_accepted"]
          /\ call' = CallAt("accept")
          /\ NoKick
       \/ /\ Fails
          /\ call' = CallAt("end")
          /\ unannounced' = TRUE
          /\ UNCHANGED <<st, pending, disp>>
    /\ UNCHANGED <<Others, enqueued, intent, paused, active, admitting, steerQ, applied, crossed>>

\* Under c.mu: Agent.SteerItem, then (SteerTrack) the active ownership.
SteerAccept ==
    /\ call.pc = "accept"
    /\ IF ~closed /\ ~rotating /\ running /\ IntakeOpen
       THEN /\ steerQ' = Append(steerQ, call.item)
            /\ call' = CallAt("active")
       ELSE call' = CallAt("requeue") /\ UNCHANGED steerQ
    /\ NoKick
    /\ UNCHANGED <<Others, enqueued, diskVars, active, admitting, left, applied, crossed>>

SteerTrack ==
    /\ call.pc = "active"
    /\ active' = active \cup {call.item}
    /\ call' = CallAt("end")
    /\ NoKick
    /\ UNCHANGED <<Others, enqueued, diskVars, admitting, steerQ, left, applied, crossed>>

\* Rejected: SetState back to queued, ConvertIntent to follow-up; either write
\* may fail, and then nobody is kicked.
SteerRequeue ==
    /\ call.pc = "requeue" /\ StoreFree
    /\ \/ /\ Succeeds
          /\ st' = [st EXCEPT ![call.item] = "queued"]
          /\ intent' = [intent EXCEPT ![call.item] = "followup"]
          /\ call' = CallAt("endKick")
          /\ UNCHANGED <<paused, unannounced>>
       \/ /\ Fails
          /\ MayPause
          /\ call' = CallAt("end")
          /\ UNCHANGED <<st, intent, unannounced>>
       \/ /\ Fails
          /\ st' = [st EXCEPT ![call.item] = "queued"]
          /\ call' = CallAt("end")
          /\ unannounced' = TRUE
          /\ UNCHANGED <<intent, paused>>
    /\ UNCHANGED <<Others, enqueued, active, admitting, pending, disp, steerQ, applied, crossed>>

SteerEnd ==
    /\ call.pc \in {"end", "endKick"}
    /\ admitting' = admitting \ {call.item}
    /\ IF call.pc = "endKick" THEN Kick ELSE NoKick
    /\ call' = NoCall
    /\ UNCHANGED <<Others, enqueued, diskVars, active, steerQ, left, applied, crossed>>

\* SetInboxPaused
Pause ==
    /\ call.pc = "idle" /\ Spend("ops") /\ StoreFree
    /\ ~paused /\ paused' = TRUE
    /\ NoKick
    /\ UNCHANGED <<Others, enqueued, st, intent, active, admitting, steerQ, call,
                   applied, crossed>>

Resume ==
    /\ call.pc = "idle" /\ Spend("ops") /\ StoreFree
    /\ paused /\ paused' = FALSE
    /\ Kick
    /\ UNCHANGED <<Others, enqueued, st, intent, active, admitting, steerQ, call,
                   applied, crossed>>

\* RetryInboxItem: the user wants an interrupted or blocked entry again.
Retry ==
    /\ call.pc = "idle" /\ Spend("ops") /\ StoreFree
    /\ \E i \in Items :
         /\ st[i] \in {"uncertain", "blocked"}
         /\ st' = [st EXCEPT ![i] = "queued"]
         /\ applied' = [applied EXCEPT ![i] = 0]
    /\ Kick
    /\ UNCHANGED <<Others, enqueued, intent, paused, active, admitting, steerQ, call,
                   crossed>>

Delete ==
    /\ call.pc = "idle" /\ Spend("ops") /\ StoreFree
    /\ \E i \in Items :
         /\ st[i] \in Pending
         /\ st' = [st EXCEPT ![i] = "none"]
    /\ NoKick
    /\ UNCHANGED <<Others, enqueued, intent, paused, active, admitting, steerQ, call,
                   applied, crossed>>

\* CancelWithInboxItems: pause, discard the caller's pending entry, cancel the
\* turn (Abort may follow at any time), and un-pause without a kick.
Cancel ==
    /\ call.pc = "idle" /\ Spend("ops") /\ StoreFree
    /\ paused' = TRUE
    /\ \E i \in Items : call' = [pc |-> "discard", item |-> i, was |-> paused]
    /\ NoKick
    /\ UNCHANGED <<Others, enqueued, st, intent, active, admitting, steerQ,
                   applied, crossed>>

CancelDiscard ==
    /\ call.pc = "discard" /\ StoreFree
    /\ IF st[call.item] \in InFlight
       THEN call' = NoCall /\ UNCHANGED st
       ELSE /\ st' = [st EXCEPT ![call.item] = "none"]
            /\ call' = IF call.was THEN NoCall ELSE CallAt("unpause")
    /\ NoKick
    /\ UNCHANGED <<Others, enqueued, intent, paused, active, admitting, steerQ, left,
                   applied, crossed>>

CancelUnpause ==
    /\ call.pc = "unpause" /\ StoreFree
    /\ paused' = FALSE
    /\ unannounced' = TRUE
    /\ call' = NoCall
    /\ UNCHANGED <<Others, enqueued, st, intent, active, admitting, pending, disp, steerQ,
                   left, applied, crossed>>

-----------------------------------------------------------------------------
(* InboxSnapshot: RecoverOrphanedInFlightOwnedBy *)

\* ownsItem loads the admissions before the active set, without a lock: the
\* other threads may move between the two loads.
RecoverBegin ==
    /\ rec.pc = "idle"
    /\ \E i \in Items \ admitting : st[i] \in InFlight
    /\ rec' = [pc |-> "held", seen |-> admitting]
    /\ UNCHANGED <<diskVars, gateVars, active, admitting, dispVars, turn, steerQ, call,
                   enqueued, left, historyVars>>

OrphansOfAdmission == {i \in Items : st[i] \in InFlight} \ rec.seen
Orphans == {i \in Items : st[i] \in InFlight} \ (rec.seen \cup active)
RecoverCommit ==
    /\ rec.pc = "held"
    /\ st' = Uncertain(Orphans)
    /\ paused' = (paused \/ Orphans # {})
    /\ rec' = NoRec
    /\ UNCHANGED <<intent, gateVars, active, admitting, dispVars, turn, steerQ, call,
                   enqueued, left, historyVars>>

-----------------------------------------------------------------------------
Dispatcher == DispatchLoop \/ DispatchGate \/ DispatchScan \/ DispatchSubmit \/ DispatchClaim
              \/ DispatchAdmit \/ DispatchUnclaim \/ DispatchStart \/ DispatchUntrack

\* The steps a turn takes by itself; being aborted is not one of them.
Turn == AgentStart \/ ConsumeSteer \/ Unapplied \/ CloseIntake \/ FlushMark \/ FlushUntrack
        \/ TurnEnd \/ TurnIds \/ TurnSnapshot \/ TurnAck \/ TurnUntrack \/ TurnDeliver

Gate == PlainSubmit \/ BeginRotation \/ EndRotation \/ Close \/ Restart \/ Abort

CallStep == CheckIdle \/ SteerBegin \/ SteerMark \/ SteerAccept \/ SteerTrack \/ SteerRequeue
            \/ SteerEnd \/ CancelDiscard \/ CancelUnpause

User == Enqueue \/ Steer \/ Pause \/ Resume \/ Retry \/ Delete \/ Cancel

Next == Dispatcher \/ RetryTimer \/ Turn \/ Gate \/ CallStep \/ User
        \/ RecoverBegin \/ RecoverCommit

Spec == Init /\ [][Next]_vars

\* A thread that can run again and again does run: Go's mutexes hand over to a
\* starved waiter, timers fire, a turn ends, a rotation is released.  Users,
\* crashes, aborts and recoveries are never obliged to happen.
LiveSpec ==
    /\ Spec
    /\ SF_vars(Dispatcher) /\ SF_vars(Turn) /\ SF_vars(CallStep)
    /\ SF_vars(EndRotation) /\ WF_vars(RetryTimer) /\ WF_vars(RecoverCommit)

-----------------------------------------------------------------------------
(* Properties *)

\* Type invariant of the controller's and the manifest's state.
TypeOK ==
    /\ st \in [Items -> InFlight \cup Pending \cup {"none"}]
    /\ intent \in [Items -> {"followup", "steer"}]
    /\ {paused, running, finishing, rotating, closed, pending, scheduled, unannounced}
         \subseteq BOOLEAN
    /\ parked \in Nat /\ enqueued \in 0 .. NumItems
    /\ active \subseteq Items /\ admitting \subseteq Items /\ crossed \subseteq Items
    /\ disp.item \in Items \cup {None} /\ attempts \in 0 .. MaxRetryAttempts
    /\ turn.item \in Items \cup {None}
    /\ turn.steers \cup turn.ids \cup turn.todo \subseteq Items
    /\ \A k \in DOMAIN steerQ : steerQ[k] \in Items
    /\ applied \in [Items -> 0 .. 2]

Executing == turn.pc \in {"prep", "run", "unapplied", "exit", "flush", "flushed", "ids", "snap"}

\* What a turn executes, and the guidance that waits in its queue, is durably in
\* flight the whole time, so that a crash at any point leaves it visible as
\* uncertain: a concurrent recovery, a rejected steer, a pause or a dispatcher
\* that lost a race never puts it back into the queue or takes it away.  Excepted
\* is an entry that the agent once gave up while a steer was just admitting it:
\* the steer registers the ownership after the agent dropped it, or the agent
\* drops what a second steer registered (crossed).
InFlightWhileExecuting ==
    \A i \in Items \ crossed : (Executing /\ i \in Owned) \/ i \in Waiting => st[i] \in InFlight

\* An entry is applied (run as a turn or consumed as guidance) at most once for
\* each time a user asked for it, whatever fails, restarts or is retried, with the
\* same exception: an entry whose ownership was dropped can be recovered, asked
\* for again and steered a second time while it still waits in the agent's queue.
AppliedOnce == \A i \in Items \ crossed : applied[i] <= 1

\* The gate admits one turn at a time, and no session rotation during a turn
\* (admitGuardedTurn, finishGuardedTurn and beginRotation share it).
GateExclusive ==
    /\ disp.pc = "start" => turn.pc = "none" /\ running
    /\ rotating /\ ~closed => turn.pc = "none" /\ disp.pc # "start"

\* An in-flight entry leaves the inbox only through the turn that applied it:
\* guidance accepted at the last moment is never acknowledged unread, with the
\* same exception.
AcknowledgedWasApplied ==
    [][\A i \in Items : st[i] \in InFlight /\ st'[i] = "none" => i \in Owned \cup crossed]_vars

Stranded(i) == st[i] = "queued" /\ ~paused /\ ~closed

\* A queued entry of an open, unpaused inbox does not wait forever: it is
\* dispatched, or the queue is paused.  Excepted, until the next kick, is a queue
\* whose kick the code dropped (unannounced): the retries are used up, a steer
\* failed after its entry became queued, a cancellation un-paused the queue, a
\* prompt was pending outside a turn, or the session refused the admission (lost
\* write authority, draining runtime).
QueueDrains == \A i \in Items : []<>(~Stranded(i) \/ unannounced)
=============================================================================
