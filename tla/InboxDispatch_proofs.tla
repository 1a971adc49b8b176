------------------------ MODULE InboxDispatch_proofs ------------------------
(***************************************************************************)
(* Proofs about InboxDispatch for any number of entries, any retry limit   *)
(* and any budget: the type invariant, the exclusive admission gate, that  *)
(* what a turn executes stays durably in flight, that an entry is applied  *)
(* once per request, and that only an applied entry is acknowledged.       *)
(***************************************************************************)
EXTENDS InboxDispatch, FiniteSetTheorems, SequenceTheorems, WellFoundedInduction, TLAPS

DispPcs == {"idle", "loop", "gate", "scan", "submit", "claim", "admit", "unclaim", "start",
            "untrack"}
TurnPcs == {"none", "prep", "run", "unapplied", "exit", "flush", "flushed", "ids", "snap",
            "ack", "untrack", "deliver"}
CallPcs == {"idle", "check", "steer", "mark", "accept", "active", "requeue", "end",
            "endKick", "discard", "unpause"}
Kinds == {"items", "plain", "rotations", "faults", "restarts", "aborts", "closes", "refusals",
          "ops"}

-----------------------------------------------------------------------------
(* The inductive invariant, in parts *)

Flags ==
    /\ paused \in BOOLEAN /\ running \in BOOLEAN /\ finishing \in BOOLEAN
    /\ rotating \in BOOLEAN /\ closed \in BOOLEAN
    /\ pending \in BOOLEAN /\ scheduled \in BOOLEAN /\ unannounced \in BOOLEAN

Manifest ==
    /\ st \in [Items -> InFlight \cup Pending \cup {"none"}]
    /\ intent \in [Items -> {"followup", "steer"}]

Ownership ==
    /\ active \subseteq Items /\ admitting \subseteq Items /\ crossed \subseteq Items

DispatcherState ==
    /\ disp \in [pc : DispPcs, item : Items \cup {None}]
    /\ disp.pc \in {"submit", "claim", "admit", "unclaim", "start", "untrack"}
         => disp.item \in Items
    /\ attempts \in 0 .. MaxRetryAttempts

TurnType == [pc : TurnPcs, item : Items \cup {None}, steers : SUBSET Items,
             ids : SUBSET Items, todo : SUBSET Items]
TurnState ==
    /\ turn \in TurnType
    /\ steerQ \in Seq(Items)

CallType == [pc : CallPcs, item : Items \cup {None}, was : BOOLEAN]
CallState ==
    /\ call \in CallType
    /\ call.pc # "idle" => call.item \in Items
    /\ rec \in [pc : {"idle", "held"}, seen : SUBSET Items]

Counts ==
    /\ left \in [Kinds -> Nat]
    /\ enqueued \in Nat /\ enqueued + left["items"] <= NumItems
    /\ parked \in Nat

Applications == applied \in [Items -> 0 .. 2]

Typed == Flags /\ Manifest /\ Ownership /\ DispatcherState /\ TurnState /\ CallState
         /\ Counts /\ Applications

\* What running and finishing say about the turn.
Gated ==
    /\ GateExclusive
    /\ turn.pc \in {"prep", "run", "unapplied", "exit", "flush", "flushed"} => running
    /\ ~closed /\ turn.pc \in {"ids", "snap", "ack", "untrack", "deliver"} => finishing

\* The admission lock, and what a recovery has seen of it.
Locked ==
    /\ ~(DispatcherAdmits /\ SteerAdmits)
    /\ DispatcherAdmits => disp.item \in admitting
    /\ SteerAdmits => call.item \in admitting
    /\ rec.pc = "held" /\ DispatcherAdmits => disp.item \in rec.seen
    /\ rec.pc = "held" /\ SteerAdmits => call.item \in rec.seen

\* Every owner that is registered belongs to the turn; nothing outlives it.
Known == crossed \cup Owned \cup Waiting \cup turn.todo \cup turn.ids
Framed ==
    /\ turn.pc \in {"none", "prep", "run", "exit", "ids"} => turn.todo = {}
    /\ turn.pc \in {"none", "prep", "run", "exit", "ids", "unapplied", "flush"} => turn.ids = {}
    /\ turn.pc \notin {"run", "unapplied"} => steerQ = <<>>
    /\ turn.pc \in {"none", "deliver"} => active = {}
    /\ turn.pc \in {"snap", "ack", "untrack"} => turn.ids = active
    /\ turn.pc = "snap" => turn.todo = turn.ids
    /\ turn.pc \in {"snap", "ack"} => turn.todo \subseteq Owned \cup crossed
    /\ active \subseteq Known
    /\ call.pc = "active" => /\ turn.pc \in {"run", "unapplied", "exit", "flush", "flushed"}
                             /\ call.item \in Known

\* The three threads that may hold an entry in flight.
HeldByDispatcher(i) == disp.pc \in {"admit", "unclaim", "start"} /\ disp.item = i
HeldByCall(i) == call.pc \in {"accept", "requeue"} /\ call.item = i
HeldByTurn(i) ==
    \/ Executing /\ i \in Owned
    \/ turn.pc \in {"ack", "flush", "flushed"} /\ i \in turn.todo

\* An entry has one holder, is in flight while it has one, and a recovery sees it.
Held(i) ==
    /\ HeldByDispatcher(i) \/ HeldByCall(i) \/ HeldByTurn(i) \/ i \in Waiting
         => st[i] \in InFlight
    /\ HeldByDispatcher(i) \/ HeldByCall(i) => ~HeldByTurn(i) /\ i \notin Waiting
    /\ HeldByTurn(i) => i \notin Waiting
    /\ HeldByTurn(i) \/ i \in Waiting => i \in active \/ (call.pc = "active" /\ call.item = i)
    /\ call.pc = "mark" /\ call.item = i => st[i] = "queued"
    /\ turn.pc \in {"unapplied", "flush", "flushed"} /\ i \in turn.todo \cup turn.ids
         => i \notin Owned
    /\ turn.pc = "flushed" /\ i \in turn.ids => i \notin turn.todo

\* An entry waits in the agent's queue once.
Single(i) == \A k, l \in DOMAIN steerQ : steerQ[k] = i /\ steerQ[l] = i => k = l

\* What may still be applied has not been applied since it was last asked for.
Fresh(i) ==
    /\ i > enqueued => st[i] = "none" /\ applied[i] = 0
    /\ st[i] = "queued" \/ HeldByDispatcher(i) \/ HeldByCall(i) \/ i \in Waiting
         => applied[i] = 0
    /\ applied[i] <= 1

Sound == \A i \in Items \ crossed : Held(i) /\ Single(i) /\ Fresh(i)

\* The inductive invariant.
IInv == Typed /\ Gated /\ Locked /\ Framed /\ Sound

-----------------------------------------------------------------------------
(* Operators of the model *)

\* The program counters of a turn, one by one.
LEMMA TurnPcsAre ==
    \A p \in {"none", "prep", "run", "unapplied", "exit", "flush", "flushed", "ids", "snap",
              "ack", "untrack", "deliver"} : p \in TurnPcs
BY DEF TurnPcs

\* A turn whose fields are replaced by values of their types is a turn.
LEMMA TurnWith ==
    ASSUME TurnState, NEW p \in TurnPcs,
           NEW s \in SUBSET Items, NEW n \in SUBSET Items, NEW t \in SUBSET Items
    PROVE  /\ [turn EXCEPT !.pc = p] \in TurnType
           /\ [turn EXCEPT !.steers = s] \in TurnType
           /\ [turn EXCEPT !.pc = p, !.todo = t] \in TurnType
           /\ [turn EXCEPT !.pc = p, !.ids = n] \in TurnType
           /\ [turn EXCEPT !.pc = p, !.todo = t, !.ids = n] \in TurnType
           /\ [turn EXCEPT !.ids = n, !.todo = t, !.pc = p] \in TurnType
           /\ [turn EXCEPT !.todo = t, !.pc = p] \in TurnType
BY DEF TurnState, TurnType

\* The empty turn and a new turn are turns.
LEMMA TurnNew ==
    ASSUME NEW i \in Items \cup {None}
    PROVE  NoTurn \in TurnType /\ TurnOf(i) \in TurnType
BY TurnPcsAre DEF TurnType, NoTurn, TurnOf

\* A call built from typed fields is a call.
LEMMA CallNew ==
    ASSUME NEW i \in Items, NEW p \in CallPcs, NEW b \in BOOLEAN
    PROVE  [pc |-> p, item |-> i, was |-> b] \in CallType
BY DEF CallType

\* So is the absent one.
LEMMA CallIdle == NoCall \in CallType
BY DEF CallType, NoCall, CallPcs

\* A call that moves on stays a call.
LEMMA CallWith ==
    ASSUME CallState, NEW p \in CallPcs, NEW i \in Items
    PROVE  /\ CallAt(p) \in CallType
           /\ [NoCall EXCEPT !.pc = p, !.item = i] \in CallType
BY DEF CallState, CallType, CallAt, NoCall

\* NextQueued picks an entry: a non-empty set of entries has a first one.
LEMMA Smallest ==
    ASSUME NEW S \in SUBSET Items, S # {}
    PROVE  \E i \in S : \A j \in S : i <= j
<1> DEFINE R == OpToRel(<, Nat)
<1>1. S \subseteq Nat
  BY DispatchAssumption DEF Items
<1>2. \A a, b \in Nat : a < b => <<a, b>> \in R
  BY DEF OpToRel
<1>3. IsWellFoundedOn(R, Nat)
  BY NatLessThanWellFounded
<1> HIDE DEF R
<1>4. PICK x \in S : \A y \in S : ~(<<y, x>> \in R)
  BY <1>1, <1>3, WFMin
<1>5. ASSUME NEW y \in S
      PROVE  x <= y
  <2>1. x \in Nat /\ y \in Nat
    BY <1>1
  <2>2. ~(<<y, x>> \in R)
    BY <1>4
  <2>3. ~(y < x)
    BY <1>2, <2>1, <2>2, Zenon
  <2>4. QED  BY <2>1, <2>3
<1>6. QED  BY <1>5

\* NextQueued returns an entry or None: the CHOOSE has a witness.
LEMMA NextQueuedType == NextQueued \in Items \cup {None}
<1>1. ASSUME NEW S \in SUBSET Items, S # {}
      PROVE  (CHOOSE i \in S : \A j \in S : i <= j) \in Items
  BY <1>1, Smallest
<1> DEFINE F == {i \in Queued : intent[i] = "followup"}
           G == IF F # {} THEN F ELSE Queued
<1>2. G \in SUBSET Items
  BY DEF Queued
<1>3. NextQueued = IF paused \/ G = {} THEN None ELSE CHOOSE i \in G : \A j \in G : i <= j
  BY DEF NextQueued
<1> HIDE DEF G
<1>4. CASE G = {}
  BY <1>3, <1>4
<1>5. CASE G # {}
  BY <1>1, <1>2, <1>3, <1>5
<1>6. QED  BY <1>4, <1>5

\* Spending keeps the budget typed and does not raise it.
LEMMA SpendType ==
    ASSUME Counts, NEW k \in Kinds, Spend(k)
    PROVE  left' \in [Kinds -> Nat] /\ left'["items"] <= left["items"]
BY DEF Counts, Spend, Kinds

\* A step that at most spends keeps the counters.
LEMMA CountsBySpend ==
    ASSUME Counts, UNCHANGED <<enqueued, parked>>, NEW k \in Kinds, UNCHANGED left \/ Spend(k)
    PROVE  Counts'
<1>1. UNCHANGED left \/ (left' \in [Kinds -> Nat] /\ left'["items"] <= left["items"])
  BY SpendType
<1>2. left["items"] \in Nat
  BY DEF Counts, Kinds
<1>3. QED  BY <1>1, <1>2, DispatchAssumption DEF Counts, Kinds

\* Counting an application keeps the history typed.
LEMMA ApplyType ==
    ASSUME Applications, NEW i \in Items, Apply(i)
    PROVE  Applications'
BY DEF Applications, Apply

\* Head and tail of the agent's queue.
LEMMA HeadOfQueue ==
    ASSUME TurnState, steerQ # <<>>
    PROVE  /\ Head(steerQ) \in Items
           /\ Tail(steerQ) \in Seq(Items)
BY HeadTailProperties DEF TurnState

\* What waits are entries.
LEMMA WaitingType ==
    ASSUME TurnState
    PROVE  Waiting \in SUBSET Items
BY ElementOfSeq DEF TurnState, Waiting

-----------------------------------------------------------------------------
(* Types *)

\* The flags stay Booleans.
LEMMA FlagsStep ==
    ASSUME Flags, Next
    PROVE  Flags'
<1>1. CASE DispatchLoop
  BY <1>1, Zenon DEF DispatchLoop, DispAt, diskVars, gateVars, historyVars, Flags
<1>2. CASE DispatchScan
  BY <1>2, Zenon DEF DispatchScan, StoreFree, Fails, Spend, ScheduleRetry, DispAt,
        Succeeds, IdleOrStarted, Advance, diskVars, gateVars, Flags
<1>3. CASE DispatchSubmit
  BY <1>3, Zenon DEF DispatchSubmit, StoreFree, SteerAdmits, Fails, Spend, Succeeds,
        ScheduleRetry, DispAt, diskVars, Advance, gateVars, Flags
<1>4. CASE DispatchClaim
  BY <1>4, Zenon DEF DispatchClaim, StoreFree, Succeeds, Advance, DispAt, Fails, Spend,
        ScheduleRetry, gateVars, Flags
<1>5. CASE DispatchAdmit
  BY <1>5, Zenon DEF DispatchAdmit, ControllerFree, DispAt, diskVars, historyVars, Flags
<1>6. CASE DispatchUnclaim
  BY <1>6, Zenon DEF DispatchUnclaim, StoreFree, Succeeds, IdleOrStarted, DispAt, Fails,
        Spend, MayPause, ScheduleRetry, gateVars, Flags
<1>7. CASE RetryTimer
  BY <1>7, Zenon DEF RetryTimer, Kick, DispAt, diskVars, gateVars, Flags
<1>8. CASE Unapplied
  BY <1>8, Zenon DEF Unapplied, StoreFree, TryPause, Succeeds, Fails, Spend, GiveUp,
        gateVars, dispVars, Flags
<1>9. CASE FlushUntrack
  BY <1>9, Zenon DEF FlushUntrack, StoreFree, TryPause, Succeeds, Fails, Spend, GiveUp,
        gateVars, dispVars, Flags
<1>10. CASE TurnEnd
  BY <1>10, Zenon DEF TurnEnd, ControllerFree, diskVars, dispVars, historyVars, Flags
<1>11. CASE TurnSnapshot
  BY <1>11, Zenon DEF TurnSnapshot, StoreFree, Succeeds, Fails, Spend, Uncertain,
        MayPause, gateVars, dispVars, historyVars, Flags
<1>12. CASE TurnAck
  BY <1>12, Zenon DEF TurnAck, StoreFree, Succeeds, Fails, Spend, Uncertain, MayPause,
        gateVars, dispVars, historyVars, Flags
<1>13. CASE TurnDeliver
  BY <1>13, Zenon DEF TurnDeliver, ControllerFree, NoTurn, TurnOf, Kick, DispAt,
        diskVars, Flags
<1>14. CASE PlainSubmit
  BY <1>14, Zenon DEF PlainSubmit, Spend, ControllerFree, TurnOf, NoTurn, diskVars,
        dispVars, historyVars, Flags
<1>15. CASE BeginRotation
  BY <1>15, Zenon DEF BeginRotation, Spend, ControllerFree, diskVars, dispVars,
        historyVars, Flags
<1>16. CASE EndRotation
  BY <1>16, Zenon DEF EndRotation, ControllerFree, Kick, DispAt, diskVars, Flags
<1>17. CASE Close
  BY <1>17, Zenon DEF Close, Spend, ControllerFree, diskVars, dispVars, historyVars,
        Flags
<1>18. CASE Restart
  BY <1>18, Zenon DEF Restart, Spend, Uncertain, DispAt, NoTurn, NoCall, NoRec, Flags
<1>19. CASE CheckIdle
  BY <1>19, Zenon DEF CheckIdle, ControllerFree, NoKick, Kick, DispAt, NoCall, Others,
        gateVars, diskVars, Flags
<1>20. CASE SteerBegin
  BY <1>20, Zenon DEF SteerBegin, DispatcherAdmits, StoreFree, NoCall, NoKick, Kick,
        DispAt, CallAt, Others, gateVars, Flags
<1>21. CASE SteerMark
  BY <1>21, Zenon DEF SteerMark, StoreFree, Succeeds, CallAt, NoKick, Fails, Spend,
        Others, gateVars, Flags
<1>22. CASE SteerRequeue
  BY <1>22, Zenon DEF SteerRequeue, StoreFree, Succeeds, CallAt, Fails, Spend, MayPause,
        Others, gateVars, Flags
<1>23. CASE SteerEnd
  BY <1>23, Zenon DEF SteerEnd, Kick, DispAt, NoKick, NoCall, Others, gateVars, diskVars,
        Flags
<1>24. CASE CancelUnpause
  BY <1>24, Zenon DEF CancelUnpause, StoreFree, NoCall, Others, gateVars, Flags
<1>25. CASE Enqueue
  BY <1>25, Zenon DEF Enqueue, StoreFree, Spend, NoKick, Others, gateVars, Flags
<1>26. CASE Pause
  BY <1>26, Zenon DEF Pause, Spend, StoreFree, NoKick, Others, gateVars, Flags
<1>27. CASE Resume
  BY <1>27, Zenon DEF Resume, Spend, StoreFree, Kick, DispAt, Others, gateVars, Flags
<1>28. CASE Retry
  BY <1>28, Zenon DEF Retry, Spend, StoreFree, Kick, DispAt, Others, gateVars, Flags
<1>29. CASE Cancel
  BY <1>29, Zenon DEF Cancel, Spend, StoreFree, NoKick, Others, gateVars, Flags
<1>30. CASE RecoverCommit
  BY <1>30, Zenon DEF RecoverCommit, Uncertain, Orphans, NoRec, gateVars, dispVars,
        historyVars, Flags
<1>31. CASE DispatchGate \/ DispatchStart \/ DispatchUntrack
  <2>1. /\ UNCHANGED <<paused, running, finishing, rotating, closed, pending, scheduled>>
        /\ UNCHANGED unannounced \/ unannounced' = TRUE
    BY <1>31, Zenon DEF DispatchGate, IdleOrStarted, Advance, diskVars, gateVars, DispatchStart,
          DispatchUntrack
  <2>2. QED  BY <2>1, Zenon DEF Flags
<1>32. CASE AgentStart \/ ConsumeSteer \/ CloseIntake \/ FlushMark \/ TurnIds \/ TurnUntrack
  <2>1. UNCHANGED <<paused, running, finishing, rotating, closed, pending, scheduled, unannounced>>
    BY <1>32, Zenon DEF AgentStart, diskVars, gateVars, dispVars, historyVars, ConsumeSteer,
          CloseIntake, FlushMark, TurnIds, TurnUntrack
  <2>2. QED  BY <2>1, Zenon DEF Flags
<1>33. CASE Abort
  <2>1. UNCHANGED <<paused, running, finishing, rotating, closed, pending, scheduled, unannounced>>
    BY <1>33, Zenon DEF Abort, diskVars, gateVars, dispVars, historyVars
  <2>2. QED  BY <2>1, Zenon DEF Flags
<1>34. CASE SteerAccept \/ SteerTrack \/ CancelDiscard
  <2>1. UNCHANGED <<paused, running, finishing, rotating, closed, pending, scheduled, unannounced>>
    BY <1>34, Zenon DEF SteerAccept, NoKick, Others, gateVars, diskVars, SteerTrack,
          CancelDiscard
  <2>2. QED  BY <2>1, Zenon DEF Flags
<1>35. CASE Steer \/ Delete
  <2>1. UNCHANGED <<paused, running, finishing, rotating, closed, pending, scheduled, unannounced>>
    BY <1>35, Zenon DEF Steer, NoKick, Others, gateVars, diskVars, Delete
  <2>2. QED  BY <2>1, Zenon DEF Flags
<1>36. CASE RecoverBegin
  <2>1. UNCHANGED <<paused, running, finishing, rotating, closed, pending, scheduled, unannounced>>
    BY <1>36, Zenon DEF RecoverBegin, diskVars, gateVars, dispVars, historyVars
  <2>2. QED  BY <2>1, Zenon DEF Flags
<1>37. QED  BY <1>1, <1>2, <1>3, <1>4, <1>5, <1>6, <1>7, <1>8, <1>9, <1>10, <1>11, <1>12, <1>13,
      <1>14, <1>15, <1>16, <1>17, <1>18, <1>19, <1>20, <1>21, <1>22, <1>23, <1>24, <1>25, <1>26,
      <1>27, <1>28, <1>29, <1>30, <1>31, <1>32, <1>33, <1>34, <1>35, <1>36, Zenon DEF Next,
      Dispatcher, Turn, Gate, CallStep, User

\* The manifest keeps its shape.
LEMMA ManifestStep ==
    ASSUME Typed, Next
    PROVE  Manifest'
<1>1. CASE DispatchSubmit
  BY <1>1, DispatchAssumption, SMTT(20) DEF DispatchSubmit, StoreFree, SteerAdmits, Fails,
        Spend, Succeeds, ScheduleRetry, DispAt, diskVars, Advance, gateVars, Typed, Manifest,
        InFlight, Pending
<1>2. CASE DispatchClaim
  BY <1>2, DispatchAssumption, SMTT(20) DEF DispatchClaim, StoreFree, Succeeds, Advance, DispAt,
        Fails, Spend, ScheduleRetry, gateVars, Typed, Manifest, InFlight, Pending
<1>3. CASE DispatchUnclaim
  <2>1. UNCHANGED intent
    BY <1>3, Zenon DEF DispatchUnclaim
  <2>2. \/ UNCHANGED st
        \/ st' = [st EXCEPT ![disp.item] = IF @ = "none" THEN @ ELSE "queued"]
    BY <1>3, Zenon DEF DispatchUnclaim
  <2>3. QED  BY <2>1, <2>2 DEF Typed, Manifest, Pending
<1>4. CASE ConsumeSteer
  BY <1>4, DispatchAssumption, SMTT(20) DEF ConsumeSteer, StoreFree, Succeeds, Apply, Fails,
        Spend, Uncertain, gateVars, dispVars, Typed, Manifest, InFlight, Pending
<1>5. CASE FlushMark
  BY <1>5, DispatchAssumption, SMTT(20) DEF FlushMark, StoreFree, Succeeds, Uncertain, Fails,
        Spend, gateVars, dispVars, historyVars, Typed, Manifest, InFlight, Pending
<1>6. CASE TurnSnapshot
  <2>1. UNCHANGED st \/ \E S \in SUBSET turn.ids : st' = Uncertain(S)
    BY <1>6, Zenon DEF TurnSnapshot
  <2>2. UNCHANGED intent
    BY <1>6, Zenon DEF TurnSnapshot
  <2>3. QED  BY <2>1, <2>2 DEF Uncertain, Typed, Manifest, InFlight, Pending
<1>7. CASE TurnAck
  BY <1>7, DispatchAssumption, SMTT(20) DEF TurnAck, StoreFree, Succeeds, Fails, Spend,
        Uncertain, gateVars, dispVars, historyVars, Typed, Manifest, InFlight, Pending
<1>8. CASE Restart
  BY <1>8, DispatchAssumption, SMTT(20) DEF Restart, Spend, Uncertain, DispAt, NoTurn, NoCall,
        NoRec, Typed, Manifest, InFlight, Pending
<1>9. CASE SteerBegin
  BY <1>9, DispatchAssumption, SMTT(20) DEF SteerBegin, DispatcherAdmits, StoreFree, NoCall,
        NoKick, Kick, DispAt, CallAt, Others, gateVars, Typed, Manifest, InFlight, Pending
<1>10. CASE SteerMark
  BY <1>10, DispatchAssumption, SMTT(20) DEF SteerMark, StoreFree, Succeeds, CallAt, NoKick,
        Fails, Spend, Others, gateVars, Typed, Manifest, InFlight, Pending
<1>11. CASE SteerRequeue
  BY <1>11, DispatchAssumption, SMTT(20) DEF SteerRequeue, StoreFree, Succeeds, CallAt, Fails,
        Spend, Others, gateVars, Typed, Manifest, InFlight, Pending
<1>12. CASE CancelDiscard
  BY <1>12, DispatchAssumption, SMTT(20) DEF CancelDiscard, StoreFree, NoCall, CallAt, NoKick,
        Others, gateVars, Typed, Manifest, InFlight, Pending
<1>13. CASE Enqueue
  <2>1. PICK i \in {enqueued + 1}, how \in {"followup", "steer"}, readable \in BOOLEAN :
          /\ st' = [st EXCEPT ![i] = IF readable THEN "queued" ELSE "blocked"]
          /\ intent' = [intent EXCEPT ![i] = how]
    BY <1>13, Zenon DEF Enqueue
  <2>2. (IF readable THEN "queued" ELSE "blocked") \in Pending
    BY DEF Pending
  <2>3. QED  BY <2>1, <2>2 DEF Typed, Manifest
<1>14. CASE Retry
  BY <1>14, DispatchAssumption, SMTT(20) DEF Retry, Spend, StoreFree, Kick, DispAt, Others,
        gateVars, Typed, Manifest, InFlight, Pending
<1>15. CASE Delete
  BY <1>15, DispatchAssumption, SMTT(20) DEF Delete, Spend, StoreFree, NoKick, Others, gateVars,
        Typed, Manifest, InFlight, Pending
<1>16. CASE RecoverCommit
  BY <1>16, DispatchAssumption, SMTT(20) DEF RecoverCommit, Uncertain, Orphans, NoRec, gateVars,
        dispVars, historyVars, Typed, Manifest, InFlight, Pending
<1>17. CASE DispatchLoop \/ DispatchGate \/ DispatchScan \/ DispatchAdmit \/ DispatchStart
            \/ DispatchUntrack
  <2>1. UNCHANGED <<st, intent>>
    BY <1>17, Zenon DEF DispatchLoop, diskVars, DispatchGate, DispatchScan, DispatchAdmit,
          DispatchStart, DispatchUntrack
  <2>2. QED  BY <2>1, Zenon DEF Typed, Manifest, InFlight, Pending
<1>18. CASE AgentStart \/ Unapplied \/ CloseIntake \/ FlushUntrack \/ TurnEnd \/ TurnIds \/
            TurnUntrack \/ TurnDeliver
  <2>1. UNCHANGED <<st, intent>>
    BY <1>18, Zenon DEF AgentStart, diskVars, Unapplied, CloseIntake, FlushUntrack, TurnEnd,
          TurnIds, TurnUntrack, TurnDeliver
  <2>2. QED  BY <2>1, Zenon DEF Typed, Manifest, InFlight, Pending
<1>19. CASE PlainSubmit \/ BeginRotation \/ EndRotation \/ Close \/ Abort
  <2>1. UNCHANGED <<st, intent>>
    BY <1>19, Zenon DEF PlainSubmit, diskVars, BeginRotation, EndRotation, Close, Abort
  <2>2. QED  BY <2>1, Zenon DEF Typed, Manifest, InFlight, Pending
<1>20. CASE CheckIdle \/ SteerAccept \/ SteerTrack \/ SteerEnd \/ CancelUnpause
  <2>1. UNCHANGED <<st, intent>>
    BY <1>20, Zenon DEF CheckIdle, Others, diskVars, SteerAccept, SteerTrack, SteerEnd,
          CancelUnpause
  <2>2. QED  BY <2>1, Zenon DEF Typed, Manifest, InFlight, Pending
<1>21. CASE Steer \/ Pause \/ Resume \/ Cancel
  <2>1. UNCHANGED <<st, intent>>
    BY <1>21, Zenon DEF Steer, Others, diskVars, Pause, Resume, Cancel
  <2>2. QED  BY <2>1, Zenon DEF Typed, Manifest, InFlight, Pending
<1>22. CASE RetryTimer \/ RecoverBegin
  <2>1. UNCHANGED <<st, intent>>
    BY <1>22, Zenon DEF RetryTimer, diskVars, RecoverBegin
  <2>2. QED  BY <2>1, Zenon DEF Typed, Manifest, InFlight, Pending
<1>23. QED  BY <1>1, <1>2, <1>3, <1>4, <1>5, <1>6, <1>7, <1>8, <1>9, <1>10, <1>11, <1>12, <1>13,
      <1>14, <1>15, <1>16, <1>17, <1>18, <1>19, <1>20, <1>21, <1>22, Zenon DEF Next, Dispatcher,
      Turn, Gate, CallStep, User

\* The published ownership is about entries.
LEMMA OwnershipStep ==
    ASSUME Typed, Next
    PROVE  Ownership'
<1>1. CASE DispatchSubmit
  BY <1>1, DispatchAssumption, SMTT(20) DEF DispatchSubmit, StoreFree, SteerAdmits, Fails,
        Spend, Succeeds, ScheduleRetry, DispAt, diskVars, Advance, gateVars, Typed, Ownership,
        CallState, CallType, DispatcherState, TurnState, TurnType
<1>2. CASE DispatchClaim
  BY <1>2, DispatchAssumption, SMTT(20) DEF DispatchClaim, StoreFree, Succeeds, Advance, DispAt,
        Fails, Spend, ScheduleRetry, gateVars, Typed, Ownership, CallState, CallType,
        DispatcherState, TurnState, TurnType
<1>3. CASE DispatchUnclaim
  BY <1>3, DispatchAssumption, SMTT(20) DEF DispatchUnclaim, StoreFree, Succeeds, IdleOrStarted,
        DispAt, Fails, Spend, ScheduleRetry, gateVars, Typed, Ownership, CallState, CallType,
        DispatcherState, TurnState, TurnType
<1>4. CASE DispatchStart
  BY <1>4, DispatchAssumption, SMTT(20) DEF DispatchStart, TurnOf, NoTurn, Apply, DispAt,
        diskVars, gateVars, Typed, Ownership, CallState, CallType, DispatcherState, TurnState,
        TurnType
<1>5. CASE DispatchUntrack
  BY <1>5, DispatchAssumption, SMTT(20) DEF DispatchUntrack, IdleOrStarted, DispAt, diskVars,
        gateVars, Typed, Ownership, CallState, CallType, DispatcherState, TurnState, TurnType
<1>6. CASE Unapplied
  BY <1>6, DispatchAssumption, SMTT(20) DEF Unapplied, StoreFree, TryPause, Succeeds, Fails,
        Spend, GiveUp, gateVars, dispVars, Typed, Ownership, CallState, CallType,
        DispatcherState, TurnState, TurnType
<1>7. CASE FlushUntrack
  BY <1>7, DispatchAssumption, SMTT(20) DEF FlushUntrack, StoreFree, TryPause, Succeeds, Fails,
        Spend, GiveUp, gateVars, dispVars, Typed, Ownership, CallState, CallType,
        DispatcherState, TurnState, TurnType
<1>8. CASE TurnUntrack
  BY <1>8, DispatchAssumption, SMTT(20) DEF TurnUntrack, diskVars, gateVars, dispVars,
        historyVars, Typed, Ownership, CallState, CallType, DispatcherState, TurnState, TurnType
<1>9. CASE Restart
  BY <1>9, DispatchAssumption, SMTT(20) DEF Restart, Spend, Uncertain, DispAt, NoTurn, NoCall,
        NoRec, Typed, Ownership, CallState, CallType, DispatcherState, TurnState, TurnType
<1>10. CASE SteerBegin
  BY <1>10, DispatchAssumption, SMTT(20) DEF SteerBegin, DispatcherAdmits, StoreFree, NoCall,
        NoKick, Kick, DispAt, CallAt, Others, gateVars, Typed, Ownership, CallState, CallType,
        DispatcherState, TurnState, TurnType
<1>11. CASE SteerTrack
  BY <1>11, DispatchAssumption, SMTT(20) DEF SteerTrack, CallAt, NoKick, Others, gateVars,
        diskVars, Typed, Ownership, CallState, CallType, DispatcherState, TurnState, TurnType
<1>12. CASE SteerEnd
  BY <1>12, DispatchAssumption, SMTT(20) DEF SteerEnd, Kick, DispAt, NoKick, NoCall, Others,
        gateVars, diskVars, Typed, Ownership, CallState, CallType, DispatcherState, TurnState,
        TurnType
<1>13. CASE DispatchLoop \/ DispatchGate \/ DispatchScan \/ DispatchAdmit
  <2>1. UNCHANGED <<active, admitting, crossed>>
    BY <1>13, Zenon DEF DispatchLoop, historyVars, DispatchGate, DispatchScan, DispatchAdmit
  <2>2. QED  BY <2>1, Zenon DEF Typed, Ownership, CallState, CallType, DispatcherState, TurnState, TurnType
<1>14. CASE AgentStart \/ ConsumeSteer \/ CloseIntake \/ FlushMark \/ TurnEnd \/ TurnIds \/
            TurnSnapshot \/ TurnAck \/ TurnDeliver
  <2>1. UNCHANGED <<active, admitting, crossed>>
    BY <1>14, Zenon DEF AgentStart, historyVars, ConsumeSteer, CloseIntake, FlushMark, TurnEnd,
          TurnIds, TurnSnapshot, TurnAck, TurnDeliver
  <2>2. QED  BY <2>1, Zenon DEF Typed, Ownership, CallState, CallType, DispatcherState, TurnState, TurnType
<1>15. CASE PlainSubmit \/ BeginRotation \/ EndRotation \/ Close \/ Abort
  <2>1. UNCHANGED <<active, admitting, crossed>>
    BY <1>15, Zenon DEF PlainSubmit, historyVars, BeginRotation, EndRotation, Close, Abort
  <2>2. QED  BY <2>1, Zenon DEF Typed, Ownership, CallState, CallType, DispatcherState, TurnState, TurnType
<1>16. CASE CheckIdle \/ SteerMark \/ SteerAccept \/ SteerRequeue \/ CancelDiscard \/
            CancelUnpause
  <2>1. UNCHANGED <<active, admitting, crossed>>
    BY <1>16, Zenon DEF CheckIdle, Others, SteerMark, SteerAccept, SteerRequeue, CancelDiscard,
          CancelUnpause
  <2>2. QED  BY <2>1, Zenon DEF Typed, Ownership, CallState, CallType, DispatcherState, TurnState, TurnType
<1>17. CASE Enqueue \/ Steer \/ Pause \/ Resume \/ Retry \/ Delete \/ Cancel
  <2>1. UNCHANGED <<active, admitting, crossed>>
    BY <1>17, Zenon DEF Enqueue, Others, Steer, Pause, Resume, Retry, Delete, Cancel
  <2>2. QED  BY <2>1, Zenon DEF Typed, Ownership, CallState, CallType, DispatcherState, TurnState, TurnType
<1>18. CASE RetryTimer \/ RecoverBegin \/ RecoverCommit
  <2>1. UNCHANGED <<active, admitting, crossed>>
    BY <1>18, Zenon DEF RetryTimer, RecoverBegin, historyVars, RecoverCommit
  <2>2. QED  BY <2>1, Zenon DEF Typed, Ownership, CallState, CallType, DispatcherState, TurnState, TurnType
<1>19. QED  BY <1>1, <1>2, <1>3, <1>4, <1>5, <1>6, <1>7, <1>8, <1>9, <1>10, <1>11, <1>12, <1>13,
      <1>14, <1>15, <1>16, <1>17, <1>18, Zenon DEF Next, Dispatcher, Turn, Gate, CallStep, User

\* The dispatcher keeps its shape.
LEMMA DispatcherStep ==
    ASSUME Typed, Next
    PROVE  DispatcherState'
<1>1. CASE DispatchLoop
  BY <1>1, DispatchAssumption, SMTT(20) DEF DispatchLoop, DispAt, diskVars, gateVars,
        historyVars, Typed, DispatcherState, DispPcs
<1>2. CASE DispatchGate
  BY <1>2, DispatchAssumption, SMTT(20) DEF DispatchGate, ControllerFree, IdleOrStarted, DispAt,
        Advance, diskVars, gateVars, Typed, DispatcherState, DispPcs
<1>3. CASE DispatchScan
  <2>1. disp' = DispAt("loop", None) \/ (disp' = DispAt("submit", NextQueued) /\ NextQueued # None)
    BY <1>3 DEF DispatchScan, ScheduleRetry, IdleOrStarted, Advance
  <2>2. attempts' = attempts \/ attempts' = 0 \/ (attempts < MaxRetryAttempts /\ attempts' = attempts + 1)
    BY <1>3, DispatchAssumption DEF DispatchScan, ScheduleRetry, IdleOrStarted, Advance, Typed,
       DispatcherState
  <2>3. QED  BY <2>1, <2>2, NextQueuedType, DispatchAssumption DEF DispAt, Typed, DispatcherState,
                DispPcs
<1>4. CASE DispatchSubmit
  BY <1>4, DispatchAssumption, SMTT(20) DEF DispatchSubmit, StoreFree, SteerAdmits, Fails,
        Spend, Succeeds, ScheduleRetry, DispAt, diskVars, Advance, gateVars, Typed,
        DispatcherState, DispPcs
<1>5. CASE DispatchClaim
  BY <1>5, DispatchAssumption, SMTT(20) DEF DispatchClaim, StoreFree, Succeeds, Advance, DispAt,
        Fails, Spend, ScheduleRetry, gateVars, Typed, DispatcherState, DispPcs
<1>6. CASE DispatchAdmit
  BY <1>6, DispatchAssumption, SMTT(20) DEF DispatchAdmit, ControllerFree, DispAt, diskVars,
        historyVars, Typed, DispatcherState, DispPcs
<1>7. CASE DispatchUnclaim
  <2>1. disp' = DispAt("loop", None)
    BY <1>7 DEF DispatchUnclaim, ScheduleRetry, IdleOrStarted
  <2>2. attempts' = attempts \/ attempts' = 0 \/ (attempts < MaxRetryAttempts /\ attempts' = attempts + 1)
    BY <1>7, DispatchAssumption DEF DispatchUnclaim, ScheduleRetry, IdleOrStarted, Typed,
       DispatcherState
  <2>3. QED  BY <2>1, <2>2, DispatchAssumption DEF DispAt, Typed, DispatcherState, DispPcs
<1>8. CASE DispatchStart
  BY <1>8, DispatchAssumption, SMTT(20) DEF DispatchStart, TurnOf, NoTurn, Apply, DispAt,
        diskVars, gateVars, Typed, DispatcherState, DispPcs
<1>9. CASE DispatchUntrack
  BY <1>9, DispatchAssumption, SMTT(20) DEF DispatchUntrack, IdleOrStarted, DispAt, diskVars,
        gateVars, Typed, DispatcherState, DispPcs
<1>10. CASE RetryTimer
  BY <1>10, DispatchAssumption, SMTT(20) DEF RetryTimer, Kick, DispAt, diskVars, gateVars,
        Typed, DispatcherState, DispPcs
<1>11. CASE TurnDeliver
  BY <1>11, DispatchAssumption, SMTT(20) DEF TurnDeliver, ControllerFree, NoTurn, TurnOf, Kick,
        DispAt, diskVars, Typed, DispatcherState, DispPcs
<1>12. CASE EndRotation
  BY <1>12, DispatchAssumption, SMTT(20) DEF EndRotation, ControllerFree, Kick, DispAt,
        diskVars, Typed, DispatcherState, DispPcs
<1>13. CASE Restart
  BY <1>13, DispatchAssumption, SMTT(20) DEF Restart, Spend, Uncertain, DispAt, NoTurn, NoCall,
        NoRec, Typed, DispatcherState, DispPcs
<1>14. CASE CheckIdle
  BY <1>14, DispatchAssumption, SMTT(20) DEF CheckIdle, ControllerFree, NoKick, Kick, DispAt,
        NoCall, Others, gateVars, diskVars, Typed, DispatcherState, DispPcs
<1>15. CASE SteerBegin
  BY <1>15, DispatchAssumption, SMTT(20) DEF SteerBegin, DispatcherAdmits, StoreFree, NoCall,
        NoKick, Kick, DispAt, CallAt, Others, gateVars, Typed, DispatcherState, DispPcs
<1>16. CASE SteerEnd
  BY <1>16, DispatchAssumption, SMTT(20) DEF SteerEnd, Kick, DispAt, NoKick, NoCall, Others,
        gateVars, diskVars, Typed, DispatcherState, DispPcs
<1>17. CASE Resume
  BY <1>17, DispatchAssumption, SMTT(20) DEF Resume, Spend, StoreFree, Kick, DispAt, Others,
        gateVars, Typed, DispatcherState, DispPcs
<1>18. CASE Retry
  BY <1>18, DispatchAssumption, SMTT(20) DEF Retry, Spend, StoreFree, Kick, DispAt, Others,
        gateVars, Typed, DispatcherState, DispPcs
<1>19. CASE AgentStart \/ ConsumeSteer \/ Unapplied \/ CloseIntake \/ FlushMark \/
            FlushUntrack \/ TurnEnd \/ TurnIds \/ TurnSnapshot \/ TurnAck \/ TurnUntrack
  <2>1. UNCHANGED <<disp, attempts>>
    BY <1>19, Zenon DEF AgentStart, dispVars, ConsumeSteer, Unapplied, CloseIntake, FlushMark,
          FlushUntrack, TurnEnd, TurnIds, TurnSnapshot, TurnAck, TurnUntrack
  <2>2. QED  BY <2>1, Zenon DEF Typed, DispatcherState, DispPcs
<1>20. CASE PlainSubmit \/ BeginRotation \/ Close \/ Abort
  <2>1. UNCHANGED <<disp, attempts>>
    BY <1>20, Zenon DEF PlainSubmit, dispVars, BeginRotation, Close, Abort
  <2>2. QED  BY <2>1, Zenon DEF Typed, DispatcherState, DispPcs
<1>21. CASE SteerMark \/ SteerAccept \/ SteerTrack \/ SteerRequeue \/ CancelDiscard \/
            CancelUnpause
  <2>1. UNCHANGED <<disp, attempts>>
    BY <1>21, Zenon DEF SteerMark, NoKick, Others, SteerAccept, SteerTrack, SteerRequeue,
          CancelDiscard, CancelUnpause
  <2>2. QED  BY <2>1, Zenon DEF Typed, DispatcherState, DispPcs
<1>22. CASE Enqueue \/ Steer \/ Pause \/ Delete \/ Cancel
  <2>1. UNCHANGED <<disp, attempts>>
    BY <1>22, Zenon DEF Enqueue, NoKick, Others, Steer, Pause, Delete, Cancel
  <2>2. QED  BY <2>1, Zenon DEF Typed, DispatcherState, DispPcs
<1>23. CASE RecoverBegin \/ RecoverCommit
  <2>1. UNCHANGED <<disp, attempts>>
    BY <1>23, Zenon DEF RecoverBegin, dispVars, RecoverCommit
  <2>2. QED  BY <2>1, Zenon DEF Typed, DispatcherState, DispPcs
<1>24. QED  BY <1>1, <1>2, <1>3, <1>4, <1>5, <1>6, <1>7, <1>8, <1>9, <1>10, <1>11, <1>12, <1>13,
      <1>14, <1>15, <1>16, <1>17, <1>18, <1>19, <1>20, <1>21, <1>22, <1>23, Zenon DEF Next,
      Dispatcher, Turn, Gate, CallStep, User

\* The turn and its queue of guidance keep their shape.
LEMMA TurnStep ==
    ASSUME Typed, Next
    PROVE  TurnState'
<1>1. CASE DispatchStart
  <2>1. turn' = TurnOf(disp.item) /\ UNCHANGED steerQ /\ disp.item \in Items
    BY <1>1 DEF DispatchStart, Typed, DispatcherState
  <2>2. QED  BY <2>1, TurnNew DEF Typed, TurnState
<1>2. CASE AgentStart
  BY <1>2, TurnWith, TurnPcsAre DEF AgentStart, Typed, TurnState
<1>3. CASE ConsumeSteer
  <2> DEFINE i == Head(steerQ)
  <2>1. i \in Items /\ steerQ' \in Seq(Items)
    BY <1>3, HeadOfQueue DEF ConsumeSteer, Typed
  <2>2. \/ turn' = [turn EXCEPT !.steers = @ \cup {i}]
        \/ turn' = [turn EXCEPT !.pc = "unapplied", !.todo = {i}]
    BY <1>3, Zenon DEF ConsumeSteer
  <2> HIDE DEF i
  <2>3. {i} \in SUBSET Items /\ turn.steers \cup {i} \in SUBSET Items
    BY <2>1 DEF Typed, TurnState, TurnType
  <2>4. TurnState /\ "unapplied" \in TurnPcs
    BY TurnPcsAre DEF Typed
  <2>5. [turn EXCEPT !.steers = turn.steers \cup {i}] \in TurnType
    BY <2>3, <2>4, TurnWith
  <2>6. [turn EXCEPT !.pc = "unapplied", !.todo = {i}] \in TurnType
    BY <2>3, <2>4, TurnWith
  <2>7. QED  BY <2>1, <2>2, <2>5, <2>6 DEF TurnState
<1>4. CASE Unapplied
  BY <1>4, TurnWith, TurnPcsAre DEF Unapplied, Typed, TurnState
<1>5. CASE CloseIntake
  BY <1>5, TurnWith, TurnPcsAre DEF CloseIntake, Typed, TurnState
<1>6. CASE FlushMark
  <2>1. PICK i \in turn.todo :
          turn' = [turn EXCEPT !.pc = "flushed", !.todo = @ \ {i}, !.ids = {i}]
    BY <1>6, Zenon DEF FlushMark
  <2>2. {i} \in SUBSET Items /\ turn.todo \ {i} \in SUBSET Items
    BY DEF Typed, TurnState, TurnType
  <2>3. turn' \in TurnType
    BY <2>1, <2>2, TurnWith, TurnPcsAre DEF Typed
  <2>4. UNCHANGED steerQ
    BY <1>6, Zenon DEF FlushMark
  <2>5. QED  BY <2>3, <2>4 DEF Typed, TurnState
<1>7. CASE FlushUntrack
  BY <1>7, TurnWith, TurnPcsAre DEF FlushUntrack, Typed, TurnState
<1>8. CASE TurnEnd
  BY <1>8, TurnWith, TurnPcsAre DEF TurnEnd, Typed, TurnState
<1>9. CASE TurnIds
  <2>1. turn' = [turn EXCEPT !.ids = active, !.todo = active,
                             !.pc = IF active = {} THEN "deliver" ELSE "snap"]
    BY <1>9 DEF TurnIds
  <2>2. turn' \in TurnType
    BY <2>1, TurnWith, TurnPcsAre DEF Typed, Ownership
  <2>3. QED  BY <1>9, <2>2 DEF TurnIds, Typed, TurnState
<1>10. CASE TurnSnapshot
  BY <1>10, TurnWith, TurnPcsAre DEF TurnSnapshot, Typed, TurnState
<1>11. CASE TurnAck
  <2>1. PICK i \in turn.todo :
          turn' = [turn EXCEPT !.todo = @ \ {i},
                               !.pc = IF turn.todo = {i} THEN "untrack" ELSE "ack"]
    BY <1>11, Zenon DEF TurnAck
  <2>2. turn.todo \ {i} \in SUBSET Items
    BY DEF Typed, TurnState, TurnType
  <2>3. turn' \in TurnType
    BY <2>1, <2>2, TurnWith, TurnPcsAre DEF Typed
  <2>4. UNCHANGED steerQ
    BY <1>11, Zenon DEF TurnAck
  <2>5. QED  BY <2>3, <2>4 DEF Typed, TurnState
<1>12. CASE TurnUntrack
  BY <1>12, TurnWith, TurnPcsAre DEF TurnUntrack, Typed, TurnState
<1>13. CASE TurnDeliver
  <2>1. UNCHANGED steerQ /\ (turn' = NoTurn \/ turn' = TurnOf(None))
    BY <1>13 DEF TurnDeliver
  <2>2. QED  BY <2>1, TurnNew DEF Typed, TurnState
<1>14. CASE PlainSubmit
  <2>1. UNCHANGED steerQ /\ (turn' = turn \/ turn' = TurnOf(None))
    BY <1>14 DEF PlainSubmit
  <2>2. QED  BY <2>1, TurnNew DEF Typed, TurnState
<1>15. CASE Restart
  BY <1>15, TurnNew DEF Restart, Typed, TurnState
<1>16. CASE Abort
  <2>1. turn' = [turn EXCEPT !.pc = "flush", !.todo = Waiting] /\ steerQ' = <<>>
    BY <1>16 DEF Abort
  <2>2. turn' \in TurnType
    BY <2>1, TurnWith, TurnPcsAre, WaitingType DEF Typed
  <2>3. QED  BY <2>1, <2>2 DEF TurnState
<1>17. CASE SteerAccept
  <2>1. UNCHANGED turn /\ (steerQ' = steerQ \/ steerQ' = Append(steerQ, call.item))
    BY <1>17 DEF SteerAccept, Others
  <2>2. call.item \in Items
    BY <1>17 DEF SteerAccept, Typed, CallState
  <2>3. QED  BY <2>1, <2>2, AppendProperties DEF Typed, TurnState
<1>18. CASE DispatchLoop \/ DispatchGate \/ DispatchScan \/ DispatchSubmit \/ DispatchClaim
            \/ DispatchAdmit \/ DispatchUnclaim \/ DispatchUntrack
  <2>1. UNCHANGED <<turn, steerQ>>
    BY <1>18, Zenon DEF DispatchLoop, DispatchGate, DispatchScan, DispatchSubmit, DispatchClaim,
          DispatchAdmit, DispatchUnclaim, DispatchUntrack
  <2>2. QED  BY <2>1, Zenon DEF Typed, TurnState
<1>19. CASE BeginRotation \/ EndRotation \/ Close
  <2>1. UNCHANGED <<turn, steerQ>>
    BY <1>19, Zenon DEF BeginRotation, EndRotation, Close
  <2>2. QED  BY <2>1, Zenon DEF Typed, TurnState
<1>20. CASE CheckIdle \/ SteerBegin \/ SteerMark \/ SteerTrack \/ SteerRequeue \/ SteerEnd
            \/ CancelDiscard \/ CancelUnpause
  <2>1. UNCHANGED <<turn, steerQ>>
    BY <1>20, Zenon DEF CheckIdle, Others, SteerBegin, SteerMark, SteerTrack, SteerRequeue,
          SteerEnd, CancelDiscard, CancelUnpause
  <2>2. QED  BY <2>1, Zenon DEF Typed, TurnState
<1>21. CASE Enqueue \/ Steer \/ Pause \/ Resume \/ Retry \/ Delete \/ Cancel
  <2>1. UNCHANGED <<turn, steerQ>>
    BY <1>21, Zenon DEF Enqueue, Others, Steer, Pause, Resume, Retry, Delete, Cancel
  <2>2. QED  BY <2>1, Zenon DEF Typed, TurnState
<1>22. CASE RetryTimer \/ RecoverBegin \/ RecoverCommit
  <2>1. UNCHANGED <<turn, steerQ>>
    BY <1>22, Zenon DEF RetryTimer, RecoverBegin, RecoverCommit
  <2>2. QED  BY <2>1, Zenon DEF Typed, TurnState
<1>23. QED  BY <1>1, <1>2, <1>3, <1>4, <1>5, <1>6, <1>7, <1>8, <1>9, <1>10, <1>11, <1>12, <1>13,
      <1>14, <1>15, <1>16, <1>17, <1>18, <1>19, <1>20, <1>21, <1>22, Zenon DEF Next, Dispatcher,
      Turn, Gate, CallStep, User

\* The frontend call and the recovery keep their shape.
LEMMA CallTypeStep ==
    ASSUME Typed, Next
    PROVE  CallState'
<1>1. CASE Restart
  BY <1>1, DispatchAssumption, SMTT(20) DEF Restart, Spend, Uncertain, DispAt, NoTurn, NoCall,
        NoRec, Typed, CallState, CallType, CallPcs, Ownership
<1>2. CASE CheckIdle
  BY <1>2, DispatchAssumption, SMTT(20) DEF CheckIdle, ControllerFree, NoKick, Kick, DispAt,
        NoCall, Others, gateVars, diskVars, Typed, CallState, CallType, CallPcs, Ownership
<1>3. CASE SteerBegin
  <2>1. UNCHANGED rec /\ (call' = NoCall \/ call' = CallAt("mark")) /\ call.item \in Items
    BY <1>3 DEF SteerBegin, Others, Typed, CallState
  <2>2. CallState /\ "mark" \in CallPcs
    BY DEF CallPcs, Typed
  <2>3. CallAt("mark") \in CallType
    BY <2>1, <2>2, CallWith
  <2>4. CallAt("mark").item = call.item
    BY <2>2 DEF CallAt, CallState, CallType
  <2>5. call' \in CallType
    BY <2>1, <2>3, CallIdle
  <2>6. call'.pc # "idle" => call'.item \in Items
    BY <2>1, <2>4 DEF NoCall
  <2>7. QED  BY <2>1, <2>2, <2>5, <2>6 DEF CallState
<1>4. CASE SteerMark
  BY <1>4, DispatchAssumption, SMTT(20) DEF SteerMark, StoreFree, Succeeds, CallAt, NoKick,
        Fails, Spend, Others, gateVars, Typed, CallState, CallType, CallPcs, Ownership
<1>5. CASE SteerAccept
  BY <1>5, DispatchAssumption, SMTT(20) DEF SteerAccept, IntakeOpen, CallAt, NoKick, Others,
        gateVars, diskVars, Typed, CallState, CallType, CallPcs, Ownership
<1>6. CASE SteerTrack
  BY <1>6, DispatchAssumption, SMTT(20) DEF SteerTrack, CallAt, NoKick, Others, gateVars,
        diskVars, Typed, CallState, CallType, CallPcs, Ownership
<1>7. CASE SteerRequeue
  BY <1>7, DispatchAssumption, SMTT(20) DEF SteerRequeue, StoreFree, Succeeds, CallAt, Fails,
        Spend, Others, gateVars, Typed, CallState, CallType, CallPcs, Ownership
<1>8. CASE SteerEnd
  BY <1>8, DispatchAssumption, SMTT(20) DEF SteerEnd, Kick, DispAt, NoKick, NoCall, Others,
        gateVars, diskVars, Typed, CallState, CallType, CallPcs, Ownership
<1>9. CASE CancelDiscard
  <2>1. UNCHANGED rec /\ (call' = NoCall \/ call' = CallAt("unpause")) /\ call.item \in Items
    BY <1>9 DEF CancelDiscard, Others, Typed, CallState
  <2>2. CallState /\ "unpause" \in CallPcs
    BY DEF CallPcs, Typed
  <2>3. CallAt("unpause") \in CallType
    BY <2>1, <2>2, CallWith
  <2>4. CallAt("unpause").item = call.item
    BY <2>2 DEF CallAt, CallState, CallType
  <2>5. call' \in CallType
    BY <2>1, <2>3, CallIdle
  <2>6. call'.pc # "idle" => call'.item \in Items
    BY <2>1, <2>4 DEF NoCall
  <2>7. QED  BY <2>1, <2>2, <2>5, <2>6 DEF CallState
<1>10. CASE CancelUnpause
  BY <1>10, DispatchAssumption, SMTT(20) DEF CancelUnpause, StoreFree, NoCall, Others, gateVars,
        Typed, CallState, CallType, CallPcs, Ownership
<1>11. CASE Enqueue
  <2>1. UNCHANGED rec
    BY <1>11, Zenon DEF Enqueue, Others
  <2>2. PICK how \in {"followup", "steer"} :
          call' = [pc |-> IF how = "followup" THEN "check" ELSE "steer",
                   item |-> enqueued + 1, was |-> FALSE]
    BY <1>11 DEF Enqueue
  <2>3. enqueued + 1 \in Items
    BY <1>11, DispatchAssumption DEF Enqueue, Spend, Typed, Counts, Kinds, Items
  <2>4. (IF how = "followup" THEN "check" ELSE "steer") \in CallPcs
    BY DEF CallPcs
  <2>5. call' \in CallType
    BY <2>2, <2>3, <2>4, CallNew
  <2>6. QED  BY <2>1, <2>2, <2>3, <2>5 DEF Typed, CallState
<1>12. CASE Steer
  <2>1. UNCHANGED rec
    BY <1>12, Zenon DEF Steer, Others
  <2>2. PICK i \in Items : call' = [NoCall EXCEPT !.pc = "steer", !.item = i]
    BY <1>12, Zenon DEF Steer
  <2>3. call' \in CallType /\ call'.item = i
    BY <2>2, CallWith DEF CallPcs, Typed, NoCall
  <2>4. QED  BY <2>1, <2>2, <2>3 DEF Typed, CallState
<1>13. CASE Cancel
  <2>1. UNCHANGED rec
    BY <1>13, Zenon DEF Cancel, Others
  <2>2. PICK i \in Items : call' = [pc |-> "discard", item |-> i, was |-> paused]
    BY <1>13, Zenon DEF Cancel
  <2>3. call' \in CallType /\ call'.item = i
    BY <2>2, CallNew DEF CallPcs, Typed, Flags
  <2>4. QED  BY <2>1, <2>2, <2>3 DEF Typed, CallState
<1>14. CASE RecoverBegin
  BY <1>14, DispatchAssumption, SMTT(20) DEF RecoverBegin, diskVars, gateVars, dispVars,
        historyVars, Typed, CallState, CallType, CallPcs, Ownership
<1>15. CASE RecoverCommit
  BY <1>15, DispatchAssumption, SMTT(20) DEF RecoverCommit, Uncertain, Orphans, NoRec, gateVars,
        dispVars, historyVars, Typed, CallState, CallType, CallPcs, Ownership
<1>16. CASE DispatchLoop \/ DispatchGate \/ DispatchScan \/ DispatchSubmit \/ DispatchClaim
            \/ DispatchAdmit \/ DispatchUnclaim \/ DispatchStart \/ DispatchUntrack
  <2>1. UNCHANGED <<call, rec>>
    BY <1>16, Zenon DEF DispatchLoop, DispatchGate, DispatchScan, DispatchSubmit, DispatchClaim,
          DispatchAdmit, DispatchUnclaim, DispatchStart, DispatchUntrack
  <2>2. QED  BY <2>1, Zenon DEF Typed, CallState, CallType, CallPcs, Ownership
<1>17. CASE AgentStart \/ ConsumeSteer \/ Unapplied \/ CloseIntake \/ FlushMark \/
            FlushUntrack \/ TurnEnd \/ TurnIds \/ TurnSnapshot \/ TurnAck \/ TurnUntrack \/
            TurnDeliver
  <2>1. UNCHANGED <<call, rec>>
    BY <1>17, Zenon DEF AgentStart, ConsumeSteer, Unapplied, GiveUp, CloseIntake, FlushMark,
          FlushUntrack, TurnEnd, TurnIds, TurnSnapshot, TurnAck, TurnUntrack, TurnDeliver
  <2>2. QED  BY <2>1, Zenon DEF Typed, CallState, CallType, CallPcs, Ownership
<1>18. CASE PlainSubmit \/ BeginRotation \/ EndRotation \/ Close \/ Abort
  <2>1. UNCHANGED <<call, rec>>
    BY <1>18, Zenon DEF PlainSubmit, BeginRotation, EndRotation, Close, Abort
  <2>2. QED  BY <2>1, Zenon DEF Typed, CallState, CallType, CallPcs, Ownership
<1>19. CASE Pause \/ Resume \/ Retry \/ Delete
  <2>1. UNCHANGED <<call, rec>>
    BY <1>19, Zenon DEF Pause, Others, Resume, Retry, Delete
  <2>2. QED  BY <2>1, Zenon DEF Typed, CallState, CallType, CallPcs, Ownership
<1>20. CASE RetryTimer
  <2>1. UNCHANGED <<call, rec>>
    BY <1>20, Zenon DEF RetryTimer
  <2>2. QED  BY <2>1, Zenon DEF Typed, CallState, CallType, CallPcs, Ownership
<1>21. QED  BY <1>1, <1>2, <1>3, <1>4, <1>5, <1>6, <1>7, <1>8, <1>9, <1>10, <1>11, <1>12, <1>13,
      <1>14, <1>15, <1>16, <1>17, <1>18, <1>19, <1>20, Zenon DEF Next, Dispatcher, Turn, Gate,
      CallStep, User

\* The budget and the counters keep their shape.
LEMMA CountsStep ==
    ASSUME Typed, Next
    PROVE  Counts'
<1>1. CASE DispatchScan
  <2>1. UNCHANGED <<enqueued, parked>> /\ (UNCHANGED left \/ Spend("faults"))
    BY <1>1, Zenon DEF DispatchScan, Fails, Succeeds, gateVars
  <2>2. QED  BY <2>1, CountsBySpend DEF Typed, Kinds
<1>2. CASE DispatchSubmit
  <2>1. UNCHANGED <<enqueued, parked>> /\ (UNCHANGED left \/ Spend("faults"))
    BY <1>2, Zenon DEF DispatchSubmit, Fails, Succeeds, gateVars
  <2>2. QED  BY <2>1, CountsBySpend DEF Typed, Kinds
<1>3. CASE DispatchClaim
  <2>1. UNCHANGED <<enqueued, parked>> /\ (UNCHANGED left \/ Spend("faults"))
    BY <1>3, Zenon DEF DispatchClaim, Succeeds, Fails, gateVars
  <2>2. QED  BY <2>1, CountsBySpend DEF Typed, Kinds
<1>4. CASE DispatchUnclaim
  <2>1. UNCHANGED <<enqueued, parked>> /\ (UNCHANGED left \/ Spend("faults"))
    BY <1>4, Zenon DEF DispatchUnclaim, Succeeds, Fails, gateVars
  <2>2. QED  BY <2>1, CountsBySpend DEF Typed, Kinds
<1>5. CASE ConsumeSteer
  <2>1. UNCHANGED <<enqueued, parked>> /\ (UNCHANGED left \/ Spend("faults"))
    BY <1>5, Zenon DEF ConsumeSteer, Succeeds, Fails, gateVars
  <2>2. QED  BY <2>1, CountsBySpend DEF Typed, Kinds
<1>6. CASE Unapplied
  <2>1. UNCHANGED <<enqueued, parked>> /\ (UNCHANGED left \/ Spend("faults"))
    BY <1>6, Zenon DEF Unapplied, TryPause, Succeeds, Fails, gateVars
  <2>2. QED  BY <2>1, CountsBySpend DEF Typed, Kinds
<1>7. CASE FlushMark
  <2>1. UNCHANGED <<enqueued, parked>> /\ (UNCHANGED left \/ Spend("faults"))
    BY <1>7, Zenon DEF FlushMark, Succeeds, Fails, gateVars
  <2>2. QED  BY <2>1, CountsBySpend DEF Typed, Kinds
<1>8. CASE FlushUntrack
  <2>1. UNCHANGED <<enqueued, parked>> /\ (UNCHANGED left \/ Spend("faults"))
    BY <1>8, Zenon DEF FlushUntrack, TryPause, Succeeds, Fails, gateVars
  <2>2. QED  BY <2>1, CountsBySpend DEF Typed, Kinds
<1>9. CASE TurnSnapshot
  <2>1. UNCHANGED <<enqueued, parked>> /\ (UNCHANGED left \/ Spend("faults"))
    BY <1>9, Zenon DEF TurnSnapshot, Succeeds, Fails, gateVars
  <2>2. QED  BY <2>1, CountsBySpend DEF Typed, Kinds
<1>10. CASE TurnAck
  <2>1. UNCHANGED <<enqueued, parked>> /\ (UNCHANGED left \/ Spend("faults"))
    BY <1>10, Zenon DEF TurnAck, Succeeds, Fails, gateVars
  <2>2. QED  BY <2>1, CountsBySpend DEF Typed, Kinds
<1>11. CASE TurnDeliver
  BY <1>11, DispatchAssumption, SMTT(20) DEF TurnDeliver, ControllerFree, NoTurn, TurnOf, Kick,
        DispAt, diskVars, Typed, Counts, Kinds
<1>12. CASE PlainSubmit
  BY <1>12, DispatchAssumption, SMTT(20) DEF PlainSubmit, Spend, ControllerFree, TurnOf, NoTurn,
        diskVars, dispVars, historyVars, Typed, Counts, Kinds
<1>13. CASE BeginRotation
  <2>1. UNCHANGED <<enqueued, parked>> /\ (UNCHANGED left \/ Spend("rotations"))
    BY <1>13, Zenon DEF BeginRotation
  <2>2. QED  BY <2>1, CountsBySpend DEF Typed, Kinds
<1>14. CASE Close
  BY <1>14, DispatchAssumption, SMTT(20) DEF Close, Spend, ControllerFree, diskVars, dispVars,
        historyVars, Typed, Counts, Kinds
<1>15. CASE Restart
  BY <1>15, DispatchAssumption, SMTT(20) DEF Restart, Spend, Uncertain, DispAt, NoTurn, NoCall,
        NoRec, Typed, Counts, Kinds
<1>16. CASE Abort
  <2>1. UNCHANGED <<enqueued, parked>> /\ (UNCHANGED left \/ Spend("aborts"))
    BY <1>16, Zenon DEF Abort, gateVars
  <2>2. QED  BY <2>1, CountsBySpend DEF Typed, Kinds
<1>17. CASE SteerMark
  <2>1. UNCHANGED <<enqueued, parked>> /\ (UNCHANGED left \/ Spend("faults"))
    BY <1>17, Zenon DEF SteerMark, Succeeds, Fails, Others, gateVars
  <2>2. QED  BY <2>1, CountsBySpend DEF Typed, Kinds
<1>18. CASE SteerRequeue
  <2>1. UNCHANGED <<enqueued, parked>> /\ (UNCHANGED left \/ Spend("faults"))
    BY <1>18, Zenon DEF SteerRequeue, Succeeds, Fails, Others, gateVars
  <2>2. QED  BY <2>1, CountsBySpend DEF Typed, Kinds
<1>19. CASE Enqueue
  BY <1>19, DispatchAssumption, SMTT(20) DEF Enqueue, StoreFree, Spend, NoKick, Others,
        gateVars, Typed, Counts, Kinds
<1>20. CASE Steer
  <2>1. UNCHANGED <<enqueued, parked>> /\ (UNCHANGED left \/ Spend("ops"))
    BY <1>20, Zenon DEF Steer, Others, gateVars
  <2>2. QED  BY <2>1, CountsBySpend DEF Typed, Kinds
<1>21. CASE Pause
  <2>1. UNCHANGED <<enqueued, parked>> /\ (UNCHANGED left \/ Spend("ops"))
    BY <1>21, Zenon DEF Pause, Others, gateVars
  <2>2. QED  BY <2>1, CountsBySpend DEF Typed, Kinds
<1>22. CASE Resume
  <2>1. UNCHANGED <<enqueued, parked>> /\ (UNCHANGED left \/ Spend("ops"))
    BY <1>22, Zenon DEF Resume, Others, gateVars
  <2>2. QED  BY <2>1, CountsBySpend DEF Typed, Kinds
<1>23. CASE Retry
  <2>1. UNCHANGED <<enqueued, parked>> /\ (UNCHANGED left \/ Spend("ops"))
    BY <1>23, Zenon DEF Retry, Others, gateVars
  <2>2. QED  BY <2>1, CountsBySpend DEF Typed, Kinds
<1>24. CASE Delete
  <2>1. UNCHANGED <<enqueued, parked>> /\ (UNCHANGED left \/ Spend("ops"))
    BY <1>24, Zenon DEF Delete, Others, gateVars
  <2>2. QED  BY <2>1, CountsBySpend DEF Typed, Kinds
<1>25. CASE Cancel
  <2>1. UNCHANGED <<enqueued, parked>> /\ (UNCHANGED left \/ Spend("ops"))
    BY <1>25, Zenon DEF Cancel, Others, gateVars
  <2>2. QED  BY <2>1, CountsBySpend DEF Typed, Kinds
<1>26. CASE DispatchLoop \/ DispatchGate \/ DispatchAdmit \/ DispatchStart \/
            DispatchUntrack
  <2>1. UNCHANGED <<enqueued, parked>> /\ (UNCHANGED left \/ Spend("refusals"))
    BY <1>26, Zenon DEF DispatchLoop, gateVars, DispatchGate, DispatchAdmit, DispatchStart,
          DispatchUntrack, Succeeds
  <2>2. QED  BY <2>1, CountsBySpend DEF Typed, Kinds
<1>27. CASE AgentStart \/ CloseIntake \/ TurnEnd \/ TurnIds \/ TurnUntrack
  <2>1. UNCHANGED <<left, enqueued, parked>>
    BY <1>27, Zenon DEF AgentStart, gateVars, CloseIntake, TurnEnd, TurnIds, TurnUntrack
  <2>2. QED  BY <2>1, Zenon DEF Typed, Counts, Kinds
<1>28. CASE EndRotation
  <2>1. UNCHANGED <<left, enqueued, parked>>
    BY <1>28, Zenon DEF EndRotation
  <2>2. QED  BY <2>1, Zenon DEF Typed, Counts, Kinds
<1>29. CASE CheckIdle \/ SteerBegin \/ SteerAccept \/ SteerTrack \/ SteerEnd \/
            CancelDiscard \/ CancelUnpause
  <2>1. UNCHANGED <<enqueued, parked>> /\ (UNCHANGED left \/ Spend("faults"))
    BY <1>29, Zenon DEF CheckIdle, Others, gateVars, SteerBegin, SteerAccept, SteerTrack,
          SteerEnd, CancelDiscard, CancelUnpause, Succeeds, Fails
  <2>2. QED  BY <2>1, CountsBySpend DEF Typed, Kinds
<1>30. CASE RetryTimer \/ RecoverBegin \/ RecoverCommit
  <2>1. UNCHANGED <<left, enqueued, parked>>
    BY <1>30, Zenon DEF RetryTimer, gateVars, RecoverBegin, RecoverCommit
  <2>2. QED  BY <2>1, Zenon DEF Typed, Counts, Kinds
<1>31. QED  BY <1>1, <1>2, <1>3, <1>4, <1>5, <1>6, <1>7, <1>8, <1>9, <1>10, <1>11, <1>12, <1>13,
      <1>14, <1>15, <1>16, <1>17, <1>18, <1>19, <1>20, <1>21, <1>22, <1>23, <1>24, <1>25, <1>26,
      <1>27, <1>28, <1>29, <1>30, Zenon DEF Next, Dispatcher, Turn, Gate, CallStep, User

\* The history of applications keeps its shape.
LEMMA ApplicationsStep ==
    ASSUME Typed, Next
    PROVE  Applications'
<1>1. CASE DispatchStart
  BY <1>1, ApplyType DEF DispatchStart, Typed, DispatcherState
<1>2. CASE ConsumeSteer
  <2>1. UNCHANGED applied \/ Apply(Head(steerQ))
    BY <1>2, Zenon DEF ConsumeSteer
  <2>2. Head(steerQ) \in Items
    BY <1>2, HeadOfQueue DEF ConsumeSteer, Typed
  <2>3. QED  BY <2>1, <2>2, ApplyType DEF Typed, Applications
<1>3. CASE SteerBegin
  BY <1>3, DispatchAssumption, SMTT(20) DEF SteerBegin, DispatcherAdmits, StoreFree, NoCall,
        NoKick, Kick, DispAt, CallAt, Others, gateVars, Typed, Applications
<1>4. CASE Retry
  BY <1>4, DispatchAssumption, SMTT(20) DEF Retry, Spend, StoreFree, Kick, DispAt, Others,
        gateVars, Typed, Applications
<1>5. CASE DispatchLoop \/ DispatchGate \/ DispatchScan \/ DispatchSubmit \/ DispatchClaim
           \/ DispatchAdmit \/ DispatchUnclaim \/ DispatchUntrack
  <2>1. UNCHANGED <<applied>>
    BY <1>5, Zenon DEF DispatchLoop, historyVars, DispatchGate, DispatchScan, DispatchSubmit,
          DispatchClaim, DispatchAdmit, DispatchUnclaim, DispatchUntrack
  <2>2. QED  BY <2>1, Zenon DEF Typed, Applications
<1>6. CASE AgentStart \/ Unapplied \/ CloseIntake \/ FlushMark \/ FlushUntrack \/ TurnEnd
           \/ TurnIds \/ TurnSnapshot \/ TurnAck \/ TurnUntrack \/ TurnDeliver
  <2>1. UNCHANGED <<applied>>
    BY <1>6, Zenon DEF AgentStart, historyVars, Unapplied, CloseIntake, FlushMark, FlushUntrack,
          TurnEnd, TurnIds, TurnSnapshot, TurnAck, TurnUntrack, TurnDeliver
  <2>2. QED  BY <2>1, Zenon DEF Typed, Applications
<1>7. CASE PlainSubmit \/ BeginRotation \/ EndRotation \/ Close \/ Restart \/ Abort
  <2>1. UNCHANGED <<applied>>
    BY <1>7, Zenon DEF PlainSubmit, historyVars, BeginRotation, EndRotation, Close, Restart,
          Abort
  <2>2. QED  BY <2>1, Zenon DEF Typed, Applications
<1>8. CASE CheckIdle \/ SteerMark \/ SteerAccept \/ SteerTrack \/ SteerRequeue \/ SteerEnd
           \/ CancelDiscard \/ CancelUnpause
  <2>1. UNCHANGED <<applied>>
    BY <1>8, Zenon DEF CheckIdle, Others, SteerMark, SteerAccept, SteerTrack, SteerRequeue,
          SteerEnd, CancelDiscard, CancelUnpause
  <2>2. QED  BY <2>1, Zenon DEF Typed, Applications
<1>9. CASE Enqueue \/ Steer \/ Pause \/ Resume \/ Delete \/ Cancel
  <2>1. UNCHANGED <<applied>>
    BY <1>9, Zenon DEF Enqueue, Others, Steer, Pause, Resume, Delete, Cancel
  <2>2. QED  BY <2>1, Zenon DEF Typed, Applications
<1>10. CASE RetryTimer \/ RecoverBegin \/ RecoverCommit
  <2>1. UNCHANGED <<applied>>
    BY <1>10, Zenon DEF RetryTimer, RecoverBegin, historyVars, RecoverCommit
  <2>2. QED  BY <2>1, Zenon DEF Typed, Applications
<1>11. QED  BY <1>1, <1>2, <1>3, <1>4, <1>5, <1>6, <1>7, <1>8, <1>9, <1>10, Zenon DEF Next,
      Dispatcher, Turn, Gate, CallStep, User

\* Every step keeps the types.
LEMMA TypedStep ==
    ASSUME Typed, Next
    PROVE  Typed'
BY FlagsStep, ManifestStep, OwnershipStep, DispatcherStep, TurnStep, CallTypeStep, CountsStep,
   ApplicationsStep DEF Typed

-----------------------------------------------------------------------------
(* The gate and the locks *)

\* An idle, open gate: no turn, and none about to start.
LEMMA IdleGate ==
    ASSUME Typed, Gated, ~closed, ~running, ~finishing
    PROVE  turn.pc = "none" /\ disp.pc # "start"
<1>1. turn.pc \in TurnPcs
  BY DEF Typed, TurnState, TurnType
<1>2. turn.pc \notin {"ids", "snap", "ack", "untrack", "deliver", "prep", "run", "unapplied", "exit",
                      "flush", "flushed"}
  BY Zenon DEF Gated
<1>3. disp.pc # "start"
  BY Zenon DEF Gated, GateExclusive
<1>4. QED  BY <1>1, <1>2, <1>3 DEF TurnPcs

\* The gate stays exclusive: a turn starts only on an idle, open gate, and the
\* end of a turn hands running over to finishing.
LEMMA GatedStep ==
    ASSUME Typed, Gated, Next
    PROVE  Gated'
<1>1. CASE DispatchLoop
  BY <1>1, DispatchAssumption, SMTT(20) DEF DispatchLoop, DispAt, diskVars, gateVars,
        historyVars, Typed, TurnState, TurnType, DispatcherState, Gated, GateExclusive
<1>2. CASE DispatchGate
  BY <1>2, DispatchAssumption, SMTT(20) DEF DispatchGate, ControllerFree, IdleOrStarted, DispAt,
        Advance, diskVars, gateVars, Typed, TurnState, TurnType, DispatcherState, Gated,
        GateExclusive
<1>3. CASE DispatchScan
  BY <1>3, DispatchAssumption, SMTT(20) DEF DispatchScan, StoreFree, Fails, Spend,
        ScheduleRetry, DispAt, Succeeds, IdleOrStarted, Advance, diskVars, gateVars, Typed,
        TurnState, TurnType, DispatcherState, Gated, GateExclusive
<1>4. CASE DispatchSubmit
  BY <1>4, DispatchAssumption, SMTT(20) DEF DispatchSubmit, StoreFree, SteerAdmits, Fails,
        Spend, Succeeds, ScheduleRetry, DispAt, diskVars, Advance, gateVars, Typed, TurnState,
        TurnType, DispatcherState, Gated, GateExclusive
<1>5. CASE DispatchClaim
  BY <1>5, DispatchAssumption, SMTT(20) DEF DispatchClaim, StoreFree, Succeeds, Advance, DispAt,
        Fails, Spend, ScheduleRetry, gateVars, Typed, TurnState, TurnType, DispatcherState,
        Gated, GateExclusive
<1>6. CASE DispatchAdmit
  <2>1. /\ UNCHANGED <<turn, finishing, rotating, closed>>
        /\ \/ disp' = DispAt("unclaim", disp.item) /\ UNCHANGED running
           \/ ~Busy /\ disp' = DispAt("start", disp.item) /\ running' = TRUE
    BY <1>6, Zenon DEF DispatchAdmit
  <2>2. CASE disp' = DispAt("unclaim", disp.item) /\ UNCHANGED running
    <3>1. disp'.pc # "start"
      BY <2>2 DEF DispAt
    <3>2. QED  BY <2>1, <2>2, <3>1, Zenon DEF Gated, GateExclusive
  <2>3. CASE ~Busy /\ disp' = DispAt("start", disp.item) /\ running' = TRUE
    <3>1. disp'.pc = "start"
      BY <2>3 DEF DispAt
    <3>2. turn.pc = "none"
      BY <2>3, IdleGate DEF Busy
    <3>3. QED  BY <2>1, <2>3, <3>1, <3>2, Zenon DEF Gated, GateExclusive, Busy
  <2>4. QED  BY <2>1, <2>2, <2>3
<1>7. CASE DispatchUnclaim
  BY <1>7, DispatchAssumption, SMTT(20) DEF DispatchUnclaim, StoreFree, Succeeds, IdleOrStarted,
        DispAt, Fails, Spend, ScheduleRetry, gateVars, Typed, TurnState, TurnType,
        DispatcherState, Gated, GateExclusive
<1>8. CASE DispatchStart
  BY <1>8, DispatchAssumption, SMTT(20) DEF DispatchStart, TurnOf, NoTurn, Apply, DispAt,
        diskVars, gateVars, Typed, TurnState, TurnType, DispatcherState, Gated, GateExclusive
<1>9. CASE DispatchUntrack
  BY <1>9, DispatchAssumption, SMTT(20) DEF DispatchUntrack, IdleOrStarted, DispAt, diskVars,
        gateVars, Typed, TurnState, TurnType, DispatcherState, Gated, GateExclusive
<1>10. CASE RetryTimer
  BY <1>10, DispatchAssumption, SMTT(20) DEF RetryTimer, Kick, DispAt, diskVars, gateVars,
        Typed, TurnState, TurnType, DispatcherState, Gated, GateExclusive
<1>11. CASE AgentStart
  BY <1>11, DispatchAssumption, SMTT(20) DEF AgentStart, diskVars, gateVars, dispVars,
        historyVars, Typed, TurnState, TurnType, DispatcherState, Gated, GateExclusive
<1>12. CASE ConsumeSteer
  <2>1. UNCHANGED <<disp, running, finishing, rotating, closed>>
    BY <1>12, Zenon DEF ConsumeSteer, gateVars, dispVars
  <2>2. turn.pc = "run" /\ turn'.pc \in {"run", "unapplied"}
    BY <1>12 DEF ConsumeSteer, Typed, TurnState, TurnType
  <2>3. QED  BY <2>1, <2>2 DEF Gated, GateExclusive
<1>13. CASE Unapplied
  BY <1>13, DispatchAssumption, SMTT(20) DEF Unapplied, StoreFree, TryPause, Succeeds, Fails,
        Spend, GiveUp, gateVars, dispVars, Typed, TurnState, TurnType, DispatcherState, Gated,
        GateExclusive
<1>14. CASE CloseIntake
  BY <1>14, DispatchAssumption, SMTT(20) DEF CloseIntake, MayFinish, diskVars, gateVars,
        dispVars, historyVars, Typed, TurnState, TurnType, DispatcherState, Gated, GateExclusive
<1>15. CASE FlushMark
  BY <1>15, DispatchAssumption, SMTT(20) DEF FlushMark, StoreFree, Succeeds, Uncertain, Fails,
        Spend, gateVars, dispVars, historyVars, Typed, TurnState, TurnType, DispatcherState,
        Gated, GateExclusive
<1>16. CASE FlushUntrack
  BY <1>16, DispatchAssumption, SMTT(20) DEF FlushUntrack, StoreFree, TryPause, Succeeds, Fails,
        Spend, GiveUp, gateVars, dispVars, Typed, TurnState, TurnType, DispatcherState, Gated,
        GateExclusive
<1>17. CASE TurnEnd
  <2>1. UNCHANGED <<disp, rotating, closed>> /\ ~running' /\ (~closed => finishing')
    BY <1>17, Zenon DEF TurnEnd, dispVars
  <2>2. turn.pc \in {"exit", "flush"} /\ turn'.pc = "ids"
    BY <1>17 DEF TurnEnd, Typed, TurnState, TurnType
  <2>3. QED  BY <2>1, <2>2 DEF Gated, GateExclusive
<1>18. CASE TurnIds
  BY <1>18, DispatchAssumption, SMTT(20) DEF TurnIds, diskVars, gateVars, dispVars, historyVars,
        Typed, TurnState, TurnType, DispatcherState, Gated, GateExclusive
<1>19. CASE TurnSnapshot
  BY <1>19, DispatchAssumption, SMTT(20) DEF TurnSnapshot, StoreFree, Succeeds, Fails, Spend,
        Uncertain, gateVars, dispVars, historyVars, Typed, TurnState, TurnType, DispatcherState,
        Gated, GateExclusive
<1>20. CASE TurnAck
  BY <1>20, DispatchAssumption, SMTT(20) DEF TurnAck, StoreFree, Succeeds, Fails, Spend,
        Uncertain, gateVars, dispVars, historyVars, Typed, TurnState, TurnType, DispatcherState,
        Gated, GateExclusive
<1>21. CASE TurnUntrack
  BY <1>21, DispatchAssumption, SMTT(20) DEF TurnUntrack, diskVars, gateVars, dispVars,
        historyVars, Typed, TurnState, TurnType, DispatcherState, Gated, GateExclusive
<1>22. CASE TurnDeliver
  <2>1. UNCHANGED <<rotating, closed>> /\ turn.pc = "deliver"
    BY <1>22, Zenon DEF TurnDeliver
  <2>2. disp.pc # "start" /\ ~(rotating /\ ~closed)
    BY <2>1 DEF Gated, GateExclusive
  <2>3. disp'.pc # "start"
    BY <1>22, <2>2 DEF TurnDeliver, Kick, DispAt
  <2>4. turn' = NoTurn \/ (turn' = TurnOf(None) /\ running')
    BY <1>22, Zenon DEF TurnDeliver
  <2>5. NoTurn.pc = "none" /\ TurnOf(None).pc = "prep"
    BY DEF NoTurn, TurnOf
  <2>6. turn'.pc = "none" \/ (turn'.pc = "prep" /\ running')
    BY <2>4, <2>5, Zenon
  <2>7. QED  BY <2>1, <2>2, <2>3, <2>6 DEF Gated, GateExclusive
<1>23. CASE PlainSubmit
  <2>1. UNCHANGED <<disp, finishing, rotating, closed>> /\ ~closed /\ ~rotating
    BY <1>23, Zenon DEF PlainSubmit, dispVars
  <2>2. CASE running \/ finishing
    <3>1. UNCHANGED <<turn, running>>
      BY <1>23, <2>2, Zenon DEF PlainSubmit
    <3>2. QED  BY <2>1, <3>1, Zenon DEF Gated, GateExclusive
  <2>3. CASE ~(running \/ finishing)
    <3>1. turn'.pc = "prep" /\ running'
      BY <1>23, <2>3 DEF PlainSubmit, TurnOf, NoTurn
    <3>2. disp.pc # "start"
      BY <2>1, <2>3, IdleGate
    <3>3. QED  BY <2>1, <3>1, <3>2 DEF Gated, GateExclusive
  <2>4. QED  BY <2>2, <2>3
<1>24. CASE BeginRotation
  <2>1. UNCHANGED <<disp, turn, running, finishing, closed>> /\ ~running /\ ~finishing
    BY <1>24, Zenon DEF BeginRotation, dispVars
  <2>2. ~closed => turn.pc = "none" /\ disp.pc # "start"
    BY <2>1, IdleGate
  <2>3. QED  BY <2>1, <2>2, Zenon DEF Gated, GateExclusive
<1>25. CASE EndRotation
  BY <1>25, DispatchAssumption, SMTT(20) DEF EndRotation, ControllerFree, Kick, DispAt,
        diskVars, Typed, TurnState, TurnType, DispatcherState, Gated, GateExclusive
<1>26. CASE Close
  BY <1>26, DispatchAssumption, SMTT(20) DEF Close, Spend, ControllerFree, diskVars, dispVars,
        historyVars, Typed, TurnState, TurnType, DispatcherState, Gated, GateExclusive
<1>27. CASE Restart
  BY <1>27, DispatchAssumption, SMTT(20) DEF Restart, Spend, Uncertain, DispAt, NoTurn, NoCall,
        NoRec, Typed, TurnState, TurnType, DispatcherState, Gated, GateExclusive
<1>28. CASE Abort
  BY <1>28, DispatchAssumption, SMTT(20) DEF Abort, Spend, diskVars, gateVars, dispVars,
        historyVars, Typed, TurnState, TurnType, DispatcherState, Gated, GateExclusive
<1>29. CASE CheckIdle
  BY <1>29, DispatchAssumption, SMTT(20) DEF CheckIdle, ControllerFree, NoKick, Kick, DispAt,
        NoCall, Others, gateVars, diskVars, Typed, TurnState, TurnType, DispatcherState, Gated,
        GateExclusive
<1>30. CASE SteerBegin
  BY <1>30, DispatchAssumption, SMTT(20) DEF SteerBegin, DispatcherAdmits, StoreFree, NoCall,
        NoKick, Kick, DispAt, CallAt, Others, gateVars, Typed, TurnState, TurnType,
        DispatcherState, Gated, GateExclusive
<1>31. CASE SteerEnd
  BY <1>31, DispatchAssumption, SMTT(20) DEF SteerEnd, Kick, DispAt, NoKick, NoCall, Others,
        gateVars, diskVars, Typed, TurnState, TurnType, DispatcherState, Gated, GateExclusive
<1>32. CASE Resume
  BY <1>32, DispatchAssumption, SMTT(20) DEF Resume, Spend, StoreFree, Kick, DispAt, Others,
        gateVars, Typed, TurnState, TurnType, DispatcherState, Gated, GateExclusive
<1>33. CASE Retry
  BY <1>33, DispatchAssumption, SMTT(20) DEF Retry, Spend, StoreFree, Kick, DispAt, Others,
        gateVars, Typed, TurnState, TurnType, DispatcherState, Gated, GateExclusive
<1>34. CASE SteerMark \/ SteerAccept \/ SteerTrack \/ SteerRequeue \/ CancelDiscard \/
            CancelUnpause
  <2>1. UNCHANGED <<disp, turn, running, finishing, rotating, closed>>
    BY <1>34, Zenon DEF SteerMark, NoKick, Others, gateVars, SteerAccept, SteerTrack,
          SteerRequeue, CancelDiscard, CancelUnpause
  <2>2. QED  BY <2>1, Zenon DEF Gated, GateExclusive
<1>35. CASE Enqueue \/ Steer \/ Pause \/ Delete \/ Cancel
  <2>1. UNCHANGED <<disp, turn, running, finishing, rotating, closed>>
    BY <1>35, Zenon DEF Enqueue, NoKick, Others, gateVars, Steer, Pause, Delete, Cancel
  <2>2. QED  BY <2>1, Zenon DEF Gated, GateExclusive
<1>36. CASE RecoverBegin \/ RecoverCommit
  <2>1. UNCHANGED <<disp, turn, running, finishing, rotating, closed>>
    BY <1>36, Zenon DEF RecoverBegin, gateVars, dispVars, RecoverCommit
  <2>2. QED  BY <2>1, Zenon DEF Gated, GateExclusive
<1>37. QED  BY <1>1, <1>2, <1>3, <1>4, <1>5, <1>6, <1>7, <1>8, <1>9, <1>10, <1>11, <1>12, <1>13,
      <1>14, <1>15, <1>16, <1>17, <1>18, <1>19, <1>20, <1>21, <1>22, <1>23, <1>24, <1>25, <1>26,
      <1>27, <1>28, <1>29, <1>30, <1>31, <1>32, <1>33, <1>34, <1>35, <1>36, Zenon DEF Next,
      Dispatcher, Turn, Gate, CallStep, User

\* admissionMu excludes the dispatcher and a steer, both publish what they
\* admit, and a recovery that holds the store has seen it.
LEMMA LockedStep ==
    ASSUME Typed, Locked, Next
    PROVE  Locked'
<1>1. CASE DispatchLoop
  BY <1>1, DispatchAssumption, SMTT(20) DEF DispatchLoop, DispAt, diskVars, gateVars,
        historyVars, Typed, CallState, CallType, DispatcherState, Locked, DispatcherAdmits,
        SteerAdmits
<1>2. CASE DispatchGate
  BY <1>2, DispatchAssumption, SMTT(20) DEF DispatchGate, ControllerFree, IdleOrStarted, DispAt,
        Advance, diskVars, gateVars, Typed, CallState, CallType, DispatcherState, Locked,
        DispatcherAdmits, SteerAdmits
<1>3. CASE DispatchScan
  BY <1>3, DispatchAssumption, SMTT(20) DEF DispatchScan, StoreFree, Fails, Spend,
        ScheduleRetry, DispAt, Succeeds, IdleOrStarted, Advance, diskVars, gateVars, Typed,
        CallState, CallType, DispatcherState, Locked, DispatcherAdmits, SteerAdmits
<1>4. CASE DispatchSubmit
  BY <1>4, DispatchAssumption, SMTT(20) DEF DispatchSubmit, StoreFree, SteerAdmits, Fails,
        Spend, Succeeds, ScheduleRetry, DispAt, diskVars, Advance, gateVars, Typed, CallState,
        CallType, DispatcherState, Locked, DispatcherAdmits
<1>5. CASE DispatchClaim
  BY <1>5, DispatchAssumption, SMTT(20) DEF DispatchClaim, StoreFree, Succeeds, Advance, DispAt,
        Fails, Spend, ScheduleRetry, gateVars, Typed, CallState, CallType, DispatcherState,
        Locked, DispatcherAdmits, SteerAdmits
<1>6. CASE DispatchAdmit
  BY <1>6, DispatchAssumption, SMTT(20) DEF DispatchAdmit, ControllerFree, DispAt, diskVars,
        historyVars, Typed, CallState, CallType, DispatcherState, Locked, DispatcherAdmits,
        SteerAdmits
<1>7. CASE DispatchUnclaim
  BY <1>7, DispatchAssumption, SMTT(20) DEF DispatchUnclaim, StoreFree, Succeeds, IdleOrStarted,
        DispAt, Fails, Spend, ScheduleRetry, gateVars, Typed, CallState, CallType,
        DispatcherState, Locked, DispatcherAdmits, SteerAdmits
<1>8. CASE DispatchStart
  BY <1>8, DispatchAssumption, SMTT(20) DEF DispatchStart, TurnOf, NoTurn, Apply, DispAt,
        diskVars, gateVars, Typed, CallState, CallType, DispatcherState, Locked,
        DispatcherAdmits, SteerAdmits
<1>9. CASE DispatchUntrack
  BY <1>9, DispatchAssumption, SMTT(20) DEF DispatchUntrack, IdleOrStarted, DispAt, diskVars,
        gateVars, Typed, CallState, CallType, DispatcherState, Locked, DispatcherAdmits,
        SteerAdmits
<1>10. CASE RetryTimer
  BY <1>10, DispatchAssumption, SMTT(20) DEF RetryTimer, Kick, DispAt, diskVars, gateVars,
        Typed, CallState, CallType, DispatcherState, Locked, DispatcherAdmits, SteerAdmits
<1>11. CASE TurnDeliver
  BY <1>11, DispatchAssumption, SMTT(20) DEF TurnDeliver, ControllerFree, NoTurn, TurnOf, Kick,
        DispAt, diskVars, Typed, CallState, CallType, DispatcherState, Locked, DispatcherAdmits,
        SteerAdmits
<1>12. CASE EndRotation
  BY <1>12, DispatchAssumption, SMTT(20) DEF EndRotation, ControllerFree, Kick, DispAt,
        diskVars, Typed, CallState, CallType, DispatcherState, Locked, DispatcherAdmits,
        SteerAdmits
<1>13. CASE Restart
  BY <1>13, DispatchAssumption, SMTT(20) DEF Restart, Spend, Uncertain, DispAt, NoTurn, NoCall,
        NoRec, Typed, CallState, CallType, DispatcherState, Locked, DispatcherAdmits,
        SteerAdmits
<1>14. CASE CheckIdle
  BY <1>14, DispatchAssumption, SMTT(20) DEF CheckIdle, ControllerFree, NoKick, Kick, DispAt,
        NoCall, Others, gateVars, diskVars, Typed, CallState, CallType, DispatcherState, Locked,
        DispatcherAdmits, SteerAdmits
<1>15. CASE SteerBegin
  BY <1>15, DispatchAssumption, SMTT(20) DEF SteerBegin, DispatcherAdmits, StoreFree, NoCall,
        NoKick, Kick, DispAt, CallAt, Others, gateVars, Typed, CallState, CallType,
        DispatcherState, Locked, SteerAdmits
<1>16. CASE SteerMark
  BY <1>16, DispatchAssumption, SMTT(20) DEF SteerMark, StoreFree, Succeeds, CallAt, NoKick,
        Fails, Spend, Others, gateVars, Typed, CallState, CallType, DispatcherState, Locked,
        DispatcherAdmits, SteerAdmits
<1>17. CASE SteerAccept
  BY <1>17, DispatchAssumption, SMTT(20) DEF SteerAccept, IntakeOpen, CallAt, NoKick, Others,
        gateVars, diskVars, Typed, CallState, CallType, DispatcherState, Locked,
        DispatcherAdmits, SteerAdmits
<1>18. CASE SteerTrack
  BY <1>18, DispatchAssumption, SMTT(20) DEF SteerTrack, CallAt, NoKick, Others, gateVars,
        diskVars, Typed, CallState, CallType, DispatcherState, Locked, DispatcherAdmits,
        SteerAdmits
<1>19. CASE SteerRequeue
  BY <1>19, DispatchAssumption, SMTT(20) DEF SteerRequeue, StoreFree, Succeeds, CallAt, Fails,
        Spend, Others, gateVars, Typed, CallState, CallType, DispatcherState, Locked,
        DispatcherAdmits, SteerAdmits
<1>20. CASE SteerEnd
  BY <1>20, DispatchAssumption, SMTT(20) DEF SteerEnd, Kick, DispAt, NoKick, NoCall, Others,
        gateVars, diskVars, Typed, CallState, CallType, DispatcherState, Locked,
        DispatcherAdmits, SteerAdmits
<1>21. CASE CancelDiscard
  BY <1>21, DispatchAssumption, SMTT(20) DEF CancelDiscard, StoreFree, NoCall, CallAt, NoKick,
        Others, gateVars, Typed, CallState, CallType, DispatcherState, Locked, DispatcherAdmits,
        SteerAdmits
<1>22. CASE CancelUnpause
  BY <1>22, DispatchAssumption, SMTT(20) DEF CancelUnpause, StoreFree, NoCall, Others, gateVars,
        Typed, CallState, CallType, DispatcherState, Locked, DispatcherAdmits, SteerAdmits
<1>23. CASE Enqueue
  BY <1>23, DispatchAssumption, SMTT(20) DEF Enqueue, StoreFree, Spend, NoKick, Others,
        gateVars, Typed, CallState, CallType, DispatcherState, Locked, DispatcherAdmits,
        SteerAdmits
<1>24. CASE Steer
  BY <1>24, DispatchAssumption, SMTT(20) DEF Steer, Spend, NoCall, NoKick, Others, gateVars,
        diskVars, Typed, CallState, CallType, DispatcherState, Locked, DispatcherAdmits,
        SteerAdmits
<1>25. CASE Resume
  BY <1>25, DispatchAssumption, SMTT(20) DEF Resume, Spend, StoreFree, Kick, DispAt, Others,
        gateVars, Typed, CallState, CallType, DispatcherState, Locked, DispatcherAdmits,
        SteerAdmits
<1>26. CASE Retry
  BY <1>26, DispatchAssumption, SMTT(20) DEF Retry, Spend, StoreFree, Kick, DispAt, Others,
        gateVars, Typed, CallState, CallType, DispatcherState, Locked, DispatcherAdmits,
        SteerAdmits
<1>27. CASE Cancel
  BY <1>27, DispatchAssumption, SMTT(20) DEF Cancel, Spend, StoreFree, NoKick, Others, gateVars,
        Typed, CallState, CallType, DispatcherState, Locked, DispatcherAdmits, SteerAdmits
<1>28. CASE RecoverBegin
  BY <1>28, DispatchAssumption, SMTT(20) DEF RecoverBegin, diskVars, gateVars, dispVars,
        historyVars, Typed, CallState, CallType, DispatcherState, Locked, DispatcherAdmits,
        SteerAdmits
<1>29. CASE RecoverCommit
  BY <1>29, DispatchAssumption, SMTT(20) DEF RecoverCommit, Uncertain, Orphans, NoRec, gateVars,
        dispVars, historyVars, Typed, CallState, CallType, DispatcherState, Locked,
        DispatcherAdmits, SteerAdmits
<1>30. CASE AgentStart \/ ConsumeSteer \/ Unapplied \/ CloseIntake \/ FlushMark \/
            FlushUntrack \/ TurnEnd \/ TurnIds \/ TurnSnapshot \/ TurnAck \/ TurnUntrack
  <2>1. UNCHANGED <<disp, call, admitting, rec>>
    BY <1>30, Zenon DEF AgentStart, dispVars, ConsumeSteer, Unapplied, GiveUp, CloseIntake,
          FlushMark, FlushUntrack, TurnEnd, TurnIds, TurnSnapshot, TurnAck, TurnUntrack
  <2>2. QED  BY <2>1, Zenon DEF Locked, DispatcherAdmits, SteerAdmits
<1>31. CASE PlainSubmit \/ BeginRotation \/ Close \/ Abort
  <2>1. UNCHANGED <<disp, call, admitting, rec>>
    BY <1>31, Zenon DEF PlainSubmit, dispVars, BeginRotation, Close, Abort
  <2>2. QED  BY <2>1, Zenon DEF Locked, DispatcherAdmits, SteerAdmits
<1>32. CASE Pause \/ Delete
  <2>1. UNCHANGED <<disp, call, admitting, rec>>
    BY <1>32, Zenon DEF Pause, NoKick, Others, Delete
  <2>2. QED  BY <2>1, Zenon DEF Locked, DispatcherAdmits, SteerAdmits
<1>33. QED  BY <1>1, <1>2, <1>3, <1>4, <1>5, <1>6, <1>7, <1>8, <1>9, <1>10, <1>11, <1>12, <1>13,
      <1>14, <1>15, <1>16, <1>17, <1>18, <1>19, <1>20, <1>21, <1>22, <1>23, <1>24, <1>25, <1>26,
      <1>27, <1>28, <1>29, <1>30, <1>31, <1>32, Zenon DEF Next, Dispatcher, Turn, Gate,
      CallStep, User


-----------------------------------------------------------------------------
(* What the steps do to the turn, its queue and the published ownership *)

\* An empty queue holds nothing.
LEMMA WaitingEmpty ==
    ASSUME steerQ = <<>>
    PROVE  Waiting = {}
BY DEF Waiting

\* Consuming removes at most the head from what waits.
LEMMA WaitingTail ==
    ASSUME TurnState, steerQ # <<>>, steerQ' = Tail(steerQ)
    PROVE  Waiting = Waiting' \cup {Head(steerQ)}
<1>1. steerQ \in Seq(Items) /\ Len(steerQ) \in Nat \ {0}
  BY EmptySeq, LenProperties DEF TurnState
<1>2. Len(steerQ') = Len(steerQ) - 1 /\ \A k \in 1 .. Len(steerQ) - 1 : steerQ'[k] = steerQ[k + 1]
  BY <1>1, HeadTailProperties
<1>3. DOMAIN steerQ = 1 .. Len(steerQ) /\ DOMAIN steerQ' = 1 .. Len(steerQ) - 1
  BY <1>1, <1>2, HeadTailProperties, LenProperties
<1>4. Head(steerQ) = steerQ[1]
  BY <1>1
<1>5. ASSUME NEW k \in DOMAIN steerQ, k # 1
      PROVE  k - 1 \in DOMAIN steerQ' /\ steerQ'[k - 1] = steerQ[k]
  BY <1>1, <1>2, <1>3, <1>5
<1>6. ASSUME NEW k \in DOMAIN steerQ'
      PROVE  k + 1 \in DOMAIN steerQ /\ steerQ'[k] = steerQ[k + 1]
  BY <1>1, <1>2, <1>3, <1>6
<1>7. 1 \in DOMAIN steerQ
  BY <1>1, <1>3
<1>8. ASSUME NEW x \in Waiting
      PROVE  x \in Waiting' \cup {Head(steerQ)}
  <2>1. PICK k \in DOMAIN steerQ : x = steerQ[k]
    BY DEF Waiting
  <2>2. CASE k = 1
    BY <2>1, <2>2, <1>4
  <2>3. CASE k # 1
    BY <2>1, <2>3, <1>5 DEF Waiting
  <2>4. QED  BY <2>2, <2>3
<1>9. ASSUME NEW x \in Waiting'
      PROVE  x \in Waiting
  BY <1>6 DEF Waiting
<1>10. Head(steerQ) \in Waiting
  BY <1>4, <1>7 DEF Waiting
<1>11. QED  BY <1>8, <1>9, <1>10

\* An accepted steer waits.
LEMMA WaitingAppend ==
    ASSUME TurnState, NEW i \in Items, steerQ' = Append(steerQ, i)
    PROVE  Waiting' = Waiting \cup {i}
<1>1. steerQ \in Seq(Items) /\ Len(steerQ) \in Nat
  BY LenProperties DEF TurnState
<1>2. /\ Len(steerQ') = Len(steerQ) + 1
      /\ steerQ'[Len(steerQ) + 1] = i
      /\ \A k \in 1 .. Len(steerQ) : steerQ'[k] = steerQ[k]
  BY <1>1, AppendProperties
<1>3. DOMAIN steerQ = 1 .. Len(steerQ) /\ DOMAIN steerQ' = 1 .. Len(steerQ) + 1
  BY <1>1, <1>2, AppendProperties, LenProperties
<1>4. QED  BY <1>1, <1>2, <1>3 DEF Waiting

\* The turn and the ownership after DispatchStart.
LEMMA DispatchStartEffect ==
    ASSUME Typed, DispatchStart
    PROVE  /\ turn'.pc = "prep" /\ Owned' = {disp.item} /\ turn'.todo = {} /\ turn'.ids = {}
           /\ Waiting' = Waiting /\ active' = active \cup {disp.item} /\ UNCHANGED steerQ
           /\ UNCHANGED <<call, crossed>>
BY DispatchAssumption DEF DispatchStart, TurnOf, NoTurn, DispAt, Typed, TurnState, TurnType,
      Owned, Waiting, DispatcherState

\* The turn and the ownership after AgentStart.
LEMMA AgentStartEffect ==
    ASSUME Typed, AgentStart
    PROVE  /\ turn.pc = "prep" /\ turn'.pc = "run"
           /\ UNCHANGED <<Owned, Waiting, turn.todo, turn.ids, active>> /\ UNCHANGED steerQ
           /\ UNCHANGED <<call, crossed>>
BY DispatchAssumption DEF AgentStart, historyVars, Typed, TurnState, TurnType, Owned, Waiting

\* The turn and the ownership after Unapplied.
LEMMA UnappliedEffect ==
    ASSUME Typed, Unapplied
    PROVE  /\ turn.pc = "unapplied" /\ turn'.pc = "run" /\ turn'.todo = {}
           /\ UNCHANGED <<Owned, Waiting, turn.ids>>
           /\ active' = active \ turn.todo /\ UNCHANGED steerQ
           /\ UNCHANGED <<call>>
           /\ crossed' = crossed \cup {i \in turn.todo : i \in Waiting \/ (call.pc = "active" /\ call.item = i)}
BY DispatchAssumption DEF Unapplied, GiveUp, Typed, TurnState, TurnType, Owned, Waiting

\* The turn and the ownership after CloseIntake.
LEMMA CloseIntakeEffect ==
    ASSUME Typed, CloseIntake
    PROVE  /\ turn.pc = "run" /\ turn'.pc = "exit" /\ steerQ = <<>> /\ Waiting = {}
           /\ UNCHANGED <<Owned, Waiting, turn.todo, turn.ids, active>> /\ UNCHANGED steerQ
           /\ UNCHANGED <<call, crossed>>
BY DispatchAssumption DEF CloseIntake, historyVars, MayFinish, Typed, TurnState, TurnType,
      Owned, Waiting

\* The turn and the ownership after Abort.
LEMMA AbortEffect ==
    ASSUME Typed, Abort
    PROVE  /\ turn.pc \in {"prep", "run"} /\ turn'.pc = "flush" /\ turn'.todo = Waiting /\ Waiting' = {}
           /\ UNCHANGED <<Owned, turn.ids, active>>
           /\ UNCHANGED <<call, crossed>>
BY DispatchAssumption DEF Abort, historyVars, Typed, TurnState, TurnType, Owned, Waiting

\* The turn and the ownership after FlushUntrack.
LEMMA FlushUntrackEffect ==
    ASSUME Typed, FlushUntrack
    PROVE  /\ turn.pc = "flushed" /\ turn'.pc = "flush" /\ turn'.ids = {}
           /\ UNCHANGED <<Owned, Waiting, turn.todo>>
           /\ active' = active \ turn.ids /\ UNCHANGED steerQ
           /\ UNCHANGED <<call>>
           /\ crossed' = crossed \cup {i \in turn.ids : i \in Waiting \/ (call.pc = "active" /\ call.item = i)}
BY DispatchAssumption DEF FlushUntrack, GiveUp, Typed, TurnState, TurnType, Owned, Waiting

\* The turn and the ownership after TurnEnd.
LEMMA TurnEndEffect ==
    ASSUME Typed, TurnEnd
    PROVE  /\ turn.pc = "exit" \/ (turn.pc = "flush" /\ turn.todo = {})
           /\ turn'.pc = "ids"
           /\ UNCHANGED <<Owned, Waiting, turn.todo, turn.ids, active>> /\ UNCHANGED steerQ
           /\ UNCHANGED <<call, crossed>>
BY DispatchAssumption DEF TurnEnd, historyVars, Typed, TurnState, TurnType, Owned, Waiting

\* The turn and the ownership after TurnIds.
LEMMA TurnIdsEffect ==
    ASSUME Typed, TurnIds
    PROVE  /\ turn.pc = "ids" /\ turn'.todo = active /\ turn'.ids = active
           /\ turn'.pc = IF active = {} THEN "deliver" ELSE "snap"
           /\ UNCHANGED <<Owned, Waiting, active>> /\ UNCHANGED steerQ
           /\ UNCHANGED <<call, crossed>>
BY DispatchAssumption DEF TurnIds, historyVars, Typed, TurnState, TurnType, Owned, Waiting

\* The turn and the ownership after TurnSnapshot.
LEMMA TurnSnapshotEffect ==
    ASSUME Typed, TurnSnapshot
    PROVE  /\ turn.pc = "snap" /\ turn'.pc \in {"ack", "untrack"}
           /\ UNCHANGED <<Owned, Waiting, turn.todo, turn.ids, active>> /\ UNCHANGED steerQ
           /\ UNCHANGED <<call, crossed>>
BY DispatchAssumption DEF TurnSnapshot, Uncertain, historyVars, Typed, TurnState, TurnType,
      Owned, Waiting

\* The turn and the ownership after TurnUntrack.
LEMMA TurnUntrackEffect ==
    ASSUME Typed, TurnUntrack
    PROVE  /\ turn.pc = "untrack" /\ turn'.pc = "deliver" /\ active' = active \ turn.ids
           /\ UNCHANGED <<Owned, Waiting, turn.todo, turn.ids>> /\ UNCHANGED steerQ
           /\ UNCHANGED <<call, crossed>>
BY DispatchAssumption DEF TurnUntrack, historyVars, Typed, TurnState, TurnType, Owned, Waiting

\* consumeSteer moves the head into the turn, or sets it aside to be given up.
LEMMA ConsumeSteerEffect ==
    ASSUME Typed, ConsumeSteer
    PROVE  LET i == Head(steerQ) IN
           /\ i \in Items /\ i \in Waiting /\ Waiting = Waiting' \cup {i}
           /\ turn.pc = "run" /\ steerQ # <<>> /\ steerQ' = Tail(steerQ)
           /\ turn'.ids = turn.ids
           /\ \/ turn'.pc = "run" /\ Owned' = Owned \cup {i} /\ turn'.todo = turn.todo
              \/ turn'.pc = "unapplied" /\ Owned' = Owned /\ turn'.todo = {i}
           /\ UNCHANGED <<active, call, crossed>>
<1> DEFINE i == Head(steerQ)
<1>1. turn.pc = "run" /\ steerQ # <<>> /\ steerQ' = Tail(steerQ) /\ UNCHANGED <<active, call, crossed>>
  BY Zenon DEF ConsumeSteer
<1>2. i \in Items
  BY <1>1, HeadOfQueue DEF Typed
<1>3. Waiting = Waiting' \cup {i}
  BY <1>1, WaitingTail DEF Typed
<1>4. \/ turn' = [turn EXCEPT !.steers = @ \cup {i}]
      \/ turn' = [turn EXCEPT !.pc = "unapplied", !.todo = {i}]
  BY Zenon DEF ConsumeSteer
<1> HIDE DEF i
<1>5. i # None
  BY <1>2, DispatchAssumption
<1>6. /\ turn'.ids = turn.ids
      /\ \/ turn'.pc = "run" /\ Owned' = Owned \cup {i} /\ turn'.todo = turn.todo
         \/ turn'.pc = "unapplied" /\ Owned' = Owned /\ turn'.todo = {i}
  BY <1>1, <1>4, <1>5 DEF Typed, TurnState, TurnType, Owned
<1>7. QED  BY <1>1, <1>2, <1>3, <1>6 DEF i

\* One entry of the flush is marked and becomes the one to give up.
LEMMA FlushMarkEffect ==
    ASSUME Typed, FlushMark
    PROVE  \E i \in turn.todo :
           /\ turn.pc = "flush" /\ turn'.pc = "flushed"
           /\ turn'.todo = turn.todo \ {i} /\ turn'.ids = {i}
           /\ UNCHANGED <<Owned, Waiting, steerQ, active, call, crossed>>
           /\ st' = Uncertain({i}) \/ UNCHANGED st
<1>1. PICK i \in turn.todo :
        /\ turn' = [turn EXCEPT !.pc = "flushed", !.todo = @ \ {i}, !.ids = {i}]
        /\ st' = Uncertain({i}) \/ UNCHANGED st
  BY Zenon DEF FlushMark
<1>2. turn.pc = "flush" /\ UNCHANGED <<steerQ, active, call, crossed>>
  BY Zenon DEF FlushMark, historyVars
<1>3. UNCHANGED Waiting
  BY <1>2 DEF Waiting
<1>4. turn'.pc = "flushed" /\ turn'.todo = turn.todo \ {i} /\ turn'.ids = {i} /\ UNCHANGED Owned
  BY <1>1 DEF Typed, TurnState, TurnType, Owned
<1>5. QED  BY <1>1, <1>2, <1>3, <1>4

\* One entry is acknowledged, or left for review.
LEMMA TurnAckEffect ==
    ASSUME Typed, TurnAck
    PROVE  \E i \in turn.todo :
           /\ turn.pc = "ack" /\ turn'.todo = turn.todo \ {i}
           /\ turn'.pc \in {"ack", "untrack"}
           /\ UNCHANGED <<Owned, Waiting, steerQ, turn.ids, active, call, crossed>>
           /\ st' = [st EXCEPT ![i] = "none"] \/ st' = Uncertain({i}) \/ UNCHANGED st
<1>1. PICK i \in turn.todo :
        /\ turn' = [turn EXCEPT !.todo = @ \ {i},
                                !.pc = IF turn.todo = {i} THEN "untrack" ELSE "ack"]
        /\ st' = [st EXCEPT ![i] = "none"] \/ st' = Uncertain({i}) \/ UNCHANGED st
  BY Zenon DEF TurnAck
<1>2. turn.pc = "ack" /\ UNCHANGED <<steerQ, active, call, crossed>>
  BY Zenon DEF TurnAck, historyVars
<1>3. UNCHANGED Waiting
  BY <1>2 DEF Waiting
<1>4. /\ turn'.todo = turn.todo \ {i} /\ turn'.pc \in {"ack", "untrack"}
      /\ UNCHANGED <<Owned, turn.ids>>
  BY <1>1 DEF Typed, TurnState, TurnType, Owned
<1>5. QED  BY <1>1, <1>2, <1>3, <1>4

\* A new turn, or none: it owns no entry and has nothing to give up.
LEMMA NewTurnEffect ==
    ASSUME turn' = NoTurn \/ turn' = TurnOf(None)
    PROVE  /\ turn'.pc \in {"none", "prep"} /\ Owned' = {}
           /\ turn'.todo = {} /\ turn'.ids = {}
<1>1. /\ NoTurn.pc = "none" /\ NoTurn.item = None /\ NoTurn.steers = {}
      /\ NoTurn.todo = {} /\ NoTurn.ids = {}
  BY DEF NoTurn
<1>2. /\ TurnOf(None).pc = "prep" /\ TurnOf(None).item = None /\ TurnOf(None).steers = {}
      /\ TurnOf(None).todo = {} /\ TurnOf(None).ids = {}
  BY DEF NoTurn, TurnOf
<1>3. CASE turn' = NoTurn
  BY <1>1, <1>3 DEF Owned
<1>4. CASE turn' = TurnOf(None)
  BY <1>2, <1>4 DEF Owned
<1>5. QED  BY <1>3, <1>4

\* A call that is not between its two registrations.
LEMMA FramedByCall ==
    ASSUME Framed, UNCHANGED <<turn, steerQ, active, crossed>>,
           UNCHANGED call \/ call'.pc # "active"
    PROVE  Framed'
<1>1. UNCHANGED <<Owned, Waiting>>
  BY DEF Owned, Waiting
<1>2. QED  BY <1>1 DEF Framed, Known

\* What is registered as owned belongs to the turn, and nothing outlives it.
LEMMA FramedStep ==
    ASSUME Typed, Gated, Framed, Next
    PROVE  Framed'
<1>1. CASE DispatchStart
  BY <1>1, DispatchStartEffect, WaitingEmpty, DispatchAssumption DEF Framed, Known, DispatchStart, Gated, GateExclusive
<1>2. CASE AgentStart
  BY <1>2, AgentStartEffect, WaitingEmpty DEF Framed, Known
<1>3. CASE ConsumeSteer
  <2> DEFINE i == Head(steerQ)
  <2>1. /\ Waiting = Waiting' \cup {i}
        /\ turn.pc = "run" /\ turn'.ids = turn.ids /\ UNCHANGED <<active, call, crossed>>
        /\ \/ turn'.pc = "run" /\ Owned' = Owned \cup {i} /\ turn'.todo = turn.todo
           \/ turn'.pc = "unapplied" /\ Owned' = Owned /\ turn'.todo = {i}
    BY <1>3, ConsumeSteerEffect
  <2> HIDE DEF i
  <2>2. QED  BY <2>1 DEF Framed, Known
<1>4. CASE Unapplied
  BY <1>4, UnappliedEffect, WaitingEmpty DEF Framed, Known
<1>5. CASE CloseIntake
  BY <1>5, CloseIntakeEffect, WaitingEmpty DEF Framed, Known
<1>6. CASE FlushMark
  BY <1>6, FlushMarkEffect DEF Framed, Known
<1>7. CASE FlushUntrack
  BY <1>7, FlushUntrackEffect, WaitingEmpty DEF Framed, Known
<1>8. CASE TurnEnd
  BY <1>8, TurnEndEffect, WaitingEmpty DEF Framed, Known, TurnEnd, ControllerFree
<1>9. CASE TurnIds
  BY <1>9, TurnIdsEffect, WaitingEmpty DEF Framed, Known
<1>10. CASE TurnSnapshot
  BY <1>10, TurnSnapshotEffect, WaitingEmpty DEF Framed, Known
<1>11. CASE TurnAck
  BY <1>11, TurnAckEffect DEF Framed, Known
<1>12. CASE TurnUntrack
  BY <1>12, TurnUntrackEffect, WaitingEmpty DEF Framed, Known
<1>13. CASE TurnDeliver
  <2>1. turn.pc = "deliver" /\ UNCHANGED <<steerQ, active, call, crossed>> /\ call.pc # "active"
    BY <1>13, Zenon DEF TurnDeliver, ControllerFree
  <2>2. turn' = NoTurn \/ turn' = TurnOf(None)
    BY <1>13, Zenon DEF TurnDeliver
  <2>3. QED  BY <2>1, <2>2, NewTurnEffect DEF Framed, Known
<1>14. CASE PlainSubmit
  <2>1. UNCHANGED <<steerQ, active, call, crossed>> /\ call.pc # "active" /\ ~closed
    BY <1>14, Zenon DEF PlainSubmit, historyVars, ControllerFree
  <2>2. CASE UNCHANGED turn
    BY <2>1, <2>2, FramedByCall
  <2>3. CASE ~running /\ ~finishing /\ turn' = TurnOf(None)
    <3>1. turn.pc = "none"
      BY <2>1, <2>3, IdleGate
    <3>2. QED  BY <2>1, <2>3, <3>1, NewTurnEffect DEF Framed, Known
  <2>4. QED  BY <1>14, <2>2, <2>3, Zenon DEF PlainSubmit
<1>15. CASE Restart
  <2>1. turn' = NoTurn /\ steerQ' = <<>> /\ active' = {} /\ call'.pc # "active"
    BY <1>15 DEF Restart, NoCall
  <2>2. turn'.pc = "none"
    BY <2>1 DEF NoTurn
  <2>3. QED  BY <2>1, <2>2, NewTurnEffect DEF Framed
<1>16. CASE Abort
  <2>1. steerQ' = <<>>
    BY <1>16, Zenon DEF Abort
  <2>2. QED  BY <1>16, <2>1, AbortEffect, WaitingEmpty DEF Framed, Known
<1>17. CASE CheckIdle
  <2>1. UNCHANGED <<turn, steerQ, active, crossed>>
    BY <1>17, Zenon DEF CheckIdle, Others
  <2>2. call'.pc # "active"
    BY <1>17 DEF CheckIdle, NoCall, Typed, CallState, CallType
  <2>3. QED  BY <2>1, <2>2, FramedByCall
<1>18. CASE SteerBegin
  <2>1. UNCHANGED <<turn, steerQ, active, crossed>>
    BY <1>18, Zenon DEF SteerBegin, Others
  <2>2. call'.pc # "active"
    BY <1>18 DEF SteerBegin, NoCall, CallAt, Typed, CallState, CallType
  <2>3. QED  BY <2>1, <2>2, FramedByCall
<1>19. CASE SteerMark
  <2>1. UNCHANGED <<turn, steerQ, active, crossed>>
    BY <1>19, Zenon DEF SteerMark, Others
  <2>2. call'.pc # "active"
    BY <1>19 DEF SteerMark, CallAt, Typed, CallState, CallType
  <2>3. QED  BY <2>1, <2>2, FramedByCall
<1>20. CASE SteerAccept
  <2>1. UNCHANGED <<turn, active, crossed>> /\ call.pc = "accept"
    BY <1>20, Zenon DEF SteerAccept, Others
  <2>2. CASE UNCHANGED steerQ /\ call' = CallAt("requeue")
    <3>1. call'.pc # "active"
      BY <2>2 DEF CallAt, Typed, CallState, CallType
    <3>2. QED  BY <2>1, <2>2, <3>1, FramedByCall
  <2>3. CASE IntakeOpen /\ steerQ' = Append(steerQ, call.item) /\ call' = CallAt("active")
    <3>1. call.item \in Items /\ call'.item = call.item
      BY <2>1, <2>3 DEF Typed, CallState, CallType, CallAt
    <3>2. Waiting' = Waiting \cup {call.item} /\ Owned' = Owned
      BY <2>1, <2>3, <3>1, WaitingAppend DEF Owned, Typed
    <3>3. QED  BY <2>1, <2>3, <3>1, <3>2 DEF Framed, Known, IntakeOpen
  <2>4. QED  BY <1>20, <2>2, <2>3, Zenon DEF SteerAccept
<1>21. CASE SteerTrack
  <2>1. /\ UNCHANGED <<turn, steerQ, crossed>> /\ call.pc = "active"
        /\ active' = active \cup {call.item} /\ call' = CallAt("end")
    BY <1>21, Zenon DEF SteerTrack, Others
  <2>2. call'.pc = "end"
    BY <2>1 DEF CallAt, Typed, CallState, CallType
  <2>3. UNCHANGED <<Owned, Waiting>>
    BY <2>1 DEF Owned, Waiting
  <2>4. QED  BY <2>1, <2>2, <2>3 DEF Framed, Known
<1>22. CASE SteerRequeue
  <2>1. UNCHANGED <<turn, steerQ, active, crossed>>
    BY <1>22, Zenon DEF SteerRequeue, Others
  <2>2. call'.pc # "active"
    BY <1>22 DEF SteerRequeue, CallAt, Typed, CallState, CallType
  <2>3. QED  BY <2>1, <2>2, FramedByCall
<1>23. CASE SteerEnd
  <2>1. UNCHANGED <<turn, steerQ, active, crossed>>
    BY <1>23, Zenon DEF SteerEnd, Others
  <2>2. call'.pc # "active"
    BY <1>23 DEF SteerEnd, NoCall, Typed, CallState, CallType
  <2>3. QED  BY <2>1, <2>2, FramedByCall
<1>24. CASE CancelDiscard
  <2>1. UNCHANGED <<turn, steerQ, active, crossed>>
    BY <1>24, Zenon DEF CancelDiscard, Others
  <2>2. call'.pc # "active"
    BY <1>24 DEF CancelDiscard, NoCall, CallAt, Typed, CallState, CallType
  <2>3. QED  BY <2>1, <2>2, FramedByCall
<1>25. CASE CancelUnpause
  <2>1. UNCHANGED <<turn, steerQ, active, crossed>>
    BY <1>25, Zenon DEF CancelUnpause, Others
  <2>2. call'.pc # "active"
    BY <1>25 DEF CancelUnpause, NoCall, Typed, CallState, CallType
  <2>3. QED  BY <2>1, <2>2, FramedByCall
<1>26. CASE Enqueue
  <2>1. UNCHANGED <<turn, steerQ, active, crossed>>
    BY <1>26, Zenon DEF Enqueue, Others
  <2>2. call'.pc # "active"
    BY <1>26 DEF Enqueue, Typed, CallState, CallType
  <2>3. QED  BY <2>1, <2>2, FramedByCall
<1>27. CASE Steer
  <2>1. UNCHANGED <<turn, steerQ, active, crossed>>
    BY <1>27, Zenon DEF Steer, Others
  <2>2. call'.pc # "active"
    BY <1>27 DEF Steer, NoCall, Typed, CallState, CallType
  <2>3. QED  BY <2>1, <2>2, FramedByCall
<1>28. CASE Cancel
  <2>1. UNCHANGED <<turn, steerQ, active, crossed>>
    BY <1>28, Zenon DEF Cancel, Others
  <2>2. call'.pc # "active"
    BY <1>28 DEF Cancel, Typed, CallState, CallType
  <2>3. QED  BY <2>1, <2>2, FramedByCall
<1>29. CASE DispatchLoop \/ DispatchGate \/ DispatchScan \/ DispatchSubmit \/ DispatchClaim
            \/ DispatchAdmit \/ DispatchUnclaim \/ DispatchUntrack
  <2>1. UNCHANGED <<turn, steerQ, active, call, crossed>>
    BY <1>29, Zenon DEF DispatchLoop, historyVars, DispatchGate, DispatchScan, DispatchSubmit,
          DispatchClaim, DispatchAdmit, DispatchUnclaim, DispatchUntrack
  <2>2. QED  BY <2>1, FramedByCall
<1>30. CASE BeginRotation \/ EndRotation \/ Close
  <2>1. UNCHANGED <<turn, steerQ, active, call, crossed>>
    BY <1>30, Zenon DEF BeginRotation, historyVars, EndRotation, Close
  <2>2. QED  BY <2>1, FramedByCall
<1>31. CASE Pause \/ Resume \/ Retry \/ Delete
  <2>1. UNCHANGED <<turn, steerQ, active, call, crossed>>
    BY <1>31, Zenon DEF Pause, Others, Resume, Retry, Delete
  <2>2. QED  BY <2>1, FramedByCall
<1>32. CASE RetryTimer \/ RecoverBegin \/ RecoverCommit
  <2>1. UNCHANGED <<turn, steerQ, active, call, crossed>>
    BY <1>32, Zenon DEF RetryTimer, RecoverBegin, historyVars, RecoverCommit
  <2>2. QED  BY <2>1, FramedByCall
<1>33. QED  BY <1>1, <1>2, <1>3, <1>4, <1>5, <1>6, <1>7, <1>8, <1>9, <1>10, <1>11, <1>12, <1>13,
      <1>14, <1>15, <1>16, <1>17, <1>18, <1>19, <1>20, <1>21, <1>22, <1>23, <1>24, <1>25, <1>26,
      <1>27, <1>28, <1>29, <1>30, <1>31, <1>32, Zenon DEF Next, Dispatcher, Turn, Gate,
      CallStep, User


-----------------------------------------------------------------------------
(* One holder for each entry, and one application *)

\* Steps that hand no entry over.
LEMMA SoundQuiet ==
    ASSUME Sound, UNCHANGED <<st, turn, steerQ, active, crossed, enqueued, applied>>,
           UNCHANGED disp \/ disp'.pc \notin {"admit", "unclaim", "start"},
           \/ UNCHANGED call
           \/ call.pc # "active" /\ call'.pc \notin {"mark", "accept", "requeue"}
    PROVE  Sound'
<1>1. UNCHANGED <<Owned, Waiting, Executing>>
  BY DEF Owned, Waiting, Executing
<1>2. SUFFICES ASSUME NEW i \in Items \ crossed
               PROVE  (Held(i) /\ Single(i) /\ Fresh(i))'
  BY DEF Sound
<1>3. Held(i) /\ Single(i) /\ Fresh(i)
  BY DEF Sound
<1>4. Held(i)'
  BY <1>1, <1>3 DEF Held, HeldByDispatcher, HeldByCall, HeldByTurn
<1>5. Single(i)'
  BY <1>3 DEF Single
<1>6. Fresh(i)'
  BY <1>1, <1>3 DEF Fresh, HeldByDispatcher, HeldByCall
<1>7. QED  BY <1>4, <1>5, <1>6

\* After its head is consumed, that entry waits no more.
LEMMA SingleTail ==
    ASSUME TurnState, steerQ # <<>>, steerQ' = Tail(steerQ), NEW i, Single(i)
    PROVE  Single(i)' /\ (i = Head(steerQ) => i \notin Waiting')
<1>1. steerQ \in Seq(Items) /\ Len(steerQ) \in Nat \ {0}
  BY EmptySeq, LenProperties DEF TurnState
<1>2. Len(steerQ') = Len(steerQ) - 1 /\ \A k \in 1 .. Len(steerQ) - 1 : steerQ'[k] = steerQ[k + 1]
  BY <1>1, HeadTailProperties
<1>3. DOMAIN steerQ = 1 .. Len(steerQ) /\ DOMAIN steerQ' = 1 .. Len(steerQ) - 1
  BY <1>1, <1>2, HeadTailProperties, LenProperties
<1>4. Head(steerQ) = steerQ[1] /\ 1 \in DOMAIN steerQ
  BY <1>1, <1>3
<1>5. ASSUME NEW k \in DOMAIN steerQ'
      PROVE  k \in Nat /\ k + 1 # 1 /\ k + 1 \in DOMAIN steerQ /\ steerQ'[k] = steerQ[k + 1]
  BY <1>1, <1>2, <1>3, <1>5
<1>6. ASSUME NEW k \in DOMAIN steerQ', NEW l \in DOMAIN steerQ', steerQ'[k] = i, steerQ'[l] = i
      PROVE  k = l
  <2>1. k + 1 = l + 1
    BY <1>5, <1>6 DEF Single
  <2>2. QED  BY <2>1, <1>5
<1>7. ASSUME i = Head(steerQ), NEW k \in DOMAIN steerQ'
      PROVE  steerQ'[k] # i
  BY <1>4, <1>5, <1>7 DEF Single
<1>8. Single(i)'
  BY <1>6 DEF Single
<1>9. i = Head(steerQ) => i \notin Waiting'
  BY <1>7 DEF Waiting
<1>10. QED  BY <1>8, <1>9

\* An entry that did not wait waits once after it is appended.
LEMMA SingleAppend ==
    ASSUME TurnState, NEW j \in Items, steerQ' = Append(steerQ, j),
           NEW i, Single(i), i = j => i \notin Waiting
    PROVE  Single(i)'
<1>1. steerQ \in Seq(Items) /\ Len(steerQ) \in Nat
  BY LenProperties DEF TurnState
<1>2. /\ Len(steerQ') = Len(steerQ) + 1
      /\ steerQ'[Len(steerQ) + 1] = j
      /\ \A k \in 1 .. Len(steerQ) : steerQ'[k] = steerQ[k]
  BY <1>1, AppendProperties
<1>3. DOMAIN steerQ = 1 .. Len(steerQ) /\ DOMAIN steerQ' = 1 .. Len(steerQ) + 1
  BY <1>1, <1>2, AppendProperties, LenProperties
<1>4. i = j => \A k \in DOMAIN steerQ : steerQ[k] # i
  BY DEF Waiting
<1>5. QED  BY <1>1, <1>2, <1>3, <1>4 DEF Single

\* Every step leaves each entry with one holder, in flight while it has one,
\* and not applied twice.
LEMMA SoundStep ==
    ASSUME IInv, Next
    PROVE  Sound'
<1> USE DEF IInv
<1>1. CASE DispatchLoop
  <2>1. UNCHANGED <<st, turn, steerQ, active, crossed, enqueued, applied>>
    BY <1>1, Zenon DEF DispatchLoop, diskVars, gateVars, historyVars
  <2>2. UNCHANGED disp \/ disp'.pc \notin {"admit", "unclaim", "start"}
    BY <1>1 DEF DispatchLoop, DispAt
  <2>3. UNCHANGED call
    BY <1>1, Zenon DEF DispatchLoop
  <2>4. QED  BY <2>1, <2>2, <2>3, SoundQuiet
<1>2. CASE DispatchGate
  <2>1. UNCHANGED <<st, turn, steerQ, active, crossed, enqueued, applied>>
    BY <1>2, Zenon DEF DispatchGate, diskVars, gateVars
  <2>2. UNCHANGED disp \/ disp'.pc \notin {"admit", "unclaim", "start"}
    BY <1>2 DEF DispatchGate, IdleOrStarted, DispAt, Advance
  <2>3. UNCHANGED call
    BY <1>2, Zenon DEF DispatchGate
  <2>4. QED  BY <2>1, <2>2, <2>3, SoundQuiet
<1>3. CASE DispatchScan
  <2>1. UNCHANGED <<st, turn, steerQ, active, crossed, enqueued, applied>>
    BY <1>3, Zenon DEF DispatchScan, diskVars, gateVars
  <2>2. UNCHANGED disp \/ disp'.pc \notin {"admit", "unclaim", "start"}
    BY <1>3 DEF DispatchScan, ScheduleRetry, DispAt, IdleOrStarted, Advance
  <2>3. UNCHANGED call
    BY <1>3, Zenon DEF DispatchScan
  <2>4. QED  BY <2>1, <2>2, <2>3, SoundQuiet
<1>4. CASE DispatchSubmit
  <2>1. UNCHANGED <<turn, steerQ, active, crossed, enqueued, applied, call>> /\ disp.item \in Items
    BY <1>4, Zenon DEF DispatchSubmit, Typed, DispatcherState
  <2>2. disp'.pc \notin {"admit", "unclaim", "start"}
    BY <1>4 DEF DispatchSubmit, ScheduleRetry, Advance, DispAt
  <2>3. call.pc # "mark"
    BY <1>4 DEF DispatchSubmit, SteerAdmits
  <2>4. \/ UNCHANGED st
        \/ st[disp.item] = "queued" /\ st' = [st EXCEPT ![disp.item] = "blocked"]
    BY <1>4, Zenon DEF DispatchSubmit, diskVars
  <2>5. UNCHANGED <<Owned, Waiting, Executing>>
    BY <2>1 DEF Owned, Waiting, Executing
  <2>6. SUFFICES ASSUME NEW i \in Items, i \notin crossed'
                 PROVE  (Held(i) /\ Single(i) /\ Fresh(i))'
    BY DEF Sound
  <2>7. i \notin crossed /\ Held(i) /\ Single(i) /\ Fresh(i)
    BY <2>1, <2>6 DEF Sound
  <2>8. Held(i)'
    BY <2>1, <2>2, <2>3, <2>4, <2>5, <2>7 DEF Held, HeldByDispatcher, HeldByCall, HeldByTurn,
          Typed, Manifest, InFlight
  <2>9. Single(i)'
    BY <2>1, <2>7 DEF Single
  <2>10. Fresh(i)'
    BY <2>1, <2>2, <2>3, <2>4, <2>5, <2>7 DEF Fresh, Held, HeldByDispatcher, HeldByCall,
          HeldByTurn, Typed, Manifest
  <2>11. QED  BY <2>8, <2>9, <2>10
<1>5. CASE DispatchClaim
  <2>1. UNCHANGED <<turn, steerQ, active, crossed, enqueued, applied, call>> /\ disp.item \in Items
    BY <1>5, Zenon DEF DispatchClaim, Typed, DispatcherState
  <2>2. call.pc # "mark"
    BY <1>5 DEF DispatchClaim, Locked, DispatcherAdmits, SteerAdmits
  <2>3. \/ UNCHANGED st /\ disp' = DispAt("loop", None)
        \/ /\ st[disp.item] = "queued" /\ st' = [st EXCEPT ![disp.item] = "running"]
           /\ disp' = DispAt("admit", disp.item)
    BY <1>5, Zenon DEF DispatchClaim, ScheduleRetry, Advance
  <2>4. UNCHANGED <<Owned, Waiting, Executing>>
    BY <2>1 DEF Owned, Waiting, Executing
  <2>5. SUFFICES ASSUME NEW i \in Items, i \notin crossed'
                 PROVE  (Held(i) /\ Single(i) /\ Fresh(i))'
    BY DEF Sound
  <2>6. i \notin crossed /\ Held(i) /\ Single(i) /\ Fresh(i)
    BY <2>1, <2>5 DEF Sound
  <2>7. Held(i)'
    BY <2>1, <2>2, <2>3, <2>4, <2>6 DEF Held, HeldByDispatcher, HeldByCall, HeldByTurn, Typed,
          Manifest, InFlight, DispAt
  <2>8. Single(i)'
    BY <2>1, <2>6 DEF Single
  <2>9. Fresh(i)'
    BY <2>1, <2>2, <2>3, <2>4, <2>6 DEF Fresh, Held, HeldByDispatcher, HeldByCall, HeldByTurn,
          Typed, Manifest, InFlight, DispAt
  <2>10. QED  BY <2>7, <2>8, <2>9
<1>6. CASE DispatchAdmit
  <2>1. UNCHANGED <<st, turn, steerQ, active, crossed, enqueued, applied, call>> /\ disp.pc = "admit"
    BY <1>6, Zenon DEF DispatchAdmit, diskVars, historyVars
  <2>2. disp'.pc \in {"unclaim", "start"} /\ disp'.item = disp.item
    BY <1>6 DEF DispatchAdmit, DispAt
  <2>3. UNCHANGED <<Owned, Waiting, Executing>>
    BY <2>1 DEF Owned, Waiting, Executing
  <2>4. SUFFICES ASSUME NEW i \in Items, i \notin crossed'
                 PROVE  (Held(i) /\ Single(i) /\ Fresh(i))'
    BY DEF Sound
  <2>5. i \notin crossed /\ Held(i) /\ Single(i) /\ Fresh(i)
    BY <2>1, <2>4 DEF Sound
  <2>6. Held(i)'
    BY <2>1, <2>2, <2>3, <2>5 DEF Held, HeldByDispatcher, HeldByCall, HeldByTurn
  <2>7. Single(i)'
    BY <2>1, <2>5 DEF Single
  <2>8. Fresh(i)'
    BY <2>1, <2>2, <2>3, <2>5 DEF Fresh, Held, HeldByDispatcher, HeldByCall, HeldByTurn
  <2>9. QED  BY <2>6, <2>7, <2>8
<1>7. CASE DispatchUnclaim
  <2>1. UNCHANGED <<turn, steerQ, active, crossed, enqueued, applied, call>> /\ disp.pc = "unclaim" /\ disp.item \in Items
    BY <1>7, Zenon DEF DispatchUnclaim, Typed, DispatcherState
  <2>2. disp'.pc = "loop"
    BY <1>7 DEF DispatchUnclaim, ScheduleRetry, IdleOrStarted, DispAt
  <2>3. call.pc \notin {"mark", "accept", "requeue"}
    BY <1>7 DEF DispatchUnclaim, Locked, DispatcherAdmits, SteerAdmits
  <2>4. \/ UNCHANGED st
        \/ st' = [st EXCEPT ![disp.item] = IF @ = "none" THEN @ ELSE "queued"]
    BY <1>7, Zenon DEF DispatchUnclaim
  <2>5. UNCHANGED <<Owned, Waiting, Executing>>
    BY <2>1 DEF Owned, Waiting, Executing
  <2>6. SUFFICES ASSUME NEW i \in Items, i \notin crossed'
                 PROVE  (Held(i) /\ Single(i) /\ Fresh(i))'
    BY DEF Sound
  <2>7. i \notin crossed /\ Held(i) /\ Single(i) /\ Fresh(i)
    BY <2>1, <2>6 DEF Sound
  <2>8. Held(i)'
    BY <2>1, <2>2, <2>3, <2>4, <2>5, <2>7 DEF Held, HeldByDispatcher, HeldByCall, HeldByTurn,
          Typed, Manifest, InFlight
  <2>9. Single(i)'
    BY <2>1, <2>7 DEF Single
  <2>10. Fresh(i)'
    BY <2>1, <2>2, <2>3, <2>4, <2>5, <2>7 DEF Fresh, Held, HeldByDispatcher, HeldByCall,
          HeldByTurn, Typed, Manifest, InFlight
  <2>11. QED  BY <2>8, <2>9, <2>10
<1>8. CASE DispatchStart
  <2>1. UNCHANGED <<st, steerQ, crossed, enqueued, call>>
    BY <1>8, Zenon DEF DispatchStart, diskVars, gateVars
  <2>2. /\ turn.pc = "none" /\ turn'.pc = "prep" /\ Owned' = {disp.item} /\ turn'.todo = {} /\ turn'.ids = {}
        /\ Waiting' = Waiting /\ active' = active \cup {disp.item}
    BY <1>8, DispatchStartEffect DEF DispatchStart, Gated, GateExclusive
  <2>3. disp.pc = "start" /\ disp.item \in Items /\ disp'.pc = "untrack"
    BY <1>8 DEF DispatchStart, DispAt, Typed, DispatcherState
  <2>4. Apply(disp.item)
    BY <1>8 DEF DispatchStart
  <2>5. call.pc \notin {"mark", "accept", "requeue"}
    BY <1>8 DEF DispatchStart, Locked, DispatcherAdmits, SteerAdmits
  <2>6. SUFFICES ASSUME NEW i \in Items, i \notin crossed'
                 PROVE  (Held(i) /\ Single(i) /\ Fresh(i))'
    BY DEF Sound
  <2>7. i \notin crossed /\ Held(i) /\ Single(i) /\ Fresh(i)
    BY <2>1, <2>6 DEF Sound
  <2>8. Held(i)'
    BY <2>1, <2>2, <2>3, <2>4, <2>5, <2>7 DEF Held, HeldByDispatcher, HeldByCall, HeldByTurn,
          Executing
  <2>9. Single(i)'
    BY <2>1, <2>7 DEF Single
  <2>10. Fresh(i)'
    BY <2>1, <2>2, <2>3, <2>4, <2>5, <2>7 DEF Fresh, Held, HeldByDispatcher, HeldByCall,
          HeldByTurn, Apply, InFlight, Typed, Applications
  <2>11. QED  BY <2>8, <2>9, <2>10
<1>9. CASE DispatchUntrack
  <2>1. UNCHANGED <<st, turn, steerQ, active, crossed, enqueued, applied>>
    BY <1>9, Zenon DEF DispatchUntrack, diskVars, gateVars
  <2>2. UNCHANGED disp \/ disp'.pc \notin {"admit", "unclaim", "start"}
    BY <1>9 DEF DispatchUntrack, IdleOrStarted, DispAt
  <2>3. UNCHANGED call
    BY <1>9, Zenon DEF DispatchUntrack
  <2>4. QED  BY <2>1, <2>2, <2>3, SoundQuiet
<1>10. CASE RetryTimer
  <2>1. UNCHANGED <<st, turn, steerQ, active, crossed, enqueued, applied>>
    BY <1>10, Zenon DEF RetryTimer, diskVars, gateVars
  <2>2. UNCHANGED disp \/ disp'.pc \notin {"admit", "unclaim", "start"}
    BY <1>10 DEF RetryTimer, Kick, DispAt
  <2>3. UNCHANGED call
    BY <1>10, Zenon DEF RetryTimer
  <2>4. QED  BY <2>1, <2>2, <2>3, SoundQuiet
<1>11. CASE AgentStart
  <2>1. UNCHANGED <<st, steerQ, active, crossed, enqueued, applied, disp, call>>
    BY <1>11, Zenon DEF AgentStart, diskVars, gateVars, dispVars, historyVars
  <2>2. /\ turn.pc = "prep" /\ turn'.pc = "run"
        /\ UNCHANGED <<Owned, Waiting, turn.todo, turn.ids>>
    BY <1>11, AgentStartEffect
  <2>3. SUFFICES ASSUME NEW i \in Items, i \notin crossed'
                 PROVE  (Held(i) /\ Single(i) /\ Fresh(i))'
    BY DEF Sound
  <2>4. i \notin crossed /\ Held(i) /\ Single(i) /\ Fresh(i)
    BY <2>1, <2>3 DEF Sound
  <2>5. Held(i)'
    BY <2>1, <2>2, <2>4 DEF Held, HeldByDispatcher, HeldByCall, HeldByTurn, Executing
  <2>6. Single(i)'
    BY <2>1, <2>4 DEF Single
  <2>7. Fresh(i)'
    BY <2>1, <2>2, <2>4 DEF Fresh, Held, HeldByDispatcher, HeldByCall, HeldByTurn
  <2>8. QED  BY <2>5, <2>6, <2>7
<1>12. CASE ConsumeSteer
  <2> DEFINE h == Head(steerQ)
  <2>1. /\ h \in Items /\ h \in Waiting /\ Waiting = Waiting' \cup {h}
        /\ turn.pc = "run" /\ steerQ # <<>> /\ steerQ' = Tail(steerQ) /\ turn'.ids = turn.ids
        /\ \/ turn'.pc = "run" /\ Owned' = Owned \cup {h} /\ turn'.todo = turn.todo
           \/ turn'.pc = "unapplied" /\ Owned' = Owned /\ turn'.todo = {h}
        /\ UNCHANGED <<active, call, crossed>>
    BY <1>12, ConsumeSteerEffect
  <2>2. UNCHANGED <<enqueued, disp>>
    BY <1>12, Zenon DEF ConsumeSteer, dispVars
  <2>3. turn.ids = {} /\ turn.todo = {}
    BY <2>1 DEF Framed
  <2>4. \/ /\ st' = [st EXCEPT ![h] = IF @ = "none" THEN @ ELSE "steer_consumed"]
           /\ turn' = [turn EXCEPT !.steers = @ \cup {h}] /\ Apply(h)
        \/ /\ st' = Uncertain({h}) \/ UNCHANGED st
           /\ turn' = [turn EXCEPT !.pc = "unapplied", !.todo = {h}]
           /\ UNCHANGED applied
        \/ UNCHANGED st /\ turn' = [turn EXCEPT !.steers = @ \cup {h}] /\ Apply(h)
    BY <1>12, Zenon DEF ConsumeSteer
  <2> HIDE DEF h
  <2>5. \/ /\ st' = [st EXCEPT ![h] = IF @ = "none" THEN @ ELSE "steer_consumed"]
           /\ turn'.pc = "run" /\ Apply(h)
        \/ (st' = Uncertain({h}) \/ UNCHANGED st) /\ turn'.pc = "unapplied" /\ UNCHANGED applied
        \/ UNCHANGED st /\ turn'.pc = "run" /\ Apply(h)
    BY <2>1, <2>4 DEF Typed, TurnState, TurnType
  <2>6. SUFFICES ASSUME NEW i \in Items, i \notin crossed'
                 PROVE  (Held(i) /\ Single(i) /\ Fresh(i))'
    BY DEF Sound
  <2>7. Held(i) /\ Single(i) /\ Fresh(i)
    BY <2>1, <2>6 DEF Sound
  <2>8. Single(i)' /\ (i = h => i \notin Waiting')
    BY <2>1, <2>7, SingleTail DEF Typed, h
  <2>9. Held(i)'
    BY <2>1, <2>2, <2>3, <2>5, <2>7, <2>8 DEF Held, HeldByDispatcher, HeldByCall, HeldByTurn,
       Executing, Uncertain, InFlight, Typed, Manifest
  <2>10. Fresh(i)'
    BY <2>1, <2>2, <2>5, <2>7, <2>8 DEF Fresh, Held, HeldByDispatcher, HeldByCall,
       Uncertain, InFlight, Apply, Typed, Manifest, Applications
  <2>11. QED  BY <2>8, <2>9, <2>10
<1>13. CASE Unapplied
  <2>1. UNCHANGED <<st, steerQ, enqueued, applied, disp, call>>
    BY <1>13, Zenon DEF Unapplied, gateVars, dispVars
  <2>2. /\ turn.pc = "unapplied" /\ turn'.pc = "run" /\ turn'.todo = {}
        /\ UNCHANGED <<Owned, Waiting, turn.ids>> /\ active' = active \ turn.todo
        /\ crossed' = crossed \cup {i \in turn.todo : i \in Waiting \/ (call.pc = "active" /\ call.item = i)}
    BY <1>13, UnappliedEffect
  <2>3. SUFFICES ASSUME NEW i \in Items, i \notin crossed'
                 PROVE  (Held(i) /\ Single(i) /\ Fresh(i))'
    BY DEF Sound
  <2>4. i \notin crossed /\ Held(i) /\ Single(i) /\ Fresh(i)
    BY <2>2, <2>3 DEF Sound
  <2>5. i \in turn.todo => i \notin Waiting /\ ~(call.pc = "active" /\ call.item = i)
    BY <2>2, <2>3
  <2>6. ~(i \in turn.todo /\ HeldByTurn(i))
    BY <2>2, <2>4 DEF Held, HeldByTurn, Executing
  <2>7. HeldByTurn(i)' <=> HeldByTurn(i)
    BY <2>2, <2>4 DEF HeldByTurn, Executing
  <2>8. Held(i)'
    BY <2>1, <2>2, <2>4, <2>5, <2>6, <2>7 DEF Held, HeldByDispatcher, HeldByCall
  <2>9. Single(i)'
    BY <2>1, <2>4 DEF Single
  <2>10. Fresh(i)'
    BY <2>1, <2>2, <2>4 DEF Fresh, HeldByDispatcher, HeldByCall
  <2>11. QED  BY <2>8, <2>9, <2>10
<1>14. CASE CloseIntake
  <2>1. UNCHANGED <<st, steerQ, active, crossed, enqueued, applied, disp, call>>
    BY <1>14, Zenon DEF CloseIntake, diskVars, gateVars, dispVars, historyVars
  <2>2. /\ turn.pc = "run" /\ turn'.pc = "exit"
        /\ UNCHANGED <<Owned, Waiting, turn.todo, turn.ids>>
    BY <1>14, CloseIntakeEffect
  <2>3. SUFFICES ASSUME NEW i \in Items, i \notin crossed'
                 PROVE  (Held(i) /\ Single(i) /\ Fresh(i))'
    BY DEF Sound
  <2>4. i \notin crossed /\ Held(i) /\ Single(i) /\ Fresh(i)
    BY <2>1, <2>3 DEF Sound
  <2>5. Held(i)'
    BY <2>1, <2>2, <2>4 DEF Held, HeldByDispatcher, HeldByCall, HeldByTurn, Executing
  <2>6. Single(i)'
    BY <2>1, <2>4 DEF Single
  <2>7. Fresh(i)'
    BY <2>1, <2>2, <2>4 DEF Fresh, Held, HeldByDispatcher, HeldByCall, HeldByTurn
  <2>8. QED  BY <2>5, <2>6, <2>7
<1>15. CASE FlushMark
  <2>1. UNCHANGED <<steerQ, active, crossed, enqueued, applied, disp, call>>
    BY <1>15, Zenon DEF FlushMark, dispVars, historyVars
  <2>2. PICK j \in turn.todo :
          /\ turn.pc = "flush" /\ turn'.pc = "flushed" /\ UNCHANGED <<Owned, Waiting>>
          /\ turn'.todo = turn.todo \ {j} /\ turn'.ids = {j}
          /\ st' = Uncertain({j}) \/ UNCHANGED st
    BY <1>15, FlushMarkEffect
  <2>3. ASSUME NEW i \in Items, i # j
        PROVE  st'[i] = st[i]
    BY <2>2, <2>3 DEF Uncertain, Typed, Manifest
  <2>4. ASSUME j \in Items
        PROVE  st'[j] = st[j] \/ st'[j] = "uncertain"
    BY <2>2, <2>4 DEF Uncertain
  <2>5. SUFFICES ASSUME NEW i \in Items, i \notin crossed'
                 PROVE  (Held(i) /\ Single(i) /\ Fresh(i))'
    BY DEF Sound
  <2>6. Held(i) /\ Single(i) /\ Fresh(i)
    BY <2>1, <2>5 DEF Sound
  <2>7. i \in turn.todo => HeldByTurn(i)
    BY <2>2 DEF HeldByTurn
  <2>8. i \in turn.todo => i \notin Owned
    BY <2>2, <2>6 DEF Held
  <2>9. CASE i = j
    <3>1. i \in turn.todo /\ i \notin turn'.todo /\ i \in turn'.ids
      BY <2>2, <2>9
    <3>2. st[i] \in InFlight /\ ~HeldByDispatcher(i) /\ ~HeldByCall(i) /\ i \notin Waiting
      BY <3>1, <2>6, <2>7 DEF Held
    <3>3. ~HeldByTurn(i)'
      BY <3>1, <2>2, <2>8 DEF HeldByTurn
    <3>4. call.pc = "mark" => call.item # i
      BY <3>2, <2>6 DEF Held, InFlight
    <3>5. Held(i)'
      BY <3>1, <3>2, <3>3, <3>4, <2>1, <2>2, <2>8 DEF Held, HeldByDispatcher, HeldByCall
    <3>6. Fresh(i)'
      BY <3>2, <2>1, <2>2, <2>4, <2>6, <2>9 DEF Fresh, HeldByDispatcher, HeldByCall, InFlight
    <3>7. QED  BY <3>5, <3>6, <2>1, <2>6 DEF Single
  <2>10. CASE i # j
    <3>1. HeldByTurn(i)' <=> HeldByTurn(i)
      BY <2>2, <2>10 DEF HeldByTurn, Executing
    <3>2. Held(i)'
      BY <3>1, <2>1, <2>2, <2>3, <2>6, <2>10 DEF Held, HeldByDispatcher, HeldByCall
    <3>3. Fresh(i)'
      BY <2>1, <2>2, <2>3, <2>6, <2>10 DEF Fresh, HeldByDispatcher, HeldByCall
    <3>4. QED  BY <3>2, <3>3, <2>1, <2>6 DEF Single
  <2>11. QED  BY <2>9, <2>10
<1>16. CASE FlushUntrack
  <2>1. UNCHANGED <<st, steerQ, enqueued, applied, disp, call>>
    BY <1>16, Zenon DEF FlushUntrack, gateVars, dispVars
  <2>2. /\ turn.pc = "flushed" /\ turn'.pc = "flush" /\ turn'.ids = {}
        /\ UNCHANGED <<Owned, Waiting, turn.todo>> /\ active' = active \ turn.ids
        /\ crossed' = crossed \cup {i \in turn.ids : i \in Waiting \/ (call.pc = "active" /\ call.item = i)}
    BY <1>16, FlushUntrackEffect
  <2>3. SUFFICES ASSUME NEW i \in Items, i \notin crossed'
                 PROVE  (Held(i) /\ Single(i) /\ Fresh(i))'
    BY DEF Sound
  <2>4. i \notin crossed /\ Held(i) /\ Single(i) /\ Fresh(i)
    BY <2>2, <2>3 DEF Sound
  <2>5. i \in turn.ids => i \notin Waiting /\ ~(call.pc = "active" /\ call.item = i)
    BY <2>2, <2>3
  <2>6. ~(i \in turn.ids /\ HeldByTurn(i))
    BY <2>2, <2>4 DEF Held, HeldByTurn, Executing
  <2>7. HeldByTurn(i)' <=> HeldByTurn(i)
    BY <2>2, <2>4 DEF HeldByTurn, Executing
  <2>8. Held(i)'
    BY <2>1, <2>2, <2>4, <2>5, <2>6, <2>7 DEF Held, HeldByDispatcher, HeldByCall
  <2>9. Single(i)'
    BY <2>1, <2>4 DEF Single
  <2>10. Fresh(i)'
    BY <2>1, <2>2, <2>4 DEF Fresh, HeldByDispatcher, HeldByCall
  <2>11. QED  BY <2>8, <2>9, <2>10
<1>17. CASE TurnEnd
  <2>1. UNCHANGED <<st, steerQ, active, crossed, enqueued, applied, disp, call>>
    BY <1>17, Zenon DEF TurnEnd, diskVars, dispVars, historyVars
  <2>2. /\ turn.pc = "exit" \/ (turn.pc = "flush" /\ turn.todo = {})
        /\ turn'.pc = "ids"
        /\ UNCHANGED <<Owned, Waiting, turn.todo, turn.ids>>
    BY <1>17, TurnEndEffect
  <2>3. SUFFICES ASSUME NEW i \in Items, i \notin crossed'
                 PROVE  (Held(i) /\ Single(i) /\ Fresh(i))'
    BY DEF Sound
  <2>4. i \notin crossed /\ Held(i) /\ Single(i) /\ Fresh(i)
    BY <2>1, <2>3 DEF Sound
  <2>5. Held(i)'
    BY <2>1, <2>2, <2>4 DEF Held, HeldByDispatcher, HeldByCall, HeldByTurn, Executing
  <2>6. Single(i)'
    BY <2>1, <2>4 DEF Single
  <2>7. Fresh(i)'
    BY <2>1, <2>2, <2>4 DEF Fresh, Held, HeldByDispatcher, HeldByCall, HeldByTurn
  <2>8. QED  BY <2>5, <2>6, <2>7
<1>18. CASE TurnIds
  <2>1. UNCHANGED <<st, steerQ, active, crossed, enqueued, applied, disp, call>>
    BY <1>18, Zenon DEF TurnIds, diskVars, gateVars, dispVars, historyVars
  <2>2. /\ turn.pc = "ids" /\ turn'.pc \in {"deliver", "snap"}
        /\ UNCHANGED <<Owned, Waiting>>
    BY <1>18, TurnIdsEffect
  <2>3. SUFFICES ASSUME NEW i \in Items, i \notin crossed'
                 PROVE  (Held(i) /\ Single(i) /\ Fresh(i))'
    BY DEF Sound
  <2>4. i \notin crossed /\ Held(i) /\ Single(i) /\ Fresh(i)
    BY <2>1, <2>3 DEF Sound
  <2>5. Held(i)'
    BY <2>1, <2>2, <2>4 DEF Held, HeldByDispatcher, HeldByCall, HeldByTurn, Executing
  <2>6. Single(i)'
    BY <2>1, <2>4 DEF Single
  <2>7. Fresh(i)'
    BY <2>1, <2>2, <2>4 DEF Fresh, Held, HeldByDispatcher, HeldByCall, HeldByTurn
  <2>8. QED  BY <2>5, <2>6, <2>7
<1>19. CASE TurnSnapshot
  <2>1. UNCHANGED <<steerQ, active, crossed, enqueued, applied, disp, call>>
    BY <1>19, Zenon DEF TurnSnapshot, gateVars, dispVars, historyVars
  <2>2. /\ turn.pc = "snap" /\ UNCHANGED <<Owned, Waiting, turn.todo>> /\ Waiting = {}
        /\ turn.todo = turn.ids /\ turn.todo \subseteq Owned \cup crossed
    BY <1>19, TurnSnapshotEffect, WaitingEmpty DEF Framed
  <2>3. \/ UNCHANGED st /\ turn' = [turn EXCEPT !.pc = "ack"]
        \/ /\ \E S \in SUBSET turn.ids : st' = Uncertain(S)
           /\ turn' = [turn EXCEPT !.pc = "untrack"]
    BY <1>19, Zenon DEF TurnSnapshot
  <2>4. \/ UNCHANGED st /\ turn'.pc = "ack"
        \/ (\E S \in SUBSET turn.ids : st' = Uncertain(S)) /\ turn'.pc = "untrack"
    BY <2>3 DEF Typed, TurnState, TurnType
  <2>5. SUFFICES ASSUME NEW i \in Items, i \notin crossed'
                 PROVE  (Held(i) /\ Single(i) /\ Fresh(i))'
    BY DEF Sound
  <2>6. i \notin crossed /\ Held(i) /\ Single(i) /\ Fresh(i)
    BY <2>1, <2>5 DEF Sound
  <2>7. Held(i)'
    BY <2>1, <2>2, <2>3, <2>4, <2>6 DEF Held, HeldByDispatcher, HeldByCall, HeldByTurn,
          Executing, Uncertain, InFlight, Typed, Manifest
  <2>8. Single(i)'
    BY <2>1, <2>6 DEF Single
  <2>9. Fresh(i)'
    BY <2>1, <2>2, <2>3, <2>4, <2>6 DEF Fresh, Held, HeldByDispatcher, HeldByCall, HeldByTurn,
          Uncertain, InFlight, Typed, Manifest, Executing
  <2>10. QED  BY <2>7, <2>8, <2>9
<1>20. CASE TurnAck
  <2>1. UNCHANGED <<steerQ, active, crossed, enqueued, applied, disp, call>>
    BY <1>20, Zenon DEF TurnAck, dispVars, historyVars
  <2>2. PICK j \in turn.todo :
          /\ turn.pc = "ack" /\ turn'.pc \in {"ack", "untrack"} /\ UNCHANGED <<Owned, Waiting>>
          /\ turn'.todo = turn.todo \ {j}
          /\ st' = [st EXCEPT ![j] = "none"] \/ st' = Uncertain({j}) \/ UNCHANGED st
    BY <1>20, TurnAckEffect
  <2>3. ASSUME NEW i \in Items, i # j
        PROVE  st'[i] = st[i]
    BY <2>2, <2>3 DEF Uncertain, Typed, Manifest
  <2>4. ASSUME j \in Items
        PROVE  st'[j] \in {st[j], "none", "uncertain"}
    BY <2>2, <2>4 DEF Uncertain, Typed, Manifest
  <2>5. SUFFICES ASSUME NEW i \in Items, i \notin crossed'
                 PROVE  (Held(i) /\ Single(i) /\ Fresh(i))'
    BY DEF Sound
  <2>6. Held(i) /\ Single(i) /\ Fresh(i)
    BY <2>1, <2>5 DEF Sound
  <2>7. CASE i = j
    <3>1. HeldByTurn(i) /\ ~HeldByTurn(i)'
      BY <2>2, <2>7 DEF HeldByTurn, Executing
    <3>2. st[i] \in InFlight /\ ~HeldByDispatcher(i) /\ ~HeldByCall(i) /\ i \notin Waiting
      BY <3>1, <2>6 DEF Held
    <3>3. call.pc = "mark" => call.item # i
      BY <3>2, <2>6 DEF Held, InFlight
    <3>4. Held(i)'
      BY <3>1, <3>2, <3>3, <2>1, <2>2 DEF Held, HeldByDispatcher, HeldByCall
    <3>5. i <= enqueued
      BY <3>2, <2>6, DispatchAssumption DEF Fresh, InFlight, Items, Typed, Counts
    <3>6. st'[i] # "queued"
      BY <3>2, <2>4, <2>7 DEF InFlight
    <3>7. Fresh(i)'
      BY <3>2, <3>5, <3>6, <2>1, <2>2, <2>6, DispatchAssumption DEF Fresh, HeldByDispatcher,
         HeldByCall, Items, Typed, Counts
    <3>8. QED  BY <3>4, <3>7, <2>1, <2>6 DEF Single
  <2>8. CASE i # j
    <3>1. HeldByTurn(i)' => HeldByTurn(i)
      BY <2>2, <2>8 DEF HeldByTurn, Executing
    <3>2. Held(i)'
      BY <3>1, <2>1, <2>2, <2>3, <2>6, <2>8 DEF Held, HeldByDispatcher, HeldByCall
    <3>3. Fresh(i)'
      BY <2>1, <2>2, <2>3, <2>6, <2>8 DEF Fresh, HeldByDispatcher, HeldByCall
    <3>4. QED  BY <3>2, <3>3, <2>1, <2>6 DEF Single
  <2>9. QED  BY <2>7, <2>8
<1>21. CASE TurnUntrack
  <2>1. UNCHANGED <<st, steerQ, crossed, enqueued, applied, disp, call>>
    BY <1>21, Zenon DEF TurnUntrack, diskVars, gateVars, dispVars, historyVars
  <2>2. /\ turn.pc = "untrack" /\ turn'.pc = "deliver"
        /\ UNCHANGED <<Owned, Waiting>> /\ Waiting = {}
    BY <1>21, TurnUntrackEffect, WaitingEmpty DEF Framed
  <2>3. SUFFICES ASSUME NEW i \in Items, i \notin crossed'
                 PROVE  (Held(i) /\ Single(i) /\ Fresh(i))'
    BY DEF Sound
  <2>4. i \notin crossed /\ Held(i) /\ Single(i) /\ Fresh(i)
    BY <2>1, <2>3 DEF Sound
  <2>5. Held(i)'
    BY <2>1, <2>2, <2>4 DEF Held, HeldByDispatcher, HeldByCall, HeldByTurn, Executing
  <2>6. Single(i)'
    BY <2>1, <2>4 DEF Single
  <2>7. Fresh(i)'
    BY <2>1, <2>2, <2>4 DEF Fresh, Held, HeldByDispatcher, HeldByCall, HeldByTurn
  <2>8. QED  BY <2>5, <2>6, <2>7
<1>22. CASE TurnDeliver
  <2>1. UNCHANGED <<st, steerQ, active, crossed, enqueued, applied, call>>
    BY <1>22, Zenon DEF TurnDeliver, diskVars
  <2>2. UNCHANGED disp \/ disp'.pc \notin {"admit", "unclaim", "start"}
    BY <1>22 DEF TurnDeliver, Kick, DispAt
  <2>3. turn.pc = "deliver" /\ (turn' = NoTurn \/ turn' = TurnOf(None)) /\ UNCHANGED Waiting
    BY <1>22, Zenon DEF TurnDeliver, Waiting
  <2>4. turn'.pc \in {"none", "prep"} /\ Owned' = {} /\ turn'.todo = {} /\ turn'.ids = {}
    BY <2>3, NewTurnEffect
  <2>5. SUFFICES ASSUME NEW i \in Items, i \notin crossed'
                 PROVE  (Held(i) /\ Single(i) /\ Fresh(i))'
    BY DEF Sound
  <2>6. i \notin crossed /\ Held(i) /\ Single(i) /\ Fresh(i)
    BY <2>1, <2>5 DEF Sound
  <2>7. Held(i)'
    BY <2>1, <2>2, <2>3, <2>4, <2>6 DEF Held, HeldByDispatcher, HeldByCall, HeldByTurn,
          Executing
  <2>8. Single(i)'
    BY <2>1, <2>6 DEF Single
  <2>9. Fresh(i)'
    BY <2>1, <2>2, <2>3, <2>4, <2>6 DEF Fresh, Held, HeldByDispatcher, HeldByCall, HeldByTurn
  <2>10. QED  BY <2>7, <2>8, <2>9
<1>23. CASE PlainSubmit
  <2>1. UNCHANGED <<st, steerQ, active, crossed, enqueued, applied, disp, call>> /\ ~closed
    BY <1>23, Zenon DEF PlainSubmit, diskVars, dispVars, historyVars
  <2>2. CASE UNCHANGED turn
    BY <2>1, <2>2, SoundQuiet
  <2>3. CASE ~running /\ ~finishing /\ turn' = TurnOf(None)
    <3>1. /\ turn.pc = "none" /\ turn'.pc \in {"none", "prep"} /\ Owned' = {}
          /\ turn'.todo = {} /\ turn'.ids = {} /\ UNCHANGED Waiting
      BY <2>1, <2>3, IdleGate, NewTurnEffect DEF Waiting
    <3>2. SUFFICES ASSUME NEW i \in Items, i \notin crossed'
                   PROVE  (Held(i) /\ Single(i) /\ Fresh(i))'
      BY DEF Sound
    <3>3. Held(i) /\ Single(i) /\ Fresh(i)
      BY <2>1, <3>2 DEF Sound
    <3>4. Held(i)'
      BY <2>1, <3>1, <3>3 DEF Held, HeldByDispatcher, HeldByCall, HeldByTurn, Executing
    <3>5. Single(i)'
      BY <2>1, <3>3 DEF Single
    <3>6. Fresh(i)'
      BY <2>1, <3>1, <3>3 DEF Fresh, HeldByDispatcher, HeldByCall
    <3>7. QED  BY <3>4, <3>5, <3>6
  <2>4. QED  BY <1>23, <2>2, <2>3, Zenon DEF PlainSubmit
<1>24. CASE EndRotation
  <2>1. UNCHANGED <<st, turn, steerQ, active, crossed, enqueued, applied>>
    BY <1>24, Zenon DEF EndRotation, diskVars
  <2>2. UNCHANGED disp \/ disp'.pc \notin {"admit", "unclaim", "start"}
    BY <1>24 DEF EndRotation, Kick, DispAt
  <2>3. UNCHANGED call
    BY <1>24, Zenon DEF EndRotation
  <2>4. QED  BY <2>1, <2>2, <2>3, SoundQuiet
<1>25. CASE Restart
  <2>1. UNCHANGED <<crossed, enqueued, applied>> /\ steerQ' = <<>> /\ turn' = NoTurn
    BY <1>25, Zenon DEF Restart
  <2>2. disp'.pc = "idle" /\ call'.pc = "idle"
    BY <1>25 DEF Restart, DispAt, NoCall
  <2>3. /\ Waiting' = {} /\ turn'.pc = "none" /\ Owned' = {} /\ turn'.todo = {} /\ turn'.ids = {}
    BY <2>1, NewTurnEffect DEF Waiting, NoTurn
  <2>4. \A j \in Items : st'[j] = st[j] \/ (st[j] \in InFlight /\ st'[j] = "uncertain")
    BY <1>25 DEF Restart, Uncertain, InFlight
  <2>5. SUFFICES ASSUME NEW i \in Items, i \notin crossed'
                 PROVE  (Held(i) /\ Single(i) /\ Fresh(i))'
    BY DEF Sound
  <2>6. i \notin crossed /\ Held(i) /\ Single(i) /\ Fresh(i)
    BY <2>1, <2>5 DEF Sound
  <2>7. Held(i)'
    BY <2>1, <2>2, <2>3, <2>4, <2>6 DEF Held, HeldByDispatcher, HeldByCall, HeldByTurn,
          Executing
  <2>8. Single(i)'
    BY <2>1 DEF Single
  <2>9. Fresh(i)'
    BY <2>1, <2>2, <2>3, <2>4, <2>6 DEF Fresh, Held, HeldByDispatcher, HeldByCall, HeldByTurn,
          InFlight
  <2>10. QED  BY <2>7, <2>8, <2>9
<1>26. CASE Abort
  <2>1. UNCHANGED <<st, active, crossed, enqueued, applied, disp, call>>
    BY <1>26, Zenon DEF Abort, diskVars, gateVars, dispVars, historyVars
  <2>2. /\ turn.pc \in {"prep", "run"} /\ turn'.pc = "flush"
        /\ turn'.todo = Waiting /\ Waiting' = {} /\ UNCHANGED <<Owned, turn.ids>> /\ turn.ids = {}
    BY <1>26, AbortEffect DEF Framed
  <2>3. steerQ' = <<>>
    BY <1>26, Zenon DEF Abort
  <2>4. SUFFICES ASSUME NEW i \in Items, i \notin crossed'
                 PROVE  (Held(i) /\ Single(i) /\ Fresh(i))'
    BY DEF Sound
  <2>5. i \notin crossed /\ Held(i) /\ Single(i) /\ Fresh(i)
    BY <2>1, <2>4 DEF Sound
  <2>6. Held(i)'
    BY <2>1, <2>2, <2>3, <2>5 DEF Held, HeldByDispatcher, HeldByCall, HeldByTurn, Executing
  <2>7. Single(i)'
    BY <2>3 DEF Single
  <2>8. Fresh(i)'
    BY <2>1, <2>2, <2>3, <2>5 DEF Fresh, Held, HeldByDispatcher, HeldByCall, HeldByTurn
  <2>9. QED  BY <2>6, <2>7, <2>8
<1>27. CASE CheckIdle
  <2>1. UNCHANGED <<st, turn, steerQ, active, crossed, enqueued, applied>>
    BY <1>27, Zenon DEF CheckIdle, Others, gateVars, diskVars
  <2>2. UNCHANGED disp \/ disp'.pc \notin {"admit", "unclaim", "start"}
    BY <1>27 DEF CheckIdle, NoKick, Kick, DispAt
  <2>3. call.pc # "active" /\ call'.pc \notin {"mark", "accept", "requeue"}
    BY <1>27 DEF CheckIdle, NoCall
  <2>4. QED  BY <2>1, <2>2, <2>3, SoundQuiet
<1>28. CASE SteerBegin
  <2>1. UNCHANGED <<turn, steerQ, active, crossed, enqueued>> /\ call.pc = "steer" /\ call.item \in Items
    BY <1>28, Zenon DEF SteerBegin, Others, Typed, CallState
  <2>2. UNCHANGED disp \/ disp'.pc \notin {"admit", "unclaim", "start"}
    BY <1>28 DEF SteerBegin, NoKick, Kick, DispAt
  <2>3. \/ UNCHANGED <<st, applied>> /\ call' = NoCall
        \/ /\ st[call.item] \in {"queued", "uncertain"} /\ st' = [st EXCEPT ![call.item] = "queued"]
           /\ applied' = [applied EXCEPT ![call.item] = IF st[call.item] = "uncertain" THEN 0 ELSE @]
           /\ call' = NoCall \/ call' = CallAt("mark")
    BY <1>28 DEF SteerBegin
  <2>4. NoCall.pc = "idle" /\ CallAt("mark").pc = "mark" /\ CallAt("mark").item = call.item
    BY DEF NoCall, CallAt, Typed, CallState, CallType
  <2>5. UNCHANGED <<Owned, Waiting, Executing>>
    BY <2>1 DEF Owned, Waiting, Executing
  <2>6. SUFFICES ASSUME NEW i \in Items, i \notin crossed'
                 PROVE  (Held(i) /\ Single(i) /\ Fresh(i))'
    BY DEF Sound
  <2>7. i \notin crossed /\ Held(i) /\ Single(i) /\ Fresh(i)
    BY <2>1, <2>6 DEF Sound
  <2>8. Held(i)'
    BY <2>1, <2>2, <2>3, <2>4, <2>5, <2>7 DEF Held, HeldByDispatcher, HeldByCall, HeldByTurn,
          Typed, Manifest, InFlight
  <2>9. Single(i)'
    BY <2>1, <2>7 DEF Single
  <2>10. Fresh(i)'
    BY <2>1, <2>2, <2>3, <2>4, <2>5, <2>7 DEF Fresh, Held, HeldByDispatcher, HeldByCall,
          HeldByTurn, Typed, Manifest, InFlight, Applications, Counts
  <2>11. QED  BY <2>8, <2>9, <2>10
<1>29. CASE SteerMark
  <2>1. UNCHANGED <<turn, steerQ, active, crossed, enqueued, applied, disp>> /\ call.pc = "mark" /\ call.item \in Items
    BY <1>29, Zenon DEF SteerMark, Others, NoKick, Typed, CallState
  <2>2. \/ UNCHANGED st /\ call' = CallAt("end")
        \/ st' = [st EXCEPT ![call.item] = "steer_accepted"] /\ call' = CallAt("accept")
    BY <1>29, Zenon DEF SteerMark
  <2>3. /\ CallAt("end").pc = "end" /\ CallAt("accept").pc = "accept"
        /\ CallAt("accept").item = call.item
    BY DEF CallAt, Typed, CallState, CallType
  <2>4. disp.pc \notin {"admit", "unclaim", "start"}
    BY <1>29 DEF SteerMark, Locked, DispatcherAdmits, SteerAdmits
  <2>5. UNCHANGED <<Owned, Waiting, Executing>>
    BY <2>1 DEF Owned, Waiting, Executing
  <2>6. SUFFICES ASSUME NEW i \in Items, i \notin crossed'
                 PROVE  (Held(i) /\ Single(i) /\ Fresh(i))'
    BY DEF Sound
  <2>7. i \notin crossed /\ Held(i) /\ Single(i) /\ Fresh(i)
    BY <2>1, <2>6 DEF Sound
  <2>8. Held(i)'
    BY <2>1, <2>2, <2>3, <2>4, <2>5, <2>7 DEF Held, HeldByDispatcher, HeldByCall, HeldByTurn,
          Typed, Manifest, InFlight
  <2>9. Single(i)'
    BY <2>1, <2>7 DEF Single
  <2>10. Fresh(i)'
    BY <2>1, <2>2, <2>3, <2>4, <2>5, <2>7 DEF Fresh, Held, HeldByDispatcher, HeldByCall,
          HeldByTurn, Typed, Manifest, InFlight
  <2>11. QED  BY <2>8, <2>9, <2>10
<1>30. CASE SteerAccept
  <2>1. UNCHANGED <<st, turn, active, crossed, enqueued, applied, disp>> /\ call.pc = "accept" /\ call.item \in Items
    BY <1>30, Zenon DEF SteerAccept, Others, diskVars, NoKick, Typed, CallState
  <2>2. CASE UNCHANGED steerQ /\ call' = CallAt("requeue")
    <3>1. call'.pc = "requeue" /\ call'.item = call.item /\ UNCHANGED <<Owned, Waiting, Executing>>
      BY <2>1, <2>2 DEF CallAt, Typed, CallState, CallType, Owned, Waiting, Executing
    <3>2. SUFFICES ASSUME NEW i \in Items, i \notin crossed'
                   PROVE  (Held(i) /\ Single(i) /\ Fresh(i))'
      BY DEF Sound
    <3>3. Held(i) /\ Single(i) /\ Fresh(i)
      BY <2>1, <3>2 DEF Sound
    <3>4. Held(i)'
      BY <2>1, <3>1, <3>3 DEF Held, HeldByDispatcher, HeldByCall, HeldByTurn
    <3>5. Single(i)'
      BY <2>2, <3>3 DEF Single
    <3>6. Fresh(i)'
      BY <2>1, <3>1, <3>3 DEF Fresh, HeldByDispatcher, HeldByCall
    <3>7. QED  BY <3>4, <3>5, <3>6
  <2>3. CASE IntakeOpen /\ steerQ' = Append(steerQ, call.item) /\ call' = CallAt("active")
    <3>1. call'.pc = "active" /\ call'.item = call.item /\ UNCHANGED <<Owned, Executing>>
      BY <2>1, <2>3 DEF CallAt, Typed, CallState, CallType, Owned, Executing
    <3>2. Waiting' = Waiting \cup {call.item}
      BY <2>1, <2>3, WaitingAppend DEF Typed
    <3>3. disp.pc \notin {"admit", "unclaim", "start"}
      BY <2>1 DEF Locked, DispatcherAdmits, SteerAdmits
    <3>4. SUFFICES ASSUME NEW i \in Items, i \notin crossed'
                   PROVE  (Held(i) /\ Single(i) /\ Fresh(i))'
      BY DEF Sound
    <3>5. Held(i) /\ Single(i) /\ Fresh(i)
      BY <2>1, <3>4 DEF Sound
    <3>6. Held(i)'
      BY <2>1, <3>1, <3>2, <3>3, <3>5 DEF Held, HeldByDispatcher, HeldByCall, HeldByTurn
    <3>7. i = call.item => i \notin Waiting
      BY <2>1, <3>5 DEF Held, HeldByCall
    <3>8. Single(i)'
      BY <2>1, <2>3, <3>5, <3>7, SingleAppend DEF Typed
    <3>9. Fresh(i)'
      BY <2>1, <3>1, <3>2, <3>3, <3>5 DEF Fresh, HeldByDispatcher, HeldByCall
    <3>10. QED  BY <3>6, <3>8, <3>9
  <2>4. QED  BY <1>30, <2>2, <2>3, Zenon DEF SteerAccept
<1>31. CASE SteerTrack
  <2>1. /\ UNCHANGED <<st, turn, steerQ, crossed, enqueued, applied, disp>> /\ call.pc = "active"
        /\ active' = active \cup {call.item}
    BY <1>31, Zenon DEF SteerTrack, Others, diskVars, NoKick
  <2>2. call'.pc = "end"
    BY <1>31 DEF SteerTrack, CallAt, Typed, CallState, CallType
  <2>3. UNCHANGED <<Owned, Waiting, Executing>>
    BY <2>1 DEF Owned, Waiting, Executing
  <2>4. SUFFICES ASSUME NEW i \in Items, i \notin crossed'
                 PROVE  (Held(i) /\ Single(i) /\ Fresh(i))'
    BY DEF Sound
  <2>5. i \notin crossed /\ Held(i) /\ Single(i) /\ Fresh(i)
    BY <2>1, <2>4 DEF Sound
  <2>6. Held(i)'
    BY <2>1, <2>2, <2>3, <2>5 DEF Held, HeldByDispatcher, HeldByCall, HeldByTurn
  <2>7. Single(i)'
    BY <2>1, <2>5 DEF Single
  <2>8. Fresh(i)'
    BY <2>1, <2>2, <2>3, <2>5 DEF Fresh, Held, HeldByDispatcher, HeldByCall, HeldByTurn
  <2>9. QED  BY <2>6, <2>7, <2>8
<1>32. CASE SteerRequeue
  <2>1. UNCHANGED <<turn, steerQ, active, crossed, enqueued, applied, disp>> /\ call.pc = "requeue" /\ call.item \in Items
    BY <1>32, Zenon DEF SteerRequeue, Others, Typed, CallState
  <2>2. UNCHANGED st \/ st' = [st EXCEPT ![call.item] = "queued"]
    BY <1>32, Zenon DEF SteerRequeue
  <2>3. call' = CallAt("end") \/ call' = CallAt("endKick")
    BY <1>32, Zenon DEF SteerRequeue
  <2>4. CallAt("end").pc = "end" /\ CallAt("endKick").pc = "endKick"
    BY DEF CallAt, Typed, CallState, CallType
  <2>5. disp.pc \notin {"admit", "unclaim", "start"}
    BY <1>32 DEF SteerRequeue, Locked, DispatcherAdmits, SteerAdmits
  <2>6. UNCHANGED <<Owned, Waiting, Executing>>
    BY <2>1 DEF Owned, Waiting, Executing
  <2>7. SUFFICES ASSUME NEW i \in Items, i \notin crossed'
                 PROVE  (Held(i) /\ Single(i) /\ Fresh(i))'
    BY DEF Sound
  <2>8. i \notin crossed /\ Held(i) /\ Single(i) /\ Fresh(i)
    BY <2>1, <2>7 DEF Sound
  <2>9. Held(i)'
    BY <2>1, <2>2, <2>3, <2>4, <2>5, <2>6, <2>8 DEF Held, HeldByDispatcher, HeldByCall,
          HeldByTurn, Typed, Manifest, InFlight
  <2>10. Single(i)'
    BY <2>1, <2>8 DEF Single
  <2>11. Fresh(i)'
    BY <2>1, <2>2, <2>3, <2>4, <2>5, <2>6, <2>8 DEF Fresh, Held, HeldByDispatcher, HeldByCall,
          HeldByTurn, Typed, Manifest, InFlight
  <2>12. QED  BY <2>9, <2>10, <2>11
<1>33. CASE SteerEnd
  <2>1. UNCHANGED <<st, turn, steerQ, active, crossed, enqueued, applied>>
    BY <1>33, Zenon DEF SteerEnd, Others, gateVars, diskVars
  <2>2. UNCHANGED disp \/ disp'.pc \notin {"admit", "unclaim", "start"}
    BY <1>33 DEF SteerEnd, Kick, DispAt, NoKick
  <2>3. call.pc # "active" /\ call'.pc \notin {"mark", "accept", "requeue"}
    BY <1>33 DEF SteerEnd, NoCall
  <2>4. QED  BY <2>1, <2>2, <2>3, SoundQuiet
<1>34. CASE CancelDiscard
  <2>1. UNCHANGED <<turn, steerQ, active, crossed, enqueued, applied, disp>> /\ call.pc = "discard" /\ call.item \in Items
    BY <1>34, Zenon DEF CancelDiscard, Others, NoKick, Typed, CallState
  <2>2. \/ UNCHANGED st
        \/ st[call.item] \notin InFlight /\ st' = [st EXCEPT ![call.item] = "none"]
    BY <1>34, Zenon DEF CancelDiscard
  <2>3. call'.pc \in {"idle", "unpause"}
    BY <1>34 DEF CancelDiscard, NoCall, CallAt, Typed, CallState, CallType
  <2>4. UNCHANGED <<Owned, Waiting, Executing>>
    BY <2>1 DEF Owned, Waiting, Executing
  <2>5. SUFFICES ASSUME NEW i \in Items, i \notin crossed'
                 PROVE  (Held(i) /\ Single(i) /\ Fresh(i))'
    BY DEF Sound
  <2>6. i \notin crossed /\ Held(i) /\ Single(i) /\ Fresh(i)
    BY <2>1, <2>5 DEF Sound
  <2>7. Held(i)'
    BY <2>1, <2>2, <2>3, <2>4, <2>6 DEF Held, HeldByDispatcher, HeldByCall, HeldByTurn, Typed,
          Manifest
  <2>8. Single(i)'
    BY <2>1, <2>6 DEF Single
  <2>9. Fresh(i)'
    BY <2>1, <2>2, <2>3, <2>4, <2>6 DEF Fresh, Held, HeldByDispatcher, HeldByCall, HeldByTurn,
          Typed, Manifest
  <2>10. QED  BY <2>7, <2>8, <2>9
<1>35. CASE CancelUnpause
  <2>1. UNCHANGED <<st, turn, steerQ, active, crossed, enqueued, applied>>
    BY <1>35, Zenon DEF CancelUnpause, Others, gateVars
  <2>2. UNCHANGED disp
    BY <1>35, Zenon DEF CancelUnpause, Others
  <2>3. call.pc # "active" /\ call'.pc \notin {"mark", "accept", "requeue"}
    BY <1>35 DEF CancelUnpause, NoCall
  <2>4. QED  BY <2>1, <2>2, <2>3, SoundQuiet
<1>36. CASE Enqueue
  <2>1. /\ UNCHANGED <<turn, steerQ, active, crossed, applied, disp>> /\ call.pc = "idle"
        /\ enqueued' = enqueued + 1
    BY <1>36, Zenon DEF Enqueue, Others, NoKick
  <2>2. \E s \in {"queued", "blocked"} : st' = [st EXCEPT ![enqueued + 1] = s]
    BY <1>36 DEF Enqueue
  <2>3. call'.pc \in {"check", "steer"}
    BY <1>36 DEF Enqueue
  <2>4. enqueued \in Nat /\ \A j \in Items : j \in Nat
    BY DispatchAssumption DEF Typed, Counts, Items
  <2>5. UNCHANGED <<Owned, Waiting, Executing>>
    BY <2>1 DEF Owned, Waiting, Executing
  <2>6. SUFFICES ASSUME NEW i \in Items, i \notin crossed'
                 PROVE  (Held(i) /\ Single(i) /\ Fresh(i))'
    BY DEF Sound
  <2>7. i \notin crossed /\ Held(i) /\ Single(i) /\ Fresh(i)
    BY <2>1, <2>6 DEF Sound
  <2>8. Held(i)'
    BY <2>1, <2>2, <2>3, <2>4, <2>5, <2>7 DEF Held, HeldByDispatcher, HeldByCall, HeldByTurn,
          Fresh, Typed, Manifest, InFlight
  <2>9. Single(i)'
    BY <2>1, <2>7 DEF Single
  <2>10. Fresh(i)'
    BY <2>1, <2>2, <2>3, <2>4, <2>5, <2>7 DEF Fresh, Held, HeldByDispatcher, HeldByCall,
          HeldByTurn, Typed, Manifest, InFlight
  <2>11. QED  BY <2>8, <2>9, <2>10
<1>37. CASE Steer
  <2>1. UNCHANGED <<st, turn, steerQ, active, crossed, enqueued, applied>>
    BY <1>37, Zenon DEF Steer, Others, gateVars, diskVars
  <2>2. UNCHANGED disp
    BY <1>37, Zenon DEF Steer, NoKick, Others
  <2>3. call.pc # "active" /\ call'.pc \notin {"mark", "accept", "requeue"}
    BY <1>37 DEF Steer, NoCall
  <2>4. QED  BY <2>1, <2>2, <2>3, SoundQuiet
<1>38. CASE Resume
  <2>1. UNCHANGED <<st, turn, steerQ, active, crossed, enqueued, applied>>
    BY <1>38, Zenon DEF Resume, Others, gateVars
  <2>2. UNCHANGED disp \/ disp'.pc \notin {"admit", "unclaim", "start"}
    BY <1>38 DEF Resume, Kick, DispAt
  <2>3. UNCHANGED call
    BY <1>38, Zenon DEF Resume
  <2>4. QED  BY <2>1, <2>2, <2>3, SoundQuiet
<1>39. CASE Retry
  <2>1. UNCHANGED <<turn, steerQ, active, crossed, enqueued, call>> /\ call.pc = "idle"
    BY <1>39, Zenon DEF Retry, Others
  <2>2. UNCHANGED disp \/ disp'.pc \notin {"admit", "unclaim", "start"}
    BY <1>39 DEF Retry, Kick, DispAt
  <2>3. \E j \in Items : /\ st[j] \in {"uncertain", "blocked"}
        /\ st' = [st EXCEPT ![j] = "queued"] /\ applied' = [applied EXCEPT ![j] = 0]
    BY <1>39, Zenon DEF Retry
  <2>4. UNCHANGED <<Owned, Waiting, Executing>>
    BY <2>1 DEF Owned, Waiting, Executing
  <2>5. SUFFICES ASSUME NEW i \in Items, i \notin crossed'
                 PROVE  (Held(i) /\ Single(i) /\ Fresh(i))'
    BY DEF Sound
  <2>6. i \notin crossed /\ Held(i) /\ Single(i) /\ Fresh(i)
    BY <2>1, <2>5 DEF Sound
  <2>7. Held(i)'
    BY <2>1, <2>2, <2>3, <2>4, <2>6 DEF Held, HeldByDispatcher, HeldByCall, HeldByTurn, Typed,
          Manifest, InFlight
  <2>8. Single(i)'
    BY <2>1, <2>6 DEF Single
  <2>9. Fresh(i)'
    BY <2>1, <2>2, <2>3, <2>4, <2>6 DEF Fresh, Held, HeldByDispatcher, HeldByCall, HeldByTurn,
          Typed, Manifest, InFlight, Applications
  <2>10. QED  BY <2>7, <2>8, <2>9
<1>40. CASE Delete
  <2>1. UNCHANGED <<turn, steerQ, active, crossed, enqueued, applied, disp, call>> /\ call.pc = "idle"
    BY <1>40, Zenon DEF Delete, Others, NoKick
  <2>2. \E j \in Items : st[j] \in Pending /\ st' = [st EXCEPT ![j] = "none"]
    BY <1>40, Zenon DEF Delete
  <2>3. UNCHANGED <<Owned, Waiting, Executing>>
    BY <2>1 DEF Owned, Waiting, Executing
  <2>4. SUFFICES ASSUME NEW i \in Items, i \notin crossed'
                 PROVE  (Held(i) /\ Single(i) /\ Fresh(i))'
    BY DEF Sound
  <2>5. i \notin crossed /\ Held(i) /\ Single(i) /\ Fresh(i)
    BY <2>1, <2>4 DEF Sound
  <2>6. Held(i)'
    BY <2>1, <2>2, <2>3, <2>5 DEF Held, HeldByDispatcher, HeldByCall, HeldByTurn, Typed,
          Manifest, InFlight, Pending
  <2>7. Single(i)'
    BY <2>1, <2>5 DEF Single
  <2>8. Fresh(i)'
    BY <2>1, <2>2, <2>3, <2>5 DEF Fresh, Held, HeldByDispatcher, HeldByCall, HeldByTurn, Typed,
          Manifest
  <2>9. QED  BY <2>6, <2>7, <2>8
<1>41. CASE Cancel
  <2>1. UNCHANGED <<st, turn, steerQ, active, crossed, enqueued, applied>>
    BY <1>41, Zenon DEF Cancel, Others, gateVars
  <2>2. UNCHANGED disp
    BY <1>41, Zenon DEF Cancel, NoKick, Others
  <2>3. call.pc # "active" /\ call'.pc \notin {"mark", "accept", "requeue"}
    BY <1>41 DEF Cancel
  <2>4. QED  BY <2>1, <2>2, <2>3, SoundQuiet
<1>42. CASE RecoverCommit
  <2>1. UNCHANGED <<turn, steerQ, active, crossed, enqueued, applied, disp, call>> /\ rec.pc = "held"
    BY <1>42, Zenon DEF RecoverCommit, dispVars, historyVars
  <2>2. \A j \in Items : j \in Orphans => st[j] \in InFlight /\ j \notin rec.seen /\ j \notin active
    BY DEF Orphans
  <2>3. \A j \in Items : st'[j] = IF j \in Orphans /\ st[j] # "none" THEN "uncertain" ELSE st[j]
    BY <1>42 DEF RecoverCommit, Uncertain
  <2>4. /\ disp.pc \in {"admit", "unclaim", "start"} => disp.item \in rec.seen
        /\ call.pc \in {"accept", "requeue", "active"} => call.item \in rec.seen
    BY <2>1 DEF Locked, DispatcherAdmits, SteerAdmits
  <2>5. UNCHANGED <<Owned, Waiting, Executing>>
    BY <2>1 DEF Owned, Waiting, Executing
  <2>6. SUFFICES ASSUME NEW i \in Items, i \notin crossed'
                 PROVE  (Held(i) /\ Single(i) /\ Fresh(i))'
    BY DEF Sound
  <2>7. i \notin crossed /\ Held(i) /\ Single(i) /\ Fresh(i)
    BY <2>1, <2>6 DEF Sound
  <2>8. Held(i)'
    BY <2>1, <2>2, <2>3, <2>4, <2>5, <2>7 DEF Held, HeldByDispatcher, HeldByCall, HeldByTurn,
          InFlight
  <2>9. Single(i)'
    BY <2>1, <2>7 DEF Single
  <2>10. Fresh(i)'
    BY <2>1, <2>2, <2>3, <2>4, <2>5, <2>7 DEF Fresh, Held, HeldByDispatcher, HeldByCall,
          HeldByTurn, InFlight
  <2>11. QED  BY <2>8, <2>9, <2>10
<1>43. CASE BeginRotation \/ Close
  <2>1. UNCHANGED <<st, disp, call, turn, steerQ, active, crossed, enqueued, applied>>
    BY <1>43, Zenon DEF BeginRotation, diskVars, dispVars, historyVars, Close
  <2>2. QED  BY <2>1, SoundQuiet
<1>44. CASE Pause
  <2>1. UNCHANGED <<st, disp, call, turn, steerQ, active, crossed, enqueued, applied>>
    BY <1>44, Zenon DEF Pause, NoKick, Others
  <2>2. QED  BY <2>1, SoundQuiet
<1>45. CASE RecoverBegin
  <2>1. UNCHANGED <<st, disp, call, turn, steerQ, active, crossed, enqueued, applied>>
    BY <1>45, Zenon DEF RecoverBegin, diskVars, dispVars, historyVars
  <2>2. QED  BY <2>1, SoundQuiet
<1>46. QED  BY <1>1, <1>2, <1>3, <1>4, <1>5, <1>6, <1>7, <1>8, <1>9, <1>10, <1>11, <1>12, <1>13,
      <1>14, <1>15, <1>16, <1>17, <1>18, <1>19, <1>20, <1>21, <1>22, <1>23, <1>24, <1>25, <1>26,
      <1>27, <1>28, <1>29, <1>30, <1>31, <1>32, <1>33, <1>34, <1>35, <1>36, <1>37, <1>38, <1>39,
      <1>40, <1>41, <1>42, <1>43, <1>44, <1>45, Zenon DEF Next, Dispatcher, Turn, Gate,
      CallStep, User


-----------------------------------------------------------------------------
(* The theorems *)

\* An in-flight entry leaves the manifest only when its turn acknowledges it.
LEMMA AcknowledgedStep ==
    ASSUME Typed, Framed, Next,
           NEW i \in Items, st[i] \in InFlight, st'[i] = "none"
    PROVE  i \in Owned \cup crossed
<1>1. CASE DispatchSubmit
  <2>1. UNCHANGED st \/ st' = [st EXCEPT ![disp.item] = "blocked"]
    BY <1>1, Zenon DEF DispatchSubmit, diskVars
  <2>2. QED  BY <2>1 DEF Typed, Manifest, InFlight
<1>2. CASE DispatchClaim
  BY <1>2, DispatchAssumption DEF DispatchClaim, Typed, Manifest, InFlight, Pending,
        DispatcherState, CallState
<1>3. CASE DispatchUnclaim
  <2>1. \/ UNCHANGED st
        \/ st' = [st EXCEPT ![disp.item] = IF @ = "none" THEN @ ELSE "queued"]
    BY <1>3, Zenon DEF DispatchUnclaim
  <2>2. QED  BY <2>1 DEF Typed, Manifest, InFlight
<1>4. CASE ConsumeSteer
  <2> DEFINE h == Head(steerQ)
  <2>1. \/ st' = [st EXCEPT ![h] = IF @ = "none" THEN @ ELSE "steer_consumed"]
        \/ st' = Uncertain({h})
        \/ UNCHANGED st
    BY <1>4, Zenon DEF ConsumeSteer
  <2> HIDE DEF h
  <2>2. QED  BY <2>1 DEF Uncertain, Typed, Manifest, InFlight
<1>5. CASE FlushMark
  BY <1>5, FlushMarkEffect DEF Uncertain, Typed, Manifest, InFlight
<1>6. CASE TurnSnapshot
  <2>1. UNCHANGED st \/ \E S \in SUBSET turn.ids : st' = Uncertain(S)
    BY <1>6, Zenon DEF TurnSnapshot
  <2>2. QED  BY <2>1 DEF Uncertain, Typed, Manifest, InFlight
<1>7. CASE TurnAck
  <2>1. PICK j \in turn.todo :
          st' = [st EXCEPT ![j] = "none"] \/ st' = Uncertain({j}) \/ UNCHANGED st
    BY <1>7, TurnAckEffect
  <2>2. j \in Owned \cup crossed
    BY <1>7, <2>1 DEF TurnAck, Framed
  <2>3. CASE i = j
    BY <2>2, <2>3
  <2>4. CASE i # j
    BY <2>1, <2>4 DEF Uncertain, Typed, Manifest, InFlight
  <2>5. QED  BY <2>3, <2>4
<1>8. CASE Restart
  BY <1>8, DispatchAssumption DEF Restart, Uncertain, Typed, Manifest, InFlight, Pending,
        DispatcherState, CallState
<1>9. CASE SteerBegin
  BY <1>9, DispatchAssumption DEF SteerBegin, Typed, Manifest, InFlight, Pending, DispatcherState,
        CallState
<1>10. CASE SteerMark
  BY <1>10, DispatchAssumption DEF SteerMark, Typed, Manifest, InFlight, Pending, DispatcherState,
        CallState
<1>11. CASE SteerRequeue
  BY <1>11, DispatchAssumption DEF SteerRequeue, Typed, Manifest, InFlight, Pending,
        DispatcherState, CallState
<1>12. CASE CancelDiscard
  BY <1>12, DispatchAssumption DEF CancelDiscard, Typed, Manifest, InFlight, Pending,
        DispatcherState, CallState
<1>13. CASE Enqueue
  <2>1. \E s \in {"queued", "blocked"} : st' = [st EXCEPT ![enqueued + 1] = s]
    BY <1>13 DEF Enqueue
  <2>2. QED  BY <2>1 DEF Typed, Manifest, InFlight
<1>14. CASE Retry
  BY <1>14, DispatchAssumption DEF Retry, Typed, Manifest, InFlight, Pending, DispatcherState,
        CallState
<1>15. CASE Delete
  BY <1>15, DispatchAssumption DEF Delete, Typed, Manifest, InFlight, Pending, DispatcherState,
        CallState
<1>16. CASE RecoverCommit
  BY <1>16, DispatchAssumption DEF RecoverCommit, Uncertain, Orphans, Typed, Manifest, InFlight,
        Pending, DispatcherState, CallState
<1>17. CASE DispatchLoop \/ DispatchGate \/ DispatchScan \/ DispatchAdmit \/ DispatchStart
            \/ DispatchUntrack
  <2>1. UNCHANGED <<st>>
    BY <1>17, Zenon DEF DispatchLoop, diskVars, DispatchGate, DispatchScan, DispatchAdmit,
          DispatchStart, DispatchUntrack
  <2>2. QED  BY <2>1, SMT DEF InFlight
<1>18. CASE AgentStart \/ Unapplied \/ CloseIntake \/ FlushUntrack \/ TurnEnd \/ TurnIds \/
            TurnUntrack \/ TurnDeliver
  <2>1. UNCHANGED <<st>>
    BY <1>18, Zenon DEF AgentStart, diskVars, Unapplied, CloseIntake, FlushUntrack, TurnEnd,
          TurnIds, TurnUntrack, TurnDeliver
  <2>2. QED  BY <2>1, SMT DEF InFlight
<1>19. CASE PlainSubmit \/ BeginRotation \/ EndRotation \/ Close \/ Abort
  <2>1. UNCHANGED <<st>>
    BY <1>19, Zenon DEF PlainSubmit, diskVars, BeginRotation, EndRotation, Close, Abort
  <2>2. QED  BY <2>1, SMT DEF InFlight
<1>20. CASE CheckIdle \/ SteerAccept \/ SteerTrack \/ SteerEnd \/ CancelUnpause
  <2>1. UNCHANGED <<st>>
    BY <1>20, Zenon DEF CheckIdle, Others, diskVars, SteerAccept, SteerTrack, SteerEnd,
          CancelUnpause
  <2>2. QED  BY <2>1, SMT DEF InFlight
<1>21. CASE Steer \/ Pause \/ Resume \/ Cancel
  <2>1. UNCHANGED <<st>>
    BY <1>21, Zenon DEF Steer, Others, diskVars, Pause, Resume, Cancel
  <2>2. QED  BY <2>1, SMT DEF InFlight
<1>22. CASE RetryTimer \/ RecoverBegin
  <2>1. UNCHANGED <<st>>
    BY <1>22, Zenon DEF RetryTimer, diskVars, RecoverBegin
  <2>2. QED  BY <2>1, SMT DEF InFlight
<1>23. QED  BY <1>1, <1>2, <1>3, <1>4, <1>5, <1>6, <1>7, <1>8, <1>9, <1>10, <1>11, <1>12, <1>13,
      <1>14, <1>15, <1>16, <1>17, <1>18, <1>19, <1>20, <1>21, <1>22, Zenon DEF Next, Dispatcher,
      Turn, Gate, CallStep, User


\* The initial state satisfies the invariant.
LEMMA InitIInv == Init => IInv
<1> SUFFICES ASSUME Init
             PROVE  IInv
  OBVIOUS
<1>1. Flags
  BY Zenon DEF Init, Flags
<1>2. Manifest /\ Ownership /\ Applications
  BY DEF Init, Manifest, Ownership, Applications, Pending, InFlight
<1>3. DispatcherState
  BY DispatchAssumption DEF Init, DispatcherState, DispAt, DispPcs
<1>4. TurnState
  BY TurnNew, DispatchAssumption DEF Init, TurnState
<1>5. CallState
  BY CallIdle DEF Init, CallState, NoCall, NoRec
<1>6. Counts
  BY DispatchAssumption DEF Init, Counts, Kinds
<1>7. disp.pc = "idle" /\ turn = NoTurn /\ turn.pc = "none" /\ call.pc = "idle" /\ rec.pc = "idle"
  BY DEF Init, DispAt, NoTurn, NoCall, NoRec
<1>8. Gated
  BY <1>7 DEF Init, Gated, GateExclusive
<1>9. Locked
  BY <1>7 DEF Locked, DispatcherAdmits, SteerAdmits
<1>10. Owned = {} /\ Waiting = {} /\ turn.todo = {} /\ turn.ids = {}
  BY <1>7 DEF Init, NoTurn, Owned, Waiting
<1>11. Framed
  BY <1>7, <1>10 DEF Init, Framed
<1>12. Sound
  BY <1>7, <1>10 DEF Init, Sound, Held, Single, Fresh, HeldByDispatcher, HeldByCall, HeldByTurn
<1>13. QED  BY <1>1, <1>2, <1>3, <1>4, <1>5, <1>6, <1>8, <1>9, <1>11, <1>12 DEF IInv, Typed

\* Every step, and every stutter, keeps it.
LEMMA NextIInv == IInv /\ [Next]_vars => IInv'
<1> SUFFICES ASSUME IInv, [Next]_vars
             PROVE  IInv'
  OBVIOUS
<1>1. CASE Next
  BY <1>1, TypedStep, GatedStep, LockedStep, FramedStep, SoundStep DEF IInv
<1>2. CASE UNCHANGED vars
  <2>1. Typed'
    <3>1. Flags' /\ Manifest' /\ Ownership' /\ Applications' /\ Counts'
      BY <1>2, Zenon DEF vars, IInv, Typed, Flags, Manifest, Ownership, Counts, Applications
    <3>2. DispatcherState' /\ TurnState' /\ CallState'
      BY <1>2, Zenon DEF vars, IInv, Typed, DispatcherState, TurnState, CallState
    <3>3. QED  BY <3>1, <3>2 DEF Typed
  <2>2. Gated' /\ Locked'
    BY <1>2, Zenon DEF vars, IInv, Gated, GateExclusive, Locked, DispatcherAdmits, SteerAdmits
  <2>3. Framed'
    BY <1>2, FramedByCall, Zenon DEF vars, IInv
  <2>4. Sound'
    BY <1>2, SoundQuiet, Zenon DEF vars, IInv
  <2>5. QED  BY <2>1, <2>2, <2>3, <2>4 DEF IInv
<1>3. QED  BY <1>1, <1>2

\* In every behaviour, with any number of entries, users, failures, aborts and
\* restarts, the threads of the controller keep IInv: one holder for each entry,
\* an exclusive gate, and ownership that a recovery can see.
THEOREM DispatchInvariant == Spec => []IInv
<1>1. Init => IInv
  BY InitIInv
<1>2. IInv /\ [Next]_vars => IInv'
  BY NextIInv
<1>3. QED  BY <1>1, <1>2, PTL DEF Spec

\* The controller's and the manifest's state keep their types; the dispatcher's
\* retries stay within maxInboxDispatchRetryAttempts.
THEOREM DispatchTypes == Spec => []TypeOK
<1>1. Typed => TypeOK
  <2>1. SUFFICES ASSUME Typed
                 PROVE  TypeOK
    OBVIOUS
  <2>2. {paused, running, finishing, rotating, closed, pending, scheduled, unannounced}
          \subseteq BOOLEAN
    BY <2>1, Zenon DEF Typed, Flags
  <2>3. \A k \in DOMAIN steerQ : steerQ[k] \in Items
    BY <2>1, ElementOfSeq DEF Typed, TurnState
  <2>4. parked \in Nat /\ enqueued \in 0 .. NumItems
    BY <2>1, DispatchAssumption DEF Typed, Counts, Kinds
  <2>5. QED  BY <2>1, <2>2, <2>3, <2>4 DEF TypeOK, Typed, Manifest, Ownership, DispatcherState,
                TurnState, TurnType, Applications
<1>2. IInv => TypeOK
  BY <1>1 DEF IInv
<1>3. QED  BY <1>2, DispatchInvariant, PTL

\* admitGuardedTurn, finishGuardedTurn and beginRotation never let two turns in,
\* nor a rotation of the session during a turn.
THEOREM OneTurnAtATime == Spec => []GateExclusive
<1>1. IInv => GateExclusive
  BY DEF IInv, Gated
<1>2. QED  BY <1>1, DispatchInvariant, PTL

\* What a turn executes and the guidance waiting in its queue stay durably in
\* flight, against concurrent recoveries, rejected steers and lost races.
THEOREM StaysInFlight == Spec => []InFlightWhileExecuting
<1>1. IInv => InFlightWhileExecuting
  BY DEF IInv, Sound, Held, HeldByTurn, InFlightWhileExecuting
<1>2. QED  BY <1>1, DispatchInvariant, PTL

\* An entry runs as a turn or is consumed as guidance at most once for each time
\* a user asked for it.
THEOREM AppliedAtMostOnce == Spec => []AppliedOnce
<1>1. IInv => AppliedOnce
  BY DEF IInv, Sound, Fresh, AppliedOnce
<1>2. QED  BY <1>1, DispatchInvariant, PTL

\* onInboxTurnDone acknowledges what the turn applied and nothing else: no
\* in-flight entry leaves the inbox unread.
THEOREM OnlyAppliedIsAcknowledged == Spec => AcknowledgedWasApplied
<1> DEFINE Acknowledged ==
        \A i \in Items : st[i] \in InFlight /\ st'[i] = "none" => i \in Owned \cup crossed
<1>1. IInv /\ [Next]_vars => [Acknowledged]_vars
  <2>1. IInv /\ Next => Acknowledged
    BY AcknowledgedStep DEF IInv
  <2>2. QED  BY <2>1
<1>2. QED  BY <1>1, DispatchInvariant, PTL DEF Spec, AcknowledgedWasApplied
=============================================================================
