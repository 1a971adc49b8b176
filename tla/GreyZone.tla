------------------------------ MODULE GreyZone ------------------------------
(***************************************************************************)
(* Reuse of a cached result whose similarity is ambiguous ("grey"): the    *)
(* judge step of the L3 decision (judgeGrey in kernel/cache/l3.go) with    *)
(* the three memories it consults: promotion entries and rejections on     *)
(* disk (kernel/promote) and the verdict cache in memory                   *)
(* (kernel/judge/cache.go).                                                *)
(*                                                                         *)
(* The gateway serves requests concurrently; each memory has a mutex of    *)
(* its own, held for one List, Put, Delete, Add, Count, Get or Set, so a   *)
(* request is a sequence of such steps and requests interleave between     *)
(* them.  One source slice is modelled: its ID is a hash of its content,   *)
(* so entries of one slice have one content version and differ by query.   *)
(***************************************************************************)
EXTENDS Integers, FiniteSets

CONSTANTS Requests,     \* request goroutines
          Queries,
          Ttl,          \* promote_ttl_seconds
          VerdictTtl,   \* verdictTTL
          RejectLimit,  \* rejections that blacklist a pair
          CacheCap,     \* cacheCap
          MaxTime,      \* bound: the clock
          MaxLessons,   \* bound: rejections on file
          None

ASSUME GreyAssumption ==
  /\ Ttl \in Nat \ {0} /\ VerdictTtl \in Nat \ {0}
  /\ RejectLimit \in Nat \ {0} /\ CacheCap \in Nat \ {0}
  /\ MaxTime \in Nat /\ MaxLessons \in Nat
  /\ None \notin Queries

\* The primary rubric and the rephrased one of the consensus gate; a verdict
\* is cached per rubric and query.
Rubrics == {"p", "s"}
Keys    == Rubrics \X Queries

Verdicts == [confirm : BOOLEAN, until : Nat]
NoVerdict == [confirm |-> FALSE, until |-> 0]

VARIABLES
  now,      \* the clock, which starts at 1
  entries,  \* PromotedAt of each query's promotion entry, 0 if there is none
  lessons,  \* the rejections on file; equal ones are told apart by n
  cache,    \* the verdict cache, NoVerdict if there is no entry
  made,     \* CachedJudge.Cache is not nil
  warming,  \* inflight: keys a background call is retrying
  req,      \* each request's local state
  opinion   \* ghost: when the judge itself last approved each key, 0 if never

vars == <<now, entries, lessons, cache, made, warming, req, opinion>>

Lessons == [q : Queries, at : Nat, n : Nat]

Stages == {"idle", "list", "sweep", "reused", "ask", "make", "get", "wait", "lesson", "check", "put"}

(***************************************************************************)
(* at: the request's time.Now(), read once.  todo: expired entries of its  *)
(* snapshot still to be deleted.  hit: Lookup's answer.  seen: ghost, the  *)
(* rejections of its query on file when it began, until Count fails.       *)
(***************************************************************************)
Local == [pc : Stages, q : Queries \cup {None}, at : Nat, rubric : Rubrics,
          todo : SUBSET Queries, hit : BOOLEAN, seen : SUBSET Lessons]

State(pc, q, at, rubric, todo, hit, seen) ==
  [pc |-> pc, q |-> q, at |-> at, rubric |-> rubric, todo |-> todo, hit |-> hit, seen |-> seen]

Idle == State("idle", None, 0, "p", {}, FALSE, {})

Init ==
  /\ now = 1
  /\ entries = [q \in Queries |-> 0]
  /\ lessons = {}
  /\ cache = [k \in Keys |-> NoVerdict]
  /\ made = FALSE
  /\ warming = {}
  /\ req = [r \in Requests |-> Idle]
  /\ opinion = [k \in Keys |-> 0]

\* Request r goes on to stage pc.
Goto(r, pc) ==
  req' = [req EXCEPT ![r] =
            State(pc, req[r].q, req[r].at, req[r].rubric, {}, FALSE, req[r].seen)]

Done(r) == req' = [req EXCEPT ![r] = Idle]

Tick ==
  /\ now < MaxTime
  /\ now' = now + 1
  /\ UNCHANGED <<entries, lessons, cache, warming, req, opinion, made>>

-----------------------------------------------------------------------------
\* Decision.Lookup.

\* Outside the TTL window, seen at time t.
expiredBy(promotedAt, t) == t - promotedAt > Ttl

\* A grey candidate: the request reads the clock.
Start(r, q) ==
  /\ req[r].pc = "idle"
  /\ req' = [req EXCEPT ![r] =
               State("list", q, now, "p", {}, FALSE, {l \in lessons : l.q = q})]
  /\ UNCHANGED <<now, entries, lessons, cache, warming, opinion, made>>

\* Stand-in for Looked that forgets the TTL of the entry it hits.
LookedWithoutTtl(es, r) ==
  State("sweep", req[r].q, req[r].at, "p",
        {q \in Queries : es[q] # 0 /\ expiredBy(es[q], req[r].at)},
        es[req[r].q] # 0,
        req[r].seen)

\* What Lookup concludes from its snapshot es.
Looked(es, r) ==
  State("sweep", req[r].q, req[r].at, "p",
        {q \in Queries : es[q] # 0 /\ expiredBy(es[q], req[r].at)},
        es[req[r].q] # 0 /\ ~expiredBy(es[req[r].q], req[r].at),
        req[r].seen)

List(r) ==
  /\ req[r].pc = "list"
  /\ req' = [req EXCEPT ![r] = Looked(entries, r)]
  /\ UNCHANGED <<now, entries, lessons, cache, warming, opinion, made>>

\* A store that cannot be read is a miss.
ListFails(r) ==
  /\ req[r].pc = "list"
  /\ Goto(r, "ask")
  /\ UNCHANGED <<now, entries, lessons, cache, warming, opinion, made>>

\* Delete one expired entry of the snapshot, by its key.
Sweep(r, q) ==
  /\ req[r].pc = "sweep"
  /\ q \in req[r].todo
  /\ entries' = [entries EXCEPT ![q] = 0]
  /\ req' = [req EXCEPT ![r] = State("sweep", req[r].q, req[r].at, "p",
                                     req[r].todo \ {q}, req[r].hit, req[r].seen)]
  /\ UNCHANGED <<now, lessons, cache, warming, opinion, made>>

\* Lookup returns, having deleted everything or having failed to delete one.
\* A promoted pair skips the judge; any other asks it.
EndLookup(r) ==
  /\ req[r].pc = "sweep"
  /\ Goto(r, IF req[r].hit THEN "reused" ELSE "ask")
  /\ UNCHANGED <<now, entries, lessons, cache, warming, opinion, made>>

Reply(r) ==
  /\ req[r].pc = "reused"
  /\ Done(r)
  /\ UNCHANGED <<now, entries, lessons, cache, warming, opinion, made>>

-----------------------------------------------------------------------------
(***************************************************************************)
(* CachedJudge.confirm, once per rubric.  The judge is external: it may    *)
(* approve, decline, or fail, and may take any time to do so.              *)
(***************************************************************************)

\* VerdictCache.Get at time t: an expired verdict is a miss.
Get(c, k, t) == IF c[k].until < t THEN NoVerdict ELSE c[k]

Held(c) == {k \in Keys : c[k] # NoVerdict}
Size(c) == Cardinality(Held(c))

\* Stand-in for Set that makes room but does not check that it has.
SetUnbounded(c, k, ok, t) ==
  LET kept == IF Size(c) < CacheCap THEN c
              ELSE [x \in Keys |-> IF c[x].until < t THEN NoVerdict ELSE c[x]]
  IN  [kept EXCEPT ![k] = [confirm |-> ok, until |-> t + VerdictTtl]]

\* VerdictCache.Set at time t: over capacity, expired verdicts go; if that is
\* not enough the new one is dropped.
Set(c, k, ok, t) ==
  LET kept == IF Size(c) < CacheCap THEN c
              ELSE [x \in Keys |-> IF c[x].until < t THEN NoVerdict ELSE c[x]]
  IN  IF Size(kept) < CacheCap
      THEN [kept EXCEPT ![k] = [confirm |-> ok, until |-> t + VerdictTtl]]
      ELSE kept

\* Confirm and ConfirmSecondary: the remote model approves, or declines.
Opine(k, ok) == opinion' = IF ok THEN [opinion EXCEPT ![k] = now] ELSE opinion

\* After a verdict: both rubrics must approve before a promotion is tried,
\* and a decline of either is recorded.
Ruled(r, ok) ==
  IF ~ok THEN Goto(r, "lesson")
  ELSE IF req[r].rubric = "s" THEN Goto(r, "check")
  ELSE req' = [req EXCEPT ![r] =
                 State("ask", req[r].q, req[r].at, "s", {}, FALSE, req[r].seen)]

\* The fingerprint gate rejects before the judge is asked.
FingerprintReject(r) ==
  /\ req[r].pc = "ask"
  /\ req[r].rubric = "p"
  /\ Done(r)
  /\ UNCHANGED <<now, entries, lessons, cache, warming, opinion, made>>

\* CachedJudge.confirm makes its cache on first use, without a lock: requests
\* that all found none each put an empty one in its place.
SeeNil(r) ==
  /\ req[r].pc = "ask"
  /\ ~made
  /\ Goto(r, "make")
  /\ UNCHANGED <<now, entries, lessons, cache, warming, opinion, made>>

NewVerdictCache(r) ==
  /\ req[r].pc = "make"
  /\ cache' = [k \in Keys |-> NoVerdict]
  /\ made' = TRUE
  /\ Goto(r, "get")
  /\ UNCHANGED <<now, entries, lessons, warming, opinion>>

Ask(r) ==
  /\ req[r].pc = "get" \/ (req[r].pc = "ask" /\ made)
  /\ LET k == <<req[r].rubric, req[r].q>>
         v == Get(cache, k, now)
     IN  /\ cache' = [cache EXCEPT ![k] = v]
         /\ IF v = NoVerdict THEN Goto(r, "wait") ELSE Ruled(r, v.confirm)
  /\ UNCHANGED <<now, entries, lessons, warming, opinion, made>>

Answer(r, ok) ==
  /\ req[r].pc = "wait"
  /\ LET k == <<req[r].rubric, req[r].q>>
     IN  cache' = Set(cache, k, ok, now) /\ Opine(k, ok)
  /\ Ruled(r, ok)
  /\ UNCHANGED <<now, entries, lessons, warming, made>>

\* The call fails or times out: nothing is cached, nothing recorded, the
\* candidate is refused and the call is retried once in the background.
JudgeFails(r) ==
  /\ req[r].pc = "wait"
  /\ warming' = warming \cup {<<req[r].rubric, req[r].q>>}
  /\ Done(r)
  /\ UNCHANGED <<now, entries, lessons, cache, opinion, made>>

Warm(k, ok) ==
  /\ k \in warming
  /\ warming' = warming \ {k}
  /\ cache' = Set(cache, k, ok, now)
  /\ Opine(k, ok)
  /\ UNCHANGED <<now, entries, lessons, req, made>>

WarmFails(k) ==
  /\ k \in warming
  /\ warming' = warming \ {k}
  /\ UNCHANGED <<now, entries, lessons, cache, req, opinion, made>>

-----------------------------------------------------------------------------
\* Decision.Rejected and Decision.Promote.

\* An Add that fails is ignored.
Rejected(r) ==
  /\ req[r].pc = "lesson"
  /\ \/ /\ Cardinality(lessons) < MaxLessons
        /\ LET same == {l \in lessons : l.q = req[r].q /\ l.at = req[r].at}
           IN  lessons' = lessons \cup
                 {[q |-> req[r].q, at |-> req[r].at, n |-> Cardinality(same)]}
     \/ UNCHANGED lessons
  /\ Done(r)
  /\ UNCHANGED <<now, entries, cache, warming, opinion, made>>

\* The rejections Count keeps on file at time t.
InWindow(ls, t) == {l \in ls : t - l.at <= Ttl}

\* Stand-in for Blacklisted that takes one rejection more.
BlacklistedLate(r) ==
  /\ req[r].pc = "check"
  /\ lessons' = InWindow(lessons, req[r].at)
  /\ IF Cardinality({l \in lessons' : l.q = req[r].q}) > RejectLimit
     THEN Done(r)
     ELSE Goto(r, "put")
  /\ UNCHANGED <<now, entries, cache, warming, opinion, made>>

\* Decision.Blacklisted: count, dropping what is out of the window.
Blacklisted(r) ==
  /\ req[r].pc = "check"
  /\ lessons' = InWindow(lessons, req[r].at)
  /\ IF Cardinality({l \in lessons' : l.q = req[r].q}) >= RejectLimit
     THEN Done(r)
     ELSE Goto(r, "put")
  /\ UNCHANGED <<now, entries, cache, warming, opinion, made>>

\* A Count that fails blacklists nothing.
CountFails(r) ==
  /\ req[r].pc = "check"
  /\ req' = [req EXCEPT ![r] = [@ EXCEPT !.pc = "put", !.seen = {}]]
  /\ UNCHANGED <<now, entries, lessons, cache, warming, opinion, made>>

\* Store.Put: an entry of the same key stays as it is, and a Put that fails
\* is ignored.
Put(r) ==
  /\ req[r].pc = "put"
  /\ \/ /\ entries[req[r].q] = 0
        /\ entries' = [entries EXCEPT ![req[r].q] = req[r].at]
     \/ UNCHANGED entries
  /\ Done(r)
  /\ UNCHANGED <<now, lessons, cache, warming, opinion, made>>

\* The gateway is restarted; the two files are replaced by rename and survive.
Restart ==
  /\ cache' = [k \in Keys |-> NoVerdict]
  /\ warming' = {}
  /\ req' = [r \in Requests |-> Idle]
  /\ made' = FALSE
  /\ UNCHANGED <<now, entries, lessons, opinion>>

Next ==
  \/ Tick \/ Restart
  \/ \E r \in Requests :
       \/ \E q \in Queries : Start(r, q) \/ Sweep(r, q)
       \/ List(r) \/ ListFails(r) \/ EndLookup(r) \/ Reply(r)
       \/ FingerprintReject(r) \/ SeeNil(r) \/ NewVerdictCache(r) \/ Ask(r) \/ JudgeFails(r)
       \/ \E ok \in BOOLEAN : Answer(r, ok)
       \/ Rejected(r) \/ Blacklisted(r) \/ CountFails(r) \/ Put(r)
  \/ \E k \in Keys : WarmFails(k) \/ \E ok \in BOOLEAN : Warm(k, ok)

Spec == Init /\ [][Next]_vars

-----------------------------------------------------------------------------
\* Every variable has its type, and the verdict cache stays within cacheCap
\* whatever requests and background retries store in it.
TypeOK ==
  /\ now \in Nat \ {0}
  /\ entries \in [Queries -> Nat]
  /\ lessons \subseteq Lessons
  /\ cache \in [Keys -> Verdicts]
  /\ made \in BOOLEAN
  /\ warming \subseteq Keys
  /\ req \in [Requests -> Local]
  /\ opinion \in [Keys -> Nat]
  /\ Size(cache) <= CacheCap

(***************************************************************************)
(* "Verified" never exempts from the TTL, through both memories: a result  *)
(* reused without asking the judge rests on an approval of that query by   *)
(* each of the two rubrics, given by the judge itself and not more than    *)
(* the promotion TTL plus the verdict TTL before the request.  (The entry  *)
(* is dated when the request that wrote it began, and that request may     *)
(* have taken either verdict from the cache.)                              *)
(***************************************************************************)
ReuseRestsOnOpinion ==
  \A r \in Requests : req[r].pc = "reused" =>
    \A rubric \in Rubrics :
      LET o == opinion[<<rubric, req[r].q>>]
      IN  o # 0 /\ req[r].at - o <= Ttl + VerdictTtl

(***************************************************************************)
(* Repeated failures hard-block promotion: rejections that were on file    *)
(* when a request began and are still in the window keep it from writing   *)
(* an entry, whatever other requests record, count or expire meanwhile,    *)
(* unless the count itself failed.  A lesson recorded between a request's  *)
(* count and its write does not stop it, and is not spoken of here.        *)
(***************************************************************************)
LessonsBlock ==
  \A r \in Requests : req[r].pc = "put" =>
    Cardinality(InWindow(req[r].seen, now)) < RejectLimit

(***************************************************************************)
(* What Decision.Lookup says of its clean-up: a Promote that lands between *)
(* the snapshot and the clean-up is never mistaken for an expired entry,   *)
(* so no entry inside its TTL is ever deleted.                             *)
(***************************************************************************)
FreshStays ==
  [][\A q \in Queries : entries[q] # 0 /\ entries'[q] = 0 => expiredBy(entries[q], now)]_vars
=============================================================================
