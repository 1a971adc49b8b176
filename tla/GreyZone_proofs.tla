--------------------------- MODULE GreyZone_proofs --------------------------
(***************************************************************************)
(* Proofs about GreyZone, for any number of requests and queries, every    *)
(* TTL, limit and capacity.                                                *)
(***************************************************************************)
EXTENDS GreyZone, FiniteSetTheorems, TLAPS

-----------------------------------------------------------------------------
(***************************************************************************)
(* The inductive invariant.                                                *)
(***************************************************************************)

\* A request that is being served has a query, and its clock is in the past.
Serving ==
  \A r \in Requests : /\ req[r].at <= now
                      /\ req[r].pc # "idle" => req[r].q \in Queries

\* The files and the cache hold finitely many things; no approval is in the
\* future.
Finite ==
  /\ IsFiniteSet(lessons)
  /\ IsFiniteSet(Held(cache))
  /\ \A k \in Keys : opinion[k] <= now

Base == TypeOK /\ Finite /\ Serving

\* The judge approved k, not more than d before time t.
Approved(k, t, d) == opinion[k] # 0 /\ t <= opinion[k] + d

\* The chain of approvals: from the judge to the cache, to an entry, and to a
\* request that has passed one rubric or both or has found the entry.
CacheRests ==
  \A k \in Keys : cache[k].confirm => Approved(k, cache[k].until, VerdictTtl)

EntriesRest ==
  \A q \in Queries : entries[q] # 0 =>
    \A b \in Rubrics : Approved(<<b, q>>, entries[q], VerdictTtl)

RequestRests(r) ==
  /\ req[r].pc \in {"list", "sweep"} => req[r].rubric = "p"
  /\ req[r].pc \in {"ask", "make", "get", "wait"} /\ req[r].rubric = "s" =>
       Approved(<<"p", req[r].q>>, req[r].at, VerdictTtl)
  /\ req[r].pc \in {"check", "put"} =>
       \A b \in Rubrics : Approved(<<b, req[r].q>>, req[r].at, VerdictTtl)
  /\ req[r].pc = "reused" \/ (req[r].pc = "sweep" /\ req[r].hit) =>
       \A b \in Rubrics : Approved(<<b, req[r].q>>, req[r].at, Ttl + VerdictTtl)

Chain == CacheRests /\ EntriesRest /\ \A r \in Requests : RequestRests(r)

\* A lesson that was on file when a request began leaves it only once it is
\* out of the window; enough of them keep it from writing an entry.
Kept(r) ==
  /\ \A l \in req[r].seen : l.q = req[r].q
  /\ IsFiniteSet(req[r].seen)
  /\ InWindow(req[r].seen, now) \subseteq lessons
  /\ req[r].pc = "put" => Cardinality(InWindow(req[r].seen, now)) < RejectLimit

Inv == Base /\ Chain /\ \A r \in Requests : Kept(r)

-----------------------------------------------------------------------------
(***************************************************************************)
(* Facts about the operators.                                              *)
(***************************************************************************)

\* The constructor builds a request's state.
LEMMA StateType ==
  ASSUME NEW pc \in Stages, NEW q \in Queries \cup {None}, NEW at \in Nat,
         NEW b \in Rubrics, NEW todo \in SUBSET Queries, NEW hit \in BOOLEAN,
         NEW seen \in SUBSET Lessons
  PROVE  State(pc, q, at, b, todo, hit, seen) \in Local
BY DEF State, Local

\* What the parts of a request's state are.
LEMMA LocalFields ==
  ASSUME NEW x \in Local
  PROVE  /\ x.pc \in Stages /\ x.q \in Queries \cup {None} /\ x.at \in Nat
         /\ x.rubric \in Rubrics /\ x.todo \in SUBSET Queries /\ x.hit \in BOOLEAN
         /\ x.seen \in SUBSET Lessons
BY DEF Local

\* An idle request is a request.
LEMMA IdleType == Idle \in Local
BY StateType DEF Idle, Stages, Rubrics

\* Storing a verdict keeps the cache a cache, within its capacity, and
\* changes no key but k to anything but a miss.
LEMMA SetFacts ==
  ASSUME NEW c \in [Keys -> Verdicts], NEW k \in Keys, NEW ok \in BOOLEAN, NEW t \in Nat,
         IsFiniteSet(Held(c)), Size(c) <= CacheCap
  PROVE  /\ Set(c, k, ok, t) \in [Keys -> Verdicts]
         /\ IsFiniteSet(Held(Set(c, k, ok, t)))
         /\ Size(Set(c, k, ok, t)) <= CacheCap
         /\ \A x \in Keys : \/ Set(c, k, ok, t)[x] \in {c[x], NoVerdict}
                            \/ x = k /\ Set(c, k, ok, t)[x] = [confirm |-> ok, until |-> t + VerdictTtl]
<1> DEFINE kept == IF Size(c) < CacheCap THEN c
                   ELSE [x \in Keys |-> IF c[x].until < t THEN NoVerdict ELSE c[x]]
           v == [confirm |-> ok, until |-> t + VerdictTtl]
           s == Set(c, k, ok, t)
<1>1. NoVerdict \in Verdicts /\ v \in Verdicts
  BY GreyAssumption DEF NoVerdict, Verdicts
<1>2. kept \in [Keys -> Verdicts] /\ \A x \in Keys : kept[x] \in {c[x], NoVerdict}
  BY <1>1
<1>3. Held(kept) \subseteq Held(c)
  BY <1>2 DEF Held
<1>4. /\ IsFiniteSet(Held(kept)) /\ Cardinality(Held(kept)) \in Nat
      /\ Cardinality(Held(kept)) <= CacheCap
  <2>1. IsFiniteSet(Held(kept)) /\ Cardinality(Held(kept)) <= Cardinality(Held(c))
    BY <1>3, FS_Subset
  <2>2. Cardinality(Held(kept)) \in Nat /\ Cardinality(Held(c)) \in Nat
    BY <2>1, FS_CardinalityType
  <2> QED BY <2>1, <2>2, GreyAssumption DEF Size
<1>5. s = IF Cardinality(Held(kept)) < CacheCap THEN [kept EXCEPT ![k] = v] ELSE kept
  BY DEF Set, Size
<1>6. CASE s = kept
  <2> HIDE DEF kept, s
  <2> QED BY <1>2, <1>4, <1>6 DEF Size, s
<1>7. CASE Cardinality(Held(kept)) < CacheCap /\ s = [kept EXCEPT ![k] = v]
  <2>1. s \in [Keys -> Verdicts] /\ \A x \in Keys : s[x] = IF x = k THEN v ELSE kept[x]
    BY <1>1, <1>2, <1>7
  <2> HIDE DEF kept, s, v
  <2>2. Held(s) \subseteq Held(kept) \cup {k}
    BY <2>1 DEF Held
  <2>3. /\ IsFiniteSet(Held(kept) \cup {k})
        /\ Cardinality(Held(kept) \cup {k}) <= CacheCap
        /\ Cardinality(Held(kept) \cup {k}) \in Nat
    <3>1. /\ IsFiniteSet(Held(kept) \cup {k})
          /\ Cardinality(Held(kept) \cup {k}) \in
               {Cardinality(Held(kept)), Cardinality(Held(kept)) + 1}
      BY <1>4, FS_AddElement
    <3> QED BY <1>4, <1>7, <3>1, GreyAssumption
  <2>4. IsFiniteSet(Held(s)) /\ Cardinality(Held(s)) <= CacheCap
    <3>1. IsFiniteSet(Held(s)) /\ Cardinality(Held(s)) <= Cardinality(Held(kept) \cup {k})
      BY <2>2, <2>3, FS_Subset
    <3>2. Cardinality(Held(s)) \in Nat
      BY <3>1, FS_CardinalityType
    <3> QED BY <2>3, <3>1, <3>2, GreyAssumption
  <2>5. \A x \in Keys : s[x] \in {c[x], NoVerdict} \/ (x = k /\ s[x] = v)
    BY <1>2, <2>1
  <2> QED BY <2>1, <2>4, <2>5 DEF Size, s, v
<1> QED BY <1>5, <1>6, <1>7

\* The key a request asks about is a key.
LEMMA KeyType ==
  ASSUME NEW r \in Requests, req[r] \in Local, req[r].q \in Queries
  PROVE  <<req[r].rubric, req[r].q>> \in Keys
BY LocalFields DEF Keys

\* A step of r's own leaves every other request alone.
LEMMA MoveFacts ==
  ASSUME req \in [Requests -> Local], NEW r \in Requests, NEW x \in Local,
         req' = [req EXCEPT ![r] = x]
  PROVE  /\ req' \in [Requests -> Local] /\ req'[r] = x
         /\ \A i \in Requests : i # r => req'[i] = req[i]
OBVIOUS

\* Going on to another stage keeps the query, the time, the rubric and the
\* lessons seen.
LEMMA GotoFacts ==
  ASSUME req \in [Requests -> Local], NEW r \in Requests, NEW pc \in Stages, Goto(r, pc)
  PROVE  /\ req' \in [Requests -> Local]
         /\ req'[r].pc = pc /\ req'[r].q = req[r].q /\ req'[r].at = req[r].at
         /\ req'[r].rubric = req[r].rubric /\ req'[r].seen = req[r].seen
         /\ \A i \in Requests : i # r => req'[i] = req[i]
<1> DEFINE x == State(pc, req[r].q, req[r].at, req[r].rubric, {}, FALSE, req[r].seen)
<1>1. req[r] \in Local
  OBVIOUS
<1>2. x \in Local
  BY <1>1, LocalFields, StateType
<1>3. req' = [req EXCEPT ![r] = x]
  BY DEF Goto
<1>4. req' \in [Requests -> Local] /\ req'[r] = x /\ \A i \in Requests : i # r => req'[i] = req[i]
  BY <1>2, <1>3, MoveFacts
<1>5. x.pc = pc /\ x.q = req[r].q /\ x.at = req[r].at /\ x.rubric = req[r].rubric /\ x.seen = req[r].seen
  BY DEF State
<1> QED BY <1>4, <1>5

\* A request that is done is idle.
LEMMA DoneFacts ==
  ASSUME req \in [Requests -> Local], NEW r \in Requests, Done(r)
  PROVE  /\ req' \in [Requests -> Local]
         /\ req'[r].pc = "idle" /\ req'[r].at = 0 /\ req'[r].seen = {} /\ req'[r] = Idle
         /\ \A i \in Requests : i # r => req'[i] = req[i]
BY IdleType, MoveFacts DEF Done, Idle, State

\* After a verdict a request records a lesson, asks with the second rubric or
\* goes on to promote; it has then passed the rubrics it has asked with.
LEMMA RuledFacts ==
  ASSUME req \in [Requests -> Local], NEW r \in Requests, NEW ok \in BOOLEAN, Ruled(r, ok)
  PROVE  /\ req' \in [Requests -> Local]
         /\ req'[r].q = req[r].q /\ req'[r].at = req[r].at /\ req'[r].seen = req[r].seen
         /\ \/ req'[r].pc = "lesson"
            \/ ok /\ req[r].rubric = "p" /\ req'[r].rubric = "s" /\ req'[r].pc = "ask"
            \/ ok /\ req[r].rubric = "s" /\ req'[r].pc = "check"
         /\ \A i \in Requests : i # r => req'[i] = req[i]
<1>1. CASE ~ok
  BY <1>1, GotoFacts DEF Ruled, Stages
<1>2. CASE ok /\ req[r].rubric = "s"
  BY <1>2, GotoFacts DEF Ruled, Stages
<1>3. CASE ok /\ req[r].rubric # "s"
  <2> DEFINE x == State("ask", req[r].q, req[r].at, "s", {}, FALSE, req[r].seen)
  <2>1. req[r] \in Local /\ "ask" \in Stages /\ "s" \in Rubrics
    BY DEF Stages, Rubrics
  <2>2. x \in Local /\ req[r].rubric = "p"
    BY <1>3, <2>1, LocalFields, StateType DEF Rubrics
  <2>3. req' = [req EXCEPT ![r] = x]
    BY <1>3 DEF Ruled
  <2>4. x.pc = "ask" /\ x.q = req[r].q /\ x.at = req[r].at /\ x.rubric = "s" /\ x.seen = req[r].seen
    BY DEF State
  <2> HIDE DEF x
  <2>5. req' \in [Requests -> Local] /\ req'[r] = x /\ \A i \in Requests : i # r => req'[i] = req[i]
    BY <2>2, <2>3, MoveFacts
  <2> QED BY <1>3, <2>2, <2>4, <2>5
<1> QED BY <1>1, <1>2, <1>3

-----------------------------------------------------------------------------
(***************************************************************************)
(* Types, the capacity of the cache, and the requests being served.        *)
(***************************************************************************)

\* What a request finds in its snapshot.
LEMMA LookedFacts ==
  ASSUME TypeOK, NEW r \in Requests
  PROVE  /\ Looked(entries, r) \in Local
         /\ Looked(entries, r).pc = "sweep" /\ Looked(entries, r).q = req[r].q
         /\ Looked(entries, r).at = req[r].at /\ Looked(entries, r).seen = req[r].seen
         /\ Looked(entries, r).rubric = "p"
         /\ Looked(entries, r).hit =
              (entries[req[r].q] # 0 /\ ~expiredBy(entries[req[r].q], req[r].at))
<1>1. req[r] \in Local
  BY DEF TypeOK
<1> DEFINE todo == {q \in Queries : entries[q] # 0 /\ expiredBy(entries[q], req[r].at)}
           hit  == entries[req[r].q] # 0 /\ ~expiredBy(entries[req[r].q], req[r].at)
<1>2. todo \in SUBSET Queries /\ hit \in BOOLEAN /\ "sweep" \in Stages /\ "p" \in Rubrics
  BY DEF Stages, Rubrics
<1>3. Looked(entries, r) = State("sweep", req[r].q, req[r].at, "p", todo, hit, req[r].seen)
  BY DEF Looked
<1> HIDE DEF todo, hit
<1>4. Looked(entries, r) \in Local
  BY <1>1, <1>2, <1>3, LocalFields, StateType
<1>5. /\ Looked(entries, r).pc = "sweep" /\ Looked(entries, r).q = req[r].q
      /\ Looked(entries, r).at = req[r].at /\ Looked(entries, r).seen = req[r].seen
      /\ Looked(entries, r).hit = hit /\ Looked(entries, r).rubric = "p"
  BY <1>3 DEF State
<1> QED BY <1>4, <1>5 DEF hit

\* A verdict of the judge itself is dated now.
LEMMA OpineFacts ==
  ASSUME TypeOK, Finite, NEW k \in Keys, NEW ok \in BOOLEAN, Opine(k, ok), now' = now
  PROVE  /\ opinion' \in [Keys -> Nat]
         /\ \A x \in Keys : opinion'[x] <= now' /\ opinion'[x] >= opinion[x]
         /\ ok => opinion'[k] = now
BY DEF Opine, TypeOK, Finite

\* What is left to show of a step of r that neither reads a verdict nor
\* stores one.
LEMMA BaseFrame ==
  ASSUME Base, NEW r \in Requests, UNCHANGED <<now, cache, opinion>>,
         entries' \in [Queries -> Nat], lessons' \subseteq Lessons, IsFiniteSet(lessons'),
         made' \in BOOLEAN, warming' \subseteq Keys, req' \in [Requests -> Local],
         req'[r].at <= now, req'[r].pc # "idle" => req'[r].q \in Queries,
         \A i \in Requests : i # r => req'[i] = req[i]
  PROVE  Base'
<1>1. Held(cache') = Held(cache) /\ Size(cache') = Size(cache)
  BY DEF Held, Size
<1>2. TypeOK' /\ Finite'
  BY <1>1 DEF Base, TypeOK, Finite
<1>3. Serving'
  BY DEF Base, Serving
<1> QED BY <1>2, <1>3 DEF Base

\* Every step keeps Base.
LEMMA BaseStep ==
  ASSUME Base, [Next]_vars
  PROVE  Base'
<1> USE DEF Base
<1>1. CASE UNCHANGED vars
  BY <1>1 DEF vars, TypeOK, Finite, Serving, Held, Size, Keys
<1>2. CASE Tick
  BY <1>2, LocalFields DEF Tick, TypeOK, Finite, Serving, Held, Size
<1>3. CASE Restart
  <2>1. Held(cache') = {}
    BY <1>3 DEF Restart, Held
  <2>2. IsFiniteSet(Held(cache')) /\ Cardinality(Held(cache')) = 0
    BY <2>1, FS_EmptySet
  <2>3. Idle.at = 0 /\ Idle.pc = "idle" /\ NoVerdict \in Verdicts
    BY DEF Idle, State, NoVerdict, Verdicts
  <2>4. made' \in BOOLEAN
    BY <1>3, Zenon DEF Restart
  <2>5. /\ UNCHANGED <<now, entries, lessons, opinion>> /\ warming' = {}
        /\ cache' = [k \in Keys |-> NoVerdict] /\ req' = [r \in Requests |-> Idle]
    BY <1>3 DEF Restart
  <2> QED BY <2>2, <2>3, <2>4, <2>5, IdleType, GreyAssumption DEF TypeOK, Finite, Serving, Size
<1>4. ASSUME NEW r \in Requests, NEW q \in Queries, Start(r, q)
      PROVE  Base'
  <2> DEFINE x == State("list", q, now, "p", {}, FALSE, {l \in lessons : l.q = q})
  <2>1. x \in Local
    BY StateType DEF TypeOK, Stages, Rubrics
  <2>2. x.at = now /\ x.q = q
    BY DEF State
  <2>3. req' = [req EXCEPT ![r] = x]
    BY <1>4 DEF Start
  <2> HIDE DEF x
  <2>4. /\ req' \in [Requests -> Local] /\ req'[r].at <= now /\ req'[r].q \in Queries
        /\ \A i \in Requests : i # r => req'[i] = req[i]
    BY <2>1, <2>2, <2>3, MoveFacts DEF TypeOK
  <2>5. UNCHANGED <<now, entries, lessons, cache, made, warming, opinion>>
    BY <1>4 DEF Start
  <2> QED BY <2>4, <2>5, BaseFrame DEF TypeOK, Finite
<1>5. ASSUME NEW r \in Requests, List(r)
      PROVE  Base'
  BY <1>5, LookedFacts, MoveFacts DEF List, TypeOK, Finite, Serving, Held, Size
<1>6. ASSUME NEW r \in Requests, NEW q \in Queries, Sweep(r, q)
      PROVE  Base'
  <2> DEFINE x == State("sweep", req[r].q, req[r].at, "p", req[r].todo \ {q}, req[r].hit, req[r].seen)
  <2>1. req[r] \in Local /\ "sweep" \in Stages /\ "p" \in Rubrics
    BY DEF TypeOK, Stages, Rubrics
  <2>2. req[r].todo \ {q} \in SUBSET Queries
    BY <2>1, LocalFields
  <2>3. x \in Local
    BY <2>1, <2>2, LocalFields, StateType
  <2>4. x.at = req[r].at /\ x.q = req[r].q
    BY DEF State
  <2>5. req' = [req EXCEPT ![r] = x]
    BY <1>6 DEF Sweep
  <2> HIDE DEF x
  <2> QED BY <1>6, <2>3, <2>4, <2>5, MoveFacts DEF Sweep, TypeOK, Finite, Serving, Held, Size
<1>7. ASSUME NEW r \in Requests, EndLookup(r) \/ ListFails(r)
      PROVE  Base'
  <2>1. PICK pc \in {"reused", "ask"} : Goto(r, pc)
    BY <1>7 DEF EndLookup, ListFails
  <2>2. pc \in Stages /\ req[r].pc # "idle"
    BY <1>7 DEF EndLookup, ListFails, Stages
  <2>3. UNCHANGED <<now, entries, lessons, cache, made, warming, opinion>>
    BY <1>7 DEF EndLookup, ListFails
  <2>4. /\ req' \in [Requests -> Local] /\ req'[r].q = req[r].q /\ req'[r].at = req[r].at
        /\ \A i \in Requests : i # r => req'[i] = req[i]
    BY <2>1, <2>2, GotoFacts DEF TypeOK
  <2>5. req'[r].at <= now /\ req'[r].q \in Queries
    BY <2>2, <2>4 DEF Serving
  <2> QED BY <2>3, <2>4, <2>5, BaseFrame DEF TypeOK, Finite
<1>8. ASSUME NEW r \in Requests, Reply(r) \/ FingerprintReject(r)
      PROVE  Base'
  BY <1>8, DoneFacts, BaseFrame DEF Reply, FingerprintReject, TypeOK, Finite
<1>9. ASSUME NEW r \in Requests, Ask(r)
      PROVE  Base'
  <2> DEFINE k == <<req[r].rubric, req[r].q>>
             v == Get(cache, k, now)
  <2>1. k \in Keys /\ req[r].pc \in {"ask", "get"} /\ req \in [Requests -> Local]
    BY <1>9, KeyType DEF Ask, TypeOK, Serving
  <2>2. v \in {cache[k], NoVerdict} /\ NoVerdict \in Verdicts
    BY DEF Get, NoVerdict, Verdicts
  <2>3. cache' = [cache EXCEPT ![k] = v]
    BY <1>9 DEF Ask
  <2> HIDE DEF k, v
  <2>4. cache' \in [Keys -> Verdicts] /\ Held(cache') \subseteq Held(cache)
    BY <2>1, <2>2, <2>3 DEF TypeOK, Held
  <2>5. IsFiniteSet(Held(cache')) /\ Size(cache') <= CacheCap
    <3>1. IsFiniteSet(Held(cache')) /\ Cardinality(Held(cache')) <= Cardinality(Held(cache))
      BY <2>4, FS_Subset DEF Finite
    <3>2. Cardinality(Held(cache')) \in Nat /\ Cardinality(Held(cache)) \in Nat
      BY <3>1, FS_CardinalityType DEF Finite
    <3> QED BY <3>1, <3>2, GreyAssumption DEF TypeOK, Size
  <2>6. v \in Verdicts /\ v.confirm \in BOOLEAN
    BY <2>1, <2>2 DEF TypeOK, Verdicts
  <2>7. Goto(r, "wait") \/ Ruled(r, v.confirm)
    BY <1>9 DEF Ask, k, v
  <2>8. /\ req' \in [Requests -> Local] /\ req'[r].q = req[r].q /\ req'[r].at = req[r].at
        /\ \A i \in Requests : i # r => req'[i] = req[i]
    BY <2>1, <2>6, <2>7, GotoFacts, RuledFacts DEF Stages
  <2>9. UNCHANGED <<now, entries, lessons, made, warming, opinion>>
    BY <1>9 DEF Ask
  <2> QED BY <2>1, <2>4, <2>5, <2>8, <2>9 DEF TypeOK, Finite, Serving
<1>10. ASSUME NEW r \in Requests, NEW ok \in BOOLEAN, Answer(r, ok)
       PROVE  Base'
  <2> DEFINE k == <<req[r].rubric, req[r].q>>
  <2>1. k \in Keys /\ req[r].pc = "wait" /\ req \in [Requests -> Local]
    BY <1>10, KeyType DEF Answer, TypeOK, Serving
  <2>2. cache' = Set(cache, k, ok, now) /\ Opine(k, ok)
    BY <1>10 DEF Answer
  <2> HIDE DEF k
  <2>3. cache' \in [Keys -> Verdicts] /\ IsFiniteSet(Held(cache')) /\ Size(cache') <= CacheCap
    BY <2>1, <2>2, SetFacts DEF TypeOK, Finite
  <2>4. UNCHANGED <<now, entries, lessons, made, warming>>
    BY <1>10 DEF Answer
  <2>5. opinion' \in [Keys -> Nat] /\ \A x \in Keys : opinion'[x] <= now'
    BY <2>1, <2>2, <2>4, OpineFacts
  <2>6. /\ req' \in [Requests -> Local] /\ req'[r].q = req[r].q /\ req'[r].at = req[r].at
        /\ \A i \in Requests : i # r => req'[i] = req[i]
    BY <1>10, <2>1, RuledFacts DEF Answer
  <2> QED BY <2>1, <2>3, <2>4, <2>5, <2>6 DEF TypeOK, Finite, Serving
<1>11. ASSUME NEW r \in Requests, JudgeFails(r)
       PROVE  Base'
  BY <1>11, DoneFacts, KeyType DEF JudgeFails, TypeOK, Finite, Serving, Held, Size
<1>12. ASSUME NEW k \in Keys, NEW ok \in BOOLEAN, Warm(k, ok)
       PROVE  Base'
  <2>1. UNCHANGED <<now, entries, lessons, made, req>> /\ warming' \subseteq Keys
    BY <1>12 DEF Warm, TypeOK
  <2>2. cache' \in [Keys -> Verdicts] /\ IsFiniteSet(Held(cache')) /\ Size(cache') <= CacheCap
    BY <1>12, SetFacts DEF Warm, TypeOK, Finite
  <2>3. opinion' \in [Keys -> Nat] /\ \A x \in Keys : opinion'[x] <= now'
    BY <1>12, <2>1, OpineFacts DEF Warm
  <2> QED BY <2>1, <2>2, <2>3 DEF TypeOK, Finite, Serving
<1>13. ASSUME NEW k \in Keys, WarmFails(k)
       PROVE  Base'
  BY <1>13 DEF WarmFails, TypeOK, Finite, Serving, Held, Size
<1>14. ASSUME NEW r \in Requests, Rejected(r)
       PROVE  Base'
  <2> DEFINE same == {l \in lessons : l.q = req[r].q /\ l.at = req[r].at}
             l0 == [q |-> req[r].q, at |-> req[r].at, n |-> Cardinality(same)]
  <2>1. req \in [Requests -> Local] /\ req[r].q \in Queries /\ req[r].at \in Nat
    BY <1>14, LocalFields DEF Rejected, TypeOK, Serving
  <2>2. Cardinality(same) \in Nat
    <3>1. IsFiniteSet(same)
      BY FS_Subset DEF Finite
    <3> QED BY <3>1, FS_CardinalityType
  <2>3. l0 \in Lessons
    BY <2>1, <2>2 DEF Lessons
  <2>4. lessons' = lessons \cup {l0} \/ lessons' = lessons
    BY <1>14 DEF Rejected
  <2> HIDE DEF l0
  <2>5. lessons' \subseteq Lessons /\ IsFiniteSet(lessons')
    BY <2>3, <2>4, FS_AddElement DEF TypeOK, Finite
  <2>6. UNCHANGED <<now, entries, cache, made, warming, opinion>>
    BY <1>14 DEF Rejected
  <2>7. /\ req' \in [Requests -> Local] /\ req'[r].pc = "idle" /\ req'[r].at = 0
        /\ \A i \in Requests : i # r => req'[i] = req[i]
    BY <1>14, <2>1, DoneFacts DEF Rejected
  <2> QED BY <2>5, <2>6, <2>7 DEF TypeOK, Finite, Serving, Held, Size
<1>15. ASSUME NEW r \in Requests, Blacklisted(r)
       PROVE  Base'
  <2>1. lessons' \subseteq lessons
    BY <1>15 DEF Blacklisted, InWindow
  <2>2. IsFiniteSet(lessons')
    BY <2>1, FS_Subset DEF Finite
  <2>3. UNCHANGED <<now, entries, cache, made, warming, opinion>> /\ req[r].pc = "check"
    BY <1>15 DEF Blacklisted
  <2>4. Done(r) \/ Goto(r, "put")
    BY <1>15 DEF Blacklisted
  <2>5. /\ req' \in [Requests -> Local]
        /\ req'[r].pc # "idle" => req'[r].q = req[r].q
        /\ req'[r].at \in {req[r].at, 0} /\ \A i \in Requests : i # r => req'[i] = req[i]
    BY <2>4, DoneFacts, GotoFacts DEF TypeOK, Stages
  <2>6. req'[r].at <= now /\ (req'[r].pc # "idle" => req'[r].q \in Queries)
    BY <2>3, <2>5 DEF TypeOK, Serving
  <2> QED BY <2>1, <2>2, <2>3, <2>5, <2>6, BaseFrame DEF TypeOK
<1>16. ASSUME NEW r \in Requests, CountFails(r)
       PROVE  Base'
  <2> DEFINE x == [req[r] EXCEPT !.pc = "put", !.seen = {}]
  <2>1. x \in Local /\ x.at = req[r].at /\ x.q = req[r].q
    BY DEF TypeOK, Local, Stages
  <2>2. req' = [req EXCEPT ![r] = x] /\ req[r].pc = "check"
    BY <1>16 DEF CountFails
  <2> HIDE DEF x
  <2> QED BY <1>16, <2>1, <2>2, MoveFacts DEF CountFails, TypeOK, Finite, Serving, Held, Size
<1>17. ASSUME NEW r \in Requests, Put(r)
       PROVE  Base'
  <2>1. entries' \in [Queries -> Nat]
    BY <1>17, LocalFields DEF Put, TypeOK
  <2> QED BY <1>17, <2>1, DoneFacts DEF Put, TypeOK, Finite, Serving, Held, Size
<1>18. ASSUME NEW r \in Requests, SeeNil(r)
       PROVE  Base'
  <2>1. UNCHANGED <<now, entries, lessons, cache, made, warming, opinion>> /\ req[r].pc = "ask"
    BY <1>18 DEF SeeNil
  <2>2. /\ req' \in [Requests -> Local] /\ req'[r].q = req[r].q /\ req'[r].at = req[r].at
        /\ \A i \in Requests : i # r => req'[i] = req[i]
    BY <1>18, GotoFacts DEF SeeNil, TypeOK, Stages
  <2>3. req'[r].at <= now /\ req'[r].q \in Queries
    BY <2>1, <2>2 DEF Serving
  <2> QED BY <2>1, <2>2, <2>3, BaseFrame DEF TypeOK, Finite
<1>19. ASSUME NEW r \in Requests, NewVerdictCache(r)
       PROVE  Base'
  <2>1. Held(cache') = {} /\ cache' \in [Keys -> Verdicts]
    BY <1>19 DEF NewVerdictCache, Held, NoVerdict, Verdicts
  <2>2. IsFiniteSet(Held(cache')) /\ Size(cache') <= CacheCap
    BY <2>1, FS_EmptySet, GreyAssumption DEF Size
  <2>3. /\ req' \in [Requests -> Local] /\ req'[r].q = req[r].q /\ req'[r].at = req[r].at
        /\ \A i \in Requests : i # r => req'[i] = req[i]
    BY <1>19, GotoFacts DEF NewVerdictCache, TypeOK, Stages
  <2>4. UNCHANGED <<now, entries, lessons, warming, opinion>> /\ made' \in BOOLEAN /\ req[r].pc = "make"
    BY <1>19 DEF NewVerdictCache
  <2> QED BY <2>1, <2>2, <2>3, <2>4 DEF TypeOK, Finite, Serving
<1> QED BY <1>1, <1>2, <1>3, <1>4, <1>5, <1>6, <1>7, <1>8, <1>9, <1>10, <1>11, <1>12,
           <1>13, <1>14, <1>15, <1>16, <1>17, <1>18, <1>19 DEF Next

-----------------------------------------------------------------------------
(***************************************************************************)
(* The chain of approvals.                                                 *)
(***************************************************************************)

\* What is left to show of a step of r that neither reads a verdict nor
\* stores one nor writes an entry.
LEMMA ChainFrame ==
  ASSUME Base, Chain, NEW r \in Requests, UNCHANGED <<cache, opinion>>,
         \A q \in Queries : entries'[q] \in {entries[q], 0},
         \A i \in Requests : i # r => req'[i] = req[i], RequestRests(r)'
  PROVE  Chain'
<1>1. CacheRests' /\ EntriesRest'
  BY DEF Chain, CacheRests, EntriesRest, Approved
<1>2. \A i \in Requests : RequestRests(i)'
  BY DEF Chain, RequestRests, Approved
<1> QED BY <1>1, <1>2 DEF Chain

\* Storing a verdict, dated by the judge itself, keeps the chain.
LEMMA ChainSet ==
  ASSUME Base, Chain, NEW k \in Keys, NEW ok \in BOOLEAN,
         cache' = Set(cache, k, ok, now), Opine(k, ok), UNCHANGED <<now, entries>>
  PROVE  /\ CacheRests' /\ EntriesRest'
         /\ \A i \in Requests : req'[i] = req[i] => RequestRests(i)'
<1>1. /\ opinion \in [Keys -> Nat] /\ opinion' \in [Keys -> Nat]
      /\ \A x \in Keys : opinion'[x] >= opinion[x]
      /\ ok => opinion'[k] = now
      /\ now \in Nat \ {0}
  BY OpineFacts DEF Base, TypeOK
<1>2. \A x \in Keys : cache[x] \in Verdicts /\ cache[x].until \in Nat
  BY DEF Base, TypeOK, Verdicts
<1>3. CacheRests'
  <2> SUFFICES ASSUME NEW x \in Keys, cache'[x].confirm
               PROVE  opinion'[x] # 0 /\ cache'[x].until <= opinion'[x] + VerdictTtl
    BY DEF CacheRests, Approved
  <2>1. \/ cache'[x] \in {cache[x], NoVerdict}
        \/ x = k /\ cache'[x] = [confirm |-> ok, until |-> now + VerdictTtl]
    BY <1>1, SetFacts DEF Base, TypeOK, Finite
  <2>2. CASE cache'[x] = cache[x]
    BY <1>1, <1>2, <2>2, GreyAssumption DEF Chain, CacheRests, Approved
  <2>3. CASE cache'[x] = NoVerdict
    BY <2>3 DEF NoVerdict
  <2>4. CASE x = k /\ cache'[x] = [confirm |-> ok, until |-> now + VerdictTtl]
    BY <1>1, <2>4, GreyAssumption
  <2> QED BY <2>1, <2>2, <2>3, <2>4
<1>4. EntriesRest'
  <2> SUFFICES ASSUME NEW q \in Queries, entries[q] # 0, NEW b \in Rubrics
               PROVE  opinion'[<<b, q>>] # 0 /\ entries[q] <= opinion'[<<b, q>>] + VerdictTtl
    BY DEF EntriesRest, Approved
  <2>1. <<b, q>> \in Keys /\ Approved(<<b, q>>, entries[q], VerdictTtl) /\ entries[q] \in Nat
    BY DEF Chain, EntriesRest, Keys, Base, TypeOK
  <2> QED BY <1>1, <2>1, GreyAssumption DEF Approved
<1>5. ASSUME NEW i \in Requests, req'[i] = req[i]
      PROVE  RequestRests(i)'
  <2>1. req[i].at \in Nat /\ req[i].pc \in Stages /\ RequestRests(i)
    BY LocalFields DEF Base, TypeOK, Chain
  <2>2. CASE req[i].pc = "idle"
    BY <1>5, <2>2 DEF RequestRests
  <2>3. CASE req[i].pc # "idle"
    <3>1. \A b \in Rubrics : <<b, req[i].q>> \in Keys
      BY <2>3 DEF Base, Serving, Keys
    <3>2. ASSUME NEW b \in Rubrics, NEW d \in Nat, Approved(<<b, req[i].q>>, req[i].at, d)
          PROVE  opinion'[<<b, req[i].q>>] # 0 /\ req[i].at <= opinion'[<<b, req[i].q>>] + d
      BY <1>1, <2>1, <3>1, <3>2 DEF Approved
    <3>3. "p" \in Rubrics /\ VerdictTtl \in Nat /\ Ttl + VerdictTtl \in Nat
      BY GreyAssumption DEF Rubrics
    <3> QED BY <1>5, <2>1, <3>2, <3>3 DEF RequestRests, Approved
  <2> QED BY <2>2, <2>3
<1> QED BY <1>3, <1>4, <1>5

\* Every step keeps the chain.
LEMMA ChainStep ==
  ASSUME Base, Chain, [Next]_vars
  PROVE  Chain'
<1> USE DEF Chain
<1>1. CASE UNCHANGED vars \/ Tick
  BY <1>1 DEF vars, Tick, CacheRests, EntriesRest, RequestRests, Approved
<1>2. CASE Restart
  <2>1. \A i \in Requests : req'[i].pc = "idle"
    BY <1>2 DEF Restart, Idle, State
  <2>2. \A k \in Keys : ~cache'[k].confirm
    BY <1>2 DEF Restart, NoVerdict
  <2>3. UNCHANGED <<entries, opinion>>
    BY <1>2 DEF Restart
  <2> QED BY <2>1, <2>2, <2>3 DEF CacheRests, EntriesRest, RequestRests, Approved
<1>3. ASSUME NEW r \in Requests, Reply(r) \/ FingerprintReject(r) \/ JudgeFails(r) \/ Rejected(r)
      PROVE  Chain'
  <2>1. Done(r) /\ UNCHANGED <<entries, cache, opinion>>
    BY <1>3 DEF Reply, FingerprintReject, JudgeFails, Rejected
  <2>2. req'[r].pc = "idle" /\ \A i \in Requests : i # r => req'[i] = req[i]
    BY <2>1, DoneFacts DEF Base, TypeOK
  <2> QED BY <2>1, <2>2, ChainFrame DEF RequestRests
<1>4. ASSUME NEW r \in Requests, NEW q \in Queries, Start(r, q)
      PROVE  Chain'
  <2> DEFINE x == State("list", q, now, "p", {}, FALSE, {l \in lessons : l.q = q})
  <2>1. req \in [Requests -> Local] /\ req' = [req EXCEPT ![r] = x]
    BY <1>4 DEF Start, Base, TypeOK
  <2>2. x.pc = "list" /\ x.rubric = "p"
    BY DEF State
  <2> HIDE DEF x
  <2>3. req'[r].pc = "list" /\ req'[r].rubric = "p" /\ \A i \in Requests : i # r => req'[i] = req[i]
    BY <2>1, <2>2
  <2> QED BY <1>4, <2>3, ChainFrame DEF Start, RequestRests
<1>5. ASSUME NEW r \in Requests, List(r)
      PROVE  Chain'
  <2> DEFINE x == Looked(entries, r)
  <2>1. req \in [Requests -> Local] /\ req' = [req EXCEPT ![r] = x] /\ req[r].q \in Queries
    BY <1>5 DEF List, Base, TypeOK, Serving
  <2>2. /\ x.pc = "sweep" /\ x.q = req[r].q /\ x.at = req[r].at /\ x.rubric = "p"
        /\ x.hit = (entries[req[r].q] # 0 /\ ~expiredBy(entries[req[r].q], req[r].at))
    BY LookedFacts DEF Base
  <2> HIDE DEF x
  <2>3. req'[r] = x /\ \A i \in Requests : i # r => req'[i] = req[i]
    BY <2>1
  <2>4. ASSUME x.hit, NEW b \in Rubrics
        PROVE  Approved(<<b, x.q>>, x.at, Ttl + VerdictTtl)
    <3>1. /\ entries[req[r].q] \in Nat /\ req[r].at \in Nat /\ entries[req[r].q] # 0
          /\ req[r].at - entries[req[r].q] <= Ttl
      <4>1. entries[req[r].q] # 0 /\ ~expiredBy(entries[req[r].q], req[r].at)
        BY <2>2, <2>4, Zenon
      <4>2. entries[req[r].q] \in Nat /\ req[r].at \in Nat
        BY <2>1, LocalFields DEF Base, TypeOK
      <4> QED BY <4>1, <4>2, GreyAssumption DEF expiredBy
    <3>2. <<b, req[r].q>> \in Keys /\ opinion[<<b, req[r].q>>] \in Nat
      BY <2>1 DEF Keys, Base, TypeOK
    <3>3. Approved(<<b, req[r].q>>, entries[req[r].q], VerdictTtl)
      BY <2>1, <3>1 DEF EntriesRest
    <3> QED BY <2>2, <3>1, <3>2, <3>3, GreyAssumption DEF Approved
  <2>5. UNCHANGED <<entries, cache, opinion>>
    BY <1>5 DEF List
  <2>6. RequestRests(r)'
    BY <2>2, <2>3, <2>4, <2>5 DEF RequestRests, Approved
  <2> QED BY <2>3, <2>5, <2>6, ChainFrame
<1>6. ASSUME NEW r \in Requests, NEW q \in Queries, Sweep(r, q)
      PROVE  Chain'
  <2> DEFINE x == State("sweep", req[r].q, req[r].at, "p", req[r].todo \ {q}, req[r].hit, req[r].seen)
  <2>1. req \in [Requests -> Local] /\ req' = [req EXCEPT ![r] = x] /\ req[r].pc = "sweep"
    BY <1>6 DEF Sweep, Base, TypeOK
  <2>2. x.pc = "sweep" /\ x.q = req[r].q /\ x.at = req[r].at /\ x.hit = req[r].hit /\ x.rubric = "p"
    BY DEF State
  <2> HIDE DEF x
  <2>3. req'[r] = x /\ \A i \in Requests : i # r => req'[i] = req[i]
    BY <2>1
  <2>4. UNCHANGED <<cache, opinion>> /\ \A y \in Queries : entries'[y] \in {entries[y], 0}
    BY <1>6 DEF Sweep, Base, TypeOK
  <2>5. RequestRests(r)'
    BY <2>1, <2>2, <2>3, <2>4 DEF RequestRests, Approved
  <2> QED BY <2>3, <2>4, <2>5, ChainFrame
<1>7. ASSUME NEW r \in Requests, EndLookup(r) \/ ListFails(r)
      PROVE  Chain'
  <2>1. req \in [Requests -> Local] /\ UNCHANGED <<entries, cache, opinion>>
    BY <1>7 DEF EndLookup, ListFails, Base, TypeOK
  <2>2. CASE Goto(r, "ask")
    <3>1. /\ req'[r].pc = "ask" /\ req'[r].rubric = req[r].rubric
          /\ \A i \in Requests : i # r => req'[i] = req[i]
      BY <2>1, <2>2, GotoFacts DEF Stages
    <3>2. req[r].rubric = "p"
      BY <1>7 DEF EndLookup, ListFails, RequestRests
    <3>3. RequestRests(r)'
      BY <3>1, <3>2 DEF RequestRests
    <3> QED BY <2>1, <3>1, <3>3, ChainFrame
  <2>3. CASE Goto(r, "reused") /\ req[r].pc = "sweep" /\ req[r].hit
    <3>1. /\ req'[r].pc = "reused" /\ req'[r].q = req[r].q /\ req'[r].at = req[r].at
          /\ \A i \in Requests : i # r => req'[i] = req[i]
      BY <2>1, <2>3, GotoFacts DEF Stages
    <3>2. RequestRests(r)'
      BY <2>1, <2>3, <3>1 DEF RequestRests, Approved
    <3> QED BY <2>1, <3>1, <3>2, ChainFrame
  <2> QED BY <1>7, <2>2, <2>3 DEF EndLookup, ListFails
<1>8. ASSUME NEW r \in Requests, Ask(r)
      PROVE  Chain'
  <2> DEFINE k == <<req[r].rubric, req[r].q>>
             v == Get(cache, k, now)
  <2>1. /\ k \in Keys /\ req[r].pc \in {"ask", "get"} /\ req \in [Requests -> Local] /\ req[r].q \in Queries
        /\ req[r].at \in Nat /\ now \in Nat /\ req[r].at <= now /\ opinion[k] \in Nat
    BY <1>8, KeyType, LocalFields DEF Ask, Base, TypeOK, Serving
  <2>2. v = NoVerdict \/ (v = cache[k] /\ cache[k].until >= now /\ cache[k].until \in Nat)
    BY <2>1 DEF Get, Base, TypeOK, Verdicts
  <2>3. cache' = [cache EXCEPT ![k] = v] /\ UNCHANGED <<entries, opinion>>
    BY <1>8 DEF Ask
  <2>4. (v = NoVerdict /\ Goto(r, "wait")) \/ (v # NoVerdict /\ Ruled(r, v.confirm))
    BY <1>8 DEF Ask
  <2>5. v.confirm \in BOOLEAN
    <3>1. v \in Verdicts
      <4>1. NoVerdict \in Verdicts
        BY DEF Verdicts, NoVerdict
      <4>2. cache[k] \in Verdicts
        BY <2>1 DEF Base, TypeOK
      <4> QED BY <2>2, <4>1, <4>2
    <3> HIDE DEF v
    <3> QED BY <3>1 DEF Verdicts
  <2>6. CacheRests' /\ EntriesRest'
    <3>1. \A x \in Keys : cache'[x] \in {cache[x], NoVerdict}
      BY <2>1, <2>2, <2>3 DEF Base, TypeOK
    <3>2. CacheRests'
      BY <2>3, <3>1 DEF CacheRests, Approved, NoVerdict
    <3> QED BY <2>3, <3>2 DEF EntriesRest, Approved
  <2>7. v # NoVerdict /\ v.confirm => Approved(k, req[r].at, VerdictTtl)
    BY <2>1, <2>2, GreyAssumption DEF CacheRests, Approved
  <2>8. req'[r].q = req[r].q /\ req'[r].at = req[r].at /\ \A i \in Requests : i # r => req'[i] = req[i]
    BY <2>1, <2>4, <2>5, GotoFacts, RuledFacts DEF Stages
  <2>9. RequestRests(r)'
    <3>1. CASE Goto(r, "wait")
      <4>1. req'[r].pc = "wait" /\ req'[r].rubric = req[r].rubric
        BY <2>1, <3>1, GotoFacts DEF Stages
      <4> QED BY <2>1, <2>3, <2>8, <4>1 DEF RequestRests, Approved
    <3>2. CASE v # NoVerdict /\ Ruled(r, v.confirm)
      <4>1. \/ req'[r].pc = "lesson"
            \/ v.confirm /\ req[r].rubric = "p" /\ req'[r].pc = "ask"
            \/ v.confirm /\ req[r].rubric = "s" /\ req'[r].pc = "check"
        BY <2>1, <2>5, <3>2, RuledFacts
      <4>2. CASE req'[r].pc = "lesson"
        BY <4>2 DEF RequestRests
      <4>3. CASE v.confirm /\ req[r].rubric = "p" /\ req'[r].pc = "ask"
        <5>1. Approved(<<"p", req[r].q>>, req[r].at, VerdictTtl)
          BY <2>7, <3>2, <4>3
        <5> QED BY <2>3, <2>8, <4>3, <5>1 DEF RequestRests, Approved
      <4>4. CASE v.confirm /\ req[r].rubric = "s" /\ req'[r].pc = "check"
        <5>1. Approved(<<"s", req[r].q>>, req[r].at, VerdictTtl)
          BY <2>7, <3>2, <4>4
        <5>2. Approved(<<"p", req[r].q>>, req[r].at, VerdictTtl)
          BY <2>1, <4>4 DEF RequestRests
        <5> QED BY <2>3, <2>8, <4>4, <5>1, <5>2 DEF RequestRests, Approved, Rubrics
      <4> QED BY <4>1, <4>2, <4>3, <4>4
    <3> QED BY <2>4, <3>1, <3>2
  <2>10. \A i \in Requests : i # r => RequestRests(i)'
    BY <2>3, <2>8 DEF RequestRests, Approved
  <2> QED BY <2>6, <2>9, <2>10
<1>9. ASSUME NEW r \in Requests, NEW ok \in BOOLEAN, Answer(r, ok)
      PROVE  Chain'
  <2> DEFINE k == <<req[r].rubric, req[r].q>>
  <2>1. /\ k \in Keys /\ req[r].pc = "wait" /\ req \in [Requests -> Local] /\ req[r].q \in Queries
        /\ req[r].at \in Nat /\ now \in Nat \ {0} /\ req[r].at <= now
    BY <1>9, KeyType, LocalFields DEF Answer, Base, TypeOK, Serving
  <2>2. cache' = Set(cache, k, ok, now) /\ Opine(k, ok) /\ UNCHANGED <<now, entries>>
    BY <1>9 DEF Answer
  <2>3. /\ req'[r].q = req[r].q /\ req'[r].at = req[r].at
        /\ \/ req'[r].pc = "lesson"
           \/ ok /\ req[r].rubric = "p" /\ req'[r].pc = "ask"
           \/ ok /\ req[r].rubric = "s" /\ req'[r].pc = "check"
        /\ \A i \in Requests : i # r => req'[i] = req[i]
    BY <1>9, <2>1, RuledFacts DEF Answer
  <2>4. CacheRests' /\ EntriesRest' /\ \A i \in Requests : i # r => RequestRests(i)'
    BY <2>1, <2>2, <2>3, ChainSet
  <2>5. /\ opinion' \in [Keys -> Nat] /\ \A x \in Keys : opinion'[x] >= opinion[x]
        /\ ok => opinion'[k] = now
    BY <2>1, <2>2, OpineFacts DEF Base
  <2>6. ok => opinion'[k] # 0 /\ req[r].at <= opinion'[k] + VerdictTtl
    BY <2>1, <2>5, GreyAssumption
  <2>7. RequestRests(r)'
    <3>1. CASE req'[r].pc = "lesson"
      BY <3>1 DEF RequestRests
    <3>2. CASE ok /\ req[r].rubric = "p" /\ req'[r].pc = "ask"
      BY <2>3, <2>6, <3>2 DEF RequestRests, Approved
    <3>3. CASE ok /\ req[r].rubric = "s" /\ req'[r].pc = "check"
      <4>1. Approved(<<"p", req[r].q>>, req[r].at, VerdictTtl) /\ <<"p", req[r].q>> \in Keys
        BY <2>1, <3>3 DEF RequestRests, Keys, Rubrics
      <4>2. opinion'[<<"p", req[r].q>>] # 0 /\ req[r].at <= opinion'[<<"p", req[r].q>>] + VerdictTtl
        BY <2>1, <2>5, <4>1, GreyAssumption DEF Approved, Base, TypeOK
      <4> QED BY <2>3, <2>6, <3>3, <4>2 DEF RequestRests, Approved, Rubrics
    <3> QED BY <2>3, <3>1, <3>2, <3>3
  <2> QED BY <2>4, <2>7
<1>10. ASSUME NEW k \in Keys, NEW ok \in BOOLEAN, Warm(k, ok)
       PROVE  Chain'
  BY <1>10, ChainSet DEF Warm
<1>11. ASSUME NEW k \in Keys, WarmFails(k)
       PROVE  Chain'
  BY <1>11 DEF WarmFails, CacheRests, EntriesRest, RequestRests, Approved
<1>12. ASSUME NEW r \in Requests, Blacklisted(r) \/ CountFails(r)
       PROVE  Chain'
  <2>1. req \in [Requests -> Local] /\ UNCHANGED <<entries, cache, opinion>> /\ req[r].pc = "check"
    BY <1>12 DEF Blacklisted, CountFails, Base, TypeOK
  <2>2. /\ req'[r].pc = "idle" \/ (req'[r].pc = "put" /\ req'[r].q = req[r].q /\ req'[r].at = req[r].at)
        /\ \A i \in Requests : i # r => req'[i] = req[i]
    <3>1. CASE Done(r)
      BY <2>1, <3>1, DoneFacts
    <3>2. CASE Goto(r, "put")
      BY <2>1, <3>2, GotoFacts DEF Stages
    <3>3. CASE CountFails(r)
      BY <2>1, <3>3 DEF CountFails, Local
    <3> QED BY <1>12, <3>1, <3>2, <3>3 DEF Blacklisted
  <2>3. RequestRests(r)'
    BY <2>1, <2>2 DEF RequestRests, Approved
  <2> QED BY <2>1, <2>2, <2>3, ChainFrame
<1>13. ASSUME NEW r \in Requests, Put(r)
       PROVE  Chain'
  <2>1. /\ req \in [Requests -> Local] /\ req[r].pc = "put" /\ req[r].q \in Queries
        /\ UNCHANGED <<cache, opinion>>
        /\ \A q \in Queries : entries'[q] = entries[q] \/ (q = req[r].q /\ entries'[q] = req[r].at)
    BY <1>13 DEF Put, Base, TypeOK, Serving
  <2>2. req'[r].pc = "idle" /\ \A i \in Requests : i # r => req'[i] = req[i]
    BY <1>13, <2>1, DoneFacts DEF Put
  <2>3. \A b \in Rubrics : Approved(<<b, req[r].q>>, req[r].at, VerdictTtl)
    BY <2>1 DEF RequestRests
  <2>4. EntriesRest'
    BY <2>1, <2>3 DEF EntriesRest, Approved
  <2>5. CacheRests' /\ \A i \in Requests : RequestRests(i)'
    BY <2>1, <2>2 DEF CacheRests, RequestRests, Approved
  <2> QED BY <2>4, <2>5
<1>14. ASSUME NEW r \in Requests, SeeNil(r) \/ NewVerdictCache(r)
       PROVE  Chain'
  <2>1. /\ req \in [Requests -> Local] /\ UNCHANGED <<entries, opinion>>
        /\ req[r].pc \in {"ask", "make"}
        /\ cache' = cache \/ cache' = [k \in Keys |-> NoVerdict]
    BY <1>14 DEF SeeNil, NewVerdictCache, Base, TypeOK
  <2>2. PICK pc \in {"make", "get"} : Goto(r, pc)
    BY <1>14 DEF SeeNil, NewVerdictCache
  <2>3. /\ req'[r].pc = pc /\ req'[r].q = req[r].q /\ req'[r].at = req[r].at
        /\ req'[r].rubric = req[r].rubric
        /\ \A i \in Requests : i # r => req'[i] = req[i]
    BY <2>1, <2>2, GotoFacts DEF Stages
  <2>4. CacheRests'
    BY <2>1 DEF CacheRests, Approved, NoVerdict
  <2>5. EntriesRest' /\ \A i \in Requests : RequestRests(i)'
    BY <2>1, <2>2, <2>3 DEF EntriesRest, RequestRests, Approved
  <2> QED BY <2>4, <2>5
<1> QED BY <1>1, <1>2, <1>3, <1>4, <1>5, <1>6, <1>7, <1>8, <1>9, <1>10, <1>11, <1>12, <1>13,
           <1>14 DEF Next

-----------------------------------------------------------------------------
(***************************************************************************)
(* The lessons a request has seen.                                         *)
(***************************************************************************)

\* Fewer lessons are in the window later on.
LEMMA WindowShrinks ==
  ASSUME NEW ls \in SUBSET Lessons, NEW t \in Nat, NEW u \in Nat, t <= u
  PROVE  InWindow(ls, u) \subseteq InWindow(ls, t)
BY GreyAssumption DEF InWindow, Lessons

\* A request that keeps what it has seen loses nothing while lessons only
\* leave the file once they are out of the window.
LEMMA KeptFrame ==
  ASSUME Base, NEW i \in Requests, Kept(i), now' \in Nat, now' >= now,
         req'[i].seen = req[i].seen, req'[i].q = req[i].q,
         req'[i].pc = "put" => req[i].pc = "put",
         InWindow(lessons, now) \subseteq lessons'
  PROVE  Kept(i)'
<1>1. req[i].seen \in SUBSET Lessons /\ now \in Nat
  BY LocalFields DEF Base, TypeOK
<1>2. InWindow(req[i].seen, now') \subseteq InWindow(req[i].seen, now)
  BY <1>1, WindowShrinks
<1>3. InWindow(req[i].seen, now) \subseteq InWindow(lessons, now)
  BY DEF Kept, InWindow
<1>4. /\ Cardinality(InWindow(req[i].seen, now')) <= Cardinality(InWindow(req[i].seen, now))
      /\ Cardinality(InWindow(req[i].seen, now')) \in Nat
      /\ Cardinality(InWindow(req[i].seen, now)) \in Nat
  <2>1. IsFiniteSet(InWindow(req[i].seen, now))
    <3>1. InWindow(req[i].seen, now) \subseteq req[i].seen
      BY DEF InWindow
    <3> QED BY <3>1, FS_Subset DEF Kept
  <2>2. /\ IsFiniteSet(InWindow(req[i].seen, now'))
        /\ Cardinality(InWindow(req[i].seen, now')) <= Cardinality(InWindow(req[i].seen, now))
    BY <1>2, <2>1, FS_Subset
  <2> QED BY <2>1, <2>2, FS_CardinalityType
<1>5. InWindow(req'[i].seen, now') \subseteq lessons'
  BY <1>2, <1>3
<1>6. req'[i].pc = "put" => Cardinality(InWindow(req'[i].seen, now')) < RejectLimit
  BY <1>4, GreyAssumption DEF Kept
<1> QED BY <1>5, <1>6 DEF Kept

\* A request that has seen nothing has lost nothing.
LEMMA KeptNothing ==
  ASSUME NEW i \in Requests, req'[i].seen = {}
  PROVE  Kept(i)'
<1>1. InWindow(req'[i].seen, now') = {}
  BY DEF InWindow
<1>2. IsFiniteSet({}) /\ Cardinality({}) = 0
  BY FS_EmptySet
<1> QED BY <1>1, <1>2, GreyAssumption DEF Kept

\* Every step keeps Kept.
LEMMA KeptStep ==
  ASSUME Base, \A r \in Requests : Kept(r), [Next]_vars
  PROVE  \A r \in Requests : Kept(r)'
<1>1. InWindow(lessons, now) \subseteq lessons /\ now \in Nat /\ req \in [Requests -> Local]
  BY DEF InWindow, Base, TypeOK
<1>2. CASE UNCHANGED vars \/ Tick \/ \E k \in Keys : WarmFails(k) \/ \E ok \in BOOLEAN : Warm(k, ok)
  <2>1. UNCHANGED <<req, lessons>> /\ now' \in Nat /\ now' >= now
    BY <1>1, <1>2 DEF vars, Tick, WarmFails, Warm
  <2> QED BY <1>1, <2>1, KeptFrame
<1>3. CASE Restart
  <2>1. \A r \in Requests : req'[r].seen = {}
    BY <1>3 DEF Restart, Idle, State
  <2> QED BY <2>1, KeptNothing
<1>4. ASSUME NEW r \in Requests, now' = now, InWindow(lessons, now) \subseteq lessons',
             \A i \in Requests : i # r => req'[i] = req[i], Kept(r)'
      PROVE  \A i \in Requests : Kept(i)'
  <2> SUFFICES ASSUME NEW i \in Requests, i # r
               PROVE  Kept(i)'
    BY <1>4
  <2> QED BY <1>1, <1>4, KeptFrame
<1>5. ASSUME NEW r \in Requests, Done(r), now' = now, InWindow(lessons, now) \subseteq lessons'
      PROVE  \A i \in Requests : Kept(i)'
  BY <1>1, <1>4, <1>5, DoneFacts, KeptNothing
<1>6. ASSUME NEW r \in Requests,
             Reply(r) \/ FingerprintReject(r) \/ JudgeFails(r) \/ Rejected(r) \/ Put(r)
      PROVE  \A i \in Requests : Kept(i)'
  BY <1>1, <1>5, <1>6 DEF Reply, FingerprintReject, JudgeFails, Rejected, Put
<1>7. ASSUME NEW r \in Requests, UNCHANGED <<now, lessons>>, req'[r].seen = req[r].seen,
             req'[r].q = req[r].q, req'[r].pc # "put",
             \A i \in Requests : i # r => req'[i] = req[i]
      PROVE  \A i \in Requests : Kept(i)'
  <2>1. Kept(r)'
    BY <1>1, <1>7, KeptFrame
  <2> QED BY <1>1, <1>4, <1>7, <2>1
<1>8. ASSUME NEW r \in Requests, NEW q \in Queries, Start(r, q)
      PROVE  \A i \in Requests : Kept(i)'
  <2> DEFINE mine == {l \in lessons : l.q = q}
             x == State("list", q, now, "p", {}, FALSE, mine)
  <2>1. req' = [req EXCEPT ![r] = x] /\ UNCHANGED <<now, lessons>>
    BY <1>8 DEF Start
  <2>2. x.pc = "list" /\ x.q = q /\ x.seen = mine
    BY DEF State
  <2> HIDE DEF x
  <2>3. req'[r] = x /\ \A i \in Requests : i # r => req'[i] = req[i]
    BY <1>1, <2>1
  <2>4. IsFiniteSet(mine)
    BY FS_Subset DEF Base, Finite
  <2>5. Kept(r)'
    BY <2>1, <2>2, <2>3, <2>4 DEF Kept, InWindow
  <2> QED BY <1>1, <1>4, <2>1, <2>3, <2>5
<1>9. ASSUME NEW r \in Requests, List(r)
      PROVE  \A i \in Requests : Kept(i)'
  BY <1>1, <1>7, <1>9, LookedFacts DEF List, Base
<1>10. ASSUME NEW r \in Requests, NEW q \in Queries, Sweep(r, q)
       PROVE  \A i \in Requests : Kept(i)'
  <2> DEFINE x == State("sweep", req[r].q, req[r].at, "p", req[r].todo \ {q}, req[r].hit, req[r].seen)
  <2>1. req' = [req EXCEPT ![r] = x] /\ UNCHANGED <<now, lessons>>
    BY <1>10 DEF Sweep
  <2>2. x.pc = "sweep" /\ x.q = req[r].q /\ x.seen = req[r].seen
    BY DEF State
  <2> HIDE DEF x
  <2> QED BY <1>1, <1>7, <2>1, <2>2
<1>11. ASSUME NEW r \in Requests, EndLookup(r) \/ ListFails(r)
       PROVE  \A i \in Requests : Kept(i)'
  <2>1. PICK pc \in {"reused", "ask"} : Goto(r, pc)
    BY <1>11 DEF EndLookup, ListFails
  <2> QED BY <1>1, <1>7, <1>11, <2>1, GotoFacts DEF EndLookup, ListFails, Stages
<1>12. ASSUME NEW r \in Requests, NEW ok \in BOOLEAN, Ruled(r, ok), UNCHANGED <<now, lessons>>
       PROVE  \A i \in Requests : Kept(i)'
  BY <1>1, <1>7, <1>12, RuledFacts
<1>13. ASSUME NEW r \in Requests, Ask(r)
       PROVE  \A i \in Requests : Kept(i)'
  <2> DEFINE k == <<req[r].rubric, req[r].q>>
             v == Get(cache, k, now)
  <2>1. k \in Keys
    BY <1>1, <1>13, KeyType DEF Ask, Base, Serving
  <2>2. cache[k] \in Verdicts /\ NoVerdict \in Verdicts
    BY <2>1 DEF Base, TypeOK, NoVerdict, Verdicts
  <2>3. v \in {cache[k], NoVerdict}
    BY DEF Get
  <2>4. Goto(r, "wait") \/ Ruled(r, v.confirm)
    BY <1>13 DEF Ask
  <2>5. UNCHANGED <<now, lessons>>
    BY <1>13 DEF Ask
  <2> HIDE DEF v, k
  <2>6. v.confirm \in BOOLEAN
    <3>1. v \in Verdicts
      BY <2>2, <2>3
    <3> QED BY <3>1 DEF Verdicts
  <2>7. CASE Goto(r, "wait")
    BY <1>1, <1>7, <2>5, <2>7, GotoFacts DEF Stages
  <2> QED BY <1>12, <2>4, <2>5, <2>6, <2>7
<1>14. ASSUME NEW r \in Requests, NEW ok \in BOOLEAN, Answer(r, ok)
       PROVE  \A i \in Requests : Kept(i)'
  BY <1>12, <1>14 DEF Answer
<1>15. ASSUME NEW r \in Requests, Blacklisted(r)
       PROVE  \A i \in Requests : Kept(i)'
  <2>1. req[r] \in Local /\ req[r].at \in Nat /\ req[r].at <= now /\ req[r].seen \in SUBSET Lessons
    BY <1>1, LocalFields DEF Base, Serving
  <2>2. lessons' = InWindow(lessons, req[r].at) /\ now' = now
    BY <1>15 DEF Blacklisted
  <2>3. InWindow(lessons, now) \subseteq lessons'
    BY <1>1, <2>1, <2>2, WindowShrinks DEF Base, TypeOK
  <2>4. CASE Done(r)
    BY <1>5, <2>2, <2>3, <2>4
  <2>5. CASE Cardinality({l \in lessons' : l.q = req[r].q}) < RejectLimit /\ Goto(r, "put")
    <3> DEFINE mine == {l \in lessons' : l.q = req[r].q}
               due  == InWindow(req[r].seen, now)
    <3>1. due \subseteq mine /\ due \subseteq req[r].seen
      BY <2>3 DEF Kept, InWindow
    <3>2. IsFiniteSet(mine)
      <4>1. mine \subseteq lessons
        BY <2>2 DEF InWindow
      <4> QED BY <4>1, FS_Subset DEF Base, Finite
    <3> HIDE DEF mine, due
    <3>3. IsFiniteSet(due) /\ Cardinality(due) <= Cardinality(mine)
      BY <3>1, <3>2, FS_Subset
    <3>4. Cardinality(due) \in Nat /\ Cardinality(mine) \in Nat
      BY <3>2, <3>3, FS_CardinalityType
    <3>5. Cardinality(due) < RejectLimit
      BY <2>5, <3>3, <3>4, GreyAssumption DEF mine
    <3>6. /\ req'[r].q = req[r].q /\ req'[r].seen = req[r].seen
          /\ \A i \in Requests : i # r => req'[i] = req[i]
      BY <1>1, <2>5, GotoFacts DEF Stages
    <3>7. Kept(r)'
      BY <2>2, <3>1, <3>5, <3>6 DEF Kept, due, mine
    <3> QED BY <1>4, <2>2, <2>3, <3>6, <3>7
  <2>6. /\ Cardinality({l \in lessons' : l.q = req[r].q}) \in Nat
        /\ IF Cardinality({l \in lessons' : l.q = req[r].q}) >= RejectLimit
           THEN Done(r) ELSE Goto(r, "put")
    <3>1. {l \in lessons' : l.q = req[r].q} \subseteq lessons
      BY <2>2 DEF InWindow
    <3>2. IsFiniteSet({l \in lessons' : l.q = req[r].q})
      BY <3>1, FS_Subset DEF Base, Finite
    <3> QED BY <1>15, <3>2, FS_CardinalityType DEF Blacklisted
  <2> QED BY <2>4, <2>5, <2>6, GreyAssumption
<1>16. ASSUME NEW r \in Requests, CountFails(r)
       PROVE  \A i \in Requests : Kept(i)'
  <2>1. /\ req'[r].seen = {} /\ UNCHANGED <<now, lessons>>
        /\ \A i \in Requests : i # r => req'[i] = req[i]
    BY <1>1, <1>16 DEF CountFails, Local
  <2> QED BY <1>1, <1>4, <2>1, KeptNothing
<1>17. ASSUME NEW r \in Requests, SeeNil(r) \/ NewVerdictCache(r)
       PROVE  \A i \in Requests : Kept(i)'
  <2>1. PICK pc \in {"make", "get"} : Goto(r, pc)
    BY <1>17 DEF SeeNil, NewVerdictCache
  <2>2. UNCHANGED <<now, lessons>>
    BY <1>17 DEF SeeNil, NewVerdictCache
  <2> QED BY <1>1, <1>7, <2>1, <2>2, GotoFacts DEF Stages
<1> QED BY <1>2, <1>3, <1>6, <1>8, <1>9, <1>10, <1>11, <1>13, <1>14, <1>15, <1>16, <1>17 DEF Next

-----------------------------------------------------------------------------
(***************************************************************************)
(* The theorems.                                                           *)
(***************************************************************************)

\* The first state satisfies the invariant.
LEMMA InitInv == Init => Inv
<1> SUFFICES ASSUME Init
             PROVE  Inv
  OBVIOUS
<1>1. \A r \in Requests : req[r] = Idle
  BY DEF Init
<1>2. Idle.pc = "idle" /\ Idle.at = 0 /\ Idle.seen = {}
  BY DEF Idle, State
<1>3. NoVerdict \in Verdicts /\ ~NoVerdict.confirm
  BY DEF NoVerdict, Verdicts
<1>4. Held(cache) = {}
  BY DEF Init, Held
<1>5. IsFiniteSet({}) /\ Cardinality({}) = 0
  BY FS_EmptySet
<1>6. TypeOK
  <2>1. made \in BOOLEAN
    BY Zenon DEF Init
  <2>2. /\ now = 1 /\ entries = [q \in Queries |-> 0] /\ lessons = {} /\ warming = {}
        /\ cache = [k \in Keys |-> NoVerdict] /\ opinion = [k \in Keys |-> 0]
        /\ req = [r \in Requests |-> Idle]
    BY DEF Init
  <2> QED BY <1>3, <1>4, <1>5, <2>1, <2>2, IdleType, GreyAssumption DEF TypeOK, Size
<1>7. Finite /\ Serving
  BY <1>1, <1>2, <1>4, <1>5 DEF Init, Finite, Serving
<1>8. Chain
  BY <1>1, <1>2, <1>3 DEF Init, Chain, CacheRests, EntriesRest, RequestRests
<1>9. \A r \in Requests : Kept(r)
  BY <1>1, <1>2, <1>5 DEF Kept, InWindow
<1> QED BY <1>6, <1>7, <1>8, <1>9 DEF Inv, Base

\* The invariant of the grey zone: types and capacity, the chain of approvals
\* behind every verdict, entry and request, and the lessons still on file.
THEOREM GreyInvariant == Spec => []Inv
<1>1. Inv /\ [Next]_vars => Inv'
  BY BaseStep, ChainStep, KeptStep DEF Inv
<1> QED BY InitInv, <1>1, PTL DEF Spec

\* Every variable keeps its type and the verdict cache its capacity.
THEOREM GreyTypes == Spec => []TypeOK
<1>1. Inv => TypeOK
  BY DEF Inv, Base
<1> QED BY <1>1, GreyInvariant, PTL

\* A result reused without asking the judge rests on approvals by both
\* rubrics, no older than the two TTLs together.
THEOREM ReuseRests == Spec => []ReuseRestsOnOpinion
<1>1. Inv => ReuseRestsOnOpinion
  <2> SUFFICES ASSUME Inv, NEW r \in Requests, req[r].pc = "reused", NEW b \in Rubrics
               PROVE  /\ opinion[<<b, req[r].q>>] # 0
                      /\ req[r].at - opinion[<<b, req[r].q>>] <= Ttl + VerdictTtl
    BY DEF ReuseRestsOnOpinion
  <2>1. Approved(<<b, req[r].q>>, req[r].at, Ttl + VerdictTtl)
    BY DEF Inv, Chain, RequestRests
  <2>2. <<b, req[r].q>> \in Keys /\ req[r].at \in Nat
    BY LocalFields DEF Inv, Base, TypeOK, Serving, Keys
  <2>3. opinion[<<b, req[r].q>>] \in Nat
    BY <2>2 DEF Inv, Base, TypeOK
  <2> QED BY <2>1, <2>2, <2>3, GreyAssumption DEF Approved
<1> QED BY <1>1, GreyInvariant, PTL

\* Lessons a request could see keep it from promoting while in the window.
THEOREM LessonsHold == Spec => []LessonsBlock
<1>1. Inv => LessonsBlock
  BY DEF Inv, Kept, LessonsBlock
<1> QED BY <1>1, GreyInvariant, PTL

=============================================================================
