------------------------- MODULE SliceRecords_proofs ------------------------
(***************************************************************************)
(* Facts about journal replay, for every journal and every base: replay is *)
(* a left fold, it keeps the shape of a store's content, it splits at any  *)
(* record, and two contents that differ only on slices absent from one of  *)
(* them differ no more after replaying the same records on both.           *)
(*                                                                         *)
(* Induction is done by the set of counterexamples: WFMin gives its least  *)
(* element.                                                                *)
(***************************************************************************)
EXTENDS SliceRecords, TLAPS, WellFoundedInduction

\* A nonempty set of naturals has a least element.
LEMMA LeastNat ==
  ASSUME NEW T, T \subseteq Nat, T # {}
  PROVE  \E x \in T : \A y \in T : x <= y
<1> DEFINE R == {ss \in Nat \X Nat : ss[1] < ss[2]}
<1>1. IsWellFoundedOn(R, Nat)
  BY NatLessThanWellFounded DEF OpToRel
<1> HIDE DEF R
<1>2. PICK x \in T : \A y \in T : ~ (<<y, x>> \in R)
  BY <1>1, WFMin
<1>3. \A y \in T : ~ (y < x)
  BY <1>2 DEF R
<1> QED BY <1>3

\* Induction on the naturals, for a property given as a set.
LEMMA NatSetInduction ==
  ASSUME NEW S, 0 \in S, \A n \in Nat : n \in S => n + 1 \in S
  PROVE  Nat \subseteq S
<1> SUFFICES ASSUME Nat \ S # {} PROVE FALSE
  OBVIOUS
<1>1. PICK x \in Nat \ S : \A y \in Nat \ S : x <= y
  BY LeastNat
<1>2. x # 0 /\ x - 1 \in Nat /\ x - 1 \notin Nat \ S
  BY <1>1
<1>3. (x - 1) + 1 \in S
  BY <1>2
<1> QED BY <1>1, <1>3

\* Induction on sequences by their last element.
LEMMA SeqSetInduction ==
  ASSUME NEW S, NEW P, <<>> \in P,
         \A s \in Seq(S), e \in S : s \in P => Append(s, e) \in P
  PROVE  Seq(S) \subseteq P
<1> DEFINE N == {n \in Nat : \A s \in Seq(S) : Len(s) = n => s \in P}
<1>1. 0 \in N
  OBVIOUS
<1>2. ASSUME NEW n \in Nat, n \in N PROVE n + 1 \in N
  <2> SUFFICES ASSUME NEW s \in Seq(S), Len(s) = n + 1 PROVE s \in P
    OBVIOUS
  <2> DEFINE f == [i \in 1 .. n |-> s[i]]
  <2>1. f \in Seq(S) /\ Len(f) = n /\ s[n + 1] \in S
    OBVIOUS
  <2>2. s = Append(f, s[n + 1])
    BY <2>1
  <2>3. f \in P
    BY <1>2, <2>1
  <2> HIDE DEF f
  <2> QED BY <2>1, <2>2, <2>3
<1> HIDE DEF N
<1>3. Nat \subseteq N
  BY <1>1, <1>2, NatSetInduction
<1> QED BY <1>3 DEF N
-----------------------------------------------------------------------------
\* f is the run of the replay loop over lines: f[n] is the state after n.
IsRun(f, m, lines) ==
  f = [n \in 0 .. Len(lines) |-> IF n = 0 THEN m ELSE Apply(f[n - 1], lines[n])]

TheRun(m, lines) == CHOOSE f : IsRun(f, m, lines)

LEMMA ReplayIsRun ==
  ASSUME NEW m, NEW lines
  PROVE  Replay(m, lines) = TheRun(m, lines)[Len(lines)]
BY DEF Replay, TheRun, IsRun

\* A run of some length can be extended by one record.
LEMMA RunExists ==
  ASSUME NEW m, NEW lines \in Seq(Lines)
  PROVE  IsRun(TheRun(m, lines), m, lines)
<1> DEFINE P == {s \in Seq(Lines) : \E f : IsRun(f, m, s)}
<1>1. <<>> \in P
  <2>1. IsRun([n \in 0 .. 0 |-> m], m, <<>>)
    BY DEF IsRun
  <2> QED BY <2>1
<1>2. ASSUME NEW s \in Seq(Lines), NEW e \in Lines, s \in P
      PROVE  Append(s, e) \in P
  <2>1. PICK f : IsRun(f, m, s)
    BY <1>2
  <2> DEFINE k == Len(s)
             t == Append(s, e)
             g == [n \in 0 .. k + 1 |-> IF n = k + 1 THEN Apply(f[k], e) ELSE f[n]]
  <2>2. t \in Seq(Lines) /\ Len(t) = k + 1 /\ t[k + 1] = e /\ k \in Nat
    OBVIOUS
  <2>3. \A n \in 1 .. k : t[n] = s[n]
    OBVIOUS
  <2> HIDE DEF t, k
  <2>4. \A n \in 0 .. k + 1 : g[n] = IF n = 0 THEN m ELSE Apply(g[n - 1], t[n])
    <3> TAKE n \in 0 .. k + 1
    <3>1. CASE n = 0
      BY <3>1, <2>1, <2>2 DEF IsRun, k
    <3>2. CASE n \in 1 .. k
      <4>1. f[n] = Apply(f[n - 1], s[n])
        BY <3>2, <2>1, <2>2 DEF IsRun, k
      <4> QED BY <4>1, <3>2, <2>2, <2>3
    <3>3. CASE n = k + 1
      BY <3>3, <2>2
    <3> QED BY <3>1, <3>2, <3>3, <2>2
  <2>5. IsRun(g, m, t)
    BY <2>2, <2>4 DEF IsRun
  <2> QED BY <2>2, <2>5 DEF t
<1> HIDE DEF P
<1>3. lines \in P
  BY <1>1, <1>2, SeqSetInduction
<1> QED BY <1>3 DEF P, TheRun

\* Runs over a sequence and over its extension agree on the common part.
LEMMA RunsAgree ==
  ASSUME NEW m, NEW s \in Seq(Lines), NEW e \in Lines,
         NEW f, IsRun(f, m, s), NEW g, IsRun(g, m, Append(s, e))
  PROVE  \A n \in 0 .. Len(s) : f[n] = g[n]
<1> DEFINE t == Append(s, e)
           k == Len(s)
           N == {n \in Nat : n <= k => f[n] = g[n]}
<1>0. k \in Nat /\ Len(t) = k + 1 /\ \A n \in 1 .. k : t[n] = s[n]
  OBVIOUS
<1>1. f = [n \in 0 .. k |-> IF n = 0 THEN m ELSE Apply(f[n - 1], s[n])]
  BY DEF IsRun
<1>2. g = [n \in 0 .. k + 1 |-> IF n = 0 THEN m ELSE Apply(g[n - 1], t[n])]
  BY <1>0 DEF IsRun
<1> HIDE DEF t, k
<1>3. 0 \in N
  BY <1>0, <1>1, <1>2
<1>4. ASSUME NEW n \in Nat, n \in N PROVE n + 1 \in N
  <2> SUFFICES ASSUME n + 1 <= k PROVE f[n + 1] = g[n + 1]
    OBVIOUS
  <2>1. n + 1 \in 0 .. k /\ n + 1 \in 0 .. k + 1 /\ n + 1 # 0 /\ (n + 1) - 1 = n
        /\ n + 1 \in 1 .. k
    BY <1>0
  <2>2. f[n + 1] = Apply(f[n], s[n + 1])
    BY <1>1, <2>1
  <2>3. g[n + 1] = Apply(g[n], t[n + 1])
    BY <1>2, <2>1
  <2>4. f[n] = g[n]
    BY <1>4, <2>1, <1>0
  <2> QED BY <2>1, <2>2, <2>3, <2>4, <1>0
<1> HIDE DEF N
<1>5. Nat \subseteq N
  BY <1>3, <1>4, NatSetInduction
<1> QED BY <1>5, <1>0 DEF N, k

\* Replaying nothing leaves the base.
LEMMA ReplayEmpty == \A m : Replay(m, <<>>) = m
<1> TAKE m
<1> DEFINE t == <<>>
<1>1. t \in Seq(Lines) /\ Len(t) = 0
  OBVIOUS
<1> HIDE DEF t
<1>2. IsRun(TheRun(m, t), m, t)
  BY <1>1, RunExists
<1>3. TheRun(m, t)[0] = m
  BY <1>1, <1>2 DEF IsRun
<1>4. Replay(m, t) = m
  BY <1>1, <1>3, ReplayIsRun
<1> QED BY <1>4 DEF t

\* Replaying one more record applies it to what the others computed.
LEMMA ReplayAppend ==
  ASSUME NEW m, NEW s \in Seq(Lines), NEW e \in Lines
  PROVE  Replay(m, Append(s, e)) = Apply(Replay(m, s), e)
<1> DEFINE t == Append(s, e)
           k == Len(s)
<1>1. k \in Nat /\ t \in Seq(Lines) /\ Len(t) = k + 1 /\ t[k + 1] = e
  OBVIOUS
<1>2. IsRun(TheRun(m, s), m, s) /\ IsRun(TheRun(m, t), m, t)
  BY RunExists, <1>1
<1>3. TheRun(m, s)[k] = TheRun(m, t)[k]
  <2>1. \A n \in 0 .. Len(s) : TheRun(m, s)[n] = TheRun(m, t)[n]
    <3> DEFINE f == TheRun(m, s)
               g == TheRun(m, t)
    <3>1. IsRun(f, m, s) /\ IsRun(g, m, Append(s, e))
      BY <1>2
    <3> HIDE DEF f, g, t
    <3>2. \A n \in 0 .. Len(s) : f[n] = g[n]
      BY <3>1, RunsAgree
    <3> QED BY <3>2 DEF f, g
  <2> QED BY <2>1, <1>1
<1>4. TheRun(m, t)[k + 1] = Apply(TheRun(m, t)[k], e)
  <2> HIDE DEF t, k
  <2>1. TheRun(m, t) = [n \in 0 .. k + 1 |->
                         IF n = 0 THEN m ELSE Apply(TheRun(m, t)[n - 1], t[n])]
    BY <1>1, <1>2 DEF IsRun
  <2>2. k + 1 \in 0 .. k + 1 /\ k + 1 # 0 /\ (k + 1) - 1 = k
    BY <1>1
  <2> QED BY <1>1, <2>1, <2>2
<1>5. Replay(m, s) = TheRun(m, s)[k] /\ Replay(m, t) = TheRun(m, t)[k + 1]
  BY ReplayIsRun, <1>1
<1> QED BY <1>3, <1>4, <1>5
-----------------------------------------------------------------------------
\* Merging statistics into an entry gives an entry.
LEMMA MergeType ==
  ASSUME NEW e \in Entries, NEW d \in [hits : Nat, last : Nat]
  PROVE  mergeStats(e, d) \in Entries
BY DEF mergeStats, Entries

\* A record keeps the shape of a store's content.
LEMMA ApplyType ==
  ASSUME NEW m \in States, NEW e \in Lines
  PROVE  Apply(m, e) \in States
<1>1. CASE e = Garbage
  BY <1>1 DEF Apply
<1>2. CASE e \in PutRecs
  <2>1. e # Garbage /\ e.op = "put" /\ e.id \in Ids /\ e.e \in Entries
    BY <1>2, RecordsAssumption DEF PutRecs, Recs
  <2> QED BY <2>1 DEF Apply, States
<1>3. CASE e \in DelRecs
  <2>1. e # Garbage /\ e.op = "del" /\ e.id \in Ids
    BY <1>3, RecordsAssumption DEF DelRecs, Recs
  <2> QED BY <2>1 DEF Apply, States
<1>4. CASE e \in StatRecs
  <2>1. e # Garbage /\ e.op = "stat" /\ e.id \in Ids /\ e.d \in [hits : Nat, last : Nat]
    BY <1>4, RecordsAssumption DEF StatRecs, Recs
  <2>2. CASE m[e.id] = Absent
    BY <2>1, <2>2 DEF Apply
  <2>3. CASE m[e.id] # Absent
    <3>1. m[e.id] \in Entries
      BY <2>1, <2>3 DEF States
    <3>2. mergeStats(m[e.id], e.d) \in Entries
      BY <2>1, <3>1, MergeType
    <3>3. Apply(m, e) = [m EXCEPT ![e.id] = mergeStats(m[e.id], e.d)]
      BY <2>1, <2>3 DEF Apply
    <3> QED BY <2>1, <3>2, <3>3 DEF States
  <2> QED BY <2>2, <2>3
<1> QED BY <1>1, <1>2, <1>3, <1>4 DEF Lines, Recs

\* So does a whole journal.
LEMMA ReplayType ==
  ASSUME NEW m \in States, NEW lines \in Seq(Lines)
  PROVE  Replay(m, lines) \in States
<1> DEFINE P == {s \in Seq(Lines) : Replay(m, s) \in States}
<1>1. <<>> \in P
  BY ReplayEmpty
<1>2. ASSUME NEW s \in Seq(Lines), NEW e \in Lines, s \in P
      PROVE  Append(s, e) \in P
  BY <1>2, ReplayAppend, ApplyType
<1> HIDE DEF P
<1>3. lines \in P
  BY <1>1, <1>2, SeqSetInduction
<1> QED BY <1>3 DEF P

\* A journal may be replayed in two parts.
LEMMA ReplayConcat ==
  ASSUME NEW m, NEW s \in Seq(Lines), NEW t \in Seq(Lines)
  PROVE  Replay(m, s \o t) = Replay(Replay(m, s), t)
<1> DEFINE P == {u \in Seq(Lines) : Replay(m, s \o u) = Replay(Replay(m, s), u)}
<1>1. <<>> \in P
  <2>1. s \o <<>> = s
    OBVIOUS
  <2> QED BY <2>1, ReplayEmpty
<1>2. ASSUME NEW u \in Seq(Lines), NEW e \in Lines, u \in P
      PROVE  Append(u, e) \in P
  <2>1. s \o Append(u, e) = Append(s \o u, e) /\ s \o u \in Seq(Lines)
        /\ Append(u, e) \in Seq(Lines)
    OBVIOUS
  <2>2. Replay(m, Append(s \o u, e)) = Apply(Replay(m, s \o u), e)
    BY <2>1, ReplayAppend
  <2>3. Replay(Replay(m, s), Append(u, e)) = Apply(Replay(Replay(m, s), u), e)
    BY ReplayAppend
  <2> QED BY <1>2, <2>1, <2>2, <2>3
<1> HIDE DEF P
<1>3. t \in P
  BY <1>1, <1>2, SeqSetInduction
<1> QED BY <1>3 DEF P
-----------------------------------------------------------------------------
\* m and r agree, except that r may lack slices of l.
Match(m, r, l) ==
  \A id \in Ids : \/ m[id] = r[id]
                  \/ id \in l /\ r[id] = Absent

\* The IDs that the records of s put or delete.
Settled(s) == {s[i].id : i \in {k \in DOMAIN s : s[k].op # "stat"}}

\* A record keeps the agreement, and a put or a del restores it on its ID.
LEMMA ApplyMatch ==
  ASSUME NEW m \in States, NEW r \in States, NEW l, Match(m, r, l), NEW e \in Recs
  PROVE  Match(Apply(m, e), Apply(r, e), IF e.op # "stat" THEN l \ {e.id} ELSE l)
<1> SUFFICES ASSUME NEW id \in Ids
             PROVE  \/ Apply(m, e)[id] = Apply(r, e)[id]
                    \/ /\ id \in IF e.op # "stat" THEN l \ {e.id} ELSE l
                       /\ Apply(r, e)[id] = Absent
  BY DEF Match
<1>0. e # Garbage /\ e.id \in Ids
  BY RecordsAssumption DEF Recs, PutRecs, DelRecs, StatRecs
<1>1. m[id] = r[id] \/ (id \in l /\ r[id] = Absent)
  BY DEF Match
<1>2. CASE e \in PutRecs
  <2>1. e.op = "put"
    BY <1>2 DEF PutRecs
  <2>2. Apply(m, e) = [m EXCEPT ![e.id] = e.e] /\ Apply(r, e) = [r EXCEPT ![e.id] = e.e]
    BY <1>0, <2>1 DEF Apply
  <2> QED BY <1>0, <1>1, <2>1, <2>2 DEF States
<1>3. CASE e \in DelRecs
  <2>1. e.op = "del"
    BY <1>3 DEF DelRecs
  <2>2. Apply(m, e) = [m EXCEPT ![e.id] = Absent] /\ Apply(r, e) = [r EXCEPT ![e.id] = Absent]
    BY <1>0, <2>1 DEF Apply
  <2> QED BY <1>0, <1>1, <2>1, <2>2 DEF States
<1>4. CASE e \in StatRecs
  <2>1. e.op = "stat"
    BY <1>4 DEF StatRecs
  <2>2. \A x \in States : Apply(x, e) = IF x[e.id] = Absent THEN x
                          ELSE [x EXCEPT ![e.id] = mergeStats(x[e.id], e.d)]
    BY <1>0, <2>1 DEF Apply
  <2>3. \A x \in States : Apply(x, e)[id] = IF x[id] = Absent \/ id # e.id THEN x[id]
                                             ELSE mergeStats(x[id], e.d)
    BY <1>0, <2>2 DEF States
  <2> QED BY <1>1, <2>1, <2>3
<1> QED BY <1>2, <1>3, <1>4 DEF Recs

\* So does a sequence of records.
LEMMA ReplayMatch ==
  ASSUME NEW m \in States, NEW r \in States, NEW l, Match(m, r, l), NEW s \in Seq(Recs)
  PROVE  Match(Replay(m, s), Replay(r, s), l \ Settled(s))
<1> DEFINE P == {u \in Seq(Recs) : Match(Replay(m, u), Replay(r, u), l \ Settled(u))}
<1>1. <<>> \in P
  <2>1. Settled(<<>>) = {}
    BY DEF Settled
  <2>2. Replay(m, <<>>) = m /\ Replay(r, <<>>) = r
    BY ReplayEmpty
  <2>3. l \ Settled(<<>>) = l
    BY <2>1
  <2>4. Match(Replay(m, <<>>), Replay(r, <<>>), l \ Settled(<<>>))
    BY <2>2, <2>3
  <2> QED BY <2>4
<1>2. ASSUME NEW u \in Seq(Recs), NEW e \in Recs, u \in P
      PROVE  Append(u, e) \in P
  <2>1. u \in Seq(Lines) /\ e \in Lines /\ Append(u, e) \in Seq(Recs)
    BY DEF Lines
  <2>2. Replay(m, u) \in States /\ Replay(r, u) \in States
    BY <2>1, ReplayType
  <2> DEFINE lu == l \ Settled(u)
             le == IF e.op # "stat" THEN lu \ {e.id} ELSE lu
  <2>3. Match(Apply(Replay(m, u), e), Apply(Replay(r, u), e), le)
    <3>1. Match(Replay(m, u), Replay(r, u), lu)
      BY <1>2
    <3> HIDE DEF lu
    <3> QED BY <2>2, <3>1, ApplyMatch
  <2>4. le \subseteq l \ Settled(Append(u, e))
    <3> SUFFICES ASSUME NEW x \in Settled(Append(u, e))
                 PROVE  x \in Settled(u) \/ (e.op # "stat" /\ x = e.id)
      OBVIOUS
    <3>1. PICK i \in DOMAIN Append(u, e) :
            Append(u, e)[i].op # "stat" /\ x = Append(u, e)[i].id
      BY DEF Settled
    <3>2. i \in 1 .. Len(u) + 1 /\ DOMAIN u = 1 .. Len(u) /\ Len(u) \in Nat
      BY <3>1
    <3>3. CASE i \in 1 .. Len(u)
      <4>1. Append(u, e)[i] = u[i] /\ i \in DOMAIN u
        BY <3>2, <3>3
      <4> QED BY <3>1, <4>1 DEF Settled
    <3>4. CASE i = Len(u) + 1
      <4>1. Append(u, e)[i] = e
        BY <3>2, <3>4
      <4> QED BY <3>1, <4>1
    <3> QED BY <3>2, <3>3, <3>4
  <2>5. Match(Apply(Replay(m, u), e), Apply(Replay(r, u), e), l \ Settled(Append(u, e)))
    <3> HIDE DEF le
    <3> QED BY <2>3, <2>4 DEF Match
  <2>6. Replay(m, Append(u, e)) = Apply(Replay(m, u), e)
        /\ Replay(r, Append(u, e)) = Apply(Replay(r, u), e)
    BY <2>1, ReplayAppend
  <2> QED BY <2>1, <2>5, <2>6
<1> HIDE DEF P
<1>3. s \in P
  BY <1>1, <1>2, SeqSetInduction
<1> QED BY <1>3 DEF P
=============================================================================
