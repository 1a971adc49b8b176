------------------------- MODULE SessionInbox_proofs -------------------------
(***************************************************************************)
(* The durable inbox keeps its promises for any number of processes, keys, *)
(* entries and receipts, through every crash, failed write and corruption: *)
(* types and capacities, no accepted body is lost, a keyed request takes   *)
(* effect once, and a process acknowledges only executions of its own.     *)
(* The one exception is named: a corrupt manifest that was moved away and  *)
(* whose salvage was then cut short strands the bodies it spoke of, which  *)
(* are quarantined and never deleted.                                      *)
(*                                                                         *)
(* One predicate carries all of it (Sound): what a manifest says about the *)
(* bodies on disk, the requests that took effect and the executions under  *)
(* way.  It holds of the manifest on disk, of the manifest a process loads *)
(* (recovered or salvaged), and of the one each operation commits; the     *)
(* outcomes of a transaction only choose among these.                      *)
(***************************************************************************)
EXTENDS SessionInbox, FiniteSetTheorems, SequenceTheorems, TLAPS

Receipt == [key : Keys, id : Stems]
Manifest == [run : Procs \cup {Gone}, paused : BOOLEAN, st : [Stems -> States],
             blob : [Stems -> Stems \cup {NoStem}], key : [Keys -> Stems \cup {NoStem}],
             receipts : Seq(Receipt)]

HasReceipt(q, k) == \E a \in DOMAIN q : q[a].key = k
Remembers(m, k) == m.key[k] # NoStem \/ HasReceipt(m.receipts, k)

\* A manifest over the first n body files: every entry and its body are among
\* them, no two entries share a body, and a key has an entry or one receipt.
WellFormed(m, n) ==
    /\ m \in Manifest /\ Len(m.receipts) <= MaxReceipts
    /\ \A i \in Entries(m) : i \in 1 .. n /\ m.blob[i] \in 1 .. n
    /\ \A i, j \in Entries(m) : m.blob[i] = m.blob[j] => i = j
    /\ \A k \in Keys : m.key[k] # NoStem => ~HasReceipt(m.receipts, k)
    /\ \A a, b \in DOMAIN m.receipts : m.receipts[a].key = m.receipts[b].key => a = b

\* What the manifest m says of the bodies bs: they are there, and hold all that is
\* live.  A key not forgotten took effect at most once, and then the manifest
\* remembers it.  What is in flight was put there by the manifest's writer.
Sound(m, bs, n, lv, ef, fg, b) ==
    /\ WellFormed(m, n)
    /\ Bodies(m) \subseteq bs /\ lv \subseteq Bodies(m)
    /\ \A k \in Keys \ fg : ef[k] = 0 \/ (ef[k] = 1 /\ Remembers(m, k))
    /\ m.run \in Procs => \A i \in Stems : m.st[i] = "inflight" => b[i] = m.run

\* What the manifest must speak of: all that is live, unless a salvage was cut short.
Due == live \ stranded

Shape ==
    /\ file \in {"missing", "readable", "corrupt"} /\ stems \in 0 .. MaxStems
    /\ blobs \subseteq 1 .. stems /\ hold \in [Procs -> SUBSET Stems]
    /\ effects \in [Keys -> Nat] /\ by \in [Stems -> Procs \cup {Gone}]

IInv ==
    /\ Shape
    /\ Sound(man, blobs, stems, Due, effects, forgotten, by)
    /\ live \subseteq blobs \cup aside
    /\ file = "corrupt" => forgotten = Keys
    /\ ~misacked

-----------------------------------------------------------------------------
(* Manifests *)

\* Only the run id and the pause flag differ.
LEMMA SameContents ==
    ASSUME NEW m \in Manifest, NEW r \in Procs \cup {Gone}, NEW z \in BOOLEAN
    PROVE  LET x == [m EXCEPT !.run = r, !.paused = z]
           IN  /\ x \in Manifest /\ x.run = r /\ x.paused = z
               /\ x.st = m.st /\ x.blob = m.blob /\ x.key = m.key /\ x.receipts = m.receipts
BY DEF Manifest

\* A manifest keeps what Sound says of it while bodies are added, its entries keep
\* their bodies and keys, and nothing new is in flight.
LEMMA SoundAgain ==
    ASSUME NEW m, NEW bs, NEW n \in Nat, NEW lv, NEW ef, NEW fg, NEW b,
           Sound(m, bs, n, lv, ef, fg, b),
           NEW x \in Manifest, NEW bt, bs \subseteq bt, NEW c \in Nat, n <= c,
           Entries(x) = Entries(m), x.blob = m.blob, x.key = m.key, x.receipts = m.receipts,
           x.run \in Procs => \A i \in Stems : x.st[i] = "inflight" => b[i] = x.run
    PROVE  Sound(x, bt, c, lv, ef, fg, b)
BY DEF Sound, WellFormed, Bodies, Remembers

\* The empty manifest, over any bodies.
LEMMA EmptySound ==
    ASSUME NEW bs, NEW n \in Nat, NEW ef, NEW fg, NEW b, \A k \in Keys \ fg : ef[k] = 0
    PROVE  Sound(emptyManifest, bs, n, {}, ef, fg, b)
<1> DEFINE e == emptyManifest
           s == [i \in Stems |-> "none"]
           o == [i \in Stems |-> NoStem]
           c == [k \in Keys |-> NoStem]
<1>1. e = [run |-> Gone, paused |-> FALSE, st |-> s, blob |-> o, key |-> c, receipts |-> <<>>]
  BY DEF emptyManifest
<1>2. s \in [Stems -> States] /\ o \in [Stems -> Stems \cup {NoStem}]
      /\ c \in [Keys -> Stems \cup {NoStem}] /\ <<>> \in Seq(Receipt)
  BY EmptySeq DEF States
<1>3. e \in Manifest /\ e.st = s /\ e.key = c /\ e.receipts = <<>> /\ e.run = Gone
  <2> HIDE DEF s, o, c, e
  <2> QED BY <1>1, <1>2 DEF Manifest
<1>4. Entries(e) = {} /\ Bodies(e) = {}
  BY <1>3 DEF Entries, Bodies
<1>5. DOMAIN e.receipts = {} /\ Len(e.receipts) = 0
  BY <1>3
<1> HIDE DEF e
<1>6. WellFormed(e, n)
  BY <1>3, <1>4, <1>5, InboxAssumption DEF WellFormed, HasReceipt
<1> QED BY <1>3, <1>4, <1>6, InboxAssumption DEF Sound, e

\* What recovery makes of a manifest.
LEMMA RecoveredFacts ==
    ASSUME NEW m \in Manifest
    PROVE  /\ Recovered(m) \in Manifest /\ Entries(Recovered(m)) = Entries(m)
           /\ Recovered(m).blob = m.blob /\ Recovered(m).key = m.key
           /\ Recovered(m).receipts = m.receipts
           /\ \A i \in Stems : Recovered(m).st[i] # "inflight"
<1> DEFINE s == [i \in Stems |-> IF m.st[i] = "inflight" THEN "uncertain" ELSE m.st[i]]
           z == m.paused \/ Entries(m) # {}
<1>1. s \in [Stems -> States] /\ z \in BOOLEAN
  BY DEF Manifest, States, Pending
<1>2. Recovered(m) = [m EXCEPT !.st = s, !.paused = z]
  BY DEF Recovered
<1>3. /\ Recovered(m) \in Manifest /\ Recovered(m).st = s
      /\ Recovered(m).blob = m.blob /\ Recovered(m).key = m.key
      /\ Recovered(m).receipts = m.receipts
  <2> HIDE DEF s, z
  <2> QED BY <1>1, <1>2 DEF Manifest
<1> QED BY <1>3 DEF Entries

\* The salvaged manifest holds exactly the bodies on disk.
LEMMA SalvagedFacts ==
    ASSUME IInv
    PROVE  /\ Salvaged \in Manifest /\ Entries(Salvaged) = blobs /\ Bodies(Salvaged) = blobs
           /\ \A i \in blobs : Salvaged.blob[i] = i
           /\ \A i \in Stems : Salvaged.st[i] # "inflight"
           /\ Salvaged.key = [k \in Keys |-> NoStem] /\ Salvaged.receipts = <<>>
<1> DEFINE s == [i \in Stems |-> IF i \in blobs THEN "uncertain" ELSE "none"]
           b == [i \in Stems |-> IF i \in blobs THEN i ELSE NoStem]
           s0 == [i \in Stems |-> "none"]
           b0 == [i \in Stems |-> NoStem]
           c0 == [k \in Keys |-> NoStem]
<1>0. blobs \subseteq Stems
  BY InboxAssumption DEF IInv, Shape, Stems
<1>1. s \in [Stems -> States] /\ b \in [Stems -> Stems \cup {NoStem}]
  BY DEF States, Pending
<1>2. <<>> \in Seq(Receipt)
  BY EmptySeq
<1>3. /\ Salvaged = [emptyManifest EXCEPT !.st = s, !.blob = b, !.paused = TRUE]
      /\ emptyManifest = [run |-> Gone, paused |-> FALSE, st |-> s0, blob |-> b0,
                          key |-> c0, receipts |-> <<>>]
  BY DEF Salvaged, emptyManifest
<1>c. c0 \in [Keys -> Stems \cup {NoStem}]
  OBVIOUS
<1>4. /\ Salvaged \in Manifest /\ Salvaged.st = s /\ Salvaged.blob = b
      /\ Salvaged.key = c0 /\ Salvaged.receipts = <<>>
  <2> HIDE DEF s, b, s0, b0, c0
  <2> QED BY <1>1, <1>2, <1>3, <1>c DEF Manifest
<1>5. Entries(Salvaged) = blobs
  BY <1>0, <1>4 DEF Entries
<1>6. \A i \in blobs : Salvaged.blob[i] = i
  BY <1>0, <1>4
<1> QED BY <1>4, <1>5, <1>6 DEF Bodies

-----------------------------------------------------------------------------
(* Loading *)

\* The types that the manifest on disk brings with it.
LEMMA OnDiskTyped ==
    ASSUME IInv
    PROVE  /\ man \in Manifest /\ stems \in Nat /\ blobs \subseteq Stems
           /\ 1 .. stems \subseteq Stems
BY InboxAssumption DEF IInv, Shape, Sound, WellFormed, Stems

\* A load that committed nothing quarantines orphans only.
LEMMA KeptHasBodies ==
    ASSUME IInv, NEW p \in Procs
    PROVE  /\ Kept(p) \subseteq blobs /\ Bodies(man) \subseteq Kept(p)
           /\ file = "corrupt" => Kept(p) = blobs
BY DEF IInv, Sound, Kept, LoadCommits

\* What a process works from, and what its load leaves on disk, is sound.
LEMMA LoadedSound ==
    ASSUME IInv, NEW p \in Procs
    PROVE  /\ Sound(Loaded(p), Kept(p), stems, Due, effects, forgotten, by)
           /\ Sound(OnDisk(p), Kept(p), stems, Due, effects, forgotten, by)
           /\ Loaded(p).run = p
           /\ \A i \in Stems : Loaded(p).st[i] = "inflight" => by[i] = p
<1>t. man \in Manifest /\ stems \in Nat
  BY OnDiskTyped
<1>s. Sound(man, Kept(p), stems, Due, effects, forgotten, by)
  BY KeptHasBodies DEF IInv, Sound
<1>1. CASE file = "corrupt"
  <2>1. Loaded(p) = [Salvaged EXCEPT !.run = p] /\ OnDisk(p) = Loaded(p)
    BY <1>1 DEF Loaded, OnDisk, LoadCommits
  <2>2. /\ Loaded(p) \in Manifest /\ Loaded(p).run = p
        /\ Loaded(p).st = Salvaged.st /\ Loaded(p).blob = Salvaged.blob
        /\ Loaded(p).key = Salvaged.key /\ Loaded(p).receipts = <<>>
    BY <2>1, SalvagedFacts DEF Manifest
  <2>3. Entries(Loaded(p)) = blobs /\ Bodies(Loaded(p)) = blobs
    BY <2>2, SalvagedFacts DEF Entries, Bodies
  <2>4. WellFormed(Loaded(p), stems)
    <3>1. Len(Loaded(p).receipts) = 0 /\ DOMAIN Loaded(p).receipts = {}
      BY <2>2
    <3>2. \A i \in blobs : i \in 1 .. stems /\ Loaded(p).blob[i] = i
      BY <2>2, SalvagedFacts DEF IInv, Shape
    <3> QED BY <2>2, <2>3, <3>1, <3>2, SalvagedFacts, InboxAssumption DEF WellFormed, HasReceipt
  <2>5. Due \subseteq blobs /\ Kept(p) = blobs /\ forgotten = Keys
    BY <1>1, KeptHasBodies DEF IInv, Sound
  <2> QED BY <2>1, <2>2, <2>3, <2>4, <2>5, SalvagedFacts DEF Sound
<1>2. CASE file # "corrupt" /\ man.run # p
  <2>1. Loaded(p) = [Recovered(man) EXCEPT !.run = p]
    BY <1>2 DEF Loaded
  <2>2. /\ Loaded(p) \in Manifest /\ Loaded(p).run = p
        /\ Loaded(p).st = Recovered(man).st /\ Loaded(p).blob = man.blob
        /\ Loaded(p).key = man.key /\ Loaded(p).receipts = man.receipts
    BY <2>1, <1>t, RecoveredFacts DEF Manifest
  <2>3. /\ Entries(Loaded(p)) = Entries(man)
        /\ \A i \in Stems : Loaded(p).st[i] # "inflight"
    BY <2>2, <1>t, RecoveredFacts DEF Entries
  <2>4. Sound(Loaded(p), Kept(p), stems, Due, effects, forgotten, by)
    BY <1>s, <1>t, <2>2, <2>3, SoundAgain
  <2> QED BY <1>s, <2>2, <2>3, <2>4 DEF OnDisk
<1>3. CASE file # "corrupt" /\ man.run = p
  <2>1. Loaded(p) = man
    BY <1>3, <1>t DEF Loaded, Manifest
  <2>2. OnDisk(p) = man
    BY <2>1 DEF OnDisk
  <2> QED BY <1>s, <1>3, <2>1, <2>2 DEF Sound
<1> QED BY <1>1, <1>2, <1>3

-----------------------------------------------------------------------------
(* The manifests that operations commit *)

\* Another state for one entry.
LEMMA SetStateFacts ==
    ASSUME NEW m \in Manifest, NEW i \in Stems, NEW s \in States
    PROVE  LET x == SetState(m, i, s)
           IN  /\ x \in Manifest /\ x.run = m.run /\ x.paused = m.paused
               /\ x.blob = m.blob /\ x.key = m.key /\ x.receipts = m.receipts
               /\ x.st[i] = s /\ \A j \in Stems \ {i} : x.st[j] = m.st[j]
BY DEF SetState, Manifest

Put(m, i, s, b, k) == Keyed([SetState(m, i, s) EXCEPT !.blob[i] = b], k, i)

\* An entry and its new body, under a key or none.
LEMMA PutFacts ==
    ASSUME NEW m \in Manifest, NEW i \in Stems, NEW s \in States, NEW b \in Stems,
           NEW k \in Keys \cup {NoKey}
    PROVE  LET x == Put(m, i, s, b, k)
           IN  /\ x \in Manifest /\ x.run = m.run /\ x.receipts = m.receipts
               /\ x.st[i] = s /\ \A j \in Stems \ {i} : x.st[j] = m.st[j]
               /\ x.blob[i] = b /\ \A j \in Stems \ {i} : x.blob[j] = m.blob[j]
               /\ \A c \in Keys : x.key[c] = IF c = k THEN i ELSE m.key[c]
<1> DEFINE y == SetState(m, i, s)
           z == [y EXCEPT !.blob[i] = b]
<1>1. /\ y \in Manifest /\ y.run = m.run /\ y.paused = m.paused
      /\ y.blob = m.blob /\ y.key = m.key /\ y.receipts = m.receipts
      /\ y.st[i] = s /\ \A j \in Stems \ {i} : y.st[j] = m.st[j]
  BY SetStateFacts
<1> HIDE DEF y
<1>2. /\ z \in Manifest /\ z.run = m.run /\ z.key = m.key /\ z.receipts = m.receipts
      /\ z.st = y.st /\ z.blob[i] = b /\ \A j \in Stems \ {i} : z.blob[j] = m.blob[j]
  BY <1>1 DEF Manifest
<1> HIDE DEF z
<1>3. CASE k = NoKey
  BY <1>1, <1>2, <1>3, InboxAssumption DEF Put, Keyed, y, z
<1>4. CASE k # NoKey
  <2>1. /\ [z EXCEPT !.key[k] = i] \in Manifest
        /\ [z EXCEPT !.key[k] = i].key = [m.key EXCEPT ![k] = i]
        /\ [z EXCEPT !.key[k] = i].run = m.run
        /\ [z EXCEPT !.key[k] = i].receipts = m.receipts
        /\ [z EXCEPT !.key[k] = i].st = y.st
        /\ [z EXCEPT !.key[k] = i].blob = z.blob
    BY <1>2, <1>4 DEF Manifest
  <2>2. \A c \in Keys : [m.key EXCEPT ![k] = i][c] = IF c = k THEN i ELSE m.key[c]
    BY DEF Manifest
  <2> QED BY <1>1, <1>2, <1>4, <2>1, <2>2 DEF Put, Keyed, y, z
<1> QED BY <1>3, <1>4

\* A key that is not replayed is not remembered.
LEMMA NotReplayed ==
    ASSUME NEW m \in Manifest, NEW k \in Keys, ~Replayed(m, k)
    PROVE  ~Remembers(m, k)
BY InboxAssumption DEF Replayed, ReceiptOf, Remembers, HasReceipt

-----------------------------------------------------------------------------
(* Receipts *)

\* The keys of removed entries, in the order of their receipts: all of them, once.
LEMMA OrderingFacts ==
    ASSUME NEW S \in SUBSET Keys, NEW q \in Orderings(S)
    PROVE  /\ q \in Seq(S) /\ \A a, b \in DOMAIN q : q[a] = q[b] => a = b
           /\ \A k \in S : \E a \in DOMAIN q : q[a] = k
<1>1. IsFiniteSet(S) /\ Cardinality(S) \in Nat
  BY InboxAssumption, FS_Subset, FS_CardinalityType
<1>2. q \in [1 .. Cardinality(S) -> S] /\ \A a, b \in DOMAIN q : q[a] = q[b] => a = b
  BY DEF Orderings
<1>3. q \in Injection(1 .. Cardinality(S), S)
  BY <1>2 DEF Injection, IsInjective
<1>4. Cardinality(1 .. Cardinality(S)) = Cardinality(S)
  BY <1>1, FS_Interval
<1>5. q \in Surjection(1 .. Cardinality(S), S)
  BY <1>1, <1>3, <1>4, FS_Injection
<1>6. q \in Seq(S)
  BY <1>1, <1>2
<1> QED BY <1>2, <1>5, <1>6 DEF Surjection

\* The receipts with those of the removed entries added.
LEMMA WithReceiptsFacts ==
    ASSUME NEW m, NEW n, WellFormed(m, n), NEW S \in SUBSET Stems,
           NEW q \in Orderings(KeysFor(m, S))
    PROVE  LET w == WithReceipts(m, q)
           IN  /\ w \in Seq(Receipt)
               /\ \A a, b \in DOMAIN w : w[a].key = w[b].key => a = b
               /\ \A k \in Keys : HasReceipt(w, k) <=> HasReceipt(m.receipts, k) \/ m.key[k] \in S
<1> DEFINE r == m.receipts
           t == [a \in DOMAIN q |-> [key |-> q[a], id |-> m.key[q[a]]]]
           w == WithReceipts(m, q)
<1>1. /\ r \in Seq(Receipt) /\ m.key \in [Keys -> Stems \cup {NoStem}]
      /\ \A k \in Keys : m.key[k] # NoStem => ~HasReceipt(r, k)
      /\ \A a, b \in DOMAIN r : r[a].key = r[b].key => a = b
  BY DEF WellFormed, Manifest
<1>2. /\ q \in Seq(KeysFor(m, S)) /\ \A a, b \in DOMAIN q : q[a] = q[b] => a = b
      /\ \A k \in KeysFor(m, S) : \E a \in DOMAIN q : q[a] = k
  BY OrderingFacts DEF KeysFor
<1>3. \A a \in DOMAIN q : q[a] \in Keys /\ m.key[q[a]] \in S /\ m.key[q[a]] # NoStem
  BY <1>2 DEF KeysFor, Stems, NoStem
<1>4. t \in Seq(Receipt) /\ Len(t) = Len(q) /\ DOMAIN t = DOMAIN q
  <2>1. \A a \in DOMAIN q : [key |-> q[a], id |-> m.key[q[a]]] \in Receipt
    BY <1>3 DEF Receipt
  <2>2. DOMAIN q = 1 .. Len(q) /\ Len(q) \in Nat
    BY <1>2
  <2>3. t \in [1 .. Len(q) -> Receipt]
    BY <2>1, <2>2
  <2> HIDE DEF t
  <2> QED BY <2>2, <2>3
<1>5. \A a \in DOMAIN q : t[a].key = q[a]
  OBVIOUS
<1>6. w = r \o t
  BY DEF WithReceipts
<1> HIDE DEF r, t, w
<1>7. /\ w \in Seq(Receipt) /\ Len(w) = Len(r) + Len(t)
      /\ \A a \in 1 .. Len(r) : w[a] = r[a]
      /\ \A a \in 1 .. Len(t) : w[Len(r) + a] = t[a]
      /\ \A a \in (Len(r) + 1) .. Len(w) : a - Len(r) \in 1 .. Len(t) /\ w[a] = t[a - Len(r)]
  <2>1. /\ w \in Seq(Receipt) /\ Len(w) = Len(r) + Len(t)
        /\ \A a \in 1 .. Len(r) + Len(t) : w[a] = IF a <= Len(r) THEN r[a] ELSE t[a - Len(r)]
    BY <1>1, <1>4, <1>6, ConcatProperties
  <2>2. Len(r) \in Nat /\ Len(t) \in Nat
    BY <1>1, <1>4
  <2>3. \A a \in 1 .. Len(t) :
          /\ Len(r) + a \in 1 .. Len(r) + Len(t) /\ ~(Len(r) + a <= Len(r))
          /\ (Len(r) + a) - Len(r) = a
    BY <2>2
  <2>4. \A a \in 1 .. Len(t) : w[Len(r) + a] = t[a]
    BY <2>1, <2>3
  <2> QED BY <2>1, <2>2, <2>4
<1>8. DOMAIN w = 1 .. Len(w) /\ DOMAIN r = 1 .. Len(r) /\ DOMAIN t = 1 .. Len(t)
      /\ Len(r) \in Nat /\ Len(t) \in Nat /\ Len(w) \in Nat
  BY <1>1, <1>4, <1>7
<1>9. ASSUME NEW a \in DOMAIN w, NEW b \in DOMAIN w, w[a].key = w[b].key PROVE a = b
  <2>1. CASE a <= Len(r) /\ b <= Len(r)
    BY <2>1, <1>1, <1>7, <1>8, <1>9
  <2>2. CASE a > Len(r) /\ b > Len(r)
    <3>1. /\ w[a] = t[a - Len(r)] /\ a - Len(r) \in DOMAIN q
          /\ w[b] = t[b - Len(r)] /\ b - Len(r) \in DOMAIN q
      BY <2>2, <1>4, <1>7, <1>8
    <3>2. a - Len(r) = b - Len(r)
      BY <3>1, <1>2, <1>5, <1>9
    <3> QED BY <3>2, <1>8
  <2>3. ASSUME NEW c \in DOMAIN w, NEW d \in DOMAIN w, c <= Len(r), d > Len(r)
        PROVE  w[c].key # w[d].key
    <3>1. w[c] = r[c] /\ c \in DOMAIN r
      BY <2>3, <1>7, <1>8
    <3>2. w[d].key = q[d - Len(r)] /\ d - Len(r) \in DOMAIN q
      BY <2>3, <1>4, <1>5, <1>7, <1>8
    <3>3. ~HasReceipt(r, q[d - Len(r)])
      BY <3>2, <1>1, <1>3
    <3> QED BY <3>1, <3>2, <3>3 DEF HasReceipt
  <2> QED BY <2>1, <2>2, <2>3, <1>8, <1>9
<1>10. ASSUME NEW k \in Keys
       PROVE  HasReceipt(w, k) <=> HasReceipt(r, k) \/ m.key[k] \in S
  <2>1. ASSUME HasReceipt(w, k) PROVE HasReceipt(r, k) \/ m.key[k] \in S
    <3>1. PICK a \in DOMAIN w : w[a].key = k
      BY <2>1 DEF HasReceipt
    <3>2. CASE a <= Len(r)
      BY <3>1, <3>2, <1>7, <1>8 DEF HasReceipt
    <3>3. CASE a > Len(r)
      <4>1. w[a] = t[a - Len(r)] /\ a - Len(r) \in DOMAIN q
        BY <3>3, <1>4, <1>7, <1>8
      <4> QED BY <3>1, <4>1, <1>3, <1>5
    <3> QED BY <3>2, <3>3, <1>8
  <2>2. ASSUME HasReceipt(r, k) PROVE HasReceipt(w, k)
    BY <2>2, <1>7, <1>8 DEF HasReceipt
  <2>3. ASSUME m.key[k] \in S PROVE HasReceipt(w, k)
    <3>1. PICK a \in DOMAIN q : q[a] = k
      BY <2>3, <1>2 DEF KeysFor
    <3>2. Len(r) + a \in DOMAIN w /\ w[Len(r) + a].key = k
      BY <3>1, <1>4, <1>5, <1>7, <1>8
    <3> QED BY <3>2 DEF HasReceipt
  <2> QED BY <2>1, <2>2, <2>3
<1> QED BY <1>7, <1>9, <1>10 DEF r, w

\* Pruning drops the oldest receipts, and only those beyond the limit.
LEMMA PrunedFacts ==
    ASSUME NEW w \in Seq(Receipt),
           \A a, b \in DOMAIN w : w[a].key = w[b].key => a = b
    PROVE  LET z == Pruned(w)
           IN  /\ z \in Seq(Receipt) /\ Len(z) <= MaxReceipts
               /\ \A a, b \in DOMAIN z : z[a].key = z[b].key => a = b
               /\ \A k \in Keys : HasReceipt(z, k) => HasReceipt(w, k)
               /\ \A k \in Keys : HasReceipt(w, k) =>
                    HasReceipt(z, k) \/ k \in {w[a].key : a \in 1 .. Excess(w)}
<1> DEFINE z == Pruned(w)
           e == Excess(w)
<1>1. /\ e \in Nat /\ e <= Len(w) /\ Len(w) \in Nat /\ Len(w) - e <= MaxReceipts
      /\ DOMAIN w = 1 .. Len(w)
  BY InboxAssumption DEF Excess
<1>z. z = SubSeq(w, e + 1, Len(w))
  BY DEF Pruned
<1> HIDE DEF e, z
<1>2. /\ z \in Seq(Receipt) /\ Len(z) = Len(w) - e
      /\ \A a \in 1 .. Len(z) : z[a] = w[e + a]
  <2>1. \A a \in (e + 1) .. Len(w) : w[a] \in Receipt
    BY <1>1
  <2>2. /\ z \in Seq(Receipt)
        /\ Len(z) = IF e + 1 <= Len(w) THEN Len(w) - (e + 1) + 1 ELSE 0
        /\ \A a \in 1 .. (Len(w) - (e + 1) + 1) : z[a] = w[e + 1 + a - 1]
    BY <1>1, <1>z, <2>1, SubSeqProperties
  <2>3. Len(z) = Len(w) - e
    <3>1. CASE e + 1 <= Len(w)
      BY <1>1, <2>2, <3>1
    <3>2. CASE ~(e + 1 <= Len(w))
      <4>1. e = Len(w)
        <5>1. \A a, l \in Nat : a <= l /\ ~(a + 1 <= l) => a = l
          OBVIOUS
        <5> QED BY <1>1, <3>2, <5>1
      <4>2. Len(z) = 0
        BY <2>2, <3>2
      <4> QED BY <1>1, <4>1, <4>2
    <3> QED BY <3>1, <3>2
  <2>4. \A a \in 1 .. Len(z) : a \in 1 .. (Len(w) - (e + 1) + 1) /\ e + 1 + a - 1 = e + a
    BY <1>1, <2>3
  <2> QED BY <2>2, <2>3, <2>4
<1>3. DOMAIN z = 1 .. Len(z)
  BY <1>2
<1>4. ASSUME NEW a \in DOMAIN z, NEW b \in DOMAIN z, z[a].key = z[b].key PROVE a = b
  <2>1. /\ e + a \in DOMAIN w /\ e + b \in DOMAIN w /\ a \in Nat /\ b \in Nat
        /\ w[e + a].key = w[e + b].key
    BY <1>1, <1>2, <1>3, <1>4
  <2>2. e + a = e + b
    BY <2>1
  <2> QED BY <1>1, <2>1, <2>2
<1>5. \A k \in Keys : HasReceipt(z, k) => HasReceipt(w, k)
  BY <1>1, <1>2, <1>3 DEF HasReceipt
<1>6. ASSUME NEW k \in Keys, HasReceipt(w, k)
      PROVE  HasReceipt(z, k) \/ k \in {w[a].key : a \in 1 .. e}
  <2>1. PICK a \in DOMAIN w : w[a].key = k
    BY <1>6 DEF HasReceipt
  <2>2. CASE a <= e
    BY <2>1, <2>2, <1>1
  <2>3. CASE a > e
    <3>1. a - e \in DOMAIN z /\ z[a - e] = w[a]
      BY <2>3, <1>1, <1>2, <1>3
    <3> QED BY <2>1, <3>1 DEF HasReceipt
  <2> QED BY <2>2, <2>3, <1>1
<1> QED BY <1>1, <1>2, <1>4, <1>5, <1>6 DEF e, z

\* Discard, DeleteItem and AckDequeue commit a sound manifest: the bodies of the
\* removed entries are no other entry's, and their keys leave receipts.
LEMMA SoundRemove ==
    ASSUME NEW m, NEW bs, NEW n \in Nat, NEW lv, NEW ef, NEW fg, NEW b,
           Sound(m, bs, n, lv, ef, fg, b),
           NEW S \in SUBSET Stems, S \subseteq Entries(m), NEW q \in Orderings(KeysFor(m, S)),
           NEW drop, \A l : l \in drop <=> \E i \in S : l = m.blob[i],
           NEW w, w = WithReceipts(m, q), NEW fh, fg \subseteq fh,
           \A a \in 1 .. Excess(w) : w[a].key \in fh
    PROVE  /\ Sound(Removed(m, S, q), bs \ drop, n, lv \ drop, ef, fh, b)
           /\ Removed(m, S, q).run = m.run
<1> DEFINE x == Removed(m, S, q)
           z == Pruned(w)
           s == [i \in Stems |-> IF i \in S THEN "none" ELSE m.st[i]]
           o == [i \in Stems |-> IF i \in S THEN NoStem ELSE m.blob[i]]
           y == [k \in Keys |-> IF m.key[k] \in S THEN NoStem ELSE m.key[k]]
<1>0. m \in Manifest /\ WellFormed(m, n)
  BY DEF Sound, WellFormed
<1>1. /\ w \in Seq(Receipt) /\ \A a, c \in DOMAIN w : w[a].key = w[c].key => a = c
      /\ \A k \in Keys : HasReceipt(w, k) <=> HasReceipt(m.receipts, k) \/ m.key[k] \in S
  BY <1>0, WithReceiptsFacts
<1>2. /\ z \in Seq(Receipt) /\ Len(z) <= MaxReceipts
      /\ \A a, c \in DOMAIN z : z[a].key = z[c].key => a = c
      /\ \A k \in Keys : HasReceipt(z, k) => HasReceipt(w, k)
      /\ \A k \in Keys : HasReceipt(w, k) =>
           HasReceipt(z, k) \/ k \in {w[a].key : a \in 1 .. Excess(w)}
  BY <1>1, PrunedFacts
<1>3. /\ s \in [Stems -> States] /\ o \in [Stems -> Stems \cup {NoStem}]
      /\ y \in [Keys -> Stems \cup {NoStem}]
  BY <1>0 DEF Manifest, States
<1>4. Cleared(m, S) = [m EXCEPT !.st = s, !.blob = o, !.key = y]
  BY DEF Cleared
<1>5. x = [Cleared(m, S) EXCEPT !.receipts = z]
  BY DEF Removed
<1>6. /\ x \in Manifest /\ x.run = m.run /\ x.st = s /\ x.blob = o /\ x.key = y
      /\ x.receipts = z
  <2> HIDE DEF s, o, y, x, z
  <2>1. /\ Cleared(m, S) \in Manifest /\ Cleared(m, S).run = m.run
        /\ Cleared(m, S).st = s /\ Cleared(m, S).blob = o /\ Cleared(m, S).key = y
    BY <1>0, <1>3, <1>4 DEF Manifest
  <2> QED BY <1>2, <1>5, <2>1 DEF Manifest
<1>7. /\ Entries(x) = Entries(m) \ S /\ \A i \in Entries(x) : x.blob[i] = m.blob[i]
  <2> HIDE DEF x, z
  <2> QED BY <1>6 DEF Entries
<1>8. \A k \in Keys : x.key[k] = IF m.key[k] \in S THEN NoStem ELSE m.key[k]
  <2> HIDE DEF x, z
  <2> QED BY <1>6
<1>9. \A i \in Stems : x.st[i] = "inflight" => m.st[i] = "inflight"
  <2> HIDE DEF x, z
  <2> QED BY <1>6
<1> HIDE DEF x, z, s, o, y
<1>10. WellFormed(x, n)
  <2>1. \A k \in Keys : x.key[k] # NoStem => ~HasReceipt(x.receipts, k)
    BY <1>0, <1>1, <1>2, <1>6, <1>8 DEF WellFormed
  <2> QED BY <1>0, <1>2, <1>6, <1>7, <2>1 DEF WellFormed
<1>11. Bodies(x) \subseteq bs \ drop
  BY <1>0, <1>7 DEF Sound, Bodies, WellFormed
<1>12. lv \ drop \subseteq Bodies(x)
  <2> SUFFICES ASSUME NEW l \in lv \ drop PROVE l \in Bodies(x)
    OBVIOUS
  <2>1. PICK i \in Entries(m) : l = m.blob[i]
    BY DEF Sound, Bodies
  <2>2. i \notin S
    BY <2>1
  <2> QED BY <2>1, <2>2, <1>7 DEF Bodies
<1>13. \A k \in Keys \ fh : ef[k] = 0 \/ (ef[k] = 1 /\ Remembers(x, k))
  <2> SUFFICES ASSUME NEW k \in Keys, k \notin fh, ef[k] # 0
               PROVE  ef[k] = 1 /\ Remembers(x, k)
    OBVIOUS
  <2>1. ef[k] = 1 /\ Remembers(m, k)
    BY DEF Sound
  <2> QED BY <2>1, <1>1, <1>2, <1>6, <1>8 DEF Remembers
<1>14. x.run \in Procs => \A i \in Stems : x.st[i] = "inflight" => b[i] = x.run
  BY <1>6, <1>9 DEF Sound
<1> QED BY <1>6, <1>10, <1>11, <1>12, <1>13, <1>14 DEF Sound, x

-----------------------------------------------------------------------------
(* Transactions *)

\* What a transaction that did its work must have established about the manifest
\* it committed and the bodies it left.
Committed(next, bs) ==
    /\ Sound(next, bs, stems', Due', effects', forgotten', by')
    /\ effects' \in [Keys -> Nat] /\ by' \in [Stems -> Procs \cup {Gone}]

\* A step that leaves a committed manifest, perhaps of a process that died since,
\* and the bodies it speaks of, keeps the invariant.
LEMMA Lands ==
    ASSUME IInv, NEW p \in Procs, NEW next, NEW bs, Committed(next, bs), bs \subseteq blobs',
           \/ man' = next
           \/ man' = [next EXCEPT !.run = IF @ = p THEN Gone ELSE @],
           blobs' \subseteq 1 .. stems', stems' \in 0 .. MaxStems,
           hold' \in [Procs -> SUBSET Stems], ~misacked',
           live' \subseteq blobs' \cup aside', file' \in {"missing", "readable", "corrupt"},
           file' = "corrupt" => forgotten' = Keys
    PROVE  IInv'
<1>1. stems' \in Nat
  BY InboxAssumption
<1>2. next \in Manifest
  BY DEF Committed, Sound, WellFormed
<1>3. /\ man' \in Manifest /\ Entries(man') = Entries(next) /\ man'.blob = next.blob
      /\ man'.key = next.key /\ man'.receipts = next.receipts
      /\ man'.run \in Procs => man'.run = next.run
      /\ man'.st = next.st
  BY <1>2, InboxAssumption DEF Manifest, Entries
<1>4. Sound(man', blobs', stems', Due', effects', forgotten', by')
  <2>1. Sound(next, bs, stems', Due', effects', forgotten', by')
    BY DEF Committed
  <2>2. man'.run \in Procs => \A i \in Stems : man'.st[i] = "inflight" => by'[i] = man'.run
    BY <1>3, <2>1 DEF Sound
  <2> QED BY <1>1, <1>3, <2>1, <2>2, SoundAgain
<1> QED BY <1>4 DEF IInv, Shape, Committed, Sound

\* What the work of a transaction must have established: the commit is sound, and
\* what is live was live before and is not dropped, or was added.
Effect(p, next, add, drop) ==
    /\ Committed(next, (Kept(p) \cup add) \ drop)
    /\ live' \subseteq (live \ drop) \cup (add \ drop)

\* The bodies a step writes are among those named so far.
LEMMA BodiesNamed ==
    ASSUME IInv, NEW p \in Procs, NEW add, stems' \in stems .. MaxStems, add \subseteq 1 .. stems'
    PROVE  /\ stems \in Nat /\ stems' \in Nat /\ stems' \in 0 .. MaxStems /\ stems <= stems'
           /\ Kept(p) \cup add \subseteq 1 .. stems' /\ blobs \subseteq 1 .. stems'
<1>1. stems \in Nat /\ stems' \in Nat /\ stems' \in 0 .. MaxStems /\ stems <= stems'
  BY InboxAssumption DEF IInv, Shape
<1>2. Kept(p) \subseteq 1 .. stems /\ blobs \subseteq 1 .. stems
  BY KeptHasBodies DEF IInv, Shape
<1>3. 1 .. stems \subseteq 1 .. stems'
  BY <1>1
<1> QED BY <1>1, <1>2, <1>3

\* A transaction that replaces the manifest keeps the invariant if its work does.
LEMMA CommitsLand ==
    ASSUME IInv, NEW p \in Procs, NEW next, NEW add, NEW drop, NEW held \in SUBSET Stems,
           stems' \in stems .. MaxStems, add \subseteq 1 .. stems', ~misacked',
           Commits(p, next, add, drop, held, TRUE), Effect(p, next, add, drop)
    PROVE  IInv'
<1> DEFINE bs == (Kept(p) \cup add) \ drop
<1>1. /\ stems' \in 0 .. MaxStems /\ Kept(p) \cup add \subseteq 1 .. stems'
      /\ hold \in [Procs -> SUBSET Stems]
  BY BodiesNamed DEF IInv, Shape
<1>2. /\ file' = "readable" /\ aside' = aside \cup (blobs \ Kept(p))
      /\ hold' \in [Procs -> SUBSET Stems]
      /\ man' = next \/ man' = [next EXCEPT !.run = IF @ = p THEN Gone ELSE @]
      /\ bs \subseteq blobs' /\ blobs' \subseteq Kept(p) \cup add
  BY <1>1 DEF Commits, Dies
<1>3. Committed(next, bs) /\ live' \subseteq (live \ drop) \cup (add \ drop)
  BY DEF Effect
<1>4. live' \subseteq blobs' \cup aside'
  BY <1>2, <1>3 DEF IInv
<1>5. blobs' \subseteq 1 .. stems'
  BY <1>1, <1>2
<1> HIDE DEF bs
<1> QED BY <1>1, <1>2, <1>3, <1>4, <1>5, Lands

\* A load keeps the invariant, whether or not a transaction fails after it.
LEMMA LoadsLand ==
    ASSUME IInv, NEW p \in Procs, NEW add, NEW held \in SUBSET Stems,
           stems' \in stems .. MaxStems, add \subseteq 1 .. stems', ~misacked',
           Loads(p, add, held)
    PROVE  IInv'
<1>1. /\ stems \in Nat /\ stems' \in Nat /\ stems <= stems' /\ stems' \in 0 .. MaxStems
      /\ Kept(p) \cup add \subseteq 1 .. stems' /\ hold \in [Procs -> SUBSET Stems]
  BY BodiesNamed DEF IInv, Shape
<1>2. /\ file' \in {"missing", "readable"} /\ aside' = aside \cup (blobs \ Kept(p))
      /\ hold' \in [Procs -> SUBSET Stems] /\ UNCHANGED <<stranded, history>>
      /\ man' = OnDisk(p) \/ man' = [OnDisk(p) EXCEPT !.run = IF @ = p THEN Gone ELSE @]
      /\ Kept(p) \subseteq blobs' /\ blobs' \subseteq Kept(p) \cup add
  BY <1>1 DEF Loads, Dies, LoadCommits, IInv, Shape
<1>3. Due' = Due /\ UNCHANGED <<live, effects, forgotten, by>>
  BY <1>2 DEF Due, history
<1>4. Committed(OnDisk(p), Kept(p))
  <2>1. Sound(OnDisk(p), Kept(p), stems', Due, effects, forgotten, by)
    BY <1>1, LoadedSound DEF Sound, WellFormed
  <2> QED BY <1>3, <2>1 DEF Committed, IInv, Shape
<1>5. live' \subseteq blobs' \cup aside'
  BY <1>2, <1>3, KeptHasBodies DEF IInv
<1>6. blobs' \subseteq 1 .. stems'
  BY <1>1, <1>2
<1> QED BY <1>1, <1>2, <1>4, <1>5, <1>6, Lands

\* So does a load that fails.  If it has moved a corrupt manifest away, the empty
\* one takes its place, and nothing is due any more of what was live.
LEMMA LoadFailsLand ==
    ASSUME IInv, NEW p \in Procs, stems' \in stems .. MaxStems, ~misacked', LoadFails(p)
    PROVE  IInv'
<1>1. /\ stems \in Nat /\ stems' \in Nat /\ stems <= stems' /\ stems' \in 0 .. MaxStems
      /\ blobs \subseteq 1 .. stems' /\ hold \in [Procs -> SUBSET Stems]
  <2> DEFINE add == {}
  <2>1. add \subseteq 1 .. stems'
    OBVIOUS
  <2> HIDE DEF add
  <2> QED BY <2>1, BodiesNamed DEF IInv, Shape
<1>2. /\ UNCHANGED <<blobs, aside, history>> /\ hold' \in [Procs -> SUBSET Stems]
  BY <1>1 DEF LoadFails, Dies
<1>3. UNCHANGED <<blobs, aside, live, effects, forgotten, by>>
  BY <1>2 DEF history
<1>4. live' \subseteq blobs' \cup aside' /\ blobs' \subseteq 1 .. stems'
  BY <1>1, <1>3 DEF IInv
<1>5. CASE file' = file /\ stranded' = stranded
           /\ (man' = man \/ man' = [man EXCEPT !.run = IF @ = p THEN Gone ELSE @])
  <2>1. Due' = Due
    BY <1>3, <1>5 DEF Due
  <2>2. Sound(man, blobs, stems', Due, effects, forgotten, by)
    BY <1>1 DEF IInv, Sound, WellFormed
  <2>3. Committed(man, blobs)
    BY <1>3, <2>1, <2>2 DEF Committed, IInv, Shape
  <2>4. file' \in {"missing", "readable", "corrupt"} /\ (file' = "corrupt" => forgotten' = Keys)
    BY <1>3, <1>5 DEF IInv, Shape
  <2> QED BY <1>1, <1>2, <1>3, <1>4, <1>5, <2>3, <2>4, Lands
<1>6. CASE /\ file = "corrupt" /\ file' = "missing" /\ stranded' = stranded \cup live
           /\ \/ man' = emptyManifest
              \/ man' = [emptyManifest EXCEPT !.run = IF @ = p THEN Gone ELSE @]
  <2>1. Due' = {} /\ forgotten = Keys
    BY <1>3, <1>6 DEF Due, IInv
  <2>2. Sound(emptyManifest, blobs, stems', {}, effects, forgotten, by)
    BY <1>1, <2>1, EmptySound
  <2>3. Committed(emptyManifest, blobs)
    BY <1>3, <2>1, <2>2 DEF Committed, IInv, Shape
  <2> QED BY <1>1, <1>2, <1>3, <1>4, <1>6, <2>3, Lands
<1>7. PICK left \in {file} \cup (IF file = "corrupt" THEN {"missing"} ELSE {}) :
         /\ file' = left
         /\ stranded' = IF left = file THEN stranded ELSE stranded \cup live
         /\ \/ man' = (IF left = file THEN man ELSE emptyManifest)
            \/ man' = [(IF left = file THEN man ELSE emptyManifest)
                          EXCEPT !.run = IF @ = p THEN Gone ELSE @]
  BY DEF LoadFails, Dies
<1>8. CASE left = file
  BY <1>5, <1>7, <1>8
<1>9. CASE left # file
  BY <1>6, <1>7, <1>9
<1> QED BY <1>8, <1>9

\* The body an entry had before it is given a new one.
Replaced(m, i) == IF i \in Entries(m) THEN {m.blob[i]} ELSE {}

\* Enqueue and Update commit a sound manifest: the new body, which no entry had,
\* takes the place of the entry's old one, and the key is remembered.
LEMMA CommitPut ==
    ASSUME IInv, NEW p \in Procs, NEW i \in Stems, NEW s \in Pending, NEW k \in Keys \cup {NoKey},
           stems < MaxStems, stems' = stems + 1, ~Replayed(Loaded(p), k),
           i = stems' \/ i \in Entries(Loaded(p)),
           live' = (live \ Replaced(Loaded(p), i)) \cup {stems'},
           TookEffect(k), UNCHANGED <<forgotten, by, stranded>>
    PROVE  Committed(Put(Loaded(p), i, s, stems', k),
                     (Kept(p) \cup {stems'}) \ Replaced(Loaded(p), i))
<1> DEFINE m == Loaded(p)
           n == stems
           body == stems'
           x == Put(m, i, s, body, k)
           old == Replaced(m, i)
<1>s. Sound(m, Kept(p), stems, Due, effects, forgotten, by)
  BY LoadedSound
<1>0. /\ m \in Manifest /\ body \in Stems /\ body \in Nat /\ s \in States /\ s # "none"
      /\ s # "inflight" /\ n \in Nat /\ body = n + 1
      /\ i \in Entries(m) => old = {m.blob[i]}
      /\ i \notin Entries(m) => old = {}
  BY <1>s, InboxAssumption DEF Sound, WellFormed, Stems, States, Pending, IInv, Shape, Replaced
<1>l. live' = (live \ old) \cup {body} /\ ~Replayed(m, k) /\ (i = body \/ i \in Entries(m))
  OBVIOUS
<1>1. /\ x \in Manifest /\ x.run = m.run /\ x.receipts = m.receipts
      /\ x.st[i] = s /\ \A j \in Stems \ {i} : x.st[j] = m.st[j]
      /\ x.blob[i] = body /\ \A j \in Stems \ {i} : x.blob[j] = m.blob[j]
      /\ \A c \in Keys : x.key[c] = IF c = k THEN i ELSE m.key[c]
  <2> HIDE DEF m, body
  <2> QED BY <1>0, PutFacts
<1> HIDE DEF x, m, n, body, old
<1>2. Entries(x) = Entries(m) \cup {i}
  BY <1>0, <1>1 DEF Entries
<1>3. /\ \A j \in Entries(m) : j \in Stems /\ j \in 1 .. n /\ m.blob[j] \in 1 .. n
      /\ \A j, h \in Entries(m) : m.blob[j] = m.blob[h] => j = h
  BY <1>s DEF Sound, WellFormed, Entries, n
<1>4. \A j \in Entries(x) : j \in 1 .. body /\ x.blob[j] \in 1 .. body
  BY <1>0, <1>l, <1>1, <1>2, <1>3
<1>5. \A j, h \in Entries(x) : x.blob[j] = x.blob[h] => j = h
  BY <1>0, <1>l, <1>1, <1>2, <1>3
<1>6. \A c \in Keys : x.key[c] # NoStem => ~HasReceipt(x.receipts, c)
  BY <1>s, <1>l, <1>0, <1>1, NotReplayed DEF Sound, WellFormed, Remembers
<1>7. WellFormed(x, body)
  BY <1>s, <1>1, <1>4, <1>5, <1>6 DEF Sound, WellFormed
<1>8. Bodies(x) \subseteq (Kept(p) \cup {body}) \ old
  <2> SUFFICES ASSUME NEW j \in Entries(x)
               PROVE  x.blob[j] \in (Kept(p) \cup {body}) \ old
    BY DEF Bodies
  <2>1. CASE j = i
    BY <2>1, <1>0, <1>1, <1>3
  <2>2. CASE j # i
    BY <2>2, <1>s, <1>0, <1>1, <1>2, <1>3 DEF Sound, Bodies
  <2> QED BY <2>1, <2>2
<1>9. Due' \subseteq Bodies(x)
  <2>1. body \in Bodies(x)
    BY <1>1, <1>2 DEF Bodies
  <2>2. ASSUME NEW l \in Due, l \notin old PROVE l \in Bodies(x)
    <3>1. PICK j \in Entries(m) : l = m.blob[j]
      BY <1>s, <2>2 DEF Sound, Bodies
    <3>2. j # i
      BY <1>0, <2>2, <3>1
    <3> QED BY <3>1, <3>2, <1>1, <1>2, <1>3 DEF Bodies
  <2> QED BY <1>l, <2>1, <2>2 DEF Due
<1>10. effects' \in [Keys -> Nat] /\ by' \in [Stems -> Procs \cup {Gone}]
  BY DEF TookEffect, IInv, Shape
<1>11. \A c \in Keys \ forgotten' : effects'[c] = 0 \/ (effects'[c] = 1 /\ Remembers(x, c))
  <2> SUFFICES ASSUME NEW c \in Keys \ forgotten
               PROVE  effects'[c] = 0 \/ (effects'[c] = 1 /\ Remembers(x, c))
    OBVIOUS
  <2>0. effects[c] = 0 \/ (effects[c] = 1 /\ Remembers(m, c))
    BY <1>s DEF Sound
  <2>1. CASE c = k
    <3>1. effects[c] = 0
      BY <1>0, <1>l, <2>0, <2>1, NotReplayed
    <3>2. effects'[c] = 1
      BY <2>1, <3>1 DEF TookEffect
    <3>3. x.key[c] # NoStem
      BY <2>1, <1>1 DEF Stems, NoStem
    <3> QED BY <3>2, <3>3 DEF Remembers
  <2>2. CASE c # k
    <3>1. effects'[c] = effects[c]
      BY <2>2 DEF TookEffect
    <3> QED BY <2>0, <2>2, <3>1, <1>1 DEF Remembers
  <2> QED BY <2>1, <2>2
<1>12. x.run \in Procs => \A j \in Stems : x.st[j] = "inflight" => by'[j] = x.run
  BY <1>s, <1>0, <1>1 DEF Sound
<1>13. Sound(x, (Kept(p) \cup {body}) \ old, body, Due', effects', forgotten', by')
  BY <1>7, <1>8, <1>9, <1>11, <1>12 DEF Sound
<1> QED BY <1>10, <1>13 DEF Committed, x, body, old, m

\* A transaction that writes no body, finishes no entry and keeps the keys: only
\* states, the pause flag and who executes what change.
Restates(p, x) ==
    /\ x \in Manifest /\ Entries(x) = Entries(Loaded(p)) /\ x.blob = Loaded(p).blob
    /\ x.key = Loaded(p).key /\ x.receipts = Loaded(p).receipts /\ x.run = p

\* A manifest that keeps every entry, body, key and receipt of the loaded one is sound.
LEMMA Restated ==
    ASSUME IInv, NEW p \in Procs, NEW x, Restates(p, x), UNCHANGED <<stems, live, stranded, effects, forgotten>>,
           by' \in [Stems -> Procs \cup {Gone}],
           \A i \in Stems : x.st[i] = "inflight" => by'[i] = p
    PROVE  Committed(x, (Kept(p) \cup {}) \ {})
<1>1. Sound(Loaded(p), Kept(p), stems, Due, effects, forgotten, by) /\ stems \in Nat
  BY LoadedSound, OnDiskTyped
<1>2. Sound(x, Kept(p), stems, Due, effects, forgotten, by')
  BY <1>1 DEF Restates, Sound, WellFormed, Bodies, Remembers
<1> QED BY <1>2 DEF Committed, Due, IInv, Shape

\* What a process loads is typed, and its entries keep their states' type.
LEMMA LoadedTyped ==
    ASSUME IInv, NEW p \in Procs
    PROVE  /\ Loaded(p) \in Manifest /\ Loaded(p).run = p
           /\ \A i \in Stems : Loaded(p).st[i] \in States
           /\ \A i \in Stems : Loaded(p).st[i] # "none" <=> i \in Entries(Loaded(p))
           /\ hold[p] \in SUBSET Stems
<1>1. Loaded(p) \in Manifest /\ Loaded(p).run = p
  BY LoadedSound DEF Sound, WellFormed
<1> QED BY <1>1 DEF Manifest, Entries, IInv, Shape

\* Changing the state of one entry restates the manifest.
LEMMA SetStateRestates ==
    ASSUME IInv, NEW p \in Procs, NEW i \in Stems, NEW s \in States \ {"none"},
           Loaded(p).st[i] # "none"
    PROVE  /\ Restates(p, SetState(Loaded(p), i, s))
           /\ SetState(Loaded(p), i, s).st[i] = s
           /\ \A j \in Stems \ {i} : SetState(Loaded(p), i, s).st[j] = Loaded(p).st[j]
<1> DEFINE m == Loaded(p)
           x == SetState(m, i, s)
<1>1. m \in Manifest /\ m.run = p
  BY LoadedTyped
<1> HIDE DEF m
<1>2. /\ x \in Manifest /\ x.run = m.run /\ x.paused = m.paused
      /\ x.blob = m.blob /\ x.key = m.key /\ x.receipts = m.receipts
      /\ x.st[i] = s /\ \A j \in Stems \ {i} : x.st[j] = m.st[j]
  BY <1>1, SetStateFacts
<1> HIDE DEF x
<1>3. Entries(x) = Entries(m)
  BY <1>2 DEF Entries, m
<1> QED BY <1>1, <1>2, <1>3 DEF Restates, m, x

-----------------------------------------------------------------------------
(* The steps *)

\* A new entry, its body and its key.
LEMMA StepEnqueue ==
    ASSUME IInv, NEW p \in Procs, NEW k \in Keys \cup {NoKey}, Enqueue(p, k)
    PROVE  IInv'
<1> DEFINE i == stems'
           next == Put(Loaded(p), i, "queued", i, k)
           old == Replaced(Loaded(p), i)
           add == {i}
<1>1. /\ i \in Stems /\ stems \in Nat /\ stems < MaxStems
      /\ stems' = stems + 1 /\ i \in stems .. MaxStems /\ i \in 1 .. i
  BY InboxAssumption DEF Enqueue, IInv, Shape, Stems
<1>2. i \notin Entries(Loaded(p)) /\ "queued" \in Pending /\ ~Replayed(Loaded(p), k)
  <2>1. Sound(Loaded(p), Kept(p), stems, Due, effects, forgotten, by)
    BY LoadedSound
  <2> QED BY <1>1, <2>1 DEF Sound, WellFormed, Pending, Enqueue
<1>3. old = {} /\ live \cup {i} = (live \ old) \cup {i}
  BY <1>2 DEF Replaced
<1>4. ASSUME live' = live \cup {i}, TookEffect(k), UNCHANGED <<forgotten, by, stranded>>
      PROVE  Effect(p, next, add, old)
  <2> HIDE DEF old
  <2>1. live' = (live \ Replaced(Loaded(p), i)) \cup {i}
    BY <1>3, <1>4 DEF old
  <2>2. Committed(next, (Kept(p) \cup add) \ old)
    BY <1>1, <1>2, <1>4, <2>1, CommitPut DEF old
  <2>3. live' \subseteq (live \ old) \cup (add \ old)
    BY <1>3, <1>4
  <2> HIDE DEF next, add
  <2> QED BY <2>2, <2>3 DEF Effect
<1>5. hold[p] \in SUBSET Stems
  BY DEF IInv, Shape
<1>6. ~misacked' /\ add \subseteq 1 .. stems'
  BY <1>1 DEF Enqueue, IInv
<1>7. Transact(p, next, add, {}, hold[p],
               /\ live' = live \cup {i} /\ TookEffect(k) /\ UNCHANGED <<forgotten, by>>)
  BY <1>1 DEF Enqueue, Put
<1>8. \/ Commits(p, next, add, old, hold[p], TRUE) /\ Effect(p, next, add, old)
      \/ Loads(p, add, hold[p])
      \/ LoadFails(p)
  <2> HIDE DEF next, add, old
  <2> QED BY <1>3, <1>4, <1>7 DEF Transact, Commits
<1> HIDE DEF next, add, old
<1> QED BY <1>1, <1>5, <1>6, <1>8, CommitsLand, LoadsLand, LoadFailsLand

\* A new body for an entry, and perhaps one more key.
LEMMA StepUpdate ==
    ASSUME IInv, NEW p \in Procs, NEW i \in Stems, NEW k \in Keys \cup {NoKey}, Update(p, i, k)
    PROVE  IInv'
<1> DEFINE m == Loaded(p)
           b == stems'
           s == IF m.st[i] = "blocked" THEN "queued" ELSE m.st[i]
           next == Put(m, i, s, b, k)
           old == {m.blob[i]}
           add == {b}
<1>1. /\ b \in Stems /\ stems \in Nat /\ stems < MaxStems
      /\ stems' = stems + 1 /\ b \in stems .. MaxStems /\ b \in 1 .. b
  BY InboxAssumption DEF Update, IInv, Shape, Stems
<1>2. i \in Entries(m) /\ s \in Pending /\ ~Replayed(m, k)
  BY DEF Update, Entries, Pending
<1>3. old = Replaced(m, i)
  BY <1>2 DEF Replaced
<1>o. b \notin old
  <2>1. Sound(m, Kept(p), stems, Due, effects, forgotten, by)
    BY LoadedSound
  <2> HIDE DEF m, s
  <2>2. m.blob[i] \in 1 .. stems
    BY <1>2, <2>1 DEF Sound, WellFormed
  <2>3. b \notin 1 .. stems
    BY <1>1
  <2> QED BY <2>2, <2>3
<1>4. ASSUME live' = (live \ old) \cup {b}, TookEffect(k), UNCHANGED <<forgotten, by, stranded>>
      PROVE  Effect(p, next, add, old)
  <2> HIDE DEF s, old
  <2>1. Committed(next, (Kept(p) \cup add) \ old)
    BY <1>1, <1>2, <1>3, <1>4, CommitPut
  <2>2. live' \subseteq (live \ old) \cup (add \ old)
    BY <1>4, <1>o
  <2> HIDE DEF next, add
  <2> QED BY <2>1, <2>2 DEF Effect
<1>5. hold[p] \in SUBSET Stems
  BY DEF IInv, Shape
<1>6. ~misacked' /\ add \subseteq 1 .. stems'
  BY <1>1 DEF Update, IInv
<1>7. Transact(p, next, add, old, hold[p],
               /\ live' = (live \ old) \cup {b} /\ TookEffect(k) /\ UNCHANGED <<forgotten, by>>)
  BY <1>1 DEF Update, Put
<1>8. \/ Commits(p, next, add, old, hold[p], TRUE) /\ Effect(p, next, add, old)
      \/ Loads(p, add, hold[p])
      \/ LoadFails(p)
  <2> HIDE DEF next, add, old
  <2> QED BY <1>4, <1>7 DEF Transact, Commits
<1> HIDE DEF next, add, old
<1> QED BY <1>1, <1>5, <1>6, <1>8, CommitsLand, LoadsLand, LoadFailsLand

\* Entries are removed, their keys leave receipts and their bodies go.
LEMMA StepRemove ==
    ASSUME IInv, NEW p \in Procs, NEW S \in SUBSET Stems, S \subseteq Entries(Loaded(p)),
           NEW held \in SUBSET Stems, Remove(p, S, held), UNCHANGED stems, ~misacked'
    PROVE  IInv'
<1> DEFINE m == Loaded(p)
           drop == {m.blob[i] : i \in S}
<1>1. PICK q \in Orderings(KeysFor(m, S)) :
        Transact(p, Removed(m, S, q), {}, drop, held,
                 /\ live' = live \ drop
                 /\ forgotten' = forgotten \cup
                      {WithReceipts(m, q)[n].key : n \in 1 .. Excess(WithReceipts(m, q))}
                 /\ UNCHANGED <<effects, by>>)
  BY DEF Remove
<1> DEFINE next == Removed(m, S, q)
           w == WithReceipts(m, q)
           none == {}
           fh == forgotten \cup {w[a].key : a \in 1 .. Excess(w)}
<1>2. Sound(m, Kept(p), stems, Due, effects, forgotten, by) /\ stems \in Nat
  BY LoadedSound, OnDiskTyped
<1>3. Sound(next, Kept(p) \ drop, stems, Due \ drop, effects, fh, by)
  <2>1. /\ S \subseteq Entries(m) /\ w = WithReceipts(m, q)
        /\ \A l : l \in drop <=> \E i \in S : l = m.blob[i]
        /\ q \in Orderings(KeysFor(m, S))
        /\ forgotten \subseteq fh /\ \A a \in 1 .. Excess(w) : w[a].key \in fh
    OBVIOUS
  <2> HIDE DEF m, drop, w, fh
  <2> QED BY <1>2, <2>1, SoundRemove
<1>4. ASSUME live' = live \ drop, forgotten' = fh, UNCHANGED <<effects, by, stranded>>
      PROVE  Effect(p, next, none, drop)
  <2>1. (Kept(p) \cup none) \ drop = Kept(p) \ drop
    OBVIOUS
  <2>2. Due' = Due \ drop /\ live' \subseteq (live \ drop) \cup (none \ drop)
    BY <1>4 DEF Due
  <2> HIDE DEF next, w, drop, fh, none
  <2> QED BY <1>3, <1>4, <2>1, <2>2 DEF Effect, Committed, IInv, Shape
<1>5. \/ Commits(p, next, none, drop, held, TRUE) /\ Effect(p, next, none, drop)
      \/ Loads(p, none, hold[p])
      \/ LoadFails(p)
  <2> HIDE DEF next, drop
  <2> QED BY <1>1, <1>4 DEF Transact, Commits, next, drop
<1>6. /\ stems' \in stems .. MaxStems /\ none \subseteq 1 .. stems'
      /\ hold[p] \in SUBSET Stems
  BY InboxAssumption DEF IInv, Shape
<1> HIDE DEF next, drop, none
<1> QED BY <1>5, <1>6, CommitsLand, LoadsLand, LoadFailsLand

\* A load, done or failed, when nothing else happens.
LEMMA StepLoad ==
    ASSUME IInv, NEW p \in Procs, NEW held \in SUBSET Stems, UNCHANGED stems, ~misacked',
           Loads(p, {}, held) \/ LoadFails(p)
    PROVE  IInv'
<1> DEFINE none == {}
<1>1. stems' \in stems .. MaxStems /\ none \subseteq 1 .. stems'
  BY InboxAssumption DEF IInv, Shape
<1>2. Loads(p, none, held) \/ LoadFails(p)
  OBVIOUS
<1> HIDE DEF none
<1> QED BY <1>1, <1>2, LoadsLand, LoadFailsLand

\* A transaction that restates the manifest.
LEMMA StepRestate ==
    ASSUME IInv, NEW p \in Procs, NEW x, NEW held \in SUBSET Stems, UNCHANGED stems, ~misacked',
           Restates(p, x),
           \/ /\ Commits(p, x, {}, {}, held, TRUE)
              /\ UNCHANGED <<live, effects, forgotten>> /\ by' \in [Stems -> Procs \cup {Gone}]
              /\ \A i \in Stems : x.st[i] = "inflight" => by'[i] = p
           \/ Loads(p, {}, hold[p])
           \/ LoadFails(p)
    PROVE  IInv'
<1>1. CASE /\ Commits(p, x, {}, {}, held, TRUE)
           /\ UNCHANGED <<live, effects, forgotten>> /\ by' \in [Stems -> Procs \cup {Gone}]
           /\ \A i \in Stems : x.st[i] = "inflight" => by'[i] = p
  <2> DEFINE none == {}
  <2>1. stems' \in stems .. MaxStems /\ none \subseteq 1 .. stems'
    BY InboxAssumption DEF IInv, Shape
  <2>2. UNCHANGED stranded
    BY <1>1 DEF Commits
  <2>3. Committed(x, (Kept(p) \cup none) \ none)
    BY <1>1, <2>2, Restated
  <2>4. live' \subseteq (live \ none) \cup (none \ none)
    BY <1>1
  <2>5. Commits(p, x, none, none, held, TRUE)
    BY <1>1
  <2> HIDE DEF none
  <2>6. Effect(p, x, none, none)
    BY <2>3, <2>4 DEF Effect
  <2> QED BY <2>1, <2>5, <2>6, CommitsLand
<1>2. CASE Loads(p, {}, hold[p]) \/ LoadFails(p)
  <2>1. hold[p] \in SUBSET Stems
    BY DEF IInv, Shape
  <2> QED BY <1>2, <2>1, StepLoad
<1> QED BY <1>1, <1>2

\* Entries not yet admitted are deleted.
LEMMA StepDiscard ==
    ASSUME IInv, NEW p \in Procs, NEW S \in SUBSET Stems, Discard(p, S)
    PROVE  IInv'
<1>1. S \subseteq Entries(Loaded(p)) /\ hold[p] \in SUBSET Stems
  BY DEF Discard, Entries, Pending, IInv, Shape
<1>2. Remove(p, S, hold[p]) /\ UNCHANGED stems /\ ~misacked'
  BY DEF Discard, IInv
<1> QED BY <1>1, <1>2, StepRemove

\* A transaction that restates the manifest and puts nothing in flight.
LEMMA StepQuiet ==
    ASSUME IInv, NEW p \in Procs, NEW x, NEW held \in SUBSET Stems, UNCHANGED stems, ~misacked',
           Restates(p, x), \A j \in Stems : x.st[j] = "inflight" => by[j] = p,
           Transact(p, x, {}, {}, held, UNCHANGED history)
    PROVE  IInv'
<1>1. by \in [Stems -> Procs \cup {Gone}]
  BY DEF IInv, Shape
<1>2. \/ Commits(p, x, {}, {}, held, TRUE) /\ UNCHANGED <<live, effects, forgotten, by>>
      \/ Loads(p, {}, hold[p])
      \/ LoadFails(p)
  BY DEF Transact, Commits, history
<1>3. \/ /\ Commits(p, x, {}, {}, held, TRUE)
         /\ UNCHANGED <<live, effects, forgotten>> /\ by' \in [Stems -> Procs \cup {Gone}]
         /\ \A i \in Stems : x.st[i] = "inflight" => by'[i] = p
      \/ Loads(p, {}, hold[p])
      \/ LoadFails(p)
  BY <1>1, <1>2
<1> QED BY <1>3, StepRestate

\* An acknowledgement removes an execution of the same process, or only marks.
LEMMA StepAck ==
    ASSUME IInv, NEW p \in Procs, NEW i \in Stems, Ack(p, i)
    PROVE  IInv'
<1> DEFINE m == Loaded(p)
           held == hold[p] \ {i}
<1>1. /\ UNCHANGED stems /\ held \in SUBSET Stems
      /\ \A j \in Stems : m.st[j] = "inflight" => by[j] = p
  BY LoadedSound, LoadedTyped DEF Ack
<1>2. ~misacked'
  BY <1>1 DEF Ack, Acknowledgeable, IInv
<1>3. CASE m.st[i] = "inflight"
  <2> DEFINE S == {i}
  <2>1. S \in SUBSET Stems /\ S \subseteq Entries(m) /\ Remove(p, S, held)
    BY <1>3 DEF Ack, Acknowledgeable, Entries
  <2> HIDE DEF S, held
  <2> QED BY <1>1, <1>2, <2>1, StepRemove
<1>4. CASE m.st[i] = "none"
  <2>1. LoadOnly(p, held)
    BY <1>4 DEF Ack, Acknowledgeable
  <2> HIDE DEF held
  <2> QED BY <1>1, <1>2, <2>1, StepLoad DEF LoadOnly
<1>5. CASE m.st[i] # "inflight" /\ m.st[i] # "none"
  <2> DEFINE y == SetState(m, i, "uncertain")
             x == [y EXCEPT !.paused = TRUE]
  <2>1. Transact(p, x, {}, {}, held, UNCHANGED history)
    BY <1>5 DEF Ack, Acknowledgeable
  <2>2. Restates(p, x) /\ \A j \in Stems : x.st[j] = "inflight" => by[j] = p
    <3>1. "uncertain" \in States \ {"none"}
      BY DEF States, Pending
    <3>2. /\ Restates(p, y) /\ y.st[i] = "uncertain"
          /\ \A j \in Stems \ {i} : y.st[j] = m.st[j]
      BY <1>5, <3>1, SetStateRestates
    <3> HIDE DEF y
    <3>3. /\ x \in Manifest /\ x.st = y.st /\ x.blob = y.blob /\ x.key = y.key
          /\ x.receipts = y.receipts /\ x.run = y.run
      BY <3>2 DEF Restates, Manifest
    <3>4. Entries(x) = Entries(y)
      BY <3>3 DEF Entries
    <3> QED BY <1>1, <3>2, <3>3, <3>4 DEF Restates
  <2> HIDE DEF x, held
  <2> QED BY <1>1, <1>2, <2>1, <2>2, StepQuiet
<1> QED BY <1>3, <1>4, <1>5

\* An entry is put in flight by the process that will execute it.
LEMMA StepTakeOff ==
    ASSUME IInv, NEW p \in Procs, NEW i \in Stems, Loaded(p).st[i] # "none", TakeOff(p, i)
    PROVE  IInv'
<1> DEFINE x == SetState(Loaded(p), i, "inflight")
           held == hold[p] \cup {i}
           Done == by' = [by EXCEPT ![i] = p] /\ UNCHANGED <<live, effects, forgotten>>
<1>1. held \in SUBSET Stems /\ \A j \in Stems : Loaded(p).st[j] = "inflight" => by[j] = p
  BY LoadedSound, LoadedTyped
<1>2. UNCHANGED stems /\ ~misacked' /\ by \in [Stems -> Procs \cup {Gone}]
  BY DEF TakeOff, IInv, Shape
<1>3. /\ Restates(p, x) /\ x.st[i] = "inflight"
      /\ \A j \in Stems \ {i} : x.st[j] = Loaded(p).st[j]
  <2>1. "inflight" \in States \ {"none"}
    BY DEF States, Pending
  <2> QED BY <2>1, SetStateRestates
<1>4. Transact(p, x, {}, {}, held, Done)
  BY DEF TakeOff
<1>5. ASSUME Done
      PROVE  /\ UNCHANGED <<live, effects, forgotten>> /\ by' \in [Stems -> Procs \cup {Gone}]
             /\ \A j \in Stems : x.st[j] = "inflight" => by'[j] = p
  <2> HIDE DEF x
  <2> QED BY <1>1, <1>2, <1>3, <1>5
<1> HIDE DEF x, held, Done
<1>6. \/ Commits(p, x, {}, {}, held, TRUE) /\ Done
      \/ Loads(p, {}, hold[p])
      \/ LoadFails(p)
  BY <1>4 DEF Transact, Commits
<1> QED BY <1>1, <1>2, <1>3, <1>5, <1>6, StepRestate

\* An executor gives an entry back, or leaves it for review.
LEMMA StepRelease ==
    ASSUME IInv, NEW p \in Procs, NEW i \in Stems, NEW s, Release(p, i, s)
    PROVE  IInv'
<1> DEFINE x == SetState(Loaded(p), i, s)
           held == hold[p] \ {i}
<1>1. held \in SUBSET Stems /\ \A j \in Stems : Loaded(p).st[j] = "inflight" => by[j] = p
  BY LoadedSound, LoadedTyped
<1>2. UNCHANGED stems /\ ~misacked'
  BY DEF Release, IInv
<1>3. /\ Restates(p, x) /\ x.st[i] # "inflight"
      /\ \A j \in Stems \ {i} : x.st[j] = Loaded(p).st[j]
  <2>1. s \in States \ {"none"} /\ s # "inflight" /\ Loaded(p).st[i] # "none"
    BY DEF Release, States, Pending
  <2> QED BY <2>1, SetStateRestates
<1>4. Transact(p, x, {}, {}, held, UNCHANGED history)
  BY DEF Release
<1> HIDE DEF x, held
<1>5. \A j \in Stems : x.st[j] = "inflight" => by[j] = p
  BY <1>1, <1>3
<1> QED BY <1>1, <1>2, <1>3, <1>4, <1>5, StepQuiet

\* A transaction of the user or of the recovery, which puts nothing in flight.
LEMMA StepRewrite ==
    ASSUME IInv, NEW p \in Procs, NEW x, Rewrite(p, x), Restates(p, x),
           \A j \in Stems : x.st[j] = "inflight" => Loaded(p).st[j] = "inflight"
    PROVE  IInv'
<1> DEFINE held == hold[p]
<1>1. held \in SUBSET Stems /\ \A j \in Stems : Loaded(p).st[j] = "inflight" => by[j] = p
  BY LoadedSound, LoadedTyped
<1>2. UNCHANGED stems /\ ~misacked' /\ Transact(p, x, {}, {}, held, UNCHANGED history)
  BY DEF Rewrite, IInv
<1> HIDE DEF held
<1> QED BY <1>1, <1>2, StepQuiet

\* Block and RetryItem move one entry between states that are not in flight.
LEMMA StepUser ==
    ASSUME IInv, NEW p \in Procs, NEW i \in Stems,
           Block(p, i) \/ RetryItem(p, i)
    PROVE  IInv'
<1>1. PICK s \in {"queued", "blocked"} : Rewrite(p, SetState(Loaded(p), i, s))
  BY DEF Block, RetryItem
<1> DEFINE x == SetState(Loaded(p), i, s)
<1>2. s \in States \ {"none"} /\ Loaded(p).st[i] # "none" /\ s # "inflight"
  BY DEF States, Pending, Block, RetryItem
<1>3. /\ Restates(p, x) /\ x.st[i] = s
      /\ \A j \in Stems \ {i} : x.st[j] = Loaded(p).st[j]
  BY <1>2, SetStateRestates
<1>4. Rewrite(p, x)
  BY <1>1
<1> HIDE DEF x
<1>5. \A j \in Stems : x.st[j] = "inflight" => Loaded(p).st[j] = "inflight"
  BY <1>2, <1>3
<1> QED BY <1>3, <1>4, <1>5, StepRewrite

\* SetPaused changes the pause flag alone.
LEMMA StepSetPaused ==
    ASSUME IInv, NEW p \in Procs, SetPaused(p)
    PROVE  IInv'
<1> DEFINE m == Loaded(p)
           x == [m EXCEPT !.paused = ~@]
<1>1. m \in Manifest /\ m.run = p
  BY LoadedTyped
<1>2. Rewrite(p, x)
  BY DEF SetPaused
<1>3. /\ x \in Manifest /\ x.st = m.st /\ x.blob = m.blob /\ x.key = m.key
      /\ x.receipts = m.receipts /\ x.run = m.run
  <2> HIDE DEF m
  <2> QED BY <1>1 DEF Manifest
<1> HIDE DEF x
<1>4. Restates(p, x) /\ \A j \in Stems : x.st[j] = "inflight" => m.st[j] = "inflight"
  BY <1>1, <1>3 DEF Restates, Entries
<1> QED BY <1>2, <1>4, StepRewrite

\* Recover turns in-flight entries nobody holds into uncertain ones.
LEMMA StepRecover ==
    ASSUME IInv, NEW p \in Procs, Recover(p)
    PROVE  IInv'
<1> DEFINE m == Loaded(p)
           orphans == {i \in Stems : m.st[i] = "inflight"} \ hold[p]
           s == [i \in Stems |-> IF i \in orphans THEN "uncertain" ELSE m.st[i]]
           x == [m EXCEPT !.st = s, !.paused = TRUE]
<1>1. m \in Manifest /\ m.run = p
  BY LoadedTyped
<1>2. Rewrite(p, x)
  BY DEF Recover
<1>3. s \in [Stems -> States]
  BY <1>1 DEF Manifest, States, Pending
<1>4. /\ x \in Manifest /\ x.st = s /\ x.blob = m.blob /\ x.key = m.key
      /\ x.receipts = m.receipts /\ x.run = m.run
  <2> HIDE DEF m, s
  <2> QED BY <1>1, <1>3 DEF Manifest
<1>5. \A j \in Stems : (s[j] = "inflight" => m.st[j] = "inflight")
                       /\ (s[j] = "none" <=> m.st[j] = "none")
  OBVIOUS
<1> HIDE DEF x, s
<1>6. Restates(p, x) /\ \A j \in Stems : x.st[j] = "inflight" => m.st[j] = "inflight"
  BY <1>1, <1>4, <1>5 DEF Restates, Entries
<1> QED BY <1>2, <1>6, StepRewrite

\* Touch only loads.
LEMMA StepTouch ==
    ASSUME IInv, NEW p \in Procs, Touch(p)
    PROVE  IInv'
<1> DEFINE held == hold[p]
<1>1. held \in SUBSET Stems /\ UNCHANGED stems /\ ~misacked' /\ LoadOnly(p, held)
  BY DEF Touch, IInv, Shape
<1> HIDE DEF held
<1> QED BY <1>1, StepLoad DEF LoadOnly

\* A receipt expires: the others keep their order.
LEMMA StepExpire ==
    ASSUME IInv, NEW k \in Keys, Expire(k)
    PROVE  IInv'
<1> DEFINE r == man.receipts
<1>1. PICK n \in DOMAIN r : r[n].key = k /\ man' = [man EXCEPT !.receipts = Without(r, n)]
  BY DEF Expire
<1> DEFINE z == Without(r, n)
           L == SubSeq(r, 1, n - 1)
           R == SubSeq(r, n + 1, Len(r))
<1>2. /\ man \in Manifest /\ r \in Seq(Receipt) /\ Len(r) \in Nat /\ Len(r) <= MaxReceipts
      /\ DOMAIN r = 1 .. Len(r) /\ n \in 1 .. Len(r)
      /\ \A a, b \in DOMAIN r : r[a].key = r[b].key => a = b
  BY DEF IInv, Sound, WellFormed, Manifest
<1>z. z = L \o R
  BY DEF Without
<1> HIDE DEF r, z
<1>3. /\ L \in Seq(Receipt) /\ Len(L) = n - 1
      /\ \A a \in 1 .. n - 1 : L[a] = r[a]
  BY <1>2, SubSeqProperties
<1>4. /\ R \in Seq(Receipt) /\ Len(R) = Len(r) - n
      /\ \A a \in 1 .. (Len(r) - n) : R[a] = r[n + a]
  <2>1. \A a \in (n + 1) .. Len(r) : r[a] \in Receipt
    BY <1>2
  <2>2. /\ R \in Seq(Receipt)
        /\ Len(R) = IF n + 1 <= Len(r) THEN Len(r) - (n + 1) + 1 ELSE 0
        /\ \A a \in 1 .. (Len(r) - (n + 1) + 1) : R[a] = r[n + 1 + a - 1]
    BY <1>2, <2>1, SubSeqProperties
  <2> HIDE DEF R
  <2>3. \A a, l \in Nat : (a + 1 <= l => l - (a + 1) + 1 = l - a)
                          /\ (a <= l /\ ~(a + 1 <= l) => l - a = 0)
    OBVIOUS
  <2>4. Len(R) = Len(r) - n
    BY <1>2, <2>2, <2>3
  <2>5. \A a \in 1 .. (Len(r) - n) :
          a \in 1 .. (Len(r) - (n + 1) + 1) /\ n + 1 + a - 1 = n + a
    BY <1>2
  <2> QED BY <2>2, <2>4, <2>5
<1> HIDE DEF L, R
<1>5. /\ z \in Seq(Receipt) /\ Len(z) = Len(r) - 1 /\ DOMAIN z = 1 .. Len(z)
      /\ \A a \in 1 .. (Len(r) - 1) : z[a] = IF a <= n - 1 THEN r[a] ELSE r[a + 1]
  <2>1. /\ z \in Seq(Receipt) /\ Len(z) = Len(L) + Len(R) /\ DOMAIN z = 1 .. Len(z)
        /\ \A a \in 1 .. Len(L) + Len(R) : z[a] = IF a <= Len(L) THEN L[a] ELSE R[a - Len(L)]
    BY <1>3, <1>4, <1>z, ConcatProperties
  <2>2. Len(L) + Len(R) = Len(r) - 1
    BY <1>2, <1>3, <1>4
  <2>3. ASSUME NEW a \in 1 .. (Len(r) - 1)
        PROVE  z[a] = IF a <= n - 1 THEN r[a] ELSE r[a + 1]
    <3>1. CASE a <= n - 1
      BY <3>1, <1>2, <1>3, <2>1, <2>2
    <3>2. CASE ~(a <= n - 1)
      <4>1. z[a] = R[a - (n - 1)] /\ a - (n - 1) \in 1 .. (Len(r) - n)
        BY <3>2, <1>2, <1>3, <2>1, <2>2
      <4>2. n + (a - (n - 1)) = a + 1
        BY <1>2
      <4> QED BY <3>2, <1>4, <4>1, <4>2
    <3> QED BY <3>1, <3>2
  <2> QED BY <2>1, <2>2, <2>3
<1>6. \A a, b \in DOMAIN z : z[a].key = z[b].key => a = b
  <2> SUFFICES ASSUME NEW a \in DOMAIN z, NEW b \in DOMAIN z, z[a].key = z[b].key
               PROVE  a = b
    OBVIOUS
  <2> DEFINE at(c) == IF c <= n - 1 THEN c ELSE c + 1
  <2>1. \A c \in DOMAIN z : c \in Nat /\ at(c) \in DOMAIN r /\ z[c] = r[at(c)]
    BY <1>2, <1>5
  <2>2. at(a) = at(b)
    <3> HIDE DEF at
    <3> QED BY <1>2, <2>1
  <2> QED BY <1>2, <2>1, <2>2
<1>7. \A c \in Keys : HasReceipt(z, c) => HasReceipt(r, c)
  <2> SUFFICES ASSUME NEW c \in Keys, NEW a \in DOMAIN z, z[a].key = c
               PROVE  \E b \in DOMAIN r : r[b].key = c
    BY DEF HasReceipt
  <2>1. CASE a <= n - 1
    BY <2>1, <1>2, <1>5
  <2>2. CASE ~(a <= n - 1)
    <3>1. a + 1 \in DOMAIN r /\ z[a] = r[a + 1]
      BY <2>2, <1>2, <1>5
    <3> QED BY <3>1
  <2> QED BY <2>1, <2>2
<1>8. \A c \in Keys \ {k} : HasReceipt(r, c) => HasReceipt(z, c)
  <2> SUFFICES ASSUME NEW c \in Keys \ {k}, NEW a \in DOMAIN r, r[a].key = c
               PROVE  \E b \in DOMAIN z : z[b].key = c
    BY DEF HasReceipt
  <2>1. a # n
    BY <1>1
  <2>2. CASE a < n
    BY <2>2, <1>2, <1>5
  <2>3. CASE a > n
    <3>1. a - 1 \in DOMAIN z /\ ~(a - 1 <= n - 1) /\ (a - 1) + 1 = a
      BY <2>3, <1>2, <1>5
    <3> QED BY <3>1, <1>2, <1>5
  <2> QED BY <2>1, <2>2, <2>3, <1>2
<1>9. /\ man' \in Manifest /\ man'.run = man.run /\ man'.st = man.st /\ man'.blob = man.blob
      /\ man'.key = man.key /\ man'.receipts = z
  BY <1>1, <1>2, <1>5 DEF Manifest, z
<1>10. Entries(man') = Entries(man) /\ Bodies(man') = Bodies(man)
  BY <1>9 DEF Entries, Bodies
<1>11. WellFormed(man', stems)
  <2>1. Len(z) <= MaxReceipts
    BY <1>2, <1>5, InboxAssumption
  <2> QED BY <2>1, <1>6, <1>7, <1>9, <1>10 DEF IInv, Sound, WellFormed, r
<1>12. \A c \in Keys \ (forgotten \cup {k}) : effects[c] = 0 \/ (effects[c] = 1 /\ Remembers(man', c))
  BY <1>8, <1>9 DEF IInv, Sound, Remembers, r
<1>13. /\ forgotten' = forgotten \cup {k}
       /\ UNCHANGED <<file, blobs, aside, hold, stems, broken, live, stranded, effects, by, misacked>>
  BY DEF Expire
<1>14. Sound(man', blobs, stems, Due, effects, forgotten', by)
  BY <1>9, <1>10, <1>11, <1>12, <1>13 DEF IInv, Sound
<1>15. file = "corrupt" => forgotten' = Keys
  BY <1>13 DEF IInv
<1> QED BY <1>13, <1>14, <1>15 DEF IInv, Due, Shape

-----------------------------------------------------------------------------
(* The theorems *)

\* The empty inbox.
LEMMA InitInv == Init => IInv
<1> SUFFICES ASSUME Init PROVE IInv
  OBVIOUS
<1>1. stems = 0 /\ Due = {} /\ \A k \in Keys \ forgotten : effects[k] = 0
  BY DEF Init, Due
<1>2. Sound(man, blobs, stems, Due, effects, forgotten, by)
  <2>1. Sound(emptyManifest, blobs, stems, {}, effects, forgotten, by)
    BY <1>1, EmptySound
  <2> QED BY <1>1, <2>1 DEF Init
<1>3. Shape
  <2>1. file = "missing" /\ blobs = {}
    BY DEF Init
  <2>2. stems = 0 /\ 0 \in 0 .. MaxStems
    BY InboxAssumption DEF Init
  <2>3. hold \in [Procs -> SUBSET Stems] /\ by \in [Stems -> Procs \cup {Gone}]
    BY DEF Init
  <2>4. effects \in [Keys -> Nat]
    BY DEF Init
  <2> QED BY <2>1, <2>2, <2>3, <2>4 DEF Shape
<1>4. file = "missing" /\ misacked = FALSE /\ live = {}
  BY DEF Init
<1> QED BY <1>2, <1>3, <1>4 DEF IInv

\* Every step keeps the invariant.
LEMMA NextInv == IInv /\ [Next]_vars => IInv'
<1> SUFFICES ASSUME IInv, [Next]_vars PROVE IInv'
  OBVIOUS
<1>1. ASSUME NEW p \in Procs, NEW k \in Keys \cup {NoKey}, Enqueue(p, k) PROVE IInv'
  BY <1>1, StepEnqueue
<1>2. ASSUME NEW p \in Procs, NEW i \in Stems, NEW k \in Keys \cup {NoKey}, Update(p, i, k)
      PROVE  IInv'
  BY <1>2, StepUpdate
<1>3. ASSUME NEW p \in Procs, NEW S \in SUBSET Stems, Discard(p, S) PROVE IInv'
  BY <1>3, StepDiscard
<1>4. ASSUME NEW p \in Procs, NEW i \in Stems, Ack(p, i) PROVE IInv'
  BY <1>4, StepAck
<1>5. ASSUME NEW p \in Procs, NEW i \in Stems, Claim(p, i) \/ SteerAccept(p, i) PROVE IInv'
  BY <1>5, StepTakeOff DEF Claim, SteerAccept
<1>6. ASSUME NEW p \in Procs, NEW i \in Stems, NEW s \in Pending, Release(p, i, s) PROVE IInv'
  BY <1>6, StepRelease
<1>7. ASSUME NEW p \in Procs, NEW i \in Stems, Block(p, i) \/ RetryItem(p, i) PROVE IInv'
  BY <1>7, StepUser
<1>8. ASSUME NEW p \in Procs, NEW i \in Stems, Forget(p, i) PROVE IInv'
  <2>1. hold' \in [Procs -> SUBSET Stems]
    BY <1>8 DEF Forget, IInv, Shape
  <2> QED BY <1>8, <2>1 DEF Forget, history, IInv, Due, Shape
<1>9. ASSUME NEW p \in Procs, SetPaused(p) \/ Recover(p) \/ Touch(p) PROVE IInv'
  BY <1>9, StepSetPaused, StepRecover, StepTouch
<1>10. ASSUME NEW k \in Keys, Expire(k) PROVE IInv'
  BY <1>10, StepExpire
<1>11. CASE Corrupt
  BY <1>11 DEF Corrupt, IInv, Due, Shape, Sound
<1>12. CASE UNCHANGED vars
  BY <1>12 DEF vars, IInv, Due, Shape
<1> QED BY <1>1, <1>2, <1>3, <1>4, <1>5, <1>6, <1>7, <1>8, <1>9, <1>10, <1>11, <1>12 DEF Next

\* The manifest on disk is sound in every reachable state.
THEOREM InboxInvariant == Spec => []IInv
BY InitInv, NextInv, PTL DEF Spec

\* Types, and the bounds on entries and receipts, for any number of processes and
\* keys and any limits.
THEOREM InboxTypes == Spec => []TypeOK
<1>1. IInv => TypeOK
  BY DEF IInv, Shape, Sound, WellFormed, Manifest, TypeOK
<1> QED BY <1>1, InboxInvariant, PTL

\* No crash between the steps of a transaction, failed write or corruption of the
\* manifest deletes the body of an accepted, unfinished entry, and only the salvage
\* of a corrupt manifest that fails after moving it away takes one out of the inbox.
THEOREM NoBodyLost == Spec => []BodiesKept
<1>1. IInv => BodiesKept
  BY DEF IInv, Due, Sound, BodiesKept
<1> QED BY <1>1, InboxInvariant, PTL

\* A redelivered request takes effect once while its receipt is kept.
THEOREM EffectOnce == Spec => []KeyedOnce
<1>1. IInv => KeyedOnce
  BY DEF IInv, Shape, Sound, KeyedOnce
<1> QED BY <1>1, InboxInvariant, PTL

\* A late acknowledgement never removes what another process has taken over.
THEOREM AckIsOwn == Spec => []AckedByExecutor
<1>1. IInv => AckedByExecutor
  BY DEF IInv, AckedByExecutor
<1> QED BY <1>1, InboxInvariant, PTL
=============================================================================
