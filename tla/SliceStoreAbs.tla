---------------------------- MODULE SliceStoreAbs ---------------------------
(***************************************************************************)
(* What a slice store promises: a durable map.  hist is the line of states *)
(* a loss of power may fall back to, oldest first: its first element is    *)
(* what the disk is known to hold, its last is the state every crash of    *)
(* the process alone, and every restart, leaves in place.                  *)
(***************************************************************************)
EXTENDS SliceRecords

VARIABLES hist,
          half  \* IDs evicted by a maintenance pass that then reported failure

avars == <<hist, half>>

AInit == hist = <<Empty>> /\ half = {}

Current == hist[Len(hist)]

\* Mutations take effect one after the other, each at the end of the line.
Commit ==
  /\ Len(hist') > Len(hist)
  /\ SubSeq(hist', 1, Len(hist)) = hist
  /\ \A i \in Len(hist) .. Len(hist') - 1 :
       \E id \in Ids :
         \/ \E e \in {NewEntry(EnforceAdmission(p)) : p \in Payloads} :
              hist'[i + 1] = Apply(hist'[i], PutRec(id, e))
         \/ hist'[i + 1] = Apply(hist'[i], DelRec(id))
         \/ \E d \in Deltas : hist'[i + 1] = Apply(hist'[i], StatRec(id, d))
  /\ half' \subseteq half

\* An fsync: only the current state is left.
Settle == hist' = <<Current>> /\ half' \subseteq half

\* Maintenance removes slices, durably and all at once.  One that fails after
\* its commit leaves its evictions open, and the next may take them back.
Maintain ==
  /\ Len(hist') = 1
  /\ \A id \in Ids : \/ hist'[1][id] \in {Current[id], Absent}
                     \/ id \in half /\ Current[id] = Absent
  /\ \A id \in half' : hist'[1][id] = Absent

\* A loss of power forgets a suffix.
Forget == \E k \in 1 .. Len(hist) : hist' = SubSeq(hist, 1, k) /\ half' = {}

\* The open evictions are settled: memory and disk agree again.
Resolve == hist' = hist /\ half' \subseteq half

ANext == Commit \/ Settle \/ Maintain \/ Forget \/ Resolve

ASpec == AInit /\ [][ANext]_avars
=============================================================================
