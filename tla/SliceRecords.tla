---------------------------- MODULE SliceRecords ----------------------------
(***************************************************************************)
(* The data of the slice store (kernel/slice): slices, the journal's       *)
(* records, and what replaying a journal over a base computes.             *)
(*                                                                         *)
(* A slice is reduced to what the store's own code looks at: its type and  *)
(* scope (the admission matrix), one accumulating counter and the          *)
(* max-merged LastUsed.  Content, embedding, weight and provenance are     *)
(* carried along unread by the store and are left out.                     *)
(***************************************************************************)
EXTENDS Integers, Sequences

CONSTANTS Ids,       \* slice IDs
          Payloads,  \* the (type, scope) pairs callers hand to Put
          Deltas,    \* the SliceStats deltas callers hand to UpdateStats
          Absent,    \* "no live entry for this ID"
          Garbage    \* a journal line that does not decode

SliceTypes == {"Prompt", "Context", "Memory", "ToolPattern", "Result"}
Scopes     == {"Session", "Project", "User"}

\* Stand-in for EnforceAdmission with the Result row of the matrix missing.
EnforceAdmissionWithoutResult(p) ==
  IF p.scope = "User" /\ p.type \in {"ToolPattern"}
  THEN [p EXCEPT !.scope = "Project"]
  ELSE p

(***************************************************************************)
(* The admission matrix: a low-abstraction slice offered in User scope is  *)
(* silently moved to Project scope before it is journalled.                *)
(***************************************************************************)
EnforceAdmission(p) ==
  IF p.scope = "User" /\ p.type \in {"ToolPattern", "Result"}
  THEN [p EXCEPT !.scope = "Project"]
  ELSE p

\* The (type, scope) pairs the matrix lets into the store.
Admitted == {p \in [type : SliceTypes, scope : Scopes] :
               ~ (p.scope = "User" /\ p.type \in {"ToolPattern", "Result"})}

Entries == [p : Admitted, hits : Nat, last : Nat]

\* The logical content of a store: a live entry, or none, for every ID.
States == [Ids -> Entries \cup {Absent}]
Empty  == [id \in Ids |-> Absent]

\* A slice as an extractor offers it, with zero statistics.
NewEntry(p) == [p |-> p, hits |-> 0, last |-> 0]

\* Counters accumulate, LastUsed max-merges.
mergeStats(e, d) ==
  [p |-> e.p,
   hits |-> e.hits + d.hits,
   last |-> IF d.last > e.last THEN d.last ELSE e.last]

-----------------------------------------------------------------------------
\* The three journal operations.
PutRec(id, e)  == [op |-> "put", id |-> id, e |-> e]
DelRec(id)     == [op |-> "del", id |-> id]
StatRec(id, d) == [op |-> "stat", id |-> id, d |-> d]

PutRecs  == [op : {"put"}, id : Ids, e : Entries]
DelRecs  == [op : {"del"}, id : Ids]
StatRecs == [op : {"stat"}, id : Ids, d : Deltas]
Recs     == PutRecs \cup DelRecs \cup StatRecs
Lines    == Recs \cup {Garbage}

ASSUME RecordsAssumption ==
  /\ Payloads \subseteq [type : SliceTypes, scope : Scopes]
  /\ Deltas \subseteq [hits : Nat, last : Nat]
  /\ Absent \notin Entries
  /\ Garbage \notin Recs

\* One turn of the replay loop: a put upserts, a del of a live entry removes
\* it, a stat of a live entry merges, everything else is skipped.
Apply(m, line) ==
  IF line = Garbage THEN m
  ELSE CASE line.op = "put"  -> [m EXCEPT ![line.id] = line.e]
         [] line.op = "del"  -> [m EXCEPT ![line.id] = Absent]
         [] line.op = "stat" -> IF m[line.id] = Absent THEN m
                                ELSE [m EXCEPT ![line.id] = mergeStats(@, line.d)]

\* The whole replay loop: base content m, then every line in file order.
Replay(m, lines) ==
  LET state[n \in 0 .. Len(lines)] ==
        IF n = 0 THEN m ELSE Apply(state[n - 1], lines[n])
  IN  state[Len(lines)]

\* m without the slices of ids.
Drop(m, ids) == [id \in Ids |-> IF id \in ids THEN Absent ELSE m[id]]
=============================================================================
