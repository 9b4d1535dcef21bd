-------------------------- MODULE MemRevisionStore --------------------------
(***************************************************************************)
(* The in-memory revision engine (src/project/revision-store.ts), the one  *)
(* the database engine must be indistinguishable from.  It appends one     *)
(* record per `set`, keeps a mutable `active` flag on every record, and a  *)
(* `revert` only flips flags.  A record's rid is its position.             *)
(***************************************************************************)
EXTENDS Naturals, Sequences

CONSTANTS
  Slots, Values, Stamps,
  MaxRecords  \* bound on the records ever written

VARIABLE records  \* records of slot, val, ts, supersedes (a position) and active

NoRid == 0

Chain(s) == {i \in 1..Len(records) : records[i].slot = s}
ActiveIn(s) == {i \in Chain(s) : records[i].active}

First(S) == IF S = {} THEN NoRid ELSE CHOOSE i \in S : \A j \in S : i <= j
Last(S)  == IF S = {} THEN NoRid ELSE CHOOSE i \in S : \A j \in S : j <= i

\* get scans from the newest record; revert's chain.find from the oldest.
Get(s) == Last(ActiveIn(s))

Deactivated(recs, i) ==
  IF i = NoRid THEN recs ELSE [recs EXCEPT ![i].active = FALSE]
Activated(recs, i) ==
  IF i = NoRid THEN recs ELSE [recs EXCEPT ![i].active = TRUE]

Init == records = <<>>

Set(s, v, ts) ==
  /\ Len(records) < MaxRecords
  /\ records' = Append(Deactivated(records, Get(s)),
                       [slot |-> s, val |-> v, ts |-> ts,
                        supersedes |-> Get(s), active |-> TRUE])

RevertTo(s, next) ==
  records' = Activated(Deactivated(records, First(ActiveIn(s))), next)

\* Without a timestamp: back to what the active record superseded.
Revert(s) ==
  LET current == First(ActiveIn(s))
  IN  /\ Chain(s) # {}
      /\ RevertTo(s, IF current = NoRid THEN NoRid ELSE records[current].supersedes)

\* With one: to the oldest record written at ts (none: it throws).
RevertToStamp(s, ts) ==
  LET found == {i \in Chain(s) : records[i].ts = ts}
  IN  /\ found # {}
      /\ RevertTo(s, First(found))

\* The active value replaced in place, with no new record.
PatchActive(s, v) ==
  /\ ActiveIn(s) # {}
  /\ records' = [records EXCEPT ![Get(s)].val = v]

Next ==
  \E s \in Slots :
    \/ \E v \in Values, ts \in Stamps : Set(s, v, ts)
    \/ Revert(s)
    \/ \E ts \in Stamps : RevertToStamp(s, ts)
    \/ \E v \in Values : PatchActive(s, v)

Spec == Init /\ [][Next]_records
=============================================================================
