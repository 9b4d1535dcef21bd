----------------------------- MODULE StoreMerge -----------------------------
(***************************************************************************)
(* Two copies of a JSONL project store (src/project/io.ts), edited apart   *)
(* by set and revert (src/project/revision-store.ts) and merged into each  *)
(* other (src/project/merge.ts), in any order and again.                   *)
(*                                                                         *)
(* One of the four record files; what is said of its rows is what JSON     *)
(* says of them.  Every verb is a command of its own, which loads the      *)
(* files and saves them sorted by target and rid.                          *)
(***************************************************************************)
EXTENDS Naturals, FiniteSets, SequencesExt

CONSTANTS
  Stores,
  Slots,   \* numbers: rows are sorted by target first
  NoRid,
  MaxOps   \* bound on the commands

ASSUME SlotsAssumption == Slots \subseteq Nat

VARIABLES
  rows,   \* [Stores -> Seq(row)]: the file's rows, records and conflicts
  prior,  \* history: per timestamp, that of the record it superseded, or 0
  ops

vars == <<rows, prior, ops>>

\* Rids: the n-th record or conflict of its store, and the fingerprints that
\* renamings have appended.
Rid(n, conflict) == [conflict |-> conflict, n |-> n, hashes |-> <<>>]
Records(rs) == SelectSeq(rs, LAMBDA r : ~r.rid.conflict)
WithRid(rs, rid) == SelectSeq(rs, LAMBDA r : r.rid = rid)

\* compareRows.  Digits sort before the "~" of a renamed rid and that before
\* the next number, "c" after all; fingerprints have some order.
Before(r, q) ==
  LET key(x) == <<x.slot, IF x.rid.conflict THEN 1 ELSE 0, x.rid.n, Len(x.rid.hashes),
                  x.stamp, IF x.active THEN 1 ELSE 0>>
  IN  \E i \in 1..6 : key(r)[i] < key(q)[i] /\ \A j \in 1..(i - 1) : key(r)[j] = key(q)[j]
Sorted(rs) == SortSeq(rs, Before)

Init ==
  /\ rows = [s \in Stores |-> <<>>]
  /\ prior = <<>>
  /\ ops = 0
-----------------------------------------------------------------------------
\* The engine flips the first row that bears the rid.
Flipped(rs, rid, flag) ==
  LET i == CHOOSE k \in DOMAIN rs : rs[k].rid = rid /\ \A j \in 1..(k - 1) : rs[j].rid # rid
  IN  [rs EXCEPT ![i].active = flag]

Active(rs, slot) == SelectSeq(Records(rs), LAMBDA r : r.slot = slot /\ r.active)

Op == ops < MaxOps /\ ops' = ops + 1

\* set: it supersedes the last active record of the slot; the rid is seq,
\* which a loaded store counts from its rows.
Set(s, slot) ==
  LET active == Active(rows[s], slot)
      superseded == IF active = <<>> THEN NoRid ELSE Last(active).rid
      row == [rid |-> Rid(Len(Records(rows[s])), FALSE), slot |-> slot, stamp |-> Len(prior) + 1,
              supersedes |-> superseded, active |-> TRUE, rids |-> {}]
  IN  /\ Op
      /\ rows' = [rows EXCEPT ![s] =
           Sorted(Append(IF active = <<>> THEN @ ELSE Flipped(@, superseded, FALSE), row))]
      /\ prior' = Append(prior, IF active = <<>> THEN 0 ELSE Last(active).stamp)

\* revert: from the first active record of the slot to what it superseded.
Revert(s, slot) ==
  LET active == Active(rows[s], slot)
      current == Head(active)
  IN  /\ Op
      /\ active # <<>>
      /\ rows' = [rows EXCEPT ![s] =
           LET cleared == Flipped(@, current.rid, FALSE)
           IN  IF current.supersedes = NoRid THEN cleared ELSE Flipped(cleared, current.supersedes, TRUE)]
      /\ UNCHANGED prior
-----------------------------------------------------------------------------
\* A row of the other store whose rid means something else here.
Clashes(self, row) ==
  LET same == WithRid(self, row.rid)
  IN  same # <<>> /\ Last(same) # row

Renamed(row) ==
  [row.rid EXCEPT !.hashes = Append(@, <<row.stamp, row.supersedes, row.active, row.rids>>)]

RenameOnly(self, other) ==  \* a mutant of RemapCollisions: supersedes is not followed
  [i \in DOMAIN other |->
    [other[i] EXCEPT !.rid = IF Clashes(self, other[i]) THEN Renamed(other[i]) ELSE @]]

RemapCollisions(self, other) ==
  LET remap(rid) ==
        LET clashing == SelectSeq(other, LAMBDA r : r.rid = rid /\ Clashes(self, r))
        IN  IF clashing = <<>> THEN rid ELSE Renamed(Last(clashing))
  IN  [i \in DOMAIN other |->
        [other[i] EXCEPT !.rid = remap(@), !.supersedes = IF @ = NoRid THEN NoRid ELSE remap(@)]]

UnionRows(self, other) ==
  LET add(merged, row) ==
        LET seen == WithRid(merged, row.rid)
        IN  IF seen # <<>> /\ Last(seen) = row THEN merged ELSE Append(merged, row)
  IN  FoldLeft(add, self, other)

RidsOf(rs) == {rs[i].rid : i \in DOMAIN rs}

OtherAsItWas(self, other) == RidsOf(other) \ RidsOf(self)  \* a mutant of FromOther: before the renaming

FromOther(self, other) == RidsOf(RemapCollisions(self, other)) \ RidsOf(self)

\* A slot with active records of both sides gets a conflict row that names
\* them all.
Conflicts(self, other, merged, now) ==
  LET actives(slot) == RidsOf(Active(merged, slot))
      Disputed(slot) == /\ actives(slot) \cap RidsOf(self) # {}
                        /\ actives(slot) \cap FromOther(self, other) # {}
      earlier == Len(merged) - Len(Records(merged))
      disputed == SetToSortSeq({slot \in Slots : Disputed(slot)}, <)
  IN  [i \in DOMAIN disputed |->
        [rid |-> Rid(earlier + i - 1, TRUE), slot |-> disputed[i], stamp |-> now,
         supersedes |-> NoRid, active |-> TRUE, rids |-> actives(disputed[i])]]

MergeOf(self, other, now) ==
  LET merged == UnionRows(self, RemapCollisions(self, other))
  IN  Sorted(merged \o Conflicts(self, other, merged, now))

\* mergeFrom: the other store is read, and not changed.
MergeFrom(s, t) ==
  /\ Op
  /\ s # t
  /\ rows' = [rows EXCEPT ![s] = MergeOf(@, rows[t], Len(prior) + 1)]
  /\ prior' = Append(prior, 0)

Next ==
  \E s \in Stores :
    \/ \E slot \in Slots : Set(s, slot) \/ Revert(s, slot)
    \/ \E t \in Stores : MergeFrom(s, t)

Spec == Init /\ [][Next]_vars
-----------------------------------------------------------------------------
\* Whatever was merged and renamed, and in which order: the rid a record
\* supersedes leads, as revert looks it up, to the very record it superseded
\* when it was written.  So undoing goes back where it did before the merge.
ChainsSurvive ==
  \A s \in Stores : \A i \in DOMAIN Records(rows[s]) :
    LET r == Records(rows[s])[i]
        found == WithRid(rows[s], r.supersedes)
    IN  IF prior[r.stamp] = 0 THEN r.supersedes = NoRid
        ELSE found # <<>> /\ Head(found).stamp = prior[r.stamp] /\ Head(found).slot = r.slot

\* A merge flips no flag and picks no winner (merge.ts:19-30): a record that was
\* active here and one that the merge makes active beside it are named together
\* by one conflict record, whichever rows were renamed or merged before.  Not
\* so for a record this store had and has superseded or reverted since: its
\* second row bears the rid of the first, originOf says "self", and the two stay
\* active with no word of it.
ConflictsNamed ==
  [][\A s, t \in Stores, slot \in Slots : MergeFrom(s, t) =>
       LET was == Range(Active(rows[s], slot))
           had == Range(Records(rows[s]))
           Revived(y) == \E r \in had : r.stamp = y.stamp /\ ~r.active
           Named(x, y) == \E c \in Range(rows'[s]) : {x.rid, y.rid} \subseteq c.rids
       IN  \A x \in was, y \in Range(Active(rows'[s], slot)) :
             \/ \E r \in was : r.stamp = y.stamp
             \/ Revived(y)
             \/ Named(x, y)]_vars

\* Merging an unchanged store again changes nothing (merge.ts:64-71).
MergeIdempotent ==
  \A s, t \in Stores : s # t =>
    LET once == MergeOf(rows[s], rows[t], Len(prior) + 1)
    IN  MergeOf(once, rows[t], Len(prior) + 2) = once
=============================================================================
