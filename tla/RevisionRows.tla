---------------------------- MODULE RevisionRows ----------------------------
(***************************************************************************)
(* The `revisions` table of a project database and how it is read          *)
(* (src/projdb/schema.sql section 2.3, src/projdb/revision-store.ts).      *)
(*                                                                         *)
(* The table is append-only and its rid is a rowid that only grows, so it  *)
(* is a sequence whose index is the rid.  A row is either content-bearing  *)
(* (minted by `set`, with a detail row holding its value) or bookkeeping   *)
(* (minted by `revert`: it reactivates an older row or clears the slot).   *)
(* SQL NULL in a rid column is NoRid.                                      *)
(***************************************************************************)
EXTENDS Naturals, Sequences

CONSTANTS
  Slots,    \* the supersession slots: kind + target (+ discriminator)
  Values,   \* the values a slot can hold (a name, a comment body, ...)
  NoValue,  \* what an empty slot shows; the detail a bookkeeping row lacks
  Stamps    \* the timestamps a caller or the clock can give a write

ASSUME NoValueAssumption == NoValue \notin Values

NoRid == 0

Row == [slot : Slots, ts : Stamps \cup {NoRid}, val : Values \cup {NoValue},
        supersedes : Nat, reactivates : Nat, cleared : BOOLEAN]

SetRowForgetsPrior(s, v, ts, prior) ==  \* a mutant of SetRow
  [slot |-> s, ts |-> ts, val |-> v,
   supersedes |-> NoRid, reactivates |-> NoRid, cleared |-> FALSE]

\* The row `set` inserts, superseding the payload it read as active.
SetRow(s, v, ts, prior) ==
  [slot |-> s, ts |-> ts, val |-> v,
   supersedes |-> prior, reactivates |-> NoRid, cleared |-> FALSE]

\* The row `revert` inserts: it reactivates `next`, or clears the slot when
\* there is none.  Its own ts is never searched for, so it carries none.
RevertRow(s, next) ==
  [slot |-> s, ts |-> NoRid, val |-> NoValue,
   supersedes |-> NoRid, reactivates |-> next, cleared |-> next = NoRid]

RidsOf(rows, s) == {r \in 1..Len(rows) : rows[r].slot = s}

\* Content-bearing rows: the only ones with a detail row to read.
IsContent(rows, r) == rows[r].reactivates = NoRid /\ ~rows[r].cleared

ContentOf(rows, s) == {r \in RidsOf(rows, s) : IsContent(rows, r)}

\* The head of a slot is its greatest rid.
Greatest(rids) == CHOOSE r \in rids : \A q \in rids : q <= r
HeadRid(rows, s) == Greatest(RidsOf(rows, s))

\* The payload_rid column of v_active for s, or NoRid when s has no row there.
ActivePayload(rows, s) ==
  LET head == HeadRid(rows, s)
  IN  IF RidsOf(rows, s) = {} \/ rows[head].cleared THEN NoRid
      ELSE IF rows[head].reactivates # NoRid THEN rows[head].reactivates
      ELSE head

\* What `get` shows of a slot.
Visible(rows, s) ==
  LET payload == ActivePayload(rows, s)
  IN  IF payload = NoRid THEN NoValue ELSE rows[payload].val

PriorByRid(rows, payload) ==  \* a mutant of PriorOf
  IF payload = NoRid THEN NoRid ELSE payload - 1

\* Where a revert without a timestamp goes from the active payload.
PriorOf(rows, payload) == IF payload = NoRid THEN NoRid ELSE rows[payload].supersedes

WrittenInAnySlotAt(rows, s, ts) ==  \* a mutant of WrittenAt
  {r \in 1..Len(rows) : IsContent(rows, r) /\ rows[r].ts = ts}

\* The content rows of s written at ts: what a revert to ts looks up.
WrittenAt(rows, s, ts) == {r \in ContentOf(rows, s) : rows[r].ts = ts}
=============================================================================
