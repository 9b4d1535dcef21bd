---------------------------- MODULE RevisionStore ----------------------------
(***************************************************************************)
(* The database revision engine (src/projdb/revision-store.ts) as several  *)
(* processes use it on one project database: the command line, the MCP     *)
(* server and the UI server each open the file themselves.                 *)
(*                                                                         *)
(* `set` and `revert` read the slot BEFORE their BEGIN and insert in the   *)
(* transaction that follows, so each is two steps here: another process    *)
(* may commit between them.  Within one process the engine is synchronous, *)
(* so a single client never interleaves with itself.                       *)
(***************************************************************************)
EXTENDS RevisionRows, FiniteSets

CONSTANTS
  Clients,  \* the processes that have the database open
  MaxRows   \* bound on the rows ever written

ASSUME MaxRowsAssumption == MaxRows \in Nat

VARIABLES
  revisions,  \* the revisions table, a sequence of rows indexed by rid
  log,        \* the log table's annotate/revert rows: <<op, rid>> in order
  pending,    \* what each client has read and not yet committed
  stale       \* history: the clients whose slot was written since they read it

vars == <<revisions, log, pending, stale>>

Idle == [op |-> "idle"]

\* A set remembers the payload it read; a revert the row it goes back to.
PendingOp ==
  {Idle} \cup [op : {"set"}, slot : Slots, prior : Nat]
         \cup [op : {"revert"}, slot : Slots, next : Nat]

TypeOK ==
  /\ revisions \in Seq(Row)
  /\ log \in Seq({"annotate", "revert"} \X Nat)
  /\ pending \in [Clients -> PendingOp]
  /\ stale \subseteq {c \in Clients : pending[c] # Idle}

Init ==
  /\ revisions = <<>>
  /\ log = <<>>
  /\ pending = [c \in Clients |-> Idle]
  /\ stale = {}
-----------------------------------------------------------------------------
\* Reading a payload reads its detail row, which only content rows have.
Readable(r) == r # NoRid => IsContent(revisions, r)

BeginSetAfter(c, s, prior) ==
  /\ pending[c] = Idle
  /\ Readable(ActivePayload(revisions, s))
  /\ pending' = [pending EXCEPT ![c] = [op |-> "set", slot |-> s, prior |-> prior]]
  /\ UNCHANGED <<revisions, log, stale>>

BeginSetOnHead(c, s) ==  \* a mutant of BeginSet
  BeginSetAfter(c, s, IF RidsOf(revisions, s) = {} THEN NoRid ELSE HeadRid(revisions, s))

\* set, up to its BEGIN: the prior active record is read.
BeginSet(c, s) == BeginSetAfter(c, s, ActivePayload(revisions, s))

InsertLogsLastRid(row, op) ==  \* a mutant of Insert
  /\ Len(revisions) < MaxRows
  /\ revisions' = Append(revisions, row)
  /\ log' = Append(log, <<op, Len(revisions)>>)

\* One transaction: the new row and the log row that announces it.
Insert(row, op) ==
  /\ Len(revisions) < MaxRows
  /\ revisions' = Append(revisions, row)
  /\ log' = Append(log, <<op, Len(revisions) + 1>>)

Reading(s) == {c \in Clients : pending[c] # Idle /\ pending[c].slot = s}

\* A call is over; what the given clients have read is stale now.
Ends(c, overtaken) ==
  /\ pending' = [pending EXCEPT ![c] = Idle]
  /\ stale' = (stale \cup overtaken) \ {c}

\* set, its transaction.
CommitSet(c, v, ts) ==
  /\ pending[c].op = "set"
  /\ Insert(SetRow(pending[c].slot, v, ts, pending[c].prior), "annotate")
  /\ Ends(c, Reading(pending[c].slot))

\* revert, up to its BEGIN.  Nothing active and nowhere to go is a no-op
\* that returns without writing.
BeginRevertTo(c, s, next) ==
  /\ pending[c] = Idle
  /\ ActivePayload(revisions, s) # NoRid \/ next # NoRid
  /\ pending' = [pending EXCEPT ![c] = [op |-> "revert", slot |-> s, next |-> next]]
  /\ UNCHANGED <<revisions, log, stale>>

BeginRevert(c, s) ==
  BeginRevertTo(c, s, PriorOf(revisions, ActivePayload(revisions, s)))

BeginRevertToNewestStamp(c, s, ts) ==  \* a mutant of BeginRevertToStamp
  \E next \in WrittenAt(revisions, s, ts) :
    /\ \A r \in WrittenAt(revisions, s, ts) : r <= next
    /\ BeginRevertTo(c, s, next)

\* With a timestamp: the oldest content row of the slot written then.
BeginRevertToStamp(c, s, ts) ==
  \E next \in WrittenAt(revisions, s, ts) :
    /\ \A r \in WrittenAt(revisions, s, ts) : next <= r
    /\ BeginRevertTo(c, s, next)

CommitRevertLoggedByRow(c) ==  \* a mutant of CommitRevert
  /\ pending[c].op = "revert"
  /\ Insert(RevertRow(pending[c].slot, pending[c].next),
            IF pending[c].next = NoRid THEN "clear" ELSE "reactivate")
  /\ Ends(c, Reading(pending[c].slot))

\* revert, its transaction.
CommitRevert(c) ==
  /\ pending[c].op = "revert"
  /\ Insert(RevertRow(pending[c].slot, pending[c].next), "revert")
  /\ Ends(c, Reading(pending[c].slot))

\* The insert throws (another process holds the write lock and no busy
\* timeout is set) and is rolled back, or the process dies before COMMIT.
Abort(c) ==
  /\ pending[c] # Idle
  /\ Ends(c, {})
  /\ UNCHANGED <<revisions, log>>

Next ==
  \E c \in Clients :
    \/ \E s \in Slots : BeginSet(c, s) \/ BeginRevert(c, s)
    \/ \E s \in Slots, ts \in Stamps : BeginRevertToStamp(c, s, ts)
    \/ \E v \in Values, ts \in Stamps : CommitSet(c, v, ts)
    \/ CommitRevert(c)
    \/ Abort(c)

Spec == Init /\ [][Next]_vars
-----------------------------------------------------------------------------
\* `get` never lands on a bookkeeping row: the payload v_active resolves a
\* slot to is a content row of that same slot, so its detail row exists.
ReadsResolve ==
  \A s \in Slots :
    LET payload == ActivePayload(revisions, s)
    IN  payload # NoRid => payload \in ContentOf(revisions, s)

\* Every rid a row carries names an older content row of the row's own slot;
\* a clearing row carries none.  Chains therefore walk strictly back.
RowsResolve ==
  \A r \in 1..Len(revisions) :
    LET row == revisions[r]
        Older(p) == p < r /\ p \in ContentOf(revisions, row.slot)
    IN  /\ row.supersedes # NoRid => Older(row.supersedes) /\ IsContent(revisions, r)
        /\ row.reactivates # NoRid => Older(row.reactivates) /\ ~row.cleared

\* A3: every row is announced by exactly one log row, in rid order, and as
\* what it is.  The doorbell of the UI server and the rebuild both tail log
\* and never look at a row it does not name.
LogAnnouncesRows ==
  /\ Len(log) = Len(revisions)
  /\ \A r \in 1..Len(revisions) :
       log[r] = <<IF IsContent(revisions, r) THEN "annotate" ELSE "revert", r>>

\* A step that appends a content-bearing row of slot s.
Wrote(s) ==
  /\ Len(revisions') = Len(revisions) + 1
  /\ revisions'[Len(revisions')].slot = s
  /\ IsContent(revisions', Len(revisions'))

\* A client's transaction goes through although another has written its slot
\* since it was read.  (No such step where one process has the database open.)
StaleCommit == \E c \in stale : pending'[c] # pending[c] /\ revisions' # revisions

\* What `set`'s comment promises: the new row's supersedes is the record that
\* was active when it was written, so a revert brings exactly that one back.
\* It does, also where others wrote other slots meanwhile, or wrote this one
\* with stale reads before; only the stale commit itself does not.
SetSupersedesActive ==
  [][\A s \in Slots :
       Wrote(s) /\ ~StaleCommit =>
         revisions'[Len(revisions')].supersedes = ActivePayload(revisions, s)]_vars

\* The engine is the slot store readers were promised, whatever processes
\* interleave, and whichever of their transactions are rolled back.
Promise == INSTANCE SlotStore WITH
  shown <- [s \in Slots |-> Visible(revisions, s)],
  written <- [s \in Slots |-> {revisions[r].val : r \in ContentOf(revisions, s)}]

KeepsPromise == Promise!Spec
-----------------------------------------------------------------------------
\* The same rows read as the in-memory engine's records: its positions are
\* the ranks of the content rows, its active flag is v_active's payload.
ContentRids(rows) == {r \in 1..Len(rows) : IsContent(rows, r)}
Ranks(rows) ==
  LET rids == ContentRids(rows)
  IN  [r \in 0..Len(rows) |-> Cardinality({q \in rids : q <= r})]

MemRecords(rows) ==
  LET rids == ContentRids(rows)
      rank == Ranks(rows)
      active == [s \in Slots |-> ActivePayload(rows, s)]
      RecordOf(r) == [slot |-> rows[r].slot, val |-> rows[r].val,
                      ts |-> rows[r].ts, supersedes |-> rank[rows[r].supersedes],
                      active |-> active[rows[r].slot] = r]
  IN  [i \in 1..Cardinality(rids) |-> RecordOf(CHOOSE r \in rids : rank[r] = i)]

InMemory == INSTANCE MemRevisionStore
  WITH records <- MemRecords(revisions), MaxRecords <- MaxRows

\* The engine is indistinguishable from the in-memory one: every commit that
\* is not stale is the in-memory set or revert, whatever other processes do
\* and whatever stale commits have left in the table.
MatchesInMemory ==
  /\ InMemory!Init
  /\ [][UNCHANGED revisions \/ StaleCommit \/ InMemory!Next]_vars
=============================================================================
