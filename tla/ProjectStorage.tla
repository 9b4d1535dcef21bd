--------------------------- MODULE ProjectStorage ---------------------------
(***************************************************************************)
(* A project on disk: the database, the hash-locked name shards under      *)
(* analysis/, and the hash-chained day files under log/                    *)
(* (src/projdb/export.ts, rebuild.ts, verify.ts, threeway.ts).             *)
(*                                                                         *)
(* One process writes: a write commits to the database and is exported     *)
(* then, in two file writes, and the process may die before either.  A     *)
(* person may edit a shard at any time.  A hash is modelled by what it     *)
(* hashes: a shard's lock is the content it was written with.              *)
(***************************************************************************)
EXTENDS RevisionRows, DayFiles, SequencesExt

CONSTANTS
  Modules,    \* the modules of the bundle: one names shard each
  ShardOf,    \* [Slots -> Modules]: the shard a slot's target belongs to
  MaxRows,    \* bound on the rows ever written
  MaxFaults,  \* bound on the process deaths and database losses
  MaxEdits    \* bound on the hand edits

ASSUME StorageAssumption ==
  /\ MaxRows \in Nat
  /\ MaxDay >= 1
  /\ IsFiniteSet(Slots)
  /\ ShardOf \in [Slots -> Modules]
  /\ "none" \notin Slots  \* what a Hole has for its slot

VARIABLES
  revisions,  \* the revisions table; a rid that is no row's holds a Hole
  logDay,     \* per rid, the day of its row in the log table (0: none)
  inited,     \* the log table has the row `init` left, which names no rid
  shards,     \* the names shard of each module
  files,      \* [Days -> Seq(entry)]: log/<day>.jsonl
  today,
  todo,       \* the rids the running verb has committed and not yet exported
  half,       \* the shard of Head(todo) is written, its log entry is not
  up,         \* the process is running
  torn,       \* the last bulk export died between two of its day files
  lost,       \* history: a rebuild has come back without a committed write
  faults, edits

database == <<revisions, logDay, inited>>
disk == <<shards, files>>
vars == <<database, disk, today, todo, half, up, torn, lost, faults, edits>>

Hole == [slot |-> "none", ts |-> NoRid, val |-> NoValue, supersedes |-> NoRid,
         reactivates |-> NoRid, cleared |-> FALSE]

\* A shard shows entries [rid, val] by slot.  The lock is what it showed when
\* it was written, ver the dbVersion of its stateBinding (0: no file).
Content == UNION {[S -> [rid : 1..MaxRows, val : Values \cup {NoValue}]] : S \in SUBSET Slots}
NoFile == [shows |-> <<>>, lock |-> <<>>, ver |-> 0]
Exists(m) == shards[m] # NoFile

Init ==
  /\ revisions = <<>>
  /\ logDay = <<>>
  /\ inited = TRUE
  /\ shards = [m \in Modules |-> NoFile]
  /\ files = [d \in Days |-> <<>>]
  /\ today = 1
  /\ todo = <<>>
  /\ half = FALSE
  /\ up = TRUE
  /\ torn = FALSE
  /\ lost = FALSE
  /\ faults = 0
  /\ edits = 0

Ready == up /\ todo = <<>>
-----------------------------------------------------------------------------
\* stateBindingOf: the greatest rid the log table names.
DbVersion ==
  LET logged == {r \in DOMAIN logDay : logDay[r] # 0}
  IN  IF logged = {} THEN 0 ELSE Greatest(logged)

HeadsOf(m) ==  \* a mutant of ActiveOf
  {s \in Slots : ShardOf[s] = m /\ RidsOf(revisions, s) # {}
                 /\ IsContent(revisions, HeadRid(revisions, s))}

\* The slots of m with an active record: what namesShardContent lists.
ActiveOf(m) ==
  {s \in Slots : ShardOf[s] = m /\ ActivePayload(revisions, s) \in ContentOf(revisions, s)}

\* writeNamesShard: m's shard, mechanically, from the database.
Written(m) ==
  LET shown == [s \in ActiveOf(m) |->
                  LET payload == ActivePayload(revisions, s)
                  IN  [rid |-> payload, val |-> revisions[payload].val]]
  IN  [shows |-> shown, lock |-> shown, ver |-> DbVersion]

BodyClearing(r, shard) ==  \* a mutant of Body: a revert's entry always clears
  [rid |-> r, row |-> [revisions[r] EXCEPT !.supersedes = NoRid, !.reactivates = NoRid,
                                            !.cleared = ~IsContent(revisions, r)],
   lock |-> IF shard = NoFile THEN <<>> ELSE <<shard.lock, shard.ver>>]

\* What a log entry records: the write itself (supersedes is not exported)
\* and the hash of the shard it affects, where that shard is live.
Body(r, shard) ==
  [rid |-> r, row |-> [revisions[r] EXCEPT !.supersedes = NoRid],
   lock |-> IF shard = NoFile THEN <<>> ELSE <<shard.lock, shard.ver>>]
InitBody == [rid |-> NoRid, row |-> Hole, lock |-> <<>>]

\* The lines of the log files, in name order.
Lines == LinesIn(files)
Line(x) == LineIn(files, x)
-----------------------------------------------------------------------------
\* A write verb commits its row and log row; its export follows.
Commit(rows) ==
  /\ Len(revisions) + Len(rows) <= MaxRows
  /\ revisions' = revisions \o rows
  /\ logDay' = logDay \o [i \in DOMAIN rows |-> today]
  /\ UNCHANGED <<inited, disk, today, half, torn, lost, edits>>
RidsAfter(n) == [i \in 1..n |-> Len(revisions) + i]

Readable(s) ==
  LET payload == ActivePayload(revisions, s)
  IN  payload # NoRid => payload \in ContentOf(revisions, s)

SetName(s, v) ==
  /\ Ready
  /\ Readable(s)
  /\ Commit(<<SetRow(s, v, NoRid, ActivePayload(revisions, s))>>)
  /\ todo' = RidsAfter(1)
  /\ UNCHANGED <<up, faults>>

Revert(s) ==
  LET payload == ActivePayload(revisions, s)
  IN  /\ Ready
      /\ Readable(s)
      /\ payload # NoRid
      /\ Commit(<<RevertRow(s, PriorOf(revisions, payload))>>)
      /\ todo' = RidsAfter(1)
      /\ UNCHANGED <<up, faults>>

\* exportWriteEffect, its shard: whatever is on disk there is replaced.
ExportShard ==
  /\ up /\ todo # <<>> /\ ~half
  /\ LET m == ShardOf[revisions[Head(todo)].slot]
     IN  shards' = [shards EXCEPT ![m] = Written(m)]
  /\ half' = TRUE
  /\ UNCHANGED <<database, files, today, todo, up, torn, lost, faults, edits>>

\* exportWriteEffect, its log entry: chained from the tip, in the day file of
\* the write.
AppendEntryThen(rest) ==
  LET r == Head(todo)
      body == Body(r, shards[ShardOf[revisions[r].slot]])
  IN  /\ files' = Appended(files, logDay[r], body)
      /\ todo' = rest
      /\ half' = FALSE
      /\ UNCHANGED <<database, shards, today, up, torn, lost, faults, edits>>
AppendEntryAgain == up /\ half /\ AppendEntryThen(todo)  \* a mutant of AppendEntry
AppendEntry == up /\ half /\ AppendEntryThen(Tail(todo))
-----------------------------------------------------------------------------
\* exportProject's log: the ridless row first, then the log table in rid
\* order, rechained from genesis.
LogBodies ==
  LET logged == InOrder({r \in DOMAIN logDay : logDay[r] # 0})
      Live(m) == IF ActiveOf(m) = {} THEN NoFile ELSE Written(m)
      bodyOf == [i \in DOMAIN logged |->
                   [day |-> logDay[logged[i]],
                    body |-> Body(logged[i], Live(ShardOf[revisions[logged[i]].slot]))]]
  IN  (IF inited THEN <<[day |-> 1, body |-> InitBody]>> ELSE <<>>) \o bodyOf

BulkFiles(days) == Rechained(files, LogBodies, days)

\* Every module with an active record gets its shard; the others keep theirs.
BulkShards == [m \in Modules |-> IF ActiveOf(m) # {} THEN Written(m) ELSE shards[m]]

ExportProject ==
  /\ Ready
  /\ shards' = BulkShards
  /\ files' = BulkFiles(Days)
  /\ torn' = FALSE
  /\ UNCHANGED <<database, today, todo, half, up, lost, faults, edits>>

Fault ==
  /\ faults < MaxFaults
  /\ faults' = faults + 1

\* The process dies inside exportProject, the days up to d rewritten.
DieExporting(d) ==
  /\ Ready
  /\ Fault
  /\ shards' = BulkShards
  /\ files' = BulkFiles(1..d)
  /\ torn' = TRUE
  /\ up' = FALSE
  /\ UNCHANGED <<database, today, todo, half, lost, edits>>

\* The process dies with committed writes not exported, or half exported.
CrashKeepsHalf ==  \* a mutant of Crash
  /\ up /\ todo # <<>>
  /\ Fault
  /\ todo' = <<>>
  /\ up' = FALSE
  /\ UNCHANGED <<database, disk, today, half, torn, lost, edits>>
Crash ==
  /\ up /\ todo # <<>>
  /\ Fault
  /\ todo' = <<>>
  /\ half' = FALSE
  /\ up' = FALSE
  /\ UNCHANGED <<database, disk, today, torn, lost, edits>>

\* openProjectDb checks the schema and migrates it; it exports nothing.
Restart ==
  /\ ~up
  /\ up' = TRUE
  /\ UNCHANGED <<database, disk, today, todo, half, torn, lost, faults, edits>>
-----------------------------------------------------------------------------
\* A person changes or deletes an entry, leaving lock and binding alone.
HandEdit(m, s) ==
  /\ edits < MaxEdits
  /\ edits' = edits + 1
  /\ s \in DOMAIN shards[m].shows
  /\ \/ \E v \in Values \ {shards[m].shows[s].val} :
          shards' = [shards EXCEPT ![m].shows[s].val = v]
     \/ shards' = [shards EXCEPT ![m].shows = Restrict(@, DOMAIN @ \ {s})]
  /\ UNCHANGED <<database, files, today, todo, half, up, torn, lost, faults>>

\* checkShard and classifyThreeWay.
Status(m) ==
  LET behind == shards[m].ver < DbVersion
  IN  IF shards[m].shows # shards[m].lock
      THEN IF behind THEN "conflict" ELSE "hand-edit"
      ELSE IF behind THEN "lag" ELSE "clean"

\* adoptShard: every entry the file lists is set, one commit after another,
\* then every one of them is exported.  The process may die after the n-th.
Adopt(m, force, n) ==
  LET listed == SetToSeq(DOMAIN shards[m].shows)
      RowFor(s) == SetRow(s, shards[m].shows[s].val, NoRid, ActivePayload(revisions, s))
  IN  /\ Ready
      /\ Exists(m)
      /\ Status(m) = "hand-edit" \/ (Status(m) = "conflict" /\ force)
      /\ \A i \in DOMAIN listed : Readable(listed[i])
      /\ n \in 0..Len(listed)
      /\ Commit([i \in 1..n |-> RowFor(listed[i])])
      /\ IF n = Len(listed)
         THEN todo' = RidsAfter(n) /\ UNCHANGED <<up, faults>>
         ELSE Fault /\ up' = FALSE /\ UNCHANGED todo

\* restoreShard: the shard again, mechanically, from the database.
RestoreShard(m) ==
  /\ Ready
  /\ Exists(m)
  /\ shards' = [shards EXCEPT ![m] = Written(m)]
  /\ UNCHANGED <<database, files, today, todo, half, up, torn, lost, faults, edits>>
-----------------------------------------------------------------------------
\* rebuildProject, from the lines that name a rid, in order, and the shards.
Replayed == {x \in Lines : Line(x).body.rid # NoRid}
LoggedRids == {Line(x).body.rid : x \in Replayed}
ReplayedBefore(x) == {y \in Replayed : Before(y, x)}

\* lastRidForSlot: the row replayed last for its slot before this line, which
\* becomes what the line's row supersedes.
LastForSlot(x) ==
  LET earlier == {y \in ReplayedBefore(x) : Line(y).body.row.slot = Line(x).body.row.slot}
  IN  IF earlier = {} THEN NoRid ELSE Line(Latest(earlier)).body.rid

\* Shard records whose rid the log never mentions: inserted all the same.
Unlogged ==
  LET logged == LoggedRids
  IN  {s \in Slots : s \in DOMAIN shards[ShardOf[s]].shows
                      /\ shards[ShardOf[s]].shows[s].rid \notin logged}
ShardRecord(s) == shards[ShardOf[s]].shows[s]

LineOf(r) == CHOOSE x \in Replayed : Line(x).body.rid = r
LoggedRow(r) == [Line(LineOf(r)).body.row EXCEPT !.supersedes = LastForSlot(LineOf(r))]
UnloggedRow(r) ==
  LET s == CHOOSE t \in Unlogged : ShardRecord(t).rid = r
  IN  SetRow(s, ShardRecord(s).val, NoRid, NoRid)

Rebuilt ==
  LET logged == LoggedRids
      rids == logged \cup {ShardRecord(s).rid : s \in Unlogged}
  IN  [r \in 1..(IF rids = {} THEN 0 ELSE Greatest(rids)) |->
         IF r \in logged THEN LoggedRow(r)
         ELSE IF r \in rids THEN UnloggedRow(r) ELSE Hole]

\* The inserts violate no constraint: rid is a primary key, and what a revert
\* reactivates is a foreign key that must be there already.
RebuildAccepts ==
  \A x \in Replayed :
    LET back == Line(x).body.row.reactivates
        before == {Line(y).body.rid : y \in ReplayedBefore(x)}
    IN  Line(x).body.rid \notin before /\ (back # NoRid => back \in before)

\* The entries the log files should hold and do not: a crash left them out.
Gaps == {r \in DOMAIN revisions : revisions[r] # Hole} \ (LoggedRids \cup Range(todo))

\* The database is lost and rebuilt from the files; one that does not accept
\* them is left empty, and the project with no database.
RebuildProject ==
  /\ todo = <<>>
  /\ Fault
  /\ RebuildAccepts
  /\ revisions' = Rebuilt
  /\ logDay' = LET logged == LoggedRids
               IN  [r \in DOMAIN revisions' |-> IF r \in logged THEN LineOf(r)[1] ELSE 0]
  /\ inited' = \E x \in Lines : Line(x).body = InitBody
  /\ lost' = (lost \/ Gaps # {})
  /\ up' = TRUE
  /\ UNCHANGED <<disk, today, todo, half, torn, edits>>

NextDay ==
  /\ today < MaxDay
  /\ today' = today + 1
  /\ UNCHANGED <<database, disk, todo, half, up, torn, lost, faults, edits>>

Next ==
  \/ \E s \in Slots : Revert(s) \/ \E v \in Values : SetName(s, v)
  \/ ExportShard \/ AppendEntry \/ ExportProject
  \/ Crash \/ Restart \/ \E d \in 0..(MaxDay - 1) : DieExporting(d)
  \/ \E m \in Modules : RestoreShard(m) \/ \E s \in Slots : HandEdit(m, s)
  \/ \E m \in Modules, force \in BOOLEAN, n \in 0..Cardinality(Slots) : Adopt(m, force, n)
  \/ RebuildProject \/ NextDay

Spec == Init /\ [][Next]_vars
-----------------------------------------------------------------------------
TypeOK ==
  /\ \A r \in DOMAIN revisions : revisions[r] = Hole \/ revisions[r] \in Row
  /\ Len(logDay) = Len(revisions) /\ \A r \in DOMAIN logDay : logDay[r] \in 0..MaxDay
  /\ \A m \in Modules : shards[m].shows \in Content /\ shards[m].ver \in 0..MaxRows
  /\ todo \in Seq(1..MaxRows)
  /\ half => todo # <<>>

\* verify's chain check, over the day files in name order, passes whatever
\* incremental and bulk exports, adoptions and rebuilds came in between.
ChainContinuous ==
  torn \/ Chained(files)

\* A shard status calls clean shows exactly what a reader of the database is
\* shown: no write, revert, adoption or rebuild leaves a stale shard unnoticed.
\* (A rebuild that loses a write frees its rid: the next write may then bring
\* the database to the version a shard of the lost one is bound to.)
CleanAgrees ==
  lost \/ \A m \in Modules :
    Exists(m) /\ Status(m) = "clean" =>
      \A s \in Slots : ShardOf[s] = m =>
        Visible(revisions, s) =
          IF s \in DOMAIN shards[m].shows THEN shards[m].shows[s].val ELSE NoValue

\* A database lost between two calls comes back from the files showing what
\* it showed, as long as no write is missing from the log files.
RebuildRestores ==
  todo = <<>> /\ Gaps = {} =>
    /\ RebuildAccepts
    /\ LET rows == Rebuilt IN \A s \in Slots : Visible(rows, s) = Visible(revisions, s)

\* No write is ever logged twice, or under another day than its own.
LoggedOnce ==
  \A x \in Replayed :
    /\ logDay[Line(x).body.rid] = x[1]
    /\ \A y \in Replayed \ {x} : Line(y).body.rid # Line(x).body.rid

\* rebuild.ts: supersedes points at the true predecessor, so that a revert of
\* the rebuilt database goes back to where a revert of the lost one would.
\* (Violated by set, revert to nothing, set: the README says how.)
RebuildKeepsUndo ==
  todo = <<>> /\ Gaps = {} =>
    \A s \in Slots :
      LET payload == ActivePayload(revisions, s)
      IN  PriorOf(Rebuilt, payload) = PriorOf(revisions, payload)

\* Spec 18 section 8: storage is crash-safe and self-healing.  Whenever a
\* process is running and idle, its last death long behind it or not, the
\* database can be deleted and rebuilt from the files.  (Violated after one
\* death between commit and export: the README says how.)
RebuildSucceeds == Ready => RebuildAccepts
=============================================================================
