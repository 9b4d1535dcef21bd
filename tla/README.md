# Verification of hbc2js: annotation storage, the worker pool and the graph algorithms

hbc2js decompiles Hermes bytecode and keeps, beside the decompiled program, a
project of annotations (names, comments, tags, bookmarks, findings), a readable
tree that agents reshape, and analyses that servers compute, all of which
several processes read and write: the command line, an MCP server and a UI
server with a pool of background workers. What tests hardly reach there is
interleaving, death half way, files that people edit and databases rebuilt from
them. The decompiler itself is a sequential pure function that the repository
tests against a real virtual machine; of it these modules take the two graph
algorithms on which every emitted function rests: the dominators, proved on every
graph, and the structuring, checked on every small one.

Paths below are relative to the repository (`src/...` is its source directory).

## 1. Inventory

| Component | State it keeps | Operations | What makes it correct |
|---|---|---|---|
| Database revision engine, `src/projdb/revision-store.ts`, `schema.sql` | append-only `revisions`, `log` | get, history, set, revert, revert to a timestamp | chains and reads resolve to content rows; every row announced; a reader sees a slot store; equal to the in-memory engine |
| In-memory revision engine, `src/project/revision-store.ts` | records with a mutable `active` flag | set, revert, patchActive | one active record per slot |
| Legacy store and merge, `src/project/io.ts`, `merge.ts` | JSONL files, loaded and saved whole | mergeStores | undo chains survive renamed ids; what a merge makes active twice is named by a conflict; merging again changes nothing |
| Export, `src/projdb/export.ts` | `analysis/**` shards with hash and state binding, hash-chained `log/<day>.jsonl` | exportWriteEffect per write, exportProject in bulk | chain continuous; each write logged once; a clean shard shows what the database shows |
| Rebuild, `src/projdb/rebuild.ts` | none of its own | rebuildProject | a lost database comes back as it was |
| Verify and three-way, `verify.ts`, `threeway.ts` | none | checkShard, classifyThreeWay, adoptShard, restoreShard | a hand edit is never mistaken for lag |
| Readability transactions, `src/readability/transactions.ts`, `file-ops.ts`, `surfaces.ts` | `readability_tx`, blobs, the readable tree, the tail of the day files | make, rename, combine, split, rewrite, revert, promote | a revert restores bytes; the log tells the tree; no byte is lost |
| Job queue, `src/workers/queue.ts`, `events.ts` | `jobs`, `worker_events` | enqueue, claimNext, finish, fail, cancel | the header's state machine; the feed tells the status; one owner |
| Runner and pool, `src/workers/runner.ts`, `src/ui-server/server.ts` | loops in memory, `busy` | runOne, runUntilIdle, the interval | a cancelled job writes nothing; bounded concurrency; everything drains |
| Presence, `src/workers/presence.ts` | `sessions`, `claims` with a TTL | open, heartbeat, claim, release, close, expire | a closed session holds nothing; the sweep spares the live; what a dead server left is reaped |
| Segregation, `src/ui-server/segregation.ts`, `seg-cache.ts`, `segregate-worker.ts` | cached result per server and per project, workers | segregation, computeBase, applyDepsWhenReady, the page's poll | one computation at a time; nothing stale is handed on; a settled answer with deps stays; polling ends |
| CFG analysis, `src/cfg/dom.ts` | none | computeDominators | dominators equal their definition on every graph, back edges and reducibility with them |
| Structuring, `src/structure/` | none | augment, ramsey, dispatch, verify | the tree goes where the graph goes; blocks are copied only to resolve irreducibility |
| Name overlay, `src/name-overlay/` | a sidecar file, written whole | propose, promote, revert | no record lost between writers |
| Parallel analysis, `src/parallel/` | chunks of functions on threads | pool run, merge | equal to the sequential run |
| Pass driver, `src/passes/driver.ts` | a statement tree | match, apply, verify, roll back | terminates; keeps only verified rewrites |
| Parser, tables, disassembler, emitter, artifact index, deps, split, native, secrets, harness | none that is shared | batch computations | byte- and behaviour-level agreement with reference tools |

How they interact. A write verb (`ProjectService.setName` and its siblings, for
the CLI, the MCP tools and the worker runner alike) commits one transaction
through the revision engine and then calls `exportWriteEffect`, which rewrites
the shard of the affected module and appends one entry to the chained log. A
readability verb commits a transaction of its own kind, exports it behind the
annotations' entries in the same log, and reshapes the readable tree. The UI
server tails the `log` table as its doorbell. The server's interval calls
`runUntilIdle`, whose loops take jobs from the queue, await a model backend and
write through the same verbs; its segregation route starts one-shot workers and
keeps what they answer in the project database. `hbcproj` verbs export in bulk,
verify, adopt or restore hand-edited shards, merge stores, and rebuild a lost
database from the files. In the decompiler, `structure()` computes the dominators
of a function's graph, once per exception region and once more if it falls back.

Hard behaviours: reads made before a transaction and used inside it; a job
cancelled, retried, or finished by another server while its backend runs; a
process dying between the commit, the shard, the log entry and the tree, or
between two day files; midnight; hand edits; a database lost after any of these;
an answer computed from files that have changed since; ids renamed by a merge and
named by rows of another store; irreducible and overlapping control flow. The
`hazards` list of `PROJECT.json` names each at its line, also those no property
covers.

## 2. Modules

| Module | Role |
|---|---|
| `RevisionRows` | the `revisions` table as a sequence of rows, how `v_active` resolves a slot, what a revert goes back to |
| `RevisionStore` | the database engine used by several processes |
| `SlotStore` | the abstract promise: a slot shows its last write, or after a revert something written to it before, or nothing |
| `MemRevisionStore` | the in-memory engine, as a specification the database engine refines |
| `MCRevisionStore` | symmetry for the runs of `RevisionStore` |
| `RevisionStoreProofs` | theorems about `RevisionStore`, and its refinement of both specifications |
| `WorkerPool` | queue, runner and server interval |
| `MCWorkerPool` | symmetry for its two-server run |
| `WorkerPoolProofs` | types, exclusive claims, what retries write and single pools, for any servers; the state machine, the feed and cancellation, for one server |
| `Presence` | sessions, heartbeats, claims and their expiry, as the pool, its interval and the session routes use them |
| `PresenceProofs` | theorems about it |
| `DayFiles` | the chained log files: what both storage modules append to, rechain and verify |
| `DayFilesProofs` | lemmas about it: the order of lines, appending, rechaining |
| `ProjectStorage` | database, name shards, day files: export, crash, hand edit, adopt, restore, rebuild (uses `RevisionRows`, `DayFiles`) |
| `MCProjectStorage` | one module, whose shard both slots share; symmetry of values |
| `ProjectStorageProofs` | theorems about `ProjectStorage` |
| `ReadabilityTransactions` | the transaction log of the readable tree, its shards, its part of the day files (uses `DayFiles`) |
| `ReadabilityTransactionsProofs` | theorems about it |
| `Segregation` | the segregation route, its workers, its persisted cache and the page that polls |
| `MCSegregation` | two module trees and their sizes |
| `SegregationProofs` | theorems about it |
| `StoreMerge` | two JSONL stores edited apart and merged into each other |
| `Dominators` | `computeDominators`, one action per turn of a loop |
| `DominatorsProofs` | the theorem about it: dominators are dominators on every graph |
| `Structuring` | `structure()` and its verifier, composed with `Dominators` |
| `MCStructuring` | the graphs it is given |

### RevisionStore

`revisions` is the table (rids are rowids that only grow, so a row's index is
its rid), `log` the annotate/revert rows of the log table, `pending` what a
process has read and not yet committed. `set` and `revert` read the slot before
their `BEGIN` (revision-store.ts:177-178 and 226-251) and insert after it
(182-211, 253-281): each is two actions, `BeginSet`/`CommitSet`,
`BeginRevert` or `BeginRevertToStamp`/`CommitRevert`, and `Abort` is the
rollback or a death in between. Within a process the engine is synchronous, so a
client has one pending operation. `stale` is history: the processes whose slot
another has written since they read it; a commit of one of these is a
`StaleCommit`. A row is content-bearing or bookkeeping, as in
the schema; a SQL NULL is `NoRid`. Provenance, tier and context columns are left
out: nothing reads them back in the engine. A revert's own timestamp is never
searched for and is not kept.

### WorkerPool

A process is one event loop. Between two awaits the runner's statements run with
no other actor of that process in between, but another process may come
between any two of them, since each is a transaction of its own. A loop inside
such a run of statements is `Mid`; `HasTurn` lets nothing else of its process
move. The points of a loop follow `runOne`: `ready`, `picked` (claimNext's
SELECT), `claimed` (its conditional UPDATE), `awaiting` (the backend, or a
readability surface), `surfaced` (the surface committed, or declined, and is
still working), `landing`, `naming`, `finishing`/`finished` and
`failing`/`failed` (finish and fail read, then UPDATE). Events are appended by a
statement of their own (`unsent`, `Announce`). `call` is what makes the server
busy: the loops of the `runUntilIdle` it awaits; a rejection empties it although
other loops go on, which is what `Promise.all` does. A locked database may refuse any
statement: one inside a job's try fails the job (`Refused`), the INSERT of an event is
refused after its UPDATE has committed (`EventRefused`, `RouteRefused`). `landed` lists
what all attempts of a job have written; a loop's `writes` is what its own attempt
has, and that is what `finish` puts into `jobs.result` (`result`). Job kinds are grouped by what
the runner does: `suggest` (explain-fn, suggest-name), `readability` (its three
kinds, whose surfaces write by themselves) and `other` (not implemented, fails).

### Presence

Each method of `presence.ts` is a run of SQL statements, each a transaction.
A handler (`Interval`, `GetSessions`, `StartJob`, `EndJob`, `Stop`) puts its
statements into its server's `todo`; one action per statement executes the first and
puts what it leads to before the rest, so another server may come between any two
while a server finishes one method before the next (`Free`). `age` is how
old `last_seen` is and `left` how long a claim is still good, both relative to
now and capped just beyond the TTL, so that time need not be bounded. Time passes
only between methods (`Advance`): a method takes milliseconds, a TTL is half
a minute. An interval that is `due` may be late by any amount, which is what a
sleeping machine or a long segregation does to it; `server.ts` measures 70 s for the
latter. A stopped server closes the database at once, so nothing of it writes
after its session is closed. A restarted server is another member of `Servers`,
with another session. A loop works on its target whatever `claim` returned, as the
runner does. Left out: the events these methods append (presence reads none
back) and the columns `who`, `kind` and `meta`.

### DayFiles

The files are a function from days to sequences of entries; their lines are a set
of places, a day and a number in its file, and `Before` is the order in which
`verify.ts` and `rebuild.ts` read them, by file name first. An entry's hash is the
sequence of bodies that ends with its own, so two chains have the same tip hash
exactly if they say the same. `Appended` is `appendLogEntry`, `Rechained` the
loop of `exportLog` (the days given are those it reached before a death),
`Chained` the check of `verify.ts`. Appending reads the tip and writes the line in
one step: the race of two processes that append (export.ts:511) is not modelled.

### ProjectStorage

One writing process, as `src/workers/readability-worker.ts`'s header requires of
the chained log. `SetName` and `Revert` commit a row; `ExportShard` and
`AppendEntry` are the two file writes of `exportWriteEffect`, and the process may
die before either (`Crash`). `ExportProject` is the bulk export, `DieExporting`
its death between two day files. A hash is modelled by what it hashes: a shard's
`lock` is the content it was written with, so a hand edit shows as `shows #
lock`; an entry's hash is the sequence of bodies ending with its own. `ver` is the
`dbVersion` of the state binding. `lost` is history: a rebuild came back
without a write that had been committed. `RebuildProject` computes the rows
`rebuild.ts` inserts (`Rebuilt`) from the day files and shards, after a fault
that loses the database. `Adopt` sets every listed entry, one commit each, and
exports them afterwards, as `adoptShard` does, and may die after any of them.

Abstractions. The revert verbs (`dbRevert*`) have no caller in the program yet;
`tests/projdb/writepath-log.test.ts` shows how one exports the row it minted, and
`Revert` follows it. The ridless rows `init` writes are one entry. Annotation
shards follow the path of names shards and are not a second copy here. The clock
is monotone. Deaths in the middle of one shard's or one file's write, unparsable
files and hand-written entries without a rid are left out.

### ReadabilityTransactions

A call is a list of steps, kept in `call`: a file op commits, exports, removes
the paths that are gone and writes the tree (`runFileOp`); a rewrite commits,
exports and writes; a revert commits, writes and removes the tree's files and
only then exports; a promotion exports, an annotation write appends. One action
executes the head of the list, so that another process may come between two steps
and a death (`Crash`) leaves any prefix. A sha256 is the content it is of, and
`blobs` the contents stored. `PriorOf` is what a transaction records as taken
away. `exportLog` files the transactions of all days as a tail: none earlier than
the last annotation's day, and only days that have an entry now are rewritten.
`Export` is an export that goes through; `DieExporting` one whose process dies among the
shards, which it writes in seq order, or after the files of some days (`torn`
remembers the latter until an export goes through). The exports of two processes are
not interleaved file by file. `was` and `unsure` are history too: what the touched
paths held when a transaction committed, and which paths were left half written by a
death. A call reads the
clock once and does not outlast its day: `NextDay` falls between calls. Left out:
`MODULES.json`, which every op rewrites together with the tree.

### Segregation

A request reads the memory cache, the persisted one, or starts a base compute; its
worker answers, then a second compute runs with the deps report. A computation is
a record in `runs`, and `RunStep` takes it from the report to the worker and to its
landing. The key of a persisted row is a hash of names and sizes (`SizesOf`), so
an edit that keeps the sizes is not seen, as the source says. A worker
reads all files at one moment; a write of the cache may fail, and is then
swallowed. `Poll` is the page: it asks again until it is told a result with deps, or
that there is none.

### StoreMerge

A store is its file: rows sorted by slot, kind of row and rid. `Set` and `Revert` load
it, work on it and save it. `MergeFrom` unions the other store's rows into it,
renames a rid of theirs that collides by appending a fingerprint, and renames the
`supersedes` of their rows along; a slot active on both sides gets a conflict
record. A rid is the number a store gave it and the fingerprints appended since.

### Dominators and Structuring

`Dominators` runs the depth-first postorder, the Cooper-Harvey-Kennedy passes, and the
walk that numbers the tree, one action per turn of a loop, with the arrays of the
code as variables. `Closure`, what a set of nodes leads to along edges, serves the
two-finger walk of `intersect` (where two ways up the tree first meet) as it serves
reachability. `DomSpec` is the analysis alone, of one graph after another, each cut
short or not: what `Structuring` does to its variables. `Structuring` chooses a function, adds a try-head per exception
region, runs `Dominators` on each graph, builds the tree as ramsey does (or as the
dispatcher, if that needs more leaves than the budget), and evaluates the checks of
`verify.ts`. `TreeExact` is stronger than the code's own verifier: it compares where
each copy of a block goes, arm by arm, while verify.ts compares the edges of all
copies together and does not tell the arms of a branch apart. A tree may have
`LeastBudget` leaves or twice the blocks, whichever is more: 64 in the code and in
`structuring_reducible`, 8 in `structuring`, so that graphs this small come to the
dispatcher. Left out: switch terminators (a branch stands for them), a branch that ends
its function and has no fall-through (structure.ts:182), the guards on depth and nesting, the checks
P3 (which cannot fail: a block met twice is declared duplicated) and P7, the stage
passes after structuring, and the modes other than `auto`.

## 3. Runs

| Run | Instance | Properties | What it shows |
|---|---|---|---|
| `revision_two` | 2 processes, 2 slots, 2 values, 2 stamps, 4 rows | `TypeOK`, `ReadsResolve`, `RowsResolve`, `LogAnnouncesRows`, `KeepsPromise`, `SetSupersedesActive`, `MatchesInMemory` | what survives interleaving, and that every commit nobody has overtaken is the in-memory operation |
| `worker_one` | 1 server, 2 loops, 2 jobs, cancellations | `TypeOK`, `FeedTellsStatus`, `CancelledLandsNothing`, `OnePool`, `LegalTransitions`, `Drains` | one server without deaths or refused statements keeps the queue's header and the runner's rules, and drains |
| `worker_two` | 2 servers, 1 loop each, 1 job, 1 death, 1 refused statement | `OneOwner`, `LandsOnce` | exclusive claims; retries repeat no write, and the last attempt records all of them |
| `presence_one` | 2 servers one after the other, 2 loops, 1 browser, 1 target, TTL of 2 | `TypeOK`, `ClosedHoldsNothing`, `SweepSparesLive`, `DeadReaped` | sessions and claims stay in step through late intervals, stops, deaths and a restart |
| `storage_files` | 2 slots in 1 shard, 3 rows, 2 days, 3 faults, 1 hand edit | `TypeOK`, `ChainContinuous`, `CleanAgrees`, `RebuildRestores`, `LoggedOnce` | files tell the truth through writes, exports, edits, several deaths and database losses |
| `readability_tx` | 1 process, 2 paths, 2 contents, 3 transactions (2 of them ops), 3 days, 2 events | `TypeOK`, `BlobsHeld`, `UndoExact`, `LogTellsTree`, `ChainUnlessOvertaken`, `NoByteLost` | reverts are exact, the log tells the tree and no byte is lost, through deaths between any two steps and any two files, a midnight and a rebuild |
| `readability_chain` | 1 path, 2 transactions, no fault needed | `ChainContinuous`, violated | finding 1 |
| `segregation` | 2 servers, 2 trees and none, 1 edit, 2 starts | `TypeOK`, `OneRun`, `FreshAtStart`, `NeverRegresses`, `PollEnds` | one computation at a time, nothing stale handed on, deps once applied are not taken back, polling ends |
| `merge_stores` | 2 stores, 2 slots, 6 commands | `ChainsSurvive`, `ConflictsNamed` | undo chains survive renamings, and what a merge makes active beside another is named with it, but for a record the store had put aside itself |
| `merge_again` | 2 stores, 1 slot, 4 commands | `MergeIdempotent`, violated | finding 2 |
| `structuring` | every graph of 4 blocks; every one of 2 blocks and 2 handlers with 2 regions | `DominatorsExact`, `TreeExact`, `CopiesOnlyLoops` | dominators are dominators, the tree goes where the graph goes, reducible graphs whose loops are entered once are written once |
| `structuring_reducible` | every graph of 4 blocks, without regions | `ReducibleNeverCopied`, violated | finding 3 |

Bounds. Four rows let a slot be set, reverted, set and reverted again, the
shortest chain in which bookkeeping rows sit between content rows, or two slots
interleave. Two values distinguish right from wrong; two stamps let
two writes share a stamp or not. Three rows and two days in
`storage_files` let a set, a revert and another slot's write fall on either side
of midnight and of a bulk export; three faults are a death, a loss of what it left
and a death of what came back, each at any point. (Three slots in two shards, with
two faults, pass as well and take longer.)
Two loops and two jobs give every race within a server; two servers and one
job every race between servers. A TTL of two heartbeats tells fresh, one beat
missed, exactly a TTL old and expired apart; two loops on one target contend for
one claim. `MaxUp` bounds the servers up at once: with one at a time, a restart
still meets what its predecessor left. In `readability_tx` two ops and a revert
(or two reverts) are the shortest histories in which a revert can be out of
order, and two events let a death follow a midnight or a rebuild a death. Two
paths make a rename and a combine. In `segregation` two starts let one server
take over what another persisted, one edit falls between any two of their steps.
In `merge_stores` six commands are two sets on each side and two merges; the rows a
merge renames are merged back by the second. Four blocks hold every loop
with two entries, nested loops and every cross edge between them; two regions are
the fewest that nest or stand apart.
`MaxRows`, `MaxDay`, `MaxFaults`, `MaxEdits`, `MaxCrashes`, `MaxThrows`, `MaxTx`,
`MaxOps`, `MaxEvents` and `MaxStarts` are bounds of the model, not of the code;
because of them (and because a graph is structured once) the runs of all modules
but `WorkerPool` and `Presence` may stop and do not check deadlock.
Those two do: the interval, or time, never stops ticking.

Symmetry is used where slots, values, stamps, clients, jobs or servers are only compared
for equality, never in a run with a liveness property.

Fairness. `WorkerPool`: weak fairness of the interval (`setInterval`), of the
statement that follows a statement in the same synchronous run, and of every loop's
step. For a loop that awaits a backend this says that the backend answers or
fails: the command-line backend kills its child at a timeout
(`src/workers/backends/claude-cli.ts`) and a fetch settles. New jobs and
cancellations are under no fairness. `Presence` adds that time passes and that a due timer
fires (strong fairness: the event loop comes back to its timers however many
requests keep it busy); requests, jobs, stops and deaths are under none.
`Segregation`: weak fairness of a computation's steps (a worker answers or fails and
its promise settles) and of the page's timer; edits, starts and stops
are under none. A worker that exits without a word settles nothing and is not modelled.

### Conditions that matter

Several properties hold only under a condition that the code does not enforce.
Each can be seen failing by changing the constants of a run as said.

- `LegalTransitions` needs one server. With two, `cancel`'s UPDATE has no
  status condition (queue.ts:274), so a job that another server finishes between
  its read and its write goes from done to cancelled.
- `FeedTellsStatus` needs servers that do not die and statements that are not refused:
  an event is a statement after the one it reports, and nothing sends it again. So does
  `RunningIsOwned` (defined in `WorkerPool`, true of one server without deaths and
  refusals): a running job of a dead server is never requeued.
- `CancelledLandsNothing` needs all that, and no readability job: with
  `Kinds = {"readability"}` a surface commits before the status is read again,
  although runner.ts:18-20 says a job cancelled mid-flight writes nothing at all.
- `OnePool`, and `InFlightCap` with it, needs statements that are not refused: with
  `MaxThrows = 1`, two loops and three jobs, a statement outside a job's try that a
  lock refuses rejects `runUntilIdle` while its other loop is at work; `busy` is
  cleared and the next interval starts a full set of loops (spec 23 section 2.2).
- `LandsOnce` says of failed jobs only that they repeat nothing: one whose
  `set_name` is refused has landed a comment that no result records.
- `SetSupersedesActive` and `MatchesInMemory` except the commit that was overtaken
  (`StaleCommit`): with two clients both read the same active record, both commit, both
  supersede it, and a revert of the second skips the first. Nothing in the code
  prevents it, and every later commit is again what it should be.
- `ClosedHoldsNothing` and `SweepSparesLive` need one server up at a time: a sweep by
  one comes between the other's read and its upsert, or its heartbeat between the
  sweep's SELECT and the close.
- `ServerStaysPresent` fails even for one server: an interval late by more than the
  TTL finds its own session closed by `GET /api/sessions`. The heartbeat's refusal is
  ignored, where presence.ts:113-114 says that the caller opens a new session.
- `CleanAgrees` excepts a project that has been rebuilt without a committed write
  (`lost`). After a set, a revert whose shard is written and a death before its log
  entry, a rebuild does not know the revert; its rid is given to the next write,
  and until that is exported the shard of the lost revert is bound to the version
  the database now has: it is called clean and shows what the database does not.
- `RebuildKeepsUndo` fails for one slot and four rows without a fault: after set,
  revert to nothing, set, the rebuilt row supersedes the bookkeeping row of the
  revert; the next revert reactivates a row without a detail and the next `get`
  throws. `RebuildSucceeds` fails with one fault: a death between commit and
  export is never repaired at restart (spec 18 section 8 says it is), and once a
  later revert names the missing write, `rebuild` violates the foreign key.
- `UndoExact`, `LogTellsTree` and `NoByteLost` need one writing process: the tree is
  written whole from what was read before the oracle (file-ops.ts:336, 405), so that
  of two processes the later resurrects files the earlier removed. `ChainUnlessOvertaken` is claimed
  for one only because no action interleaves the files of two exports. `TypeOK` and
  `BlobsHeld` hold for any number of processes. `UndoExact` and
  `NoByteLost` except rewrites of a path already rewritten: a rewrite's prior is the
  faithful render, not the tree's file (surfaces.ts:357), and a second one drops the
  first in silence. A death between the removal and the write of a rename leaves
  both paths absent, and the revert is then refused.
- `PollEnds` excepts a server whose deps recompute came to nothing: the comment at
  segregation.ts:288-290 says that a failure flips `depsApplied`, the code returns at
  309 without, and the page polls for ever. `FreshAtStart` excepts a result
  that raced an edit: the key is hashed after the run (313, 345), so files that
  changed meanwhile label an old result. Emptying the module directory while a
  base compute runs would break `OneRun`; the edits of the model never do that.
- `ChainsSurvive` is about chains within a store's slots: conflict rows keep their
  `rids` when those are renamed by a later merge, a `set` after a merge supersedes
  only the last of a disputed slot's active records.
- `ConflictsNamed` excepts a record that this store had and has superseded or reverted.
  After a set on each side, a merge, another set here and the same merge again, the
  other store's record is active again beside the new one: its renamed rid is already
  here, so `originOf` (merge.ts:168) takes it for this store's own and no conflict is
  minted, although merge.ts:19-30 has one for every slot active on both sides.
  Without the exception the run `merge_stores` finds these five commands.
- Two active records that both come from the other store are no conflict of this merge
  (merge.ts:140); the row that named them there comes along, with the rids of then.
- `CopiesOnlyLoops` needs loops that one forward edge enters (finding 3). Chains of
  loops that two edges enter double each time, so that reducible code can exceed the
  budget and fall back to the dispatcher.
- `TreeExact` needs regions as `carveRegions` leaves them (`Carved`): for a handler laid
  out before the body it protects, inside another region, `structure()` throws
  `E_STRUCTURE_UNSOUND`, where ST-01 says that it is total.

## 4. Findings

1. `readability_chain`: the chain of day files breaks without any fault.
   A transaction of day 2 after annotations of day 1 makes day 2's file; an
   annotation of day 3 and the next export file the transaction under day 3 and
   leave day 2's file as it was, although the comment in `exportLog` says that the
   chain must be continuous in the order of file names. No later export repairs it.
   `ChainUnlessOvertaken` says that this is the only way but one, a death between two
   day files of an export, which the next export repairs; `ChainBreaksOnlyThus`
   proves it of one process.
2. `merge_again`: merging an unchanged store again is not idempotent, as
   `fingerprint`'s comment says it is. It compares the other store's row with the
   merged copy, whose `supersedes` the first merge may have renamed; a row
   that superseded a renamed one is then renamed and added a second time.
3. `structuring_reducible`: a reducible graph has blocks copied, where spec 04 has
   copies only to resolve irreducibility (section 3 and ST-04) and index.ts:85-88
   reports them as unexpected. A loop header is never a merge point (augment.ts:270), so
   a loop that two forward edges enter has no label to break to and is built once
   for each. The tree still goes where the graph goes.

## 5. Proofs

TLAPS proves, for every value of the constants:

- `RevisionStoreProofs`: `TypeCorrect`, `ReferencesResolve`,
  `ReadsLandOnContent`, `EveryRowAnnounced` and `EngineKeepsPromise`
  (`Spec => KeepsPromise`, the refinement of `SlotStore`).
  The inductive invariant `IInv` joins the type invariant, `LogAnnouncesRows` and
  `RowsResolve` with two facts that make them inductive. `PendingResolves`: the
  rid a process read before `BEGIN` still is a content row of its slot at
  `COMMIT`, because rows are only appended; without it nothing is known of what a
  commit stores. `HeadsExist`: a slot with rows has a greatest rid, so that
  `v_active`'s MAX is defined. The lemmas `AppendRow`, `AppendRids`,
  `AppendContent`, `AppendHead` and `AppendPayload` say what appending one row
  does to the reading of the table; `InsertKeeps` uses them for every
  operation's transaction at once. The refinement maps `CommitSet` to `Put`,
  `CommitRevert` to `Undo` and everything else to a stutter.
  Of the commits that nobody has overtaken there is more, still for any number of
  processes: `SetsSupersede` (`SetSupersedesActive`) and `CommitsMatch`
  (`MatchesInMemory`, the steps of `MemRevisionStore`); `OneClientMatches` adds that one
  process is never overtaken, so that alone it implements `MemRevisionStore` in full. All
  rest on `PendingCurrent`: what a process read before its `BEGIN`, if it is not
  `stale`, still is what it would read at `COMMIT`. The mapping of the second makes the content rows of a
  slot, in rid order, its records; the lemmas on ranks say what position a rid has
  and that an append adds a last record and moves the `active` flag, no more.
- `WorkerPoolProofs`: `ClaimsAreExclusive` (`Spec => []OneOwner`), for any number
  of servers, loops and jobs. `OneOwner` alone is not inductive: `HeldIsTaken`
  adds that a job some loop holds is neither queued nor absent. A claim therefore
  takes only jobs nobody holds, and a failure that requeues a job is made by its one
  holder as it lets go. `RowKeeps`, `MoveKeeps` and `LettingGoKeeps` say this
  of a changed row, a moving loop and a dying server; the steps cite them.
  `RetriesLandOnce` (`LandsOnce`), for any number of deaths and refusals too: the
  invariant `Landings` ties the point a loop is at to what its job has landed
  (`Consistent`): only an attempt that landed nothing fails transiently, so only such
  a job is queued again (`Settled`); so the attempt that ends it has made all its writes
  itself, and the list it records is complete. `TypeCorrect` adds that keys are created once and
  attempts bounded (`Counted`): a job is requeued only while it has attempts left.
  The second half of the module is what rests on a server's event loop running one
  stretch of statements at a time. `Orderly` says that a status read in a stretch
  still is the status when the stretch writes (`SectionsRun` for the loops,
  `RouteAlone` for a cancel) and that the event on its way tells the row
  (`EventsTell`). `StepOrderly` proves it together with the shape of every step
  (`Step`: quiet, one legal report, an append, or a death), from which
  `OneServerKeepsStates` (`LegalTransitions`, deaths and refusals allowed) and
  `OneServerTells` (`FeedTellsStatus`, no deaths and no refusals) follow. `OneServerCancels`
  (`CancelledLandsNothing`) adds `Clean`: between a job's first write and its end its
  loop has the event loop. `PoolsStaySingle` (`OnePool`), for any number of servers,
  shows every loop that runs to be of the call its server awaits. The conditions
  (`OneServer`, `NoDeaths`, `NoRefusals`, `Unsurfaced`) are hypotheses of the theorems
  and are those the previous section shows to be needed.
- `PresenceProofs`: `TypeCorrect`, for any number of servers up at once;
  `OneServerReleases` (`ClosedHoldsNothing`) and `OneServerSpares` (`SweepSparesLive`)
  with one up at a time (`OneUp`), whatever dies, restarts, is late or stops. Neither
  is inductive: the rows say nothing of a method that is half done. `InOrder` reads the
  statements a method has still to make: each rests on the row that an earlier one
  read (`Rests`: a claim on a session read as open, a closing on one that had aged out
  or is stopping), and a session is marked closed after a delete of every claim it has
  (`Placed`). `Alone` says that no other server is in between. `ThenInOrder` carries all of
  it from one statement to the next, and each statement's lemma cites it.
- `DayFilesProofs` holds no theorem of its own, but what the next two rest on.
  `GreatestExists` gives a bounded set of numbers its greatest element, `LatestIs`
  a set of lines its last, `InOrderIs` says that `InOrder` enumerates.
  `AppendedIs` and `ChainedOnward`: an entry appended after every line of the files
  continues a chain. `RechainedIs` and `RechainedChains`: a rechained log whose days
  do not fall chains from its first entry, if it covers every file that has lines.
- `ProjectStorageProofs`, for any slots, modules, values and bounds: `StorageTypes`
  (`TypeOK`), `WritesAreLoggedOnce` (`LoggedOnce`), `ChainHolds` (`ChainContinuous`),
  `CleanMeansCurrent` (`CleanAgrees`) and `RebuildIsFaithful` (`RebuildRestores`). None
  is inductive. `StorageInv` joins them on one observation, that rids grow with the
  days (`DaysOk`): the lines in name order are in the order the writes were made
  (`FilesOk`, `LinesByRid`), and what is committed and not exported is newer than
  every line (`TodoOk`), so that an append is always at the end and repeats nothing.
  `CleanOk` says of a shard as new as the database that its lock is what an export
  would write now; a hand edit changes only what it shows. A rebuild makes the rows
  the files tell and points each to its predecessor among them (`RebuiltIs`,
  `RebuiltResolves`), and these show what the lost rows showed when the files miss
  none (`Lossless`, `AlikeShowTheSame`).
- `ReadabilityTransactionsProofs`: for any processes, trees and faults `TypeCorrect` and
  `RevertsHaveTheirBytes` (`BlobsHeld`: what a revert would restore is stored); for
  one process (`OneProcess`) `ChainBreaksOnlyThus` (`ChainUnlessOvertaken`),
  `RevertsAreExact` (`UndoExact`), `LogTells` (`LogTellsTree`) and `BytesAreKept`
  (`NoByteLost`). There are three invariants. `IInv` adds to the types that every
  call's transaction will store the bytes it names (`Calls`), that ids are unique and
  reverts name earlier rows, and that the shards are the rows of an earlier moment
  (`ShardsLag`), which is what a rebuild reads. `TreeInv` is about one process: a row
  tells what its paths held when it committed (`RowsTell`), a call between its steps
  knows what it will do to the tree (`Plan`) and what it has done (`Underway`), and
  every path that no death has left in doubt is as the last row that touches it says
  (`LastWord`). `DaysInv` is about the chain: the rows a call writes are of the day it
  runs on (`CallDays`), each file is of a day the log has come to (`FileDays`), and
  unless some file is overtaken, or an export is `torn`, the files chain. An export refiles the tail under
  days that only grow (`FiledGrows`) and covers every file (`FiledCovers`); an
  overtaken file stays overtaken.
- `SegregationProofs`: `TypeCorrect`, `ComputesOneThing` (`OneRun`),
  `ServesWhatItStartedWith` (`FreshAtStart`) and `SettledStays` (`NeverRegresses`), for
  any servers, trees, edits and starts. `Orderly` says which computation may run when,
  `KeyTellsResult` and `AnswersFresh` of which files a persisted row and an answer on
  its way are.

- `DominatorsProofs`: `DominatorsAreExact` (`DomSpec => []DominatorsExact`), for every
  finite graph, whatever its size and the order of its edges: the passes never
  reach the bound that throws, and `dominates`, two comparisons of clock times, is
  dominance. The steps of the argument, each on positions in the reverse postorder:
  - A closure is the least set around its start that is closed under the edges
    (`ClosureIs`): after as many steps as there are nodes nothing is added, because
    a step that adds something adds a node. Reachability, reachability around a
    block (`Avoid`) and what is met on the way up the tree (`Climbs`) are closures,
    and dominance is a statement about the second.
  - The search (`Searching`): its stack is a path, a block that is left has all of its
    edges followed, and each is entered from one that is left later
    (`Entered`). So in the reverse postorder every place has a predecessor before it
    (`IsFlow`), which is why the first pass already knows a dominator of each.
  - A pass (`PassOk`). The known places form a tree that grows upwards (`IsTree`). It
    claims at least the dominance there is: what it says does not dominate a place can
    be avoided on the way to it (`Sound`), and what dominates all known predecessors
    of a place dominates the dominator it has (`Post`). `Led` and `Lower` are what makes
    this inductive: a place is reached from its dominator along later places, and
    what dominates a dominator also dominates the earlier predecessors, as far as the
    pass has come. A visit therefore only takes dominators away (`VisitShrinks`).
  - The bound. When the pass numbered `it` starts, each place `j` is known not to dominate
    at least `it` places, or all the places it does not dominate (`Gains`): while
    some are missing, an edge leads from one that is known to one that is not
    (`Pending`), and the pass that visits its end finds that one. A place dominates
    itself, so fewer than n can be found; hence a pass that changes something is
    numbered below n (`FewPasses`), and the code throws only beyond n + 2.
  - A pass that changes nothing leaves a tree whose every place has its dominator
    where its predecessors meet (`Settled`), and that tree is dominance (`SettledExact`).
  - The clock walk (`Walking`): the times of a place lie inside those of every place
    above it (`Nested`) and apart from those of all others (`Apart`), and the
    walk comes to every place (`WalkEnds`).

Assumptions, each named in its module: `NoValueAssumption` (what an empty slot shows
is not a value), `MaxRowsAssumption` (the bound is a natural number),
`ConcurrencyAssumption` (at least one loop: runner.ts:342 takes the maximum with 1),
`ContentsAssumption` (an absent file is no content; the rewrite path is a path),
`DaysAssumption` (at least two days), `MaxDayAssumption` (the bound is a natural number),
`StorageAssumption` (finitely many slots, each with a module; the bounds are numbers,
at least one day; the slot of a `Hole` is none), `PresenceAssumption` (finitely many servers,
browsers and targets; "nobody" names no session; the TTL is a number) and
`SegregationAssumption` (sizes are numbers; the markers are not results).
`SlotsAssumption` (slots are numbers) serves `StoreMerge`'s sorting only.

Only model-checked: `ChainsSurvive` and `ConflictsNamed` of `StoreMerge`, whose
files are sorted and folded (what the fold of a merge computes, and that a sorting
exists, are inductions over a file's rows; with one slot both also hold through 9
commands); `TreeExact` and `CopiesOnlyLoops`, whose trees need recursive
operators, which the provers cannot reason about, so that `Spec => DomSpec` of
`Structuring` cannot be proved either (TLC finds it to hold on the graphs of the
run); and liveness (`Drains`, `DeadReaped`, `PollEnds`), which is out of the prover's
reach, as is `ENABLED`. The library's induction theorems take an operator as a
parameter, which the installed provers cannot instantiate. Where a proof needs an
induction over data of bounded size, it takes the least or greatest element of a set
instead (`LeastExists`, `GreatestExists`, by the well-foundedness of the numbers):
the first step at which something fails does not exist. A recursive function, or a
fold of the community modules, is unfolded the same way once such a function is shown
to exist (`Iterates`, `ClosureSteps`, `FoldExists`). The three violated properties
(section 4) are refuted by TLC's traces.

## 6. Not modelled, and why

The plan this project started with is done: the revision engine, the pool, presence,
the storage of names, the readability transactions, the merge, the segregation
route, the dominators with the structuring that uses them. What remains, and the
reasons:

- Bytecode parser, tables, disassembler, emitter, passes, artifact index, dependency
  identification, module splitting, native, secrets and security scanners: sequential
  batch computations over large inputs, most of the repository's lines, and tested
  there against reference tools and a real virtual machine. They have no
  interleaving, failure or history for a model checker to explore, and a model
  of them would transcribe them; that is why the modules stand for a small
  share of the source's lines.
- Pass driver: a loop of match, apply, verify and roll back under a counter. What
  could be wrong is in the passes.
- Name overlay: one command loads, changes and writes a file whole, and nothing says
  that two may do so at once.
- Parallel analysis: one promise over threads that share nothing.
- Harness and fuzz generators: test infrastructure.
- Within modelled components: finding shards and their evidence gate, `verify --full`,
  malformed or half-written files, the migration ladder, the claim's result that
  the runner ignores, two processes appending to the chained log (which the header of
  `src/workers/readability-worker.ts` forbids), and the clock going back.

`PROJECT.json` lists every component with its reason.
