----------------------- MODULE ReadabilityTransactions -----------------------
(***************************************************************************)
(* The readability transaction log (src/readability/transactions.ts) and   *)
(* what it writes to: the readable tree (file-ops.ts, surfaces.ts), the    *)
(* transaction shards (src/projdb/readability-shards.ts) and the tail of   *)
(* the chained day files (exportLog in src/projdb/export.ts).              *)
(*                                                                         *)
(* A call is a list of steps, each one action: another process may come    *)
(* between two of them, and the process may die between them.  A sha256    *)
(* is modelled by the content it is of.                                    *)
(***************************************************************************)
EXTENDS DayFiles, SequencesExt

CONSTANTS
  Procs,        \* the processes that serve readability tools
  Paths,        \* the files of the readable tree
  Contents,     \* what a file may hold
  Absent,       \* the file is not there
  RewritePath,  \* the one path gateRewrite files its rewrites under
  Faithful,     \* the faithful render: what rewriteFunction takes as prior
  Evidence,     \* what callers give as evidence: part of a transaction's id
  MaxTx,        \* bound on the transactions ever recorded
  MaxOps,       \* bound on those among them that are no reverts
  MaxEvents     \* bound on what happens between and in transactions: days
                \* passing, annotation writes, promotions and faults

ASSUME ContentsAssumption ==
  /\ Absent \notin Contents
  /\ RewritePath \in Paths
  /\ Faithful \in Contents

ASSUME DaysAssumption == MaxDay >= 2

Tree == [Paths -> Contents \cup {Absent}]

VARIABLES
  tree,    \* the files of the readable tree
  txs,     \* readability_tx, in seq order
  blobs,   \* readability_blob
  annots,  \* the day of each row of the log table; the first is init's, of day 1
  shards,  \* analysis/readability: the rows as last exported, in seq order
  files,   \* [Days -> Seq(entry)]: log/<day>.jsonl
  today,
  call,    \* per process, what its running call has left to do
  was,     \* history: per transaction, what its paths held when it committed
  unsure,  \* history: paths of transactions whose tree writes did not all happen
  torn,    \* history: the last export died with some of its day files not written
  events   \* how many of those that MaxEvents bounds there were

database == <<txs, blobs, annots>>
history == <<was, unsure, torn>>
vars == <<tree, database, shards, files, today, call, history, events>>

Present(t) == {q \in Paths : t[q] # Absent}
At(t, S) == [q \in S \cap Present(t) |-> t[q]]
Overlaid(t, new) == [q \in Paths |-> IF q \in DOMAIN new THEN new[q] ELSE t[q]]
Cleared(t, S) == [q \in Paths |-> IF q \in S THEN Absent ELSE t[q]]

\* Room within the bounds for one more transaction that is no revert, or event.
RoomForOp == Cardinality({i \in DOMAIN txs : txs[i].reverts = 0}) < MaxOps
Event == events < MaxEvents /\ events' = events + 1

Idle == [todo |-> <<>>, tx |-> <<>>, writes |-> <<>>, gone |-> {}]
OneStep(step, tx) == [todo |-> <<step>>, tx |-> tx, writes |-> <<>>, gone |-> {}]
Calling(p) == call[p].todo # <<>>
Doing(p, step) == Calling(p) /\ Head(call[p].todo) = step

\* The step is done: the call goes on to the next, or ends.
Rest(c) == IF Len(c.todo) = 1 THEN Idle ELSE [c EXCEPT !.todo = Tail(c.todo)]
Proceed(p) == call' = [call EXCEPT ![p] = Rest(call[p])]

Init ==
  /\ tree \in {t \in [Paths -> {Faithful, Absent}] : t[RewritePath] = Faithful}
  /\ txs = <<>>
  /\ blobs = {}
  /\ annots = <<1>>
  /\ shards = <<>>
  /\ files = [d \in Days |-> <<>>]
  /\ today \in {1, 2}
  /\ call = [p \in Procs |-> Idle]
  /\ was = <<>>
  /\ unsure = {}
  /\ torn = FALSE
  /\ events = 0

Touched(tx) == tx.outputs \cup DOMAIN tx.prior
-----------------------------------------------------------------------------
PriorOfGone(gone, new) == At(tree, gone)  \* a mutant of PriorOf: targets forgotten

\* What an op overwrites counts as taken away.
PriorOf(gone, new) == At(tree, gone \cup DOMAIN new)

\* runFileOp up to its oracle: the tree is read and the op proposed over it.
\* `gone` are the paths it takes away, `new` those it writes.  Its call will
\* commit, export, and then reshape the tree: it writes every file of the
\* tree it read, also those the op leaves alone.
Propose(p, op, gone, new, ev) ==
  LET next == Overlaid(Cleared(tree, gone), new)
  IN  /\ ~Calling(p)
      /\ RoomForOp
      /\ call' = [call EXCEPT ![p] =
           [todo |-> <<"commit", "export", "remove", "write">>,
            tx |-> [id |-> <<op, DOMAIN new, ev>>, op |-> op, outputs |-> DOMAIN new,
                    prior |-> PriorOf(gone, new),
                    reverts |-> 0, tier |-> "suggested", day |-> today],
            writes |-> At(next, Paths),
            gone |-> Present(tree) \ Present(next)]]
      /\ UNCHANGED <<tree, database, shards, files, today, history, events>>

Make(p, ev) ==
  \E q \in Paths, c \in Contents : Propose(p, "make", {}, [r \in {q} |-> c], ev)

\* rename and move differ in the directories they accept only.
Rename(p, ev) ==
  \E from \in Present(tree), to \in Paths :
    Propose(p, "rename", {from}, [r \in {to} |-> tree[from]], ev)

Combine(p, ev) ==
  \E from \in SUBSET Present(tree), to \in Paths, c \in Contents :
    /\ Cardinality(from) >= 2
    /\ Propose(p, "combine", from, [r \in {to} |-> c], ev)

Split(p, ev) ==
  \E from \in Present(tree), parts \in SUBSET Paths :
    /\ Cardinality(parts) >= 2
    /\ \E new \in [parts -> Contents] : Propose(p, "split", {from}, new, ev)

\* The structure leg or the oracle says no: nothing has been written.
Reject(p) ==
  /\ Doing(p, "commit")
  /\ call[p].tx.reverts = 0
  /\ call' = [call EXCEPT ![p] = Idle]
  /\ UNCHANGED <<tree, database, shards, files, today, history, events>>

\* rewriteFunction: an accepted candidate is the faithful render with one
\* function replaced; the render is its prior, whatever the tree holds there.
Rewrite(p, c, ev) ==
  /\ ~Calling(p)
  /\ RoomForOp
  /\ call' = [call EXCEPT ![p] =
       [todo |-> <<"commit", "export", "write">>,
        tx |-> [id |-> <<"rewrite", {RewritePath}, ev, c>>, op |-> "rewrite",
                outputs |-> {RewritePath}, prior |-> [q \in {RewritePath} |-> Faithful],
                reverts |-> 0, tier |-> "suggested", day |-> today],
        writes |-> [q \in {RewritePath} |-> c],
        gone |-> {}]]
  /\ UNCHANGED <<tree, database, shards, files, today, history, events>>

RevertPrior(old) == At(tree, Touched(old))

RevertGoneAll(old) == old.outputs  \* a mutant of RevertGone

\* What the reverted transaction emitted where there had been nothing.
RevertGone(old) == old.outputs \ DOMAIN old.prior

\* revertTransaction up to its commit: refused for a transaction already
\* reverted or with a blob missing.  What is at its paths now is the prior of
\* the revert; the tree is written before the export.
Revert(p, i) ==
  LET old == txs[i]
  IN  /\ ~Calling(p)
      /\ \A j \in DOMAIN txs : txs[j].reverts # i
      /\ \A q \in DOMAIN old.prior : old.prior[q] \in blobs
      /\ call' = [call EXCEPT ![p] =
           [todo |-> <<"commit", "write", "remove", "export">>,
            tx |-> [id |-> <<"revert", i, Len(txs)>>, op |-> old.op,
                    outputs |-> DOMAIN old.prior, prior |-> RevertPrior(old),
                    reverts |-> i, tier |-> "suggested", day |-> today],
            writes |-> old.prior,
            gone |-> RevertGone(old)]]
      /\ UNCHANGED <<tree, database, shards, files, today, history, events>>
-----------------------------------------------------------------------------
AcceptsAnyId(tx) == tx.prior = <<>> => tx.op = "make"  \* a mutant of Accepts

\* commitTransaction: refused without prior state, and for an id already
\* recorded (the primary key, should another process have been faster).
Accepts(tx) ==
  /\ tx.prior = <<>> => tx.op = "make"
  /\ \A i \in DOMAIN txs : txs[i].id # tx.id

CommitWithoutBlobs(p) ==  \* a mutant of Commit
  /\ Doing(p, "commit")
  /\ Len(txs) < MaxTx
  /\ Accepts(call[p].tx)
  /\ txs' = Append(txs, call[p].tx)
  /\ was' = Append(was, At(tree, Touched(call[p].tx)))
  /\ unsure' = unsure \cup Touched(call[p].tx)
  /\ Proceed(p)
  /\ UNCHANGED <<tree, blobs, annots, shards, files, today, torn, events>>

Commit(p) ==
  LET tx == call[p].tx
  IN  /\ Doing(p, "commit")
      /\ Len(txs) < MaxTx
      /\ Accepts(tx)
      /\ txs' = Append(txs, tx)
      /\ blobs' = blobs \cup {tx.prior[q] : q \in DOMAIN tx.prior}
      /\ was' = Append(was, At(tree, Touched(tx)))
      /\ unsure' = unsure \cup Touched(tx)
      /\ Proceed(p)
      /\ UNCHANGED <<tree, annots, shards, files, today, torn, events>>

Refuse(p) ==
  /\ Doing(p, "commit")
  /\ ~Accepts(call[p].tx)
  /\ call' = [call EXCEPT ![p] = Idle]
  /\ UNCHANGED <<tree, database, shards, files, today, history, events>>

\* The paths a call is done with, once its last step on the tree is taken.
Settled(p) ==
  LET rest == Range(Tail(call[p].todo))
  IN  IF rest \cap {"write", "remove"} = {} THEN unsure \ Touched(call[p].tx) ELSE unsure

WriteFiles(p) ==
  /\ Doing(p, "write")
  /\ tree' = Overlaid(tree, call[p].writes)
  /\ unsure' = Settled(p)
  /\ Proceed(p)
  /\ UNCHANGED <<database, shards, files, today, was, torn, events>>

SkipRemoval(p) ==  \* a mutant of RemoveFiles
  /\ Doing(p, "remove")
  /\ tree' = tree
  /\ unsure' = Settled(p)
  /\ Proceed(p)
  /\ UNCHANGED <<database, shards, files, today, was, torn, events>>

RemoveFiles(p) ==
  /\ Doing(p, "remove")
  /\ tree' = Cleared(tree, call[p].gone)
  /\ unsure' = Settled(p)
  /\ Proceed(p)
  /\ UNCHANGED <<database, shards, files, today, was, torn, events>>

\* promoteTransaction by a person; promoting again changes nothing.
Promote(p, i) ==
  /\ ~Calling(p)
  /\ Event
  /\ txs[i].tier = "suggested"
  /\ txs' = [txs EXCEPT ![i].tier = "confirmed"]
  /\ call' = [call EXCEPT ![p] = OneStep("export", <<>>)]
  /\ UNCHANGED <<tree, blobs, annots, shards, files, today, history>>
-----------------------------------------------------------------------------
LastAnnotDay == Max(Range(annots))

AnnotEntries == [i \in DOMAIN annots |-> [day |-> annots[i], body |-> <<"annot", i>>]]

FiledByOwnDay ==  \* a mutant of Filed: a transaction goes under its own day
  AnnotEntries \o [i \in DOMAIN txs |-> [day |-> txs[i].day, body |-> <<"tx", i, txs[i].tier>>]]

\* exportLog: the log table first, each row under its day; then the
\* transactions, none under an earlier day than what it chains from.
Filed ==
  LET DayUpTo(i) == Max({LastAnnotDay} \cup {txs[j].day : j \in 1..i})
  IN  AnnotEntries \o [i \in DOMAIN txs |-> [day |-> DayUpTo(i), body |-> <<"tx", i, txs[i].tier>>]]

BulkFiles(days) == Rechained(files, Filed, days)

Export(p) ==
  /\ Doing(p, "export")
  /\ shards' = txs
  /\ files' = BulkFiles(Days)
  /\ torn' = FALSE
  /\ Proceed(p)
  /\ UNCHANGED <<tree, database, today, was, unsure, events>>

\* An export writes the shards one by one, in seq order, and then the day
\* files, in the order of their names.
ShardsUpTo(n) ==
  [i \in 1..Max({n, Len(shards)}) |-> IF i <= n THEN txs[i] ELSE shards[i]]

\* A process dies in the middle of an export: among its shards, or after the
\* files of some days.
DieExporting(p) ==
  /\ Doing(p, "export")
  /\ Event
  /\ \/ /\ \E n \in DOMAIN txs : shards' = ShardsUpTo(n)
        /\ UNCHANGED <<files, torn>>
     \/ /\ shards' = txs
        /\ \E d \in Days : files' = BulkFiles(1..d)
        /\ torn' = (files' # BulkFiles(Days))
  /\ call' = [call EXCEPT ![p] = Idle]
  /\ UNCHANGED <<tree, database, today, was, unsure>>

\* An annotation verb commits its rows; exportWriteEffect appends one entry.
Annotate(p) ==
  /\ ~Calling(p)
  /\ Event
  /\ annots' = Append(annots, today)
  /\ call' = [call EXCEPT ![p] = OneStep("append", Len(annots'))]
  /\ UNCHANGED <<tree, txs, blobs, shards, files, today, history>>

AppendEntry(p) ==
  /\ Doing(p, "append")
  /\ LET i == call[p].tx IN files' = Appended(files, annots[i], <<"annot", i>>)
  /\ Proceed(p)
  /\ UNCHANGED <<tree, database, shards, today, history, events>>
-----------------------------------------------------------------------------
\* A process dies in the middle of a call; its next call finds what it left.
Crash(p) ==
  /\ Calling(p)
  /\ Event
  /\ call' = [call EXCEPT ![p] = Idle]
  /\ UNCHANGED <<tree, database, shards, files, today, history>>

\* The database is lost between calls and rebuilt: the transactions and their
\* blobs from the shards, the log table from the entries that are not theirs.
RebuildProject ==
  LET kept == {x \in LinesIn(files) : LineIn(files, x).body[1] = "annot"}
  IN  /\ \A p \in Procs : ~Calling(p)
      /\ Event
      /\ Cardinality(kept) = Len(annots)
      /\ txs' = shards
      /\ blobs' = UNION {{shards[i].prior[q] : q \in DOMAIN shards[i].prior} : i \in DOMAIN shards}
      /\ was' = SubSeq(was, 1, Len(shards))
      /\ unsure' = unsure \cup UNION {Touched(txs[i]) : i \in (Len(shards) + 1)..Len(txs)}
      /\ UNCHANGED <<tree, annots, shards, files, today, call, torn>>

\* A call reads the clock when it starts and never after that.
NextDay ==
  /\ Event
  /\ today < MaxDay
  /\ \A p \in Procs : ~Calling(p)
  /\ today' = today + 1
  /\ UNCHANGED <<tree, database, shards, files, call, history>>

Next ==
  \/ \E p \in Procs :
       \/ \E ev \in Evidence : \/ Make(p, ev) \/ Rename(p, ev) \/ Combine(p, ev) \/ Split(p, ev)
                               \/ \E c \in Contents : Rewrite(p, c, ev)
       \/ \E i \in DOMAIN txs : Revert(p, i) \/ Promote(p, i)
       \/ Reject(p) \/ Commit(p) \/ Refuse(p)
       \/ WriteFiles(p) \/ RemoveFiles(p) \/ Export(p)
       \/ Annotate(p) \/ AppendEntry(p) \/ Crash(p) \/ DieExporting(p)
  \/ RebuildProject \/ NextDay

Spec == Init /\ [][Next]_vars
-----------------------------------------------------------------------------
\* Every row has its type; ids are unique; the shards lag behind the table only.
TypeOK ==
  /\ tree \in Tree
  /\ blobs \subseteq Contents
  /\ \A d \in DOMAIN annots : annots[d] \in Days
  /\ IsInjective([i \in DOMAIN txs |-> txs[i].id])
  /\ Len(was) = Len(txs)
  /\ IsPrefix([i \in DOMAIN shards |-> shards[i].id], [i \in DOMAIN txs |-> txs[i].id])
  /\ unsure \subseteq Paths
  /\ \A i \in DOMAIN txs : txs[i].reverts \in 0..(i - 1) /\ txs[i].outputs \subseteq Paths

\* Every byte a revert would put back is held by the database, also by one
\* that was lost and rebuilt from the shards.
BlobsHeld ==
  \A i \in DOMAIN txs : \A q \in DOMAIN txs[i].prior : txs[i].prior[q] \in blobs

LastTouching(q) ==
  LET touching == {i \in DOMAIN txs : q \in Touched(txs[i])}
  IN  IF touching = {} THEN 0 ELSE CHOOSE i \in touching : \A j \in touching : j <= i

\* The log tells which files the tree has: a path the log claims is there
\* exactly if the last transaction that touched it emitted it.  A death
\* makes this uncertain for the paths of the call that died and no others,
\* until a later transaction settles them.
LogTellsTree ==
  \A q \in Paths \ unsure :
    LET i == LastTouching(q)
    IN  i # 0 => (tree[q] # Absent <=> q \in txs[i].outputs)

\* A revert is exact: as long as nothing touches them after it, the paths it
\* touched hold what they held when the transaction it reverts committed, byte
\* for byte, whatever was done to them in between; so reverting the revert
\* redoes the change.  (A rewrite takes the faithful render for its prior, and
\* is exact if it was.)
UndoExact ==
  \A j \in DOMAIN txs :
    LET i == txs[j].reverts
    IN  \A q \in Paths \ unsure :
          /\ i # 0
          /\ LastTouching(q) = j
          /\ txs[i].op = "rewrite" /\ txs[i].reverts = 0 => q \in DOMAIN was[i] /\ was[i][q] = Faithful
          => tree[q] = IF q \in DOMAIN was[i] THEN was[i][q] ELSE Absent

\* No call takes bytes out of the tree that the database does not hold; only
\* a rewrite over something else than the faithful render does.
NoByteLost ==
  [][\A q \in Paths :
       tree[q] \notin {Absent, tree'[q]} =>
         \/ tree[q] \in blobs
         \/ \E p \in Procs : Doing(p, "write") /\ call[p].tx.op = "rewrite"]_vars

\* verify's chain check over the day files passes, however annotation entries
\* and the transactions' tail alternate: what the comment at export.ts:437 says.
\* An export that dies with some of its day files not written breaks it until
\* the next one that goes through; no comment claims otherwise.
ChainContinuous == torn \/ Chained(files)

\* That it holds as long as the annotations have not moved past a day whose
\* file holds transactions only: the next export would place these later, and
\* leave that file as it is.
ChainUnlessOvertaken ==
  (\A d \in Days : files[d] # <<>> /\ d < LastAnnotDay => d \in Range(annots))
    => ChainContinuous
=============================================================================
