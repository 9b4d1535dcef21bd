-------------------- MODULE ReadabilityTransactionsProofs --------------------
(***************************************************************************)
(* For any processes, files and contents: the database holds every byte a  *)
(* revert would put back, and the rows of the transaction log, the shards  *)
(* and what a call has left to do stay well formed, whatever commits come  *)
(* between two steps of a call and whoever dies.                           *)
(*                                                                         *)
(* What makes both inductive is about calls that have not committed yet:   *)
(* such a transaction is a row already, and the one it reverts exists.     *)
(*                                                                         *)
(* With one process serving: the log tells which files the readable tree   *)
(* has, a revert is exact, and no call takes out bytes nobody holds.       *)
(*                                                                         *)
(* And the chain of the day files breaks in two ways only.  Calls do not   *)
(* outlast a day, so a new line comes after all others; and a file that an *)
(* export does not rewrite is of a day that later annotations have         *)
(* overtaken, unless the export died before it came to that file.          *)
(***************************************************************************)
EXTENDS ReadabilityTransactions, DayFilesProofs

Images == UNION {[S -> Contents] : S \in SUBSET Paths}
Steps == {"commit", "export", "remove", "write", "append"}
Ops == {"make", "rename", "combine", "split", "rewrite"}
Ids ==
  (Ops \X (SUBSET Paths) \X Evidence)
    \cup (Ops \X (SUBSET Paths) \X Evidence \X Contents)
    \cup ({"revert"} \X Nat \X Nat)
Tx ==
  [id : Ids, op : Ops, outputs : SUBSET Paths, prior : Images,
   reverts : Nat, tier : {"suggested", "confirmed"}, day : Nat]

\* A call: the commit is its first step or none, and what it commits is a row
\* of the log with n rows before it.
CallOk(c, n) ==
  /\ c = [todo |-> c.todo, tx |-> c.tx, writes |-> c.writes, gone |-> c.gone]
  /\ c.todo \in Seq(Steps)
  /\ \A k \in 2..Len(c.todo) : c.todo[k] # "commit"
  /\ c.todo # <<>> /\ c.todo[1] = "commit" => c.tx \in Tx /\ c.tx.reverts \in 0..n
  /\ \A q \in Paths \cap DOMAIN c.writes : c.writes[q] \in Contents

Calls ==
  /\ call = [p \in Procs |-> call[p]]
  /\ \A p \in Procs : CallOk(call[p], Len(txs))

Rows ==
  /\ txs \in Seq(Tx) /\ shards \in Seq(Tx)
  /\ annots \in Seq(Days)
  /\ was \in Seq(Images) /\ Len(was) = Len(txs)
  /\ today \in Days
  /\ tree \in Tree
  /\ unsure \subseteq Paths

IdsUnique == \A i, j \in 1..Len(txs) : txs[i].id = txs[j].id => i = j

RevertsEarlier ==
  /\ \A i \in 1..Len(txs) : txs[i].reverts \in 0..(i - 1)

\* The shards are the table as it was at some time.
ShardsLag ==
  /\ Len(shards) <= Len(txs)
  /\ \A i \in 1..Len(shards) : shards[i].id = txs[i].id /\ shards[i].reverts = txs[i].reverts

\* What an export that died leaves of the shards: some of them as they were.
PartShards(new) ==
  /\ new \in Seq(Tx) /\ Len(shards) <= Len(new) /\ Len(new) <= Len(txs)
  /\ \A i \in 1..Len(new) : new[i] = txs[i] \/ (i \in 1..Len(shards) /\ new[i] = shards[i])

IInv ==
  /\ Rows /\ Calls
  /\ blobs \subseteq Contents /\ BlobsHeld
  /\ IdsUnique /\ RevertsEarlier /\ ShardsLag
-----------------------------------------------------------------------------
\* What is at some paths of a tree, and a tree that is written over.
LEMMA AtIsImage ==
  ASSUME NEW t \in Tree, NEW S \in SUBSET Paths
  PROVE  At(t, S) \in Images /\ DOMAIN At(t, S) \subseteq S
<1>1. At(t, S) \in [S \cap Present(t) -> Contents] /\ S \cap Present(t) \in SUBSET Paths
  BY DEF At, Present, Tree
<1> QED
  BY <1>1 DEF Images

LEMMA TreeStays ==
  ASSUME NEW t \in Tree, NEW w, \A q \in Paths \cap DOMAIN w : w[q] \in Contents, NEW S
  PROVE  Overlaid(t, w) \in Tree /\ Cleared(t, S) \in Tree
BY DEF Overlaid, Cleared, Tree

LEMMA ImageDomain ==
  ASSUME NEW f \in Images
  PROVE  /\ DOMAIN f \in SUBSET Paths
         /\ \A q \in DOMAIN f : f[q] \in Contents
BY DEF Images

LEMMA IdleOk == \A n \in Nat : CallOk(Idle, n)
BY DEF CallOk, Idle

\* The call that is left after a step.
LEMMA RestOk ==
  ASSUME NEW c, NEW n \in Nat, CallOk(c, n), c.todo # <<>>
  PROVE  CallOk(Rest(c), n)
<1>1. CASE Len(c.todo) = 1
  BY <1>1, IdleOk DEF Rest
<1>2. CASE Len(c.todo) # 1
  <2> DEFINE d == [c EXCEPT !.todo = Tail(c.todo)]
  <2>1. d = [todo |-> Tail(c.todo), tx |-> c.tx, writes |-> c.writes, gone |-> c.gone]
    <3>1. [[todo |-> c.todo, tx |-> c.tx, writes |-> c.writes, gone |-> c.gone] EXCEPT !.todo = Tail(c.todo)]
            = [todo |-> Tail(c.todo), tx |-> c.tx, writes |-> c.writes, gone |-> c.gone]
      OBVIOUS
    <3>2. c = [todo |-> c.todo, tx |-> c.tx, writes |-> c.writes, gone |-> c.gone]
      BY DEF CallOk
    <3> QED
      BY <3>1, <3>2
  <2>2. /\ Tail(c.todo) \in Seq(Steps)
        /\ Len(Tail(c.todo)) = Len(c.todo) - 1
        /\ \A k \in 1..Len(Tail(c.todo)) : Tail(c.todo)[k] = c.todo[k + 1]
        /\ Len(c.todo) \in Nat
    BY DEF CallOk
  <2>3. \A k \in 1..Len(Tail(c.todo)) : Tail(c.todo)[k] # "commit"
    BY <2>2 DEF CallOk
  <2>4. Tail(c.todo) # <<>> => Tail(c.todo)[1] # "commit"
    BY <2>2, <2>3
  <2> HIDE DEF d
  <2>5. CallOk(d, n)
    BY <2>1, <2>2, <2>3, <2>4 DEF CallOk
  <2> QED
    BY <1>2, <2>5 DEF d, Rest
<1> QED
  BY <1>1, <1>2

\* A process' call becomes c, the others' stay.
LEMMA CallsKeep ==
  ASSUME IInv, NEW p \in Procs, NEW c, Len(txs') \in Nat, Len(txs) <= Len(txs'),
         CallOk(c, Len(txs')), call' = [call EXCEPT ![p] = c]
  PROVE  Calls'
<1>1. /\ call' = [x \in Procs |-> call'[x]]
      /\ call'[p] = c
      /\ \A x \in Procs \ {p} : call'[x] = call[x]
  BY DEF IInv, Calls
<1>2. \A x \in Procs : CallOk(call[x], Len(txs'))
  BY DEF IInv, Rows, Calls, CallOk
<1> QED
  BY <1>1, <1>2 DEF Calls

\* A process' step that is no commit, on the tree and the files.
LEMMA StepKeeps ==
  ASSUME IInv, NEW p \in Procs, Calling(p), Proceed(p), UNCHANGED database,
         tree' \in Tree, unsure' \subseteq unsure,
         shards' \in {shards, txs}, UNCHANGED <<was, today>>
  PROVE  IInv'
<1>1. Calls'
  <2>1. CallOk(call[p], Len(txs)) /\ call[p].todo # <<>>
    BY DEF IInv, Calls, Calling
  <2>2. Len(txs) \in Nat /\ Len(txs') = Len(txs) /\ Len(txs) <= Len(txs')
    BY DEF IInv, Rows, database
  <2>3. CallOk(Rest(call[p]), Len(txs'))
    BY <2>1, <2>2, RestOk
  <2> QED
    BY <2>2, <2>3, CallsKeep DEF Proceed
<1>2. Rows'
  BY DEF IInv, Rows, database
<1>3. (blobs \subseteq Contents /\ BlobsHeld /\ IdsUnique /\ RevertsEarlier)'
  BY DEF IInv, database, BlobsHeld, IdsUnique, RevertsEarlier
<1>4. ShardsLag'
  BY DEF IInv, Rows, database, ShardsLag
<1> QED
  BY <1>1, <1>2, <1>3, <1>4 DEF IInv

\* A call begins, or is refused: nothing else changes.
LEMMA CallBegins ==
  ASSUME IInv, NEW p \in Procs, NEW c, CallOk(c, Len(txs)),
         call' = [call EXCEPT ![p] = c],
         UNCHANGED <<tree, database, shards, files, today, history>>
  PROVE  IInv'
<1>1. Len(txs) \in Nat /\ Len(txs') = Len(txs) /\ Len(txs) <= Len(txs') /\ CallOk(c, Len(txs'))
  BY DEF IInv, Rows, database
<1>2. Calls'
  BY <1>1, CallsKeep
<1>3. Rows'
  BY DEF IInv, Rows, database, history
<1>4. (blobs \subseteq Contents /\ BlobsHeld /\ IdsUnique /\ RevertsEarlier /\ ShardsLag)'
  BY DEF IInv, database, BlobsHeld, IdsUnique, RevertsEarlier, ShardsLag
<1> QED
  BY <1>2, <1>3, <1>4 DEF IInv
-----------------------------------------------------------------------------
LEMMA InitEstablishes ==
  ASSUME 1 \in Days, 2 \in Days, Init
  PROVE  IInv
<1>1. Rows
  <2>1. tree \in Tree
    BY ContentsAssumption DEF Init, Tree
  <2> QED
    BY <2>1 DEF Init, Rows
<1>2. Calls
  BY IdleOk DEF Init, Calls
<1> QED
  BY <1>1, <1>2 DEF Init, IInv, BlobsHeld, IdsUnique, RevertsEarlier, ShardsLag

\* A call that commits a row and takes some steps after that.
LEMMA CommitFirst ==
  ASSUME NEW n \in Nat, NEW tx \in Tx, tx.reverts \in 0..n,
         NEW w, \A q \in Paths \cap DOMAIN w : w[q] \in Contents, NEW g,
         NEW steps \in Seq(Steps), \A k \in 2..Len(steps) : steps[k] # "commit"
  PROVE  CallOk([todo |-> steps, tx |-> tx, writes |-> w, gone |-> g], n)
BY DEF CallOk

LEMMA FourSteps ==
  ASSUME NEW n \in Nat, NEW tx \in Tx, tx.reverts \in 0..n,
         NEW w, \A q \in Paths \cap DOMAIN w : w[q] \in Contents, NEW g,
         NEW a \in Steps \ {"commit"}, NEW b \in Steps \ {"commit"}, NEW c \in Steps \ {"commit"}
  PROVE  CallOk([todo |-> <<"commit", a, b, c>>, tx |-> tx, writes |-> w, gone |-> g], n)
<1>1. <<"commit", a, b, c>> \in Seq(Steps)
  BY DEF Steps
<1>2. \A k \in 2..Len(<<"commit", a, b, c>>) : <<"commit", a, b, c>>[k] # "commit"
  <2>1. \A k \in 2..4 : k = 2 \/ k = 3 \/ k = 4
    OBVIOUS
  <2> QED
    BY <2>1
<1> QED
  BY <1>1, <1>2, CommitFirst

LEMMA ThreeSteps ==
  ASSUME NEW n \in Nat, NEW tx \in Tx, tx.reverts \in 0..n,
         NEW w, \A q \in Paths \cap DOMAIN w : w[q] \in Contents, NEW g,
         NEW a \in Steps \ {"commit"}, NEW b \in Steps \ {"commit"}
  PROVE  CallOk([todo |-> <<"commit", a, b>>, tx |-> tx, writes |-> w, gone |-> g], n)
<1>1. <<"commit", a, b>> \in Seq(Steps)
  BY DEF Steps
<1>2. \A k \in 2..Len(<<"commit", a, b>>) : <<"commit", a, b>>[k] # "commit"
  <2>1. \A k \in 2..3 : k = 2 \/ k = 3
    OBVIOUS
  <2> QED
    BY <2>1
<1> QED
  BY <1>1, <1>2, CommitFirst

\* Files written are an image of some files.
LEMMA ImageOf ==
  ASSUME NEW S \in SUBSET Paths, NEW f \in [S -> Contents]
  PROVE  f \in Images
BY DEF Images

LEMMA ProposeKeeps ==
  ASSUME IInv, NEW p \in Procs, NEW op \in Ops, NEW gone \in SUBSET Paths, NEW new \in Images,
         NEW ev \in Evidence, Propose(p, op, gone, new, ev)
  PROVE  IInv'
<1> DEFINE next == Overlaid(Cleared(tree, gone), new)
           tx == [id |-> <<op, DOMAIN new, ev>>, op |-> op, outputs |-> DOMAIN new,
                  prior |-> PriorOf(gone, new), reverts |-> 0, tier |-> "suggested", day |-> today]
           c == [todo |-> <<"commit", "export", "remove", "write">>, tx |-> tx,
                 writes |-> At(next, Paths), gone |-> Present(tree) \ Present(next)]
<1>1. /\ call' = [call EXCEPT ![p] = c]
      /\ UNCHANGED <<tree, database, shards, files, today, history>>
  BY DEF Propose
<1>2. tree \in Tree /\ today \in Nat /\ Len(txs) \in Nat
  BY DEF IInv, Rows, Days
<1>3. DOMAIN new \in SUBSET Paths /\ \A q \in DOMAIN new : new[q] \in Contents
  BY ImageDomain
<1>4. PriorOf(gone, new) \in Images
  BY <1>2, <1>3, AtIsImage DEF PriorOf
<1>5. tx \in Tx /\ tx.reverts \in 0..Len(txs)
  <2>1. <<op, DOMAIN new, ev>> \in Ids
    BY <1>3 DEF Ids
  <2> QED
    BY <1>2, <1>3, <1>4, <2>1 DEF Tx
<1>6. next \in Tree
  <2>1. Cleared(tree, gone) \in Tree
    BY <1>2 DEF Cleared, Tree
  <2> QED
    BY <1>3, <2>1 DEF Overlaid, Tree
<1>7. \A q \in Paths \cap DOMAIN At(next, Paths) : At(next, Paths)[q] \in Contents
  BY <1>6, AtIsImage, ImageDomain
<1> HIDE DEF tx, next
<1>8. CallOk(c, Len(txs))
  BY <1>2, <1>5, <1>7, FourSteps DEF Steps
<1> HIDE DEF c
<1> QED
  BY <1>1, <1>8, CallBegins

LEMMA OpsKeep ==
  ASSUME IInv, NEW p \in Procs, NEW ev \in Evidence,
         Make(p, ev) \/ Rename(p, ev) \/ Combine(p, ev) \/ Split(p, ev)
  PROVE  IInv'
<1>1. \A from \in Present(tree) : tree[from] \in Contents /\ {from} \in SUBSET Paths
  BY DEF IInv, Rows, Tree, Present
<1>2. ASSUME NEW to \in Paths, NEW c \in Contents PROVE [r \in {to} |-> c] \in Images
  <2>1. {to} \in SUBSET Paths /\ [r \in {to} |-> c] \in [{to} -> Contents]
    OBVIOUS
  <2> QED
    BY <2>1, ImageOf
<1>3. CASE Make(p, ev)
  BY <1>2, <1>3, ProposeKeeps DEF Make, Ops
<1>4. CASE Rename(p, ev)
  BY <1>1, <1>2, <1>4, ProposeKeeps DEF Rename, Ops
<1>5. CASE Combine(p, ev)
  <2>1. \A from \in SUBSET Present(tree) : from \in SUBSET Paths
    BY DEF Present
  <2> QED
    BY <1>2, <1>5, <2>1, ProposeKeeps DEF Combine, Ops
<1>6. CASE Split(p, ev)
  <2>1. \A parts \in SUBSET Paths : \A new \in [parts -> Contents] : new \in Images
    BY ImageOf
  <2> QED
    BY <1>1, <1>6, <2>1, ProposeKeeps DEF Split, Ops
<1> QED
  BY <1>3, <1>4, <1>5, <1>6

LEMMA RewriteKeeps ==
  ASSUME IInv, NEW p \in Procs, NEW k \in Contents, NEW ev \in Evidence, Rewrite(p, k, ev)
  PROVE  IInv'
<1> DEFINE tx == [id |-> <<"rewrite", {RewritePath}, ev, k>>, op |-> "rewrite",
                  outputs |-> {RewritePath}, prior |-> [q \in {RewritePath} |-> Faithful],
                  reverts |-> 0, tier |-> "suggested", day |-> today]
           w == [q \in {RewritePath} |-> k]
           c == [todo |-> <<"commit", "export", "write">>, tx |-> tx, writes |-> w, gone |-> {}]
<1>1. /\ call' = [call EXCEPT ![p] = c]
      /\ UNCHANGED <<tree, database, shards, files, today, history>>
  BY DEF Rewrite
<1>2. today \in Nat /\ Len(txs) \in Nat
  BY DEF IInv, Rows, Days
<1>3. [q \in {RewritePath} |-> Faithful] \in Images
  <2>1. {RewritePath} \in SUBSET Paths /\ [q \in {RewritePath} |-> Faithful] \in [{RewritePath} -> Contents]
    BY ContentsAssumption
  <2> QED
    BY <2>1, ImageOf
<1>4. tx \in Tx /\ tx.reverts \in 0..Len(txs)
  <2>1. <<"rewrite", {RewritePath}, ev, k>> \in Ids
    BY ContentsAssumption DEF Ids, Ops
  <2> QED
    BY <1>2, <1>3, <2>1, ContentsAssumption DEF Tx, Ops
<1>5. \A q \in Paths \cap DOMAIN w : w[q] \in Contents
  OBVIOUS
<1> HIDE DEF tx, w
<1>6. CallOk(c, Len(txs))
  BY <1>2, <1>4, <1>5, ThreeSteps DEF Steps
<1> HIDE DEF c
<1> QED
  BY <1>1, <1>6, CallBegins

LEMMA RevertKeeps ==
  ASSUME IInv, NEW p \in Procs, NEW i \in DOMAIN txs, Revert(p, i)
  PROVE  IInv'
<1> DEFINE old == txs[i]
           tx == [id |-> <<"revert", i, Len(txs)>>, op |-> old.op,
                  outputs |-> DOMAIN old.prior, prior |-> RevertPrior(old),
                  reverts |-> i, tier |-> "suggested", day |-> today]
           c == [todo |-> <<"commit", "write", "remove", "export">>, tx |-> tx,
                 writes |-> old.prior, gone |-> RevertGone(old)]
<1>1. /\ call' = [call EXCEPT ![p] = c]
      /\ UNCHANGED <<tree, database, shards, files, today, history>>
  BY DEF Revert
<1>2. /\ today \in Nat /\ Len(txs) \in Nat /\ i \in 1..Len(txs)
      /\ old \in Tx /\ tree \in Tree
  BY DEF IInv, Rows, Days
<1>3. /\ DOMAIN old.prior \in SUBSET Paths
      /\ \A q \in DOMAIN old.prior : old.prior[q] \in Contents
      /\ Touched(old) \in SUBSET Paths
  <2>1. old.prior \in Images /\ old.outputs \in SUBSET Paths
    BY <1>2 DEF Tx
  <2> QED
    BY <2>1, ImageDomain DEF Touched
<1>4. RevertPrior(old) \in Images
  BY <1>2, <1>3, AtIsImage DEF RevertPrior
<1>5. tx \in Tx /\ tx.reverts \in 0..Len(txs)
  <2>1. <<"revert", i, Len(txs)>> \in Ids
    BY <1>2 DEF Ids
  <2>2. old.op \in Ops
    BY <1>2 DEF Tx
  <2> QED
    BY <1>2, <1>3, <1>4, <2>1, <2>2 DEF Tx
<1> HIDE DEF tx, old
<1>6. CallOk(c, Len(txs))
  BY <1>2, <1>3, <1>5, FourSteps DEF Steps
<1> HIDE DEF c
<1> QED
  BY <1>1, <1>6, CallBegins
-----------------------------------------------------------------------------
\* The step that adds a row, and the bytes it supersedes.
LEMMA CommitKeeps ==
  ASSUME IInv, NEW p \in Procs, Commit(p)
  PROVE  IInv'
<1> DEFINE tx == call[p].tx
<1>1. /\ Calling(p) /\ call[p].todo[1] = "commit"
      /\ txs' = Append(txs, tx)
      /\ blobs' = blobs \cup {tx.prior[q] : q \in DOMAIN tx.prior}
      /\ was' = Append(was, At(tree, Touched(tx)))
      /\ unsure' = unsure \cup Touched(tx)
      /\ \A i \in DOMAIN txs : txs[i].id # tx.id
      /\ UNCHANGED <<tree, annots, shards, today>>
  BY DEF Commit, Doing, Accepts
<1>2. /\ txs \in Seq(Tx) /\ was \in Seq(Images) /\ Len(was) = Len(txs) /\ Len(txs) \in Nat
      /\ shards \in Seq(Tx) /\ tree \in Tree /\ unsure \subseteq Paths
      /\ DOMAIN txs = 1..Len(txs)
  BY DEF IInv, Rows
<1>3. tx \in Tx /\ tx.reverts \in 0..Len(txs)
  BY <1>1 DEF Calling, IInv, Calls, CallOk
<1>4. /\ Touched(tx) \in SUBSET Paths
      /\ \A q \in DOMAIN tx.prior : tx.prior[q] \in Contents
  <2>1. tx.prior \in Images /\ tx.outputs \in SUBSET Paths
    BY <1>3 DEF Tx
  <2> QED
    BY <2>1, ImageDomain DEF Touched
<1> HIDE DEF tx
<1>5. /\ txs' \in Seq(Tx) /\ Len(txs') = Len(txs) + 1
      /\ \A i \in 1..Len(txs) : txs'[i] = txs[i]
      /\ txs'[Len(txs) + 1] = tx
      /\ DOMAIN txs' = 1..(Len(txs) + 1)
  BY <1>1, <1>2, <1>3, AppendProperties
<1>6. Calls'
  <2>1. CallOk(Rest(call[p]), Len(txs'))
    <3>1. CallOk(call[p], Len(txs')) /\ call[p].todo # <<>>
      BY <1>1, <1>2, <1>5 DEF Calling, IInv, Calls, CallOk
    <3> QED
      BY <1>2, <1>5, <3>1, RestOk
  <2>2. call' = [call EXCEPT ![p] = Rest(call[p])]
    BY DEF Commit, Proceed
  <2>3. Len(txs') \in Nat /\ Len(txs) <= Len(txs')
    BY <1>2, <1>5
  <2> QED
    BY <2>1, <2>2, <2>3, CallsKeep
<1>7. Rows'
  <2>1. At(tree, Touched(tx)) \in Images
    BY <1>2, <1>4, AtIsImage
  <2>2. was' \in Seq(Images) /\ Len(was') = Len(was) + 1
    BY <1>1, <1>2, <2>1, AppendProperties
  <2> QED
    BY <1>1, <1>2, <1>4, <1>5, <2>2 DEF IInv, Rows
<1>8. (blobs \subseteq Contents)' /\ BlobsHeld'
  <2>1. blobs' \subseteq Contents
    BY <1>1, <1>4 DEF IInv
  <2>2. ASSUME NEW i \in DOMAIN txs' PROVE \A q \in DOMAIN txs'[i].prior : txs'[i].prior[q] \in blobs'
    <3>1. CASE i = Len(txs) + 1
      BY <1>1, <1>5, <3>1
    <3>2. CASE i # Len(txs) + 1
      <4>1. i \in DOMAIN txs /\ txs'[i] = txs[i]
        BY <1>2, <1>5, <2>2, <3>2
      <4> QED
        BY <1>1, <4>1 DEF IInv, BlobsHeld
    <3> QED
      BY <3>1, <3>2
  <2> QED
    BY <2>1, <2>2 DEF BlobsHeld
<1>9. IdsUnique'
  BY <1>1, <1>2, <1>5 DEF IInv, IdsUnique
<1>10. RevertsEarlier'
  BY <1>2, <1>3, <1>5 DEF IInv, RevertsEarlier
<1>11. ShardsLag'
  BY <1>1, <1>2, <1>5 DEF IInv, ShardsLag
<1> QED
  BY <1>6, <1>7, <1>8, <1>9, <1>10, <1>11 DEF IInv

\* The steps on the tree and on the files.
LEMMA StepsKeep ==
  ASSUME IInv, NEW p \in Procs,
         WriteFiles(p) \/ RemoveFiles(p) \/ Export(p) \/ AppendEntry(p)
  PROVE  IInv'
<1>1. CallOk(call[p], Len(txs)) /\ tree \in Tree
  BY DEF IInv, Rows, Calls
<1>2. Overlaid(tree, call[p].writes) \in Tree /\ Cleared(tree, call[p].gone) \in Tree
  BY <1>1, TreeStays DEF CallOk
<1>3. Settled(p) \subseteq unsure
  BY DEF Settled
<1>4. CASE WriteFiles(p)
  BY <1>2, <1>3, <1>4, StepKeeps DEF WriteFiles, Doing
<1>5. CASE RemoveFiles(p)
  BY <1>2, <1>3, <1>5, StepKeeps DEF RemoveFiles, Doing
<1>6. CASE Export(p)
  <2>1. UNCHANGED <<database, was, today>> /\ tree' \in Tree /\ unsure' = unsure
        /\ shards' = txs /\ Calling(p) /\ Proceed(p)
    BY <1>1, <1>6 DEF Export, Doing, history
  <2> QED
    BY <2>1, StepKeeps
<1>7. CASE AppendEntry(p)
  <2>1. UNCHANGED <<database, was, today>> /\ tree' \in Tree /\ unsure' = unsure
        /\ shards' = shards /\ Calling(p) /\ Proceed(p)
    BY <1>1, <1>7 DEF AppendEntry, Doing, history
  <2> QED
    BY <2>1, StepKeeps
<1> QED
  BY <1>4, <1>5, <1>6, <1>7

\* A call that is refused, or dies, leaves the tables as they are.
LEMMA EndKeeps ==
  ASSUME IInv, NEW p \in Procs, Reject(p) \/ Refuse(p) \/ Crash(p)
  PROVE  IInv'
<1>1. /\ call' = [call EXCEPT ![p] = Idle]
      /\ UNCHANGED <<tree, database, shards, files, today, history>>
  BY DEF Reject, Refuse, Crash
<1>2. Len(txs) \in Nat
  BY DEF IInv, Rows
<1> QED
  BY <1>1, <1>2, IdleOk, CallBegins

\* A call that has nothing left to do but one step on the files.
LEMMA OneStepOk ==
  ASSUME NEW n \in Nat, NEW step \in Steps \ {"commit"}, NEW tx
  PROVE  CallOk(OneStep(step, tx), n)
BY DEF CallOk, Steps, OneStep

LEMMA PromoteKeeps ==
  ASSUME IInv, NEW p \in Procs, NEW i \in DOMAIN txs, Promote(p, i)
  PROVE  IInv'
<1> DEFINE row == [txs[i] EXCEPT !.tier = "confirmed"]
           c == OneStep("export", <<>>)
<1>1. /\ txs' = [txs EXCEPT ![i] = row]
      /\ call' = [call EXCEPT ![p] = c]
      /\ UNCHANGED <<tree, blobs, annots, shards, today, was, unsure>>
  BY DEF Promote, history
<1>2. /\ txs \in Seq(Tx) /\ Len(txs) \in Nat /\ i \in 1..Len(txs) /\ DOMAIN txs = 1..Len(txs)
      /\ txs[i] \in Tx
  BY DEF IInv, Rows
<1>3. row \in Tx /\ row.id = txs[i].id /\ row.prior = txs[i].prior /\ row.reverts = txs[i].reverts
  BY <1>2 DEF Tx
<1> HIDE DEF row
<1>4. /\ txs' \in Seq(Tx) /\ Len(txs') = Len(txs) /\ DOMAIN txs' = 1..Len(txs)
      /\ txs'[i] = row /\ \A j \in 1..Len(txs) : j # i => txs'[j] = txs[j]
  BY <1>1, <1>2, <1>3, ExceptSeq
<1>5. \A j \in 1..Len(txs) : /\ txs'[j].id = txs[j].id
                             /\ txs'[j].prior = txs[j].prior
                             /\ txs'[j].reverts = txs[j].reverts
  BY <1>3, <1>4
<1>6. Calls'
  <2>1. CallOk(c, Len(txs'))
    BY <1>2, <1>4, OneStepOk DEF Steps
  <2>2. Len(txs') \in Nat /\ Len(txs) <= Len(txs')
    BY <1>2, <1>4
  <2> HIDE DEF c
  <2> QED
    BY <1>1, <2>1, <2>2, CallsKeep
<1>7. Rows'
  BY <1>1, <1>4 DEF IInv, Rows
<1>8. (blobs \subseteq Contents)' /\ BlobsHeld'
  BY <1>1, <1>2, <1>4, <1>5 DEF IInv, BlobsHeld
<1>9. IdsUnique' /\ RevertsEarlier'
  BY <1>4, <1>5 DEF IInv, IdsUnique, RevertsEarlier
<1>10. ShardsLag'
  <2>1. Len(shards) \in Nat
    BY DEF IInv, Rows
  <2> QED
    BY <1>1, <1>2, <1>4, <1>5, <2>1 DEF IInv, ShardsLag
<1> QED
  BY <1>6, <1>7, <1>8, <1>9, <1>10 DEF IInv

LEMMA AnnotateKeeps ==
  ASSUME IInv, NEW p \in Procs, Annotate(p)
  PROVE  IInv'
<1> DEFINE c == OneStep("append", Len(annots'))
<1>1. /\ annots' = Append(annots, today)
      /\ call' = [call EXCEPT ![p] = c]
      /\ UNCHANGED <<tree, txs, blobs, shards, today, was, unsure>>
  BY DEF Annotate, history
<1>2. Len(txs) \in Nat /\ Len(txs') = Len(txs) /\ Len(txs) <= Len(txs')
  BY <1>1 DEF IInv, Rows
<1>3. CallOk(c, Len(txs'))
  BY <1>2, OneStepOk DEF Steps
<1> HIDE DEF c
<1>4. Calls'
  BY <1>1, <1>2, <1>3, CallsKeep
<1>5. Rows'
  <2>1. annots' \in Seq(Days)
    BY <1>1, AppendProperties DEF IInv, Rows
  <2> QED
    BY <1>1, <2>1 DEF IInv, Rows
<1>6. (blobs \subseteq Contents /\ BlobsHeld /\ IdsUnique /\ RevertsEarlier /\ ShardsLag)'
  BY <1>1 DEF IInv, BlobsHeld, IdsUnique, RevertsEarlier, ShardsLag
<1> QED
  BY <1>4, <1>5, <1>6 DEF IInv

\* The rows come back from the shards, which held a prefix of them.
LEMMA RebuildKeeps ==
  ASSUME IInv, RebuildProject
  PROVE  IInv'
<1>1. /\ \A p \in Procs : ~Calling(p)
      /\ txs' = shards
      /\ blobs' = UNION {{shards[i].prior[q] : q \in DOMAIN shards[i].prior} : i \in DOMAIN shards}
      /\ was' = SubSeq(was, 1, Len(shards))
      /\ unsure' = unsure \cup UNION {Touched(txs[i]) : i \in (Len(shards) + 1)..Len(txs)}
      /\ UNCHANGED <<tree, annots, shards, today, call>>
  BY DEF RebuildProject
<1>2. /\ txs \in Seq(Tx) /\ shards \in Seq(Tx) /\ was \in Seq(Images)
      /\ Len(was) = Len(txs) /\ Len(txs) \in Nat /\ Len(shards) \in Nat /\ Len(shards) <= Len(txs)
      /\ DOMAIN txs = 1..Len(txs) /\ DOMAIN shards = 1..Len(shards)
      /\ unsure \subseteq Paths
  BY DEF IInv, Rows, ShardsLag
<1>3. \A tx \in Tx : Touched(tx) \subseteq Paths /\ \A q \in DOMAIN tx.prior : tx.prior[q] \in Contents
  <2>1. \A tx \in Tx : tx.prior \in Images /\ tx.outputs \in SUBSET Paths
    BY DEF Tx
  <2> QED
    BY <2>1, ImageDomain DEF Touched
<1>4. Calls'
  BY <1>1 DEF Calling, IInv, Calls, CallOk
<1>5. Rows'
  <2>1. was' \in Seq(Images) /\ Len(was') = Len(shards)
    BY <1>1, <1>2
  <2>2. \A i \in (Len(shards) + 1)..Len(txs) : Touched(txs[i]) \subseteq Paths
    BY <1>2, <1>3
  <2>3. unsure' \subseteq Paths
    BY <1>1, <1>2, <2>2
  <2> QED
    BY <1>1, <1>2, <2>1, <2>3 DEF IInv, Rows
<1>6. (blobs \subseteq Contents)' /\ BlobsHeld'
  <2>1. \A i \in DOMAIN shards : shards[i] \in Tx
    BY <1>2
  <2> QED
    BY <1>1, <1>3, <2>1 DEF BlobsHeld
<1>7. IdsUnique' /\ RevertsEarlier' /\ ShardsLag'
  <2>1. \A i \in 1..Len(shards) : /\ i \in 1..Len(txs)
                                  /\ shards[i].id = txs[i].id
                                  /\ shards[i].reverts = txs[i].reverts
    BY <1>2 DEF IInv, ShardsLag
  <2>2. IdsUnique'
    BY <1>1, <2>1 DEF IInv, IdsUnique
  <2>3. RevertsEarlier'
    BY <1>1, <2>1 DEF IInv, RevertsEarlier
  <2>4. ShardsLag'
    BY <1>1, <1>2 DEF ShardsLag
  <2> QED
    BY <2>2, <2>3, <2>4
<1> QED
  BY <1>4, <1>5, <1>6, <1>7 DEF IInv

LEMMA DayKeeps ==
  ASSUME IInv, NextDay, MaxDay \in Nat
  PROVE  IInv'
BY DEF NextDay, database, history, Days, IInv, Rows, Calls, BlobsHeld, IdsUnique, RevertsEarlier, ShardsLag

LEMMA StutterKeeps ==
  ASSUME IInv, UNCHANGED vars
  PROVE  IInv'
BY DEF vars, database, history, IInv, Rows, Calls, BlobsHeld, IdsUnique, RevertsEarlier, ShardsLag

LEMMA PartIs ==
  ASSUME IInv, NEW n \in DOMAIN txs
  PROVE  PartShards(ShardsUpTo(n))
<1>1. txs \in Seq(Tx) /\ shards \in Seq(Tx) /\ Len(txs) \in Nat /\ Len(shards) \in Nat
      /\ Len(shards) <= Len(txs) /\ n \in 1..Len(txs)
  BY DEF IInv, Rows, ShardsLag
<1>2. PICK m : m = Max({n, Len(shards)})
  OBVIOUS
<1>3. m \in {n, Len(shards)} /\ n <= m /\ Len(shards) <= m
  <2>1. \E x \in {n, Len(shards)} : \A y \in {n, Len(shards)} : y <= x
    BY <1>1
  <2>2. /\ Max({n, Len(shards)}) \in {n, Len(shards)}
        /\ \A y \in {n, Len(shards)} : y <= Max({n, Len(shards)})
    BY <2>1 DEF Max
  <2> QED
    BY <1>2, <2>2
<1>4. m \in Nat /\ m <= Len(txs)
  BY <1>1, <1>3
<1>5. ShardsUpTo(n) = [i \in 1..m |-> IF i <= n THEN txs[i] ELSE shards[i]]
  BY <1>2 DEF ShardsUpTo
<1>6. \A i \in 1..m : IF i <= n THEN i \in 1..Len(txs) ELSE i \in 1..Len(shards)
  BY <1>1, <1>3, <1>4
<1>7. \A i \in 1..m : (IF i <= n THEN txs[i] ELSE shards[i]) \in Tx
  BY <1>1, <1>6
<1>8. ShardsUpTo(n) \in Seq(Tx) /\ Len(ShardsUpTo(n)) = m
  BY <1>4, <1>5, <1>7
<1> QED
  BY <1>3, <1>4, <1>5, <1>6, <1>8 DEF PartShards

LEMMA WholeIsPart ==
  ASSUME IInv
  PROVE  PartShards(txs)
BY DEF IInv, Rows, ShardsLag, PartShards

LEMMA DieExportingIs ==
  ASSUME IInv, NEW p \in Procs, DieExporting(p)
  PROVE  PartShards(shards') /\ PartShards(shards)
<1>1. PartShards(shards)
  BY DEF IInv, Rows, ShardsLag, PartShards
<1>2. CASE \E n \in DOMAIN txs : shards' = ShardsUpTo(n)
  BY <1>1, <1>2, PartIs
<1>3. CASE shards' = txs
  BY <1>1, <1>3, WholeIsPart
<1> QED
  BY <1>2, <1>3 DEF DieExporting

LEMMA DieExportingKeeps ==
  ASSUME IInv, NEW p \in Procs, DieExporting(p)
  PROVE  IInv'
<1>1. /\ call' = [call EXCEPT ![p] = Idle]
      /\ UNCHANGED <<tree, txs, blobs, annots, today, was, unsure>>
  BY DEF DieExporting, database
<1>2. PartShards(shards')
  BY DieExportingIs
<1>3. Calls'
  <2>1. Len(txs) \in Nat /\ Len(txs') = Len(txs) /\ Len(txs) <= Len(txs')
    BY <1>1 DEF IInv, Rows
  <2> QED
    BY <1>1, <2>1, IdleOk, CallsKeep
<1>4. Rows'
  BY <1>1, <1>2 DEF IInv, Rows, PartShards
<1>5. (blobs \subseteq Contents /\ BlobsHeld /\ IdsUnique /\ RevertsEarlier)'
  BY <1>1 DEF IInv, BlobsHeld, IdsUnique, RevertsEarlier
<1>6. ShardsLag'
  BY <1>1, <1>2 DEF IInv, ShardsLag, PartShards
<1> QED
  BY <1>3, <1>4, <1>5, <1>6 DEF IInv

LEMMA NextKeeps == IInv /\ [Next]_vars => IInv'
<1> SUFFICES ASSUME IInv, [Next]_vars PROVE IInv'
  OBVIOUS
<1>1. ASSUME NEW p \in Procs, NEW ev \in Evidence,
             Make(p, ev) \/ Rename(p, ev) \/ Combine(p, ev) \/ Split(p, ev) PROVE IInv'
  BY <1>1, OpsKeep
<1>2. ASSUME NEW p \in Procs, NEW ev \in Evidence, NEW k \in Contents, Rewrite(p, k, ev) PROVE IInv'
  BY <1>2, RewriteKeeps
<1>3. ASSUME NEW p \in Procs, NEW i \in DOMAIN txs, Revert(p, i) \/ Promote(p, i) PROVE IInv'
  BY <1>3, RevertKeeps, PromoteKeeps
<1>4. ASSUME NEW p \in Procs, Commit(p) PROVE IInv'
  BY <1>4, CommitKeeps
<1>5. ASSUME NEW p \in Procs, WriteFiles(p) \/ RemoveFiles(p) \/ Export(p) \/ AppendEntry(p) PROVE IInv'
  BY <1>5, StepsKeep
<1>6. ASSUME NEW p \in Procs, Reject(p) \/ Refuse(p) \/ Crash(p) PROVE IInv'
  BY <1>6, EndKeeps
<1>7. ASSUME NEW p \in Procs, Annotate(p) PROVE IInv'
  BY <1>7, AnnotateKeeps
<1>8. CASE UNCHANGED vars
  BY <1>8, StutterKeeps
<1>9. ASSUME RebuildProject \/ NextDay PROVE IInv'
  BY <1>9, RebuildKeeps, DayKeeps, MaxDayAssumption
<1>10. ASSUME NEW p \in Procs, DieExporting(p) PROVE IInv'
  BY <1>10, DieExportingKeeps
<1> QED
  BY <1>1, <1>2, <1>3, <1>4, <1>5, <1>6, <1>7, <1>8, <1>9, <1>10 DEF Next

LEMMA Inductive == Spec => []IInv
<1>1. Init => IInv
  BY InitEstablishes, DaysAssumption, MaxDayAssumption DEF Days
<1> QED
  BY <1>1, NextKeeps, PTL DEF Spec
-----------------------------------------------------------------------------
\* The rows of the log, the shards and the tree are what they should be: ids
\* are unique, a revert names an earlier row, and the shards lag behind.
THEOREM TypeCorrect == Spec => []TypeOK
<1>1. IInv => TypeOK
  <2> SUFFICES ASSUME IInv PROVE TypeOK
    OBVIOUS
  <2>1. /\ txs \in Seq(Tx) /\ shards \in Seq(Tx) /\ annots \in Seq(Days)
        /\ Len(txs) \in Nat /\ Len(shards) \in Nat /\ Len(shards) <= Len(txs)
        /\ DOMAIN txs = 1..Len(txs) /\ DOMAIN shards = 1..Len(shards)
    BY DEF IInv, Rows, ShardsLag
  <2>2. IsInjective([i \in DOMAIN txs |-> txs[i].id])
    BY <2>1 DEF IsInjective, IInv, IdsUnique
  <2>3. IsPrefix([i \in DOMAIN shards |-> shards[i].id], [i \in DOMAIN txs |-> txs[i].id])
    <3> DEFINE s == [i \in 1..Len(shards) |-> shards[i].id]
               t == [i \in 1..Len(txs) |-> txs[i].id]
    <3>1. s \in Seq(Ids) /\ Len(s) = Len(shards) /\ t \in Seq(Ids) /\ Len(t) = Len(txs)
      <4>1. /\ \A i \in 1..Len(shards) : shards[i].id \in Ids
            /\ \A i \in 1..Len(txs) : txs[i].id \in Ids
        <5>1. /\ \A i \in 1..Len(shards) : shards[i] \in Tx
              /\ \A i \in 1..Len(txs) : txs[i] \in Tx
          BY <2>1
        <5>2. \A tx \in Tx : tx.id \in Ids
          BY DEF Tx
        <5> QED
          BY <5>1, <5>2
      <4>2. \A n \in Nat : \A f \in [1..n -> Ids] : f \in Seq(Ids) /\ Len(f) = n
        OBVIOUS
      <4>3. s \in [1..Len(shards) -> Ids] /\ t \in [1..Len(txs) -> Ids]
        BY <4>1
      <4> HIDE DEF s, t
      <4> QED
        BY <2>1, <4>2, <4>3
    <3>2. \A i \in 1..Len(shards) : s[i] = t[i]
      BY <2>1 DEF IInv, ShardsLag
    <3> HIDE DEF s, t
    <3>3. SubSeq(s, 1, Len(s)) = SubSeq(t, 1, Len(s))
      BY <2>1, <3>1, <3>2
    <3>4. IsPrefix(s, t)
      BY <2>1, <3>1, <3>3 DEF IsPrefix
    <3> QED
      BY <2>1, <3>4 DEF s, t
  <2>4. \A i \in DOMAIN txs : txs[i].reverts \in 0..(i - 1) /\ txs[i].outputs \subseteq Paths
    <3>1. \A i \in DOMAIN txs : txs[i] \in Tx
      BY <2>1
    <3> QED
      BY <2>1, <3>1 DEF IInv, RevertsEarlier, Tx
  <2> QED
    BY <2>1, <2>2, <2>3, <2>4 DEF IInv, Rows, TypeOK
<1> QED
  BY <1>1, Inductive, PTL

\* Whatever may be reverted can be: its bytes are in the database, also in
\* one that was lost and rebuilt.
THEOREM RevertsHaveTheirBytes == Spec => []BlobsHeld
<1>1. IInv => BlobsHeld
  BY DEF IInv
<1> QED
  BY <1>1, Inductive, PTL
-----------------------------------------------------------------------------
(***************************************************************************)
(* From here on one process serves the tools: then nobody reads the tree   *)
(* that a call is about to write.  What makes the tree's properties        *)
(* inductive is what each call will do to it, step by step, and that a     *)
(* row tells what its paths held when it committed.                        *)
(***************************************************************************)
OneProcess == \A x, y \in Procs : x = y

PlainRewrite(tx) == tx.op = "rewrite" /\ tx.reverts = 0

\* A row, the bytes its paths held when it committed, and the row it reverts.
RowTells(tx, held, rows) ==
  /\ ~PlainRewrite(tx) => held = tx.prior
  /\ PlainRewrite(tx) => tx.outputs = {RewritePath} /\ tx.prior = [q \in {RewritePath} |-> Faithful]
  /\ tx.reverts # 0 => /\ tx.outputs = DOMAIN rows[tx.reverts].prior
                       /\ Touched(tx) \subseteq Touched(rows[tx.reverts])

RowsTell == \A i \in 1..Len(txs) : RowTells(txs[i], was[i], txs)

SameText(x, y) == x.op = y.op /\ x.outputs = y.outputs /\ x.prior = y.prior /\ x.reverts = y.reverts

ShardsSay == \A i \in 1..Len(shards) : SameText(shards[i], txs[i])

OpTodo == <<"commit", "export", "remove", "write">>
RewriteTodo == <<"commit", "export", "write">>
RevertTodo == <<"commit", "write", "remove", "export">>
Committing == {OpTodo, RewriteTodo, RevertTodo}
Committed ==
  {<<"export", "remove", "write">>, <<"remove", "write">>, <<"write">>, <<"export", "write">>,
   <<"write", "remove", "export">>, <<"remove", "export">>}
OffTree == {<<>>, <<"export">>, <<"append">>}

\* What a call will do to the tree t.
Plan(c, t, rows) ==
  /\ c.tx.outputs \subseteq DOMAIN c.writes
  /\ Touched(c.tx) \subseteq c.tx.outputs \cup c.gone
  /\ c.gone \cap DOMAIN c.writes = {}
  /\ \A q \in (Paths \cap DOMAIN c.writes) \ Touched(c.tx) : t[q] = c.writes[q]
  /\ \A q \in (Paths \cap c.gone) \ Touched(c.tx) : t[q] = Absent
  /\ c.tx.reverts # 0 => c.writes = rows[c.tx.reverts].prior
  /\ c.todo \in {RewriteTodo, <<"export", "write">>} => c.gone = {}

\* What it commits is of the tree as it is.
Fresh(c, t, rows) == RowTells(c.tx, At(t, Touched(c.tx)), rows)

\* What it has committed is the last row, and what its paths hold meanwhile.
Underway(c, t, rows, uns) ==
  /\ rows # <<>> /\ rows[Len(rows)] = c.tx
  /\ Touched(c.tx) \subseteq uns
  /\ ~PlainRewrite(c.tx) =>
       \A q \in Touched(c.tx) : \/ t[q] = Absent
                                \/ q \in DOMAIN c.tx.prior /\ t[q] = c.tx.prior[q]
                                \/ q \in DOMAIN c.writes /\ t[q] = c.writes[q]
  /\ c.todo = <<"write">> => \A q \in Paths \cap c.gone : t[q] = Absent
  /\ c.todo = <<"remove", "export">> => \A q \in Paths \cap DOMAIN c.writes : t[q] = c.writes[q]

CallTree(c, t, rows, uns) ==
  /\ c.todo \in Committing \cup Committed \cup OffTree
  /\ c.todo \in Committing => Plan(c, t, rows) /\ Fresh(c, t, rows)
  /\ c.todo \in Committed => Plan(c, t, rows) /\ Underway(c, t, rows, uns)

CallsTree == \A p \in Procs : CallTree(call[p], tree, txs, unsure)

IsLast(q, i, rows) ==
  /\ i \in 1..Len(rows) /\ q \in Touched(rows[i])
  /\ \A j \in 1..Len(rows) : q \in Touched(rows[j]) => j <= i

\* What row tx says of path q of the tree t.
Told(q, tx, t, rows) ==
  /\ t[q] # Absent <=> q \in tx.outputs
  /\ tx.reverts # 0 /\ q \in tx.outputs => t[q] = rows[tx.reverts].prior[q]

LastWord(t, rows, uns) ==
  \A q \in Paths \ uns : \A i \in 1..Len(rows) : IsLast(q, i, rows) => Told(q, rows[i], t, rows)

TreeInv == IInv /\ RowsTell /\ ShardsSay /\ CallsTree /\ LastWord(tree, txs, unsure)
-----------------------------------------------------------------------------

\* The lists of steps, one by one.
LEMMA TodoHeads ==
  ASSUME NEW todo \in Committing \cup Committed \cup OffTree
  PROVE  /\ todo # <<>> /\ Head(todo) = "commit" => todo \in Committing
         /\ todo # <<>> /\ Head(todo) = "export" =>
              todo \in {<<"export", "remove", "write">>, <<"export", "write">>, <<"export">>}
         /\ todo # <<>> /\ Head(todo) = "remove" => todo \in {<<"remove", "write">>, <<"remove", "export">>}
         /\ todo # <<>> /\ Head(todo) = "write" => todo \in {<<"write">>, <<"write", "remove", "export">>}
         /\ todo # <<>> /\ Head(todo) = "append" => todo = <<"append">>
BY DEF Committing, Committed, OffTree, OpTodo, RewriteTodo, RevertTodo

LEMMA TodoTails ==
  /\ Tail(OpTodo) = <<"export", "remove", "write">> /\ Len(OpTodo) = 4
  /\ Tail(RewriteTodo) = <<"export", "write">> /\ Len(RewriteTodo) = 3
  /\ Tail(RevertTodo) = <<"write", "remove", "export">> /\ Len(RevertTodo) = 4
  /\ Tail(<<"export", "remove", "write">>) = <<"remove", "write">> /\ Len(<<"export", "remove", "write">>) = 3
  /\ Tail(<<"export", "write">>) = <<"write">> /\ Len(<<"export", "write">>) = 2
  /\ Tail(<<"remove", "write">>) = <<"write">> /\ Len(<<"remove", "write">>) = 2
  /\ Tail(<<"write", "remove", "export">>) = <<"remove", "export">> /\ Len(<<"write", "remove", "export">>) = 3
  /\ Tail(<<"remove", "export">>) = <<"export">> /\ Len(<<"remove", "export">>) = 2
  /\ Len(<<"write">>) = 1 /\ Len(<<"export">>) = 1 /\ Len(<<"append">>) = 1
BY DEF OpTodo, RewriteTodo, RevertTodo

LEMMA TodoRanges ==
  /\ Range(Tail(<<"write">>)) \cap {"write", "remove"} = {}
  /\ Range(Tail(<<"remove", "export">>)) \cap {"write", "remove"} = {}
  /\ Range(Tail(<<"remove", "write">>)) \cap {"write", "remove"} # {}
  /\ Range(Tail(<<"write", "remove", "export">>)) \cap {"write", "remove"} # {}
BY DEF Range

\* A list of steps left, and the call that has it.
LEMMA StepLeft ==
  ASSUME NEW c, NEW n, CallOk(c, n), c.todo # <<>>
  PROVE  /\ Len(c.todo) = 1 => Rest(c) = Idle
         /\ Len(c.todo) # 1 => /\ Rest(c).todo = Tail(c.todo)
                               /\ Rest(c).tx = c.tx
                               /\ Rest(c).writes = c.writes
                               /\ Rest(c).gone = c.gone
<1>1. c = [todo |-> c.todo, tx |-> c.tx, writes |-> c.writes, gone |-> c.gone]
  BY DEF CallOk
<1> DEFINE d == [[todo |-> c.todo, tx |-> c.tx, writes |-> c.writes, gone |-> c.gone] EXCEPT !.todo = Tail(c.todo)]
<1>2. d.todo = Tail(c.todo) /\ d.tx = c.tx /\ d.writes = c.writes /\ d.gone = c.gone
  OBVIOUS
<1>3. Len(c.todo) # 1 => Rest(c) = d
  BY <1>1 DEF Rest
<1> HIDE DEF d
<1> QED
  BY <1>2, <1>3 DEF Rest

\* A call with nothing left to do on the tree says nothing of it.
LEMMA OffTreeOk ==
  ASSUME NEW c, c.todo \in OffTree, NEW t, NEW rows, NEW uns
  PROVE  CallTree(c, t, rows, uns)
<1>1. c.todo \notin Committing /\ c.todo \notin Committed
  BY DEF OffTree, Committing, Committed, OpTodo, RewriteTodo, RevertTodo
<1> QED
  BY <1>1 DEF CallTree

LEMMA IdleTree == \A t, rows, uns : CallTree(Idle, t, rows, uns)
BY OffTreeOk DEF Idle, OffTree

\* With one process, its call is all there is to say of the calls.
LEMMA OnlyCall ==
  ASSUME OneProcess, IInv, NEW p \in Procs, NEW c, call' = [call EXCEPT ![p] = c],
         CallTree(c, tree', txs', unsure')
  PROVE  CallsTree'
<1>1. \A x \in Procs : x = p
  BY DEF OneProcess
<1>2. call'[p] = c
  BY DEF IInv, Calls
<1> QED
  BY <1>1, <1>2 DEF CallsTree

\* A call that has begun knows the tree it read.
LEMMA Starting ==
  ASSUME NEW c, NEW t, NEW rows, NEW uns, c.todo \in Committing,
         Plan(c, t, rows), Fresh(c, t, rows)
  PROVE  CallTree(c, t, rows, uns)
<1>1. c.todo \notin Committed
  BY DEF Committing, Committed, OpTodo, RewriteTodo, RevertTodo
<1> QED
  BY <1>1 DEF CallTree

\* No process is in a call: nothing is said of the tree.
LEMMA NoCalls ==
  ASSUME \A p \in Procs : ~Calling(p), UNCHANGED call
  PROVE  CallsTree'
<1>1. \A p \in Procs : call'[p].todo \in OffTree
  BY DEF Calling, OffTree
<1> QED
  BY <1>1, OffTreeOk DEF CallsTree
-----------------------------------------------------------------------------
\* What is at some paths: those with a file, each with its bytes.
LEMMA AtMeans ==
  ASSUME NEW t \in Tree, NEW S \in SUBSET Paths
  PROVE  /\ \A q : q \in DOMAIN At(t, S) <=> q \in S /\ t[q] # Absent
         /\ \A q \in S : t[q] # Absent => At(t, S)[q] = t[q]
BY DEF At, Present

LEMMA AtSame ==
  ASSUME NEW t \in Tree, NEW S \in SUBSET Paths, NEW U \in SUBSET S,
         \A q \in S : t[q] # Absent => q \in U
  PROVE  At(t, U) = At(t, S)
<1>1. U \cap Present(t) = S \cap Present(t)
  BY DEF Present
<1> QED
  BY <1>1 DEF At

\* A call begins on the tree and the rows as they are.
LEMMA BeginsOnTree ==
  ASSUME OneProcess, TreeInv, IInv', NEW p \in Procs, NEW c, call' = [call EXCEPT ![p] = c],
         UNCHANGED <<tree, txs, shards, was, unsure>>,
         CallTree(c, tree, txs, unsure)
  PROVE  TreeInv'
<1>1. CallsTree'
  <2>1. CallTree(c, tree', txs', unsure') /\ IInv
    BY DEF TreeInv
  <2> QED
    BY <2>1, OnlyCall
<1>2. RowsTell' /\ ShardsSay'
  BY DEF TreeInv, RowsTell, ShardsSay
<1>3. LastWord(tree', txs', unsure')
  BY DEF TreeInv
<1> QED
  BY <1>1, <1>2, <1>3 DEF TreeInv

LEMMA ProposeOnTree ==
  ASSUME OneProcess, TreeInv, IInv', NEW p \in Procs, NEW op \in Ops \ {"rewrite"},
         NEW gone \in SUBSET Paths, NEW new \in Images, NEW ev, Propose(p, op, gone, new, ev)
  PROVE  TreeInv'
<1> DEFINE next == Overlaid(Cleared(tree, gone), new)
           tx == [id |-> <<op, DOMAIN new, ev>>, op |-> op, outputs |-> DOMAIN new,
                  prior |-> PriorOf(gone, new), reverts |-> 0, tier |-> "suggested", day |-> today]
           c == [todo |-> OpTodo, tx |-> tx,
                 writes |-> At(next, Paths), gone |-> Present(tree) \ Present(next)]
<1>1. /\ call' = [call EXCEPT ![p] = c]
      /\ UNCHANGED <<tree, txs, shards, was, unsure>>
  BY DEF Propose, OpTodo, database, history
<1>2. tree \in Tree
  BY DEF TreeInv, IInv, Rows
<1>3. DOMAIN new \in SUBSET Paths /\ \A q \in DOMAIN new : new[q] \in Contents
  BY ImageDomain
<1>4. /\ next \in Tree
      /\ \A q \in Paths : next[q] = IF q \in DOMAIN new THEN new[q]
                                    ELSE IF q \in gone THEN Absent ELSE tree[q]
  BY <1>2, <1>3 DEF Overlaid, Cleared, Tree
<1>5. /\ c.todo = OpTodo /\ c.tx = tx /\ c.writes = At(next, Paths)
      /\ c.gone = Present(tree) \ Present(next)
      /\ tx.outputs = DOMAIN new /\ tx.prior = At(tree, gone \cup DOMAIN new)
      /\ tx.reverts = 0 /\ tx.op = op
  BY DEF PriorOf
<1> HIDE DEF c, tx, next
<1>6. /\ DOMAIN c.writes = {q \in Paths : next[q] # Absent}
      /\ \A q \in Paths : next[q] # Absent => c.writes[q] = next[q]
      /\ c.gone = {q \in Paths : tree[q] # Absent /\ next[q] = Absent}
      /\ DOMAIN tx.prior = {q \in gone \cup DOMAIN new : tree[q] # Absent}
  <2>1. gone \cup DOMAIN new \in SUBSET Paths /\ Paths \in SUBSET Paths
    BY <1>3
  <2>2. DOMAIN tx.prior = {q \in gone \cup DOMAIN new : tree[q] # Absent}
    <3>1. \A q : q \in DOMAIN tx.prior <=> q \in gone \cup DOMAIN new /\ tree[q] # Absent
      BY <1>2, <1>5, <2>1, AtMeans
    <3> QED
      BY <3>1
  <2>3. /\ DOMAIN c.writes = {q \in Paths : next[q] # Absent}
        /\ \A q \in Paths : next[q] # Absent => c.writes[q] = next[q]
    <3>1. /\ \A q : q \in DOMAIN c.writes <=> q \in Paths /\ next[q] # Absent
          /\ \A q \in Paths : next[q] # Absent => c.writes[q] = next[q]
      BY <1>4, <1>5, <2>1, AtMeans
    <3> QED
      BY <3>1
  <2> QED
    BY <1>5, <2>2, <2>3 DEF Present
<1>7. \A q \in DOMAIN new : q \in Paths /\ next[q] = new[q] /\ next[q] # Absent
  BY <1>3, <1>4, ContentsAssumption
<1>8. Touched(tx) = DOMAIN new \cup {q \in gone : tree[q] # Absent}
  BY <1>5, <1>6 DEF Touched
<1>9. Plan(c, tree, txs)
  <2>1. c.tx.outputs \subseteq DOMAIN c.writes
    BY <1>5, <1>6, <1>7
  <2>2. Touched(c.tx) \subseteq c.tx.outputs \cup c.gone
    BY <1>4, <1>5, <1>6, <1>8
  <2>3. c.gone \cap DOMAIN c.writes = {}
    BY <1>6
  <2>4. \A q \in (Paths \cap DOMAIN c.writes) \ Touched(c.tx) : tree[q] = c.writes[q]
    BY <1>4, <1>5, <1>6, <1>8
  <2>5. \A q \in (Paths \cap c.gone) \ Touched(c.tx) : tree[q] = Absent
    BY <1>4, <1>5, <1>6, <1>7, <1>8
  <2>6. c.todo \notin {RewriteTodo, <<"export", "write">>} /\ c.tx.reverts = 0
    BY <1>5 DEF OpTodo, RewriteTodo
  <2> QED
    BY <2>1, <2>2, <2>3, <2>4, <2>5, <2>6 DEF Plan
<1>10. Fresh(c, tree, txs)
  <2>1. gone \cup DOMAIN new \in SUBSET Paths /\ Touched(tx) \in SUBSET (gone \cup DOMAIN new)
    BY <1>3, <1>8
  <2>2. \A q \in gone \cup DOMAIN new : tree[q] # Absent => q \in Touched(tx)
    BY <1>8
  <2>3. At(tree, Touched(tx)) = At(tree, gone \cup DOMAIN new)
    BY <1>2, <2>1, <2>2, AtSame
  <2> QED
    BY <1>5, <2>3 DEF Fresh, RowTells, PlainRewrite
<1>11. CallTree(c, tree, txs, unsure)
  BY <1>5, <1>9, <1>10, Starting DEF Committing
<1> QED
  BY <1>1, <1>11, BeginsOnTree

LEMMA OpsOnTree ==
  ASSUME OneProcess, TreeInv, IInv', NEW p \in Procs, NEW ev,
         Make(p, ev) \/ Rename(p, ev) \/ Combine(p, ev) \/ Split(p, ev)
  PROVE  TreeInv'
<1> USE DEF Ops
<1>1. \A from \in Present(tree) : tree[from] \in Contents /\ {from} \in SUBSET Paths
  BY DEF TreeInv, IInv, Rows, Tree, Present
<1>2. ASSUME NEW to \in Paths, NEW k \in Contents PROVE [r \in {to} |-> k] \in Images
  <2>1. {to} \in SUBSET Paths /\ [r \in {to} |-> k] \in [{to} -> Contents]
    OBVIOUS
  <2> QED
    BY <2>1, ImageOf
<1>3. CASE Make(p, ev)
  BY <1>2, <1>3, ProposeOnTree DEF Make
<1>4. CASE Rename(p, ev)
  BY <1>1, <1>2, <1>4, ProposeOnTree DEF Rename
<1>5. CASE Combine(p, ev)
  <2>1. \A from \in SUBSET Present(tree) : from \in SUBSET Paths
    BY DEF Present
  <2> QED
    BY <1>2, <1>5, <2>1, ProposeOnTree DEF Combine
<1>6. CASE Split(p, ev)
  <2>1. \A parts \in SUBSET Paths : \A new \in [parts -> Contents] : new \in Images
    BY ImageOf
  <2> QED
    BY <1>1, <1>6, <2>1, ProposeOnTree DEF Split
<1> QED
  BY <1>3, <1>4, <1>5, <1>6

LEMMA RewriteOnTree ==
  ASSUME OneProcess, TreeInv, IInv', NEW p \in Procs, NEW k \in Contents, NEW ev, Rewrite(p, k, ev)
  PROVE  TreeInv'
<1> DEFINE tx == [id |-> <<"rewrite", {RewritePath}, ev, k>>, op |-> "rewrite",
                  outputs |-> {RewritePath}, prior |-> [q \in {RewritePath} |-> Faithful],
                  reverts |-> 0, tier |-> "suggested", day |-> today]
           w == [q \in {RewritePath} |-> k]
           c == [todo |-> RewriteTodo, tx |-> tx, writes |-> w, gone |-> {}]
<1>1. /\ call' = [call EXCEPT ![p] = c]
      /\ UNCHANGED <<tree, txs, shards, was, unsure>>
  BY DEF Rewrite, RewriteTodo, database, history
<1>2. /\ c.todo = RewriteTodo /\ c.tx = tx /\ c.writes = w /\ c.gone = {}
      /\ tx.outputs = {RewritePath} /\ tx.prior = [q \in {RewritePath} |-> Faithful]
      /\ tx.reverts = 0 /\ tx.op = "rewrite" /\ DOMAIN w = {RewritePath}
      /\ DOMAIN [q \in {RewritePath} |-> Faithful] = {RewritePath}
  OBVIOUS
<1> HIDE DEF c, tx, w
<1>3. Touched(tx) = {RewritePath}
  BY <1>2 DEF Touched
<1>4. Plan(c, tree, txs)
  BY <1>2, <1>3 DEF Plan
<1>5. Fresh(c, tree, txs)
  BY <1>2 DEF Fresh, RowTells, PlainRewrite
<1>6. CallTree(c, tree, txs, unsure)
  BY <1>2, <1>4, <1>5, Starting DEF Committing
<1> QED
  BY <1>1, <1>6, BeginsOnTree

LEMMA RevertOnTree ==
  ASSUME OneProcess, TreeInv, IInv', NEW p \in Procs, NEW i \in DOMAIN txs, Revert(p, i)
  PROVE  TreeInv'
<1> DEFINE old == txs[i]
           tx == [id |-> <<"revert", i, Len(txs)>>, op |-> old.op,
                  outputs |-> DOMAIN old.prior, prior |-> RevertPrior(old),
                  reverts |-> i, tier |-> "suggested", day |-> today]
           c == [todo |-> RevertTodo, tx |-> tx,
                 writes |-> old.prior, gone |-> RevertGone(old)]
<1>1. /\ call' = [call EXCEPT ![p] = c]
      /\ UNCHANGED <<tree, txs, shards, was, unsure>>
  BY DEF Revert, RevertTodo, database, history
<1>2. /\ tree \in Tree /\ i \in 1..Len(txs) /\ Len(txs) \in Nat /\ old \in Tx
  BY DEF TreeInv, IInv, Rows
<1>3. Touched(old) \in SUBSET Paths /\ DOMAIN old.prior \in SUBSET Paths
  <2>1. old.prior \in Images /\ old.outputs \in SUBSET Paths
    BY <1>2 DEF Tx
  <2> QED
    BY <2>1, ImageDomain DEF Touched
<1>4. /\ c.todo = RevertTodo /\ c.tx = tx /\ c.writes = old.prior
      /\ c.gone = old.outputs \ DOMAIN old.prior
      /\ tx.outputs = DOMAIN old.prior /\ tx.prior = At(tree, Touched(old))
      /\ tx.reverts = i /\ txs[i] = old
  BY DEF RevertPrior, RevertGone
<1> HIDE DEF c, tx, old
<1>5. DOMAIN tx.prior = {q \in Touched(old) : tree[q] # Absent}
  <2>1. \A q : q \in DOMAIN tx.prior <=> q \in Touched(old) /\ tree[q] # Absent
    BY <1>2, <1>3, <1>4, AtMeans
  <2> QED
    BY <2>1
<1>6. Touched(tx) = DOMAIN old.prior \cup {q \in Touched(old) : tree[q] # Absent}
  BY <1>4, <1>5 DEF Touched
<1>7. Touched(old) = DOMAIN old.prior \cup old.outputs
  BY DEF Touched
<1>8. Plan(c, tree, txs)
  <2>1. c.todo \notin {RewriteTodo, <<"export", "write">>}
    BY <1>4 DEF RevertTodo, RewriteTodo
  <2> QED
    BY <1>4, <1>6, <1>7, <2>1 DEF Plan
<1>9. Fresh(c, tree, txs)
  <2>1. Touched(tx) \subseteq Touched(old) /\ Touched(tx) \in SUBSET Paths
    BY <1>3, <1>6, <1>7
  <2>2. \A q \in Touched(old) : tree[q] # Absent => q \in Touched(tx)
    BY <1>6
  <2>3. At(tree, Touched(tx)) = At(tree, Touched(old))
    BY <1>2, <1>3, <2>1, <2>2, AtSame
  <2> QED
    BY <1>2, <1>4, <2>1, <2>3 DEF Fresh, RowTells, PlainRewrite
<1>10. CallTree(c, tree, txs, unsure)
  BY <1>4, <1>8, <1>9, Starting DEF Committing
<1> QED
  BY <1>1, <1>10, BeginsOnTree
-----------------------------------------------------------------------------
\* Rows that say the same tell the same.
LEMMA TellsKept ==
  ASSUME NEW x, NEW y, NEW held, NEW rows, NEW rows2, RowTells(x, held, rows), SameText(y, x),
         x.reverts # 0 => SameText(rows2[x.reverts], rows[x.reverts])
  PROVE  RowTells(y, held, rows2)
BY DEF RowTells, SameText, PlainRewrite, Touched

\* The log's last word on a path stays it: the two tables agree on their first
\* m rows, and the paths of the others are unsure.
LEMMA WordKept ==
  ASSUME NEW t, NEW rows, NEW rows2, NEW uns, NEW uns2, LastWord(t, rows, uns), uns \subseteq uns2,
         Len(rows) \in Nat, Len(rows2) \in Nat,
         NEW m \in Nat, m <= Len(rows), m <= Len(rows2),
         \A i \in 1..m : SameText(rows2[i], rows[i]),
         \A i \in 1..m : rows[i].reverts \in 0..(i - 1),
         \A i \in (m + 1)..Len(rows) : Touched(rows[i]) \subseteq uns2,
         \A i \in (m + 1)..Len(rows2) : Touched(rows2[i]) \subseteq uns2
  PROVE  LastWord(t, rows2, uns2)
<1> SUFFICES ASSUME NEW q \in Paths \ uns2, NEW i \in 1..Len(rows2), IsLast(q, i, rows2)
             PROVE  Told(q, rows2[i], t, rows2)
  BY DEF LastWord
<1>1. i \in 1..m
  <2>1. i \notin (m + 1)..Len(rows2)
    BY DEF IsLast
  <2> QED
    BY <2>1
<1>2. \A j \in 1..m : Touched(rows2[j]) = Touched(rows[j])
  BY DEF SameText, Touched
<1>3. \A j \in 1..Len(rows) : q \in Touched(rows[j]) => j \in 1..m
  <2>1. \A j \in (m + 1)..Len(rows) : q \notin Touched(rows[j])
    OBVIOUS
  <2> QED
    BY <2>1
<1>4. IsLast(q, i, rows)
  <2>1. i \in 1..Len(rows) /\ q \in Touched(rows[i])
    BY <1>1, <1>2 DEF IsLast
  <2>2. ASSUME NEW j \in 1..Len(rows), q \in Touched(rows[j]) PROVE j <= i
    <3>1. j \in 1..m
      BY <1>3, <2>2
    <3>2. j \in 1..Len(rows2) /\ q \in Touched(rows2[j])
      BY <1>2, <2>2, <3>1
    <3> QED
      BY <3>2 DEF IsLast
  <2> QED
    BY <2>1, <2>2 DEF IsLast
<1>5. Told(q, rows[i], t, rows)
  BY <1>4 DEF LastWord, IsLast
<1>6. SameText(rows2[i], rows[i]) /\ rows[i].reverts \in 0..(i - 1)
  BY <1>1
<1>7. rows[i].reverts # 0 => SameText(rows2[rows[i].reverts], rows[rows[i].reverts])
  BY <1>1, <1>6
<1> QED
  BY <1>5, <1>6, <1>7 DEF Told, SameText

\* The tables' texts, as IInv and the lag of the shards give them.
LEMMA Texts ==
  ASSUME TreeInv
  PROVE  /\ txs \in Seq(Tx) /\ Len(txs) \in Nat /\ Len(was) = Len(txs) /\ was \in Seq(Images)
         /\ shards \in Seq(Tx) /\ Len(shards) \in Nat /\ Len(shards) <= Len(txs)
         /\ tree \in Tree /\ DOMAIN txs = 1..Len(txs)
         /\ \A i \in 1..Len(txs) : txs[i] \in Tx /\ txs[i].reverts \in 0..(i - 1)
         /\ \A i \in 1..Len(shards) : SameText(shards[i], txs[i])
<1>1. txs \in Seq(Tx) /\ shards \in Seq(Tx) /\ was \in Seq(Images) /\ Len(was) = Len(txs) /\ tree \in Tree
  BY DEF TreeInv, IInv, Rows
<1>2. Len(shards) <= Len(txs) /\ \A i \in 1..Len(txs) : txs[i].reverts \in 0..(i - 1)
  BY DEF TreeInv, IInv, ShardsLag, RevertsEarlier
<1>3. \A i \in 1..Len(shards) : SameText(shards[i], txs[i])
  BY DEF TreeInv, ShardsSay
<1>4. \A i \in 1..Len(txs) : txs[i] \in Tx
  BY <1>1
<1> QED
  BY <1>1, <1>2, <1>3, <1>4

\* A row touches files of the tree.
LEMMA TouchedIsPaths ==
  ASSUME NEW tx \in Tx
  PROVE  Touched(tx) \in SUBSET Paths /\ tx.outputs \in SUBSET Paths
<1>1. tx.prior \in Images /\ tx.outputs \in SUBSET Paths
  BY DEF Tx
<1> QED
  BY <1>1, ImageDomain DEF Touched

LEMMA CommitOnTree ==
  ASSUME OneProcess, TreeInv, IInv', NEW p \in Procs, Commit(p)
  PROVE  TreeInv'
<1> PICK c : c = call[p]
  OBVIOUS
<1> PICK tx : tx = c.tx
  OBVIOUS
<1> PICK d : d = Rest(c)
  OBVIOUS
<1> PICK n \in Nat : n = Len(txs)
  BY Texts
<1>1. /\ c.todo # <<>> /\ Head(c.todo) = "commit"
      /\ txs' = Append(txs, tx)
      /\ was' = Append(was, At(tree, Touched(tx)))
      /\ unsure' = unsure \cup Touched(tx)
      /\ call' = [call EXCEPT ![p] = d]
      /\ UNCHANGED <<tree, shards>>
  BY DEF Commit, Doing, Calling, Proceed
<1>2. CallOk(c, n) /\ CallTree(c, tree, txs, unsure)
  BY DEF TreeInv, IInv, Calls, CallsTree
<1>3. c.todo \in Committing
  <2>1. c.todo \in Committing \cup Committed \cup OffTree
    BY <1>2 DEF CallTree
  <2> QED
    BY <1>1, <2>1, TodoHeads
<1>4. Plan(c, tree, txs) /\ Fresh(c, tree, txs)
  BY <1>2, <1>3 DEF CallTree
<1>5. /\ d.todo = Tail(c.todo) /\ d.tx = tx /\ d.writes = c.writes /\ d.gone = c.gone
      /\ d.todo \in {<<"export", "remove", "write">>, <<"export", "write">>, <<"write", "remove", "export">>}
      /\ d.todo = <<"export", "write">> => c.todo = RewriteTodo
  <2>1. Len(c.todo) # 1 /\ Tail(c.todo) \in
          {<<"export", "remove", "write">>, <<"export", "write">>, <<"write", "remove", "export">>}
    BY <1>3, TodoTails DEF Committing
  <2>2. d.todo = Tail(c.todo) /\ d.tx = tx /\ d.writes = c.writes /\ d.gone = c.gone
    BY <1>1, <1>2, <2>1, StepLeft
  <2>3. Tail(c.todo) = <<"export", "write">> => c.todo = RewriteTodo
    BY <1>3, TodoTails DEF Committing
  <2> QED
    BY <2>1, <2>2, <2>3
<1>6. tx \in Tx /\ tx.reverts \in 0..n
  <2>1. c.todo # <<>> /\ c.todo[1] = "commit"
    BY <1>1
  <2> QED
    BY <1>2, <2>1 DEF CallOk
<1>7. /\ Len(txs') = n + 1 /\ txs'[n + 1] = tx /\ \A i \in 1..n : txs'[i] = txs[i]
      /\ was'[n + 1] = At(tree, Touched(tx)) /\ \A i \in 1..n : was'[i] = was[i]
      /\ txs' \in Seq(Tx)
  <2>1. tree \in Tree /\ Touched(tx) \in SUBSET Paths
    BY <1>6, TouchedIsPaths, Texts
  <2>2. At(tree, Touched(tx)) \in Images
    BY <2>1, AtIsImage
  <2>3. txs \in Seq(Tx) /\ was \in Seq(Images) /\ Len(was) = n
    BY Texts
  <2> QED
    BY <1>1, <1>6, <2>2, <2>3, AppendProperties
<1>8. tx.reverts # 0 => txs'[tx.reverts] = txs[tx.reverts]
  BY <1>6, <1>7
<1>9. Plan(d, tree, txs')
  <2>1. d.todo \in {RewriteTodo, <<"export", "write">>} => c.todo = RewriteTodo
    BY <1>5 DEF RewriteTodo
  <2> QED
    BY <1>4, <1>5, <1>8, <2>1 DEF Plan
<1>10. RowTells(tx, At(tree, Touched(tx)), txs')
  BY <1>4, <1>8, TellsKept DEF Fresh, SameText
<1>11. Underway(d, tree, txs', unsure')
  <2>1. txs' # <<>> /\ txs'[Len(txs')] = d.tx /\ Touched(d.tx) \subseteq unsure'
    BY <1>1, <1>5, <1>7
  <2>2. ASSUME ~PlainRewrite(tx), NEW q \in Touched(tx), tree[q] # Absent
        PROVE  q \in DOMAIN tx.prior /\ tree[q] = tx.prior[q]
    <3>1. At(tree, Touched(tx)) = tx.prior
      BY <1>10, <2>2 DEF RowTells
    <3>2. tree \in Tree /\ Touched(tx) \in SUBSET Paths
      BY <1>6, TouchedIsPaths, Texts
    <3> QED
      BY <2>2, <3>1, <3>2, AtMeans
  <2>3. d.todo # <<"write">> /\ d.todo # <<"remove", "export">>
    BY <1>5
  <2> QED
    BY <1>5, <2>1, <2>2, <2>3 DEF Underway
<1>12. CallTree(d, tree', txs', unsure')
  <2>1. d.todo \in Committed /\ d.todo \notin Committing
    BY <1>5 DEF Committed, Committing, OpTodo, RewriteTodo, RevertTodo
  <2> QED
    BY <1>1, <1>9, <1>11, <2>1 DEF CallTree
<1>13. CallsTree'
  BY <1>1, <1>12, OnlyCall DEF TreeInv
<1>14. RowsTell'
  <2>1. ASSUME NEW i \in 1..n PROVE RowTells(txs'[i], was'[i], txs')
    <3>1. RowTells(txs[i], was[i], txs) /\ txs[i].reverts \in 0..(i - 1)
      BY Texts DEF TreeInv, RowsTell
    <3>2. txs[i].reverts # 0 => txs'[txs[i].reverts] = txs[txs[i].reverts]
      BY <1>7, <3>1
    <3>3. RowTells(txs[i], was[i], txs')
      BY <3>1, <3>2, TellsKept DEF SameText
    <3> QED
      BY <1>7, <3>3
  <2>2. RowTells(txs'[n + 1], was'[n + 1], txs')
    BY <1>7, <1>10
  <2>3. \A i \in 1..Len(txs') : i \in 1..n \/ i = n + 1
    BY <1>7
  <2> QED
    BY <2>1, <2>2, <2>3 DEF RowsTell
<1>15. ShardsSay'
  BY <1>1, <1>7, Texts DEF ShardsSay
<1>16. LastWord(tree', txs', unsure')
  <2>1. \A i \in 1..n : SameText(txs'[i], txs[i])
    BY <1>7 DEF SameText
  <2>2. \A i \in (n + 1)..Len(txs') : Touched(txs'[i]) \subseteq unsure'
    BY <1>1, <1>7
  <2>3. LastWord(tree, txs, unsure) /\ unsure \subseteq unsure' /\ Len(txs') \in Nat /\ n <= Len(txs')
    BY <1>1, <1>7 DEF TreeInv
  <2>4. \A i \in 1..n : txs[i].reverts \in 0..(i - 1)
    BY Texts
  <2>5. LastWord(tree, txs', unsure')
    BY <2>1, <2>2, <2>3, <2>4, WordKept
  <2> QED
    BY <1>1, <2>5
<1> QED
  BY <1>13, <1>14, <1>15, <1>16 DEF TreeInv
-----------------------------------------------------------------------------
\* Once the tree is what a call planned, its row tells what is at its paths.
LEMMA PlanDone ==
  ASSUME NEW c, NEW t, NEW t2, NEW rows, NEW held, Plan(c, t, rows), RowTells(c.tx, held, rows),
         c.tx \in Tx, \A q \in Paths \cap DOMAIN c.writes : c.writes[q] \in Contents,
         \A q \in Paths \cap DOMAIN c.writes : t2[q] = c.writes[q],
         \A q \in Paths \cap c.gone : t2[q] = Absent
  PROVE  \A q \in Touched(c.tx) : Told(q, c.tx, t2, rows)
<1> SUFFICES ASSUME NEW q \in Touched(c.tx) PROVE Told(q, c.tx, t2, rows)
  OBVIOUS
<1>1. q \in Paths /\ q \in c.tx.outputs \cup c.gone
  BY TouchedIsPaths DEF Plan
<1>2. CASE q \in c.tx.outputs
  <2>1. q \in DOMAIN c.writes /\ t2[q] = c.writes[q] /\ t2[q] # Absent
    BY <1>1, <1>2, ContentsAssumption DEF Plan
  <2> QED
    BY <1>2, <2>1 DEF Plan, Told
<1>3. CASE q \notin c.tx.outputs
  BY <1>1, <1>3 DEF Told
<1> QED
  BY <1>2, <1>3

\* A step on the tree touches its call's paths only.
LEMMA WordWritten ==
  ASSUME NEW tx, NEW t, NEW t2, NEW rows, NEW uns, NEW uns2, LastWord(t, rows, uns),
         Len(rows) \in Nat \ {0}, rows[Len(rows)] = tx, Touched(tx) \subseteq uns,
         \A q \in Paths \ Touched(tx) : t2[q] = t[q],
         \/ uns2 = uns
         \/ uns2 = uns \ Touched(tx) /\ \A q \in Touched(tx) : Told(q, tx, t2, rows)
  PROVE  LastWord(t2, rows, uns2)
<1> SUFFICES ASSUME NEW q \in Paths \ uns2, NEW i \in 1..Len(rows), IsLast(q, i, rows)
             PROVE  Told(q, rows[i], t2, rows)
  BY DEF LastWord
<1>1. CASE q \in Touched(tx)
  <2>1. Len(rows) <= i
    BY <1>1 DEF IsLast
  <2>2. i = Len(rows)
    BY <2>1
  <2> QED
    BY <1>1, <2>2
<1>2. CASE q \notin Touched(tx)
  <2>1. Told(q, rows[i], t, rows) /\ t2[q] = t[q]
    BY <1>2 DEF LastWord
  <2> QED
    BY <2>1 DEF Told
<1> QED
  BY <1>1, <1>2

\* What is left of a call once a step on the tree is taken.
LEMMA PlanGoesOn ==
  ASSUME NEW c, NEW d, Plan(c, tree, txs), Underway(c, tree, txs, unsure),
         d.tx = c.tx, d.writes = c.writes, d.gone = c.gone,
         c.tx \in Tx,
         \A q \in Paths : \/ tree'[q] = tree[q]
                          \/ q \in DOMAIN c.writes /\ tree'[q] = c.writes[q]
                          \/ q \in c.gone /\ tree'[q] = Absent,
         \A q \in Paths \ Touched(c.tx) : tree'[q] = tree[q],
         \/ d.todo = <<"write">> /\ \A q \in Paths \cap c.gone : tree'[q] = Absent
         \/ d.todo = <<"remove", "export">> /\ \A q \in Paths \cap DOMAIN c.writes : tree'[q] = c.writes[q]
  PROVE  CallTree(d, tree', txs, unsure)
<1>0. d.todo \in {<<"write">>, <<"remove", "export">>} /\ <<"write">> # <<"remove", "export">>
  OBVIOUS
<1>1. Plan(d, tree', txs)
  <2>1. d.todo \notin {RewriteTodo, <<"export", "write">>}
    BY <1>0 DEF RewriteTodo
  <2> QED
    BY <2>1 DEF Plan
<1>2. Underway(d, tree', txs, unsure)
  <2>1. Touched(c.tx) \subseteq Paths
    BY TouchedIsPaths
  <2> QED
    BY <1>0, <2>1 DEF Underway
<1>3. d.todo \in Committed /\ d.todo \notin Committing
  BY <1>0 DEF Committed, Committing, OpTodo, RewriteTodo, RevertTodo
<1> QED
  BY <1>1, <1>2, <1>3 DEF CallTree

\* A call that has committed: what it is to do, and its row.
LEMMA HasCommitted ==
  ASSUME TreeInv, NEW p \in Procs, NEW c, c = call[p], c.todo \in Committed
  PROVE  /\ Plan(c, tree, txs) /\ Underway(c, tree, txs, unsure) /\ CallOk(c, Len(txs))
         /\ Len(txs) \in Nat \ {0} /\ txs[Len(txs)] = c.tx /\ c.tx \in Tx
         /\ Touched(c.tx) \in SUBSET Paths /\ Touched(c.tx) \subseteq unsure
         /\ RowTells(c.tx, was[Len(txs)], txs)
<1>1. CallOk(c, Len(txs)) /\ CallTree(c, tree, txs, unsure)
  BY DEF TreeInv, IInv, Calls, CallsTree
<1>2. Plan(c, tree, txs) /\ Underway(c, tree, txs, unsure)
  BY <1>1 DEF CallTree
<1>3. txs # <<>> /\ txs[Len(txs)] = c.tx /\ Touched(c.tx) \subseteq unsure
  BY <1>2 DEF Underway
<1>4. Len(txs) \in Nat \ {0}
  BY <1>3, Texts
<1>5. txs[Len(txs)] \in Tx /\ RowTells(txs[Len(txs)], was[Len(txs)], txs)
  BY <1>4, Texts DEF TreeInv, RowsTell
<1> QED
  BY <1>1, <1>2, <1>3, <1>4, <1>5, TouchedIsPaths

\* A step of a call on the tree, given what is left of it.
LEMMA TreeStepKeeps ==
  ASSUME OneProcess, TreeInv, IInv', NEW p \in Procs, NEW c, c = call[p], c.todo \in Committed,
         NEW d, call' = [call EXCEPT ![p] = d], CallTree(d, tree', txs', unsure'),
         UNCHANGED <<txs, was, shards>>,
         \A q \in Paths \ Touched(c.tx) : tree'[q] = tree[q],
         \/ unsure' = unsure
         \/ /\ unsure' = unsure \ Touched(c.tx)
            /\ \A q \in Paths \cap DOMAIN c.writes : tree'[q] = c.writes[q]
            /\ \A q \in Paths \cap c.gone : tree'[q] = Absent
  PROVE  TreeInv'
<1>1. CallsTree'
  BY OnlyCall DEF TreeInv
<1>2. RowsTell' /\ ShardsSay'
  BY DEF TreeInv, RowsTell, ShardsSay
<1>3. LastWord(tree', txs, unsure')
  <2>1. LastWord(tree, txs, unsure)
    BY DEF TreeInv
  <2>2. CASE unsure' = unsure
    BY <2>1, <2>2, HasCommitted, WordWritten
  <2>3. CASE unsure' # unsure
    <3>1. \A q \in Paths \cap DOMAIN c.writes : c.writes[q] \in Contents
      BY HasCommitted DEF CallOk
    <3>2. \A q \in Touched(c.tx) : Told(q, c.tx, tree', txs)
      BY <2>3, <3>1, HasCommitted, PlanDone
    <3> QED
      BY <2>1, <2>3, <3>2, HasCommitted, WordWritten
  <2> QED
    BY <2>2, <2>3
<1> QED
  BY <1>1, <1>2, <1>3 DEF TreeInv

LEMMA WriteOnTree ==
  ASSUME OneProcess, TreeInv, IInv', NEW p \in Procs, WriteFiles(p)
  PROVE  TreeInv'
<1> PICK c : c = call[p]
  OBVIOUS
<1> PICK d : d = Rest(c)
  OBVIOUS
<1>1. /\ c.todo # <<>> /\ Head(c.todo) = "write"
      /\ tree' = Overlaid(tree, c.writes)
      /\ unsure' = Settled(p)
      /\ call' = [call EXCEPT ![p] = d]
      /\ UNCHANGED <<txs, was, shards>>
  BY DEF WriteFiles, Doing, Calling, Proceed, database
<1>2. c.todo \in {<<"write">>, <<"write", "remove", "export">>} /\ c.todo \in Committed
  <2>1. c.todo \in Committing \cup Committed \cup OffTree
    BY DEF TreeInv, CallsTree, CallTree
  <2>2. c.todo \in {<<"write">>, <<"write", "remove", "export">>}
    BY <1>1, <2>1, TodoHeads
  <2> QED
    BY <2>2 DEF Committed
<1>3. /\ Plan(c, tree, txs) /\ Underway(c, tree, txs, unsure) /\ CallOk(c, Len(txs)) /\ c.tx \in Tx
  BY <1>2, HasCommitted
<1>4. \A q \in Paths : tree'[q] = IF q \in DOMAIN c.writes THEN c.writes[q] ELSE tree[q]
  BY <1>1 DEF Overlaid
<1>5. \A q \in Paths \ Touched(c.tx) : tree'[q] = tree[q]
  BY <1>3, <1>4 DEF Plan
<1>6. \A q \in Paths \cap DOMAIN c.writes : tree'[q] = c.writes[q]
  BY <1>4
<1>7. CASE c.todo = <<"write">>
  <2>1. unsure' = unsure \ Touched(c.tx)
    <3>1. Range(Tail(call[p].todo)) \cap {"write", "remove"} = {}
      BY <1>7, TodoRanges
    <3> QED
      BY <1>1, <3>1 DEF Settled
  <2>2. \A q \in Paths \cap c.gone : tree'[q] = Absent
    BY <1>3, <1>4, <1>7 DEF Plan, Underway
  <2>3. d = Idle
    BY <1>1, <1>3, <1>7, StepLeft, TodoTails
  <2>4. CallTree(d, tree', txs', unsure')
    BY <2>3, IdleTree
  <2> QED
    BY <1>1, <1>2, <1>5, <1>6, <2>1, <2>2, <2>4, TreeStepKeeps
<1>8. CASE c.todo = <<"write", "remove", "export">>
  <2>1. unsure' = unsure
    <3>1. Range(Tail(call[p].todo)) \cap {"write", "remove"} # {}
      BY <1>8, TodoRanges
    <3> QED
      BY <1>1, <3>1 DEF Settled
  <2>2. d.todo = <<"remove", "export">> /\ d.tx = c.tx /\ d.writes = c.writes /\ d.gone = c.gone
    <3>1. Len(c.todo) # 1 /\ Tail(c.todo) = <<"remove", "export">>
      BY <1>8, TodoTails
    <3> QED
      BY <1>1, <1>3, <3>1, StepLeft
  <2>4. CallTree(d, tree', txs, unsure)
    BY <1>3, <1>4, <1>5, <1>6, <2>2, PlanGoesOn
  <2> QED
    BY <1>1, <1>2, <1>5, <2>1, <2>4, TreeStepKeeps
<1> QED
  BY <1>2, <1>7, <1>8

LEMMA RemoveOnTree ==
  ASSUME OneProcess, TreeInv, IInv', NEW p \in Procs, RemoveFiles(p)
  PROVE  TreeInv'
<1> PICK c : c = call[p]
  OBVIOUS
<1> PICK d : d = Rest(c)
  OBVIOUS
<1>1. /\ c.todo # <<>> /\ Head(c.todo) = "remove"
      /\ tree' = Cleared(tree, c.gone)
      /\ unsure' = Settled(p)
      /\ call' = [call EXCEPT ![p] = d]
      /\ UNCHANGED <<txs, was, shards>>
  BY DEF RemoveFiles, Doing, Calling, Proceed, database
<1>2. c.todo \in {<<"remove", "write">>, <<"remove", "export">>} /\ c.todo \in Committed
  <2>1. c.todo \in Committing \cup Committed \cup OffTree
    BY DEF TreeInv, CallsTree, CallTree
  <2>2. c.todo \in {<<"remove", "write">>, <<"remove", "export">>}
    BY <1>1, <2>1, TodoHeads
  <2> QED
    BY <2>2 DEF Committed
<1>3. /\ Plan(c, tree, txs) /\ Underway(c, tree, txs, unsure) /\ CallOk(c, Len(txs)) /\ c.tx \in Tx
  BY <1>2, HasCommitted
<1>4. \A q \in Paths : tree'[q] = IF q \in c.gone THEN Absent ELSE tree[q]
  BY <1>1 DEF Cleared
<1>5. \A q \in Paths \ Touched(c.tx) : tree'[q] = tree[q]
  BY <1>3, <1>4 DEF Plan
<1>6. \A q \in Paths \cap c.gone : tree'[q] = Absent
  BY <1>4
<1>7. CASE c.todo = <<"remove", "export">>
  <2>1. unsure' = unsure \ Touched(c.tx)
    <3>1. Range(Tail(call[p].todo)) \cap {"write", "remove"} = {}
      BY <1>7, TodoRanges
    <3> QED
      BY <1>1, <3>1 DEF Settled
  <2>2. \A q \in Paths \cap DOMAIN c.writes : tree'[q] = c.writes[q]
    BY <1>3, <1>4, <1>7 DEF Plan, Underway
  <2>3. d.todo = <<"export">>
    <3>1. Len(c.todo) # 1 /\ Tail(c.todo) = <<"export">>
      BY <1>7, TodoTails
    <3> QED
      BY <1>1, <1>3, <3>1, StepLeft
  <2>4. CallTree(d, tree', txs', unsure')
    <3>1. d.todo \in OffTree
      BY <2>3 DEF OffTree
    <3> QED
      BY <3>1, OffTreeOk
  <2> QED
    BY <1>1, <1>2, <1>5, <1>6, <2>1, <2>2, <2>4, TreeStepKeeps
<1>8. CASE c.todo = <<"remove", "write">>
  <2>1. unsure' = unsure
    <3>1. Range(Tail(call[p].todo)) \cap {"write", "remove"} # {}
      BY <1>8, TodoRanges
    <3> QED
      BY <1>1, <3>1 DEF Settled
  <2>2. d.todo = <<"write">> /\ d.tx = c.tx /\ d.writes = c.writes /\ d.gone = c.gone
    <3>1. Len(c.todo) # 1 /\ Tail(c.todo) = <<"write">>
      BY <1>8, TodoTails
    <3> QED
      BY <1>1, <1>3, <3>1, StepLeft
  <2>4. CallTree(d, tree', txs, unsure)
    BY <1>3, <1>4, <1>5, <1>6, <2>2, PlanGoesOn
  <2> QED
    BY <1>1, <1>2, <1>5, <2>1, <2>4, TreeStepKeeps
<1> QED
  BY <1>2, <1>7, <1>8

\* A step that leaves the tree and the table as they are.
LEMMA AsideKeeps ==
  ASSUME OneProcess, TreeInv, IInv', NEW p \in Procs, NEW d, call' = [call EXCEPT ![p] = d],
         CallTree(d, tree, txs, unsure), PartShards(shards'),
         UNCHANGED <<tree, txs, was, unsure>>
  PROVE  TreeInv'
<1>1. CallsTree'
  <2>1. CallTree(d, tree', txs', unsure') /\ IInv
    BY DEF TreeInv
  <2> QED
    BY <2>1, OnlyCall
<1>2. RowsTell'
  BY DEF TreeInv, RowsTell
<1>3. ShardsSay'
  BY DEF TreeInv, ShardsSay, SameText, PartShards
<1>4. LastWord(tree', txs', unsure')
  BY DEF TreeInv
<1> QED
  BY <1>1, <1>2, <1>3, <1>4 DEF TreeInv

LEMMA AsidesAre ==
  ASSUME IInv, shards' \in {shards, txs}
  PROVE  PartShards(shards')
BY DEF IInv, Rows, ShardsLag, PartShards

LEMMA ExportOnTree ==
  ASSUME OneProcess, TreeInv, IInv', NEW p \in Procs, Export(p)
  PROVE  TreeInv'
<1> PICK c : c = call[p]
  OBVIOUS
<1> PICK d : d = Rest(c)
  OBVIOUS
<1>1. /\ c.todo # <<>> /\ Head(c.todo) = "export"
      /\ shards' = txs
      /\ call' = [call EXCEPT ![p] = d]
      /\ UNCHANGED <<tree, txs, was, unsure>>
  BY DEF Export, Doing, Calling, Proceed, database, history
<1>2. CallOk(c, Len(txs)) /\ CallTree(c, tree, txs, unsure)
  BY DEF TreeInv, IInv, Calls, CallsTree
<1>3. c.todo \in {<<"export", "remove", "write">>, <<"export", "write">>, <<"export">>}
  <2>1. c.todo \in Committing \cup Committed \cup OffTree
    BY <1>2 DEF CallTree
  <2> QED
    BY <1>1, <2>1, TodoHeads
<1>4. CASE c.todo = <<"export">>
  <2>1. d = Idle
    BY <1>1, <1>2, <1>4, StepLeft, TodoTails
  <2>2. CallTree(d, tree, txs, unsure)
    BY <2>1, IdleTree
  <2> QED
    BY <1>1, <2>2, AsidesAre, AsideKeeps DEF TreeInv
<1>5. CASE c.todo # <<"export">>
  <2>1. c.todo \in Committed
    BY <1>3, <1>5 DEF Committed
  <2>2. Plan(c, tree, txs) /\ Underway(c, tree, txs, unsure)
    BY <2>1, HasCommitted
  <2>3. Len(c.todo) # 1 /\ Tail(c.todo) \in {<<"remove", "write">>, <<"write">>}
    <3>1. CASE c.todo = <<"export", "remove", "write">>
      BY <3>1, TodoTails
    <3>2. CASE c.todo = <<"export", "write">>
      BY <3>2, TodoTails
    <3> QED
      BY <1>3, <1>5, <3>1, <3>2
  <2>4. d.todo = Tail(c.todo) /\ d.tx = c.tx /\ d.writes = c.writes /\ d.gone = c.gone
    BY <1>1, <1>2, <2>3, StepLeft
  <2>5. Tail(c.todo) = <<"write">> => c.gone = {}
    <3>1. Tail(c.todo) = <<"write">> => c.todo = <<"export", "write">>
      BY <1>3, <1>5, TodoTails
    <3> QED
      BY <2>2, <3>1 DEF Plan
  <2>6. Plan(d, tree, txs)
    <3>1. d.todo \notin {RewriteTodo, <<"export", "write">>}
      BY <2>3, <2>4 DEF RewriteTodo
    <3> QED
      BY <2>2, <2>4, <3>1 DEF Plan
  <2>7. Underway(d, tree, txs, unsure)
    <3>1. d.todo # <<"remove", "export">>
      BY <2>3, <2>4
    <3> QED
      BY <2>2, <2>4, <2>5, <3>1 DEF Underway
  <2>8. d.todo \in Committed /\ d.todo \notin Committing
    BY <2>3, <2>4 DEF Committed, Committing, OpTodo, RewriteTodo, RevertTodo
  <2>9. CallTree(d, tree, txs, unsure)
    BY <2>6, <2>7, <2>8 DEF CallTree
  <2> QED
    BY <1>1, <2>9, AsidesAre, AsideKeeps DEF TreeInv
<1> QED
  BY <1>4, <1>5

LEMMA AppendOnTree ==
  ASSUME OneProcess, TreeInv, IInv', NEW p \in Procs, AppendEntry(p)
  PROVE  TreeInv'
<1> PICK c : c = call[p]
  OBVIOUS
<1> PICK d : d = Rest(c)
  OBVIOUS
<1>1. /\ c.todo # <<>> /\ Head(c.todo) = "append"
      /\ call' = [call EXCEPT ![p] = d]
      /\ UNCHANGED <<tree, txs, was, unsure, shards>>
  BY DEF AppendEntry, Doing, Calling, Proceed, database, history
<1>2. CallOk(c, Len(txs)) /\ CallTree(c, tree, txs, unsure)
  BY DEF TreeInv, IInv, Calls, CallsTree
<1>3. c.todo = <<"append">>
  <2>1. c.todo \in Committing \cup Committed \cup OffTree
    BY <1>2 DEF CallTree
  <2> QED
    BY <1>1, <2>1, TodoHeads
<1>4. d = Idle
  BY <1>1, <1>2, <1>3, StepLeft, TodoTails
<1>5. CallTree(d, tree, txs, unsure)
  BY <1>4, IdleTree
<1> QED
  BY <1>1, <1>5, AsidesAre, AsideKeeps DEF TreeInv

\* A call that ends without a word leaves its paths unsure, if it committed.
LEMMA EndOnTree ==
  ASSUME OneProcess, TreeInv, IInv', NEW p \in Procs,
         Reject(p) \/ Refuse(p) \/ Crash(p) \/ DieExporting(p)
  PROVE  TreeInv'
<1>1. call' = [call EXCEPT ![p] = Idle] /\ UNCHANGED <<tree, txs, was, unsure>>
  BY DEF Reject, Refuse, Crash, DieExporting, database, history
<1>2. CallTree(Idle, tree, txs, unsure)
  BY IdleTree
<1>3. PartShards(shards')
  <2>1. CASE Reject(p) \/ Refuse(p) \/ Crash(p)
    BY <2>1, AsidesAre DEF Reject, Refuse, Crash, TreeInv
  <2>2. CASE DieExporting(p)
    BY <2>2, DieExportingIs DEF TreeInv
  <2> QED
    BY <2>1, <2>2
<1> QED
  BY <1>1, <1>2, <1>3, AsideKeeps

LEMMA AnnotateOnTree ==
  ASSUME OneProcess, TreeInv, IInv', NEW p \in Procs, Annotate(p)
  PROVE  TreeInv'
<1> PICK c : c = OneStep("append", Len(annots'))
  OBVIOUS
<1>1. /\ call' = [call EXCEPT ![p] = c]
      /\ UNCHANGED <<tree, txs, was, unsure, shards>>
  BY DEF Annotate, history
<1>2. c.todo \in OffTree
  BY DEF OneStep, OffTree
<1>3. CallTree(c, tree, txs, unsure)
  BY <1>2, OffTreeOk
<1> QED
  BY <1>1, <1>3, AsidesAre, AsideKeeps DEF TreeInv

LEMMA PromoteOnTree ==
  ASSUME OneProcess, TreeInv, IInv', NEW p \in Procs, NEW i \in DOMAIN txs, Promote(p, i)
  PROVE  TreeInv'
<1> PICK c : c = OneStep("export", <<>>)
  OBVIOUS
<1> PICK row : row = [txs[i] EXCEPT !.tier = "confirmed"]
  OBVIOUS
<1> PICK n \in Nat : n = Len(txs)
  BY Texts
<1>1. /\ txs' = [txs EXCEPT ![i] = row]
      /\ call' = [call EXCEPT ![p] = c]
      /\ UNCHANGED <<tree, was, unsure, shards>>
  BY DEF Promote, history
<1>2. txs \in Seq(Tx) /\ i \in 1..n /\ txs[i] \in Tx
  BY Texts
<1>3. SameText(row, txs[i]) /\ row \in Tx
  BY <1>2 DEF SameText, Tx
<1>4. Len(txs') = n /\ \A j \in 1..n : txs'[j] = IF j = i THEN row ELSE txs[j]
  BY <1>1, <1>2, <1>3, ExceptSeq
<1>5. \A j \in 1..n : SameText(txs'[j], txs[j])
  BY <1>3, <1>4 DEF SameText
<1>6. CallsTree'
  <2>1. c.todo \in OffTree
    BY DEF OneStep, OffTree
  <2>2. CallTree(c, tree', txs', unsure')
    BY <2>1, OffTreeOk
  <2> QED
    BY <1>1, <2>2, OnlyCall DEF TreeInv
<1>7. RowsTell'
  <2>1. ASSUME NEW j \in 1..n PROVE RowTells(txs'[j], was[j], txs')
    <3>1. RowTells(txs[j], was[j], txs) /\ txs[j].reverts \in 0..(j - 1)
      BY Texts DEF TreeInv, RowsTell
    <3>2. txs[j].reverts # 0 => SameText(txs'[txs[j].reverts], txs[txs[j].reverts])
      BY <1>5, <3>1
    <3>3. SameText(txs'[j], txs[j])
      BY <1>5
    <3> QED
      BY <3>1, <3>2, <3>3, TellsKept
  <2> QED
    BY <1>1, <1>4, <2>1 DEF RowsTell
<1>8. ShardsSay'
  <2>1. \A j \in 1..Len(shards) : SameText(shards[j], txs[j]) /\ j \in 1..n
    BY Texts
  <2> QED
    BY <1>1, <1>5, <2>1 DEF ShardsSay, SameText
<1>9. LastWord(tree', txs', unsure')
  <2>1. LastWord(tree, txs, unsure) /\ Len(txs') \in Nat /\ n <= Len(txs')
    BY <1>4 DEF TreeInv
  <2>2. \A j \in 1..n : txs[j].reverts \in 0..(j - 1)
    BY Texts
  <2>3. /\ n <= Len(txs) /\ Len(txs) \in Nat
        /\ \A j \in (n + 1)..Len(txs) : Touched(txs[j]) \subseteq unsure
        /\ \A j \in (n + 1)..Len(txs') : Touched(txs'[j]) \subseteq unsure
    BY <1>4
  <2>4. LastWord(tree, txs', unsure)
    BY <1>5, <2>1, <2>2, <2>3, WordKept
  <2> QED
    BY <1>1, <2>4
<1> QED
  BY <1>6, <1>7, <1>8, <1>9 DEF TreeInv

\* The rows that are lost leave their paths unsure; the others say the same.
LEMMA RebuildOnTree ==
  ASSUME TreeInv, IInv', RebuildProject
  PROVE  TreeInv'
<1> PICK m \in Nat : m = Len(shards)
  BY Texts
<1>1. /\ \A p \in Procs : ~Calling(p)
      /\ txs' = shards
      /\ was' = SubSeq(was, 1, m)
      /\ unsure' = unsure \cup UNION {Touched(txs[i]) : i \in (m + 1)..Len(txs)}
      /\ UNCHANGED <<tree, shards, call>>
  BY DEF RebuildProject
<1>2. CallsTree'
  BY <1>1, NoCalls
<1>3. /\ Len(txs') = m /\ Len(txs') \in Nat /\ m <= Len(txs)
      /\ \A i \in 1..m : SameText(txs'[i], txs[i])
      /\ \A i \in 1..m : was'[i] = was[i]
  BY <1>1, Texts
<1>4. RowsTell'
  <2>1. ASSUME NEW j \in 1..m PROVE RowTells(txs'[j], was'[j], txs')
    <3>1. RowTells(txs[j], was[j], txs) /\ txs[j].reverts \in 0..(j - 1)
      BY <1>3, Texts DEF TreeInv, RowsTell
    <3>2. txs[j].reverts # 0 => SameText(txs'[txs[j].reverts], txs[txs[j].reverts])
      BY <1>3, <3>1
    <3>3. SameText(txs'[j], txs[j]) /\ was'[j] = was[j]
      BY <1>3
    <3>4. RowTells(txs'[j], was[j], txs')
      BY <3>1, <3>2, <3>3, TellsKept
    <3> QED
      BY <3>3, <3>4
  <2> QED
    BY <1>3, <2>1 DEF RowsTell
<1>5. ShardsSay'
  BY <1>1 DEF ShardsSay, SameText
<1>6. LastWord(tree', txs', unsure')
  <2>1. LastWord(tree, txs, unsure) /\ unsure \subseteq unsure' /\ Len(txs) \in Nat
    BY <1>1, Texts DEF TreeInv
  <2>2. \A j \in 1..m : txs[j].reverts \in 0..(j - 1)
    BY <1>3, Texts
  <2>3. \A j \in (m + 1)..Len(txs) : Touched(txs[j]) \subseteq unsure'
    BY <1>1
  <2>4. \A j \in (m + 1)..Len(txs') : Touched(txs'[j]) \subseteq unsure'
    BY <1>3
  <2>5. m <= Len(txs') /\ m <= Len(txs) /\ \A i \in 1..m : SameText(txs'[i], txs[i])
    BY <1>3
  <2>6. LastWord(tree, txs', unsure')
    BY <1>3, <2>1, <2>2, <2>3, <2>4, <2>5, WordKept
  <2> QED
    BY <1>1, <2>6
<1> QED
  BY <1>2, <1>4, <1>5, <1>6 DEF TreeInv

LEMMA StaysOnTree ==
  ASSUME TreeInv, IInv', NextDay \/ UNCHANGED vars
  PROVE  TreeInv'
BY DEF TreeInv, NextDay, vars, database, history, RowsTell, ShardsSay, CallsTree

LEMMA NextOnTree == OneProcess /\ TreeInv /\ IInv' /\ [Next]_vars => TreeInv'
<1> SUFFICES ASSUME OneProcess, TreeInv, IInv', [Next]_vars PROVE TreeInv'
  OBVIOUS
<1>1. ASSUME NEW p \in Procs, NEW ev \in Evidence,
             Make(p, ev) \/ Rename(p, ev) \/ Combine(p, ev) \/ Split(p, ev) PROVE TreeInv'
  BY <1>1, OpsOnTree
<1>2. ASSUME NEW p \in Procs, NEW ev \in Evidence, NEW k \in Contents, Rewrite(p, k, ev) PROVE TreeInv'
  BY <1>2, RewriteOnTree
<1>3. ASSUME NEW p \in Procs, NEW i \in DOMAIN txs, Revert(p, i) \/ Promote(p, i) PROVE TreeInv'
  BY <1>3, RevertOnTree, PromoteOnTree
<1>4. ASSUME NEW p \in Procs, Commit(p) PROVE TreeInv'
  BY <1>4, CommitOnTree
<1>5. ASSUME NEW p \in Procs, WriteFiles(p) \/ RemoveFiles(p) \/ Export(p) \/ AppendEntry(p) PROVE TreeInv'
  BY <1>5, WriteOnTree, RemoveOnTree, ExportOnTree, AppendOnTree
<1>6. ASSUME NEW p \in Procs,
             Reject(p) \/ Refuse(p) \/ Crash(p) \/ DieExporting(p) \/ Annotate(p) PROVE TreeInv'
  BY <1>6, EndOnTree, AnnotateOnTree
<1>7. CASE NextDay \/ UNCHANGED vars
  BY <1>7, StaysOnTree
<1>8. CASE RebuildProject
  BY <1>8, RebuildOnTree
<1> QED
  BY <1>1, <1>2, <1>3, <1>4, <1>5, <1>6, <1>7, <1>8 DEF Next

LEMMA TreeInductive == ASSUME OneProcess PROVE Spec => []TreeInv
<1>1. Init /\ IInv => TreeInv
  <2> SUFFICES ASSUME Init, IInv PROVE TreeInv
    OBVIOUS
  <2>1. CallsTree
    <3>1. \A p \in Procs : call[p] = Idle
      BY DEF Init
    <3> QED
      BY <3>1, IdleTree DEF CallsTree
  <2>2. RowsTell /\ ShardsSay /\ LastWord(tree, txs, unsure)
    BY DEF Init, RowsTell, ShardsSay, LastWord
  <2> QED
    BY <2>1, <2>2 DEF TreeInv
<1>2. TreeInv /\ IInv' /\ [Next]_vars => TreeInv'
  BY NextOnTree
<1> QED
  BY <1>1, <1>2, Inductive, PTL DEF Spec
-----------------------------------------------------------------------------
\* LastTouching is the last row that touches the path, if one does.
LEMMA LastIsLast ==
  ASSUME Len(txs) \in Nat, DOMAIN txs = 1..Len(txs), NEW q, LastTouching(q) # 0
  PROVE  IsLast(q, LastTouching(q), txs)
<1> DEFINE touching == {i \in DOMAIN txs : q \in Touched(txs[i])}
<1>1. /\ touching # {}
      /\ LastTouching(q) = CHOOSE i \in touching : \A j \in touching : j <= i
  BY DEF LastTouching
<1>2. \E i \in touching : \A j \in touching : j <= i
  BY <1>1, GreatestExists
<1>3. LastTouching(q) \in touching /\ \A j \in touching : j <= LastTouching(q)
  <2> HIDE DEF touching
  <2> QED
    BY <1>1, <1>2
<1> QED
  BY <1>3 DEF IsLast

\* Where no call has left its paths unsure, the log tells which files of the
\* readable tree are there, whichever ops, reverts, rewrites, deaths and
\* rebuilds led to it: one process serving, any paths and contents.
THEOREM LogTells == OneProcess => (Spec => []LogTellsTree)
<1> SUFFICES ASSUME OneProcess PROVE Spec => []LogTellsTree
  OBVIOUS
<1>1. TreeInv => LogTellsTree
  <2> SUFFICES ASSUME TreeInv, NEW q \in Paths \ unsure, LastTouching(q) # 0
               PROVE  tree[q] # Absent <=> q \in txs[LastTouching(q)].outputs
    BY DEF LogTellsTree
  <2> PICK i : i = LastTouching(q)
    OBVIOUS
  <2>1. IsLast(q, i, txs)
    BY Texts, LastIsLast
  <2>2. Told(q, txs[i], tree, txs)
    BY <2>1 DEF TreeInv, LastWord, IsLast
  <2> QED
    BY <2>2 DEF Told
<1> QED
  BY <1>1, TreeInductive, PTL

\* A revert puts back, byte for byte, what its paths held when the transaction
\* it reverts committed, and takes away what was not there then.
THEOREM RevertsAreExact == OneProcess => (Spec => []UndoExact)
<1> SUFFICES ASSUME OneProcess PROVE Spec => []UndoExact
  OBVIOUS
<1>1. TreeInv => UndoExact
  <2> SUFFICES ASSUME TreeInv, NEW j \in DOMAIN txs, NEW q \in Paths \ unsure, NEW i, i = txs[j].reverts,
                      i # 0, LastTouching(q) = j,
                      PlainRewrite(txs[i]) => q \in DOMAIN was[i] /\ was[i][q] = Faithful
               PROVE  tree[q] = IF q \in DOMAIN was[i] THEN was[i][q] ELSE Absent
    BY DEF UndoExact, PlainRewrite
  <2>1. /\ j \in 1..Len(txs) /\ j # 0 /\ Len(txs) \in Nat
        /\ i \in 1..Len(txs)
    <3>1. j \in 1..Len(txs) /\ Len(txs) \in Nat /\ txs[j].reverts \in 0..(j - 1)
      BY Texts
    <3> QED
      BY <3>1
  <2>2. IsLast(q, j, txs)
    BY <2>1, Texts, LastIsLast
  <2>3. Told(q, txs[j], tree, txs)
    BY <2>1, <2>2 DEF TreeInv, LastWord
  <2>4. RowTells(txs[j], was[j], txs) /\ RowTells(txs[i], was[i], txs)
    BY <2>1 DEF TreeInv, RowsTell
  <2>5. txs[j].outputs = DOMAIN txs[i].prior /\ q \in Touched(txs[i])
    BY <2>2, <2>4 DEF RowTells, IsLast
  <2>6. /\ q \in DOMAIN txs[i].prior => tree[q] = txs[i].prior[q]
        /\ q \notin DOMAIN txs[i].prior => tree[q] = Absent
    BY <2>3, <2>5 DEF Told
  <2>7. CASE ~PlainRewrite(txs[i])
    BY <2>4, <2>6, <2>7 DEF RowTells
  <2>8. CASE PlainRewrite(txs[i])
    <3>1. txs[i].outputs = {RewritePath} /\ txs[i].prior = [x \in {RewritePath} |-> Faithful]
      BY <2>4, <2>8 DEF RowTells
    <3>2. q \in DOMAIN txs[i].prior /\ txs[i].prior[q] = Faithful
      BY <2>5, <3>1 DEF Touched
    <3> QED
      BY <2>6, <2>8, <3>2
  <2> QED
    BY <2>7, <2>8
<1> QED
  BY <1>1, TreeInductive, PTL

\* Only two actions write the tree.
LEMMA TreeWriters ==
  ASSUME [Next]_vars, tree' # tree
  PROVE  \E p \in Procs : WriteFiles(p) \/ RemoveFiles(p)
<1>1. ASSUME NEW p \in Procs, NEW ev \in Evidence PROVE ~(Make(p, ev) \/ Rename(p, ev))
  BY DEF Make, Rename, Propose
<1>2. ASSUME NEW p \in Procs, NEW ev \in Evidence PROVE ~(Combine(p, ev) \/ Split(p, ev))
  BY DEF Combine, Split, Propose
<1>3. ASSUME NEW p \in Procs, NEW ev \in Evidence, NEW k \in Contents PROVE ~Rewrite(p, k, ev)
  BY DEF Rewrite
<1>4. ASSUME NEW p \in Procs, NEW i \in DOMAIN txs PROVE ~(Revert(p, i) \/ Promote(p, i))
  BY DEF Revert, Promote
<1>5. ASSUME NEW p \in Procs PROVE ~(Reject(p) \/ Commit(p) \/ Refuse(p) \/ Export(p))
  BY DEF Reject, Commit, Refuse, Export
<1>6. ASSUME NEW p \in Procs 
             PROVE ~(Annotate(p) \/ AppendEntry(p) \/ Crash(p) \/ DieExporting(p))
  BY DEF Annotate, AppendEntry, Crash, DieExporting
<1>7. ~RebuildProject /\ ~NextDay /\ ~UNCHANGED vars
  BY DEF RebuildProject, NextDay, vars
<1> QED
  BY <1>1, <1>2, <1>3, <1>4, <1>5, <1>6, <1>7 DEF Next

\* What a call takes out of the tree is in the database, unless it rewrites.
LEMMA BytesKept ==
  ASSUME TreeInv, NEW p \in Procs, WriteFiles(p) \/ RemoveFiles(p),
         NEW q \in Paths, tree[q] # Absent, tree[q] # tree'[q]
  PROVE  \/ tree[q] \in blobs
         \/ Doing(p, "write") /\ call[p].tx.op = "rewrite"
<1> PICK c : c = call[p]
  OBVIOUS
<1>1. c.todo # <<>> /\ Head(c.todo) \in {"write", "remove"}
  BY DEF WriteFiles, RemoveFiles, Doing, Calling
<1>2. c.todo \in Committed
  <2>1. c.todo \in Committing \cup Committed \cup OffTree
    BY DEF TreeInv, CallsTree, CallTree
  <2>2. c.todo \in {<<"write">>, <<"write", "remove", "export">>, <<"remove", "write">>, <<"remove", "export">>}
    BY <1>1, <2>1, TodoHeads
  <2> QED
    BY <2>2 DEF Committed
<1>3. /\ Plan(c, tree, txs) /\ Underway(c, tree, txs, unsure)
      /\ Len(txs) \in Nat \ {0} /\ txs[Len(txs)] = c.tx
      /\ RowTells(c.tx, was[Len(txs)], txs)
  BY <1>2, HasCommitted
<1>4. \/ WriteFiles(p) /\ q \in DOMAIN c.writes /\ tree'[q] = c.writes[q]
      \/ q \in c.gone
  BY DEF WriteFiles, RemoveFiles, Overlaid, Cleared
<1>5. q \in Touched(c.tx)
  BY <1>3, <1>4 DEF Plan
<1>6. CASE PlainRewrite(c.tx)
  <2>1. c.tx.outputs = {RewritePath} /\ DOMAIN c.tx.prior = {RewritePath}
    BY <1>3, <1>6 DEF RowTells
  <2>2. q \in c.tx.outputs
    BY <1>5, <2>1 DEF Touched
  <2>3. q \in DOMAIN c.writes /\ q \notin c.gone
    BY <1>3, <2>2 DEF Plan
  <2> QED
    BY <1>4, <1>6, <2>3 DEF PlainRewrite, WriteFiles
<1>7. CASE ~PlainRewrite(c.tx)
  <2>1. q \in DOMAIN c.tx.prior /\ tree[q] = c.tx.prior[q]
    <3>1. \/ q \in DOMAIN c.tx.prior /\ tree[q] = c.tx.prior[q]
          \/ q \in DOMAIN c.writes /\ tree[q] = c.writes[q]
      BY <1>3, <1>5, <1>7 DEF Underway
    <3> QED
      BY <1>3, <1>4, <3>1 DEF Plan
  <2>2. BlobsHeld /\ Len(txs) \in DOMAIN txs
    BY <1>3, Texts DEF TreeInv, IInv
  <2> QED
    BY <1>3, <2>1, <2>2 DEF BlobsHeld
<1> QED
  BY <1>6, <1>7

\* No call takes bytes out of the readable tree that the database does not
\* hold, a rewrite over something else than the faithful render excepted.
THEOREM BytesAreKept == OneProcess => (Spec => NoByteLost)
<1> SUFFICES ASSUME OneProcess PROVE Spec => NoByteLost
  OBVIOUS
<1> DEFINE Kept == \A q \in Paths :
                     tree[q] \notin {Absent, tree'[q]} =>
                       \/ tree[q] \in blobs
                       \/ \E p \in Procs : Doing(p, "write") /\ call[p].tx.op = "rewrite"
<1>1. TreeInv /\ [Next]_vars => Kept
  <2> SUFFICES ASSUME TreeInv, [Next]_vars, NEW q \in Paths, tree[q] # Absent, tree[q] # tree'[q]
               PROVE  \/ tree[q] \in blobs
                      \/ \E p \in Procs : Doing(p, "write") /\ call[p].tx.op = "rewrite"
    OBVIOUS
  <2>1. PICK p \in Procs : WriteFiles(p) \/ RemoveFiles(p)
    BY TreeWriters
  <2> QED
    BY <2>1, BytesKept
<1>2. Spec => [][Kept]_vars
  <2> HIDE DEF Kept
  <2> QED
    BY <1>1, TreeInductive, PTL DEF Spec
<1> QED
  BY <1>2, PTL DEF NoByteLost
-----------------------------------------------------------------------------
(* The chained log.                                                        *)

\* What the lines of the day files tell: a row of the log table, or a
\* transaction and its tier.
Bodies == ({"annot"} \X Nat) \cup ({"tx"} \X Nat \X {"suggested", "confirmed"})

\* An annotation is of a later day than a file that holds none.
Overtaken == \E d \in Days : files[d] # <<>> /\ d < LastAnnotDay /\ d \notin Range(annots)

\* A day the log of the exported transactions may come to.
TailDay(d, rows) ==
  \E i \in 1..Len(rows) : rows[i].day = d /\ \A j \in 1..i : rows[j].day <= d

\* A call's rows are of the day it began on.
CallDay(c, rows, now) ==
  /\ \A k \in 2..Len(c.todo) : c.todo[k] # "append"
  /\ c.todo # <<>> /\ c.todo[1] = "commit" => c.tx.day = now
  /\ c.todo # <<>> /\ c.todo[1] = "append" => c.tx \in 1..Len(rows) /\ rows[c.tx] = now

CallDays == \A p \in Procs : CallDay(call[p], annots, today)

AnnotDays ==
  /\ Len(annots) >= 1
  /\ \A i, j \in 1..Len(annots) : i <= j => annots[i] <= annots[j]
  /\ \A i \in 1..Len(annots) : annots[i] <= today

TxDays ==
  /\ \A i \in 1..Len(txs) : txs[i].day \in 1..today
  /\ \A i \in 1..Len(shards) : shards[i].day = txs[i].day

\* Every file with lines is of a day the log has come to.
FileDays ==
  /\ files \in FilesOf(Bodies)
  /\ \A d \in Days : files[d] # <<>> => d <= today /\ (d \in Range(annots) \/ TailDay(d, shards))

DaysInv == CallDays /\ AnnotDays /\ TxDays /\ FileDays /\ (torn \/ Overtaken \/ Chained(files))

LEMMA MaxIs ==
  ASSUME NEW n \in Nat, NEW S \in SUBSET (1..n), S # {}
  PROVE  Max(S) \in S /\ \A y \in S : y <= Max(S)
<1>1. PICK m \in S : \A y \in S : y <= m
  BY GreatestExists
<1>2. \A y \in S : m >= y
  BY <1>1
<1>3. Max(S) \in S /\ \A y \in S : Max(S) >= y
  BY <1>2 DEF Max
<1> QED
  BY <1>3

\* The last day of the log table.
LEMMA LastDayIs ==
  ASSUME NEW rows \in Seq(Days), Len(rows) >= 1, NEW now, \A i \in 1..Len(rows) : rows[i] <= now
  PROVE  /\ Max(Range(rows)) \in Range(rows) /\ Max(Range(rows)) \in Days /\ Max(Range(rows)) <= now
         /\ \A i \in 1..Len(rows) : rows[i] <= Max(Range(rows))
         /\ \A d : d \in Range(rows) <=> \E i \in 1..Len(rows) : rows[i] = d
<1>1. Len(rows) \in Nat /\ DOMAIN rows = 1..Len(rows)
  BY LenProperties
<1>2. Range(rows) = {rows[i] : i \in 1..Len(rows)}
  BY <1>1 DEF Range
<1>3. Range(rows) \in SUBSET (1..MaxDay) /\ MaxDay \in Nat
  BY <1>1, <1>2, MaxDayAssumption DEF Days
<1>4. Range(rows) # {}
  <2>1. 1 \in 1..Len(rows)
    BY <1>1
  <2> QED
    BY <1>2, <2>1
<1>5. Max(Range(rows)) \in Range(rows) /\ \A d \in Range(rows) : d <= Max(Range(rows))
  BY <1>3, <1>4, MaxIs
<1> QED
  BY <1>2, <1>3, <1>5 DEF Days

LEMMA LastAnnotIs ==
  ASSUME IInv, AnnotDays
  PROVE  /\ LastAnnotDay \in Range(annots) /\ LastAnnotDay \in Days /\ LastAnnotDay <= today
         /\ \A i \in 1..Len(annots) : annots[i] <= LastAnnotDay
         /\ \A d : d \in Range(annots) <=> \E i \in 1..Len(annots) : annots[i] = d
BY LastDayIs DEF IInv, Rows, AnnotDays, LastAnnotDay

\* The day exportLog files a transaction under.
UpTo(i) == Max({LastAnnotDay} \cup {txs[j].day : j \in 1..i})

LEMMA UpToIs ==
  ASSUME IInv, AnnotDays, TxDays, NEW i \in 1..Len(txs)
  PROVE  /\ UpTo(i) \in Days /\ UpTo(i) <= today /\ LastAnnotDay <= UpTo(i)
         /\ \A j \in 1..i : txs[j].day <= UpTo(i)
         /\ UpTo(i) = LastAnnotDay \/ \E j \in 1..i : txs[j].day = UpTo(i)
<1> DEFINE S == {LastAnnotDay} \cup {txs[j].day : j \in 1..i}
<1>1. today \in Days /\ today \in Nat /\ today <= MaxDay /\ MaxDay \in Nat /\ Len(txs) \in Nat
  BY MaxDayAssumption DEF IInv, Rows, Days
<1>2. \A j \in 1..i : txs[j].day \in 1..today
  BY <1>1 DEF TxDays
<1>3. LastAnnotDay \in 1..today
  BY <1>1, LastAnnotIs DEF Days
<1>4. S \in SUBSET (1..today) /\ S # {}
  BY <1>2, <1>3
<1>5. LastAnnotDay \in S /\ \A j \in 1..i : txs[j].day \in S
  OBVIOUS
<1>6. \A d \in S : d = LastAnnotDay \/ \E j \in 1..i : txs[j].day = d
  OBVIOUS
<1> HIDE DEF S
<1>7. PICK m \in S : m = Max(S) /\ \A y \in S : y <= m
  BY <1>1, <1>4, MaxIs
<1>8. UpTo(i) = m
  BY <1>7 DEF UpTo, S
<1>9. m \in 1..today /\ m \in Days /\ m <= today
  BY <1>1, <1>4 DEF Days
<1> QED
  BY <1>5, <1>6, <1>7, <1>8, <1>9

LEMMA ConcatIs ==
  ASSUME NEW S, NEW s \in Seq(S), NEW t \in Seq(S)
  PROVE  /\ s \o t \in Seq(S) /\ Len(s \o t) = Len(s) + Len(t)
         /\ \A i \in 1..Len(s) : (s \o t)[i] = s[i]
         /\ \A i \in 1..Len(t) : (s \o t)[Len(s) + i] = t[i]
<1>1. Len(s) \in Nat /\ Len(t) \in Nat
  BY LenProperties
<1>2. PICK c : c = s \o t
  OBVIOUS
<1>3. /\ c \in Seq(S) /\ Len(c) = Len(s) + Len(t)
      /\ \A i \in 1..(Len(s) + Len(t)) : c[i] = IF i <= Len(s) THEN s[i] ELSE t[i - Len(s)]
  BY <1>2, ConcatProperties
<1>4. \A i \in 1..Len(t) : /\ Len(s) + i \in 1..(Len(s) + Len(t)) /\ ~(Len(s) + i <= Len(s))
                          /\ Len(s) + i - Len(s) = i
  BY <1>1
<1>5. \A i \in 1..Len(s) : i \in 1..(Len(s) + Len(t)) /\ i <= Len(s)
  BY <1>1
<1> QED
  BY <1>2, <1>3, <1>4, <1>5

\* The log as exportLog files it: the annotations, then the transactions.
LEMMA FiledIs ==
  ASSUME IInv, AnnotDays, TxDays
  PROVE  /\ Filed \in Seq(Logged(Bodies)) /\ Len(Filed) = Len(annots) + Len(txs)
         /\ \A i \in 1..Len(annots) : Filed[i].day = annots[i]
         /\ \A i \in 1..Len(txs) : Filed[Len(annots) + i].day = UpTo(i)
<1>1. /\ annots \in Seq(Days) /\ DOMAIN annots = 1..Len(annots) /\ Len(annots) \in Nat
      /\ txs \in Seq(Tx) /\ DOMAIN txs = 1..Len(txs) /\ Len(txs) \in Nat
  BY DEF IInv, Rows
<1>2. PICK first : first = AnnotEntries
  OBVIOUS
<1>3. PICK tail : tail = [i \in 1..Len(txs) |-> [day |-> UpTo(i), body |-> <<"tx", i, txs[i].tier>>]]
  OBVIOUS
<1>4. first = [i \in 1..Len(annots) |-> [day |-> annots[i], body |-> <<"annot", i>>]]
  BY <1>1, <1>2 DEF AnnotEntries
<1>5. \A i \in 1..Len(annots) : [day |-> annots[i], body |-> <<"annot", i>>] \in Logged(Bodies)
  <2> TAKE i \in 1..Len(annots)
  <2>1. annots[i] \in Days /\ <<"annot", i>> \in Bodies
    BY <1>1 DEF Bodies
  <2> QED
    BY <2>1 DEF Logged
<1>6. \A i \in 1..Len(txs) : [day |-> UpTo(i), body |-> <<"tx", i, txs[i].tier>>] \in Logged(Bodies)
  <2> TAKE i \in 1..Len(txs)
  <2>1. txs[i] \in Tx /\ UpTo(i) \in Days
    BY <1>1, UpToIs
  <2>2. txs[i].tier \in {"suggested", "confirmed"}
    BY <2>1 DEF Tx
  <2>3. <<"tx", i, txs[i].tier>> \in Bodies
    BY <2>2 DEF Bodies
  <2> QED
    BY <2>1, <2>3 DEF Logged
<1>7. first \in Seq(Logged(Bodies)) /\ Len(first) = Len(annots)
  BY <1>1, <1>4, <1>5
<1>8. tail \in Seq(Logged(Bodies)) /\ Len(tail) = Len(txs)
  BY <1>1, <1>3, <1>6
<1>9. Filed = first \o tail
  BY <1>1, <1>2, <1>3 DEF Filed, UpTo
<1>10. /\ Filed \in Seq(Logged(Bodies)) /\ Len(Filed) = Len(first) + Len(tail)
       /\ \A i \in 1..Len(first) : Filed[i] = first[i]
       /\ \A i \in 1..Len(tail) : Filed[Len(first) + i] = tail[i]
  <2>1. PICK L : L = Logged(Bodies)
    OBVIOUS
  <2>2. first \in Seq(L) /\ tail \in Seq(L)
    BY <1>7, <1>8, <2>1
  <2>3. /\ first \o tail \in Seq(L) /\ Len(first \o tail) = Len(first) + Len(tail)
        /\ \A i \in 1..Len(first) : (first \o tail)[i] = first[i]
        /\ \A i \in 1..Len(tail) : (first \o tail)[Len(first) + i] = tail[i]
    BY <2>2, ConcatIs
  <2> QED
    BY <1>9, <2>1, <2>3
<1>11. Len(Filed) = Len(annots) + Len(txs)
  BY <1>7, <1>8, <1>10
<1>12. \A i \in 1..Len(annots) : first[i].day = annots[i]
  BY <1>4
<1>13. \A i \in 1..Len(txs) : tail[i].day = UpTo(i)
  BY <1>3
<1>14. \A i \in 1..Len(annots) : Filed[i].day = annots[i]
  BY <1>7, <1>10, <1>12
<1>15. \A i \in 1..Len(txs) : Filed[Len(annots) + i].day = UpTo(i)
  BY <1>7, <1>8, <1>10, <1>13
<1> QED
  BY <1>10, <1>11, <1>14, <1>15

\* An entry of it is an annotation's or a transaction's.
LEMMA FiledOf ==
  ASSUME IInv, AnnotDays, TxDays, NEW i \in 1..Len(Filed)
  PROVE  \/ i \in 1..Len(annots)
         \/ \E j \in 1..Len(txs) : i = Len(annots) + j
<1>1. Len(annots) \in Nat /\ Len(txs) \in Nat /\ Len(Filed) = Len(annots) + Len(txs)
  BY FiledIs DEF IInv, Rows
<1>2. CASE i <= Len(annots)
  BY <1>2
<1>3. CASE ~(i <= Len(annots))
  <2>1. PICK j : j = i - Len(annots)
    OBVIOUS
  <2>2. j \in 1..Len(txs) /\ i = Len(annots) + j
    BY <1>1, <1>3, <2>1
  <2> QED
    BY <2>2
<1> QED
  BY <1>2, <1>3

LEMMA FiledGrows ==
  ASSUME IInv, AnnotDays, TxDays, NEW i \in 1..Len(Filed), NEW j \in 1..Len(Filed), i < j
  PROVE  Filed[i].day <= Filed[j].day
<1>1. Len(annots) \in Nat /\ Len(txs) \in Nat
  BY DEF IInv, Rows
<1>2. CASE i \in 1..Len(annots) /\ j \in 1..Len(annots)
  BY <1>1, <1>2, FiledIs DEF AnnotDays
<1>3. CASE i \in 1..Len(annots) /\ j \notin 1..Len(annots)
  <2>1. PICK b \in 1..Len(txs) : j = Len(annots) + b
    BY <1>3, FiledOf
  <2>2. annots[i] <= LastAnnotDay /\ LastAnnotDay <= UpTo(b)
    BY <1>3, LastAnnotIs, UpToIs
  <2>3. annots[i] \in Nat /\ LastAnnotDay \in Nat /\ UpTo(b) \in Nat
    <3>1. annots[i] \in Days
      BY <1>3 DEF IInv, Rows
    <3> QED
      BY <3>1, LastAnnotIs, UpToIs DEF Days
  <2>4. Filed[i].day = annots[i] /\ Filed[j].day = UpTo(b)
    BY <1>3, <2>1, FiledIs
  <2> QED
    BY <2>2, <2>3, <2>4
<1>4. CASE i \notin 1..Len(annots)
  <2>1. PICK a \in 1..Len(txs) : i = Len(annots) + a
    BY <1>4, FiledOf
  <2>2. PICK b \in 1..Len(txs) : j = Len(annots) + b
    <3>1. j \notin 1..Len(annots)
      BY <1>1, <2>1
    <3> QED
      BY <3>1, FiledOf
  <2>3. 1..a \subseteq 1..b
    BY <1>1, <2>1, <2>2
  <2>4. /\ UpTo(a) \in Nat /\ UpTo(b) \in Nat /\ LastAnnotDay <= UpTo(b)
        /\ \A k \in 1..b : txs[k].day <= UpTo(b)
        /\ UpTo(a) = LastAnnotDay \/ \E k \in 1..a : txs[k].day = UpTo(a)
    BY UpToIs DEF Days
  <2>5. UpTo(a) <= UpTo(b)
    BY <2>3, <2>4
  <2>6. Filed[i].day = UpTo(a) /\ Filed[j].day = UpTo(b)
    BY <2>1, <2>2, FiledIs
  <2> QED
    BY <2>5, <2>6
<1> QED
  BY <1>2, <1>3, <1>4

\* The days the log comes to are those of the annotations and, from the last
\* of these on, those of the transactions.
LEMMA FiledUnder ==
  ASSUME IInv, AnnotDays, TxDays, NEW i \in 1..Len(Filed)
  PROVE  /\ Filed[i].day <= today
         /\ \/ Filed[i].day \in Range(annots)
            \/ LastAnnotDay <= Filed[i].day /\ TailDay(Filed[i].day, txs)
<1>1. CASE i \in 1..Len(annots)
  BY <1>1, FiledIs, LastAnnotIs DEF AnnotDays
<1>2. CASE i \notin 1..Len(annots)
  <2>1. PICK a \in 1..Len(txs) : i = Len(annots) + a
    BY <1>2, FiledOf
  <2>2. Filed[i].day = UpTo(a)
    BY <2>1, FiledIs
  <2>3. /\ UpTo(a) <= today /\ LastAnnotDay <= UpTo(a)
        /\ \A k \in 1..a : txs[k].day <= UpTo(a)
        /\ UpTo(a) = LastAnnotDay \/ \E k \in 1..a : txs[k].day = UpTo(a)
    BY UpToIs
  <2>4. CASE UpTo(a) = LastAnnotDay
    BY <2>2, <2>3, <2>4, LastAnnotIs
  <2>5. CASE \E k \in 1..a : txs[k].day = UpTo(a)
    <3>1. PICK k \in 1..a : txs[k].day = UpTo(a)
      BY <2>5
    <3>2. k \in 1..Len(txs) /\ 1..k \subseteq 1..a
      BY DEF IInv, Rows
    <3>3. TailDay(UpTo(a), txs)
      BY <2>3, <3>1, <3>2 DEF TailDay
    <3> QED
      BY <2>2, <2>3, <3>3
  <2> QED
    BY <2>3, <2>4, <2>5
<1> QED
  BY <1>1, <1>2

LEMMA FiledCovers ==
  ASSUME IInv, AnnotDays, TxDays, NEW d \in Days,
         d \in Range(annots) \/ (LastAnnotDay <= d /\ TailDay(d, txs))
  PROVE  \E i \in 1..Len(Filed) : Filed[i].day = d
<1>1. Len(annots) \in Nat /\ Len(txs) \in Nat /\ Len(Filed) = Len(annots) + Len(txs)
  BY FiledIs DEF IInv, Rows
<1>2. CASE d \in Range(annots)
  <2>1. PICK i \in 1..Len(annots) : annots[i] = d
    BY <1>2, LastAnnotIs
  <2>2. i \in 1..Len(Filed) /\ Filed[i].day = d
    BY <1>1, <2>1, FiledIs
  <2> QED
    BY <2>2
<1>3. CASE LastAnnotDay <= d /\ TailDay(d, txs)
  <2>1. PICK k \in 1..Len(txs) : txs[k].day = d /\ \A j \in 1..k : txs[j].day <= d
    BY <1>3 DEF TailDay
  <2>2. /\ UpTo(k) \in Nat /\ txs[k].day <= UpTo(k)
        /\ UpTo(k) = LastAnnotDay \/ \E j \in 1..k : txs[j].day = UpTo(k)
    BY UpToIs DEF Days
  <2>3. UpTo(k) = d
    <3>1. d \in Nat
      BY DEF Days
    <3>2. UpTo(k) <= d
      BY <1>3, <2>1, <2>2
    <3> QED
      BY <2>1, <2>2, <3>1, <3>2
  <2>4. Len(annots) + k \in 1..Len(Filed) /\ Filed[Len(annots) + k].day = d
    BY <1>1, <2>3, FiledIs
  <2> QED
    BY <2>4
<1> QED
  BY <1>2, <1>3
-----------------------------------------------------------------------------
(* A call that begins, ends or goes on.                                    *)

LEMMA RestDay ==
  ASSUME NEW c, NEW n, CallOk(c, n), c.todo # <<>>, NEW rows, NEW now, CallDay(c, rows, now)
  PROVE  CallDay(Rest(c), rows, now)
<1>1. CASE Len(c.todo) = 1
  BY <1>1 DEF Rest, CallDay, Idle
<1>2. CASE Len(c.todo) # 1
  <2>1. PICK t : t = Tail(c.todo)
    OBVIOUS
  <2>2. /\ Len(c.todo) \in Nat /\ Len(t) = Len(c.todo) - 1
        /\ \A k \in 1..Len(t) : t[k] = c.todo[k + 1] /\ k + 1 \in 2..Len(c.todo)
        /\ t # <<>> => 1 \in 1..Len(t)
    BY <2>1 DEF CallOk
  <2>3. \A k \in 1..Len(t) : t[k] # "commit" /\ t[k] # "append"
    BY <2>2 DEF CallOk, CallDay
  <2>4. Rest(c).todo = t
    BY <1>2, <2>1 DEF Rest, CallOk
  <2>5. \A k \in 2..Len(t) : k \in 1..Len(t)
    BY <2>2
  <2> QED
    BY <2>2, <2>3, <2>4, <2>5 DEF CallDay
<1> QED
  BY <1>1, <1>2

\* One call changes, and the rows of the log table stay where they are.
LEMMA OneCallDay ==
  ASSUME IInv, CallDays, NEW p \in Procs, NEW c, call' = [call EXCEPT ![p] = c],
         CallDay(c, annots', today'), today' = today,
         \A i \in 1..Len(annots) : i \in 1..Len(annots') /\ annots'[i] = annots[i]
  PROVE  CallDays'
<1>1. call'[p] = c /\ \A x \in Procs \ {p} : call'[x] = call[x]
  BY DEF IInv, Calls
<1>2. \A x \in Procs : CallDay(call[x], annots', today')
  BY DEF CallDays, CallDay
<1> QED
  BY <1>1, <1>2 DEF CallDays

\* What a call leaves alone.
LEMMA LogStays ==
  ASSUME DaysInv, UNCHANGED <<annots, txs, shards, files, today, torn>>, CallDays'
  PROVE  DaysInv'
BY DEF DaysInv, AnnotDays, TxDays, FileDays, Overtaken, LastAnnotDay

LEMMA CallOnly ==
  ASSUME IInv, DaysInv, NEW p \in Procs, NEW c, call' = [call EXCEPT ![p] = c],
         CallDay(c, annots, today), UNCHANGED <<annots, txs, shards, files, today, torn>>
  PROVE  DaysInv'
BY OneCallDay, LogStays DEF DaysInv

LEMMA BeginsOnDay ==
  ASSUME NEW c, NEW rows, NEW now, c.todo \in Committing, c.tx.day = now
  PROVE  CallDay(c, rows, now)
<1>1. /\ \A k \in 2..Len(OpTodo) : OpTodo[k] # "append"
      /\ \A k \in 2..Len(RewriteTodo) : RewriteTodo[k] # "append"
      /\ \A k \in 2..Len(RevertTodo) : RevertTodo[k] # "append"
  <2>1. \A k \in 2..4 : k \in {2, 3, 4}
    OBVIOUS
  <2>2. \A k \in 2..3 : k \in {2, 3}
    OBVIOUS
  <2> QED
    BY <2>1, <2>2 DEF OpTodo, RewriteTodo, RevertTodo
<1>2. OpTodo[1] # "append" /\ RewriteTodo[1] # "append" /\ RevertTodo[1] # "append"
  BY DEF OpTodo, RewriteTodo, RevertTodo
<1> QED
  BY <1>1, <1>2 DEF CallDay, Committing

LEMMA ProposeDays ==
  ASSUME IInv, DaysInv, NEW p \in Procs, NEW op, NEW gone, NEW new, NEW ev, Propose(p, op, gone, new, ev)
  PROVE  DaysInv'
<1> DEFINE next == Overlaid(Cleared(tree, gone), new)
           c == [todo |-> <<"commit", "export", "remove", "write">>,
                 tx |-> [id |-> <<op, DOMAIN new, ev>>, op |-> op, outputs |-> DOMAIN new,
                         prior |-> PriorOf(gone, new),
                         reverts |-> 0, tier |-> "suggested", day |-> today],
                 writes |-> At(next, Paths),
                 gone |-> Present(tree) \ Present(next)]
<1>1. call' = [call EXCEPT ![p] = c] /\ UNCHANGED <<annots, txs, shards, files, today, torn>>
  BY DEF Propose, database, history
<1>2. c.todo \in Committing /\ c.tx.day = today
  BY DEF Committing, OpTodo
<1> HIDE DEF c
<1> QED
  BY <1>1, <1>2, BeginsOnDay, CallOnly

LEMMA OpsDays ==
  ASSUME IInv, DaysInv, NEW p \in Procs, NEW ev \in Evidence,
         Make(p, ev) \/ Rename(p, ev) \/ Combine(p, ev) \/ Split(p, ev)
  PROVE  DaysInv'
<1>1. CASE Make(p, ev)
  BY <1>1, ProposeDays DEF Make
<1>2. CASE Rename(p, ev)
  BY <1>2, ProposeDays DEF Rename
<1>3. CASE Combine(p, ev)
  BY <1>3, ProposeDays DEF Combine
<1>4. CASE Split(p, ev)
  BY <1>4, ProposeDays DEF Split
<1> QED
  BY <1>1, <1>2, <1>3, <1>4

LEMMA RewriteDays ==
  ASSUME IInv, DaysInv, NEW p \in Procs, NEW k \in Contents, NEW ev \in Evidence, Rewrite(p, k, ev)
  PROVE  DaysInv'
<1> DEFINE c == [todo |-> <<"commit", "export", "write">>,
                 tx |-> [id |-> <<"rewrite", {RewritePath}, ev, k>>, op |-> "rewrite",
                         outputs |-> {RewritePath}, prior |-> [q \in {RewritePath} |-> Faithful],
                         reverts |-> 0, tier |-> "suggested", day |-> today],
                 writes |-> [q \in {RewritePath} |-> k], gone |-> {}]
<1>1. call' = [call EXCEPT ![p] = c] /\ UNCHANGED <<annots, txs, shards, files, today, torn>>
  BY DEF Rewrite, database, history
<1>2. c.todo \in Committing /\ c.tx.day = today
  BY DEF Committing, RewriteTodo
<1> HIDE DEF c
<1> QED
  BY <1>1, <1>2, BeginsOnDay, CallOnly

LEMMA RevertDays ==
  ASSUME IInv, DaysInv, NEW p \in Procs, NEW i \in DOMAIN txs, Revert(p, i)
  PROVE  DaysInv'
<1> DEFINE old == txs[i]
           c == [todo |-> <<"commit", "write", "remove", "export">>,
                 tx |-> [id |-> <<"revert", i, Len(txs)>>, op |-> old.op,
                         outputs |-> DOMAIN old.prior, prior |-> RevertPrior(old),
                         reverts |-> i, tier |-> "suggested", day |-> today],
                 writes |-> old.prior, gone |-> RevertGone(old)]
<1>1. call' = [call EXCEPT ![p] = c] /\ UNCHANGED <<annots, txs, shards, files, today, torn>>
  BY DEF Revert, database, history
<1>2. c.todo \in Committing /\ c.tx.day = today
  BY DEF Committing, RevertTodo
<1> HIDE DEF c
<1> QED
  BY <1>1, <1>2, BeginsOnDay, CallOnly

LEMMA EndDays ==
  ASSUME IInv, DaysInv, NEW p \in Procs, Reject(p) \/ Refuse(p) \/ Crash(p)
  PROVE  DaysInv'
<1>1. call' = [call EXCEPT ![p] = Idle] /\ UNCHANGED <<annots, txs, shards, files, today, torn>>
  BY DEF Reject, Refuse, Crash, database, history
<1>2. CallDay(Idle, annots, today)
  BY DEF CallDay, Idle
<1> QED
  BY <1>1, <1>2, CallOnly

LEMMA ProceedDay ==
  ASSUME IInv, CallDays, NEW p \in Procs, Calling(p), Proceed(p), today' = today,
         \A i \in 1..Len(annots) : i \in 1..Len(annots') /\ annots'[i] = annots[i]
  PROVE  CallDays'
<1>1. PICK c : c = Rest(call[p])
  OBVIOUS
<1>2. CallOk(call[p], Len(txs)) /\ call[p].todo # <<>> /\ CallDay(call[p], annots', today')
  BY DEF IInv, Calls, Calling, CallDays, CallDay
<1>3. CallDay(c, annots', today')
  BY <1>1, <1>2, RestDay
<1>4. call' = [call EXCEPT ![p] = c]
  BY <1>1 DEF Proceed
<1> QED
  BY <1>3, <1>4, OneCallDay

LEMMA TreeStepDays ==
  ASSUME IInv, DaysInv, NEW p \in Procs, WriteFiles(p) \/ RemoveFiles(p)
  PROVE  DaysInv'
<1>1. Calling(p) /\ Proceed(p) /\ UNCHANGED <<annots, txs, shards, files, today, torn>>
  BY DEF WriteFiles, RemoveFiles, Doing, database, history
<1> QED
  BY <1>1, ProceedDay, LogStays DEF DaysInv

LEMMA FilesStay ==
  ASSUME DaysInv, UNCHANGED <<annots, shards, files, today, torn>>, CallDays', TxDays'
  PROVE  DaysInv'
BY DEF DaysInv, AnnotDays, FileDays, Overtaken, LastAnnotDay

\* A transaction is committed on the day its call began.
LEMMA CommitDays ==
  ASSUME IInv, DaysInv, NEW p \in Procs, Commit(p)
  PROVE  DaysInv'
<1> PICK tx : tx = call[p].tx
  OBVIOUS
<1>1. /\ Calling(p) /\ Proceed(p) /\ call[p].todo[1] = "commit"
      /\ txs' = Append(txs, tx)
      /\ UNCHANGED <<annots, shards, files, today, torn>>
  BY DEF Commit, Doing
<1>2. tx \in Tx /\ tx.day = today
  BY <1>1 DEF DaysInv, CallDays, CallDay, Calling, IInv, Calls, CallOk
<1>3. /\ Len(txs) \in Nat /\ Len(txs') = Len(txs) + 1
      /\ \A i \in 1..Len(txs) : txs'[i] = txs[i]
      /\ txs'[Len(txs) + 1] = tx
  BY <1>1, <1>2, AppendProperties DEF IInv, Rows
<1>4. CallDays'
  BY <1>1, ProceedDay DEF DaysInv
<1>5. TxDays'
  <2>1. today \in 1..today
    BY DEF IInv, Rows, Days
  <2>2. \A i \in 1..Len(txs') : txs'[i].day \in 1..today
    BY <1>2, <1>3, <2>1 DEF DaysInv, TxDays
  <2>3. \A i \in 1..Len(shards) : i \in 1..Len(txs)
    BY <1>3 DEF IInv, Rows, ShardsLag
  <2> QED
    BY <1>1, <1>3, <2>2, <2>3 DEF DaysInv, TxDays
<1> QED
  BY <1>1, <1>4, <1>5, FilesStay

LEMMA PromoteDays ==
  ASSUME IInv, DaysInv, NEW p \in Procs, NEW i \in DOMAIN txs, Promote(p, i)
  PROVE  DaysInv'
<1> PICK row : row = [txs[i] EXCEPT !.tier = "confirmed"]
  OBVIOUS
<1> PICK c : c = OneStep("export", <<>>)
  OBVIOUS
<1>1. /\ txs' = [txs EXCEPT ![i] = row]
      /\ call' = [call EXCEPT ![p] = c]
      /\ UNCHANGED <<annots, shards, files, today, torn>>
  BY DEF Promote, history
<1>2. txs \in Seq(Tx) /\ i \in 1..Len(txs) /\ txs[i] \in Tx
  BY DEF IInv, Rows
<1>3. row \in Tx /\ row.day = txs[i].day
  BY <1>2 DEF Tx
<1>4. Len(txs') = Len(txs) /\ \A j \in 1..Len(txs) : txs'[j].day = txs[j].day
  BY <1>1, <1>2, <1>3, ExceptSeq
<1>5. CallDay(c, annots, today)
  BY DEF CallDay, OneStep
<1>6. CallDays'
  BY <1>1, <1>5, OneCallDay DEF DaysInv
<1>7. TxDays'
  <2>1. \A j \in 1..Len(shards) : j \in 1..Len(txs)
    BY DEF IInv, Rows, ShardsLag
  <2> QED
    BY <1>1, <1>4, <2>1 DEF DaysInv, TxDays
<1> QED
  BY <1>1, <1>6, <1>7, FilesStay

\* The rows come back from the shards, of the same days; no call runs.
LEMMA RebuildDays ==
  ASSUME IInv, DaysInv, RebuildProject
  PROVE  DaysInv'
<1>1. /\ \A p \in Procs : ~Calling(p)
      /\ txs' = shards /\ UNCHANGED <<annots, shards, files, today, call, torn>>
  BY DEF RebuildProject
<1>2. CallDays'
  BY <1>1 DEF DaysInv, CallDays
<1>3. \A j \in 1..Len(shards) : j \in 1..Len(txs)
  BY DEF IInv, Rows, ShardsLag
<1>4. TxDays'
  BY <1>1, <1>3 DEF DaysInv, TxDays
<1> QED
  BY <1>1, <1>2, <1>4, FilesStay

LEMMA NextDayDays ==
  ASSUME IInv, IInv', DaysInv, NextDay
  PROVE  DaysInv'
<1>1. /\ \A p \in Procs : ~Calling(p)
      /\ today' = today + 1 /\ UNCHANGED <<annots, txs, shards, files, call, torn>>
  BY DEF NextDay, database, history
<1>2. CallDays'
  BY <1>1 DEF Calling, DaysInv, CallDays, CallDay
<1>3. today \in Nat /\ (\A d \in Days : d \in Nat)
  BY DEF IInv, Rows, Days
<1>4. AnnotDays'
  <2>1. \A i \in 1..Len(annots) : annots[i] \in Days
    BY DEF IInv, Rows
  <2> QED
    BY <1>1, <1>3, <2>1 DEF DaysInv, AnnotDays
<1>5. TxDays'
  <2>1. \A d \in 1..today : d \in 1..(today + 1)
    BY <1>3
  <2> QED
    BY <1>1, <2>1 DEF DaysInv, TxDays
<1>6. FileDays'
  <2>1. \A d \in Days : d <= today => d <= today + 1
    BY <1>3
  <2> QED
    BY <1>1, <2>1 DEF DaysInv, FileDays
<1>7. (torn \/ Overtaken \/ Chained(files))'
  BY <1>1 DEF DaysInv, Overtaken, LastAnnotDay
<1> QED
  BY <1>2, <1>4, <1>5, <1>6, <1>7 DEF DaysInv
-----------------------------------------------------------------------------
(* The day files are written.                                              *)

\* A row more in the log table: no file becomes one that was not overtaken.
LEMMA AnnotateDays ==
  ASSUME IInv, IInv', DaysInv, NEW p \in Procs, Annotate(p)
  PROVE  DaysInv'
<1> PICK c : c = OneStep("append", Len(annots'))
  OBVIOUS
<1>1. /\ annots' = Append(annots, today)
      /\ call' = [call EXCEPT ![p] = c]
      /\ UNCHANGED <<txs, shards, files, today, torn>>
  BY DEF Annotate, history
<1>2. today \in Days /\ today \in Nat /\ annots \in Seq(Days) /\ Len(annots) \in Nat
  BY DEF IInv, Rows, Days
<1>3. /\ Len(annots') = Len(annots) + 1
      /\ \A i \in 1..Len(annots) : annots'[i] = annots[i]
      /\ annots'[Len(annots) + 1] = today
  BY <1>1, <1>2, AppendProperties
<1>4. CallDays'
  <2>1. c.todo = <<"append">> /\ c.tx = Len(annots) + 1
    BY <1>3 DEF OneStep
  <2>2. Len(annots) + 1 \in 1..Len(annots')
    BY <1>2, <1>3
  <2>3. CallDay(c, annots', today')
    BY <1>1, <1>3, <2>1, <2>2 DEF CallDay
  <2>4. \A i \in 1..Len(annots) : i \in 1..Len(annots')
    BY <1>2, <1>3
  <2> QED
    BY <1>1, <1>3, <2>3, <2>4, OneCallDay DEF DaysInv
<1>5. AnnotDays'
  <2>1. \A i \in 1..Len(annots') : i \in 1..Len(annots) \/ i = Len(annots) + 1
    BY <1>2, <1>3
  <2>2. \A i \in 1..Len(annots') : annots'[i] <= today
    BY <1>2, <1>3, <2>1 DEF DaysInv, AnnotDays
  <2>3. ASSUME NEW i \in 1..Len(annots'), NEW j \in 1..Len(annots'), i <= j
        PROVE  annots'[i] <= annots'[j]
    <3>1. CASE j = Len(annots) + 1
      BY <1>3, <2>2, <3>1
    <3>2. CASE j # Len(annots) + 1
      <4>1. i \in 1..Len(annots) /\ j \in 1..Len(annots)
        BY <1>2, <1>3, <2>3, <3>2
      <4> QED
        BY <1>3, <2>3, <4>1 DEF DaysInv, AnnotDays
    <3> QED
      BY <3>1, <3>2
  <2>4. Len(annots') >= 1
    BY <1>2, <1>3
  <2> QED
    BY <1>1, <2>2, <2>3, <2>4 DEF AnnotDays
<1>6. /\ LastAnnotDay <= today /\ LastAnnotDay \in Days
      /\ \A d : d \in Range(annots) <=> \E i \in 1..Len(annots) : annots[i] = d
  BY LastAnnotIs DEF DaysInv
<1>7. /\ LastAnnotDay' \in Days
      /\ \A i \in 1..Len(annots') : annots'[i] <= LastAnnotDay'
      /\ \A d : d \in Range(annots)' <=> \E i \in 1..Len(annots') : annots'[i] = d
  <2>1. PICK rows : rows = annots'
    OBVIOUS
  <2>2. rows \in Seq(Days) /\ Len(rows) >= 1 /\ \A i \in 1..Len(rows) : rows[i] <= today
    BY <1>1, <1>5, <2>1 DEF AnnotDays, IInv, Rows
  <2>3. /\ Max(Range(rows)) \in Days
        /\ \A i \in 1..Len(rows) : rows[i] <= Max(Range(rows))
        /\ \A d : d \in Range(rows) <=> \E i \in 1..Len(rows) : rows[i] = d
    BY <2>2, LastDayIs
  <2>4. Max(Range(rows)) = LastAnnotDay'
    BY <2>1 DEF LastAnnotDay
  <2>5. Range(annots)' = Range(rows)
    BY <2>1
  <2> QED
    BY <2>1, <2>3, <2>4, <2>5
<1>8. \A d : d \in Range(annots)' <=> d \in Range(annots) \/ d = today
  <2>1. \A i : i \in 1..Len(annots') <=> i \in 1..Len(annots) \/ i = Len(annots) + 1
    BY <1>2, <1>3
  <2> QED
    BY <1>3, <1>6, <1>7, <2>1
<1>9. FileDays'
  BY <1>1, <1>8 DEF DaysInv, FileDays
<1>10. Overtaken => Overtaken'
  <2> SUFFICES ASSUME NEW d \in Days, files[d] # <<>>, d < LastAnnotDay, d \notin Range(annots)
               PROVE  Overtaken'
    BY DEF Overtaken
  <2>1. today <= LastAnnotDay'
    <3>1. Len(annots) + 1 \in 1..Len(annots')
      BY <1>2, <1>3
    <3> QED
      BY <1>3, <1>7, <3>1
  <2>2. d \in Nat /\ LastAnnotDay \in Nat /\ LastAnnotDay' \in Nat
    BY <1>6, <1>7 DEF Days
  <2>3. d < today /\ d < LastAnnotDay'
    BY <1>2, <1>6, <2>1, <2>2
  <2>4. d \notin Range(annots)'
    BY <1>2, <1>8, <2>2, <2>3
  <2> QED
    BY <1>1, <2>3, <2>4 DEF Overtaken
<1> QED
  BY <1>1, <1>4, <1>5, <1>9, <1>10 DEF DaysInv, TxDays

\* One more line, of today: all the others are of days that have come.
LEMMA AppendDays ==
  ASSUME IInv, DaysInv, NEW p \in Procs, AppendEntry(p)
  PROVE  DaysInv'
<1>1. /\ Calling(p) /\ Proceed(p) /\ call[p].todo[1] = "append"
      /\ files' = Appended(files, annots[call[p].tx], <<"annot", call[p].tx>>)
      /\ UNCHANGED <<annots, txs, shards, today, torn>>
  BY DEF AppendEntry, Doing, database, history
<1>2. PICK i \in 1..Len(annots) : i = call[p].tx /\ annots[i] = today
  BY <1>1 DEF DaysInv, CallDays, CallDay, Calling
<1>3. today \in Days /\ files \in FilesOf(Bodies)
  BY DEF IInv, Rows, DaysInv, FileDays
<1>4. <<"annot", i>> \in Bodies
  BY DEF IInv, Rows, Bodies
<1>5. files' = Appended(files, today, <<"annot", i>>)
  BY <1>1, <1>2
<1>6. PICK e \in Entries(Bodies) :
        e.prev = HashAfter(files, LinesIn(files)) /\ Longer(files, files', today, e)
  BY <1>3, <1>4, <1>5, AppendedIs
<1>7. files' \in FilesOf(Bodies)
  BY <1>3, <1>4, <1>5, AppendedIs
<1>8. /\ \A d \in Days : d # today => files'[d] = files[d]
      /\ \A d \in Days : files[d] # <<>> => files'[d] # <<>>
  <2>1. \A d \in Days \ {today} : files'[d] = files[d]
    BY <1>6 DEF Longer
  <2>2. files'[today] # <<>>
    <3>1. Len(files'[today]) = Len(files[today]) + 1 /\ Len(files[today]) \in Nat
      BY <1>3, <1>6, FileIs DEF Longer
    <3> QED
      BY <3>1
  <2> QED
    BY <2>1, <2>2
<1>9. CallDays'
  BY <1>1, ProceedDay DEF DaysInv
<1>10. FileDays'
  <2>1. today \in Range(annots) /\ today <= today
    BY <1>2, <1>3, LastAnnotIs DEF DaysInv, Days
  <2> QED
    BY <1>1, <1>7, <1>8, <2>1 DEF DaysInv, FileDays
<1>11. Overtaken => Overtaken'
  BY <1>1, <1>8 DEF Overtaken, LastAnnotDay
<1>12. Chained(files) => Chained(files')
  <2>1. PICK n \in Nat : n = Len(files[today])
    BY <1>3, FileIs
  <2>2. \A x \in LinesIn(files) : /\ Before(x, <<today, n + 1>>)
                                  /\ ~Before(<<today, n + 1>>, x)
    <3> TAKE x \in LinesIn(files)
    <3>1. PICK d \in Days : \E k \in 1..Len(files[d]) : x = <<d, k>>
      BY <1>3, LinesAre
    <3>2. PICK k \in 1..Len(files[d]) : x = <<d, k>>
      BY <3>1
    <3>3. files[d] # <<>> /\ Len(files[d]) \in Nat
      BY <1>3, <3>2, FileIs
    <3>4. d <= today
      BY <3>3 DEF DaysInv, FileDays
    <3>5. d \in Nat /\ today \in Nat /\ k \in Nat /\ (d = today => k <= n)
      BY <1>3, <2>1, <3>2, <3>3 DEF Days
    <3> QED
      BY <3>2, <3>4, <3>5 DEF Before
  <2> QED
    BY <1>3, <1>6, <1>7, <2>1, <2>2, ChainedOnward
<1> QED
  BY <1>1, <1>9, <1>10, <1>11, <1>12 DEF DaysInv, AnnotDays, TxDays

\* The log again, in the files of some days: all have come.  If it is in those
\* of all days, the files it leaves alone are overtaken.
LEMMA WrittenDays ==
  ASSUME IInv, DaysInv, NEW days \in SUBSET Days,
         shards' = txs, files' = BulkFiles(days), UNCHANGED <<annots, txs, today>>
  PROVE  /\ (AnnotDays /\ TxDays /\ FileDays)'
         /\ days = Days => (Overtaken \/ Chained(files))'
<1>1. files' = Rechained(files, Filed, days)
  BY DEF BulkFiles
<1>2. AnnotDays /\ TxDays /\ FileDays /\ files \in FilesOf(Bodies)
  BY DEF DaysInv, FileDays
<1>3. PICK log : log = Filed
  OBVIOUS
<1>4. log \in Seq(Logged(Bodies))
  BY <1>2, <1>3, FiledIs
<1>5. /\ files' \in FilesOf(Bodies)
      /\ \A d \in Days :
           \/ d \in days /\ OnDay(log, d) # <<>> /\ files'[d] = DayFile(log, d)
           \/ (d \notin days \/ OnDay(log, d) = <<>>) /\ files'[d] = files[d]
  BY <1>1, <1>2, <1>3, <1>4, RechainedIs
<1>6. \A d \in Days : OnDay(log, d) # <<>> <=> \E i \in 1..Len(log) : log[i].day = d
  <2> TAKE d \in Days
  <2>1. PICK c \in Nat :
          /\ \A k \in 1..c : OnDay(log, d)[k] \in 1..Len(log) /\ log[OnDay(log, d)[k]].day = d
          /\ \A i \in 1..Len(log) : log[i].day = d => \E k \in 1..c : OnDay(log, d)[k] = i
          /\ c = 0 <=> OnDay(log, d) = <<>>
    BY <1>4, OnDayIs
  <2>2. c # 0 => 1 \in 1..c
    OBVIOUS
  <2> QED
    BY <2>1, <2>2
<1>7. \A d \in Days : files[d] # <<>> => d <= today /\ (d \in Range(annots) \/ TailDay(d, txs))
  <2>1. \A i \in 1..Len(shards) : i \in 1..Len(txs) /\ shards[i].day = txs[i].day
    BY DEF IInv, Rows, ShardsLag, DaysInv, TxDays
  <2>2. \A d : TailDay(d, shards) => TailDay(d, txs)
    <3> SUFFICES ASSUME NEW d, NEW i \in 1..Len(shards), shards[i].day = d,
                        \A j \in 1..i : shards[j].day <= d
                 PROVE  TailDay(d, txs)
      BY DEF TailDay
    <3>1. \A j \in 1..i : j \in 1..Len(shards)
      BY DEF IInv, Rows
    <3> QED
      BY <2>1, <3>1 DEF TailDay
  <2> QED
    BY <2>2 DEF DaysInv, FileDays
<1>9. FileDays'
  <2> SUFFICES ASSUME NEW d \in Days, files'[d] # <<>>
               PROVE  d <= today /\ (d \in Range(annots) \/ TailDay(d, txs))
    BY <1>5 DEF FileDays
  <2>1. CASE OnDay(log, d) # <<>>
    BY <1>2, <1>3, <1>6, <2>1, FiledUnder
  <2>2. CASE files'[d] = files[d]
    BY <1>7, <2>2
  <2> QED
    BY <1>5, <2>1, <2>2
<1>10. LastAnnotDay \in Nat /\ \A d \in Days : d \in Nat
  BY <1>2, LastAnnotIs DEF Days
<1>11. Overtaken => Overtaken'
  <2> SUFFICES ASSUME NEW d \in Days, files[d] # <<>>, d < LastAnnotDay, d \notin Range(annots)
               PROVE  Overtaken'
    BY DEF Overtaken
  <2>1. \A i \in 1..Len(log) : log[i].day # d
    BY <1>2, <1>3, <1>10, FiledUnder
  <2>2. files'[d] # <<>>
    BY <1>5, <1>6, <2>1
  <2> QED
    BY <2>2 DEF Overtaken, LastAnnotDay
<1>12. ~Overtaken /\ days = Days => Chained(files')
  <2> SUFFICES ASSUME ~Overtaken, days = Days PROVE Chained(files')
    OBVIOUS
  <2>1. \A i, j \in 1..Len(log) : i < j => log[i].day <= log[j].day
    BY <1>2, <1>3, FiledGrows
  <2>2. ASSUME NEW d \in Days, Len(files[d]) # 0
        PROVE  \E i \in 1..Len(log) : log[i].day = d
    <3>1. files[d] # <<>>
      BY <2>2
    <3>2. d \in Range(annots) \/ (~(d < LastAnnotDay) /\ TailDay(d, txs))
      BY <1>7, <3>1 DEF Overtaken
    <3>3. d \in Range(annots) \/ (LastAnnotDay <= d /\ TailDay(d, txs))
      BY <1>10, <3>2
    <3> QED
      BY <1>2, <1>3, <3>3, FiledCovers
  <2> QED
    BY <1>1, <1>2, <1>3, <1>4, <2>1, <2>2, RechainedChains
<1>13. (AnnotDays /\ TxDays)'
  BY <1>2 DEF AnnotDays, TxDays
<1> QED
  BY <1>9, <1>11, <1>12, <1>13

LEMMA ExportDays ==
  ASSUME IInv, DaysInv, NEW p \in Procs, Export(p)
  PROVE  DaysInv'
<1>1. /\ Calling(p) /\ Proceed(p) /\ shards' = txs /\ files' = BulkFiles(Days)
      /\ UNCHANGED <<annots, txs, today>>
  BY DEF Export, Doing, database
<1>2. CallDays'
  BY <1>1, ProceedDay DEF DaysInv
<1> QED
  BY <1>1, <1>2, WrittenDays DEF DaysInv

\* More shards tell of no fewer days.
LEMMA TailGrows ==
  ASSUME IInv, TxDays, NEW new, PartShards(new), NEW d, TailDay(d, shards)
  PROVE  TailDay(d, new)
<1>1. PICK i \in 1..Len(shards) : shards[i].day = d /\ \A j \in 1..i : shards[j].day <= d
  BY DEF TailDay
<1>2. \A j \in 1..i : j \in 1..Len(shards) /\ j \in 1..Len(new)
  BY DEF IInv, Rows, PartShards
<1>3. \A j \in 1..i : new[j].day = shards[j].day
  BY <1>2 DEF PartShards, TxDays
<1>4. i \in 1..i
  BY DEF IInv, Rows
<1> QED
  BY <1>1, <1>2, <1>3, <1>4 DEF TailDay

\* An export that dies has written some shards, or some days' files.
LEMMA DieExportingDays ==
  ASSUME IInv, DaysInv, NEW p \in Procs, DieExporting(p)
  PROVE  DaysInv'
<1>1. /\ call' = [call EXCEPT ![p] = Idle]
      /\ UNCHANGED <<annots, txs, today>>
  BY DEF DieExporting, database
<1>2. CallDays'
  <2>1. CallDay(Idle, annots', today')
    BY DEF CallDay, Idle
  <2> QED
    BY <1>1, <2>1, OneCallDay DEF DaysInv
<1>3. CASE UNCHANGED <<files, torn>>
  <2>1. PartShards(shards')
    BY DieExportingIs
  <2>2. TxDays'
    BY <1>1, <2>1 DEF DaysInv, TxDays, PartShards, IInv, Rows
  <2>3. FileDays'
    BY <1>1, <1>3, <2>1, TailGrows DEF DaysInv, FileDays
  <2> QED
    BY <1>1, <1>2, <1>3, <2>2, <2>3 DEF DaysInv, AnnotDays, Overtaken, LastAnnotDay
<1>4. CASE /\ shards' = txs
           /\ \E d \in Days : files' = BulkFiles(1..d)
           /\ torn' = (files' # BulkFiles(Days))
  <2>1. PICK d \in Days : files' = BulkFiles(1..d)
    BY <1>4
  <2>2. 1..d \in SUBSET Days
    BY MaxDayAssumption DEF Days
  <2>3. (AnnotDays /\ TxDays /\ FileDays)'
    BY <1>1, <1>4, <2>1, <2>2, WrittenDays
  <2>4. torn' \/ (Overtaken \/ Chained(files))'
    BY <1>1, <1>4, WrittenDays
  <2> QED
    BY <1>2, <2>3, <2>4 DEF DaysInv
<1> QED
  BY <1>3, <1>4 DEF DieExporting


LEMMA NextDays == IInv /\ IInv' /\ DaysInv /\ [Next]_vars => DaysInv'
<1> SUFFICES ASSUME IInv, IInv', DaysInv, [Next]_vars PROVE DaysInv'
  OBVIOUS
<1>1. ASSUME NEW p \in Procs, NEW ev \in Evidence,
             Make(p, ev) \/ Rename(p, ev) \/ Combine(p, ev) \/ Split(p, ev) PROVE DaysInv'
  BY <1>1, OpsDays
<1>2. ASSUME NEW p \in Procs, NEW ev \in Evidence, NEW k \in Contents, Rewrite(p, k, ev) PROVE DaysInv'
  BY <1>2, RewriteDays
<1>3. ASSUME NEW p \in Procs, NEW i \in DOMAIN txs, Revert(p, i) \/ Promote(p, i) PROVE DaysInv'
  BY <1>3, RevertDays, PromoteDays
<1>4. ASSUME NEW p \in Procs, Reject(p) \/ Refuse(p) \/ Crash(p) PROVE DaysInv'
  BY <1>4, EndDays
<1>5. ASSUME NEW p \in Procs, WriteFiles(p) \/ RemoveFiles(p) PROVE DaysInv'
  BY <1>5, TreeStepDays
<1>6. ASSUME NEW p \in Procs, Commit(p) \/ Annotate(p) PROVE DaysInv'
  BY <1>6, CommitDays, AnnotateDays
<1>7. ASSUME NEW p \in Procs, Export(p) \/ AppendEntry(p) PROVE DaysInv'
  BY <1>7, ExportDays, AppendDays
<1>8. ASSUME RebuildProject \/ NextDay PROVE DaysInv'
  BY <1>8, RebuildDays, NextDayDays
<1>9. CASE UNCHANGED vars
  BY <1>9, LogStays DEF vars, database, history, DaysInv, CallDays
<1>10. ASSUME NEW p \in Procs, DieExporting(p) PROVE DaysInv'
  BY <1>10, DieExportingDays
<1> QED
  BY <1>1, <1>2, <1>3, <1>4, <1>5, <1>6, <1>7, <1>8, <1>9, <1>10 DEF Next

\* With one process serving, verify's chain check over the day files passes
\* for as long as no annotation is of a later day than a file that holds
\* transactions only, and no export has died with day files not written since
\* the last that went through: whatever the process annotates, transacts,
\* exports and rebuilds, on any days, and wherever it dies.  (One process,
\* because an export that another's interrupts is not among the steps.)
THEOREM ChainBreaksOnlyThus == OneProcess => (Spec => []ChainUnlessOvertaken)
<1> SUFFICES Spec => []ChainUnlessOvertaken
  OBVIOUS
<1>1. Init /\ IInv => DaysInv
  <2> SUFFICES ASSUME Init, IInv PROVE DaysInv
    OBVIOUS
  <2>1. today \in Nat /\ 1 <= today
    BY DEF IInv, Rows, Days
  <2>2. CallDays
    BY DEF Init, CallDays, CallDay, Idle
  <2>3. AnnotDays
    <3>1. Len(annots) = 1 /\ annots[1] = 1
      BY DEF Init
    <3> QED
      BY <2>1, <3>1 DEF AnnotDays
  <2>4. TxDays
    BY DEF Init, TxDays
  <2>5. files \in FilesOf(Bodies) /\ \A d \in Days : files[d] = <<>>
    BY DEF Init, FilesOf
  <2>6. Chained(files)
    <3>1. LinesIn(files) = {}
      BY <2>5 DEF LinesIn
    <3> QED
      BY <3>1 DEF Chained
  <2> QED
    BY <2>2, <2>3, <2>4, <2>5, <2>6 DEF DaysInv, FileDays
<1>2. IInv /\ IInv' /\ DaysInv /\ [Next]_vars => DaysInv'
  BY NextDays
<1>3. DaysInv => ChainUnlessOvertaken
  BY DEF DaysInv, Overtaken, ChainUnlessOvertaken, ChainContinuous
<1> QED
  BY <1>1, <1>2, <1>3, Inductive, PTL DEF Spec
=============================================================================
