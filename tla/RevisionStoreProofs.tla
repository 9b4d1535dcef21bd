------------------------ MODULE RevisionStoreProofs ------------------------
(***************************************************************************)
(* What the database revision engine guarantees for every set of slots,    *)
(* values, stamps and clients: its rows resolve, its reads land on content *)
(* rows, its log announces every row once, and readers see a slot store.   *)
(***************************************************************************)
EXTENDS RevisionStore, FiniteSetTheorems, TLAPS

\* The rid read before BEGIN is, still at COMMIT, a content row of the slot:
\* rows are only appended, so what another client commits cannot undo it.
PendingResolves ==
  \A c \in Clients :
    /\ pending[c].op = "set" /\ pending[c].prior # NoRid =>
         pending[c].prior \in ContentOf(revisions, pending[c].slot)
    /\ pending[c].op = "revert" /\ pending[c].next # NoRid =>
         pending[c].next \in ContentOf(revisions, pending[c].slot)

\* A slot with rows has a greatest rid, so HeadRid is what its name says.
IsHead(rows, s, h) == h \in RidsOf(rows, s) /\ \A q \in RidsOf(rows, s) : q <= h
HeadsExist ==
  \A s \in Slots :
    RidsOf(revisions, s) # {} => IsHead(revisions, s, HeadRid(revisions, s))

IInv ==
  /\ TypeOK
  /\ LogAnnouncesRows
  /\ RowsResolve
  /\ HeadsExist
  /\ PendingResolves
-----------------------------------------------------------------------------
\* Appending a row leaves every older row, and what it means, alone.
LEMMA AppendRow ==
  ASSUME NEW rows \in Seq(Row), NEW row \in Row, NEW more, more = Append(rows, row)
  PROVE  /\ more \in Seq(Row)
         /\ Len(more) = Len(rows) + 1
         /\ more[Len(rows) + 1] = row
         /\ \A r \in 1..Len(rows) : more[r] = rows[r]
OBVIOUS

\* The rids of a slot after an append.
LEMMA AppendRids ==
  ASSUME NEW rows \in Seq(Row), NEW row \in Row, NEW s
  PROVE  RidsOf(Append(rows, row), s) =
           IF row.slot = s THEN RidsOf(rows, s) \cup {Len(rows) + 1} ELSE RidsOf(rows, s)
BY AppendRow DEF RidsOf

\* The content rows of a slot after an append: none is lost.
LEMMA AppendContent ==
  ASSUME NEW rows \in Seq(Row), NEW row \in Row, NEW s,
         row.slot \in Slots
  PROVE  ContentOf(Append(rows, row), s) =
           IF row.slot = s /\ row.reactivates = NoRid /\ ~row.cleared
           THEN ContentOf(rows, s) \cup {Len(rows) + 1} ELSE ContentOf(rows, s)
<1> DEFINE more == Append(rows, row)
<1>1. \A r \in 1..Len(rows) : more[r] = rows[r]
  BY AppendRow
<1>2. more[Len(rows) + 1] = row /\ Len(rows) + 1 \notin RidsOf(rows, s)
  BY AppendRow DEF RidsOf
<1>3. \A r \in RidsOf(rows, s) : IsContent(more, r) = IsContent(rows, r)
  BY <1>1 DEF IsContent, RidsOf
<1>4. IsContent(more, Len(rows) + 1) = (row.reactivates = NoRid /\ ~row.cleared)
  BY <1>2 DEF IsContent
<1> HIDE DEF more
<1>5. RidsOf(more, s) =
        IF row.slot = s THEN RidsOf(rows, s) \cup {Len(rows) + 1} ELSE RidsOf(rows, s)
  BY AppendRids DEF more
<1>6. ContentOf(more, s) = {r \in RidsOf(more, s) : IsContent(more, r)}
  BY DEF ContentOf
<1>7. ContentOf(rows, s) = {r \in RidsOf(rows, s) : IsContent(rows, r)}
  BY DEF ContentOf
<1> QED
  BY <1>2, <1>3, <1>4, <1>5, <1>6, <1>7 DEF more

\* A slot has one greatest rid, whatever way it is found.
LEMMA HeadUnique ==
  ASSUME NEW rows \in Seq(Row), NEW s, NEW h, IsHead(rows, s, h)
  PROVE  HeadRid(rows, s) = h
<1>1. RidsOf(rows, s) \subseteq Nat
  BY DEF RidsOf
<1>2. \A r \in RidsOf(rows, s) : (\A q \in RidsOf(rows, s) : q <= r) => r = h
  BY <1>1 DEF IsHead
<1> QED
  BY <1>2 DEF IsHead, HeadRid, Greatest

\* After an append the row's own slot has the new row as its head; the head
\* of every other slot is what it was.
LEMMA AppendHead ==
  ASSUME NEW rows \in Seq(Row), NEW row \in Row, NEW s
  PROVE  /\ row.slot = s =>
              /\ IsHead(Append(rows, row), s, Len(rows) + 1)
              /\ HeadRid(Append(rows, row), s) = Len(rows) + 1
         /\ row.slot # s => HeadRid(Append(rows, row), s) = HeadRid(rows, s)
<1> DEFINE more == Append(rows, row)
<1>1. more \in Seq(Row)
  BY AppendRow
<1>2. CASE row.slot = s
  <2>1. RidsOf(more, s) = RidsOf(rows, s) \cup {Len(rows) + 1}
    BY <1>2, AppendRids
  <2>2. \A q \in RidsOf(rows, s) : q <= Len(rows) + 1
    BY DEF RidsOf
  <2>3. IsHead(more, s, Len(rows) + 1)
    BY <2>1, <2>2 DEF IsHead
  <2> QED
    BY <1>1, <1>2, <2>3, HeadUnique
<1>3. CASE row.slot # s
  <2>1. RidsOf(more, s) = RidsOf(rows, s)
    BY <1>3, AppendRids
  <2> QED
    BY <1>3, <2>1 DEF HeadRid
<1> QED
  BY <1>2, <1>3
-----------------------------------------------------------------------------
\* What one transaction does, whichever operation it belongs to: a row whose
\* references resolve keeps every part of the invariant about the tables.
LEMMA InsertKeeps ==
  ASSUME IInv, NEW row \in Row, NEW op,
         Insert(row, op),
         op = IF row.reactivates = NoRid /\ ~row.cleared THEN "annotate" ELSE "revert",
         row.supersedes # NoRid =>
           /\ row.supersedes \in ContentOf(revisions, row.slot)
           /\ row.reactivates = NoRid /\ ~row.cleared,
         row.reactivates # NoRid =>
           /\ row.reactivates \in ContentOf(revisions, row.slot)
           /\ ~row.cleared
  PROVE  /\ revisions' \in Seq(Row)
         /\ log' \in Seq({"annotate", "revert"} \X Nat)
         /\ LogAnnouncesRows'
         /\ RowsResolve'
         /\ HeadsExist'
         /\ \A s : ContentOf(revisions, s) \subseteq ContentOf(revisions', s)
<1> DEFINE n == Len(revisions)
<1>1. revisions \in Seq(Row) /\ row.slot \in Slots /\ n \in Nat
  BY DEF IInv, TypeOK, Row
<1>2. revisions' = Append(revisions, row)
  BY DEF Insert
<1>3. /\ revisions' \in Seq(Row)
      /\ Len(revisions') = n + 1
      /\ revisions'[n + 1] = row
      /\ \A r \in 1..n : revisions'[r] = revisions[r]
  BY <1>1, <1>2, AppendRow
<1>4. log' \in Seq({"annotate", "revert"} \X Nat)
  BY <1>1 DEF IInv, TypeOK, Insert
<1>5. \A s : ContentOf(revisions, s) \subseteq ContentOf(revisions', s)
  BY <1>1, <1>2, AppendContent
<1>6. /\ \A r \in 1..n : IsContent(revisions', r) = IsContent(revisions, r)
      /\ IsContent(revisions', n + 1) = (row.reactivates = NoRid /\ ~row.cleared)
  BY <1>3 DEF IsContent
<1>7. LogAnnouncesRows'
  <2>1. Len(log) = n /\ log \in Seq({"annotate", "revert"} \X Nat)
    BY DEF IInv, LogAnnouncesRows, TypeOK
  <2>2. log' = Append(log, <<op, n + 1>>)
    BY DEF Insert
  <2>3. /\ Len(log') = n + 1
        /\ log'[n + 1] = <<op, n + 1>>
        /\ \A r \in 1..n : log'[r] = log[r]
    BY <1>1, <2>1, <2>2
  <2>4. \A r \in 1..n :
          log[r] = <<IF IsContent(revisions, r) THEN "annotate" ELSE "revert", r>>
    BY DEF IInv, LogAnnouncesRows
  <2>5. ASSUME NEW r \in 1..(n + 1)
        PROVE  log'[r] = <<IF IsContent(revisions', r) THEN "annotate" ELSE "revert", r>>
    <3>1. CASE r = n + 1
      BY <3>1, <2>3, <1>6
    <3>2. CASE r # n + 1
      <4>1. r \in 1..n
        BY <3>2, <1>1
      <4> QED
        BY <4>1, <2>3, <2>4, <1>6
    <3> QED
      BY <3>1, <3>2
  <2> QED
    BY <2>3, <2>5, <1>3 DEF LogAnnouncesRows
<1>8. RowsResolve'
  <2>1. ContentOf(revisions, row.slot) \subseteq 1..n
    BY DEF ContentOf, RidsOf
  <2>2. ASSUME NEW r \in 1..(n + 1)
        PROVE  /\ revisions'[r].supersedes # NoRid =>
                    /\ revisions'[r].supersedes < r
                    /\ revisions'[r].supersedes \in ContentOf(revisions', revisions'[r].slot)
                    /\ IsContent(revisions', r)
               /\ revisions'[r].reactivates # NoRid =>
                    /\ revisions'[r].reactivates < r
                    /\ revisions'[r].reactivates \in ContentOf(revisions', revisions'[r].slot)
                    /\ ~revisions'[r].cleared
    <3>1. CASE r = n + 1
      <4>1. \A p \in ContentOf(revisions, row.slot) : p < n + 1
        BY <2>1, <1>1
      <4> QED
        BY <3>1, <4>1, <1>3, <1>5, <1>6
    <3>2. CASE r # n + 1
      <4>1. r \in 1..n
        BY <3>2, <1>1
      <4>2. revisions'[r] = revisions[r] /\ IsContent(revisions', r) = IsContent(revisions, r)
        BY <4>1, <1>3, <1>6
      <4>3. /\ revisions[r].supersedes # NoRid =>
                 /\ revisions[r].supersedes < r
                 /\ revisions[r].supersedes \in ContentOf(revisions, revisions[r].slot)
                 /\ IsContent(revisions, r)
            /\ revisions[r].reactivates # NoRid =>
                 /\ revisions[r].reactivates < r
                 /\ revisions[r].reactivates \in ContentOf(revisions, revisions[r].slot)
                 /\ ~revisions[r].cleared
        BY <4>1 DEF IInv, RowsResolve
      <4> QED
        BY <4>2, <4>3, <1>5
    <3> QED
      BY <3>1, <3>2
  <2> QED
    BY <2>2, <1>3 DEF RowsResolve
<1>9. HeadsExist'
  <2>1. ASSUME NEW s \in Slots, RidsOf(revisions', s) # {}
        PROVE  IsHead(revisions', s, HeadRid(revisions', s))
    <3>1. CASE row.slot = s
      BY <3>1, <1>1, <1>2, AppendHead
    <3>2. CASE row.slot # s
      <4>1. RidsOf(revisions', s) = RidsOf(revisions, s)
        BY <3>2, <1>1, <1>2, AppendRids
      <4>2. IsHead(revisions, s, HeadRid(revisions, s))
        BY <2>1, <4>1 DEF IInv, HeadsExist
      <4> QED
        BY <3>2, <4>1, <4>2, <1>1, <1>2, AppendHead DEF IsHead
    <3> QED
      BY <3>1, <3>2
  <2> QED
    BY <2>1 DEF HeadsExist
<1> QED
  BY <1>3, <1>4, <1>5, <1>7, <1>8, <1>9

\* What v_active resolves a slot to is a content row of the slot.
LEMMA PayloadIsContent ==
  ASSUME IInv, NEW s \in Slots
  PROVE  /\ ActivePayload(revisions, s) \in Nat
         /\ ActivePayload(revisions, s) # NoRid =>
              ActivePayload(revisions, s) \in ContentOf(revisions, s)
<1> DEFINE head == HeadRid(revisions, s)
<1>1. CASE RidsOf(revisions, s) = {} \/ revisions[head].cleared
  BY <1>1 DEF ActivePayload, NoRid
<1>2. CASE RidsOf(revisions, s) # {} /\ ~revisions[head].cleared
  <2>1. head \in RidsOf(revisions, s)
    BY <1>2 DEF IInv, HeadsExist, IsHead
  <2>2. head \in 1..Len(revisions) /\ revisions[head].slot = s /\ Len(revisions) \in Nat
    BY <2>1 DEF RidsOf, IInv, TypeOK
  <2>3. CASE revisions[head].reactivates # NoRid
    <3>1. ActivePayload(revisions, s) = revisions[head].reactivates
      BY <1>2, <2>3 DEF ActivePayload
    <3>2. revisions[head].reactivates \in ContentOf(revisions, s)
      BY <2>2, <2>3 DEF IInv, RowsResolve
    <3> QED
      BY <3>1, <3>2, <2>2 DEF ContentOf, RidsOf
  <2>4. CASE revisions[head].reactivates = NoRid
    <3>1. ActivePayload(revisions, s) = head
      BY <1>2, <2>4 DEF ActivePayload
    <3> QED
      BY <3>1, <1>2, <2>1, <2>2, <2>4 DEF ContentOf, IsContent
  <2> QED
    BY <2>3, <2>4
<1> QED
  BY <1>1, <1>2
-----------------------------------------------------------------------------
\* An empty database satisfies the strengthened invariant.
LEMMA InitEstablishes == Init => IInv
<1> SUFFICES ASSUME Init PROVE IInv
  OBVIOUS
<1>1. revisions = <<>> /\ log = <<>> /\ pending = [c \in Clients |-> Idle] /\ stale = {}
  BY DEF Init
<1>2. TypeOK
  BY <1>1 DEF TypeOK, PendingOp
<1>3. LogAnnouncesRows /\ RowsResolve
  BY <1>1 DEF LogAnnouncesRows, RowsResolve
<1>4. HeadsExist
  BY <1>1 DEF HeadsExist, RidsOf
<1>5. PendingResolves
  BY <1>1 DEF PendingResolves, Idle
<1> QED
  BY <1>2, <1>3, <1>4, <1>5 DEF IInv

\* A step that leaves the tables alone and only changes what one client has
\* read keeps the invariant, if what it read resolves.
LEMMA PendingKeeps ==
  ASSUME IInv, NEW c \in Clients, NEW p \in PendingOp,
         UNCHANGED <<revisions, log>>,
         pending' = [pending EXCEPT ![c] = p], stale' = stale \ {c},
         p.op = "set" /\ p.prior # NoRid => p.prior \in ContentOf(revisions, p.slot),
         p.op = "revert" /\ p.next # NoRid => p.next \in ContentOf(revisions, p.slot)
  PROVE  IInv'
<1>1. TypeOK'
  <2>1. stale' \subseteq {d \in Clients : pending'[d] # Idle}
    BY DEF IInv, TypeOK
  <2> QED
    BY <2>1 DEF IInv, TypeOK
<1>2. LogAnnouncesRows' /\ RowsResolve' /\ HeadsExist'
  BY DEF IInv, LogAnnouncesRows, RowsResolve, HeadsExist, IsHead
<1>3. \A d \in Clients : pending'[d] = IF d = c THEN p ELSE pending[d]
  BY DEF IInv, TypeOK
<1>4. PendingResolves'
  BY <1>3 DEF IInv, PendingResolves
<1> QED
  BY <1>1, <1>2, <1>4 DEF IInv

\* A step that commits one client's row and makes it idle keeps it too.
LEMMA CommitKeeps ==
  ASSUME IInv, NEW c \in Clients, NEW row \in Row, NEW op,
         Insert(row, op),
         op = IF row.reactivates = NoRid /\ ~row.cleared THEN "annotate" ELSE "revert",
         row.supersedes # NoRid =>
           /\ row.supersedes \in ContentOf(revisions, row.slot)
           /\ row.reactivates = NoRid /\ ~row.cleared,
         row.reactivates # NoRid =>
           /\ row.reactivates \in ContentOf(revisions, row.slot)
           /\ ~row.cleared,
         Ends(c, Reading(row.slot))
  PROVE  IInv'
<1>1. /\ revisions' \in Seq(Row)
      /\ log' \in Seq({"annotate", "revert"} \X Nat)
      /\ LogAnnouncesRows' /\ RowsResolve' /\ HeadsExist'
      /\ \A s : ContentOf(revisions, s) \subseteq ContentOf(revisions', s)
  BY InsertKeeps
<1>2. pending' \in [Clients -> PendingOp]
  BY DEF IInv, TypeOK, PendingOp, Ends
<1>3. \A d \in Clients : pending'[d] = IF d = c THEN Idle ELSE pending[d]
  BY DEF IInv, TypeOK, Ends
<1>5. stale' \subseteq {d \in Clients : pending'[d] # Idle}
  BY <1>3 DEF IInv, TypeOK, Ends, Reading
<1>4. PendingResolves'
  <2> SUFFICES ASSUME NEW d \in Clients
               PROVE  /\ pending'[d].op = "set" /\ pending'[d].prior # NoRid =>
                           pending'[d].prior \in ContentOf(revisions', pending'[d].slot)
                      /\ pending'[d].op = "revert" /\ pending'[d].next # NoRid =>
                           pending'[d].next \in ContentOf(revisions', pending'[d].slot)
    BY DEF PendingResolves
  <2>1. CASE d = c
    BY <2>1, <1>3 DEF Idle
  <2>2. CASE d # c
    BY <2>2, <1>1, <1>3 DEF IInv, PendingResolves
  <2> QED
    BY <2>1, <2>2
<1> QED
  BY <1>1, <1>2, <1>4, <1>5 DEF IInv, TypeOK

\* What the row of a revert is.
LEMMA RevertRowFacts ==
  ASSUME NEW s \in Slots, NEW p \in Nat
  PROVE  /\ RevertRow(s, p) \in Row
         /\ RevertRow(s, p).slot = s
         /\ RevertRow(s, p).supersedes = NoRid
         /\ RevertRow(s, p).reactivates = p
         /\ RevertRow(s, p).cleared = (p = NoRid)
BY DEF RevertRow, Row, NoRid

\* What a client remembers between its read and its transaction.
LEMMA PendingTypes ==
  ASSUME IInv, NEW c \in Clients
  PROVE  /\ pending[c].op = "set" => pending[c].slot \in Slots /\ pending[c].prior \in Nat
         /\ pending[c].op = "revert" => pending[c].slot \in Slots /\ pending[c].next \in Nat
BY DEF IInv, TypeOK, PendingOp, Idle

\* Going back resolves: what an active payload superseded is a content row of
\* the same slot, and so is what a timestamp finds.
LEMMA PriorIsContent ==
  ASSUME IInv, NEW s \in Slots
  PROVE  LET prior == PriorOf(revisions, ActivePayload(revisions, s))
         IN  prior \in Nat /\ (prior # NoRid => prior \in ContentOf(revisions, s))
<1> DEFINE payload == ActivePayload(revisions, s)
<1>1. CASE payload = NoRid
  BY <1>1 DEF PriorOf, NoRid
<1>2. CASE payload # NoRid
  <2>1. payload \in 1..Len(revisions) /\ revisions[payload].slot = s
    BY <1>2, PayloadIsContent DEF ContentOf, RidsOf
  <2>2. PriorOf(revisions, payload) = revisions[payload].supersedes
    BY <1>2 DEF PriorOf
  <2> HIDE DEF payload
  <2>3. revisions[payload] \in Row
    BY <2>1 DEF IInv, TypeOK
  <2>4. revisions[payload].supersedes \in Nat
    BY <2>3 DEF Row
  <2> QED
    BY <2>1, <2>2, <2>4 DEF IInv, RowsResolve, payload
<1> QED
  BY <1>1, <1>2

\* Every operation of every client keeps the strengthened invariant.
LEMMA StepKeeps == IInv /\ [Next]_vars => IInv'
<1> SUFFICES ASSUME IInv, [Next]_vars PROVE IInv'
  OBVIOUS
<1>1. ASSUME NEW c \in Clients, NEW s \in Slots, BeginSet(c, s)
      PROVE  IInv'
  <2> DEFINE p == [op |-> "set", slot |-> s, prior |-> ActivePayload(revisions, s)]
  <2>1. p \in PendingOp
    BY PayloadIsContent DEF PendingOp
  <2>2. p.op = "set" /\ p.prior # NoRid => p.prior \in ContentOf(revisions, p.slot)
    BY PayloadIsContent
  <2>3. p.op # "revert"
    OBVIOUS
  <2>4. UNCHANGED <<revisions, log>> /\ pending' = [pending EXCEPT ![c] = p] /\ stale' = stale \ {c}
    BY <1>1 DEF BeginSet, BeginSetAfter, IInv, TypeOK
  <2> HIDE DEF p
  <2> QED
    BY <2>1, <2>2, <2>3, <2>4, PendingKeeps
<1>2. ASSUME NEW c \in Clients, NEW s \in Slots, NEW next \in Nat,
             next # NoRid => next \in ContentOf(revisions, s),
             BeginRevertTo(c, s, next)
      PROVE  IInv'
  <2> DEFINE p == [op |-> "revert", slot |-> s, next |-> next]
  <2>1. p \in PendingOp
    BY DEF PendingOp
  <2>2. p.op = "revert" /\ p.next # NoRid => p.next \in ContentOf(revisions, p.slot)
    BY <1>2
  <2>3. p.op # "set"
    OBVIOUS
  <2>4. UNCHANGED <<revisions, log>> /\ pending' = [pending EXCEPT ![c] = p] /\ stale' = stale \ {c}
    BY <1>2 DEF BeginRevertTo, IInv, TypeOK
  <2> HIDE DEF p
  <2> QED
    BY <2>1, <2>2, <2>3, <2>4, PendingKeeps
<1>3. ASSUME NEW c \in Clients, NEW s \in Slots, BeginRevert(c, s)
      PROVE  IInv'
  BY <1>2, <1>3, PriorIsContent DEF BeginRevert
<1>4. ASSUME NEW c \in Clients, NEW s \in Slots, NEW ts \in Stamps,
             BeginRevertToStamp(c, s, ts)
      PROVE  IInv'
  <2>1. WrittenAt(revisions, s, ts) \subseteq ContentOf(revisions, s)
    BY DEF WrittenAt
  <2>2. ContentOf(revisions, s) \subseteq Nat
    BY DEF ContentOf, RidsOf
  <2> QED
    BY <1>2, <1>4, <2>1, <2>2 DEF BeginRevertToStamp
<1>5. ASSUME NEW c \in Clients, NEW v \in Values, NEW ts \in Stamps, CommitSet(c, v, ts)
      PROVE  IInv'
  <2> DEFINE row == SetRow(pending[c].slot, v, ts, pending[c].prior)
  <2>1. pending[c].op = "set" /\ pending[c].slot \in Slots /\ pending[c].prior \in Nat
    BY <1>5, PendingTypes DEF CommitSet
  <2>2. pending[c].prior # NoRid => pending[c].prior \in ContentOf(revisions, pending[c].slot)
    BY <2>1 DEF IInv, PendingResolves
  <2>3. row \in Row /\ row.slot = pending[c].slot /\ row.supersedes = pending[c].prior
    BY <2>1 DEF SetRow, Row, NoRid
  <2>4. row.reactivates = NoRid /\ ~row.cleared
    BY DEF SetRow
  <2>5. Insert(row, "annotate") /\ Ends(c, Reading(pending[c].slot))
    BY <1>5 DEF CommitSet
  <2> HIDE DEF row
  <2> QED
    BY <2>2, <2>3, <2>4, <2>5, CommitKeeps
<1>6. ASSUME NEW c \in Clients, CommitRevert(c)
      PROVE  IInv'
  <2> DEFINE row == RevertRow(pending[c].slot, pending[c].next)
  <2>1. pending[c].op = "revert" /\ pending[c].slot \in Slots /\ pending[c].next \in Nat
    BY <1>6, PendingTypes DEF CommitRevert
  <2>2. pending[c].next # NoRid => pending[c].next \in ContentOf(revisions, pending[c].slot)
    BY <2>1 DEF IInv, PendingResolves
  <2>3. /\ row \in Row /\ row.slot = pending[c].slot
        /\ row.supersedes = NoRid
        /\ row.reactivates = pending[c].next /\ row.cleared = (pending[c].next = NoRid)
    BY <2>1, RevertRowFacts
  <2>4. Insert(row, "revert") /\ Ends(c, Reading(pending[c].slot))
    BY <1>6 DEF CommitRevert
  <2> HIDE DEF row
  <2> QED
    BY <2>2, <2>3, <2>4, CommitKeeps
<1>7. ASSUME NEW c \in Clients, Abort(c)
      PROVE  IInv'
  <2>1. Idle \in PendingOp /\ Idle.op = "idle"
    BY DEF PendingOp, Idle
  <2> QED
    BY <1>7, <2>1, PendingKeeps DEF Abort, Ends
<1>8. CASE UNCHANGED vars
  <2>1. revisions' = revisions /\ log' = log /\ pending' = pending /\ stale' = stale
    BY <1>8 DEF vars
  <2> QED
    BY <2>1 DEF IInv, TypeOK, LogAnnouncesRows, RowsResolve, HeadsExist, IsHead, PendingResolves
<1> QED
  BY <1>1, <1>3, <1>4, <1>5, <1>6, <1>7, <1>8 DEF Next
-----------------------------------------------------------------------------
\* The strengthened invariant holds in every behaviour of any number of
\* processes sharing a database.
THEOREM Invariance == Spec => []IInv
BY InitEstablishes, StepKeeps, PTL DEF Spec

\* The tables, and what each process remembers between its read and its
\* COMMIT, stay well formed.
THEOREM TypeCorrect == Spec => []TypeOK
<1>1. IInv => TypeOK
  BY DEF IInv
<1> QED
  BY <1>1, Invariance, PTL

\* Every rid a row names is an older content row of its own slot, although it
\* was read before the transaction that stores it.
THEOREM ReferencesResolve == Spec => []RowsResolve
<1>1. IInv => RowsResolve
  BY DEF IInv
<1> QED
  BY <1>1, Invariance, PTL

\* A reader never lands on a row without a detail row, so `get` never throws.
THEOREM ReadsLandOnContent == Spec => []ReadsResolve
<1>1. IInv => ReadsResolve
  BY PayloadIsContent DEF ReadsResolve
<1> QED
  BY <1>1, Invariance, PTL

\* The log announces every committed row exactly once, rolled-back
\* transactions leaving no trace in either table.
THEOREM EveryRowAnnounced == Spec => []LogAnnouncesRows
<1>1. IInv => LogAnnouncesRows
  BY DEF IInv
<1> QED
  BY <1>1, Invariance, PTL
-----------------------------------------------------------------------------
\* What appending a row does to what readers of a slot see.
LEMMA AppendPayload ==
  ASSUME IInv, NEW row \in Row, revisions' = Append(revisions, row), NEW s \in Slots,
         row.reactivates # NoRid => row.reactivates \in ContentOf(revisions, row.slot) /\ ~row.cleared
  PROVE  /\ ActivePayload(revisions', s) =
              IF row.slot # s THEN ActivePayload(revisions, s)
              ELSE IF row.cleared THEN NoRid
              ELSE IF row.reactivates # NoRid THEN row.reactivates
              ELSE Len(revisions) + 1
         /\ Visible(revisions', s) =
              IF row.slot # s THEN Visible(revisions, s)
              ELSE IF row.cleared THEN NoValue
              ELSE IF row.reactivates # NoRid THEN revisions[row.reactivates].val
              ELSE row.val
<1> DEFINE n == Len(revisions)
<1>1. revisions \in Seq(Row) /\ n \in Nat
  BY DEF IInv, TypeOK
<1>2. /\ revisions'[n + 1] = row
      /\ \A r \in 1..n : revisions'[r] = revisions[r]
  BY <1>1, AppendRow
<1>3. CASE row.slot # s
  <2>1. RidsOf(revisions', s) = RidsOf(revisions, s)
    BY <1>1, <1>3, AppendRids
  <2>2. HeadRid(revisions', s) = HeadRid(revisions, s)
    BY <1>1, <1>3, AppendHead
  <2>3. RidsOf(revisions, s) # {} =>
          /\ HeadRid(revisions, s) \in 1..n
          /\ revisions'[HeadRid(revisions, s)] = revisions[HeadRid(revisions, s)]
    BY <1>2 DEF IInv, HeadsExist, IsHead, RidsOf
  <2>4. ActivePayload(revisions', s) = ActivePayload(revisions, s)
    BY <2>1, <2>2, <2>3 DEF ActivePayload
  <2>5. ActivePayload(revisions, s) # NoRid => ActivePayload(revisions, s) \in 1..n
    BY PayloadIsContent DEF ContentOf, RidsOf
  <2>6. Visible(revisions', s) = Visible(revisions, s)
    BY <1>2, <2>4, <2>5 DEF Visible
  <2> QED
    BY <1>3, <2>4, <2>6
<1>4. CASE row.slot = s
  <2>1. HeadRid(revisions', s) = n + 1 /\ n + 1 \in RidsOf(revisions', s)
    BY <1>1, <1>4, AppendHead DEF IsHead
  <2>2. ActivePayload(revisions', s) =
          IF row.cleared THEN NoRid
          ELSE IF row.reactivates # NoRid THEN row.reactivates ELSE n + 1
    BY <2>1, <1>2 DEF ActivePayload
  <2>3. CASE row.cleared
    BY <1>4, <2>2, <2>3 DEF Visible
  <2>4. CASE ~row.cleared /\ row.reactivates # NoRid
    <3>1. row.reactivates \in 1..n
      BY <2>4 DEF ContentOf, RidsOf
    <3> QED
      BY <1>2, <1>4, <2>2, <2>4, <3>1 DEF Visible
  <2>5. CASE ~row.cleared /\ row.reactivates = NoRid
    <3>1. n + 1 # NoRid
      BY <1>1 DEF NoRid
    <3> QED
      BY <1>2, <1>4, <2>2, <2>5, <3>1 DEF Visible
  <2> QED
    BY <2>3, <2>4, <2>5
<1> QED
  BY <1>3, <1>4

Shown == [s \in Slots |-> Visible(revisions, s)]
Written == [s \in Slots |-> {revisions[r].val : r \in ContentOf(revisions, s)}]

\* The values of the content rows of a slot after an append.
LEMMA AppendWritten ==
  ASSUME IInv, NEW row \in Row, revisions' = Append(revisions, row), NEW s \in Slots
  PROVE  Written'[s] =
           IF row.slot = s /\ row.reactivates = NoRid /\ ~row.cleared
           THEN Written[s] \cup {row.val} ELSE Written[s]
<1> DEFINE n == Len(revisions)
<1>1. revisions \in Seq(Row) /\ n \in Nat /\ row.slot \in Slots
  BY DEF IInv, TypeOK, Row
<1>2. /\ revisions'[n + 1] = row
      /\ \A r \in 1..n : revisions'[r] = revisions[r]
  BY <1>1, AppendRow
<1>3. ContentOf(revisions, s) \subseteq 1..n
  BY DEF ContentOf, RidsOf
<1>4. ContentOf(revisions', s) =
        IF row.slot = s /\ row.reactivates = NoRid /\ ~row.cleared
        THEN ContentOf(revisions, s) \cup {n + 1} ELSE ContentOf(revisions, s)
  BY <1>1, AppendContent
<1>5. /\ Written[s] = {revisions[r].val : r \in ContentOf(revisions, s)}
      /\ Written'[s] = {revisions'[r].val : r \in ContentOf(revisions', s)}
  BY DEF Written
<1> QED
  BY <1>2, <1>3, <1>4, <1>5

\* A set's transaction is the promise's Put.
LEMMA CommitSetPuts ==
  ASSUME IInv, NEW c \in Clients, NEW v \in Values, NEW ts \in Stamps, CommitSet(c, v, ts)
  PROVE  \E s \in Slots : Promise!Put(s, v)
<1> DEFINE s == pending[c].slot
           row == SetRow(s, v, ts, pending[c].prior)
<1>1. s \in Slots /\ pending[c].prior \in Nat
  BY PendingTypes DEF CommitSet
<1>2. row \in Row /\ row.slot = s /\ row.val = v
  BY <1>1 DEF SetRow, Row, NoRid
<1>3. row.reactivates = NoRid /\ ~row.cleared
  BY DEF SetRow
<1>4. revisions' = Append(revisions, row)
  BY DEF CommitSet, Insert
<1> HIDE DEF row, s
<1>5. \A q \in Slots : /\ Visible(revisions', q) = IF q = s THEN v ELSE Visible(revisions, q)
                       /\ Written'[q] = IF q = s THEN Written[q] \cup {v} ELSE Written[q]
  BY <1>2, <1>3, <1>4, AppendPayload, AppendWritten
<1>6. Shown' = [Shown EXCEPT ![s] = v]
  BY <1>5 DEF Shown
<1>7. Written' = [Written EXCEPT ![s] = @ \cup {v}]
  BY <1>1, <1>5 DEF Written
<1> QED
  BY <1>1, <1>6, <1>7 DEF Promise!Put, Shown, Written

\* A revert's transaction is the promise's Undo: to a value written to that
\* slot before, or to nothing.
LEMMA CommitRevertUndoes ==
  ASSUME IInv, NEW c \in Clients, CommitRevert(c)
  PROVE  \E s \in Slots : \E v \in Values \cup {NoValue} : Promise!Undo(s, v)
<1> DEFINE s == pending[c].slot
           next == pending[c].next
           row == RevertRow(s, next)
           v == IF next = NoRid THEN NoValue ELSE revisions[next].val
<1>1. s \in Slots /\ next \in Nat
  BY PendingTypes DEF CommitRevert
<1>2. /\ row \in Row /\ row.slot = s
      /\ row.reactivates = next /\ row.cleared = (next = NoRid)
  BY <1>1, RevertRowFacts
<1>3. revisions' = Append(revisions, row)
  BY DEF CommitRevert, Insert
<1>4. next # NoRid => next \in ContentOf(revisions, s)
  BY DEF IInv, PendingResolves, CommitRevert
<1>5. v \in Values \cup {NoValue} /\ v \in Written[s] \cup {NoValue}
  <2>1. CASE next = NoRid
    BY <2>1
  <2>2. CASE next # NoRid
    <3>1. revisions[next] \in Row
      BY <2>2, <1>4 DEF ContentOf, RidsOf, IInv, TypeOK
    <3> QED
      BY <3>1, <2>2, <1>1, <1>4 DEF Row, Written
  <2> QED
    BY <2>1, <2>2
<1> HIDE DEF row, s, next
<1>6. \A q \in Slots : /\ Visible(revisions', q) = IF q = s THEN v ELSE Visible(revisions, q)
                       /\ Written'[q] = Written[q]
  <2>1. row.reactivates # NoRid => row.reactivates \in ContentOf(revisions, row.slot) /\ ~row.cleared
    BY <1>2, <1>4
  <2> QED
    BY <1>2, <1>3, <2>1, AppendPayload, AppendWritten
<1>7. Shown' = [Shown EXCEPT ![s] = v]
  BY <1>6 DEF Shown
<1>8. Written' = Written
  BY <1>6 DEF Written
<1> QED
  BY <1>1, <1>5, <1>7, <1>8 DEF Promise!Undo, Shown, Written

\* Every step of the engine is a step of the promise, or changes nothing of it.
LEMMA StepKeepsPromise == IInv /\ [Next]_vars => [Promise!Next]_(Promise!vars)
<1> SUFFICES ASSUME IInv, [Next]_vars PROVE [Promise!Next]_(Promise!vars)
  OBVIOUS
<1>1. ASSUME UNCHANGED revisions
      PROVE  UNCHANGED Promise!vars
  BY <1>1 DEF Promise!vars
<1>2. ASSUME NEW c \in Clients, NEW v \in Values, NEW ts \in Stamps, CommitSet(c, v, ts)
      PROVE  Promise!Next
  BY <1>2, CommitSetPuts DEF Promise!Next
<1>3. ASSUME NEW c \in Clients, CommitRevert(c)
      PROVE  Promise!Next
  BY <1>3, CommitRevertUndoes DEF Promise!Next
<1>4. ASSUME NEW c \in Clients, NEW s \in Slots, BeginSet(c, s) \/ BeginRevert(c, s)
      PROVE  UNCHANGED revisions
  BY <1>4 DEF BeginSet, BeginSetAfter, BeginRevert, BeginRevertTo
<1>5. ASSUME NEW c \in Clients, NEW s \in Slots, NEW ts \in Stamps, BeginRevertToStamp(c, s, ts)
      PROVE  UNCHANGED revisions
  BY <1>5 DEF BeginRevertToStamp, BeginRevertTo
<1>6. ASSUME NEW c \in Clients, Abort(c)
      PROVE  UNCHANGED revisions
  BY <1>6 DEF Abort
<1>7. ASSUME UNCHANGED vars
      PROVE  UNCHANGED revisions
  BY <1>7 DEF vars
<1> QED
  BY <1>1, <1>2, <1>3, <1>4, <1>5, <1>6, <1>7 DEF Next

\* Readers of the database see the slot store they were promised: a write
\* shows, an undo shows a value that slot held before, nothing else changes,
\* whatever processes interleave and whichever transactions roll back.
THEOREM EngineKeepsPromise == Spec => KeepsPromise
<1>1. Init => Promise!Init
  <2> SUFFICES ASSUME Init PROVE Promise!Init
    OBVIOUS
  <2>1. \A s \in Slots : RidsOf(revisions, s) = {} /\ ContentOf(revisions, s) = {}
    BY DEF Init, RidsOf, ContentOf
  <2>2. \A s \in Slots : Visible(revisions, s) = NoValue
    BY <2>1 DEF Visible, ActivePayload
  <2>3. \A s \in Slots : {revisions[r].val : r \in ContentOf(revisions, s)} = {}
    BY <2>1
  <2> QED
    BY <2>2, <2>3 DEF Promise!Init
<1> QED
  BY <1>1, StepKeepsPromise, Invariance, PTL DEF Spec, KeepsPromise, Promise!Spec
-----------------------------------------------------------------------------
(* What a client has read stays current until another writes its slot.     *)

\* Where a revert of slot s that reads the table now would go: back to what
\* the active record superseded, or to the oldest record written at a time.
GoesTo(s, next) ==
  \/ /\ ActivePayload(revisions, s) # NoRid
     /\ next = PriorOf(revisions, ActivePayload(revisions, s))
  \/ \E ts \in Stamps : /\ next \in WrittenAt(revisions, s, ts)
                        /\ \A r \in WrittenAt(revisions, s, ts) : next <= r

PendingCurrent ==
  \A c \in Clients \ stale :
    /\ pending[c].op = "set" => pending[c].prior = ActivePayload(revisions, pending[c].slot)
    /\ pending[c].op = "revert" => GoesTo(pending[c].slot, pending[c].next)

\* A row of one slot is nothing to what was read of another.
LEMMA ReadsStay ==
  ASSUME IInv, NEW row \in Row, revisions' = Append(revisions, row), NEW s \in Slots, row.slot # s,
         row.reactivates # NoRid => row.reactivates \in ContentOf(revisions, row.slot) /\ ~row.cleared
  PROVE  /\ ActivePayload(revisions', s) = ActivePayload(revisions, s)
         /\ \A next : GoesTo(s, next) => GoesTo(s, next)'
<1>1. revisions \in Seq(Row) /\ row.slot \in Slots
  BY DEF IInv, TypeOK, Row
<1>2. ActivePayload(revisions', s) = ActivePayload(revisions, s)
  BY AppendPayload
<1>3. \A r \in 1..Len(revisions) : revisions'[r] = revisions[r]
  BY <1>1, AppendRow
<1>4. PriorOf(revisions', ActivePayload(revisions, s)) = PriorOf(revisions, ActivePayload(revisions, s))
  <2>1. ActivePayload(revisions, s) # NoRid => ActivePayload(revisions, s) \in 1..Len(revisions)
    BY PayloadIsContent DEF ContentOf, RidsOf
  <2> QED
    BY <1>3, <2>1 DEF PriorOf
<1>5. ContentOf(revisions', s) = ContentOf(revisions, s)
  BY <1>1, AppendContent
<1>6. \A ts : WrittenAt(revisions', s, ts) = WrittenAt(revisions, s, ts)
  BY <1>3, <1>5 DEF WrittenAt, ContentOf, RidsOf
<1> QED
  BY <1>2, <1>4, <1>6 DEF GoesTo

LEMMA StepKeepsCurrent ==
  ASSUME IInv, PendingCurrent, [Next]_vars
  PROVE  PendingCurrent'
<1>1. ASSUME NEW c \in Clients, NEW p \in PendingOp, pending' = [pending EXCEPT ![c] = p],
             UNCHANGED <<revisions, stale>>,
             p.op = "set" => p.prior = ActivePayload(revisions, p.slot),
             p.op = "revert" => GoesTo(p.slot, p.next)
      PROVE  PendingCurrent'
  <2>1. \A d \in Clients : pending'[d] = IF d = c THEN p ELSE pending[d]
    BY <1>1 DEF IInv, TypeOK
  <2> QED
    BY <1>1, <2>1 DEF PendingCurrent, GoesTo
<1>2. ASSUME NEW c \in Clients, NEW row \in Row, revisions' = Append(revisions, row),
             row.reactivates # NoRid => row.reactivates \in ContentOf(revisions, row.slot) /\ ~row.cleared,
             Ends(c, Reading(row.slot))
      PROVE  PendingCurrent'
  <2>1. ASSUME NEW d \in Clients \ stale', NEW q, pending'[d] = q, q.op \in {"set", "revert"}
        PROVE  /\ q.op = "set" => q.prior = ActivePayload(revisions', q.slot)
               /\ q.op = "revert" => GoesTo(q.slot, q.next)'
    <3>1. d # c /\ pending[d] = q
      BY <1>2, <2>1 DEF IInv, TypeOK, Ends, Idle
    <3>2. d \notin stale /\ d \notin Reading(row.slot) /\ pending[d] # Idle
      BY <1>2, <2>1, <3>1 DEF Ends, Idle
    <3>3. q.slot # row.slot /\ q.slot \in Slots
      BY <2>1, <3>1, <3>2, PendingTypes DEF Reading
    <3>4. /\ ActivePayload(revisions', q.slot) = ActivePayload(revisions, q.slot)
          /\ GoesTo(q.slot, q.next) => GoesTo(q.slot, q.next)'
      BY <1>2, <3>3, ReadsStay
    <3> QED
      BY <3>1, <3>2, <3>4 DEF PendingCurrent
  <2> QED
    BY <2>1 DEF PendingCurrent, GoesTo
<1>3. ASSUME NEW c \in Clients, NEW s \in Slots, BeginSet(c, s)
      PROVE  PendingCurrent'
  <2> DEFINE p == [op |-> "set", slot |-> s, prior |-> ActivePayload(revisions, s)]
  <2>1. p \in PendingOp
    BY PayloadIsContent DEF PendingOp
  <2>2. UNCHANGED <<revisions, stale>> /\ pending' = [pending EXCEPT ![c] = p]
    BY <1>3 DEF BeginSet, BeginSetAfter
  <2>3. p.prior = ActivePayload(revisions, p.slot) /\ p.op # "revert"
    OBVIOUS
  <2> HIDE DEF p
  <2> QED
    BY <1>1, <2>1, <2>2, <2>3
<1>4. ASSUME NEW c \in Clients, NEW s \in Slots, NEW next \in Nat,
             BeginRevertTo(c, s, next), GoesTo(s, next)
      PROVE  PendingCurrent'
  <2> DEFINE p == [op |-> "revert", slot |-> s, next |-> next]
  <2>1. p \in PendingOp
    BY DEF PendingOp
  <2>2. UNCHANGED <<revisions, stale>> /\ pending' = [pending EXCEPT ![c] = p]
    BY <1>4 DEF BeginRevertTo
  <2>3. GoesTo(p.slot, p.next) /\ p.op # "set"
    BY <1>4
  <2> HIDE DEF p
  <2> QED
    BY <1>1, <2>1, <2>2, <2>3
<1>5. ASSUME NEW c \in Clients, NEW s \in Slots, BeginRevert(c, s)
      PROVE  PendingCurrent'
  <2> DEFINE payload == ActivePayload(revisions, s)
             prior == PriorOf(revisions, payload)
  <2>1. prior \in Nat
    BY PriorIsContent
  <2>2. BeginRevertTo(c, s, prior) /\ (payload # NoRid \/ prior # NoRid)
    BY <1>5 DEF BeginRevert, BeginRevertTo
  <2>3. payload # NoRid
    BY <2>2 DEF PriorOf
  <2>4. GoesTo(s, prior)
    BY <2>3 DEF GoesTo
  <2> HIDE DEF prior
  <2> QED
    BY <1>4, <2>1, <2>2, <2>4
<1>6. ASSUME NEW c \in Clients, NEW s \in Slots, NEW ts \in Stamps, BeginRevertToStamp(c, s, ts)
      PROVE  PendingCurrent'
  <2>1. PICK next \in WrittenAt(revisions, s, ts) :
          /\ \A r \in WrittenAt(revisions, s, ts) : next <= r
          /\ BeginRevertTo(c, s, next)
    BY <1>6 DEF BeginRevertToStamp
  <2>2. next \in Nat
    BY DEF WrittenAt, ContentOf, RidsOf
  <2>3. GoesTo(s, next)
    BY <2>1 DEF GoesTo
  <2> QED
    BY <1>4, <2>1, <2>2, <2>3
<1>7. ASSUME NEW c \in Clients, NEW v \in Values, NEW ts \in Stamps, CommitSet(c, v, ts)
      PROVE  PendingCurrent'
  <2> DEFINE row == SetRow(pending[c].slot, v, ts, pending[c].prior)
  <2>1. pending[c].slot \in Slots /\ pending[c].prior \in Nat
    BY <1>7, PendingTypes DEF CommitSet
  <2>2. row \in Row /\ row.slot = pending[c].slot /\ row.reactivates = NoRid
    BY <2>1 DEF SetRow, Row, NoRid
  <2>3. revisions' = Append(revisions, row) /\ Ends(c, Reading(pending[c].slot))
    BY <1>7 DEF CommitSet, Insert
  <2> HIDE DEF row
  <2> QED
    BY <1>2, <2>2, <2>3
<1>8. ASSUME NEW c \in Clients, CommitRevert(c)
      PROVE  PendingCurrent'
  <2> DEFINE row == RevertRow(pending[c].slot, pending[c].next)
  <2>1. pending[c].op = "revert" /\ pending[c].slot \in Slots /\ pending[c].next \in Nat
    BY <1>8, PendingTypes DEF CommitRevert
  <2>2. pending[c].next # NoRid => pending[c].next \in ContentOf(revisions, pending[c].slot)
    BY <2>1 DEF IInv, PendingResolves
  <2>3. /\ row \in Row /\ row.slot = pending[c].slot
        /\ row.reactivates = pending[c].next /\ row.cleared = (pending[c].next = NoRid)
    BY <2>1, RevertRowFacts
  <2>4. revisions' = Append(revisions, row) /\ Ends(c, Reading(pending[c].slot))
    BY <1>8 DEF CommitRevert, Insert
  <2> HIDE DEF row
  <2> QED
    BY <1>2, <2>2, <2>3, <2>4
<1>9. ASSUME NEW c \in Clients, Abort(c)
      PROVE  PendingCurrent'
  <2>1. UNCHANGED revisions /\ stale' = stale \ {c}
    BY <1>9 DEF Abort, Ends
  <2>2. \A d \in Clients : pending'[d] = IF d = c THEN Idle ELSE pending[d]
    BY <1>9 DEF Abort, Ends, IInv, TypeOK
  <2> QED
    BY <2>1, <2>2 DEF PendingCurrent, GoesTo, Idle
<1>10. CASE UNCHANGED vars
  BY <1>10 DEF vars, PendingCurrent, GoesTo
<1> QED
  BY <1>3, <1>5, <1>6, <1>7, <1>8, <1>9, <1>10 DEF Next

LEMMA StaysCurrent == Spec => []PendingCurrent
<1>1. Init => PendingCurrent
  BY DEF Init, PendingCurrent, Idle
<1>2. IInv /\ PendingCurrent /\ [Next]_vars => PendingCurrent'
  BY StepKeepsCurrent
<1> QED
  BY <1>1, <1>2, Invariance, PTL DEF Spec

\* A step other than a commit changes neither table.
LEMMA OnlyCommitsWrite ==
  ASSUME [Next]_vars
  PROVE  \/ UNCHANGED revisions
         \/ \E c \in Clients : \E v \in Values, ts \in Stamps : CommitSet(c, v, ts)
         \/ \E c \in Clients : CommitRevert(c)
<1>1. ASSUME NEW c \in Clients, NEW s \in Slots, BeginSet(c, s) \/ BeginRevert(c, s)
      PROVE  UNCHANGED revisions
  BY <1>1 DEF BeginSet, BeginSetAfter, BeginRevert, BeginRevertTo
<1>2. ASSUME NEW c \in Clients, NEW s \in Slots, NEW ts \in Stamps, BeginRevertToStamp(c, s, ts)
      PROVE  UNCHANGED revisions
  BY <1>2 DEF BeginRevertToStamp, BeginRevertTo
<1>3. ASSUME NEW c \in Clients, Abort(c)
      PROVE  UNCHANGED revisions
  BY <1>3 DEF Abort
<1>4. ASSUME UNCHANGED vars
      PROVE  UNCHANGED revisions
  BY <1>4 DEF vars
<1> QED
  BY <1>1, <1>2, <1>3, <1>4 DEF Next

\* A commit is a stale one if the client is stale.
LEMMA StaleCommits ==
  ASSUME IInv, NEW c \in Clients, pending[c].op \in {"set", "revert"},
         NEW row \in Row, revisions' = Append(revisions, row), NEW S, Ends(c, S), ~StaleCommit
  PROVE  c \in Clients \ stale
<1>1. revisions' # revisions
  <2>1. Len(revisions) \in Nat /\ Len(revisions') = Len(revisions) + 1
    BY AppendRow DEF IInv, TypeOK
  <2> QED
    BY <2>1
<1>2. pending'[c] # pending[c]
  BY DEF Ends, IInv, TypeOK, Idle
<1> QED
  BY <1>1, <1>2 DEF StaleCommit

\* `set` keeps its comment's promise, whatever processes use the database: the
\* new row supersedes the record that is active when it commits, so that a
\* revert brings exactly that one back, unless another process has written
\* the slot since this one read it.
THEOREM SetsSupersede == Spec => SetSupersedesActive
<1> DEFINE Supersedes ==
      \A s \in Slots :
        Wrote(s) /\ ~StaleCommit =>
          revisions'[Len(revisions')].supersedes = ActivePayload(revisions, s)
<1>1. IInv /\ PendingCurrent /\ [Next]_vars => Supersedes
  <2> SUFFICES ASSUME IInv, PendingCurrent, [Next]_vars, NEW s \in Slots, Wrote(s), ~StaleCommit
               PROVE  revisions'[Len(revisions')].supersedes = ActivePayload(revisions, s)
    OBVIOUS
  <2>1. revisions \in Seq(Row) /\ Len(revisions) \in Nat
    BY DEF IInv, TypeOK
  <2>2. CASE UNCHANGED revisions
    BY <2>1, <2>2 DEF Wrote
  <2>3. ASSUME NEW c \in Clients, NEW v \in Values, NEW ts \in Stamps, CommitSet(c, v, ts)
        PROVE  revisions'[Len(revisions')].supersedes = ActivePayload(revisions, s)
    <3> DEFINE row == SetRow(pending[c].slot, v, ts, pending[c].prior)
    <3>1. pending[c].op = "set" /\ pending[c].slot \in Slots /\ pending[c].prior \in Nat
      BY <2>3, PendingTypes DEF CommitSet
    <3>2. row \in Row /\ row.slot = pending[c].slot /\ row.supersedes = pending[c].prior
      BY <3>1 DEF SetRow, Row, NoRid
    <3>3. revisions' = Append(revisions, row)
      BY <2>3 DEF CommitSet, Insert
    <3> HIDE DEF row
    <3>4. revisions'[Len(revisions')] = row
      BY <2>1, <3>2, <3>3, AppendRow
    <3>5. pending[c].slot = s
      BY <3>2, <3>4 DEF Wrote
    <3>6. c \in Clients \ stale
      BY <2>3, <3>1, <3>2, <3>3, StaleCommits DEF CommitSet
    <3> QED
      BY <3>1, <3>2, <3>4, <3>5, <3>6 DEF PendingCurrent
  <2>4. ASSUME NEW c \in Clients, CommitRevert(c)
        PROVE  FALSE
    <3> DEFINE row == RevertRow(pending[c].slot, pending[c].next)
    <3>1. pending[c].slot \in Slots /\ pending[c].next \in Nat
      BY <2>4, PendingTypes DEF CommitRevert
    <3>2. row \in Row /\ row.reactivates = pending[c].next /\ row.cleared = (pending[c].next = NoRid)
      BY <3>1, RevertRowFacts
    <3>3. revisions' = Append(revisions, row)
      BY <2>4 DEF CommitRevert, Insert
    <3> HIDE DEF row
    <3>4. revisions'[Len(revisions')] = row
      BY <2>1, <3>2, <3>3, AppendRow
    <3> QED
      BY <3>2, <3>4 DEF Wrote, IsContent
  <2> QED
    BY <2>2, <2>3, <2>4, OnlyCommitsWrite
<1> QED
  BY <1>1, Invariance, StaysCurrent, PTL DEF Spec, SetSupersedesActive
-----------------------------------------------------------------------------
(* The content rows by their ranks: the in-memory engine's records.        *)

\* Ranks enumerate the content rows in rid order, and no rid has rank 0.
LEMMA RanksAre ==
  ASSUME NEW rows \in Seq(Row)
  PROVE  /\ Cardinality(ContentRids(rows)) \in 0..Len(rows)
         /\ \A r \in ContentRids(rows) : Ranks(rows)[r] \in 1..Cardinality(ContentRids(rows))
         /\ \A p, q \in ContentRids(rows) : p < q <=> Ranks(rows)[p] < Ranks(rows)[q]
         /\ \A p, q \in ContentRids(rows) : Ranks(rows)[p] = Ranks(rows)[q] => p = q
         /\ \A i \in 1..Cardinality(ContentRids(rows)) : \E r \in ContentRids(rows) : Ranks(rows)[r] = i
         /\ Ranks(rows)[NoRid] = 0
<1> DEFINE S == ContentRids(rows)
           c == Cardinality(S)
           Upto(q) == {i \in S : i <= q}
           rank == [q \in S |-> Cardinality(Upto(q))]
<1>1. S \in SUBSET (1..Len(rows)) /\ Len(rows) \in Nat
  BY DEF ContentRids
<1>2. \A q \in S : Ranks(rows)[q] = rank[q]
  BY <1>1 DEF Ranks
<1>3. Ranks(rows)[NoRid] = 0
  <2>1. {q \in S : q <= NoRid} = {}
    BY <1>1 DEF NoRid
  <2>2. NoRid \in 0..Len(rows)
    BY <1>1 DEF NoRid
  <2>3. Ranks(rows)[NoRid] = Cardinality({q \in S : q <= NoRid})
    BY <2>2 DEF Ranks
  <2> QED
    BY <2>1, <2>3, FS_EmptySet
<1> HIDE DEF S
<1>4. IsFiniteSet(S) /\ c \in 0..Len(rows)
  <2>1. PICK n \in Nat : n = Len(rows)
    BY <1>1
  <2>2. IsFiniteSet(1..n) /\ Cardinality(1..n) = n
    BY FS_Interval
  <2>3. IsFiniteSet(S) /\ Cardinality(S) <= n /\ Cardinality(S) \in Nat
    BY <1>1, <2>1, <2>2, FS_Subset, FS_CardinalityType
  <2> QED
    BY <2>1, <2>3
<1>5. \A q \in S : rank[q] \in 1..c
  <2> TAKE q \in S
  <2>1. Upto(q) \in SUBSET S
    OBVIOUS
  <2>2. IsFiniteSet(Upto(q)) /\ Cardinality(Upto(q)) \in Nat /\ Cardinality(Upto(q)) <= c
    BY <1>4, <2>1, FS_Subset, FS_CardinalityType
  <2>3. q \in Upto(q)
    BY <1>1
  <2>4. Cardinality(Upto(q)) # 0
    BY <2>2, <2>3, FS_EmptySet
  <2> QED
    BY <1>4, <2>2, <2>4
<1>6. \A p, q \in S : p < q => rank[p] < rank[q]
  <2> SUFFICES ASSUME NEW p \in S, NEW q \in S, p < q
               PROVE  rank[p] < rank[q]
    OBVIOUS
  <2>1. IsFiniteSet(Upto(q))
    BY <1>4, FS_Subset
  <2>2. \A i \in S : i \in Nat
    BY <1>1
  <2>3. Upto(p) \in SUBSET Upto(q) /\ q \in Upto(q) /\ q \notin Upto(p)
    BY <2>2
  <2>4. Cardinality(Upto(p)) <= Cardinality(Upto(q)) /\ Cardinality(Upto(p)) # Cardinality(Upto(q))
    BY <2>1, <2>3, FS_Subset
  <2>5. rank[p] <= rank[q] /\ rank[p] # rank[q]
    BY <2>4
  <2> QED
    BY <1>4, <1>5, <2>5
<1> HIDE DEF rank, c
<1>7. \A p, q \in S : rank[p] = rank[q] => p = q
  <2> SUFFICES ASSUME NEW p \in S, NEW q \in S, rank[p] = rank[q] PROVE p = q
    OBVIOUS
  <2>1. p \in Nat /\ q \in Nat /\ rank[p] \in Nat
    BY <1>1, <1>4, <1>5
  <2> QED
    BY <1>6, <2>1
<1>8. \A i \in 1..c : \E r \in S : rank[r] = i
  <2>1. rank \in [S -> 1..c]
    BY <1>5 DEF rank
  <2>2. rank \in Injection(S, 1..c)
    BY <1>7, <2>1 DEF Injection, IsInjective
  <2>3. IsFiniteSet(1..c) /\ Cardinality(1..c) = c
    BY <1>4, FS_Interval
  <2>4. rank \in Surjection(S, 1..c)
    BY <2>2, <2>3, FS_Injection DEF c
  <2> QED
    BY <2>4 DEF Surjection
<1>9. \A p, q \in S : p < q <=> rank[p] < rank[q]
  <2> SUFFICES ASSUME NEW p \in S, NEW q \in S PROVE p < q <=> rank[p] < rank[q]
    OBVIOUS
  <2>1. p \in Nat /\ q \in Nat /\ rank[p] \in Nat /\ rank[q] \in Nat
    BY <1>1, <1>4, <1>5
  <2> QED
    BY <1>6, <1>7, <2>1
<1> QED
  BY <1>2, <1>3, <1>4, <1>5, <1>7, <1>8, <1>9 DEF S, c

\* What a record says of content row r.
Record(rows, r) ==
  [slot |-> rows[r].slot, val |-> rows[r].val, ts |-> rows[r].ts,
   supersedes |-> Ranks(rows)[rows[r].supersedes],
   active |-> ActivePayload(rows, rows[r].slot) = r]
Records == [slot : Slots, val : Values \cup {NoValue}, ts : Stamps \cup {NoRid},
            supersedes : Nat, active : BOOLEAN]

\* The record at a content row's rank is about that row.
LEMMA RecordsAre ==
  ASSUME NEW rows \in Seq(Row),
         \A r \in ContentRids(rows) : rows[r].supersedes \in {NoRid} \cup ContentRids(rows)
  PROVE  /\ MemRecords(rows) \in Seq(Records)
         /\ Len(MemRecords(rows)) = Cardinality(ContentRids(rows))
         /\ \A r \in ContentRids(rows) : MemRecords(rows)[Ranks(rows)[r]] = Record(rows, r)
<1> DEFINE S == ContentRids(rows)
           rank == Ranks(rows)
           c == Cardinality(S)
           rid(i) == CHOOSE r \in S : rank[r] = i
<1>1. /\ c \in Nat
      /\ \A r \in S : rank[r] \in 1..c
      /\ \A p, q \in S : rank[p] = rank[q] => p = q
      /\ \A i \in 1..c : \E r \in S : rank[r] = i
      /\ rank[NoRid] = 0
  BY RanksAre
<1>2. \A r \in S : rows[r] \in Row /\ rows[r].slot \in Slots
  <2>1. \A r \in S : rows[r] \in Row
    BY DEF ContentRids
  <2> QED
    BY <2>1 DEF Row
<1>3. MemRecords(rows) =
        [i \in 1..c |->
           [slot |-> rows[rid(i)].slot, val |-> rows[rid(i)].val, ts |-> rows[rid(i)].ts,
            supersedes |-> rank[rows[rid(i)].supersedes],
            active |-> [s \in Slots |-> ActivePayload(rows, s)][rows[rid(i)].slot] = rid(i)]]
  BY DEF MemRecords
<1> HIDE DEF S, rank, c
<1>4. \A i \in 1..c : rid(i) \in S /\ rank[rid(i)] = i
  BY <1>1
<1>5. \A r \in S : rid(rank[r]) = r
  BY <1>1, <1>4
<1> HIDE DEF rid
<1>6. \A r \in S : Record(rows, r) \in Records
  <2> TAKE r \in S
  <2>1. rank[rows[r].supersedes] \in Nat
    BY <1>1 DEF S
  <2> QED
    BY <1>2, <2>1 DEF Record, Records, Row, rank
<1>7. \A i \in 1..c : MemRecords(rows)[i] = Record(rows, rid(i))
  BY <1>2, <1>3, <1>4 DEF Record, rank
<1>8. MemRecords(rows) = [i \in 1..c |-> Record(rows, rid(i))]
  BY <1>3, <1>7
<1>9. MemRecords(rows) \in Seq(Records) /\ Len(MemRecords(rows)) = c
  BY <1>1, <1>4, <1>6, <1>8
<1> QED
  BY <1>1, <1>5, <1>7, <1>9 DEF S, rank, c

\* What an append does to the ranks: none changes, and a new content row
\* comes last.
LEMMA AppendRanks ==
  ASSUME NEW rows \in Seq(Row), NEW row \in Row
  PROVE  LET more == Append(rows, row)
             c == Cardinality(ContentRids(rows))
         IN  /\ \A r \in 0..Len(rows) : Ranks(more)[r] = Ranks(rows)[r]
             /\ IF row.reactivates = NoRid /\ ~row.cleared
                THEN /\ ContentRids(more) = ContentRids(rows) \cup {Len(rows) + 1}
                     /\ Cardinality(ContentRids(more)) = c + 1
                     /\ Ranks(more)[Len(rows) + 1] = c + 1
                ELSE ContentRids(more) = ContentRids(rows)
<1> DEFINE more == Append(rows, row)
           n == Len(rows)
           S == ContentRids(rows)
           T == ContentRids(more)
           isContent == row.reactivates = NoRid /\ ~row.cleared
<1>1. /\ more \in Seq(Row) /\ Len(more) = n + 1 /\ n \in Nat
      /\ more[n + 1] = row
      /\ \A r \in 1..n : more[r] = rows[r]
  BY AppendRow
<1> HIDE DEF more
<1>2. /\ \A r \in 1..n : IsContent(more, r) = IsContent(rows, r)
      /\ IsContent(more, n + 1) = isContent
  BY <1>1 DEF IsContent
<1>3. S \subseteq 1..n
  BY DEF ContentRids
<1>4. T = IF isContent THEN S \cup {n + 1} ELSE S
  <2>1. /\ \A r : r \in S <=> r \in 1..n /\ IsContent(rows, r)
        /\ \A r : r \in T <=> r \in 1..(n + 1) /\ IsContent(more, r)
    BY <1>1 DEF ContentRids
  <2>2. \A r : r \in 1..(n + 1) <=> r \in 1..n \/ r = n + 1
    BY <1>1
  <2>3. n + 1 \notin 1..n
    BY <1>1
  <2> HIDE DEF S, T, n, isContent
  <2>4. \A r : r \in T <=> r \in S \/ (r = n + 1 /\ isContent)
    BY <1>2, <2>1, <2>2, <2>3
  <2> QED
    BY <2>4
<1>5. /\ Ranks(rows) = [r \in 0..n |-> Cardinality({q \in S : q <= r})]
      /\ Ranks(more) = [r \in 0..(n + 1) |-> Cardinality({q \in T : q <= r})]
  BY <1>1 DEF Ranks
<1> HIDE DEF S, T, n, isContent
<1>6. \A r \in 0..n : Ranks(more)[r] = Ranks(rows)[r]
  <2> TAKE r \in 0..n
  <2>1. {q \in T : q <= r} = {q \in S : q <= r}
    BY <1>1, <1>3, <1>4
  <2>2. r \in 0..(n + 1)
    BY <1>1
  <2> QED
    BY <1>5, <2>1, <2>2
<1>7. ASSUME isContent
      PROVE  /\ T = S \cup {n + 1}
             /\ Cardinality(T) = Cardinality(S) + 1
             /\ Ranks(more)[n + 1] = Cardinality(S) + 1
  <2>1. T = S \cup {n + 1} /\ n + 1 \notin S
    BY <1>1, <1>3, <1>4, <1>7
  <2>2. IsFiniteSet(S)
    <3>1. IsFiniteSet(1..n) /\ S \in SUBSET (1..n)
      BY <1>1, <1>3, FS_Interval
    <3> QED
      BY <3>1, FS_Subset
  <2>3. Cardinality(T) = Cardinality(S) + 1
    BY <2>1, <2>2, FS_AddElement
  <2>4. {q \in T : q <= n + 1} = T
    <3>1. \A q \in T : q \in 1..n \/ q = n + 1
      BY <1>3, <2>1
    <3>2. \A q \in T : q <= n + 1
      BY <1>1, <3>1
    <3> QED
      BY <3>2
  <2>5. n + 1 \in 0..(n + 1)
    BY <1>1
  <2> QED
    BY <1>5, <2>1, <2>3, <2>4, <2>5
<1> QED
  BY <1>4, <1>6, <1>7 DEF S, T, n, isContent, more

\* The tables of a good state make good records.
LEMMA ChainsAreContent ==
  ASSUME IInv
  PROVE  /\ revisions \in Seq(Row)
         /\ \A r \in ContentRids(revisions) :
              revisions[r].supersedes \in {NoRid} \cup ContentRids(revisions)
         /\ \A s \in Slots : ContentOf(revisions, s) =
              {r \in ContentRids(revisions) : revisions[r].slot = s}
<1>1. revisions \in Seq(Row)
  BY DEF IInv, TypeOK
<1>2. \A s \in Slots : ContentOf(revisions, s) = {r \in ContentRids(revisions) : revisions[r].slot = s}
  BY DEF ContentOf, RidsOf, ContentRids
<1>3. \A r \in ContentRids(revisions) : revisions[r].slot \in Slots /\ r \in 1..Len(revisions)
  <2>1. \A r \in ContentRids(revisions) : revisions[r] \in Row /\ r \in 1..Len(revisions)
    BY <1>1 DEF ContentRids
  <2> QED
    BY <2>1 DEF Row
<1>4. \A r \in ContentRids(revisions) :
        revisions[r].supersedes \in {NoRid} \cup ContentRids(revisions)
  BY <1>2, <1>3 DEF IInv, RowsResolve
<1> QED
  BY <1>1, <1>2, <1>4

\* How the in-memory engine sees a slot: its chain, and its one active record.
LEMMA ChainIs ==
  ASSUME IInv, NEW s \in Slots
  PROVE  LET rank == Ranks(revisions)
             payload == ActivePayload(revisions, s)
         IN  /\ InMemory!Chain(s) = {rank[r] : r \in ContentOf(revisions, s)}
             /\ InMemory!ActiveIn(s) = IF payload = NoRid THEN {} ELSE {rank[payload]}
             /\ InMemory!Get(s) = rank[payload]
             /\ InMemory!First(InMemory!ActiveIn(s)) = rank[payload]
<1> DEFINE S == ContentRids(revisions)
           rank == Ranks(revisions)
           c == Cardinality(S)
           recs == MemRecords(revisions)
           payload == ActivePayload(revisions, s)
<1>1. revisions \in Seq(Row) /\ ContentOf(revisions, s) = {r \in S : revisions[r].slot = s}
  BY ChainsAreContent
<1>2. /\ c \in Nat /\ Len(recs) = c
      /\ \A r \in S : recs[rank[r]] = Record(revisions, r)
  BY <1>1, ChainsAreContent, RecordsAre, RanksAre
<1>3. /\ \A r \in S : rank[r] \in 1..c
      /\ \A i \in 1..c : \E r \in S : rank[r] = i
      /\ \A p, q \in S : rank[p] = rank[q] => p = q
      /\ rank[NoRid] = 0
  BY <1>1, RanksAre
<1>4. payload # NoRid => payload \in S /\ revisions[payload].slot = s
  BY <1>1, PayloadIsContent
<1>5. /\ InMemory!Chain(s) = {i \in 1..Len(recs) : recs[i].slot = s}
      /\ InMemory!ActiveIn(s) = {i \in InMemory!Chain(s) : recs[i].active}
  BY DEF InMemory!Chain, InMemory!ActiveIn
<1> HIDE DEF S, rank, c, recs, payload
<1>6. \A r \in S : /\ recs[rank[r]].slot = revisions[r].slot
                   /\ revisions[r].slot = s => recs[rank[r]].active = (payload = r)
  <2> TAKE r \in S
  <2>1. recs[rank[r]] = Record(revisions, r)
    BY <1>2
  <2>2. /\ Record(revisions, r).slot = revisions[r].slot
        /\ Record(revisions, r).active = (ActivePayload(revisions, revisions[r].slot) = r)
    BY DEF Record
  <2> QED
    BY <2>1, <2>2 DEF payload
<1>7. InMemory!Chain(s) = {rank[r] : r \in ContentOf(revisions, s)}
  BY <1>1, <1>2, <1>3, <1>5, <1>6
<1>8. InMemory!ActiveIn(s) = IF payload = NoRid THEN {} ELSE {rank[payload]}
  <2>1. \A i \in InMemory!ActiveIn(s) : payload \in S /\ i = rank[payload]
    <3> TAKE i \in InMemory!ActiveIn(s)
    <3>1. PICK r \in S : revisions[r].slot = s /\ i = rank[r]
      BY <1>1, <1>5, <1>7
    <3>2. payload = r
      BY <1>5, <1>6, <3>1
    <3> QED
      BY <3>1, <3>2
  <2>2. payload # NoRid => rank[payload] \in InMemory!ActiveIn(s)
    BY <1>1, <1>4, <1>5, <1>6, <1>7
  <2>3. NoRid \notin S
    BY DEF S, ContentRids, NoRid
  <2> QED
    BY <2>1, <2>2, <2>3
<1>9. InMemory!Get(s) = rank[payload] /\ InMemory!First(InMemory!ActiveIn(s)) = rank[payload]
  <2>1. CASE payload = NoRid
    BY <1>3, <1>8, <2>1 DEF InMemory!Get, InMemory!First, InMemory!Last, InMemory!NoRid
  <2>2. CASE payload # NoRid
    <3>1. InMemory!ActiveIn(s) = {rank[payload]} /\ rank[payload] \in Nat
      BY <1>2, <1>3, <1>4, <1>8, <2>2
    <3>2. \A i \in {rank[payload]} : i = rank[payload] /\ i <= i
      BY <3>1
    <3> QED
      BY <3>1, <3>2 DEF InMemory!Get, InMemory!First, InMemory!Last
  <2> QED
    BY <2>1, <2>2
<1> QED
  BY <1>7, <1>8, <1>9 DEF rank, payload

\* Sequences with the same elements are the same.
LEMMA SameRecords ==
  ASSUME NEW f \in Seq(Records), NEW g \in Seq(Records), Len(f) = Len(g),
         \A i \in 1..Len(f) : f[i] = g[i]
  PROVE  f = g
<1>1. f = [i \in 1..Len(f) |-> f[i]] /\ g = [i \in 1..Len(g) |-> g[i]]
  OBVIOUS
<1> QED
  BY <1>1

\* Setting one flag in a list of records.
LEMMA FlagSet ==
  ASSUME NEW recs \in Seq(Records), NEW i \in Nat, i # NoRid => i \in 1..Len(recs)
  PROVE  /\ InMemory!Deactivated(recs, i) \in Seq(Records)
         /\ InMemory!Activated(recs, i) \in Seq(Records)
         /\ Len(InMemory!Deactivated(recs, i)) = Len(recs)
         /\ Len(InMemory!Activated(recs, i)) = Len(recs)
         /\ \A j \in 1..Len(recs) :
              /\ InMemory!Deactivated(recs, i)[j] =
                   IF j = i THEN [recs[j] EXCEPT !.active = FALSE] ELSE recs[j]
              /\ InMemory!Activated(recs, i)[j] =
                   IF j = i THEN [recs[j] EXCEPT !.active = TRUE] ELSE recs[j]
<1>1. \A j \in 1..Len(recs) : recs[j] \in Records
  OBVIOUS
<1>2. \A rec \in Records : /\ [rec EXCEPT !.active = FALSE] \in Records
                           /\ [rec EXCEPT !.active = TRUE] \in Records
  BY DEF Records
<1>3. CASE i = NoRid
  BY <1>3 DEF InMemory!Deactivated, InMemory!Activated, InMemory!NoRid, NoRid
<1>4. CASE i # NoRid
  <2>1. /\ InMemory!Deactivated(recs, i) = [recs EXCEPT ![i] = [@ EXCEPT !.active = FALSE]]
        /\ InMemory!Activated(recs, i) = [recs EXCEPT ![i] = [@ EXCEPT !.active = TRUE]]
    BY <1>4 DEF InMemory!Deactivated, InMemory!Activated, InMemory!NoRid, NoRid
  <2>2. [recs[i] EXCEPT !.active = FALSE] \in Records /\ [recs[i] EXCEPT !.active = TRUE] \in Records
    BY <1>1, <1>2, <1>4
  <2>3. ASSUME NEW rec \in Records
        PROVE  /\ [recs EXCEPT ![i] = rec] \in Seq(Records)
               /\ Len([recs EXCEPT ![i] = rec]) = Len(recs)
               /\ \A j \in 1..Len(recs) :
                    [recs EXCEPT ![i] = rec][j] = IF j = i THEN rec ELSE recs[j]
    BY <1>4
  <2>4. PICK off \in Records : off = [recs[i] EXCEPT !.active = FALSE]
    BY <2>2
  <2>5. PICK on \in Records : on = [recs[i] EXCEPT !.active = TRUE]
    BY <2>2
  <2>6. /\ InMemory!Deactivated(recs, i) = [recs EXCEPT ![i] = off]
        /\ InMemory!Activated(recs, i) = [recs EXCEPT ![i] = on]
    BY <2>1, <2>4, <2>5
  <2>7. \A j \in 1..Len(recs) :
          /\ InMemory!Deactivated(recs, i)[j] = IF j = i THEN off ELSE recs[j]
          /\ InMemory!Activated(recs, i)[j] = IF j = i THEN on ELSE recs[j]
    BY <2>3, <2>6
  <2>8. /\ InMemory!Deactivated(recs, i) \in Seq(Records) /\ Len(InMemory!Deactivated(recs, i)) = Len(recs)
        /\ InMemory!Activated(recs, i) \in Seq(Records) /\ Len(InMemory!Activated(recs, i)) = Len(recs)
    BY <2>3, <2>6
  <2> QED
    BY <2>4, <2>5, <2>7, <2>8, Zenon
<1> QED
  BY <1>3, <1>4

\* A record that changes in a commit changes in its active flag only.
LEMMA RecordsAfter ==
  ASSUME IInv, IInv', NEW row \in Row, revisions' = Append(revisions, row)
  PROVE  LET recs == MemRecords(revisions)
             rank == Ranks(revisions)
             isContent == row.reactivates = NoRid /\ ~row.cleared
         IN  /\ recs \in Seq(Records) /\ recs' \in Seq(Records)
             /\ Len(recs') = IF isContent THEN Len(recs) + 1 ELSE Len(recs)
             /\ \A i \in 1..Len(recs) : \E r \in ContentRids(revisions) :
                  /\ rank[r] = i
                  /\ recs[i] = Record(revisions, r)
                  /\ recs'[i] = [recs[i] EXCEPT !.active =
                                   (ActivePayload(revisions', revisions[r].slot) = r)]
             /\ isContent => recs'[Len(recs) + 1] =
                  [slot |-> row.slot, val |-> row.val, ts |-> row.ts,
                   supersedes |-> Ranks(revisions')[row.supersedes],
                   active |-> ActivePayload(revisions', row.slot) = Len(revisions) + 1]
<1> DEFINE S == ContentRids(revisions)
           T == ContentRids(revisions')
           rank == Ranks(revisions)
           rank2 == Ranks(revisions')
           recs == MemRecords(revisions)
           recs2 == MemRecords(revisions')
           c == Cardinality(S)
           n == Len(revisions)
           isContent == row.reactivates = NoRid /\ ~row.cleared
<1>1. /\ revisions \in Seq(Row)
      /\ \A r \in S : revisions[r].supersedes \in {NoRid} \cup S
  BY ChainsAreContent
<1>2. /\ revisions' \in Seq(Row)
      /\ \A r \in T : revisions'[r].supersedes \in {NoRid} \cup T
  <2>1. revisions' \in Seq(Row)
    BY DEF IInv, TypeOK
  <2>2. \A r \in T : revisions'[r].slot \in Slots /\ r \in 1..Len(revisions')
    <3>1. \A r \in T : revisions'[r] \in Row /\ r \in 1..Len(revisions')
      BY <2>1 DEF ContentRids
    <3> QED
      BY <3>1 DEF Row
  <2>3. \A s : ContentOf(revisions', s) \subseteq T
    BY DEF ContentOf, RidsOf, ContentRids
  <2> QED
    BY <2>1, <2>2, <2>3 DEF IInv, RowsResolve
<1>3. /\ recs \in Seq(Records) /\ Len(recs) = c
      /\ \A r \in S : recs[rank[r]] = Record(revisions, r)
  BY <1>1, RecordsAre
<1>4. /\ recs2 \in Seq(Records) /\ Len(recs2) = Cardinality(T)
      /\ \A r \in T : recs2[rank2[r]] = Record(revisions', r)
  BY <1>2, RecordsAre
<1>5. /\ c \in Nat
      /\ \A r \in S : rank[r] \in 1..c
      /\ \A i \in 1..c : \E r \in S : rank[r] = i
  BY <1>1, RanksAre
<1>6. /\ n \in Nat
      /\ revisions'[n + 1] = row
      /\ \A r \in 1..n : revisions'[r] = revisions[r]
  BY <1>1, AppendRow
<1>7. S \subseteq 1..n
  BY DEF ContentRids
<1>8. /\ \A r \in 0..n : rank2[r] = rank[r]
      /\ IF isContent THEN T = S \cup {n + 1} /\ Cardinality(T) = c + 1 /\ rank2[n + 1] = c + 1
                      ELSE T = S
  BY <1>1, AppendRanks
<1>9. /\ revisions'[n + 1] = row
      /\ Record(revisions', n + 1) =
           [slot |-> row.slot, val |-> row.val, ts |-> row.ts,
            supersedes |-> rank2[row.supersedes],
            active |-> ActivePayload(revisions', row.slot) = n + 1]
  BY <1>6 DEF Record
<1>10. \A r \in S : Record(revisions', r) =
         [Record(revisions, r) EXCEPT !.active =
            (ActivePayload(revisions', revisions[r].slot) = r)]
  <2> TAKE r \in S
  <2>1. revisions'[r] = revisions[r] /\ revisions[r].supersedes \in 0..n
    BY <1>1, <1>6, <1>7 DEF NoRid
  <2>2. rank2[revisions[r].supersedes] = rank[revisions[r].supersedes]
    BY <1>8, <2>1
  <2>3. PICK now : now = (ActivePayload(revisions', revisions[r].slot) = r)
    OBVIOUS
  <2>4. PICK before : before = (ActivePayload(revisions, revisions[r].slot) = r)
    OBVIOUS
  <2>5. Record(revisions, r) =
          [slot |-> revisions[r].slot, val |-> revisions[r].val, ts |-> revisions[r].ts,
           supersedes |-> rank[revisions[r].supersedes], active |-> before]
    BY <2>4, Zenon DEF Record
  <2>6. Record(revisions', r) =
          [slot |-> revisions[r].slot, val |-> revisions[r].val, ts |-> revisions[r].ts,
           supersedes |-> rank[revisions[r].supersedes], active |-> now]
    BY <2>1, <2>2, <2>3, Zenon DEF Record
  <2> HIDE DEF rank
  <2>7. Record(revisions', r) = [Record(revisions, r) EXCEPT !.active = now]
    BY <2>5, <2>6
  <2> QED
    BY <2>3, <2>7, Zenon
<1> HIDE DEF S, T, rank, rank2, recs, recs2, c, n
<1>11. \A i \in 1..c : \E r \in S :
         /\ rank[r] = i
         /\ recs[i] = Record(revisions, r)
         /\ recs2[i] = [recs[i] EXCEPT !.active =
                          (ActivePayload(revisions', revisions[r].slot) = r)]
  <2> TAKE i \in 1..c
  <2>1. PICK r \in S : rank[r] = i
    BY <1>5
  <2>2. r \in T /\ rank2[r] = i
    <3>1. r \in 0..n
      BY <1>6, <1>7
    <3> QED
      BY <1>8, <2>1, <3>1
  <2>3. recs[i] = Record(revisions, r) /\ recs2[i] = Record(revisions', r)
    BY <1>3, <1>4, <2>1, <2>2
  <2> QED
    BY <1>10, <2>1, <2>3
<1>12. isContent => recs2[c + 1] = Record(revisions', n + 1)
  <2>1. n + 1 \in S \cup {n + 1}
    OBVIOUS
  <2> QED
    BY <1>4, <1>8, <2>1
<1>13. Len(recs2) = IF isContent THEN Len(recs) + 1 ELSE Len(recs)
  BY <1>3, <1>4, <1>8 DEF c
<1>14. recs' = recs2
  BY DEF recs, recs2
<1> QED
  BY <1>3, <1>4, <1>9, <1>11, <1>12, <1>13, <1>14 DEF S, T, rank, rank2, recs, recs2, c, n

\* A set's transaction is the in-memory set.
LEMMA CommitSetMatches ==
  ASSUME IInv, IInv', PendingCurrent,
         NEW c \in Clients \ stale, NEW v \in Values, NEW ts \in Stamps, CommitSet(c, v, ts)
  PROVE  \E s \in Slots : InMemory!Set(s, v, ts)
<1> DEFINE s == pending[c].slot
           payload == ActivePayload(revisions, s)
           row == SetRow(s, v, ts, payload)
           recs == MemRecords(revisions)
           rank == Ranks(revisions)
           g == rank[payload]
           S == ContentRids(revisions)
           n == Len(revisions)
           off == InMemory!Deactivated(recs, g)
           last == [slot |-> s, val |-> v, ts |-> ts, supersedes |-> g, active |-> TRUE]
<1>1. s \in Slots /\ pending[c].prior = payload /\ payload \in Nat
  BY PendingTypes, PayloadIsContent DEF CommitSet, PendingCurrent
<1>2. /\ row \in Row /\ row.slot = s /\ row.val = v /\ row.ts = ts
      /\ row.supersedes = payload /\ row.reactivates = NoRid /\ ~row.cleared
  BY <1>1 DEF SetRow, Row, NoRid
<1>3. revisions' = Append(revisions, row) /\ n < MaxRows
  BY <1>1 DEF CommitSet, Insert
<1>4. revisions \in Seq(Row) /\ n \in Nat /\ S \subseteq 1..n /\ MaxRows \in Nat
  BY MaxRowsAssumption DEF IInv, TypeOK, ContentRids
<1>5. InMemory!Get(s) = g
  BY <1>1, ChainIs
<1>6. payload # NoRid => payload \in S /\ revisions[payload].slot = s
  BY <1>1, ChainsAreContent, PayloadIsContent
<1>7. payload \in 0..n
  BY <1>4, <1>6 DEF NoRid
<1> HIDE DEF s, row, payload
<1>8. \A q \in Slots : ActivePayload(revisions', q) =
        IF q = s THEN n + 1 ELSE ActivePayload(revisions, q)
  BY <1>2, <1>3, AppendPayload
<1>9. /\ recs \in Seq(Records) /\ recs' \in Seq(Records)
      /\ Len(recs') = Len(recs) + 1
      /\ \A i \in 1..Len(recs) : \E r \in S :
           /\ rank[r] = i
           /\ recs[i] = Record(revisions, r)
           /\ recs'[i] = [recs[i] EXCEPT !.active =
                            (ActivePayload(revisions', revisions[r].slot) = r)]
      /\ recs'[Len(recs) + 1] =
           [slot |-> row.slot, val |-> row.val, ts |-> row.ts,
            supersedes |-> Ranks(revisions')[row.supersedes],
            active |-> ActivePayload(revisions', row.slot) = n + 1]
  BY <1>2, <1>3, RecordsAfter
<1>10. Ranks(revisions')[payload] = g
  BY <1>2, <1>3, <1>4, <1>7, AppendRanks
<1>11. /\ g \in Nat /\ (g # NoRid => g \in 1..Len(recs))
       /\ Len(recs) \in Nat /\ Len(recs) <= n
       /\ \A p, q \in S : rank[p] = rank[q] => p = q
       /\ payload = NoRid => g = NoRid
       /\ \A q \in S : rank[q] # NoRid
  <2>1. Len(recs) = Cardinality(S) /\ Cardinality(S) \in 0..n
    BY <1>4, ChainsAreContent, RecordsAre, RanksAre
  <2> QED
    BY <1>4, <1>6, <2>1, RanksAre DEF NoRid
<1>12. recs'[Len(recs) + 1] = last
  <2>1. (ActivePayload(revisions', s) = n + 1) = TRUE
    BY <1>1, <1>8
  <2> QED
    BY <1>2, <1>9, <1>10, <2>1
<1> HIDE DEF recs, rank, g, S, n, off, last
<1>13. /\ off \in Seq(Records) /\ Len(off) = Len(recs)
       /\ \A i \in 1..Len(recs) : off[i] = IF i = g THEN [recs[i] EXCEPT !.active = FALSE] ELSE recs[i]
  <2>1. recs \in Seq(Records) /\ g \in Nat /\ (g # NoRid => g \in 1..Len(recs))
    BY <1>9, <1>11
  <2> QED
    BY <2>1, FlagSet DEF off
<1>14. \A i \in 1..Len(recs) : recs'[i] = off[i]
  <2> TAKE i \in 1..Len(recs)
  <2>1. PICK r \in S :
          /\ rank[r] = i
          /\ recs[i] = Record(revisions, r)
          /\ recs'[i] = [recs[i] EXCEPT !.active =
                           (ActivePayload(revisions', revisions[r].slot) = r)]
    BY <1>9
  <2>2. r \in 1..n /\ revisions[r].slot \in Slots /\ r # n + 1 /\ r # NoRid
    <3>1. r \in 1..n /\ revisions[r] \in Row
      BY <1>4 DEF n
    <3> QED
      BY <1>4, <3>1 DEF Row, NoRid
  <2>3. PICK was : was = (ActivePayload(revisions, revisions[r].slot) = r)
    OBVIOUS
  <2>4. PICK is : is = (ActivePayload(revisions', revisions[r].slot) = r)
    OBVIOUS
  <2>5. recs[i].active = was
    <3>1. Record(revisions, r).active = (ActivePayload(revisions, revisions[r].slot) = r)
      BY DEF Record
    <3> QED
      BY <2>1, <2>3, <3>1, Zenon
  <2>6. recs'[i] = [recs[i] EXCEPT !.active = is]
    BY <2>1, <2>4, Zenon
  <2>7. recs[i] \in Records
    BY <1>9
  <2>8. is = IF i = g THEN FALSE ELSE was
    <3>1. CASE revisions[r].slot = s
      <4>1. is = FALSE
        BY <1>1, <1>8, <2>2, <2>4, <3>1
      <4>2. was = (payload = r)
        BY <2>3, <3>1 DEF payload
      <4>3. (payload = r) <=> (i = g)
        BY <1>6, <1>11, <2>1, <2>2 DEF g
      <4> QED
        BY <4>1, <4>2, <4>3
    <3>2. CASE revisions[r].slot # s
      <4>1. is = was
        BY <1>8, <2>2, <2>3, <2>4, <3>2
      <4>2. i # g
        BY <1>6, <1>11, <2>1, <3>2 DEF g
      <4> QED
        BY <4>1, <4>2
    <3> QED
      BY <3>1, <3>2
  <2>9. [recs[i] EXCEPT !.active = was] = recs[i]
    BY <2>5, <2>7 DEF Records
  <2> QED
    BY <1>13, <2>6, <2>8, <2>9
<1>15. recs' = Append(off, last)
  <2>1. last \in Records
    BY <1>9, <1>12
  <2>2. /\ Append(off, last) \in Seq(Records) /\ Len(Append(off, last)) = Len(recs) + 1
        /\ \A i \in 1..Len(recs) : Append(off, last)[i] = off[i]
        /\ Append(off, last)[Len(recs) + 1] = last
    BY <1>11, <1>13, <2>1
  <2>3. \A i \in 1..(Len(recs) + 1) : i \in 1..Len(recs) \/ i = Len(recs) + 1
    BY <1>11
  <2>4. \A i \in 1..Len(recs') : recs'[i] = Append(off, last)[i]
    BY <1>9, <1>12, <1>14, <2>2, <2>3
  <2> HIDE DEF last
  <2> QED
    BY <1>9, <2>2, <2>4, SameRecords
<1>16. Len(recs) < MaxRows
  BY <1>3, <1>4, <1>11
<1>17. recs = MemRecords(revisions) /\ recs' = MemRecords(revisions')
  BY DEF recs
<1> QED
  BY <1>1, <1>5, <1>15, <1>16, <1>17 DEF InMemory!Set, off, last

\* Where a revert goes is the in-memory engine's choice, or its timestamp's.
LEMMA RevertGoesTo ==
  ASSUME IInv, NEW s \in Slots, NEW next \in Nat, GoesTo(s, next)
  PROVE  LET to == InMemory!RevertTo(s, Ranks(revisions)[next])
         IN  to => InMemory!Revert(s) \/ \E ts \in Stamps : InMemory!RevertToStamp(s, ts)
<1> DEFINE S == ContentRids(revisions)
           rank == Ranks(revisions)
           recs == MemRecords(revisions)
           payload == ActivePayload(revisions, s)
<1>1. /\ revisions \in Seq(Row)
      /\ \A r \in S : revisions[r].supersedes \in {NoRid} \cup S
      /\ ContentOf(revisions, s) = {r \in S : revisions[r].slot = s}
  BY ChainsAreContent
<1>2. /\ \A r \in S : recs[rank[r]] = Record(revisions, r)
      /\ \A r \in S : r \in 1..Len(revisions)
  BY <1>1, RecordsAre DEF ContentRids
<1>3. /\ \A r \in S : rank[r] \in 1..Cardinality(S)
      /\ \A p, q \in S : p < q <=> rank[p] < rank[q]
      /\ Cardinality(S) \in Nat
  BY <1>1, RanksAre
<1>4. /\ InMemory!Chain(s) = {rank[r] : r \in ContentOf(revisions, s)}
      /\ InMemory!First(InMemory!ActiveIn(s)) = rank[payload]
  BY ChainIs
<1>5. payload # NoRid => payload \in ContentOf(revisions, s)
  BY PayloadIsContent
<1> HIDE DEF S, rank, recs, payload
<1>6. \A r \in S : /\ recs[rank[r]].ts = revisions[r].ts
                   /\ recs[rank[r]].supersedes = rank[revisions[r].supersedes]
  <2>1. \A r : /\ Record(revisions, r).ts = revisions[r].ts
               /\ Record(revisions, r).supersedes = rank[revisions[r].supersedes]
    BY DEF Record, rank
  <2> QED
    BY <1>2, <2>1
<1>7. CASE payload # NoRid /\ next = PriorOf(revisions, payload)
  <2>1. rank[payload] # NoRid /\ rank[payload] \in InMemory!Chain(s)
    BY <1>1, <1>3, <1>4, <1>5, <1>7 DEF NoRid
  <2>2. recs[rank[payload]].supersedes = rank[next]
    BY <1>1, <1>5, <1>6, <1>7 DEF PriorOf
  <2> QED
    BY <1>4, <2>1, <2>2 DEF InMemory!Revert, InMemory!NoRid, NoRid, recs, rank
<1>8. ASSUME NEW ts \in Stamps, next \in WrittenAt(revisions, s, ts),
             \A r \in WrittenAt(revisions, s, ts) : next <= r
      PROVE  InMemory!RevertTo(s, rank[next]) => InMemory!RevertToStamp(s, ts)
  <2> DEFINE found == {i \in InMemory!Chain(s) : recs[i].ts = ts}
  <2>1. WrittenAt(revisions, s, ts) = {r \in S : revisions[r].slot = s /\ revisions[r].ts = ts}
    BY <1>1 DEF WrittenAt
  <2>2. found = {rank[r] : r \in WrittenAt(revisions, s, ts)}
    BY <1>1, <1>4, <1>6, <2>1
  <2>3. \A r \in WrittenAt(revisions, s, ts) : rank[next] <= rank[r]
    <3> TAKE r \in WrittenAt(revisions, s, ts)
    <3>1. next \in S /\ r \in S /\ ~(r < next)
      BY <1>2, <1>8, <2>1
    <3> QED
      BY <1>3, <3>1
  <2>4. rank[next] \in found /\ \A i \in found : rank[next] <= i /\ i \in Nat
    BY <1>3, <1>8, <2>1, <2>2, <2>3
  <2>5. InMemory!First(found) = rank[next]
    <3> HIDE DEF found
    <3>1. found # {} /\ \A i \in found : (\A j \in found : i <= j) => i = rank[next]
      BY <2>4
    <3> QED
      BY <2>4, <3>1 DEF InMemory!First
  <2> QED
    BY <2>4, <2>5 DEF InMemory!RevertToStamp, recs
<1> QED
  BY <1>7, <1>8 DEF GoesTo, payload, rank

\* A revert's transaction moves the in-memory active flag.
LEMMA CommitRevertMoves ==
  ASSUME IInv, IInv', NEW c \in Clients, CommitRevert(c)
  PROVE  InMemory!RevertTo(pending[c].slot, Ranks(revisions)[pending[c].next])
<1> DEFINE s == pending[c].slot
           next == pending[c].next
           row == RevertRow(s, next)
           payload == ActivePayload(revisions, s)
           recs == MemRecords(revisions)
           rank == Ranks(revisions)
           g == rank[payload]
           h == rank[next]
           S == ContentRids(revisions)
           n == Len(revisions)
           off == InMemory!Deactivated(recs, g)
           on == InMemory!Activated(off, h)
<1>1. s \in Slots /\ next \in Nat /\ payload \in Nat
  BY PendingTypes, PayloadIsContent DEF CommitRevert
<1>2. /\ row \in Row /\ row.slot = s
      /\ row.reactivates = next /\ row.cleared = (next = NoRid)
  BY <1>1, RevertRowFacts
<1>3. revisions' = Append(revisions, row)
  BY DEF CommitRevert, Insert
<1>4. revisions \in Seq(Row) /\ n \in Nat /\ S \subseteq 1..n
  BY DEF IInv, TypeOK, ContentRids
<1>5. InMemory!First(InMemory!ActiveIn(s)) = g
  BY <1>1, ChainIs
<1>6. payload # NoRid => payload \in S /\ revisions[payload].slot = s
  BY <1>1, ChainsAreContent, PayloadIsContent
<1>7. /\ next # NoRid => next \in ContentOf(revisions, s)
      /\ next # NoRid => next \in S /\ revisions[next].slot = s
  BY <1>1, ChainsAreContent DEF IInv, PendingResolves, CommitRevert
<1> HIDE DEF s, row, payload, next
<1>8. \A q \in Slots : ActivePayload(revisions', q) =
        IF q = s THEN next ELSE ActivePayload(revisions, q)
  <2>1. row.reactivates # NoRid => row.reactivates \in ContentOf(revisions, row.slot) /\ ~row.cleared
    BY <1>2, <1>7
  <2> QED
    BY <1>2, <1>3, <2>1, AppendPayload
<1>9. ~(row.reactivates = NoRid /\ ~row.cleared)
  BY <1>2
<1>10. /\ recs \in Seq(Records) /\ recs' \in Seq(Records)
       /\ Len(recs') = Len(recs)
       /\ \A i \in 1..Len(recs) : \E r \in S :
            /\ rank[r] = i
            /\ recs[i] = Record(revisions, r)
            /\ recs'[i] = [recs[i] EXCEPT !.active =
                             (ActivePayload(revisions', revisions[r].slot) = r)]
  BY <1>2, <1>3, <1>9, RecordsAfter
<1>11. /\ g \in Nat /\ (g # NoRid => g \in 1..Len(recs))
       /\ h \in Nat /\ (h # NoRid => h \in 1..Len(recs))
       /\ \A p, q \in S : rank[p] = rank[q] => p = q
       /\ payload = NoRid => g = NoRid
       /\ next = NoRid => h = NoRid
       /\ \A q \in S : rank[q] # NoRid
  <2>1. Len(recs) = Cardinality(S) /\ Cardinality(S) \in 0..n
    BY <1>4, ChainsAreContent, RecordsAre, RanksAre
  <2> QED
    BY <1>4, <1>6, <1>7, <2>1, RanksAre DEF NoRid
<1> HIDE DEF recs, rank, g, h, S, n, off, on
<1>12. /\ off \in Seq(Records) /\ Len(off) = Len(recs)
       /\ \A i \in 1..Len(recs) : off[i] = IF i = g THEN [recs[i] EXCEPT !.active = FALSE] ELSE recs[i]
  <2>1. recs \in Seq(Records) /\ g \in Nat /\ (g # NoRid => g \in 1..Len(recs))
    BY <1>10, <1>11
  <2> QED
    BY <2>1, FlagSet DEF off
<1>13. /\ on \in Seq(Records) /\ Len(on) = Len(recs)
       /\ \A i \in 1..Len(recs) : on[i] = IF i = h THEN [off[i] EXCEPT !.active = TRUE] ELSE off[i]
  <2>1. off \in Seq(Records) /\ h \in Nat /\ (h # NoRid => h \in 1..Len(off))
    BY <1>11, <1>12
  <2>2. /\ on \in Seq(Records) /\ Len(on) = Len(off)
        /\ \A i \in 1..Len(off) : on[i] = IF i = h THEN [off[i] EXCEPT !.active = TRUE] ELSE off[i]
    BY <2>1, FlagSet DEF on
  <2>3. Len(off) = Len(recs)
    BY <1>12
  <2> QED
    BY <2>2, <2>3
<1>14. \A i \in 1..Len(recs) : recs'[i] = on[i]
  <2> TAKE i \in 1..Len(recs)
  <2>1. PICK r \in S :
          /\ rank[r] = i
          /\ recs[i] = Record(revisions, r)
          /\ recs'[i] = [recs[i] EXCEPT !.active =
                           (ActivePayload(revisions', revisions[r].slot) = r)]
    BY <1>10
  <2>2. revisions[r].slot \in Slots /\ r # NoRid
    <3>1. r \in 1..n /\ revisions[r] \in Row
      BY <1>4 DEF n
    <3> QED
      BY <1>4, <3>1 DEF Row, NoRid
  <2>3. PICK was : was = (ActivePayload(revisions, revisions[r].slot) = r)
    OBVIOUS
  <2>4. PICK is : is = (ActivePayload(revisions', revisions[r].slot) = r)
    OBVIOUS
  <2>5. recs[i].active = was
    <3>1. Record(revisions, r).active = (ActivePayload(revisions, revisions[r].slot) = r)
      BY DEF Record
    <3> QED
      BY <2>1, <2>3, <3>1, Zenon
  <2>6. recs'[i] = [recs[i] EXCEPT !.active = is]
    BY <2>1, <2>4, Zenon
  <2>7. recs[i] \in Records
    BY <1>10
  <2>8. is = IF i = h THEN TRUE ELSE IF i = g THEN FALSE ELSE was
    <3>1. CASE revisions[r].slot = s
      <4>1. is = (next = r) /\ was = (payload = r)
        BY <1>1, <1>8, <2>3, <2>4, <3>1 DEF payload
      <4>2. (next = r) <=> (i = h)
        BY <1>7, <1>11, <2>1, <2>2 DEF h
      <4>3. (payload = r) <=> (i = g)
        BY <1>6, <1>11, <2>1, <2>2 DEF g
      <4> QED
        BY <4>1, <4>2, <4>3
    <3>2. CASE revisions[r].slot # s
      <4>1. is = was
        BY <1>8, <2>2, <2>3, <2>4, <3>2
      <4>2. i # g /\ i # h
        BY <1>6, <1>7, <1>11, <2>1, <3>2 DEF g, h
      <4> QED
        BY <4>1, <4>2
    <3> QED
      BY <3>1, <3>2
  <2>9. /\ [recs[i] EXCEPT !.active = was] = recs[i]
        /\ [[recs[i] EXCEPT !.active = FALSE] EXCEPT !.active = TRUE] = [recs[i] EXCEPT !.active = TRUE]
    BY <2>5, <2>7 DEF Records
  <2> QED
    BY <1>12, <1>13, <2>6, <2>8, <2>9
<1>15. recs' = on
  BY <1>10, <1>13, <1>14, SameRecords
<1>16. recs = MemRecords(revisions) /\ recs' = MemRecords(revisions')
  BY DEF recs
<1> QED
  BY <1>5, <1>15, <1>16 DEF InMemory!RevertTo, off, on, s, next, h, rank

\* The database engine is the in-memory one: every commit that is not stale is
\* an in-memory set or revert, whatever transactions roll back, and whatever
\* stale ones went through before.
THEOREM CommitsMatch == Spec => MatchesInMemory
<1> DEFINE Matches == UNCHANGED revisions \/ StaleCommit \/ InMemory!Next
<1>1. Init => InMemory!Init
  <2> SUFFICES ASSUME Init PROVE InMemory!Init
    OBVIOUS
  <2>1. revisions = <<>> /\ ContentRids(<<>>) = {}
    BY DEF Init, ContentRids
  <2>2. Cardinality(ContentRids(revisions)) = 0
    BY <2>1, FS_EmptySet
  <2>3. MemRecords(revisions) = <<>>
    BY <2>2 DEF MemRecords
  <2> QED
    BY <2>3 DEF InMemory!Init
<1>2. IInv /\ IInv' /\ PendingCurrent /\ [Next]_vars => Matches
  <2> SUFFICES ASSUME IInv, IInv', PendingCurrent, [Next]_vars, ~StaleCommit
               PROVE  InMemory!Next \/ UNCHANGED revisions
    OBVIOUS
  <2>1. CASE UNCHANGED revisions
    BY <2>1
  <2>2. ASSUME NEW c \in Clients, NEW v \in Values, NEW ts \in Stamps, CommitSet(c, v, ts)
        PROVE  InMemory!Next
    <3> DEFINE row == SetRow(pending[c].slot, v, ts, pending[c].prior)
    <3>1. pending[c].op = "set" /\ pending[c].slot \in Slots /\ pending[c].prior \in Nat
      BY <2>2, PendingTypes DEF CommitSet
    <3>2. row \in Row
      BY <3>1 DEF SetRow, Row, NoRid
    <3>3. revisions' = Append(revisions, row) /\ Ends(c, Reading(pending[c].slot))
      BY <2>2 DEF CommitSet, Insert
    <3> HIDE DEF row
    <3>4. c \in Clients \ stale
      BY <3>1, <3>2, <3>3, StaleCommits
    <3> QED
      BY <2>2, <3>4, CommitSetMatches DEF InMemory!Next
  <2>3. ASSUME NEW c \in Clients, CommitRevert(c)
        PROVE  InMemory!Next
    <3>1. pending[c].op = "revert" /\ pending[c].slot \in Slots /\ pending[c].next \in Nat
      BY <2>3, PendingTypes DEF CommitRevert
    <3> DEFINE row == RevertRow(pending[c].slot, pending[c].next)
    <3>4. row \in Row
      BY <3>1, RevertRowFacts
    <3>5. revisions' = Append(revisions, row) /\ Ends(c, Reading(pending[c].slot))
      BY <2>3 DEF CommitRevert, Insert
    <3> HIDE DEF row
    <3>6. c \in Clients \ stale
      BY <3>1, <3>4, <3>5, StaleCommits
    <3>2. GoesTo(pending[c].slot, pending[c].next)
      BY <3>1, <3>6 DEF PendingCurrent
    <3>3. InMemory!RevertTo(pending[c].slot, Ranks(revisions)[pending[c].next])
      BY <2>3, CommitRevertMoves
    <3> QED
      BY <3>1, <3>2, <3>3, RevertGoesTo DEF InMemory!Next
  <2> QED
    BY <2>1, <2>2, <2>3, OnlyCommitsWrite
<1>3. Spec => [][Matches]_vars
  <2> HIDE DEF Matches
  <2> QED
    BY <1>2, Invariance, StaysCurrent, PTL DEF Spec
<1> QED
  BY <1>1, <1>3, PTL DEF Spec, MatchesInMemory

OneClient == \A c, d \in Clients : c = d

\* Used by one process, the database engine is the in-memory one throughout.
THEOREM OneClientMatches == OneClient => (Spec => InMemory!Spec)
<1> SUFFICES ASSUME OneClient PROVE Spec => InMemory!Spec
  OBVIOUS
<1> DEFINE Matches == UNCHANGED revisions \/ StaleCommit \/ InMemory!Next
           NoneStale == stale = {}
<1>1. Init => NoneStale
  BY DEF Init
<1>2. NoneStale /\ [Next]_vars => NoneStale'
  <2> SUFFICES ASSUME stale = {}, [Next]_vars PROVE stale' = {}
    OBVIOUS
  <2>1. ASSUME NEW c \in Clients, NEW S, S \subseteq Clients, Ends(c, S)
        PROVE  stale' = {}
    BY <2>1 DEF Ends, OneClient
  <2>2. \A s : Reading(s) \subseteq Clients
    BY DEF Reading
  <2>3. ASSUME NEW c \in Clients, NEW s \in Slots, BeginSet(c, s) \/ BeginRevert(c, s)
        PROVE  stale' = {}
    BY <2>3 DEF BeginSet, BeginSetAfter, BeginRevert, BeginRevertTo
  <2>4. ASSUME NEW c \in Clients, NEW s \in Slots, NEW ts \in Stamps, BeginRevertToStamp(c, s, ts)
        PROVE  stale' = {}
    BY <2>4 DEF BeginRevertToStamp, BeginRevertTo
  <2>5. ASSUME NEW c \in Clients, NEW v \in Values, NEW ts \in Stamps, CommitSet(c, v, ts)
        PROVE  stale' = {}
    BY <2>1, <2>2, <2>5 DEF CommitSet
  <2>6. ASSUME NEW c \in Clients, CommitRevert(c) \/ Abort(c)
        PROVE  stale' = {}
    BY <2>1, <2>2, <2>6 DEF CommitRevert, Abort
  <2>7. CASE UNCHANGED vars
    BY <2>7 DEF vars
  <2> QED
    BY <2>3, <2>4, <2>5, <2>6, <2>7 DEF Next
<1>3. NoneStale /\ [Matches]_vars => [InMemory!Next]_(MemRecords(revisions))
  BY DEF StaleCommit, vars
<1>4. Spec => []NoneStale
  <2> HIDE DEF NoneStale
  <2> QED
    BY <1>1, <1>2, PTL DEF Spec
<1>5. Spec => InMemory!Init /\ [][Matches]_vars
  BY CommitsMatch DEF MatchesInMemory
<1> HIDE DEF Matches, NoneStale
<1> QED
  BY <1>3, <1>4, <1>5, PTL DEF InMemory!Spec
=============================================================================
