------------------------- MODULE ProjectStorageProofs -------------------------
(***************************************************************************)
(* For any slots, modules, values and bounds: however writes, exports,     *)
(* hand edits, adoptions, crashes and rebuilds follow each other, the log  *)
(* files hold no write twice and chain without a break, a shard status     *)
(* calls clean is what the database shows, and a database lost when the    *)
(* files miss no write comes back as it was.                               *)
(*                                                                         *)
(* All of it rests on the rids: they grow with the days, so the lines of   *)
(* the files, read in name order, are in the order the writes were made,   *)
(* and what is committed but not exported is newer than any line.          *)
(***************************************************************************)
EXTENDS ProjectStorage, DayFilesProofs

Bodies == [rid : 0..MaxRows, row : Row \cup {Hole},
           lock : {<<>>} \cup (Content \X (0..MaxRows))]
Shard == [shows : Content, lock : Content, ver : 0..MaxRows]

\* There is a row of rid r.
IsRow(rows, r) == r \in 1..Len(rows) /\ rows[r] # Hole

VarsOK ==
  /\ revisions \in Seq(Row \cup {Hole})
  /\ Len(revisions) <= MaxRows
  /\ logDay \in Seq(0..MaxDay) /\ Len(logDay) = Len(revisions)
  /\ inited \in BOOLEAN
  /\ shards \in [Modules -> Shard]
  /\ files \in FilesOf(Bodies)
  /\ today \in Days
  /\ todo \in Seq(1..MaxRows)
  /\ half \in BOOLEAN /\ (half => todo # <<>>)

\* The rows a row points to are there, older, and of its slot; a bookkeeping
\* row has no value; the table ends with a row.
Points(rows, q, slot, r) == q # NoRid => q < r /\ IsRow(rows, q) /\ rows[q].slot = slot
RowOk(rows, r) ==
  /\ Points(rows, rows[r].supersedes, rows[r].slot, r)
  /\ Points(rows, rows[r].reactivates, rows[r].slot, r)
  /\ ~IsContent(rows, r) => rows[r].val = NoValue
RowsOk(rows) ==
  /\ rows # <<>> => rows[Len(rows)] # Hole
  /\ \A r \in 1..Len(rows) : rows[r] # Hole => RowOk(rows, r)

\* The log table is about rows, and its days follow the rids.
DaysOk(rows, days, now) ==
  /\ \A r \in 1..Len(rows) : days[r] # 0 => rows[r] # Hole /\ days[r] <= now
  /\ \A q, r \in 1..Len(rows) : q < r /\ days[q] # 0 /\ days[r] # 0 => days[q] <= days[r]

\* A line is the ridless one, on the first day, or tells of a row on its day.
LineOk(rows, days, first, d, body) ==
  IF body.rid = NoRid THEN first /\ d = 1 /\ body = InitBody
  ELSE /\ IsRow(rows, body.rid)
       /\ body.row = [rows[body.rid] EXCEPT !.supersedes = NoRid]
       /\ days[body.rid] = d
FilesOk(rows, days, first, f) ==
  \A d \in Days : \A i \in 1..Len(f[d]) :
    /\ LineOk(rows, days, first, d, f[d][i].body)
    /\ \A j \in 1..Len(f[d]) : j < i => f[d][j].body.rid < f[d][i].body.rid

\* What waits to be exported is logged, in order, and newer than every line.
TodoOk(rows, days, f, left) ==
  /\ \A k \in 1..Len(left) : IsRow(rows, left[k]) /\ days[left[k]] # 0
  /\ \A j, k \in 1..Len(left) : j < k => left[j] < left[k]
  /\ \A k \in 1..Len(left) : \A d \in Days : \A i \in 1..Len(f[d]) :
       f[d][i].body.rid < left[k]

\* A shard's entries are about its own slots and about rows.
ShardsOk(rows, sh) ==
  \A m \in Modules : \A s \in DOMAIN sh[m].shows :
    s \in Slots /\ ShardOf[s] = m /\ IsRow(rows, sh[m].shows[s].rid)

\* A shard at least as new as the database was written from what it says now.
CleanOk ==
  lost \/ \A m \in Modules :
    /\ shards[m].ver <= Len(revisions)
    /\ Exists(m) /\ shards[m].ver >= DbVersion => shards[m].lock = Written(m).shows

StorageInv ==
  /\ VarsOK
  /\ RowsOk(revisions)
  /\ DaysOk(revisions, logDay, today)
  /\ FilesOk(revisions, logDay, inited, files)
  /\ TodoOk(revisions, logDay, files, todo)
  /\ ShardsOk(revisions, shards)
  /\ torn \/ Chained(files)
  /\ CleanOk
-----------------------------------------------------------------------------
(* Rids: of a set the greatest, and those that lines have.                 *)

\* A nonempty set of rids has a greatest.
LEMMA GreatestIs ==
  ASSUME NEW n \in Nat, NEW S \in SUBSET (1..n), S # {}
  PROVE  /\ Greatest(S) \in S
         /\ \A q \in S : q <= Greatest(S)
BY GreatestExists DEF Greatest

Rid(f, x) == f[x[1]][x[2]].body.rid

LEMMA RidTypes ==
  ASSUME NEW f \in FilesOf(Bodies)
  PROVE  \A d \in Days : \A i \in 1..Len(f[d]) :
           f[d][i].body \in Bodies /\ f[d][i].body.rid \in 0..MaxRows
<1>1. \A d \in Days : \A i \in 1..Len(f[d]) : f[d][i].body \in Bodies
  BY LineTypes
<1> QED
  BY <1>1 DEF Bodies

\* Lines come in the order of their rids: the files tell the writes in the
\* order they were made.
LEMMA LinesByRid ==
  ASSUME NEW rows, NEW days, NEW now, NEW first, NEW f \in FilesOf(Bodies),
         Len(rows) \in Nat, DaysOk(rows, days, now), FilesOk(rows, days, first, f),
         NEW x \in LinesIn(f), NEW y \in LinesIn(f)
  PROVE  /\ Before(x, y) <=> Rid(f, x) < Rid(f, y)
         /\ x # y => Rid(f, x) # Rid(f, y)
<1>1. \A d, e \in Days : \A i \in 1..Len(f[d]) : \A j \in 1..Len(f[e]) :
        d < e => f[d][i].body.rid < f[e][j].body.rid
  <2> SUFFICES ASSUME NEW d \in Days, NEW e \in Days, NEW i \in 1..Len(f[d]),
                      NEW j \in 1..Len(f[e]), d < e
               PROVE  f[d][i].body.rid < f[e][j].body.rid
    OBVIOUS
  <2>1. PICK p : p = f[d][i].body
    OBVIOUS
  <2>2. PICK q : q = f[e][j].body
    OBVIOUS
  <2>3. p.rid \in Nat /\ q.rid \in Nat
    BY <2>1, <2>2, RidTypes, StorageAssumption
  <2>4. LineOk(rows, days, first, d, p) /\ LineOk(rows, days, first, e, q)
    BY <2>1, <2>2 DEF FilesOk
  <2>5. d \in Nat /\ e \in Nat /\ d >= 1 /\ e # 1
    BY DEF Days
  <2>6. q.rid # NoRid /\ q.rid \in 1..Len(rows) /\ days[q.rid] = e
    BY <2>4, <2>5 DEF LineOk, IsRow
  <2>7. CASE p.rid = NoRid
    BY <2>1, <2>2, <2>3, <2>6, <2>7 DEF NoRid
  <2>8. CASE p.rid # NoRid
    <3>1. p.rid \in 1..Len(rows) /\ days[p.rid] = d
      BY <2>4, <2>8 DEF LineOk, IsRow
    <3>2. days[q.rid] # 0 /\ days[p.rid] # 0
      BY <2>5, <2>6, <3>1
    <3>3. q.rid < p.rid => days[q.rid] <= days[p.rid]
      BY <2>6, <3>1, <3>2 DEF DaysOk
    <3>4. q.rid < p.rid => e <= d
      BY <2>6, <3>1, <3>3
    <3>5. ~(q.rid < p.rid) /\ q.rid # p.rid
      BY <2>5, <2>6, <3>1, <3>4
    <3> QED
      BY <2>1, <2>2, <2>3, <3>5
  <2> QED
    BY <2>7, <2>8
<1>2. \A d \in Days : \A i, j \in 1..Len(f[d]) : j < i => f[d][j].body.rid < f[d][i].body.rid
  BY DEF FilesOk
<1>3. PICK d \in Days : \E i \in 1..Len(f[d]) : x = <<d, i>>
  BY LinesAre
<1>4. PICK i \in 1..Len(f[d]) : x = <<d, i>>
  BY <1>3
<1>5. PICK e \in Days : \E j \in 1..Len(f[e]) : y = <<e, j>>
  BY LinesAre
<1>6. PICK j \in 1..Len(f[e]) : y = <<e, j>>
  BY <1>5
<1>7. /\ Rid(f, x) \in Nat /\ Rid(f, x) = f[d][i].body.rid
      /\ Rid(f, y) \in Nat /\ Rid(f, y) = f[e][j].body.rid
  <2>1. f[d][i].body.rid \in 0..MaxRows /\ f[e][j].body.rid \in 0..MaxRows
    BY RidTypes
  <2> QED
    BY <1>4, <1>6, <2>1 DEF Rid
<1>8. d \in Nat /\ e \in Nat /\ i \in Nat /\ j \in Nat
  BY DEF Days
<1>9. Before(x, y) <=> d < e \/ (d = e /\ i < j)
  BY <1>4, <1>6 DEF Before
<1>10. (d < e => Rid(f, x) < Rid(f, y)) /\ (e < d => Rid(f, y) < Rid(f, x))
  BY <1>1, <1>7
<1>11. d = e => (i < j => Rid(f, x) < Rid(f, y)) /\ (j < i => Rid(f, y) < Rid(f, x))
  BY <1>2, <1>7
<1>12. d = e /\ i = j => x = y
  BY <1>4, <1>6
<1>13. CASE d < e
  BY <1>7, <1>8, <1>9, <1>10, <1>13
<1>14. CASE e < d
  BY <1>7, <1>8, <1>9, <1>10, <1>14
<1>15. CASE d = e /\ i < j
  BY <1>7, <1>8, <1>9, <1>11, <1>15
<1>16. CASE d = e /\ j < i
  BY <1>7, <1>8, <1>9, <1>11, <1>16
<1>17. CASE d = e /\ i = j
  BY <1>7, <1>8, <1>9, <1>12, <1>17
<1> QED
  BY <1>8, <1>13, <1>14, <1>15, <1>16, <1>17
-----------------------------------------------------------------------------
(* What a reader of the table is shown.                                    *)

Rows == Seq(Row \cup {Hole})

LEMMA RowTypes ==
  ASSUME NEW rows \in Rows, NEW r \in 1..Len(rows)
  PROVE  /\ rows[r] \in Row \cup {Hole}
         /\ rows[r] # Hole => /\ rows[r] \in Row /\ rows[r].slot \in Slots
                              /\ rows[r].val \in Values \cup {NoValue}
                              /\ rows[r].supersedes \in Nat /\ rows[r].reactivates \in Nat
                              /\ rows[r].cleared \in BOOLEAN
         /\ rows[r].slot \in Slots => rows[r] # Hole
<1>1. rows[r] \in Row \cup {Hole}
  BY ElementOfSeq DEF Rows
<1>2. Hole.slot \notin Slots
  BY StorageAssumption DEF Hole
<1>3. rows[r] # Hole => rows[r] \in Row
  BY <1>1
<1> QED
  BY <1>1, <1>2, <1>3 DEF Row

LEMMA HeadIs ==
  ASSUME NEW rows \in Rows, NEW s, RidsOf(rows, s) # {}
  PROVE  HeadRid(rows, s) \in RidsOf(rows, s)
<1>1. RidsOf(rows, s) \in SUBSET (1..Len(rows)) /\ Len(rows) \in Nat
  BY DEF RidsOf, Rows
<1> QED
  BY <1>1, GreatestIs DEF HeadRid

\* What is active in a slot, if anything, is a row of the slot.
LEMMA PayloadIs ==
  ASSUME NEW rows \in Rows, RowsOk(rows), NEW s \in Slots, ActivePayload(rows, s) # NoRid
  PROVE  /\ IsRow(rows, ActivePayload(rows, s))
         /\ rows[ActivePayload(rows, s)].slot = s
         /\ ActivePayload(rows, s) \in 1..Len(rows)
<1>1. PICK h : h = HeadRid(rows, s)
  OBVIOUS
<1>2. RidsOf(rows, s) # {} /\ ~rows[h].cleared
  BY <1>1 DEF ActivePayload
<1>3. h \in 1..Len(rows) /\ rows[h].slot = s
  BY <1>1, <1>2, HeadIs DEF RidsOf
<1>4. rows[h] # Hole
  BY <1>3, RowTypes
<1>5. RowOk(rows, h)
  BY <1>3, <1>4 DEF RowsOk
<1>6. CASE rows[h].reactivates = NoRid
  <2>1. ActivePayload(rows, s) = h
    BY <1>1, <1>2, <1>6 DEF ActivePayload
  <2> QED
    BY <1>3, <1>4, <2>1 DEF IsRow
<1>7. CASE rows[h].reactivates # NoRid
  <2>1. ActivePayload(rows, s) = rows[h].reactivates
    BY <1>1, <1>2, <1>7 DEF ActivePayload
  <2> QED
    BY <1>3, <1>5, <1>7, <2>1 DEF RowOk, Points, IsRow
<1> QED
  BY <1>6, <1>7

\* A slot whose active row is no content row shows nothing.
LEMMA ShownIfContent ==
  ASSUME NEW rows \in Rows, RowsOk(rows), NEW s \in Slots,
         ActivePayload(rows, s) \notin ContentOf(rows, s)
  PROVE  Visible(rows, s) = NoValue
<1>1. PICK p : p = ActivePayload(rows, s)
  OBVIOUS
<1>2. CASE p = NoRid
  BY <1>1, <1>2 DEF Visible
<1>3. CASE p # NoRid
  <2>1. IsRow(rows, p) /\ rows[p].slot = s
    BY <1>1, <1>3, PayloadIs
  <2>2. ~IsContent(rows, p)
    BY <1>1, <2>1 DEF ContentOf, RidsOf, IsRow
  <2>3. rows[p].val = NoValue
    BY <2>1, <2>2 DEF RowsOk, RowOk, IsRow
  <2> QED
    BY <1>1, <1>3, <2>3 DEF Visible
<1> QED
  BY <1>2, <1>3

\* Tables that differ in what their rows supersede show the same.
Alike(rows, other) ==
  /\ Len(rows) = Len(other)
  /\ \A r \in 1..Len(rows) : /\ rows[r].slot = other[r].slot
                             /\ rows[r].val = other[r].val
                             /\ rows[r].reactivates = other[r].reactivates
                             /\ rows[r].cleared = other[r].cleared

LEMMA AlikeShowTheSame ==
  ASSUME NEW rows \in Rows, NEW other \in Rows, RowsOk(rows), Alike(rows, other), NEW s \in Slots
  PROVE  /\ ActivePayload(rows, s) = ActivePayload(other, s)
         /\ ContentOf(rows, s) = ContentOf(other, s)
         /\ Visible(rows, s) = Visible(other, s)
         /\ ActivePayload(rows, s) # NoRid =>
              rows[ActivePayload(rows, s)].val = other[ActivePayload(rows, s)].val
<1>1. RidsOf(rows, s) = RidsOf(other, s)
  BY DEF Alike, RidsOf
<1>2. ContentOf(rows, s) = ContentOf(other, s)
  <2>1. \A r \in RidsOf(rows, s) : IsContent(rows, r) <=> IsContent(other, r)
    BY DEF Alike, IsContent, RidsOf
  <2> QED
    BY <1>1, <2>1 DEF ContentOf
<1>3. ActivePayload(rows, s) = ActivePayload(other, s)
  <2>1. PICK h : h = HeadRid(rows, s)
    OBVIOUS
  <2>2. h = HeadRid(other, s)
    BY <1>1, <2>1 DEF HeadRid
  <2>3. CASE RidsOf(rows, s) = {}
    BY <1>1, <2>3 DEF ActivePayload
  <2>4. CASE RidsOf(rows, s) # {}
    <3>1. h \in 1..Len(rows)
      BY <2>1, <2>4, HeadIs DEF RidsOf
    <3>2. rows[h].cleared = other[h].cleared /\ rows[h].reactivates = other[h].reactivates
      BY <3>1 DEF Alike
    <3> QED
      BY <1>1, <2>1, <2>2, <2>4, <3>2 DEF ActivePayload
  <2> QED
    BY <2>3, <2>4
<1>4. ActivePayload(rows, s) # NoRid =>
        rows[ActivePayload(rows, s)].val = other[ActivePayload(rows, s)].val
  BY PayloadIs DEF Alike
<1>5. Visible(rows, s) = Visible(other, s)
  BY <1>3, <1>4 DEF Visible
<1> QED
  BY <1>2, <1>3, <1>4, <1>5
-----------------------------------------------------------------------------
(* What is written from the database, and the rows a write adds.           *)

LEMMA VarTypes ==
  ASSUME VarsOK
  PROVE  /\ revisions \in Rows /\ Len(revisions) \in Nat /\ Len(revisions) <= MaxRows
         /\ logDay \in Seq(0..MaxDay) /\ Len(logDay) = Len(revisions)
         /\ DOMAIN logDay = 1..Len(revisions) /\ DOMAIN revisions = 1..Len(revisions)
         /\ \A r \in 1..Len(revisions) : logDay[r] \in 0..MaxDay
         /\ MaxRows \in Nat /\ MaxDay \in Nat /\ MaxDay >= 1
         /\ DOMAIN todo = 1..Len(todo) /\ Len(todo) \in Nat
         /\ files \in FilesOf(Bodies)
<1>1. \A r \in 1..Len(logDay) : logDay[r] \in 0..MaxDay
  BY ElementOfSeq DEF VarsOK
<1> QED
  BY <1>1, StorageAssumption, MaxDayAssumption DEF VarsOK, Rows

VersionOf(days) ==
  LET logged == {r \in DOMAIN days : days[r] # 0}
  IN  IF logged = {} THEN 0 ELSE Greatest(logged)

LEMMA VersionOfIs ==
  ASSUME NEW days \in Seq(0..MaxDay)
  PROVE  /\ VersionOf(days) \in 0..Len(days)
         /\ \A r \in 1..Len(days) : days[r] # 0 => r <= VersionOf(days)
<1> DEFINE logged == {r \in DOMAIN days : days[r] # 0}
<1>1. logged \in SUBSET (1..Len(days)) /\ Len(days) \in Nat
  OBVIOUS
<1>2. VersionOf(days) = IF logged = {} THEN 0 ELSE Greatest(logged)
  BY DEF VersionOf
<1>3. \A r \in 1..Len(days) : days[r] # 0 => r \in logged
  OBVIOUS
<1> HIDE DEF logged
<1>4. logged # {} => Greatest(logged) \in logged /\ \A q \in logged : q <= Greatest(logged)
  BY <1>1, GreatestIs
<1>5. VersionOf(days) \in 0..Len(days)
  <2>1. CASE logged = {}
    BY <1>1, <1>2, <2>1
  <2>2. CASE logged # {}
    <3>1. Greatest(logged) \in 1..Len(days)
      BY <1>1, <1>4, <2>2
    <3> QED
      BY <1>2, <2>2, <3>1
  <2> QED
    BY <2>1, <2>2
<1>6. \A r \in 1..Len(days) : days[r] # 0 => r <= VersionOf(days)
  BY <1>2, <1>3, <1>4
<1> QED
  BY <1>5, <1>6

LEMMA VersionIs ==
  ASSUME VarsOK
  PROVE  /\ DbVersion = VersionOf(logDay)
         /\ DbVersion \in 0..Len(revisions)
         /\ DbVersion \in 0..MaxRows
         /\ \A r \in 1..Len(revisions) : logDay[r] # 0 => r <= DbVersion
<1>1. DbVersion = VersionOf(logDay)
  BY DEF DbVersion, VersionOf
<1> QED
  BY <1>1, VersionOfIs, VarTypes

LEMMA WrittenIs ==
  ASSUME VarsOK, RowsOk(revisions), NEW m
  PROVE  /\ Written(m) \in Shard
         /\ Written(m).lock = Written(m).shows
         /\ Written(m).ver = DbVersion
         /\ DOMAIN Written(m).shows = ActiveOf(m)
         /\ \A s \in ActiveOf(m) :
              /\ s \in Slots /\ ShardOf[s] = m
              /\ IsRow(revisions, Written(m).shows[s].rid)
              /\ Written(m).shows[s].val = Visible(revisions, s)
<1> DEFINE entry(s) == [rid |-> ActivePayload(revisions, s),
                        val |-> revisions[ActivePayload(revisions, s)].val]
           shown == [s \in ActiveOf(m) |-> entry(s)]
<1>1. Written(m) = [shows |-> shown, lock |-> shown, ver |-> DbVersion]
  BY DEF Written
<1>2. \A s \in ActiveOf(m) :
        /\ s \in Slots /\ ShardOf[s] = m
        /\ IsRow(revisions, entry(s).rid)
        /\ entry(s).val = Visible(revisions, s)
        /\ entry(s) \in [rid : 1..MaxRows, val : Values \cup {NoValue}]
  <2> TAKE s \in ActiveOf(m)
  <2>1. PICK p : p = ActivePayload(revisions, s)
    OBVIOUS
  <2>2. s \in Slots /\ ShardOf[s] = m /\ p \in ContentOf(revisions, s)
    BY <2>1 DEF ActiveOf
  <2>3. p \in 1..Len(revisions) /\ revisions[p].slot = s
    BY <2>2 DEF ContentOf, RidsOf
  <2>4. revisions[p] # Hole /\ revisions[p].val \in Values \cup {NoValue}
    BY <2>2, <2>3, RowTypes, VarTypes
  <2>5. p \in 1..MaxRows /\ p # NoRid
    BY <2>3, VarTypes DEF NoRid
  <2> QED
    BY <2>1, <2>2, <2>3, <2>4, <2>5 DEF IsRow, Visible
<1>3. shown \in Content
  <2>1. ActiveOf(m) \in SUBSET Slots
    BY DEF ActiveOf
  <2>2. shown \in [ActiveOf(m) -> [rid : 1..MaxRows, val : Values \cup {NoValue}]]
    BY <1>2
  <2> QED
    BY <2>1, <2>2 DEF Content
<1>4. Written(m) \in Shard
  BY <1>1, <1>3, VersionIs DEF Shard
<1>5. DOMAIN shown = ActiveOf(m) /\ \A s \in ActiveOf(m) : shown[s] = entry(s)
  OBVIOUS
<1> HIDE DEF shown
<1>6. Written(m).shows = shown /\ Written(m).lock = shown /\ Written(m).ver = DbVersion
  BY <1>1
<1> QED
  BY <1>2, <1>4, <1>5, <1>6

\* Shards written from the database bind and show it; those not written are
\* as they were.
LEMMA WritingShards ==
  ASSUME VarsOK, RowsOk(revisions), ShardsOk(revisions, shards), CleanOk,
         NEW sh, sh = [m \in Modules |-> sh[m]],
         \A m \in Modules : sh[m] \in {shards[m], Written(m)}
  PROVE  /\ sh \in [Modules -> Shard]
         /\ ShardsOk(revisions, sh)
         /\ lost \/ \A m \in Modules :
              /\ sh[m].ver <= Len(revisions)
              /\ sh[m] # NoFile /\ sh[m].ver >= DbVersion => sh[m].lock = Written(m).shows
<1>1. \A m \in Modules : sh[m] \in Shard
  BY WrittenIs DEF VarsOK
<1>2. ShardsOk(revisions, sh)
  <2> SUFFICES ASSUME NEW m \in Modules, NEW s \in DOMAIN sh[m].shows
               PROVE  s \in Slots /\ ShardOf[s] = m /\ IsRow(revisions, sh[m].shows[s].rid)
    BY DEF ShardsOk
  <2>1. CASE sh[m] = shards[m]
    BY <2>1 DEF ShardsOk
  <2>2. CASE sh[m] = Written(m)
    BY <2>2, WrittenIs
  <2> QED
    BY <2>1, <2>2
<1>3. ASSUME ~lost, NEW m \in Modules
      PROVE  /\ sh[m].ver <= Len(revisions)
             /\ sh[m] # NoFile /\ sh[m].ver >= DbVersion => sh[m].lock = Written(m).shows
  <2>1. CASE sh[m] = shards[m]
    BY <1>3, <2>1 DEF CleanOk, Exists
  <2>2. CASE sh[m] = Written(m)
    BY <2>2, WrittenIs, VersionIs, VarTypes
  <2> QED
    BY <2>1, <2>2
<1> QED
  BY <1>1, <1>2, <1>3

LEMMA Joined ==
  ASSUME NEW S, NEW s1 \in Seq(S), NEW s2 \in Seq(S), NEW s, s = s1 \o s2
  PROVE  /\ s \in Seq(S) /\ Len(s) = Len(s1) + Len(s2)
         /\ \A i \in 1..Len(s1) : s[i] = s1[i]
         /\ \A i \in 1..Len(s2) : s[Len(s1) + i] = s2[i]
<1>1. /\ s \in Seq(S) /\ Len(s) = Len(s1) + Len(s2)
      /\ \A i \in 1..(Len(s1) + Len(s2)) : s[i] = IF i <= Len(s1) THEN s1[i] ELSE s2[i - Len(s1)]
  BY ConcatProperties
<1>2. Len(s1) \in Nat /\ Len(s2) \in Nat
  BY LenProperties
<1>3. \A i \in 1..Len(s2) : s[Len(s1) + i] = s2[i]
  <2> TAKE i \in 1..Len(s2)
  <2>1. Len(s1) + i \in 1..(Len(s1) + Len(s2)) /\ ~(Len(s1) + i <= Len(s1)) /\ Len(s1) + i - Len(s1) = i
    BY <1>2
  <2> QED
    BY <1>1, <2>1
<1> QED
  BY <1>1, <1>2, <1>3

LEMMA JoinedRows ==
  ASSUME NEW rows \in Rows, NEW new \in Seq(Row), NEW s, s = rows \o new
  PROVE  /\ s \in Rows /\ Len(s) = Len(rows) + Len(new)
         /\ \A i \in 1..Len(rows) : s[i] = rows[i]
         /\ \A i \in 1..Len(new) : s[Len(rows) + i] = new[i]
<1>1. new \in Seq(Row \cup {Hole})
  BY SeqMonotonic
<1> QED
  BY <1>1, Joined DEF Rows

\* A row that may follow the rows there are.
FollowsOn(rows, row) ==
  /\ row \in Row
  /\ Points(rows, row.supersedes, row.slot, Len(rows) + 1)
  /\ Points(rows, row.reactivates, row.slot, Len(rows) + 1)
  /\ (row.reactivates = NoRid /\ ~row.cleared) \/ row.val = NoValue

\* Rows and days come after rows and days.
Grown(rows, days, rows2, days2, new, n, now) ==
  /\ Len(rows2) = Len(rows) + n /\ Len(days2) = Len(days) + n
  /\ \A r \in 1..Len(rows) : rows2[r] = rows[r] /\ days2[r] = days[r]
  /\ \A i \in 1..n : rows2[Len(rows) + i] = new[i] /\ days2[Len(rows) + i] = now

LEMMA Growing ==
  ASSUME NEW rows \in Rows, NEW days \in Seq(0..MaxDay), Len(days) = Len(rows), NEW now \in Days,
         RowsOk(rows), DaysOk(rows, days, now),
         NEW n \in Nat, NEW new, \A i \in 1..n : FollowsOn(rows, new[i]),
         NEW rows2 \in Rows, NEW days2 \in Seq(0..MaxDay),
         Grown(rows, days, rows2, days2, new, n, now)
  PROVE  RowsOk(rows2) /\ DaysOk(rows2, days2, now)
<1>1. Len(rows) \in Nat
  BY DEF Rows
<1>2. Len(rows2) = Len(rows) + n
  BY DEF Grown
<1>3. \A r \in 1..Len(rows) : rows2[r] = rows[r] /\ days2[r] = days[r]
  BY DEF Grown
<1>4. \A i \in 1..n : rows2[Len(rows) + i] = new[i] /\ days2[Len(rows) + i] = now
  BY DEF Grown
<1>5. \A r \in 1..Len(rows2) : r \in 1..Len(rows) \/ \E i \in 1..n : r = Len(rows) + i
  <2> TAKE r \in 1..Len(rows2)
  <2>1. r \in 1..Len(rows) \/ r - Len(rows) \in 1..n
    BY <1>1, <1>2
  <2>2. r = Len(rows) + (r - Len(rows))
    BY <1>1
  <2> QED
    BY <2>1, <2>2
<1>6. \A q, slot, r : Points(rows, q, slot, r) /\ r \in Nat => Points(rows2, q, slot, r)
  BY <1>1, <1>2, <1>3 DEF Points, IsRow
<1>7. \A r \in 1..Len(rows2) : rows2[r] # Hole => RowOk(rows2, r)
  <2> SUFFICES ASSUME NEW r \in 1..Len(rows2), rows2[r] # Hole PROVE RowOk(rows2, r)
    OBVIOUS
  <2>1. CASE r \in 1..Len(rows)
    <3>1. RowOk(rows, r) /\ rows2[r] = rows[r] /\ r \in Nat
      BY <1>3, <2>1 DEF RowsOk
    <3> QED
      BY <1>6, <3>1 DEF RowOk, IsContent
  <2>2. ASSUME NEW i \in 1..n, r = Len(rows) + i PROVE RowOk(rows2, r)
    <3>1. PICK row : row = new[i]
      OBVIOUS
    <3>2. rows2[r] = row /\ FollowsOn(rows, row) /\ r \in Nat /\ Len(rows) + 1 <= r
      BY <1>1, <1>4, <2>2, <3>1
    <3>3. \A q, slot : Points(rows, q, slot, Len(rows) + 1) => Points(rows, q, slot, r)
      BY <1>1, <3>2 DEF Points, IsRow
    <3>4. Points(rows, row.supersedes, row.slot, r) /\ Points(rows, row.reactivates, row.slot, r)
      BY <3>2, <3>3 DEF FollowsOn
    <3>5. ~IsContent(rows2, r) => row.val = NoValue
      BY <3>2 DEF FollowsOn, IsContent
    <3> QED
      BY <1>6, <3>2, <3>4, <3>5 DEF RowOk
  <2> QED
    BY <1>5, <2>1, <2>2
<1>8. \A row \in Row : row # Hole
  BY StorageAssumption DEF Row, Hole
<1>9. rows2 # <<>> => rows2[Len(rows2)] # Hole
  <2>1. CASE n = 0
    <3>1. Len(rows2) = Len(rows) /\ (rows2 # <<>> => Len(rows2) \in 1..Len(rows2))
      BY <1>1, <1>2, <2>1 DEF Rows
    <3>2. rows2 # <<>> => rows # <<>> /\ rows2[Len(rows2)] = rows[Len(rows)]
      BY <1>3, <3>1
    <3> QED
      BY <3>2 DEF RowsOk
  <2>2. CASE n # 0
    <3>1. n \in 1..n
      BY <2>2
    <3>2. rows2[Len(rows2)] = new[n] /\ new[n] \in Row
      BY <1>2, <1>4, <3>1 DEF FollowsOn
    <3> QED
      BY <1>8, <3>2
  <2> QED
    BY <2>1, <2>2
<1>10. DaysOk(rows2, days2, now)
  <2>1. \A r \in 1..Len(rows2) : days2[r] # 0 => rows2[r] # Hole /\ days2[r] <= now
    <3> SUFFICES ASSUME NEW r \in 1..Len(rows2), days2[r] # 0
                 PROVE  rows2[r] # Hole /\ days2[r] <= now
      OBVIOUS
    <3>1. CASE r \in 1..Len(rows)
      BY <1>3, <3>1 DEF DaysOk
    <3>2. ASSUME NEW i \in 1..n, r = Len(rows) + i
          PROVE  rows2[r] # Hole /\ days2[r] <= now
      <4>1. rows2[r] = new[i] /\ new[i] \in Row /\ days2[r] = now /\ now \in Nat
        BY <1>4, <3>2 DEF Days, FollowsOn
      <4> QED
        BY <1>8, <4>1
    <3> QED
      BY <1>5, <3>1, <3>2
  <2>2. \A q, r \in 1..Len(rows2) : q < r /\ days2[q] # 0 /\ days2[r] # 0 => days2[q] <= days2[r]
    <3> SUFFICES ASSUME NEW q \in 1..Len(rows2), NEW r \in 1..Len(rows2),
                        q < r, days2[q] # 0, days2[r] # 0
                 PROVE  days2[q] <= days2[r]
      OBVIOUS
    <3>1. CASE r \in 1..Len(rows)
      <4>1. q \in 1..Len(rows)
        BY <1>1, <1>2, <3>1
      <4> QED
        BY <1>3, <3>1, <4>1 DEF DaysOk
    <3>2. ASSUME NEW i \in 1..n, r = Len(rows) + i
          PROVE  days2[q] <= days2[r]
      BY <1>4, <2>1, <3>2
    <3> QED
      BY <1>5, <3>1, <3>2
  <2> QED
    BY <2>1, <2>2 DEF DaysOk
<1> QED
  BY <1>7, <1>9, <1>10 DEF RowsOk

\* What files, shards and the running verb say of rows stays true of more.
LEMMA MoreRows ==
  ASSUME NEW rows, NEW days, NEW rows2, NEW days2, Len(rows) \in Nat, Len(rows2) \in Nat,
         Len(rows) <= Len(rows2),
         \A r \in 1..Len(rows) : rows2[r] = rows[r] /\ days2[r] = days[r]
  PROVE  /\ \A first, f : FilesOk(rows, days, first, f) => FilesOk(rows2, days2, first, f)
         /\ \A sh : ShardsOk(rows, sh) => ShardsOk(rows2, sh)
         /\ \A r : IsRow(rows, r) => IsRow(rows2, r)
<1>1. \A r : IsRow(rows, r) => IsRow(rows2, r) /\ rows2[r] = rows[r] /\ days2[r] = days[r]
  BY DEF IsRow
<1>2. \A first, d, body : LineOk(rows, days, first, d, body) => LineOk(rows2, days2, first, d, body)
  BY <1>1 DEF LineOk
<1>3. \A first, f : FilesOk(rows, days, first, f) => FilesOk(rows2, days2, first, f)
  BY <1>2 DEF FilesOk
<1>4. \A sh : ShardsOk(rows, sh) => ShardsOk(rows2, sh)
  BY <1>1 DEF ShardsOk
<1> QED
  BY <1>1, <1>3, <1>4
-----------------------------------------------------------------------------
(* Writes: SetName, Revert, Adopt.                                         *)

LEMMA SameDatabase ==
  ASSUME revisions' = revisions, logDay' = logDay
  PROVE  /\ DbVersion' = DbVersion
         /\ \A m : Written(m)' = Written(m)
<1>1. DbVersion' = DbVersion
  BY DEF DbVersion
<1>2. \A m : Written(m)' = Written(m)
  BY <1>1 DEF Written, ActiveOf
<1> QED
  BY <1>1, <1>2

LEMMA SameShards ==
  ASSUME CleanOk, revisions' = revisions, logDay' = logDay, shards' = shards, lost' = lost
  PROVE  CleanOk'
BY SameDatabase DEF CleanOk, Exists

LEMMA Committed ==
  ASSUME VarsOK, NEW n \in Nat, NEW new \in Seq(Row), Len(new) = n, Commit(new)
  PROVE  /\ revisions' \in Rows /\ logDay' \in Seq(0..MaxDay)
         /\ Grown(revisions, logDay, revisions', logDay', new, n, today)
<1>1. PICK nows : nows = [i \in DOMAIN new |-> today]
  OBVIOUS
<1>2. revisions' = revisions \o new /\ logDay' = logDay \o nows
  BY <1>1 DEF Commit
<1>3. nows \in Seq(0..MaxDay) /\ Len(nows) = n /\ \A i \in 1..n : nows[i] = today
  <2>1. today \in 0..MaxDay
    BY StorageAssumption DEF VarsOK, Days
  <2> QED
    BY <1>1, <2>1
<1>4. /\ revisions' \in Rows /\ Len(revisions') = Len(revisions) + n
      /\ \A r \in 1..Len(revisions) : revisions'[r] = revisions[r]
      /\ \A i \in 1..n : revisions'[Len(revisions) + i] = new[i]
  <2>1. revisions \in Rows /\ revisions' = revisions \o new
    BY <1>2, VarTypes
  <2> QED
    BY <2>1, JoinedRows
<1>5. /\ logDay' \in Seq(0..MaxDay) /\ Len(logDay') = Len(logDay) + n
      /\ \A r \in 1..Len(logDay) : logDay'[r] = logDay[r]
      /\ \A i \in 1..n : logDay'[Len(logDay) + i] = today
  BY <1>2, <1>3, VarTypes, Joined
<1> QED
  BY <1>4, <1>5, VarTypes DEF Grown

\* A verb that commits rows, and exports them next or dies, keeps the
\* invariant: the rows are newer than what any shard or line knows.
LEMMA Writes ==
  ASSUME StorageInv, Ready, NEW n \in Nat, NEW new \in Seq(Row), Len(new) = n,
         \A i \in 1..n : FollowsOn(revisions, new[i]), Commit(new),
         todo' = todo \/ todo' = RidsAfter(n)
  PROVE  StorageInv'
<1>1. /\ VarsOK /\ RowsOk(revisions) /\ DaysOk(revisions, logDay, today)
      /\ FilesOk(revisions, logDay, inited, files) /\ ShardsOk(revisions, shards)
      /\ torn \/ Chained(files)
      /\ CleanOk
      /\ todo = <<>> /\ half = FALSE
  BY DEF StorageInv, Ready, VarsOK
<1>2. /\ inited' = inited /\ shards' = shards /\ files' = files /\ today' = today
      /\ half' = half /\ torn' = torn /\ lost' = lost
      /\ Len(revisions) + n <= MaxRows
  BY DEF Commit, disk
<1>3. /\ revisions' \in Rows /\ logDay' \in Seq(0..MaxDay)
      /\ Grown(revisions, logDay, revisions', logDay', new, n, today)
  BY <1>1, Committed
<1>4. /\ Len(revisions) \in Nat /\ Len(logDay) = Len(revisions) /\ revisions \in Rows
      /\ logDay \in Seq(0..MaxDay) /\ today \in Days /\ MaxRows \in Nat
  BY <1>1, VarTypes DEF VarsOK
<1>5. RowsOk(revisions') /\ DaysOk(revisions', logDay', today)
  BY <1>1, <1>3, <1>4, Growing
<1>6. /\ Len(revisions') = Len(revisions) + n /\ Len(logDay') = Len(revisions')
      /\ \A r \in 1..Len(revisions) : revisions'[r] = revisions[r] /\ logDay'[r] = logDay[r]
      /\ \A i \in 1..n : revisions'[Len(revisions) + i] = new[i] /\ logDay'[Len(revisions) + i] = today
  BY <1>3, <1>4 DEF Grown
<1>7. FilesOk(revisions', logDay', inited, files) /\ ShardsOk(revisions', shards)
  <2>1. Len(revisions') \in Nat /\ Len(revisions) <= Len(revisions')
    BY <1>4, <1>6
  <2>2. \A r \in 1..Len(revisions) : revisions'[r] = revisions[r] /\ logDay'[r] = logDay[r]
    BY <1>6
  <2>3. /\ \A first, f : FilesOk(revisions, logDay, first, f) => FilesOk(revisions', logDay', first, f)
        /\ \A sh : ShardsOk(revisions, sh) => ShardsOk(revisions', sh)
    BY <1>4, <2>1, <2>2, MoreRows
  <2> QED
    BY <1>1, <2>3
<1>8. todo' \in Seq(1..MaxRows)
  <2>1. CASE todo' = todo
    BY <1>1, <2>1
  <2>2. CASE todo' = RidsAfter(n)
    <3>1. \A i \in 1..n : Len(revisions) + i \in 1..MaxRows
      BY <1>2, <1>4
    <3> QED
      BY <2>2, <3>1 DEF RidsAfter
  <2> QED
    BY <2>1, <2>2
<1>9. VarsOK'
  BY <1>1, <1>2, <1>3, <1>4, <1>6, <1>8 DEF VarsOK, Rows
<1>10. TodoOk(revisions', logDay', files, todo')
  <2>1. CASE todo' = todo
    <3>1. Len(todo') = 0
      BY <1>1, <2>1
    <3> QED
      BY <3>1 DEF TodoOk
  <2>2. CASE todo' = RidsAfter(n)
    <3>1. Len(todo') = n /\ \A k \in 1..n : todo'[k] = Len(revisions) + k
      BY <2>2 DEF RidsAfter
    <3>2. \A k \in 1..n : IsRow(revisions', todo'[k]) /\ logDay'[todo'[k]] # 0
      <4> TAKE k \in 1..n
      <4>1. logDay'[todo'[k]] = today /\ today # 0
        BY <1>4, <1>6, <3>1 DEF Days
      <4>2. todo'[k] \in 1..Len(revisions')
        <5>1. PICK len \in Nat : len = Len(revisions)
          BY <1>4
        <5>2. todo'[k] = len + k /\ Len(revisions') = len + n
          BY <1>6, <3>1, <5>1
        <5> QED
          BY <5>2
      <4> QED
        BY <1>5, <1>6, <4>1, <4>2 DEF DaysOk, IsRow
    <3>3. \A j, k \in 1..n : j < k => todo'[j] < todo'[k]
      BY <1>4, <3>1
    <3>4. \A k \in 1..n : \A d \in Days : \A i \in 1..Len(files[d]) : files[d][i].body.rid < todo'[k]
      <4> SUFFICES ASSUME NEW k \in 1..n, NEW d \in Days, NEW i \in 1..Len(files[d])
                   PROVE  files[d][i].body.rid < todo'[k]
        OBVIOUS
      <4>1. PICK body : body = files[d][i].body
        OBVIOUS
      <4>2. LineOk(revisions, logDay, inited, d, body)
        BY <1>1, <4>1 DEF FilesOk
      <4>3. body.rid = 0 \/ body.rid \in 1..Len(revisions)
        BY <4>2 DEF LineOk, IsRow, NoRid
      <4> QED
        BY <1>4, <3>1, <4>1, <4>3
    <3> QED
      BY <3>1, <3>2, <3>3, <3>4 DEF TodoOk
  <2> QED
    BY <2>1, <2>2
<1>11. CleanOk'
  <2>1. CASE lost
    BY <1>2, <2>1 DEF CleanOk
  <2>2. CASE ~lost /\ n = 0
    <3>1. revisions' = revisions /\ logDay' = logDay
      <4>1. PICK len \in Nat : len = Len(revisions) /\ len = Len(logDay)
        BY <1>4
      <4>2. Len(revisions') = len /\ Len(logDay') = len
        BY <1>6, <2>2, <4>1
      <4>3. \A r \in 1..len : revisions'[r] = revisions[r] /\ logDay'[r] = logDay[r]
        BY <1>6, <4>1
      <4>4. revisions \in Seq(Row \cup {Hole}) /\ revisions' \in Seq(Row \cup {Hole})
        BY <1>3, <1>4 DEF Rows
      <4>5. logDay \in Seq(0..MaxDay) /\ logDay' \in Seq(0..MaxDay)
        BY <1>3, <1>4
      <4>6. revisions' = revisions
        BY <4>1, <4>2, <4>3, <4>4, SeqEqual
      <4> QED
        BY <4>1, <4>2, <4>3, <4>5, <4>6, SeqEqual
    <3> QED
      BY <1>1, <1>2, <3>1, SameShards
  <2>3. CASE ~lost /\ n # 0
    <3>1. n \in 1..n /\ Len(revisions) + n \in 1..Len(revisions')
      BY <1>4, <1>6, <2>3
    <3>2. logDay'[Len(revisions) + n] # 0
      <4>1. logDay'[Len(revisions) + n] = today
        BY <1>6, <3>1
      <4> QED
        BY <1>4, <4>1 DEF Days
    <3>3. DbVersion' = VersionOf(logDay')
      BY DEF DbVersion, VersionOf
    <3>4. Len(revisions) + n <= DbVersion' /\ DbVersion' \in Nat
      <4>1. PICK days : days = logDay'
        OBVIOUS
      <4>2. days \in Seq(0..MaxDay) /\ Len(revisions) + n \in 1..Len(days) /\ days[Len(revisions) + n] # 0
        BY <1>3, <1>6, <3>1, <3>2, <4>1
      <4>3. Len(revisions) + n <= VersionOf(days) /\ VersionOf(days) \in 0..Len(days) /\ Len(days) \in Nat
        BY <4>2, VersionOfIs
      <4> QED
        BY <3>3, <4>1, <4>3
    <3>5. \A m \in Modules : shards'[m].ver \in Nat /\ shards'[m].ver <= Len(revisions)
      <4> TAKE m \in Modules
      <4>1. shards[m] \in Shard
        BY <1>1 DEF VarsOK
      <4>2. shards[m].ver \in Nat
        BY <4>1, StorageAssumption DEF Shard
      <4> QED
        BY <1>1, <1>2, <2>3, <4>2 DEF CleanOk
    <3>6. \A m \in Modules : shards'[m].ver <= Len(revisions') /\ ~(shards'[m].ver >= DbVersion')
      BY <1>4, <1>6, <2>3, <3>4, <3>5
    <3> QED
      BY <3>6 DEF CleanOk
  <2> QED
    BY <2>1, <2>2, <2>3
<1> QED
  BY <1>1, <1>2, <1>5, <1>7, <1>9, <1>10, <1>11 DEF StorageInv

LEMMA SetRowFollows ==
  ASSUME VarsOK, RowsOk(revisions), NEW s \in Slots, Readable(s), NEW v \in Values \cup {NoValue}
  PROVE  FollowsOn(revisions, SetRow(s, v, NoRid, ActivePayload(revisions, s)))
<1>1. PICK p : p = ActivePayload(revisions, s)
  OBVIOUS
<1>2. p # NoRid => IsRow(revisions, p) /\ revisions[p].slot = s /\ p \in 1..Len(revisions)
  BY <1>1, PayloadIs, VarTypes
<1>3. Points(revisions, p, s, Len(revisions) + 1)
  BY <1>2, VarTypes DEF Points
<1>4. p \in Nat
  BY <1>2, VarTypes DEF NoRid
<1>5. PICK row : row = SetRow(s, v, NoRid, p)
  OBVIOUS
<1>6. /\ row \in Row /\ row.supersedes = p /\ row.slot = s /\ row.reactivates = NoRid
      /\ ~row.cleared
  BY <1>4, <1>5 DEF SetRow, Row, NoRid
<1>7. Points(revisions, NoRid, s, Len(revisions) + 1)
  BY DEF Points
<1>8. FollowsOn(revisions, row)
  BY <1>3, <1>6, <1>7 DEF FollowsOn
<1> QED
  BY <1>1, <1>5, <1>8

LEMMA RevertRowFollows ==
  ASSUME VarsOK, RowsOk(revisions), NEW s \in Slots, Readable(s),
         ActivePayload(revisions, s) # NoRid
  PROVE  FollowsOn(revisions, RevertRow(s, PriorOf(revisions, ActivePayload(revisions, s))))
<1>1. PICK p : p = ActivePayload(revisions, s)
  OBVIOUS
<1>2. p # NoRid /\ IsRow(revisions, p) /\ revisions[p].slot = s /\ p \in 1..Len(revisions)
  BY <1>1, PayloadIs, VarTypes
<1>3. PICK next : next = PriorOf(revisions, p)
  OBVIOUS
<1>4. next = revisions[p].supersedes
  BY <1>2, <1>3 DEF PriorOf
<1>5. next \in Nat /\ Points(revisions, next, s, p)
  BY <1>2, <1>4, RowTypes, VarTypes DEF RowsOk, RowOk, IsRow
<1>6. Points(revisions, next, s, Len(revisions) + 1)
  BY <1>2, <1>5, VarTypes DEF Points
<1>7. PICK row : row = RevertRow(s, next)
  OBVIOUS
<1>8. /\ row \in Row /\ row.supersedes = NoRid /\ row.slot = s /\ row.reactivates = next
      /\ row.val = NoValue
  BY <1>5, <1>7 DEF RevertRow, Row, NoRid
<1>9. Points(revisions, NoRid, s, Len(revisions) + 1)
  BY DEF Points
<1>10. FollowsOn(revisions, row)
  BY <1>6, <1>8, <1>9 DEF FollowsOn
<1> QED
  BY <1>1, <1>3, <1>7, <1>10

LEMMA OneRow ==
  ASSUME NEW row, FollowsOn(revisions, row)
  PROVE  /\ <<row>> \in Seq(Row) /\ Len(<<row>>) = 1
         /\ \A i \in 1..1 : FollowsOn(revisions, <<row>>[i])
<1>1. row \in Row
  BY DEF FollowsOn
<1>2. \A i \in 1..1 : <<row>>[i] = row
  OBVIOUS
<1> QED
  BY <1>1, <1>2

LEMMA SetNameKeeps ==
  ASSUME StorageInv, NEW s \in Slots, NEW v \in Values, SetName(s, v)
  PROVE  StorageInv'
<1>1. PICK row : row = SetRow(s, v, NoRid, ActivePayload(revisions, s))
  OBVIOUS
<1>2. Ready /\ Readable(s) /\ Commit(<<row>>) /\ todo' = RidsAfter(1)
  BY <1>1 DEF SetName
<1>3. FollowsOn(revisions, row)
  BY <1>1, <1>2, SetRowFollows DEF StorageInv
<1>4. PICK new : new = <<row>>
  OBVIOUS
<1>5. new \in Seq(Row) /\ Len(new) = 1 /\ \A i \in 1..1 : FollowsOn(revisions, new[i])
  BY <1>3, <1>4, OneRow
<1> QED
  BY <1>2, <1>4, <1>5, Writes

LEMMA RevertKeeps ==
  ASSUME StorageInv, NEW s \in Slots, Revert(s)
  PROVE  StorageInv'
<1>1. PICK row : row = RevertRow(s, PriorOf(revisions, ActivePayload(revisions, s)))
  OBVIOUS
<1>2. /\ Ready /\ Readable(s) /\ Commit(<<row>>) /\ todo' = RidsAfter(1)
      /\ ActivePayload(revisions, s) # NoRid
  BY <1>1 DEF Revert
<1>3. FollowsOn(revisions, row)
  BY <1>1, <1>2, RevertRowFollows DEF StorageInv
<1>4. PICK new : new = <<row>>
  OBVIOUS
<1>5. new \in Seq(Row) /\ Len(new) = 1 /\ \A i \in 1..1 : FollowsOn(revisions, new[i])
  BY <1>3, <1>4, OneRow
<1> QED
  BY <1>2, <1>4, <1>5, Writes

LEMMA SetToSeqIs ==
  ASSUME NEW S, IsFiniteSet(S)
  PROVE  /\ SetToSeq(S) \in [1..Cardinality(S) -> S] /\ Cardinality(S) \in Nat
<1>1. Cardinality(S) \in Nat /\ ExistsBijection(1..Cardinality(S), S)
  BY FS_CardinalityType
<1>2. \E f \in [1..Cardinality(S) -> S] : IsInjective(f)
  BY <1>1 DEF ExistsBijection, Bijection, Injection
<1>3. SetToSeq(S) \in [1..Cardinality(S) -> S]
  BY <1>2 DEF SetToSeq
<1> QED
  BY <1>1, <1>3

LEMMA AdoptKeeps ==
  ASSUME StorageInv, NEW m \in Modules, NEW force, NEW n \in 0..Cardinality(Slots), Adopt(m, force, n)
  PROVE  StorageInv'
<1> DEFINE shows == shards[m].shows
<1>1. PICK listed : listed = SetToSeq(DOMAIN shows)
  OBVIOUS
<1>2. shows \in Content
  BY DEF StorageInv, VarsOK, Shard
<1>3. DOMAIN shows \in SUBSET Slots
  BY <1>2 DEF Content
<1>4. /\ listed \in [1..Cardinality(DOMAIN shows) -> DOMAIN shows]
      /\ Cardinality(DOMAIN shows) \in Nat
  BY <1>1, <1>3, FS_Subset, SetToSeqIs, StorageAssumption
<1>5. Len(listed) = Cardinality(DOMAIN shows) /\ DOMAIN listed = 1..Len(listed)
  BY <1>4
<1> DEFINE row(s) == SetRow(s, shards[m].shows[s].val, NoRid, ActivePayload(revisions, s))
<1>6. PICK new : new = [i \in 1..n |-> row(listed[i])]
  OBVIOUS
<1>7. /\ Ready /\ n \in 0..Len(listed) /\ Commit(new)
      /\ \A i \in DOMAIN listed : Readable(listed[i])
      /\ todo' = todo \/ todo' = RidsAfter(n)
  BY <1>1, <1>6 DEF Adopt
<1>8. \A i \in 1..n : FollowsOn(revisions, row(listed[i]))
  <2> TAKE i \in 1..n
  <2>1. i \in DOMAIN listed /\ listed[i] \in DOMAIN shows
    BY <1>4, <1>5, <1>7
  <2>2. Readable(listed[i]) /\ listed[i] \in Slots
    BY <1>3, <1>7, <2>1
  <2>3. shows[listed[i]].val \in Values \cup {NoValue}
    BY <1>2, <2>1 DEF Content
  <2> QED
    BY <2>2, <2>3, SetRowFollows DEF StorageInv
<1>9. \A i \in 1..n : row(listed[i]) \in Row
  BY <1>8 DEF FollowsOn
<1>10. n \in Nat
  OBVIOUS
<1> HIDE DEF row
<1>11. new \in Seq(Row) /\ Len(new) = n /\ \A i \in 1..n : FollowsOn(revisions, new[i])
  BY <1>6, <1>8, <1>9, <1>10
<1> QED
  BY <1>7, <1>10, <1>11, Writes
-----------------------------------------------------------------------------
(* Steps that leave the log files alone.                                   *)

LEMMA InvParts ==
  ASSUME StorageInv
  PROVE  /\ VarsOK /\ RowsOk(revisions) /\ DaysOk(revisions, logDay, today)
         /\ FilesOk(revisions, logDay, inited, files)
         /\ TodoOk(revisions, logDay, files, todo)
         /\ ShardsOk(revisions, shards)
         /\ torn \/ Chained(files)
         /\ CleanOk
BY DEF StorageInv

LEMMA ShardsWritten ==
  ASSUME StorageInv, UNCHANGED database, lost' = lost,
         shards' = [m \in Modules |-> shards'[m]],
         \A m \in Modules : shards'[m] \in {shards[m], Written(m)}
  PROVE  shards' \in [Modules -> Shard] /\ ShardsOk(revisions, shards') /\ CleanOk'
<1>1. PICK sh : sh = shards'
  OBVIOUS
<1>2. sh = [m \in Modules |-> sh[m]] /\ \A m \in Modules : sh[m] \in {shards[m], Written(m)}
  BY <1>1
<1>3. /\ sh \in [Modules -> Shard] /\ ShardsOk(revisions, sh)
      /\ lost \/ \A m \in Modules :
           /\ sh[m].ver <= Len(revisions)
           /\ sh[m] # NoFile /\ sh[m].ver >= DbVersion => sh[m].lock = Written(m).shows
  BY <1>2, InvParts, WritingShards
<1>4. DbVersion' = DbVersion /\ \A m : Written(m)' = Written(m)
  BY SameDatabase DEF database
<1>5. CleanOk'
  BY <1>1, <1>3, <1>4 DEF CleanOk, Exists, database
<1> QED
  BY <1>1, <1>3, <1>5

LEMMA ExportShardKeeps ==
  ASSUME StorageInv, ExportShard
  PROVE  StorageInv'
<1>1. PICK m : m = ShardOf[revisions[Head(todo)].slot]
  OBVIOUS
<1>2. /\ shards' = [shards EXCEPT ![m] = Written(m)] /\ half' = TRUE /\ todo # <<>>
      /\ UNCHANGED <<database, files, today, todo, torn, lost>>
  BY <1>1 DEF ExportShard
<1>3. shards \in [Modules -> Shard]
  BY InvParts DEF VarsOK
<1>4. /\ shards' = [k \in Modules |-> shards'[k]]
      /\ \A k \in Modules : shards'[k] \in {shards[k], Written(k)}
  BY <1>2, <1>3
<1>5. shards' \in [Modules -> Shard] /\ ShardsOk(revisions, shards') /\ CleanOk'
  BY <1>2, <1>4, ShardsWritten
<1>6. VarsOK'
  BY <1>2, <1>5, InvParts DEF VarsOK, database
<1> QED
  BY <1>2, <1>5, <1>6, InvParts DEF StorageInv, database

LEMMA RestoreShardKeeps ==
  ASSUME StorageInv, NEW m \in Modules, RestoreShard(m)
  PROVE  StorageInv'
<1>1. /\ shards' = [shards EXCEPT ![m] = Written(m)]
      /\ UNCHANGED <<database, files, today, todo, half, torn, lost>>
  BY DEF RestoreShard
<1>2. shards \in [Modules -> Shard]
  BY InvParts DEF VarsOK
<1>3. /\ shards' = [k \in Modules |-> shards'[k]]
      /\ \A k \in Modules : shards'[k] \in {shards[k], Written(k)}
  BY <1>1, <1>2
<1>4. shards' \in [Modules -> Shard] /\ ShardsOk(revisions, shards') /\ CleanOk'
  BY <1>1, <1>3, ShardsWritten
<1>5. VarsOK'
  BY <1>1, <1>4, InvParts DEF VarsOK, database
<1> QED
  BY <1>1, <1>4, <1>5, InvParts DEF StorageInv, database

\* A hand edit touches neither lock nor binding, and no rid.
LEMMA HandEditKeeps ==
  ASSUME StorageInv, NEW m \in Modules, NEW s \in Slots, HandEdit(m, s)
  PROVE  StorageInv'
<1>1. /\ s \in DOMAIN shards[m].shows
      /\ UNCHANGED <<database, files, today, todo, half, torn, lost>>
  BY DEF HandEdit
<1>2. PICK old \in Shard : old = shards[m]
  BY InvParts DEF VarsOK
<1>3. shards \in [Modules -> Shard]
  BY InvParts DEF VarsOK
<1>4. PICK S \in SUBSET Slots : old.shows \in [S -> [rid : 1..MaxRows, val : Values \cup {NoValue}]]
  BY <1>2 DEF Shard, Content
<1>5. PICK new : /\ new \in Content /\ DOMAIN new \in SUBSET DOMAIN old.shows
                 /\ \A t \in DOMAIN new : new[t].rid = old.shows[t].rid
                 /\ shards' = [shards EXCEPT ![m].shows = new]
  <2>1. CASE \E v \in Values \ {shards[m].shows[s].val} :
               shards' = [shards EXCEPT ![m].shows[s].val = v]
    <3>1. PICK v \in Values : shards' = [shards EXCEPT ![m].shows[s].val = v]
      BY <2>1
    <3>2. PICK new : new = [old.shows EXCEPT ![s].val = v]
      OBVIOUS
    <3>3. new \in [S -> [rid : 1..MaxRows, val : Values \cup {NoValue}]]
      BY <1>4, <3>2
    <3>4. DOMAIN new = S /\ \A t \in S : new[t].rid = old.shows[t].rid
      BY <1>4, <3>2
    <3>5. shards' = [shards EXCEPT ![m].shows = new]
      BY <1>2, <1>3, <3>1, <3>2
    <3> QED
      BY <1>4, <3>3, <3>4, <3>5 DEF Content
  <2>2. CASE shards' = [shards EXCEPT ![m].shows = Restrict(@, DOMAIN @ \ {s})]
    <3>1. PICK new : new = [t \in S \ {s} |-> old.shows[t]]
      OBVIOUS
    <3>2. new \in [S \ {s} -> [rid : 1..MaxRows, val : Values \cup {NoValue}]]
      BY <1>4, <3>1
    <3>3. DOMAIN new = S \ {s} /\ \A t \in S \ {s} : new[t].rid = old.shows[t].rid
      BY <1>4, <3>1
    <3>4. new = Restrict(old.shows, DOMAIN old.shows \ {s})
      BY <1>4, <3>1 DEF Restrict
    <3>5. shards' = [shards EXCEPT ![m].shows = new]
      BY <1>2, <1>3, <2>2, <3>4
    <3> QED
      BY <1>4, <3>2, <3>3, <3>5 DEF Content
  <2> QED
    BY <2>1, <2>2 DEF HandEdit
<1>6. \A k \in Modules \ {m} : shards'[k] = shards[k]
  BY <1>3, <1>5
<1>7. PICK fresh : fresh = shards'[m]
  OBVIOUS
<1>8. fresh.shows = new /\ fresh.lock = old.lock /\ fresh.ver = old.ver /\ fresh \in Shard
  BY <1>2, <1>3, <1>5, <1>7 DEF Shard
<1>9. shards' \in [Modules -> Shard]
  <2>1. shards' = [k \in Modules |-> shards'[k]]
    BY <1>3, <1>5
  <2>2. \A k \in Modules : shards'[k] \in Shard
    BY <1>3, <1>6, <1>7, <1>8
  <2> QED
    BY <2>1, <2>2
<1>10. ShardsOk(revisions, shards')
  <2> SUFFICES ASSUME NEW k \in Modules, NEW t \in DOMAIN shards'[k].shows
               PROVE  t \in Slots /\ ShardOf[t] = k /\ IsRow(revisions, shards'[k].shows[t].rid)
    BY DEF ShardsOk
  <2>1. CASE k = m
    <3>1. t \in DOMAIN old.shows /\ shards'[k].shows[t].rid = old.shows[t].rid
      BY <1>5, <1>7, <1>8, <2>1
    <3> QED
      BY <1>2, <2>1, <3>1, InvParts DEF ShardsOk
  <2>2. CASE k # m
    BY <1>6, <2>2, InvParts DEF ShardsOk
  <2> QED
    BY <2>1, <2>2
<1>11. CleanOk'
  <2>1. DbVersion' = DbVersion /\ \A k : Written(k)' = Written(k)
    BY <1>1, SameDatabase DEF database
  <2>2. Exists(m)
    <3>1. s \in DOMAIN old.shows
      BY <1>1, <1>2
    <3>2. DOMAIN NoFile.shows = {}
      BY DEF NoFile
    <3>3. old # NoFile
      BY <3>1, <3>2
    <3> QED
      BY <1>2, <3>3 DEF Exists
  <2>3. CASE lost
    BY <1>1, <2>3 DEF CleanOk
  <2>4. CASE ~lost
    <3> SUFFICES ASSUME NEW k \in Modules
                 PROVE  /\ shards'[k].ver <= Len(revisions)
                        /\ shards'[k] # NoFile /\ shards'[k].ver >= DbVersion
                             => shards'[k].lock = Written(k).shows
      BY <1>1, <2>1 DEF CleanOk, Exists, database
    <3>1. CASE k = m
      BY <1>2, <1>7, <1>8, <2>2, <2>4, <3>1, InvParts DEF CleanOk
    <3>2. CASE k # m
      BY <1>6, <2>4, <3>2, InvParts DEF CleanOk, Exists
    <3> QED
      BY <3>1, <3>2
  <2> QED
    BY <2>3, <2>4
<1>12. VarsOK'
  BY <1>1, <1>9, InvParts DEF VarsOK, database
<1> QED
  BY <1>1, <1>10, <1>11, <1>12, InvParts DEF StorageInv, database

LEMMA CrashKeeps ==
  ASSUME StorageInv, Crash
  PROVE  StorageInv'
<1>1. /\ todo' = <<>> /\ half' = FALSE
      /\ UNCHANGED <<database, disk, today, torn, lost>>
  BY DEF Crash
<1>2. VarsOK'
  <2>1. <<>> \in Seq(1..MaxRows)
    OBVIOUS
  <2>2. todo' \in Seq(1..MaxRows) /\ half' \in BOOLEAN /\ ~half'
    BY <1>1, <2>1
  <2> QED
    BY <1>1, <2>2, InvParts DEF VarsOK, database, disk
<1>3. TodoOk(revisions, logDay, files, <<>>)
  BY DEF TodoOk
<1>4. CleanOk'
  BY <1>1, InvParts, SameShards DEF database, disk
<1> QED
  BY <1>1, <1>2, <1>3, <1>4, InvParts DEF StorageInv, database, disk

LEMMA RestartKeeps ==
  ASSUME StorageInv, UNCHANGED <<database, disk, today, todo, half, torn, lost>>
  PROVE  StorageInv'
<1>1. VarsOK'
  BY InvParts DEF VarsOK, database, disk
<1>2. CleanOk'
  BY InvParts, SameShards DEF database, disk
<1> QED
  BY <1>1, <1>2, InvParts DEF StorageInv, database, disk

LEMMA NextDayKeeps ==
  ASSUME StorageInv, NextDay
  PROVE  StorageInv'
<1>1. /\ today < MaxDay /\ today' = today + 1
      /\ UNCHANGED <<database, disk, todo, half, torn, lost>>
  BY DEF NextDay
<1>2. today \in Days /\ today' \in Days
  BY <1>1, InvParts, StorageAssumption, MaxDayAssumption DEF VarsOK, Days
<1>3. VarsOK'
  BY <1>1, <1>2, InvParts DEF VarsOK, database, disk
<1>4. DaysOk(revisions, logDay, today')
  <2>1. \A r \in 1..Len(revisions) : logDay[r] \in Nat
    BY InvParts, VarTypes
  <2>2. today' \in Nat /\ today \in Nat /\ today <= today'
    BY <1>1, <1>2 DEF Days
  <2> QED
    BY <2>1, <2>2, InvParts DEF DaysOk
<1>5. CleanOk'
  BY <1>1, InvParts, SameShards DEF database, disk
<1> QED
  BY <1>1, <1>3, <1>4, <1>5, InvParts DEF StorageInv, database, disk
-----------------------------------------------------------------------------
(* AppendEntry: one more line, after all the others.                       *)

\* The body of a row's entry is well formed, and tells of the row.
LEMMA BodyIs ==
  ASSUME VarsOK, NEW r, IsRow(revisions, r), logDay[r] # 0,
         NEW shard, shard = NoFile \/ shard \in Shard
  PROVE  /\ Body(r, shard) \in Bodies /\ Body(r, shard).rid = r /\ r # NoRid
         /\ logDay[r] \in Days
         /\ LineOk(revisions, logDay, inited, logDay[r], Body(r, shard))
<1>1. r \in 1..Len(revisions) /\ r \in 0..MaxRows /\ r # NoRid
  BY VarTypes DEF IsRow, NoRid
<1>2. PICK row \in Row : row = revisions[r]
  BY <1>1, RowTypes, VarTypes DEF IsRow
<1>3. PICK told : told = [row EXCEPT !.supersedes = NoRid]
  OBVIOUS
<1>4. told \in Row
  BY <1>3 DEF Row, NoRid
<1>5. PICK lock : lock = IF shard = NoFile THEN <<>> ELSE <<shard.lock, shard.ver>>
  OBVIOUS
<1>6. lock \in {<<>>} \cup (Content \X (0..MaxRows))
  BY <1>5 DEF Shard
<1>7. Body(r, shard) = [rid |-> r, row |-> told, lock |-> lock]
  BY <1>2, <1>3, <1>5 DEF Body
<1>8. Body(r, shard) \in Bodies /\ Body(r, shard).rid = r /\ Body(r, shard).row = told
  BY <1>1, <1>4, <1>6, <1>7 DEF Bodies
<1>9. logDay[r] \in Days
  BY <1>1, VarTypes DEF Days
<1> QED
  BY <1>1, <1>2, <1>3, <1>8, <1>9 DEF LineOk

LEMMA AppendEntryKeeps ==
  ASSUME StorageInv, AppendEntry
  PROVE  StorageInv'
<1>1. PICK r : r = Head(todo)
  OBVIOUS
<1>2. PICK shard : shard = shards[ShardOf[revisions[r].slot]]
  OBVIOUS
<1>3. PICK body : body = Body(r, shard)
  OBVIOUS
<1>4. PICK d : d = logDay[r]
  OBVIOUS
<1>5. /\ files' = Appended(files, d, body)
      /\ todo' = Tail(todo) /\ half' = FALSE /\ half
      /\ UNCHANGED <<database, shards, today, torn, lost>>
  BY <1>1, <1>2, <1>3, <1>4 DEF AppendEntry, AppendEntryThen
<1>6. /\ VarsOK /\ DaysOk(revisions, logDay, today) /\ FilesOk(revisions, logDay, inited, files)
      /\ TodoOk(revisions, logDay, files, todo) /\ (torn \/ Chained(files))
  BY InvParts
<1>7. /\ todo \in Seq(1..MaxRows) /\ Len(todo) \in Nat /\ 1 \in 1..Len(todo) /\ r = todo[1]
      /\ Tail(todo) \in Seq(1..MaxRows) /\ Len(Tail(todo)) = Len(todo) - 1
      /\ \A k \in 1..Len(Tail(todo)) : k + 1 \in 1..Len(todo) /\ Tail(todo)[k] = todo[k + 1]
  <2>1. todo \in Seq(1..MaxRows) /\ todo # <<>>
    BY <1>5, <1>6 DEF VarsOK
  <2> QED
    BY <1>1, <2>1
<1>8. IsRow(revisions, r) /\ logDay[r] # 0
  BY <1>6, <1>7 DEF TodoOk
<1>9. shard \in Shard
  <2>1. revisions[r].slot \in Slots
    BY <1>6, <1>8, RowTypes, VarTypes DEF IsRow
  <2> QED
    BY <1>2, <1>6, <2>1, StorageAssumption DEF VarsOK
<1>10. /\ body \in Bodies /\ body.rid = r /\ d \in Days
       /\ LineOk(revisions, logDay, inited, d, body)
  BY <1>3, <1>4, <1>6, <1>8, <1>9, BodyIs
<1>11. files \in FilesOf(Bodies)
  BY <1>6, VarTypes
<1>12. PICK g : g = files'
  OBVIOUS
<1>13. PICK e : /\ e.body = body /\ e.prev = HashAfter(files, LinesIn(files))
                /\ g \in FilesOf(Bodies) /\ Longer(files, g, d, e)
  BY <1>5, <1>10, <1>11, <1>12, AppendedIs
<1>14. g \in FilesOf(Bodies) /\ Longer(files, g, d, e)
  BY <1>13
<1>15. PICK last : last = Len(files[d]) + 1
  OBVIOUS
<1>16. /\ LinesIn(g) = LinesIn(files) \cup {<<d, last>>}
       /\ \A k \in Days : \A i \in 1..Len(files[k]) : i \in 1..Len(g[k]) /\ g[k][i] = files[k][i]
       /\ \A k \in Days : \A i \in 1..Len(g[k]) : i \in 1..Len(files[k]) \/ (k = d /\ i = last)
       /\ g[d][last] = e /\ last \in Nat
  <2>1. Len(files[d]) \in Nat
    BY <1>10, <1>11, FileIs
  <2>2. /\ LinesIn(g) = LinesIn(files) \cup {<<d, Len(files[d]) + 1>>}
        /\ \A k \in Days : \A i \in 1..Len(files[k]) : i \in 1..Len(g[k]) /\ g[k][i] = files[k][i]
        /\ \A k \in Days : \A i \in 1..Len(g[k]) :
             i \in 1..Len(files[k]) \/ (k = d /\ i = Len(files[d]) + 1)
    <3>1. OneLineMore(files, g, d)
      BY <1>10, <1>11, <1>14, LongerLines
    <3> QED
      BY <3>1 DEF OneLineMore
  <2>3. g[d][Len(files[d]) + 1] = e
    BY <1>14 DEF Longer
  <2> QED
    BY <1>15, <2>1, <2>2, <2>3
<1>17. \A k \in Days : \A i \in 1..Len(files[k]) : files[k][i].body.rid < r
  BY <1>6, <1>7 DEF TodoOk
<1>18. FilesOk(revisions, logDay, inited, g)
  <2> SUFFICES ASSUME NEW k \in Days, NEW i \in 1..Len(g[k])
               PROVE  /\ LineOk(revisions, logDay, inited, k, g[k][i].body)
                      /\ \A j \in 1..Len(g[k]) : j < i => g[k][j].body.rid < g[k][i].body.rid
    BY DEF FilesOk
  <2>1. CASE i \in 1..Len(files[k])
    <3>1. \A j \in 1..Len(g[k]) : j < i => j \in 1..Len(files[k])
      BY <1>11, <2>1
    <3> QED
      BY <1>6, <1>16, <2>1, <3>1 DEF FilesOk
  <2>2. CASE k = d /\ i = last
    <3>1. \A j \in 1..Len(g[k]) : j < i => j \in 1..Len(files[k])
      BY <1>16, <2>2
    <3> QED
      BY <1>10, <1>13, <1>16, <1>17, <2>2, <3>1
  <2> QED
    BY <1>16, <2>1, <2>2
<1>19. \A x \in LinesIn(files) : Before(x, <<d, last>>) /\ ~Before(<<d, last>>, x)
  <2> TAKE x \in LinesIn(files)
  <2>1. x \in LinesIn(g) /\ <<d, last>> \in LinesIn(g)
    BY <1>16
  <2>2. PICK k \in Days : \E i \in 1..Len(files[k]) : x = <<k, i>>
    BY <1>11, LinesAre
  <2>3. PICK i \in 1..Len(files[k]) : x = <<k, i>>
    BY <2>2
  <2>4. Rid(g, x) = files[k][i].body.rid /\ Rid(g, <<d, last>>) = r
    BY <1>10, <1>13, <1>16, <2>3 DEF Rid
  <2>5. files[k][i].body.rid \in Nat /\ r \in Nat
    <3>1. files[k][i].body.rid \in 0..MaxRows
      BY <1>11, RidTypes
    <3>2. r \in 1..MaxRows
      BY <1>7, ElementOfSeq
    <3> QED
      BY <3>1, <3>2, StorageAssumption
  <2>6. Rid(g, x) < Rid(g, <<d, last>>) /\ ~(Rid(g, <<d, last>>) < Rid(g, x))
    BY <1>17, <2>4, <2>5
  <2>7. Len(revisions) \in Nat
    BY <1>6, VarTypes
  <2> QED
    BY <1>6, <1>14, <1>18, <2>1, <2>6, <2>7, LinesByRid
<1>20. torn \/ Chained(g)
  <2>1. CASE torn
    BY <2>1
  <2>2. CASE Chained(files)
    BY <1>10, <1>11, <1>13, <1>14, <1>15, <1>19, <2>2, ChainedOnward
  <2> QED
    BY <1>6, <2>1, <2>2
<1>21. TodoOk(revisions, logDay, g, Tail(todo))
  <2>1. PICK rest : rest = Tail(todo)
    OBVIOUS
  <2>2. \A k \in 1..Len(rest) : k + 1 \in 1..Len(todo) /\ rest[k] = todo[k + 1] /\ k \in Nat
    BY <1>7, <2>1
  <2>3. \A k \in 1..Len(rest) : IsRow(revisions, rest[k]) /\ logDay[rest[k]] # 0
    BY <1>6, <2>2 DEF TodoOk
  <2>4. \A j, k \in 1..Len(rest) : j < k => rest[j] < rest[k]
    <3> SUFFICES ASSUME NEW j \in 1..Len(rest), NEW k \in 1..Len(rest), j < k
                 PROVE  rest[j] < rest[k]
      OBVIOUS
    <3>1. j + 1 < k + 1
      BY <2>2
    <3> QED
      BY <1>6, <2>2, <3>1 DEF TodoOk
  <2>5. \A k \in 1..Len(rest) : r < rest[k]
    <3> TAKE k \in 1..Len(rest)
    <3>1. 1 < k + 1
      BY <2>2
    <3> QED
      BY <1>6, <1>7, <2>2, <3>1 DEF TodoOk
  <2>6. \A k \in 1..Len(rest) : \A c \in Days : \A i \in 1..Len(g[c]) : g[c][i].body.rid < rest[k]
    <3> SUFFICES ASSUME NEW k \in 1..Len(rest), NEW c \in Days, NEW i \in 1..Len(g[c])
                 PROVE  g[c][i].body.rid < rest[k]
      OBVIOUS
    <3>1. CASE i \in 1..Len(files[c])
      BY <1>6, <1>16, <2>2, <3>1 DEF TodoOk
    <3>2. CASE c = d /\ i = last
      BY <1>10, <1>13, <1>16, <2>5, <3>2
    <3> QED
      BY <1>16, <3>1, <3>2
  <2> QED
    BY <2>1, <2>3, <2>4, <2>6 DEF TodoOk
<1>22. VarsOK'
  BY <1>5, <1>6, <1>7, <1>12, <1>14 DEF VarsOK, database
<1>23. CleanOk'
  BY <1>5, InvParts, SameShards DEF database
<1> QED
  BY <1>5, <1>12, <1>18, <1>20, <1>21, <1>22, <1>23, InvParts DEF StorageInv, database
-----------------------------------------------------------------------------
(* Bulk export: whole day files again, rechained from genesis.             *)

\* The bodies of a log in order, and what they make of some files.
BodiesOk(rows, days, first, all) ==
  /\ all \in Seq(Logged(Bodies))
  /\ \A i \in 1..Len(all) : LineOk(rows, days, first, all[i].day, all[i].body)
  /\ \A i, j \in 1..Len(all) : i < j => all[i].body.rid < all[j].body.rid

LEMMA BulkIs ==
  ASSUME NEW rows, NEW days, NEW first, NEW f \in FilesOf(Bodies),
         FilesOk(rows, days, first, f), NEW all, BodiesOk(rows, days, first, all),
         NEW ds, NEW g, g = Rechained(f, all, ds)
  PROVE  g \in FilesOf(Bodies) /\ FilesOk(rows, days, first, g)
<1>1. all \in Seq(Logged(Bodies))
  BY DEF BodiesOk
<1>2. g \in FilesOf(Bodies)
  BY <1>1, RechainedIs
<1>3. \A d \in Days : g[d] = f[d] \/ (g[d] = DayFile(all, d) /\ OnDay(all, d) # <<>>)
  BY <1>1, RechainedIs
<1>4. ASSUME NEW d \in Days, NEW i \in 1..Len(g[d])
      PROVE  /\ LineOk(rows, days, first, d, g[d][i].body)
             /\ \A j \in 1..Len(g[d]) : j < i => g[d][j].body.rid < g[d][i].body.rid
  <2>1. CASE g[d] = f[d]
    BY <2>1 DEF FilesOk
  <2>2. CASE g[d] = DayFile(all, d) /\ OnDay(all, d) # <<>>
    <3>1. PICK pos : pos = OnDay(all, d)
      OBVIOUS
    <3>2. /\ \A k \in 1..Len(g[d]) : /\ g[d][k] = EntryAt(all, pos[k])
                                     /\ pos[k] \in 1..Len(all) /\ all[pos[k]].day = d
          /\ \A j, k \in 1..Len(g[d]) : j < k <=> pos[j] < pos[k]
      BY <1>1, <2>2, <3>1, DayFileIs
    <3>3. \A k \in 1..Len(g[d]) : g[d][k].body = all[pos[k]].body
      BY <1>1, <3>2, EntryAtIs
    <3>4. LineOk(rows, days, first, d, g[d][i].body)
      BY <3>2, <3>3 DEF BodiesOk
    <3>5. \A j \in 1..Len(g[d]) : j < i => g[d][j].body.rid < g[d][i].body.rid
      <4> SUFFICES ASSUME NEW j \in 1..Len(g[d]), j < i
                   PROVE  g[d][j].body.rid < g[d][i].body.rid
        OBVIOUS
      <4>1. pos[j] \in 1..Len(all) /\ pos[i] \in 1..Len(all) /\ pos[j] < pos[i]
        BY <3>2
      <4>2. all[pos[j]].body.rid < all[pos[i]].body.rid
        BY <4>1 DEF BodiesOk
      <4> QED
        BY <3>3, <4>2
    <3> QED
      BY <3>4, <3>5
  <2> QED
    BY <1>3, <2>1, <2>2
<1> QED
  BY <1>2, <1>4 DEF FilesOk
-----------------------------------------------------------------------------
(* ExportProject, and dying in it.                                         *)

LiveShard(m) == IF ActiveOf(m) = {} THEN NoFile ELSE Written(m)
LoggedSet == {r \in DOMAIN logDay : logDay[r] # 0}
LoggedBody(r) == [day |-> logDay[r], body |-> Body(r, LiveShard(ShardOf[revisions[r].slot]))]

LEMMA LoggedBodyIs ==
  ASSUME StorageInv, NEW r \in LoggedSet
  PROVE  /\ LoggedBody(r) \in Logged(Bodies) /\ LoggedBody(r).body.rid = r /\ r # NoRid
         /\ LoggedBody(r).day = logDay[r]
         /\ LineOk(revisions, logDay, inited, LoggedBody(r).day, LoggedBody(r).body)
<1>1. r \in 1..Len(revisions) /\ logDay[r] # 0
  BY InvParts, VarTypes DEF LoggedSet
<1>2. IsRow(revisions, r)
  BY <1>1, InvParts DEF DaysOk, IsRow
<1>3. PICK shard : shard = LiveShard(ShardOf[revisions[r].slot])
  OBVIOUS
<1>4. shard = NoFile \/ shard \in Shard
  BY <1>3, InvParts, WrittenIs DEF LiveShard
<1>5. PICK body : body = Body(r, shard)
  OBVIOUS
<1>6. /\ body \in Bodies /\ body.rid = r /\ r # NoRid /\ logDay[r] \in Days
      /\ LineOk(revisions, logDay, inited, logDay[r], body)
  BY <1>1, <1>2, <1>4, <1>5, InvParts, BodyIs
<1>7. LoggedBody(r) = [day |-> logDay[r], body |-> body]
  BY <1>3, <1>5 DEF LoggedBody
<1> QED
  BY <1>6, <1>7 DEF Logged

LEMMA InitBodyIs ==
  ASSUME inited
  PROVE  /\ InitBody \in Bodies /\ InitBody.rid = 0 /\ 1 \in Days
         /\ LineOk(revisions, logDay, inited, 1, InitBody)
BY StorageAssumption DEF InitBody, Bodies, LineOk, NoRid, Days

\* exportProject's log is the whole log table, in order.
LEMMA LogBodiesAre ==
  ASSUME StorageInv
  PROVE  /\ BodiesOk(revisions, logDay, inited, LogBodies)
         /\ inited => \E i \in 1..Len(LogBodies) : LogBodies[i].day = 1
         /\ \A r \in LoggedSet : \E i \in 1..Len(LogBodies) : LogBodies[i].day = logDay[r]
<1>1. PICK seq : seq = InOrder(LoggedSet)
  OBVIOUS
<1>2. LoggedSet \in SUBSET (1..Len(revisions)) /\ Len(revisions) \in Nat
  BY InvParts, VarTypes DEF LoggedSet
<1>3. PICK c \in Nat :
        /\ DOMAIN seq = 1..c
        /\ \A k \in 1..c : seq[k] \in LoggedSet
        /\ \A j, k \in 1..c : j < k <=> seq[j] < seq[k]
        /\ \A q \in LoggedSet : \E k \in 1..c : seq[k] = q
  <2>1. PICK c : c = Cardinality(LoggedSet)
    OBVIOUS
  <2>2. /\ c \in Nat /\ DOMAIN seq = 1..c
        /\ \A k \in 1..c : seq[k] \in LoggedSet
        /\ \A j, k \in 1..c : j < k <=> seq[j] < seq[k]
        /\ \A q \in LoggedSet : \E k \in 1..c : seq[k] = q
    BY <1>1, <1>2, <2>1, InOrderIs
  <2> QED
    BY <2>2
<1>4. PICK prefix : prefix = IF inited THEN <<[day |-> 1, body |-> InitBody]>> ELSE <<>>
  OBVIOUS
<1>5. PICK told : told = [i \in 1..c |-> LoggedBody(seq[i])]
  OBVIOUS
<1>6. LogBodies = prefix \o told
  <2>1. told = [i \in DOMAIN seq |->
                  [day |-> logDay[seq[i]],
                   body |-> Body(seq[i], LiveShard(ShardOf[revisions[seq[i]].slot]))]]
    BY <1>3, <1>5 DEF LoggedBody
  <2> QED
    BY <1>1, <1>4, <2>1 DEF LogBodies, LoggedSet, LiveShard
<1>7. \A i \in 1..c : LoggedBody(seq[i]) \in Logged(Bodies)
  BY <1>3, LoggedBodyIs
<1>8. told \in Seq(Logged(Bodies)) /\ Len(told) = c /\ \A i \in 1..c : told[i] = LoggedBody(seq[i])
  BY <1>5, <1>7
<1>9. /\ prefix \in Seq(Logged(Bodies)) /\ Len(prefix) \in {0, 1} /\ (inited => Len(prefix) = 1)
      /\ \A i \in 1..Len(prefix) : inited /\ prefix[i] = [day |-> 1, body |-> InitBody]
  <2>1. CASE inited
    <3>1. PICK one : one = [day |-> 1, body |-> InitBody]
      OBVIOUS
    <3>2. one \in Logged(Bodies) /\ prefix = <<one>>
      BY <1>4, <2>1, <3>1, InitBodyIs DEF Logged
    <3>3. prefix \in Seq(Logged(Bodies)) /\ Len(prefix) = 1 /\ \A i \in 1..1 : prefix[i] = one
      BY <3>2
    <3> QED
      BY <2>1, <3>1, <3>3
  <2>2. CASE ~inited
    <3>1. prefix = <<>>
      BY <1>4, <2>2
    <3>2. Len(prefix) = 0 /\ prefix \in Seq(Logged(Bodies))
      BY <3>1
    <3> QED
      BY <2>2, <3>2
  <2> QED
    BY <2>1, <2>2
<1>10. PICK all : all = LogBodies
  OBVIOUS
<1>11. PICK p \in {0, 1} : p = Len(prefix)
  BY <1>9
<1>12. /\ all \in Seq(Logged(Bodies)) /\ Len(all) = p + c
       /\ \A i \in 1..p : all[i] = prefix[i]
       /\ \A i \in 1..c : all[p + i] = told[i]
  <2>1. /\ all \in Seq(Logged(Bodies)) /\ Len(all) = Len(prefix) + Len(told)
        /\ \A i \in 1..Len(prefix) : all[i] = prefix[i]
        /\ \A i \in 1..Len(told) : all[Len(prefix) + i] = told[i]
    <3>1. prefix \in Seq(Logged(Bodies)) /\ told \in Seq(Logged(Bodies))
      BY <1>8, <1>9
    <3>2. all = prefix \o told
      BY <1>6, <1>10
    <3> QED
      BY <3>1, <3>2, Joined
  <2> QED
    BY <1>8, <1>11, <2>1
<1>13. \A i \in 1..Len(all) : i \in 1..p \/ \E k \in 1..c : i = p + k
  <2> TAKE i \in 1..Len(all)
  <2>1. i \in 1..p \/ i - p \in 1..c
    BY <1>3, <1>11, <1>12
  <2>2. i = p + (i - p)
    BY <1>11
  <2> QED
    BY <2>1, <2>2
<1>14. \A i \in 1..p : i = 1 /\ inited /\ all[i].day = 1 /\ all[i].body = InitBody
  BY <1>9, <1>11, <1>12
<1>15. \A k \in 1..c : all[p + k] = LoggedBody(seq[k]) /\ seq[k] \in LoggedSet
  BY <1>3, <1>8, <1>12
<1>16. \A i \in 1..Len(all) : LineOk(revisions, logDay, inited, all[i].day, all[i].body)
  <2> TAKE i \in 1..Len(all)
  <2>1. CASE i \in 1..p
    BY <1>14, <2>1, InitBodyIs
  <2>2. ASSUME NEW k \in 1..c, i = p + k
        PROVE  LineOk(revisions, logDay, inited, all[i].day, all[i].body)
    BY <1>15, <2>2, LoggedBodyIs
  <2> QED
    BY <1>13, <2>1, <2>2
<1>17. \A i, j \in 1..Len(all) : i < j => all[i].body.rid < all[j].body.rid
  <2> SUFFICES ASSUME NEW i \in 1..Len(all), NEW j \in 1..Len(all), i < j
               PROVE  all[i].body.rid < all[j].body.rid
    OBVIOUS
  <2>1. PICK k \in 1..c : j = p + k
    <3>1. ~(j \in 1..p)
      BY <1>11, <1>12
    <3> QED
      BY <1>13, <3>1
  <2>2. all[j].body.rid = seq[k] /\ seq[k] # 0 /\ seq[k] \in Nat
    <3>1. all[j] = LoggedBody(seq[k]) /\ seq[k] \in LoggedSet
      BY <1>15, <2>1
    <3>2. PICK r \in LoggedSet : r = seq[k]
      BY <3>1
    <3>3. LoggedBody(r).body.rid = r /\ r # NoRid
      BY LoggedBodyIs
    <3>4. r \in Nat
      BY <1>2
    <3> QED
      BY <3>1, <3>2, <3>3, <3>4 DEF NoRid
  <2>3. CASE i \in 1..p
    <3>1. all[i].body.rid = 0
      BY <1>14, <2>3, InitBodyIs
    <3> QED
      BY <2>2, <3>1
  <2>4. ASSUME NEW l \in 1..c, i = p + l
        PROVE  all[i].body.rid < all[j].body.rid
    <3>1. all[i].body.rid = seq[l]
      BY <1>15, <2>4, LoggedBodyIs
    <3>2. l < k
      BY <1>11, <2>1, <2>4
    <3> QED
      BY <1>3, <2>2, <3>1, <3>2
  <2> QED
    BY <1>13, <2>3, <2>4
<1>18. inited => \E i \in 1..Len(all) : all[i].day = 1
  <2> SUFFICES ASSUME inited PROVE \E i \in 1..Len(all) : all[i].day = 1
    OBVIOUS
  <2>1. p = 1 /\ 1 \in 1..p /\ 1 \in 1..Len(all)
    BY <1>3, <1>9, <1>11, <1>12
  <2> QED
    BY <1>14, <2>1
<1>19. \A r \in LoggedSet : \E i \in 1..Len(all) : all[i].day = logDay[r]
  <2> TAKE r \in LoggedSet
  <2>1. PICK k \in 1..c : seq[k] = r
    BY <1>3
  <2>2. p + k \in 1..Len(all)
    BY <1>3, <1>11, <1>12
  <2>3. all[p + k].day = logDay[r]
    BY <1>15, <2>1, LoggedBodyIs
  <2> QED
    BY <2>2, <2>3
<1> QED
  BY <1>10, <1>12, <1>16, <1>17, <1>18, <1>19 DEF BodiesOk

\* A log in the order of its rids is in the order of its days.
LEMMA DaysFollow ==
  ASSUME NEW rows, NEW days, NEW now, NEW first, NEW all, Len(rows) \in Nat,
         DaysOk(rows, days, now), BodiesOk(rows, days, first, all)
  PROVE  \A i, j \in 1..Len(all) : i < j => all[i].day <= all[j].day
<1> SUFFICES ASSUME NEW i \in 1..Len(all), NEW j \in 1..Len(all), i < j
             PROVE  all[i].day <= all[j].day
  OBVIOUS
<1>1. all \in Seq(Logged(Bodies)) /\ all[i].body.rid < all[j].body.rid
  BY DEF BodiesOk
<1>2. PICK p : p = all[i].body
  OBVIOUS
<1>3. PICK q : q = all[j].body
  OBVIOUS
<1>4. PICK d \in Days, e \in Days : d = all[i].day /\ e = all[j].day
  BY <1>1, LoggedTypes
<1>5. p.rid \in Nat /\ q.rid \in Nat
  <2>1. p \in Bodies /\ q \in Bodies
    BY <1>1, <1>2, <1>3, LoggedTypes
  <2> QED
    BY <2>1, StorageAssumption DEF Bodies
<1>6. LineOk(rows, days, first, d, p) /\ LineOk(rows, days, first, e, q)
  BY <1>2, <1>3, <1>4 DEF BodiesOk
<1>7. q.rid \in 1..Len(rows) /\ days[q.rid] = e
  BY <1>1, <1>2, <1>3, <1>5, <1>6 DEF LineOk, IsRow, NoRid
<1>8. CASE p.rid = NoRid
  BY <1>4, <1>6, <1>8 DEF LineOk, Days
<1>9. CASE p.rid # NoRid
  <2>1. p.rid \in 1..Len(rows) /\ days[p.rid] = d
    BY <1>6, <1>9 DEF LineOk, IsRow
  <2>2. days[p.rid] # 0 /\ days[q.rid] # 0
    BY <1>7, <2>1 DEF Days
  <2>3. days[p.rid] <= days[q.rid]
    BY <1>1, <1>2, <1>3, <1>7, <2>1, <2>2 DEF DaysOk
  <2> QED
    BY <1>4, <1>7, <2>1, <2>3
<1> QED
  BY <1>8, <1>9

LEMMA BulkShardsKeep ==
  ASSUME StorageInv, UNCHANGED database, lost' = lost, shards' = BulkShards
  PROVE  shards' \in [Modules -> Shard] /\ ShardsOk(revisions, shards') /\ CleanOk'
<1>1. /\ shards' = [m \in Modules |-> shards'[m]]
      /\ \A m \in Modules : shards'[m] \in {shards[m], Written(m)}
  BY DEF BulkShards
<1> QED
  BY <1>1, ShardsWritten

LEMMA BulkFilesKeep ==
  ASSUME StorageInv, NEW ds, NEW g, g = BulkFiles(ds)
  PROVE  g \in FilesOf(Bodies) /\ FilesOk(revisions, logDay, inited, g)
<1>1. files \in FilesOf(Bodies) /\ FilesOk(revisions, logDay, inited, files)
  BY InvParts, VarTypes
<1>2. g = Rechained(files, LogBodies, ds) /\ BodiesOk(revisions, logDay, inited, LogBodies)
  BY LogBodiesAre DEF BulkFiles
<1> QED
  BY <1>1, <1>2, BulkIs

LEMMA NothingToDo ==
  ASSUME NEW rows, NEW days, NEW f
  PROVE  TodoOk(rows, days, f, <<>>)
BY DEF TodoOk

LEMMA DieExportingKeeps ==
  ASSUME StorageInv, NEW d, DieExporting(d)
  PROVE  StorageInv'
<1>1. /\ todo = <<>> /\ shards' = BulkShards /\ files' = BulkFiles(1..d) /\ torn' = TRUE
      /\ UNCHANGED <<database, today, todo, half, lost>>
  BY DEF DieExporting, Ready
<1>2. shards' \in [Modules -> Shard] /\ ShardsOk(revisions, shards') /\ CleanOk'
  BY <1>1, BulkShardsKeep
<1>3. files' \in FilesOf(Bodies) /\ FilesOk(revisions, logDay, inited, files')
  BY <1>1, BulkFilesKeep
<1>4. VarsOK'
  BY <1>1, <1>2, <1>3, InvParts DEF VarsOK, database
<1> QED
  BY <1>1, <1>2, <1>3, <1>4, InvParts, NothingToDo DEF StorageInv, database

LEMMA ExportProjectKeeps ==
  ASSUME StorageInv, ExportProject
  PROVE  StorageInv'
<1>1. /\ todo = <<>> /\ shards' = BulkShards /\ files' = BulkFiles(Days)
      /\ UNCHANGED <<database, today, todo, half, lost>>
  BY DEF ExportProject, Ready
<1>2. shards' \in [Modules -> Shard] /\ ShardsOk(revisions, shards') /\ CleanOk'
  BY <1>1, BulkShardsKeep
<1>3. files' \in FilesOf(Bodies) /\ FilesOk(revisions, logDay, inited, files')
  BY <1>1, BulkFilesKeep
<1>4. VarsOK'
  BY <1>1, <1>2, <1>3, InvParts DEF VarsOK, database
<1>5. PICK all : all = LogBodies
  OBVIOUS
<1>6. \A d \in Days : Len(files[d]) # 0 => \E i \in 1..Len(all) : all[i].day = d
  <2> SUFFICES ASSUME NEW d \in Days, Len(files[d]) # 0
               PROVE  \E i \in 1..Len(all) : all[i].day = d
    OBVIOUS
  <2>1. 1 \in 1..Len(files[d])
    <3>1. Len(files[d]) \in Nat
      BY InvParts, VarTypes, FileIs
    <3> QED
      BY <3>1
  <2>2. PICK body : body = files[d][1].body
    OBVIOUS
  <2>3. LineOk(revisions, logDay, inited, d, body)
    BY <2>1, <2>2, InvParts DEF FilesOk
  <2>4. CASE body.rid = NoRid
    BY <1>5, <2>3, <2>4, LogBodiesAre DEF LineOk
  <2>5. CASE body.rid # NoRid
    <3>1. body.rid \in LoggedSet /\ logDay[body.rid] = d
      BY <2>3, <2>5, InvParts, VarTypes DEF LineOk, IsRow, LoggedSet, Days
    <3> QED
      BY <1>5, <3>1, LogBodiesAre
  <2> QED
    BY <2>4, <2>5
<1>7. Chained(files')
  <2>1. PICK g : g = files'
    OBVIOUS
  <2>2. g = Rechained(files, all, Days) /\ BodiesOk(revisions, logDay, inited, all)
    BY <1>1, <1>5, <2>1, LogBodiesAre DEF BulkFiles
  <2>3. /\ files \in FilesOf(Bodies) /\ FilesOk(revisions, logDay, inited, files)
        /\ Len(revisions) \in Nat /\ DaysOk(revisions, logDay, today)
    BY InvParts, VarTypes
  <2>4. Chained(g)
    BY <1>6, <2>2, <2>3, DaysFollow, RechainedChains DEF BodiesOk
  <2> QED
    BY <2>1, <2>4
<1> QED
  BY <1>1, <1>2, <1>3, <1>4, <1>7, InvParts, NothingToDo DEF StorageInv, database
-----------------------------------------------------------------------------
(* RebuildProject: the rows again, from the files.                         *)

LEMMA ReplayedAre ==
  ASSUME StorageInv, NEW x \in Replayed
  PROVE  /\ x \in LinesIn(files) /\ Line(x).body.rid = Rid(files, x)
         /\ Line(x).body.rid \in 1..Len(revisions) /\ IsRow(revisions, Line(x).body.rid)
         /\ Line(x).body.row = [revisions[Line(x).body.rid] EXCEPT !.supersedes = NoRid]
         /\ logDay[Line(x).body.rid] = x[1] /\ x[1] \in Days
<1>1. x \in LinesIn(files) /\ Line(x).body.rid # NoRid
  BY DEF Replayed, Lines
<1>2. files \in FilesOf(Bodies)
  BY InvParts, VarTypes
<1>3. PICK d \in Days : \E i \in 1..Len(files[d]) : x = <<d, i>>
  BY <1>1, <1>2, LinesAre
<1>4. PICK i \in 1..Len(files[d]) : x = <<d, i>>
  BY <1>3
<1>5. PICK body : body = files[d][i].body
  OBVIOUS
<1>6. LineOk(revisions, logDay, inited, d, body)
  BY <1>5, InvParts DEF FilesOk
<1>7. Line(x).body = body /\ Rid(files, x) = body.rid /\ x[1] = d
  BY <1>4, <1>5 DEF Line, LineIn, Rid
<1> QED
  BY <1>1, <1>6, <1>7 DEF LineOk, IsRow

LEMMA ReplayedOrder ==
  ASSUME StorageInv, NEW x \in Replayed, NEW y \in Replayed
  PROVE  /\ Before(x, y) <=> Line(x).body.rid < Line(y).body.rid
         /\ Line(x).body.rid = Line(y).body.rid => x = y
<1>1. /\ x \in LinesIn(files) /\ Line(x).body.rid = Rid(files, x)
      /\ y \in LinesIn(files) /\ Line(y).body.rid = Rid(files, y)
  BY ReplayedAre
<1>2. /\ files \in FilesOf(Bodies) /\ FilesOk(revisions, logDay, inited, files)
      /\ Len(revisions) \in Nat /\ DaysOk(revisions, logDay, today)
  BY InvParts, VarTypes
<1> QED
  BY <1>1, <1>2, LinesByRid

LEMMA LoggedRidsAre ==
  ASSUME StorageInv, NEW r
  PROVE  /\ r \in LoggedRids <=> \E x \in Replayed : Line(x).body.rid = r
         /\ r \in LoggedRids => /\ LineOf(r) \in Replayed /\ Line(LineOf(r)).body.rid = r
                                /\ r \in 1..Len(revisions) /\ IsRow(revisions, r)
                                /\ logDay[r] = LineOf(r)[1]
         /\ \A x \in Replayed : Line(x).body.rid = r => LineOf(r) = x
<1>1. r \in LoggedRids <=> \E x \in Replayed : Line(x).body.rid = r
  BY DEF LoggedRids
<1>2. r \in LoggedRids => LineOf(r) \in Replayed /\ Line(LineOf(r)).body.rid = r
  BY <1>1 DEF LineOf
<1>3. r \in LoggedRids => /\ r \in 1..Len(revisions) /\ IsRow(revisions, r)
                          /\ logDay[r] = LineOf(r)[1]
  BY <1>2, ReplayedAre
<1>4. \A x \in Replayed : Line(x).body.rid = r => LineOf(r) = x
  BY <1>1, <1>2, ReplayedOrder
<1> QED
  BY <1>1, <1>2, <1>3, <1>4

LEMMA LastForSlotIs ==
  ASSUME StorageInv, NEW x \in Replayed, LastForSlot(x) # NoRid
  PROVE  \E y \in Replayed : /\ LastForSlot(x) = Line(y).body.rid
                             /\ Before(y, x)
                             /\ Line(y).body.row.slot = Line(x).body.row.slot
<1>1. PICK earlier : earlier = {y \in ReplayedBefore(x) : Line(y).body.row.slot = Line(x).body.row.slot}
  OBVIOUS
<1>2. earlier # {} /\ LastForSlot(x) = Line(Latest(earlier)).body.rid
  BY <1>1 DEF LastForSlot
<1>3. earlier \in SUBSET LinesIn(files)
  BY <1>1, ReplayedAre DEF ReplayedBefore
<1>4. Latest(earlier) \in earlier
  BY <1>2, <1>3, InvParts, VarTypes, LatestOfLines
<1> QED
  BY <1>1, <1>2, <1>4 DEF ReplayedBefore

\* The rids a rebuild inserts.
RebuiltRids == LoggedRids \cup {ShardRecord(s).rid : s \in Unlogged}

LEMMA RebuiltRidsAre ==
  ASSUME StorageInv
  PROVE  /\ RebuiltRids \in SUBSET (1..Len(revisions))
         /\ \A r \in RebuiltRids : IsRow(revisions, r)
         /\ LoggedRids \in SUBSET RebuiltRids
         /\ \A m \in Modules : \A s \in DOMAIN shards[m].shows : shards[m].shows[s].rid \in RebuiltRids
         /\ \A r \in RebuiltRids \ LoggedRids :
              \E s \in Slots : \E v \in Values \cup {NoValue} : UnloggedRow(r) = SetRow(s, v, NoRid, NoRid)
<1>1. \A s \in Unlogged : IsRow(revisions, ShardRecord(s).rid) /\ s \in Slots
                          /\ ShardRecord(s).val \in Values \cup {NoValue}
  <2> TAKE s \in Unlogged
  <2>1. s \in Slots /\ s \in DOMAIN shards[ShardOf[s]].shows
    BY DEF Unlogged
  <2>2. ShardOf[s] \in Modules
    BY <2>1, StorageAssumption
  <2>3. IsRow(revisions, ShardRecord(s).rid)
    BY <2>1, <2>2, InvParts DEF ShardsOk, ShardRecord
  <2>4. shards[ShardOf[s]].shows \in Content
    BY <2>2, InvParts DEF VarsOK, Shard
  <2>5. shards[ShardOf[s]].shows[s].val \in Values \cup {NoValue}
    BY <2>1, <2>4 DEF Content
  <2> QED
    BY <2>1, <2>3, <2>5 DEF ShardRecord
<1>2. \A r \in RebuiltRids : IsRow(revisions, r)
  BY <1>1, LoggedRidsAre DEF RebuiltRids
<1>3. \A m \in Modules : \A s \in DOMAIN shards[m].shows : shards[m].shows[s].rid \in RebuiltRids
  <2> TAKE m \in Modules
  <2> TAKE s \in DOMAIN shards[m].shows
  <2>1. s \in Slots /\ ShardOf[s] = m
    BY InvParts DEF ShardsOk
  <2>2. shards[m].shows[s].rid \notin LoggedRids => s \in Unlogged
    BY <2>1 DEF Unlogged
  <2>3. ShardRecord(s).rid = shards[m].shows[s].rid
    BY <2>1 DEF ShardRecord
  <2> QED
    BY <2>2, <2>3 DEF RebuiltRids
<1>4. ASSUME NEW r \in RebuiltRids \ LoggedRids
      PROVE  \E s \in Slots : \E v \in Values \cup {NoValue} : UnloggedRow(r) = SetRow(s, v, NoRid, NoRid)
  <2>1. \E t \in Unlogged : ShardRecord(t).rid = r
    BY DEF RebuiltRids
  <2>2. PICK s : s = CHOOSE t \in Unlogged : ShardRecord(t).rid = r
    OBVIOUS
  <2>3. s \in Unlogged
    BY <2>1, <2>2
  <2>4. UnloggedRow(r) = SetRow(s, ShardRecord(s).val, NoRid, NoRid)
    BY <2>2 DEF UnloggedRow
  <2> QED
    BY <1>1, <2>3, <2>4
<1> QED
  BY <1>2, <1>3, <1>4 DEF RebuiltRids, IsRow

\* What stands at a rid of the rebuilt table.
LEMMA LoggedRowIs ==
  ASSUME StorageInv, NEW r \in LoggedRids
  PROVE  /\ LoggedRow(r) \in Row /\ LoggedRow(r) # Hole
         /\ LoggedRow(r).slot = revisions[r].slot /\ LoggedRow(r).val = revisions[r].val
         /\ LoggedRow(r).reactivates = revisions[r].reactivates
         /\ LoggedRow(r).cleared = revisions[r].cleared
         /\ LoggedRow(r).supersedes = LastForSlot(LineOf(r))
         /\ [LoggedRow(r) EXCEPT !.supersedes = NoRid] = [revisions[r] EXCEPT !.supersedes = NoRid]
<1>1. PICK x \in Replayed : x = LineOf(r) /\ Line(x).body.rid = r
  BY LoggedRidsAre
<1>2. PICK row \in Row : row = revisions[r]
  <2>1. revisions[r] # Hole /\ r \in 1..Len(revisions)
    BY LoggedRidsAre DEF IsRow
  <2> QED
    BY <2>1, InvParts, VarTypes, RowTypes
<1>3. PICK p : p = LastForSlot(x)
  OBVIOUS
<1>4. p \in Nat
  <2>1. CASE p = NoRid
    BY <2>1 DEF NoRid
  <2>2. CASE p # NoRid
    <3>1. PICK y \in Replayed : p = Line(y).body.rid
      BY <1>3, <2>2, LastForSlotIs
    <3>2. Line(y).body.rid \in 1..Len(revisions)
      BY ReplayedAre
    <3> QED
      BY <3>1, <3>2, InvParts, VarTypes
  <2> QED
    BY <2>1, <2>2
<1>5. Line(x).body.row = [row EXCEPT !.supersedes = NoRid]
  BY <1>1, <1>2, ReplayedAre
<1>6. LoggedRow(r) = [[row EXCEPT !.supersedes = NoRid] EXCEPT !.supersedes = p]
  BY <1>1, <1>3, <1>5 DEF LoggedRow
<1>7. PICK new : new = [row EXCEPT !.supersedes = p]
  OBVIOUS
<1>8. LoggedRow(r) = new
  BY <1>6, <1>7 DEF Row
<1>9. /\ new \in Row /\ new.slot = row.slot /\ new.val = row.val /\ new.reactivates = row.reactivates
      /\ new.cleared = row.cleared /\ new.supersedes = p
      /\ [new EXCEPT !.supersedes = NoRid] = [row EXCEPT !.supersedes = NoRid]
  BY <1>4, <1>7 DEF Row
<1>10. new # Hole
  BY <1>9, StorageAssumption DEF Row, Hole
<1> QED
  BY <1>1, <1>2, <1>3, <1>8, <1>9, <1>10

LEMMA RebuiltIs ==
  ASSUME StorageInv
  PROVE  /\ Rebuilt \in Rows /\ Len(Rebuilt) <= Len(revisions)
         /\ RebuiltRids \in SUBSET (1..Len(Rebuilt))
         /\ Rebuilt # <<>> => Len(Rebuilt) \in RebuiltRids
         /\ \A r \in 1..Len(Rebuilt) :
              Rebuilt[r] = IF r \in LoggedRids THEN LoggedRow(r)
                           ELSE IF r \in RebuiltRids THEN UnloggedRow(r) ELSE Hole
         /\ \A r \in 1..Len(Rebuilt) : Rebuilt[r] # Hole <=> r \in RebuiltRids
<1>1. PICK n : n = IF RebuiltRids = {} THEN 0 ELSE Greatest(RebuiltRids)
  OBVIOUS
<1>2. PICK rows : rows = Rebuilt
  OBVIOUS
<1>3. rows = [r \in 1..n |-> IF r \in LoggedRids THEN LoggedRow(r)
                             ELSE IF r \in RebuiltRids THEN UnloggedRow(r) ELSE Hole]
  BY <1>1, <1>2 DEF Rebuilt, RebuiltRids
<1>4. RebuiltRids \in SUBSET (1..Len(revisions)) /\ Len(revisions) \in Nat
  BY InvParts, VarTypes, RebuiltRidsAre
<1>5. RebuiltRids # {} => Greatest(RebuiltRids) \in RebuiltRids /\ \A q \in RebuiltRids : q <= Greatest(RebuiltRids)
  BY <1>4, GreatestIs
<1>6. n \in Nat /\ n <= Len(revisions) /\ RebuiltRids \in SUBSET (1..n) /\ (n # 0 => n \in RebuiltRids)
  <2>1. CASE RebuiltRids = {}
    BY <1>1, <1>4, <2>1
  <2>2. CASE RebuiltRids # {}
    <3>1. n \in RebuiltRids /\ \A q \in RebuiltRids : q <= n
      BY <1>1, <1>5, <2>2
    <3> QED
      BY <1>4, <3>1
  <2> QED
    BY <2>1, <2>2
<1>7. \A r \in 1..n : rows[r] \in Row \cup {Hole} /\ (rows[r] # Hole <=> r \in RebuiltRids)
  <2> TAKE r \in 1..n
  <2>1. CASE r \in LoggedRids
    <3>1. rows[r] = LoggedRow(r)
      BY <1>3, <2>1
    <3> QED
      BY <2>1, <3>1, LoggedRowIs, RebuiltRidsAre
  <2>2. CASE r \in RebuiltRids \ LoggedRids
    <3>1. rows[r] = UnloggedRow(r)
      BY <1>3, <2>2
    <3>2. PICK s \in Slots, v \in Values \cup {NoValue} : UnloggedRow(r) = SetRow(s, v, NoRid, NoRid)
      BY <2>2, RebuiltRidsAre
    <3>3. rows[r] \in Row
      BY <3>1, <3>2 DEF SetRow, Row, NoRid
    <3>4. rows[r] # Hole
      BY <3>3, StorageAssumption DEF Row, Hole
    <3> QED
      BY <2>2, <3>3, <3>4
  <2>3. CASE r \notin RebuiltRids
    <3>1. r \notin LoggedRids
      BY <2>3, RebuiltRidsAre
    <3>2. rows[r] = Hole
      BY <1>3, <2>3, <3>1
    <3> QED
      BY <2>3, <3>2
  <2> QED
    BY <2>1, <2>2, <2>3
<1>8. rows \in Rows /\ Len(rows) = n
  <2>1. \A r \in 1..n : rows[r] \in Row \cup {Hole}
    BY <1>7
  <2>2. DOMAIN rows = 1..n /\ rows = [r \in 1..n |-> rows[r]]
    BY <1>3
  <2>3. rows \in [1..n -> Row \cup {Hole}]
    BY <2>1, <2>2
  <2> QED
    BY <1>6, <2>2, <2>3 DEF Rows
<1>9. rows # <<>> => Len(rows) \in RebuiltRids
  <2>1. n = 0 => rows = <<>>
    BY <1>8 DEF Rows
  <2> QED
    BY <1>6, <1>8, <2>1
<1>10. \A r \in 1..n : rows[r] = IF r \in LoggedRids THEN LoggedRow(r)
                                 ELSE IF r \in RebuiltRids THEN UnloggedRow(r) ELSE Hole
  BY <1>3
<1> QED
  BY <1>2, <1>6, <1>7, <1>8, <1>9, <1>10

\* A rebuild that is accepted leaves a table whose rows resolve.
LEMMA RebuiltResolves ==
  ASSUME StorageInv, RebuildAccepts
  PROVE  RowsOk(Rebuilt)
<1>1. PICK rows : rows = Rebuilt
  OBVIOUS
<1>2. /\ rows \in Rows /\ RebuiltRids \in SUBSET (1..Len(rows))
      /\ rows # <<>> => Len(rows) \in RebuiltRids
      /\ \A r \in 1..Len(rows) :
           rows[r] = IF r \in LoggedRids THEN LoggedRow(r)
                     ELSE IF r \in RebuiltRids THEN UnloggedRow(r) ELSE Hole
      /\ \A r \in 1..Len(rows) : rows[r] # Hole <=> r \in RebuiltRids
  BY <1>1, RebuiltIs
<1>3. \A r \in LoggedRids : IsRow(rows, r) /\ rows[r] = LoggedRow(r) /\ rows[r].slot = revisions[r].slot
  BY <1>2, RebuiltRidsAre, LoggedRowIs DEF IsRow
<1>4. rows # <<>> => rows[Len(rows)] # Hole
  BY <1>2
<1>5. ASSUME NEW r \in 1..Len(rows), rows[r] # Hole
      PROVE  RowOk(rows, r)
  <2>1. CASE r \in LoggedRids
    <3>1. PICK x \in Replayed : x = LineOf(r) /\ Line(x).body.rid = r
      BY <2>1, LoggedRidsAre
    <3>2. IsRow(revisions, r) /\ revisions[r] # Hole /\ r \in 1..Len(revisions)
      BY <2>1, LoggedRidsAre DEF IsRow
    <3>3. RowOk(revisions, r)
      BY <3>2, InvParts DEF RowsOk
    <3>4. /\ rows[r].slot = revisions[r].slot /\ rows[r].val = revisions[r].val
          /\ rows[r].reactivates = revisions[r].reactivates /\ rows[r].cleared = revisions[r].cleared
          /\ rows[r].supersedes = LastForSlot(x)
      BY <1>3, <2>1, <3>1, LoggedRowIs
    <3>5. PICK row \in Row : row = revisions[r]
      BY <3>2, InvParts, VarTypes, RowTypes
    <3>6. Line(x).body.row = [row EXCEPT !.supersedes = NoRid]
      BY <3>1, <3>5, ReplayedAre
    <3>7. Line(x).body.row.slot = revisions[r].slot /\ Line(x).body.row.reactivates = revisions[r].reactivates
      BY <3>5, <3>6 DEF Row
    <3>8. Points(rows, rows[r].supersedes, rows[r].slot, r)
      <4> SUFFICES ASSUME rows[r].supersedes # NoRid
                   PROVE  LET p == rows[r].supersedes
                          IN  p < r /\ IsRow(rows, p) /\ rows[p].slot = rows[r].slot
        BY DEF Points
      <4>1. PICK y \in Replayed : /\ LastForSlot(x) = Line(y).body.rid /\ Before(y, x)
                                  /\ Line(y).body.row.slot = Line(x).body.row.slot
        BY <3>4, LastForSlotIs
      <4>2. PICK q : q = Line(y).body.rid
        OBVIOUS
      <4>3. q < r
        BY <3>1, <4>1, <4>2, ReplayedOrder
      <4>4. q \in LoggedRids
        BY <4>2, LoggedRidsAre
      <4>5. PICK other \in Row : other = revisions[q]
        BY <4>4, LoggedRidsAre, InvParts, VarTypes, RowTypes DEF IsRow
      <4>6. Line(y).body.row = [other EXCEPT !.supersedes = NoRid]
        BY <4>2, <4>5, ReplayedAre
      <4>7. revisions[q].slot = revisions[r].slot
        BY <3>7, <4>1, <4>5, <4>6 DEF Row
      <4>8. rows[r].supersedes = q
        BY <3>4, <4>1, <4>2
      <4> QED
        BY <1>3, <3>4, <4>3, <4>4, <4>7, <4>8
    <3>9. Points(rows, rows[r].reactivates, rows[r].slot, r)
      <4> SUFFICES ASSUME rows[r].reactivates # NoRid
                   PROVE  LET p == rows[r].reactivates
                          IN  p < r /\ IsRow(rows, p) /\ rows[p].slot = rows[r].slot
        BY DEF Points
      <4>1. PICK q : q = rows[r].reactivates
        OBVIOUS
      <4>2. q # NoRid /\ q = Line(x).body.row.reactivates /\ q = revisions[r].reactivates
        BY <3>4, <3>7, <4>1
      <4>3. q \in {Line(y).body.rid : y \in ReplayedBefore(x)}
        BY <4>2 DEF RebuildAccepts
      <4>4. PICK y \in Replayed : q = Line(y).body.rid
        BY <4>3 DEF ReplayedBefore
      <4>5. q \in LoggedRids
        BY <4>4, LoggedRidsAre
      <4>6. q < r /\ revisions[q].slot = revisions[r].slot
        BY <3>3, <4>2 DEF RowOk, Points
      <4> QED
        BY <1>3, <3>4, <4>1, <4>5, <4>6
    <3>10. ~IsContent(rows, r) => rows[r].val = NoValue
      BY <3>3, <3>4 DEF RowOk, IsContent
    <3> QED
      BY <3>8, <3>9, <3>10 DEF RowOk
  <2>2. CASE r \in RebuiltRids \ LoggedRids
    <3>1. rows[r] = UnloggedRow(r)
      BY <1>2, <2>2
    <3>2. PICK s \in Slots, v \in Values \cup {NoValue} : UnloggedRow(r) = SetRow(s, v, NoRid, NoRid)
      BY <2>2, RebuiltRidsAre
    <3>3. rows[r].supersedes = NoRid /\ rows[r].reactivates = NoRid /\ rows[r].cleared = FALSE
      BY <3>1, <3>2 DEF SetRow
    <3> QED
      BY <3>3 DEF RowOk, Points, IsContent
  <2> QED
    BY <1>2, <1>5, <2>1, <2>2
<1> QED
  BY <1>1, <1>4, <1>5 DEF RowsOk

\* When the files miss no write, the rebuilt table is the lost one, but for
\* what its rows supersede.
LEMMA Lossless ==
  ASSUME StorageInv, todo = <<>>, Gaps = {}
  PROVE  /\ Alike(revisions, Rebuilt)
         /\ \A r \in 1..Len(revisions) : revisions[r] # Hole <=> r \in LoggedRids
         /\ RebuildAccepts
<1>1. \A r \in 1..Len(revisions) : revisions[r] # Hole => r \in LoggedRids
  <2>1. Range(todo) = {}
    BY DEF Range
  <2> QED
    BY <2>1, InvParts, VarTypes DEF Gaps
<1>2. \A r \in LoggedRids : r \in 1..Len(revisions) /\ revisions[r] # Hole
  BY LoggedRidsAre DEF IsRow
<1>3. \A r : r \in RebuiltRids <=> r \in LoggedRids
  <2>1. \A r \in RebuiltRids : r \in 1..Len(revisions) /\ revisions[r] # Hole
    BY RebuiltRidsAre DEF IsRow
  <2> QED
    BY <1>1, <2>1, RebuiltRidsAre
<1>4. PICK rows : rows = Rebuilt
  OBVIOUS
<1>5. /\ rows \in Rows /\ Len(rows) <= Len(revisions)
      /\ RebuiltRids \in SUBSET (1..Len(rows))
      /\ \A r \in 1..Len(rows) :
           rows[r] = IF r \in LoggedRids THEN LoggedRow(r)
                     ELSE IF r \in RebuiltRids THEN UnloggedRow(r) ELSE Hole
  BY <1>4, RebuiltIs
<1>6. /\ revisions \in Rows /\ Len(revisions) \in Nat /\ Len(rows) \in Nat
      /\ (revisions # <<>> => revisions[Len(revisions)] # Hole)
  BY <1>5, InvParts, VarTypes DEF RowsOk, Rows
<1>7. Len(rows) = Len(revisions)
  <2>1. CASE Len(revisions) = 0
    BY <1>5, <1>6, <2>1
  <2>2. CASE Len(revisions) # 0
    <3>1. revisions # <<>> /\ Len(revisions) \in 1..Len(revisions)
      BY <1>6, <2>2
    <3>2. Len(revisions) \in RebuiltRids
      BY <1>1, <1>3, <1>6, <3>1
    <3> QED
      BY <1>5, <1>6, <3>2
  <2> QED
    BY <2>1, <2>2
<1>8. ASSUME NEW r \in 1..Len(revisions)
      PROVE  /\ revisions[r].slot = rows[r].slot /\ revisions[r].val = rows[r].val
             /\ revisions[r].reactivates = rows[r].reactivates
             /\ revisions[r].cleared = rows[r].cleared
  <2>1. CASE r \in LoggedRids
    BY <1>5, <1>7, <2>1, LoggedRowIs
  <2>2. CASE r \notin LoggedRids
    <3>1. revisions[r] = Hole
      BY <1>1, <2>2
    <3>2. rows[r] = Hole
      BY <1>3, <1>5, <1>7, <2>2
    <3> QED
      BY <3>1, <3>2
  <2> QED
    BY <2>1, <2>2
<1>9. Alike(revisions, rows)
  BY <1>7, <1>8 DEF Alike
<1>10. RebuildAccepts
  <2> SUFFICES ASSUME NEW x \in Replayed
               PROVE  LET back == Line(x).body.row.reactivates
                          before == {Line(y).body.rid : y \in ReplayedBefore(x)}
                      IN  Line(x).body.rid \notin before /\ (back # NoRid => back \in before)
    BY DEF RebuildAccepts
  <2>1. PICK r : r = Line(x).body.rid
    OBVIOUS
  <2>2. r \in 1..Len(revisions) /\ revisions[r] # Hole /\ RowOk(revisions, r)
    BY <2>1, ReplayedAre, InvParts DEF IsRow, RowsOk
  <2>3. PICK row \in Row : row = revisions[r]
    BY <2>2, InvParts, VarTypes, RowTypes
  <2>4. PICK back : back = Line(x).body.row.reactivates
    OBVIOUS
  <2>5. back = revisions[r].reactivates
    <3>1. Line(x).body.row = [row EXCEPT !.supersedes = NoRid]
      BY <2>1, <2>3, ReplayedAre
    <3> QED
      BY <2>3, <2>4, <3>1 DEF Row
  <2>6. PICK before : before = {Line(y).body.rid : y \in ReplayedBefore(x)}
    OBVIOUS
  <2>7. r \notin before
    <3> SUFFICES ASSUME NEW y \in ReplayedBefore(x), Line(y).body.rid = r PROVE FALSE
      BY <2>6
    <3>1. y \in Replayed /\ Before(y, x)
      BY DEF ReplayedBefore
    <3>2. Line(y).body.rid < Line(x).body.rid
      BY <3>1, ReplayedOrder
    <3> QED
      BY <1>6, <2>1, <2>2, <3>2
  <2>8. back # NoRid => back \in before
    <3> SUFFICES ASSUME back # NoRid PROVE back \in before
      OBVIOUS
    <3>1. back < r /\ back \in 1..Len(revisions) /\ revisions[back] # Hole
      BY <2>2, <2>5 DEF RowOk, Points, IsRow
    <3>2. PICK y \in Replayed : Line(y).body.rid = back
      BY <1>1, <3>1, LoggedRidsAre
    <3>3. Before(y, x)
      BY <2>1, <3>1, <3>2, ReplayedOrder
    <3> QED
      BY <2>6, <3>2, <3>3 DEF ReplayedBefore
  <2> QED
    BY <2>1, <2>4, <2>6, <2>7, <2>8
<1> QED
  BY <1>1, <1>2, <1>4, <1>9, <1>10

LEMMA RebuildProjectKeeps ==
  ASSUME StorageInv, RebuildProject
  PROVE  StorageInv'
<1>1. /\ todo = <<>> /\ RebuildAccepts /\ revisions' = Rebuilt
      /\ lost' = (lost \/ Gaps # {})
      /\ UNCHANGED <<disk, today, todo, half, torn>>
      /\ inited' = \E x \in Lines : Line(x).body = InitBody
  BY DEF RebuildProject
<1>2. logDay' = [r \in DOMAIN Rebuilt |-> IF r \in LoggedRids THEN LineOf(r)[1] ELSE 0]
  BY DEF RebuildProject
<1>3. PICK rows : rows = Rebuilt
  OBVIOUS
<1>4. PICK days : days = logDay'
  OBVIOUS
<1>5. /\ rows \in Rows /\ Len(rows) <= Len(revisions) /\ Len(rows) \in Nat
      /\ DOMAIN rows = 1..Len(rows)
      /\ RebuiltRids \in SUBSET (1..Len(rows))
      /\ \A r \in 1..Len(rows) : rows[r] # Hole <=> r \in RebuiltRids
  BY <1>3, RebuiltIs DEF Rows
<1>6. Len(revisions) \in Nat /\ Len(revisions) <= MaxRows /\ MaxRows \in Nat
      /\ \A r \in 1..Len(revisions) : logDay[r] \in 0..MaxDay
  BY InvParts, VarTypes
<1>7. days = [r \in 1..Len(rows) |-> IF r \in LoggedRids THEN logDay[r] ELSE 0]
  <2>1. \A r : r \in LoggedRids => LineOf(r)[1] = logDay[r]
    BY LoggedRidsAre
  <2> QED
    BY <1>2, <1>3, <1>4, <1>5, <2>1
<1>8. \A r \in LoggedRids : r \in 1..Len(rows) /\ r \in 1..Len(revisions)
  BY <1>5, LoggedRidsAre, RebuiltRidsAre
<1>9. days \in Seq(0..MaxDay) /\ Len(days) = Len(rows)
  <2>1. \A r \in 1..Len(rows) : (IF r \in LoggedRids THEN logDay[r] ELSE 0) \in 0..MaxDay
    BY <1>6, <1>8, StorageAssumption, MaxDayAssumption
  <2>2. days \in [1..Len(rows) -> 0..MaxDay]
    BY <1>7, <2>1
  <2> QED
    BY <1>5, <1>7, <2>2
<1>10. VarsOK'
  <2>1. inited' \in BOOLEAN
    BY <1>1
  <2>2. rows \in Seq(Row \cup {Hole}) /\ Len(rows) <= MaxRows
    BY <1>5, <1>6 DEF Rows
  <2> QED
    BY <1>1, <1>3, <1>4, <1>9, <2>1, <2>2, InvParts DEF VarsOK, disk
<1>11. RowsOk(rows)
  BY <1>1, <1>3, RebuiltResolves
<1>12. DaysOk(rows, days, today)
  <2>1. \A r \in 1..Len(rows) : days[r] # 0 => r \in LoggedRids /\ days[r] = logDay[r]
    BY <1>7
  <2>2. \A r \in 1..Len(rows) : days[r] # 0 => rows[r] # Hole /\ days[r] <= today
    BY <1>5, <1>8, <2>1, InvParts, RebuiltRidsAre DEF DaysOk
  <2>3. \A q, r \in 1..Len(rows) : q < r /\ days[q] # 0 /\ days[r] # 0 => days[q] <= days[r]
    BY <1>8, <2>1, InvParts DEF DaysOk
  <2> QED
    BY <2>2, <2>3 DEF DaysOk
<1>13. FilesOk(rows, days, inited', files)
  <2>1. ASSUME NEW d \in Days, NEW i \in 1..Len(files[d])
        PROVE  LineOk(rows, days, inited', d, files[d][i].body)
    <3>1. PICK body : body = files[d][i].body
      OBVIOUS
    <3>2. PICK x : x = <<d, i>>
      OBVIOUS
    <3>3. x \in Lines /\ Line(x).body = body /\ x[1] = d
      <4>1. x \in LinesIn(files)
        BY <3>2, LinesAre, InvParts, VarTypes
      <4> QED
        BY <3>1, <3>2, <4>1 DEF Lines, Line, LineIn
    <3>4. LineOk(revisions, logDay, inited, d, body)
      BY <3>1, InvParts DEF FilesOk
    <3>5. CASE body.rid = NoRid
      BY <1>1, <3>1, <3>3, <3>4, <3>5 DEF LineOk
    <3>6. CASE body.rid # NoRid
      <4>1. x \in Replayed
        BY <3>3, <3>6 DEF Replayed
      <4>2. PICK r : r = body.rid
        OBVIOUS
      <4>3. r \in LoggedRids
        BY <3>3, <4>1, <4>2, LoggedRidsAre
      <4>4. r \in 1..Len(rows) /\ rows[r] = LoggedRow(r) /\ rows[r] # Hole
        BY <1>3, <1>8, <4>3, RebuiltIs, LoggedRowIs
      <4>5. [rows[r] EXCEPT !.supersedes = NoRid] = [revisions[r] EXCEPT !.supersedes = NoRid]
        BY <4>3, <4>4, LoggedRowIs
      <4>6. days[r] = logDay[r]
        BY <1>7, <4>3, <4>4
      <4> QED
        BY <3>1, <3>4, <3>6, <4>2, <4>4, <4>5, <4>6 DEF LineOk, IsRow
    <3> QED
      BY <3>5, <3>6
  <2> QED
    BY <2>1, InvParts DEF FilesOk
<1>14. ShardsOk(rows, shards)
  <2> SUFFICES ASSUME NEW m \in Modules, NEW s \in DOMAIN shards[m].shows
               PROVE  s \in Slots /\ ShardOf[s] = m /\ IsRow(rows, shards[m].shows[s].rid)
    BY DEF ShardsOk
  <2>1. s \in Slots /\ ShardOf[s] = m
    BY InvParts DEF ShardsOk
  <2>2. shards[m].shows[s].rid \in RebuiltRids
    BY RebuiltRidsAre
  <2> QED
    BY <1>5, <2>1, <2>2 DEF IsRow
<1>15. CleanOk'
  <2>1. CASE lost \/ Gaps # {}
    BY <1>1, <2>1 DEF CleanOk
  <2>2. CASE ~lost /\ Gaps = {}
    <3>1. /\ Alike(revisions, rows)
          /\ \A r \in 1..Len(revisions) : revisions[r] # Hole <=> r \in LoggedRids
      BY <1>1, <1>3, <2>2, Lossless
    <3>2. Len(rows) = Len(revisions)
      BY <3>1 DEF Alike
    <3>3. \A r \in 1..Len(revisions) : days[r] = logDay[r]
      <4> TAKE r \in 1..Len(revisions)
      <4>1. CASE r \in LoggedRids
        BY <1>7, <3>2, <4>1
      <4>2. CASE r \notin LoggedRids
        <5>1. logDay[r] = 0
          BY <3>1, <4>2, InvParts DEF DaysOk
        <5> QED
          BY <1>7, <3>2, <4>2, <5>1
      <4> QED
        BY <4>1, <4>2
    <3>4. days = logDay
      BY <1>9, <3>2, <3>3, InvParts, VarTypes, SeqEqual
    <3>5. DbVersion' = DbVersion
      BY <1>4, <3>4 DEF DbVersion
    <3>6. \A s \in Slots :
            /\ ActivePayload(revisions, s) = ActivePayload(rows, s)
            /\ ContentOf(revisions, s) = ContentOf(rows, s)
            /\ ActivePayload(revisions, s) # NoRid =>
                 revisions[ActivePayload(revisions, s)].val = rows[ActivePayload(revisions, s)].val
      BY <1>5, <3>1, InvParts, VarTypes, AlikeShowTheSame
    <3>7. \A m : ActiveOf(m)' = ActiveOf(m)
      BY <1>1, <1>3, <3>6 DEF ActiveOf
    <3>8. \A m : Written(m)'.shows = Written(m).shows
      <4> TAKE m
      <4>1. \A s \in ActiveOf(m) : /\ s \in Slots /\ ActivePayload(revisions, s) # NoRid
        <5> TAKE s \in ActiveOf(m)
        <5>1. s \in Slots /\ ActivePayload(revisions, s) \in ContentOf(revisions, s)
          BY DEF ActiveOf
        <5>2. ActivePayload(revisions, s) \in 1..Len(revisions)
          BY <5>1 DEF ContentOf, RidsOf
        <5> QED
          BY <1>6, <5>1, <5>2 DEF NoRid
      <4>2. PICK shown : shown = [s \in ActiveOf(m) |->
                                    [rid |-> ActivePayload(revisions, s),
                                     val |-> revisions[ActivePayload(revisions, s)].val]]
        OBVIOUS
      <4>3. shown = [s \in ActiveOf(m) |-> [rid |-> ActivePayload(rows, s),
                                            val |-> rows[ActivePayload(rows, s)].val]]
        BY <3>6, <4>1, <4>2
      <4>4. Written(m) = [shows |-> shown, lock |-> shown, ver |-> DbVersion]
        BY <4>2 DEF Written
      <4>5. Written(m)' = [shows |-> shown, lock |-> shown, ver |-> DbVersion]
        BY <1>1, <1>3, <3>5, <3>7, <4>3 DEF Written
      <4> QED
        BY <4>4, <4>5
    <3>9. \A m \in Modules :
            /\ shards[m].ver <= Len(rows)
            /\ shards[m] # NoFile /\ shards[m].ver >= DbVersion => shards[m].lock = Written(m).shows
      BY <2>2, <3>2, InvParts DEF CleanOk, Exists
    <3> QED
      BY <1>1, <1>3, <3>5, <3>8, <3>9 DEF CleanOk, Exists, disk
  <2> QED
    BY <2>1, <2>2
<1>16. TodoOk(rows, days, files, <<>>)
  BY NothingToDo
<1> QED
  BY <1>1, <1>3, <1>4, <1>10, <1>11, <1>12, <1>13, <1>14, <1>15, <1>16, InvParts DEF StorageInv, disk
-----------------------------------------------------------------------------
(* The theorems.                                                           *)

LEMMA InvInit == Init => StorageInv
<1> SUFFICES ASSUME Init PROVE StorageInv
  OBVIOUS
<1>1. /\ revisions = <<>> /\ logDay = <<>> /\ inited = TRUE /\ today = 1 /\ todo = <<>>
      /\ half = FALSE /\ torn = FALSE /\ lost = FALSE
      /\ shards = [m \in Modules |-> NoFile] /\ files = [d \in Days |-> <<>>]
  BY DEF Init
<1>2. <<>> \in Content
  <2>1. <<>> \in [{} -> [rid : 1..MaxRows, val : Values \cup {NoValue}]]
    OBVIOUS
  <2> QED
    BY <2>1 DEF Content
<1>3. NoFile \in Shard
  BY <1>2, StorageAssumption DEF NoFile, Shard
<1>4. VarsOK
  <2>1. shards \in [Modules -> Shard]
    BY <1>1, <1>3
  <2>2. files \in FilesOf(Bodies)
    BY <1>1 DEF FilesOf
  <2>3. today \in Days /\ revisions \in Seq(Row \cup {Hole}) /\ logDay \in Seq(0..MaxDay)
    BY <1>1, StorageAssumption DEF Days
  <2>4. Len(revisions) = 0 /\ Len(logDay) = 0 /\ Len(revisions) <= MaxRows /\ todo \in Seq(1..MaxRows)
    BY <1>1, StorageAssumption
  <2> QED
    BY <1>1, <2>1, <2>2, <2>3, <2>4 DEF VarsOK
<1>5. RowsOk(revisions) /\ DaysOk(revisions, logDay, today)
  <2>1. Len(revisions) = 0
    BY <1>1
  <2> QED
    BY <1>1, <2>1 DEF RowsOk, DaysOk
<1>6. \A d \in Days : Len(files[d]) = 0
  BY <1>1
<1>7. FilesOk(revisions, logDay, inited, files) /\ TodoOk(revisions, logDay, files, todo)
  BY <1>1, <1>6, NothingToDo DEF FilesOk
<1>8. ShardsOk(revisions, shards)
  <2>1. \A m \in Modules : DOMAIN shards[m].shows = {}
    BY <1>1 DEF NoFile
  <2> QED
    BY <2>1 DEF ShardsOk
<1>9. Chained(files)
  <2>1. \A x : x \notin LinesIn(files)
    BY <1>4, <1>6, LinesAre, VarTypes
  <2> QED
    BY <2>1 DEF Chained
<1>10. CleanOk
  <2>1. \A m \in Modules : shards[m] = NoFile /\ NoFile.ver = 0
    BY <1>1 DEF NoFile
  <2>2. Len(revisions) = 0
    BY <1>1
  <2> QED
    BY <2>1, <2>2 DEF CleanOk, Exists
<1> QED
  BY <1>4, <1>5, <1>7, <1>8, <1>9, <1>10 DEF StorageInv

LEMMA InvNext == StorageInv /\ [Next]_vars => StorageInv'
<1> SUFFICES ASSUME StorageInv, [Next]_vars PROVE StorageInv'
  OBVIOUS
<1>1. ASSUME NEW s \in Slots, Revert(s) PROVE StorageInv'
  BY <1>1, RevertKeeps
<1>2. ASSUME NEW s \in Slots, NEW v \in Values, SetName(s, v) PROVE StorageInv'
  BY <1>2, SetNameKeeps
<1>3. CASE ExportShard
  BY <1>3, ExportShardKeeps
<1>4. CASE AppendEntry
  BY <1>4, AppendEntryKeeps
<1>5. CASE ExportProject
  BY <1>5, ExportProjectKeeps
<1>6. CASE Crash
  BY <1>6, CrashKeeps
<1>7. CASE Restart
  BY <1>7, RestartKeeps DEF Restart
<1>8. ASSUME NEW d \in 0..(MaxDay - 1), DieExporting(d) PROVE StorageInv'
  BY <1>8, DieExportingKeeps
<1>9. ASSUME NEW m \in Modules, RestoreShard(m) PROVE StorageInv'
  BY <1>9, RestoreShardKeeps
<1>10. ASSUME NEW m \in Modules, NEW s \in Slots, HandEdit(m, s) PROVE StorageInv'
  BY <1>10, HandEditKeeps
<1>11. ASSUME NEW m \in Modules, NEW force \in BOOLEAN, NEW n \in 0..Cardinality(Slots),
              Adopt(m, force, n)
       PROVE  StorageInv'
  BY <1>11, AdoptKeeps
<1>12. CASE RebuildProject
  BY <1>12, RebuildProjectKeeps
<1>13. CASE NextDay
  BY <1>13, NextDayKeeps
<1>14. CASE UNCHANGED vars
  BY <1>14, RestartKeeps DEF vars
<1> QED
  BY <1>1, <1>2, <1>3, <1>4, <1>5, <1>6, <1>7, <1>8, <1>9, <1>10, <1>11, <1>12, <1>13, <1>14 DEF Next

LEMMA InvAlways == Spec => []StorageInv
BY InvInit, InvNext, PTL DEF Spec

\* Every column of the tables, every shard and what a verb has left to export
\* stay well formed.
THEOREM StorageTypes == Spec => []TypeOK
<1>1. StorageInv => TypeOK
  <2> SUFFICES ASSUME StorageInv PROVE TypeOK
    OBVIOUS
  <2>1. \A r \in DOMAIN revisions : revisions[r] = Hole \/ revisions[r] \in Row
    BY InvParts, VarTypes, RowTypes
  <2>2. \A m \in Modules : shards[m].shows \in Content /\ shards[m].ver \in 0..MaxRows
    BY InvParts DEF VarsOK, Shard
  <2> QED
    BY <2>1, <2>2, InvParts, VarTypes DEF TypeOK, VarsOK
<1> QED
  BY <1>1, InvAlways, PTL

\* No write is logged twice or on another day than its own, whatever crashes,
\* bulk exports and rebuilds come between its commit and its entry.
THEOREM WritesAreLoggedOnce == Spec => []LoggedOnce
<1>1. StorageInv => LoggedOnce
  BY ReplayedAre, ReplayedOrder DEF LoggedOnce
<1> QED
  BY <1>1, InvAlways, PTL

\* The day files chain from genesis to the tip, unless a bulk export died
\* between two of them.
THEOREM ChainHolds == Spec => []ChainContinuous
<1>1. StorageInv => ChainContinuous
  BY InvParts DEF ChainContinuous
<1> QED
  BY <1>1, InvAlways, PTL

\* A shard that is neither edited nor behind shows what the database shows.
THEOREM CleanMeansCurrent == Spec => []CleanAgrees
<1>1. StorageInv => CleanAgrees
  <2> SUFFICES ASSUME StorageInv, ~lost,
                      NEW m \in Modules, Exists(m), Status(m) = "clean",
                      NEW s \in Slots, ShardOf[s] = m
               PROVE  Visible(revisions, s) =
                        IF s \in DOMAIN shards[m].shows THEN shards[m].shows[s].val ELSE NoValue
    BY DEF CleanAgrees
  <2>1. shards[m].shows = shards[m].lock /\ ~(shards[m].ver < DbVersion)
    BY DEF Status
  <2>2. shards[m].ver >= DbVersion
    <3>1. shards[m] \in Shard
      BY InvParts DEF VarsOK
    <3>2. shards[m].ver \in Nat /\ DbVersion \in Nat
      BY <3>1, InvParts, VersionIs, StorageAssumption DEF Shard
    <3> QED
      BY <2>1, <3>2
  <2>3. shards[m].shows = Written(m).shows
    BY <2>1, <2>2, InvParts DEF CleanOk
  <2>4. CASE s \in ActiveOf(m)
    BY <2>3, <2>4, InvParts, WrittenIs
  <2>5. CASE s \notin ActiveOf(m)
    <3>1. ActivePayload(revisions, s) \notin ContentOf(revisions, s)
      BY <2>5 DEF ActiveOf
    <3>2. Visible(revisions, s) = NoValue
      BY <3>1, InvParts, VarTypes, ShownIfContent
    <3> QED
      BY <2>3, <2>5, <3>2, InvParts, WrittenIs
  <2> QED
    BY <2>4, <2>5
<1> QED
  BY <1>1, InvAlways, PTL

\* A database lost while the files miss no write is accepted again, and shows
\* in every slot what it showed.
THEOREM RebuildIsFaithful == Spec => []RebuildRestores
<1>1. StorageInv => RebuildRestores
  <2> SUFFICES ASSUME StorageInv, todo = <<>>, Gaps = {}
               PROVE  /\ RebuildAccepts
                      /\ \A s \in Slots : Visible(Rebuilt, s) = Visible(revisions, s)
    BY DEF RebuildRestores
  <2>1. Alike(revisions, Rebuilt) /\ RebuildAccepts
    BY Lossless
  <2> QED
    BY <2>1, RebuiltIs, InvParts, VarTypes, AlikeShowTheSame
<1> QED
  BY <1>1, InvAlways, PTL
=============================================================================
