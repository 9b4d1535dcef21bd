--------------------------- MODULE PresenceProofs ---------------------------
(***************************************************************************)
(* For any servers, browsers, targets, loops and TTL: sessions and claims  *)
(* stay well formed; and with one server up at a time, through late        *)
(* intervals, stops, deaths and restarts, a closed session holds nothing   *)
(* and the sweep closes only what has aged out.  What makes these          *)
(* inductive is the list of statements a method has still to make: each    *)
(* rests on a row that an earlier one read.                                *)
(***************************************************************************)
EXTENDS Presence, TLAPS, SequenceTheorems, FiniteSetTheorems

Claiming == {"claim: session", "claim: row", "upsert"}
Closing == {"close", "select claims", "mark closed"}
Does == Claiming \cup Closing
          \cup {"release", "delete", "heartbeat", "select expired", "select stale"}
Statements == [do : Does, session : Sessions, target : Targets \cup {NoTarget}]

Typed ==
  /\ TypeOK
  /\ todo \in [Servers -> Seq(Statements)]
-----------------------------------------------------------------------------
\* SetToSeq lists the members of a finite set.
LEMMA SetListed ==
  ASSUME NEW T, NEW S \in SUBSET T, IsFiniteSet(S)
  PROVE  /\ SetToSeq(S) \in Seq(T)
         /\ \A i \in 1..Len(SetToSeq(S)) : SetToSeq(S)[i] \in S
         /\ \A x \in S : \E i \in 1..Len(SetToSeq(S)) : SetToSeq(S)[i] = x
<1> DEFINE n == Cardinality(S)
<1>1. n \in Nat
  BY FS_CardinalityType
<1>2. IsFiniteSet(1..n) /\ Cardinality(1..n) = n
  BY <1>1, FS_Interval
<1>3. PICK g \in Bijection(1..n, S) : TRUE
  BY FS_CardinalityType DEF ExistsBijection
<1>4. g \in [1..n -> S] /\ IsInjective(g)
  BY <1>3 DEF Bijection, Injection, IsInjective
<1>5. SetToSeq(S) \in [1..n -> S] /\ IsInjective(SetToSeq(S))
  BY <1>4 DEF SetToSeq
<1> DEFINE f == SetToSeq(S)
<1> HIDE DEF f, n
<1>6. f \in Injection(1..n, S)
  BY <1>5 DEF Injection, IsInjective, f
<1>7. f \in Surjection(1..n, S)
  BY <1>2, <1>6, FS_Injection DEF n
<1>8. f \in Seq(T) /\ Len(f) = n
  BY <1>1, <1>5 DEF f
<1>9. \A i \in 1..n : f[i] \in S
  BY <1>5 DEF f
<1>10. \A x \in S : \E i \in 1..n : f[i] = x
  BY <1>7 DEF Surjection
<1> QED
  BY <1>8, <1>9, <1>10 DEF f

LEMMA StatementIs ==
  \A do \in Does, s \in Sessions, t \in Targets \cup {NoTarget} :
    /\ Statement(do, s, t) \in Statements
    /\ Statement(do, s, t).do = do
    /\ Statement(do, s, t).session = s
    /\ Statement(do, s, t).target = t
BY DEF Statement, Statements

LEMMA DoNames ==
  /\ Claiming \subseteq Does /\ Closing \subseteq Does
  /\ {"release", "delete", "heartbeat", "select expired", "select stale"} \subseteq Does
BY DEF Does

\* Their deletes, and the closing of stale sessions, as lists of statements.
LEMMA SessionsFinite == IsFiniteSet(Sessions) /\ "nobody" \notin Sessions
BY PresenceAssumption, FS_Union DEF Sessions

LEMMA ClosesListed ==
  ASSUME NEW S \in SUBSET Sessions
  PROVE  /\ Closes(S) \in Seq(Statements)
         /\ \A i \in 1..Len(Closes(S)) :
              \E s \in S : Closes(S)[i] = Statement("close", s, NoTarget)
<1> DEFINE C == {Statement("close", s, NoTarget) : s \in S}
           f == [s \in S |-> Statement("close", s, NoTarget)]
<1>1. IsFiniteSet(S)
  BY SessionsFinite, FS_Subset
<1>2. f \in Surjection(S, C)
  BY DEF Surjection
<1>3. IsFiniteSet(C)
  BY <1>1, <1>2, FS_Surjection
<1>4. C \subseteq Statements
  <2>1. "close" \in Does /\ NoTarget \in Targets \cup {NoTarget}
    BY DoNames DEF Closing
  <2>2. \A s \in S : Statement("close", s, NoTarget) \in Statements
    BY <2>1, StatementIs
  <2> QED
    BY <2>2
<1>5. Closes(S) = SetToSeq(C)
  BY DEF Closes
<1>6. \A x \in C : \E s \in S : x = Statement("close", s, NoTarget)
  OBVIOUS
<1> HIDE DEF C, f
<1> QED
  BY <1>3, <1>4, <1>5, <1>6, SetListed

LEMMA DeletesListed ==
  ASSUME Typed, NEW S \in SUBSET Targets, \A t \in S : claims[t].session \in Sessions
  PROVE  /\ Deletes(S) \in Seq(Statements)
         /\ \A i \in 1..Len(Deletes(S)) :
              \E t \in S : Deletes(S)[i] = Statement("delete", claims[t].session, t)
         /\ \A t \in S : \E i \in 1..Len(Deletes(S)) :
              Deletes(S)[i] = Statement("delete", claims[t].session, t)
<1> DEFINE D == {Statement("delete", claims[t].session, t) : t \in S}
           f == [t \in S |-> Statement("delete", claims[t].session, t)]
<1>1. IsFiniteSet(S)
  BY PresenceAssumption, FS_Subset
<1>2. f \in Surjection(S, D)
  BY DEF Surjection
<1>3. IsFiniteSet(D)
  BY <1>1, <1>2, FS_Surjection
<1>4. D \subseteq Statements
  <2>1. "delete" \in Does /\ \A t \in S : t \in Targets \cup {NoTarget}
    BY DoNames
  <2>2. \A t \in S : Statement("delete", claims[t].session, t) \in Statements
    BY <2>1, StatementIs
  <2> QED
    BY <2>2
<1>5. Deletes(S) = SetToSeq(D)
  BY DEF Deletes
<1>6. \A x \in D : \E t \in S : x = Statement("delete", claims[t].session, t)
  OBVIOUS
<1>7. \A t \in S : Statement("delete", claims[t].session, t) \in D
  OBVIOUS
<1> HIDE DEF D, f
<1> QED
  BY <1>3, <1>4, <1>5, <1>6, <1>7, SetListed

\* A statement is made and others come before the ones that remain.
LEMMA ThenListed ==
  ASSUME Typed, NEW p \in Servers, todo[p] # <<>>, NEW list \in Seq(Statements), Then(p, list)
  PROVE  /\ todo' \in [Servers -> Seq(Statements)]
         /\ Len(todo'[p]) = Len(list) + Len(todo[p]) - 1
         /\ \A i \in 1..Len(todo'[p]) :
              todo'[p][i] = IF i <= Len(list) THEN list[i] ELSE todo[p][i - Len(list) + 1]
         /\ \A q \in Servers : q # p => todo'[q] = todo[q]
<1>1. todo[p] \in Seq(Statements) /\ Len(todo[p]) \in Nat \ {0} /\ Len(list) \in Nat
  BY EmptySeq DEF Typed
<1>2. /\ Tail(todo[p]) \in Seq(Statements) /\ Len(Tail(todo[p])) = Len(todo[p]) - 1
      /\ \A i \in 1..Len(Tail(todo[p])) : Tail(todo[p])[i] = todo[p][i + 1]
  BY <1>1, HeadTailProperties
<1> DEFINE rest == Tail(todo[p])
<1>3. /\ list \o rest \in Seq(Statements) /\ Len(list \o rest) = Len(list) + Len(rest)
      /\ \A i \in 1..(Len(list) + Len(rest)) :
           (list \o rest)[i] = IF i <= Len(list) THEN list[i] ELSE rest[i - Len(list)]
  BY <1>2, ConcatProperties
<1>4. todo' = [todo EXCEPT ![p] = list \o rest]
  BY DEF Then
<1> HIDE DEF rest
<1>5. todo'[p] = list \o rest /\ \A q \in Servers : q # p => todo'[q] = todo[q]
  BY <1>4 DEF Typed
<1>6. todo' \in [Servers -> Seq(Statements)]
  BY <1>3, <1>4 DEF Typed
<1>7. ASSUME NEW i \in 1..Len(todo'[p])
      PROVE  todo'[p][i] = IF i <= Len(list) THEN list[i] ELSE todo[p][i - Len(list) + 1]
  <2>1. CASE i <= Len(list)
    BY <1>3, <1>5, <2>1
  <2>2. CASE i > Len(list)
    <3>1. i - Len(list) \in 1..Len(rest)
      BY <1>1, <1>2, <1>3, <1>5, <2>2 DEF rest
    <3>2. rest[i - Len(list)] = todo[p][i - Len(list) + 1]
      BY <1>2, <3>1 DEF rest
    <3> QED
      BY <1>1, <1>3, <1>5, <2>2, <3>2
  <2> QED
    BY <1>1, <2>1, <2>2
<1> QED
  BY <1>1, <1>2, <1>3, <1>5, <1>6, <1>7 DEF rest

\* The statement at hand, and what may follow it.
LEMMA HeadIs ==
  ASSUME Typed, NEW p \in Servers, todo[p] # <<>>
  PROVE  /\ Len(todo[p]) \in Nat \ {0}
         /\ Head(todo[p]) = todo[p][1] /\ Head(todo[p]) \in Statements
         /\ \A do \in Does : LET x == [Head(todo[p]) EXCEPT !.do = do]
                             IN  /\ x \in Statements /\ x.do = do
                                 /\ x.session = Head(todo[p]).session
                                 /\ x.target = Head(todo[p]).target
<1>1. todo[p] \in Seq(Statements) /\ Len(todo[p]) \in Nat \ {0}
  BY EmptySeq DEF Typed
<1>2. Head(todo[p]) = todo[p][1] /\ todo[p][1] \in Statements
  BY <1>1, ElementOfSeq
<1> QED
  BY <1>1, <1>2 DEF Statements

LEMMA Short == \A x \in Statements : /\ <<x>> \in Seq(Statements) /\ Len(<<x>>) = 1 /\ <<x>>[1] = x
OBVIOUS

LEMMA EmptyList == <<>> \in Seq(Statements) /\ Len(<<>>) = 0
OBVIOUS
-----------------------------------------------------------------------------
\* What a statement puts before the rest is one or none, but for the selects.
\* In the second and third, x is the statement made.
Lists(p, list) == list \in Seq(Statements) /\ todo[p] # <<>> /\ Then(p, list)

LEMMA ThenIfLists ==
  ASSUME Typed, NEW p \in Servers, todo[p] # <<>>, NEW condition, NEW do \in Does,
         ThenIf(p, condition, [Head(todo[p]) EXCEPT !.do = do])
  PROVE  \/ ~condition /\ Lists(p, <<>>)
         \/ condition /\ Lists(p, <<[Head(todo[p]) EXCEPT !.do = do]>>)
BY HeadIs, Short, EmptyList DEF ThenIf, Lists

LEMMA RunLists ==
  ASSUME Typed, NEW p \in Servers, RunStatement(p)
  PROVE  \E list \in Seq(Statements) : Lists(p, list)
<1> DEFINE x == Head(todo[p])
<1>1. todo[p] # <<>>
  BY DEF RunStatement, ClaimReadsSession, ClaimReadsRow, Upsert, ReleaseReads, Delete, Heartbeat,
         SelectExpired, SelectStale, SelectOlderThan, CloseReads, SelectClaims, MarkClosed, Now
<1>2. ASSUME NEW condition, NEW do \in Does, ThenIf(p, condition, [x EXCEPT !.do = do])
      PROVE  \E list \in Seq(Statements) : Lists(p, list)
  BY <1>1, <1>2, ThenIfLists DEF Lists
<1>3. CASE ClaimReadsSession(p) \/ ClaimReadsRow(p) \/ ReleaseReads(p) \/ CloseReads(p)
  <2>1. {"claim: row", "upsert", "delete", "select claims"} \subseteq Does
    BY DoNames DEF Claiming, Closing
  <2>2. CASE ClaimReadsSession(p)
    BY <1>2, <2>1, <2>2 DEF ClaimReadsSession
  <2>3. CASE ClaimReadsRow(p)
    BY <1>2, <2>1, <2>3 DEF ClaimReadsRow
  <2>4. CASE ReleaseReads(p)
    BY <1>2, <2>1, <2>4 DEF ReleaseReads
  <2>5. CASE CloseReads(p)
    BY <1>2, <2>1, <2>5 DEF CloseReads
  <2> QED
    BY <1>3, <2>2, <2>3, <2>4, <2>5
<1>4. CASE Upsert(p) \/ Delete(p) \/ Heartbeat(p) \/ MarkClosed(p)
  <2>1. Then(p, <<>>)
    BY <1>4 DEF Upsert, Delete, Heartbeat, MarkClosed
  <2> QED
    BY <1>1, <2>1, EmptyList DEF Lists
<1>5. CASE SelectExpired(p)
  <2> DEFINE S == {t \in Targets : claims[t] # NoClaim /\ claims[t].left = 0}
  <2>1. \A t \in S : claims[t].session \in Sessions
    BY DEF Typed, TypeOK
  <2>2. Deletes(S) \in Seq(Statements)
    BY <2>1, DeletesListed
  <2> QED
    BY <1>1, <1>5, <2>2 DEF SelectExpired, Lists
<1>6. CASE SelectStale(p)
  <2> DEFINE S == {s \in Sessions : Open(s) /\ sessions[s].age > TTL}
  <2>1. Closes(S) \in Seq(Statements)
    BY ClosesListed
  <2> QED
    BY <1>1, <1>6, <2>1 DEF SelectStale, SelectOlderThan, Lists
<1>7. CASE SelectClaims(p)
  <2> DEFINE S == {t \in Targets : Holds(x.session, t)}
             last == [x EXCEPT !.do = "mark closed"]
  <2>1. x \in Statements /\ last \in Statements
    BY <1>1, HeadIs, DoNames DEF Closing
  <2>2. x.session \in Sessions
    BY <2>1 DEF Statements
  <2>3. Deletes(S) \in Seq(Statements)
    BY <2>2, DeletesListed DEF Holds
  <2>4. <<last>> \in Seq(Statements)
    BY <2>1, Short
  <2>5. Deletes(S) \o <<last>> \in Seq(Statements)
    BY <2>3, <2>4, ConcatProperties
  <2>6. Then(p, Deletes(S) \o <<last>>)
    BY <1>7 DEF SelectClaims
  <2> QED
    BY <1>1, <2>5, <2>6 DEF Lists
<1> QED
  BY <1>3, <1>4, <1>5, <1>6, <1>7 DEF RunStatement
-----------------------------------------------------------------------------
(* Types, for any number of servers up at once.                             *)
Session == [state : {"none", "open", "closed"}, age : 0..(TTL + 1)]
Claim == [session : Sessions, left : 0..TTL] \cup {NoClaim}

LEMMA Ages == 0 \in 0..(TTL + 1) /\ TTL \in 0..TTL /\ 0 \in 0..TTL
BY PresenceAssumption

LEMMA BeatenTyped == ASSUME Typed, NEW s \in Sessions PROVE Beaten(s) \in [Sessions -> Session]
<1>1. sessions \in [Sessions -> Session]
  BY DEF Typed, TypeOK, Session
<1> QED
  BY <1>1, Ages DEF Beaten, Session, Open

LEMMA RunTyped == ASSUME Typed, NEW p \in Servers, RunStatement(p) PROVE Typed'
<1> DEFINE x == Head(todo[p])
<1>1. todo' \in [Servers -> Seq(Statements)] /\ x \in Statements
  BY RunLists, ThenListed, HeadIs DEF Lists
<1>2. x.session \in Sessions /\ p \in Sessions
  BY <1>1 DEF Statements, Sessions
<1>3. UNCHANGED <<up, due, work>>
  BY DEF RunStatement, ClaimReadsSession, ClaimReadsRow, Upsert, ReleaseReads, Delete, Heartbeat,
         SelectExpired, SelectStale, SelectOlderThan, CloseReads, SelectClaims, MarkClosed
<1>4. sessions \in [Sessions -> Session] /\ claims \in [Targets -> Claim]
  BY DEF Typed, TypeOK, Session, Claim
<1>5. sessions' \in [Sessions -> Session] /\ claims' \in [Targets -> Claim]
  <2>1. CASE Upsert(p)
    <3>1. ClaimOf(x.session) \in Claim
      BY <1>2, Ages DEF ClaimOf, Claim
    <3>2. UNCHANGED sessions /\ claims' = [claims EXCEPT ![x.target] = ClaimOf(x.session)]
      BY <2>1 DEF Upsert
    <3> HIDE DEF x
    <3> QED
      BY <1>4, <3>1, <3>2
  <2>2. CASE Delete(p)
    BY <1>4, <2>2 DEF Delete, Claim
  <2>3. CASE Heartbeat(p)
    BY <1>2, <1>4, <2>3, BeatenTyped DEF Heartbeat
  <2>4. CASE MarkClosed(p)
    <3>1. [state |-> "closed", age |-> 0] \in Session
      BY Ages DEF Session
    <3> QED
      BY <1>4, <2>4, <3>1 DEF MarkClosed
  <2>5. CASE UNCHANGED tables
    BY <1>4, <2>5 DEF tables
  <2> QED
    BY <2>1, <2>2, <2>3, <2>4, <2>5
       DEF RunStatement, ClaimReadsSession, ClaimReadsRow, ReleaseReads, SelectExpired,
           SelectStale, SelectOlderThan, CloseReads, SelectClaims
<1> QED
  BY <1>1, <1>3, <1>5 DEF Typed, TypeOK, Session, Claim

\* The statements a handler begins with.
LEMMA CallTyped ==
  ASSUME Typed, NEW p \in Servers, NEW list \in Seq(Statements), Calls(p, list)
  PROVE  /\ todo' \in [Servers -> Seq(Statements)]
         /\ todo'[p] = list /\ \A q \in Servers : q # p => todo'[q] = todo[q]
BY DEF Calls, Typed

LEMMA Two ==
  ASSUME NEW x \in Statements, NEW y \in Statements
  PROVE  /\ <<x, y>> \in Seq(Statements) /\ Len(<<x, y>>) = 2
         /\ <<x, y>>[1] = x /\ <<x, y>>[2] = y
OBVIOUS

LEMMA Three ==
  ASSUME NEW x \in Statements, NEW y \in Statements, NEW z \in Statements
  PROVE  LET list == <<x>> \o <<y, z>>
         IN  /\ list \in Seq(Statements) /\ Len(list) = 3
             /\ list[1] = x /\ list[2] = y /\ list[3] = z
<1> DEFINE list == <<x>> \o <<y, z>>
<1>1. <<x>> \in Seq(Statements) /\ <<y, z>> \in Seq(Statements) /\ Len(<<x>>) = 1 /\ Len(<<y, z>>) = 2
  BY Short, Two
<1>2. /\ list \in Seq(Statements) /\ Len(list) = 3
      /\ \A i \in 1..3 : list[i] = IF i <= 1 THEN <<x>>[i] ELSE <<y, z>>[i - 1]
  BY <1>1, ConcatProperties
<1> HIDE DEF list
<1>3. list[1] = x /\ list[2] = y /\ list[3] = z
  BY <1>2
<1> QED
  BY <1>2, <1>3 DEF list

LEMMA SweepListed ==
  ASSUME NEW p \in Servers
  PROVE  LET beat == <<Statement("heartbeat", p, NoTarget)>>
         IN  /\ Sweep(p) \in Seq(Statements) /\ Len(Sweep(p)) = 2
             /\ Sweep(p)[1].do = "select expired" /\ Sweep(p)[2].do = "select stale"
             /\ beat \o Sweep(p) \in Seq(Statements) /\ Len(beat \o Sweep(p)) = 3
             /\ (beat \o Sweep(p))[1].do = "heartbeat"
             /\ (beat \o Sweep(p))[2].do = "select expired"
             /\ (beat \o Sweep(p))[3].do = "select stale"
<1>1. p \in Sessions /\ NoTarget \in Targets \cup {NoTarget}
  BY DEF Sessions
<1>2. "select expired" \in Does /\ "select stale" \in Does /\ "heartbeat" \in Does
  BY DoNames
<1>3. PICK x \in Statements : x = Statement("heartbeat", p, NoTarget) /\ x.do = "heartbeat"
  <2>1. Statement("heartbeat", p, NoTarget) \in Statements
    BY <1>1, <1>2 DEF Statement, Statements
  <2>2. Statement("heartbeat", p, NoTarget).do = "heartbeat"
    BY DEF Statement
  <2> QED
    BY <2>1, <2>2
<1>4. PICK y \in Statements : y = Statement("select expired", p, NoTarget) /\ y.do = "select expired"
  <2>1. Statement("select expired", p, NoTarget) \in Statements
    BY <1>1, <1>2 DEF Statement, Statements
  <2>2. Statement("select expired", p, NoTarget).do = "select expired"
    BY DEF Statement
  <2> QED
    BY <2>1, <2>2
<1>5. PICK z \in Statements : z = Statement("select stale", p, NoTarget) /\ z.do = "select stale"
  <2>1. Statement("select stale", p, NoTarget) \in Statements
    BY <1>1, <1>2 DEF Statement, Statements
  <2>2. Statement("select stale", p, NoTarget).do = "select stale"
    BY DEF Statement
  <2> QED
    BY <2>1, <2>2
<1>6. Sweep(p) = <<y, z>>
  BY <1>4, <1>5 DEF Sweep
<1>7. /\ <<y, z>> \in Seq(Statements) /\ Len(<<y, z>>) = 2
      /\ <<y, z>>[1] = y /\ <<y, z>>[2] = z
  BY Two
<1>8. /\ Sweep(p) \in Seq(Statements) /\ Len(Sweep(p)) = 2
      /\ Sweep(p)[1].do = "select expired" /\ Sweep(p)[2].do = "select stale"
  BY <1>4, <1>5, <1>6, <1>7
<1>9. <<Statement("heartbeat", p, NoTarget)>> \o Sweep(p) = <<x>> \o <<y, z>>
  BY <1>3, <1>6
<1>10. LET list == <<x>> \o <<y, z>>
       IN  /\ list \in Seq(Statements) /\ Len(list) = 3
           /\ list[1] = x /\ list[2] = y /\ list[3] = z
  BY Three
<1> QED
  BY <1>3, <1>4, <1>5, <1>8, <1>9, <1>10

LEMMA StepTyped == Typed /\ [Next]_vars => Typed'
<1> SUFFICES ASSUME Typed, [Next]_vars PROVE Typed'
  OBVIOUS
<1>1. /\ sessions \in [Sessions -> Session] /\ claims \in [Targets -> Claim]
      /\ up \in [Servers -> {"new", "up", "stopping", "down"}] /\ due \in [Servers -> BOOLEAN]
      /\ work \in [Loops -> Targets \cup {NoTarget}] /\ todo \in [Servers -> Seq(Statements)]
  BY DEF Typed, TypeOK, Session, Claim
<1>2. Typed' <=>
        /\ sessions' \in [Sessions -> Session] /\ claims' \in [Targets -> Claim]
        /\ up' \in [Servers -> {"new", "up", "stopping", "down"}] /\ due' \in [Servers -> BOOLEAN]
        /\ work' \in [Loops -> Targets \cup {NoTarget}] /\ todo' \in [Servers -> Seq(Statements)]
  BY DEF Typed, TypeOK, Session, Claim
<1>3. Opened \in Session
  BY Ages DEF Opened, Session
<1>4. CASE Advance
  <2>1. sessions' \in [Sessions -> Session]
    <3>1. \A s \in Sessions : sessions[s].age \in 0..(TTL + 1)
      BY <1>1 DEF Session
    <3>2. \A s \in Sessions :
            (IF Open(s) /\ sessions[s].age <= TTL THEN sessions[s].age + 1 ELSE sessions[s].age)
              \in 0..(TTL + 1)
      BY <3>1, PresenceAssumption
    <3>3. \A s \in Sessions :
            [sessions[s] EXCEPT !.age = IF Open(s) /\ @ <= TTL THEN @ + 1 ELSE @] \in Session
      BY <1>1, <3>2 DEF Session
    <3> QED
      BY <1>4, <3>3 DEF Advance
  <2>2. claims' \in [Targets -> Claim]
    <3>1. \A t \in Targets : [claims[t] EXCEPT !.left = IF @ > 0 THEN @ - 1 ELSE 0] \in Claim
      <4> TAKE t \in Targets
      <4>1. CASE claims[t] = NoClaim
        BY <4>1 DEF NoClaim, Claim
      <4>2. CASE claims[t] \in [session : Sessions, left : 0..TTL]
        <5>1. (IF claims[t].left > 0 THEN claims[t].left - 1 ELSE 0) \in 0..TTL
          BY <4>2, PresenceAssumption
        <5> QED
          BY <4>2, <5>1 DEF Claim
      <4> QED
        BY <1>1, <4>1, <4>2 DEF Claim
    <3> QED
      BY <1>4, <3>1 DEF Advance
  <2>3. due' \in [Servers -> BOOLEAN] /\ UNCHANGED <<up, todo, work>>
    BY <1>4 DEF Advance
  <2> QED
    BY <1>1, <1>2, <2>1, <2>2, <2>3
<1>5. ASSUME NEW p \in Servers, RunStatement(p) PROVE Typed'
  BY <1>5, RunTyped
<1>6. ASSUME NEW p \in Servers, Start(p) PROVE Typed'
  BY <1>1, <1>2, <1>3, <1>6 DEF Start
<1>7. ASSUME NEW p \in Servers, Interval(p) \/ GetSessions(p) PROVE Typed'
  <2>1. todo' \in [Servers -> Seq(Statements)]
    BY <1>7, SweepListed, CallTyped DEF Interval, GetSessions
  <2>2. UNCHANGED <<sessions, claims, up, work>> /\ due' \in [Servers -> BOOLEAN]
    BY <1>1, <1>7 DEF Interval, GetSessions, tables
  <2> QED
    BY <1>1, <1>2, <2>1, <2>2
<1>8. ASSUME NEW p \in Servers, NEW do \in Does, NEW t \in Targets \cup {NoTarget}
      PROVE  <<Statement(do, p, t)>> \in Seq(Statements)
  BY StatementIs, Short DEF Sessions
<1>9. ASSUME NEW p \in Servers, Stop(p) PROVE Typed'
  <2>1. todo' \in [Servers -> Seq(Statements)]
    BY <1>8, <1>9, DoNames, CallTyped DEF Stop, Closing
  <2>2. UNCHANGED <<sessions, claims, due, work>>
        /\ up' \in [Servers -> {"new", "up", "stopping", "down"}]
    BY <1>1, <1>9 DEF Stop, tables
  <2> QED
    BY <1>1, <1>2, <2>1, <2>2
<1>10. ASSUME NEW p \in Servers, Die(p) PROVE Typed'
  <2>1. /\ up' \in [Servers -> {"new", "up", "stopping", "down"}]
        /\ todo' \in [Servers -> Seq(Statements)]
        /\ work' \in [Loops -> Targets \cup {NoTarget}]
    BY <1>1, <1>10, EmptyList DEF Die
  <2> QED
    BY <1>1, <1>2, <1>10, <2>1 DEF Die, tables
<1>11. ASSUME NEW p \in Servers, NEW h \in Humans, PostSession(p, h) \/ PostHeartbeat(p, h)
       PROVE  Typed'
  <2>1. h \in Sessions
    BY DEF Sessions
  <2>2. sessions' \in [Sessions -> Session]
    BY <1>1, <1>3, <1>11, <2>1, BeatenTyped DEF PostSession, PostHeartbeat
  <2> QED
    BY <1>1, <1>2, <1>11, <2>2 DEF PostSession, PostHeartbeat
<1>12. ASSUME NEW w \in Loops, EndJob(w) PROVE Typed'
  <2>1. Server(w) \in Servers
    BY DEF Server, Loops
  <2>2. todo' \in [Servers -> Seq(Statements)]
    BY <1>1, <1>8, <1>12, <2>1, DoNames, CallTyped DEF EndJob
  <2> QED
    BY <1>1, <1>2, <1>12, <2>2 DEF EndJob, tables
<1>13. ASSUME NEW w \in Loops, NEW t \in Targets, StartJob(w, t) PROVE Typed'
  <2>1. Server(w) \in Servers
    BY DEF Server, Loops
  <2>2. "claim: session" \in Does
    BY DEF Does, Claiming
  <2>3. todo' \in [Servers -> Seq(Statements)]
    BY <1>8, <1>13, <2>1, <2>2, CallTyped DEF StartJob
  <2> QED
    BY <1>1, <1>2, <1>13, <2>3 DEF StartJob, tables
<1>14. CASE UNCHANGED vars
  BY <1>1, <1>2, <1>14 DEF vars, tables
<1> QED
  BY <1>4, <1>5, <1>6, <1>7, <1>9, <1>10, <1>11, <1>12, <1>13, <1>14 DEF Next

LEMMA InitTyped == Init => Typed
<1> SUFFICES ASSUME Init PROVE Typed
  OBVIOUS
<1>1. sessions \in [Sessions -> Session] /\ claims \in [Targets -> Claim]
  BY Ages DEF Init, Session, Claim
<1>2. todo \in [Servers -> Seq(Statements)]
  BY EmptyList DEF Init
<1> QED
  BY <1>1, <1>2 DEF Init, Typed, TypeOK, Session, Claim

LEMMA AlwaysTyped == Spec => []Typed
BY InitTyped, StepTyped, PTL DEF Spec

\* Sessions, claims, intervals and jobs stay well formed; an age and what is
\* left of a claim stay within the TTL.
THEOREM TypeCorrect == Spec => []TypeOK
<1>1. Typed => TypeOK
  BY DEF Typed
<1> QED
  BY <1>1, AlwaysTyped, PTL
-----------------------------------------------------------------------------
(* One server up at a time.                                                 *)
OneUp == MaxUp = 1

Ups == {"up", "stopping"}

Alone ==
  /\ \A p, q \in Servers : up[p] \in Ups /\ up[q] \in Ups => p = q
  /\ \A p \in Servers : todo[p] # <<>> => up[p] \in Ups

\* What a statement rests on: a claim is written for a session read as open,
\* and what closes a session found it aged out, or is its server's stop.
Rests(p, x, ss, us) ==
  /\ x.do \in {"claim: row", "upsert"} => ss[x.session].state = "open"
  /\ x.do \in Closing =>
       \/ ss[x.session].state = "closed" \/ ss[x.session].age > TTL
       \/ x.session = p /\ us[p] = "stopping"

\* A claim is alone in its method, a heartbeat comes first and before any
\* closing, and a session is marked closed after its claims are deleted.
Placed(list, i, cs) ==
  /\ list[i].do \in Claiming => Len(list) = 1
  /\ list[i].do = "heartbeat" => i = 1 /\ \A k \in 1..Len(list) : list[k].do \notin Closing
  /\ list[i].do = "mark closed" =>
       \A t \in Targets : cs[t].session = list[i].session =>
         \E k \in 1..(i - 1) : list[k] = Statement("delete", list[i].session, t)

Ordered(p, list, ss, cs, us) ==
  \A i \in 1..Len(list) : Rests(p, list[i], ss, us) /\ Placed(list, i, cs)

\* What a statement may put before the rest of its method.
Follows(p, list) ==
  \A i \in 1..Len(list) :
    list[i].do # "heartbeat" /\ (list[i].do \in Claiming => Len(todo[p]) = 1)

InOrder == \A p \in Servers : Ordered(p, todo[p], sessions, claims, up)

IInv == Typed /\ Alone /\ InOrder /\ ClosedHoldsNothing

LEMMA NoneUp ==
  ASSUME OneUp, NEW p \in Servers, Start(p)
  PROVE  \A q \in Servers : up[q] \notin Ups
<1> DEFINE ups == {q \in Servers : up[q] \in {"up", "stopping"}}
<1>1. Cardinality(ups) < 1
  BY DEF Start, OneUp
<1>2. IsFiniteSet(ups)
  BY PresenceAssumption, FS_Subset
<1>3. Cardinality(ups) \in Nat
  BY <1>2, FS_CardinalityType
<1>4. Cardinality(ups) = 0
  BY <1>1, <1>3
<1>5. ups = {}
  BY <1>2, <1>4, FS_EmptySet
<1> QED
  BY <1>5 DEF Ups

LEMMA AloneStep == ASSUME OneUp, Typed, Alone, [Next]_vars PROVE Alone'
<1>1. ASSUME NEW p \in Servers, up[p] \in Ups, \A q \in Servers : q # p => todo'[q] = todo[q],
             UNCHANGED up
      PROVE  Alone'
  BY <1>1 DEF Alone
<1>2. CASE Advance
  BY <1>2 DEF Advance, Alone
<1>3. ASSUME NEW p \in Servers, RunStatement(p) PROVE Alone'
  <2>1. UNCHANGED up
    BY <1>3 DEF RunStatement, ClaimReadsSession, ClaimReadsRow, Upsert, ReleaseReads, Delete,
       Heartbeat, SelectExpired, SelectStale, SelectOlderThan, CloseReads, SelectClaims, MarkClosed
  <2>2. todo[p] # <<>> /\ \A q \in Servers : q # p => todo'[q] = todo[q]
    BY <1>3, RunLists, ThenListed DEF Lists
  <2> QED
    BY <1>1, <2>1, <2>2 DEF Alone
<1>4. ASSUME NEW p \in Servers, Start(p) PROVE Alone'
  <2>1. UNCHANGED todo /\ up' = [up EXCEPT ![p] = "up"]
    BY <1>4 DEF Start
  <2>2. \A q \in Servers : up[q] \notin Ups
    BY <1>4, NoneUp
  <2>3. \A q \in Servers : q # p => up'[q] = up[q]
    BY <2>1 DEF Typed, TypeOK
  <2> QED
    BY <2>1, <2>2, <2>3 DEF Alone
<1>5. ASSUME NEW p \in Servers, NEW list, Calls(p, list), UNCHANGED up PROVE Alone'
  <2>1. up[p] \in Ups /\ \A q \in Servers : q # p => todo'[q] = todo[q]
    BY <1>5 DEF Calls, Free, Ups, Typed
  <2> QED
    BY <1>1, <1>5, <2>1
<1>6. ASSUME NEW p \in Servers, Interval(p) \/ GetSessions(p) PROVE Alone'
  <2>1. UNCHANGED up /\ \E list : Calls(p, list)
    BY <1>6 DEF Interval, GetSessions
  <2> QED
    BY <1>5, <2>1
<1>7. ASSUME NEW w \in Loops, EndJob(w) \/ \E t \in Targets : StartJob(w, t) PROVE Alone'
  <2>1. UNCHANGED up /\ Server(w) \in Servers /\ \E list : Calls(Server(w), list)
    BY <1>7 DEF EndJob, StartJob, Server, Loops
  <2> QED
    BY <1>5, <2>1
<1>8. ASSUME NEW p \in Servers, Stop(p) PROVE Alone'
  <2>1. /\ up[p] \in Ups /\ up' = [up EXCEPT ![p] = "stopping"]
        /\ \A q \in Servers : q # p => todo'[q] = todo[q]
    BY <1>8 DEF Stop, Calls, Free, Ups, Typed
  <2>2. \A q \in Servers : up'[q] \in Ups => up[q] \in Ups
    BY <2>1 DEF Typed, TypeOK
  <2>3. up'[p] \in Ups
    BY <2>1 DEF Typed, TypeOK, Ups
  <2>4. \A q \in Servers : q # p => up'[q] = up[q]
    BY <2>1 DEF Typed, TypeOK
  <2> QED
    BY <2>1, <2>2, <2>3, <2>4 DEF Alone
<1>9. ASSUME NEW p \in Servers, Die(p) PROVE Alone'
  <2>1. /\ up' = [up EXCEPT ![p] = "down"] /\ todo' = [todo EXCEPT ![p] = <<>>]
    BY <1>9 DEF Die
  <2>2. \A q \in Servers : up'[q] \in Ups => up[q] \in Ups
    BY <2>1 DEF Typed, TypeOK, Ups
  <2>3. \A q \in Servers : todo'[q] # <<>> => q # p /\ todo[q] # <<>> /\ up'[q] = up[q]
    BY <2>1 DEF Typed, TypeOK
  <2> QED
    BY <2>2, <2>3 DEF Alone
<1>10. ASSUME NEW p \in Servers, NEW h \in Humans, PostSession(p, h) \/ PostHeartbeat(p, h)
       PROVE  Alone'
  BY <1>10 DEF PostSession, PostHeartbeat, Alone
<1>11. CASE UNCHANGED vars
  BY <1>11 DEF vars, Alone
<1> QED
  BY <1>2, <1>3, <1>4, <1>6, <1>7, <1>8, <1>9, <1>10, <1>11 DEF Next

\* No method runs elsewhere while one server is up.
LEMMA IdleElsewhere ==
  ASSUME Alone, NEW p \in Servers, up[p] \in Ups
  PROVE  \A q \in Servers : q # p => todo[q] = <<>>
BY DEF Alone

LEMMA EmptyOrdered == \A p, ss, cs, us : Ordered(p, <<>>, ss, cs, us)
BY EmptyList DEF Ordered
-----------------------------------------------------------------------------
\* A handler begins its method.
LEMMA CallInOrder ==
  ASSUME Typed, Alone, NEW p \in Servers, NEW list \in Seq(Statements), Calls(p, list),
         Ordered(p, list, sessions', claims', up')
  PROVE  InOrder'
<1>1. todo'[p] = list /\ \A q \in Servers : q # p => todo'[q] = todo[q]
  BY CallTyped
<1>2. \A q \in Servers : q # p => todo'[q] = <<>>
  BY <1>1, IdleElsewhere DEF Calls, Free, Ups
<1>3. \A q \in Servers : q # p => Ordered(q, todo'[q], sessions', claims', up')
  BY <1>2, EmptyOrdered
<1> QED
  BY <1>1, <1>3 DEF InOrder

\* A statement is made: what comes before the rest is in order, what the rest
\* rests on still holds, and claims disappear only by deletes.
LEMMA ThenInOrder ==
  ASSUME Typed, Alone, InOrder, NEW p \in Servers, NEW list \in Seq(Statements), Lists(p, list),
         Ordered(p, list, sessions', claims', up'),
         Follows(p, list),
         \A i \in 2..Len(todo[p]) :
           Rests(p, todo[p][i], sessions, up) => Rests(p, todo[p][i], sessions', up'),
         \A t \in Targets :
           Len(todo[p]) > 1 /\ claims'[t].session \in Sessions
             => /\ claims[t].session = claims'[t].session
                /\ todo[p][1] # Statement("delete", claims'[t].session, t)
  PROVE  InOrder'
<1>1. PICK old \in Seq(Statements) : old = todo[p]
  BY DEF Typed
<1>2. PICK new \in Seq(Statements) : new = todo'[p]
  BY ThenListed DEF Lists
<1>3. PICK n \in Nat : n = Len(list)
  OBVIOUS
<1>4. PICK m \in Nat \ {0} : m = Len(old)
  BY <1>1, EmptySeq DEF Lists
<1>5. /\ Len(new) = n + m - 1
      /\ \A i \in 1..(n + m - 1) : new[i] = IF i <= n THEN list[i] ELSE old[i - n + 1]
      /\ \A q \in Servers : q # p => todo'[q] = todo[q]
  <2>1. /\ Len(todo'[p]) = Len(list) + Len(todo[p]) - 1
        /\ \A i \in 1..Len(todo'[p]) :
             todo'[p][i] = IF i <= Len(list) THEN list[i] ELSE todo[p][i - Len(list) + 1]
        /\ \A q \in Servers : q # p => todo'[q] = todo[q]
    BY ThenListed DEF Lists
  <2> QED
    BY <1>1, <1>2, <1>3, <1>4, <2>1
<1>6. \A i \in 1..m : Rests(p, old[i], sessions, up) /\ Placed(old, i, claims)
  <2>1. Ordered(p, todo[p], sessions, claims, up)
    BY DEF InOrder
  <2> QED
    BY <1>1, <1>4, <2>1 DEF Ordered
<1>7. \A i \in 1..n : Rests(p, list[i], sessions', up') /\ Placed(list, i, claims')
  BY <1>3 DEF Ordered
<1>8. \A q \in Servers : q # p => Ordered(q, todo'[q], sessions', claims', up')
  <2>1. \A q \in Servers : q # p => todo[q] = <<>>
    BY IdleElsewhere DEF Lists, Alone
  <2>2. \A q \in Servers : q # p => todo'[q] = todo[q]
    BY <1>5
  <2>3. \A q \in Servers : q # p => todo'[q] = <<>>
    BY <2>1, <2>2
  <2> QED
    BY <2>3, EmptyOrdered
<1>9. \A i \in 1..n : list[i].do # "heartbeat" /\ (list[i].do \in Claiming => m = 1)
  <2>1. \A i \in 1..Len(list) :
          list[i].do # "heartbeat" /\ (list[i].do \in Claiming => Len(todo[p]) = 1)
    BY DEF Follows
  <2> QED
    BY <1>1, <1>3, <1>4, <2>1
<1>10. \A i \in 2..m : Rests(p, old[i], sessions', up')
  <2>1. \A i \in 2..m : Rests(p, old[i], sessions, up) => Rests(p, old[i], sessions', up')
    BY <1>1, <1>4
  <2> QED
    BY <1>6, <2>1
<1>11. \A t \in Targets :
         m > 1 /\ claims'[t].session \in Sessions
           => /\ claims[t].session = claims'[t].session
              /\ old[1] # Statement("delete", claims'[t].session, t)
  BY <1>1, <1>4
<1>12. ASSUME NEW i \in 1..(n + m - 1), i <= n
       PROVE  Rests(p, new[i], sessions', up') /\ Placed(new, i, claims')
  <2>1. i \in 1..n /\ new[i] = list[i]
    BY <1>5, <1>12
  <2>2. Placed(list, i, claims')
    BY <1>7, <2>1
  <2>3. new[i].do \in Claiming => Len(new) = 1
    <3>1. list[i].do \in Claiming => n = 1 /\ m = 1
      BY <1>3, <1>9, <2>1, <2>2 DEF Placed
    <3> QED
      BY <1>5, <2>1, <3>1
  <2>4. ASSUME new[i].do = "mark closed", NEW t \in Targets, claims'[t].session = new[i].session
        PROVE  \E k \in 1..(i - 1) : new[k] = Statement("delete", new[i].session, t)
    <3>1. PICK k \in 1..(i - 1) : list[k] = Statement("delete", list[i].session, t)
      BY <2>1, <2>2, <2>4 DEF Placed
    <3>2. k \in 1..(n + m - 1) /\ k <= n
      BY <1>12
    <3>3. new[k] = list[k]
      BY <1>5, <3>2
    <3> QED
      BY <2>1, <3>1, <3>3
  <2> QED
    BY <1>7, <1>9, <2>1, <2>3, <2>4 DEF Placed
<1>13. ASSUME NEW i \in 1..(n + m - 1), i > n
       PROVE  Rests(p, new[i], sessions', up') /\ Placed(new, i, claims')
  <2>1. PICK j \in 2..m : j = i - n + 1
    BY <1>13
  <2>2. new[i] = old[j] /\ old[j] \in Statements /\ m > 1 /\ j \in 1..m
    BY <1>4, <1>5, <1>13, <2>1, ElementOfSeq
  <2>3. Placed(old, j, claims)
    BY <1>6, <2>2
  <2>4. new[i].do \notin Claiming /\ new[i].do # "heartbeat"
    <3>1. j # 1 /\ m # 1
      BY <2>1
    <3>2. (old[j].do \in Claiming => m = 1) /\ (old[j].do = "heartbeat" => j = 1)
      BY <1>4, <2>3 DEF Placed
    <3> QED
      BY <2>2, <3>1, <3>2
  <2>5. ASSUME new[i].do = "mark closed", NEW t \in Targets, claims'[t].session = new[i].session
        PROVE  \E k \in 1..(i - 1) : new[k] = Statement("delete", new[i].session, t)
    <3>1. PICK s \in Sessions : s = old[j].session
      BY <2>2 DEF Statements
    <3>2. claims[t].session = s /\ old[1] # Statement("delete", s, t)
      <4>1. claims'[t].session = s
        BY <2>2, <2>5, <3>1
      <4> QED
        BY <1>11, <2>2, <4>1
    <3>3. PICK k \in 1..(j - 1) : old[k] = Statement("delete", s, t)
      BY <2>2, <2>3, <2>5, <3>1, <3>2 DEF Placed
    <3>4. k # 1
      BY <3>2, <3>3
    <3>5. PICK l \in 1..(i - 1) : l = k + n - 1
      BY <2>1, <3>4
    <3>6. l \in 1..(n + m - 1) /\ ~(l <= n) /\ l - n + 1 = k
      BY <1>13, <2>1, <3>4, <3>5
    <3>7. new[l] = old[l - n + 1]
      BY <1>5, <3>6
    <3> QED
      BY <2>2, <3>1, <3>3, <3>6, <3>7
  <2> QED
    BY <1>10, <2>1, <2>2, <2>4, <2>5 DEF Placed
<1>14. \A i \in 1..Len(new) : Rests(p, new[i], sessions', up') /\ Placed(new, i, claims')
  BY <1>5, <1>12, <1>13
<1>15. Ordered(p, todo'[p], sessions', claims', up')
  BY <1>2, <1>14 DEF Ordered
<1> QED
  BY <1>8, <1>15 DEF InOrder
-----------------------------------------------------------------------------
\* Lists that are in order whatever the tables hold, and lists of one.
LEMMA PlainOrdered ==
  ASSUME NEW p, NEW list,
         \A i \in 1..Len(list) : list[i].do \in {"release", "delete", "select expired", "select stale"}
  PROVE  \A ss, cs, us : Ordered(p, list, ss, cs, us)
BY DEF Ordered, Rests, Placed, Claiming, Closing

LEMMA One == \A i \in 1..1 : i = 1
OBVIOUS

LEMMA OneOrdered ==
  ASSUME NEW p, NEW list, Len(list) = 1, NEW ss, NEW us, Rests(p, list[1], ss, us),
         list[1].do # "heartbeat", list[1].do # "mark closed"
  PROVE  \A cs : Ordered(p, list, ss, cs, us)
<1>1. \A i \in 1..Len(list) : i = 1
  BY One
<1>2. \A cs : Placed(list, 1, cs)
  BY DEF Placed
<1> QED
  BY <1>1, <1>2 DEF Ordered

LEMMA OneFollows ==
  ASSUME NEW p, NEW list, Len(list) = 1, list[1].do # "heartbeat",
         list[1].do \in Claiming => Len(todo[p]) = 1
  PROVE  Follows(p, list)
<1>1. \A i \in 1..Len(list) : i = 1
  BY One
<1> QED
  BY <1>1 DEF Follows

LEMMA EmptyFollows == \A p : Follows(p, <<>>)
BY EmptyList DEF Follows

\* No session is closed, and no claim made.
LEMMA ClosedFrame ==
  ASSUME ClosedHoldsNothing,
         \A s \in Sessions : sessions'[s].state = "closed" => sessions[s].state = "closed",
         \A s \in Sessions, t \in Targets : claims'[t].session = s => claims[t].session = s
  PROVE  ClosedHoldsNothing'
BY DEF ClosedHoldsNothing, Holds

\* What the head of a list in order says.
LEMMA HeadInOrder ==
  ASSUME IInv, NEW p \in Servers, todo[p] # <<>>
  PROVE  Rests(p, todo[p][1], sessions, up) /\ Placed(todo[p], 1, claims)
<1>1. 1 \in 1..Len(todo[p])
  BY HeadIs DEF IInv
<1> QED
  BY <1>1 DEF IInv, InOrder, Ordered

\* A statement that writes nothing.
LEMMA ReadInOrder ==
  ASSUME IInv, NEW p \in Servers, NEW list \in Seq(Statements), Lists(p, list),
         UNCHANGED <<tables, up>>, todo[p][1].do # "delete",
         Ordered(p, list, sessions, claims, up),
         Follows(p, list)
  PROVE  InOrder' /\ ClosedHoldsNothing'
<1>1. sessions' = sessions /\ claims' = claims /\ up' = up
  BY DEF tables
<1>2. \A s \in Sessions, t \in Targets : todo[p][1] # Statement("delete", s, t)
  BY DEF Statement
<1>3. InOrder'
  BY <1>1, <1>2, ThenInOrder DEF IInv
<1> QED
  BY <1>1, <1>3, ClosedFrame DEF IInv
-----------------------------------------------------------------------------
\* The statements that read, one by one.
LEMMA ClaimStep ==
  ASSUME IInv, NEW p \in Servers, ClaimReadsSession(p) \/ ClaimReadsRow(p)
  PROVE  InOrder' /\ ClosedHoldsNothing'
<1> DEFINE x == Head(todo[p])
<1>1. todo[p] # <<>> /\ UNCHANGED <<tables, up>>
  BY DEF ClaimReadsSession, ClaimReadsRow, Now, tables
<1>2. Typed /\ x = todo[p][1] /\ x.do \in {"claim: session", "claim: row"}
  BY <1>1, HeadIs DEF ClaimReadsSession, ClaimReadsRow, Now, IInv
<1>3. Len(todo[p]) = 1
  BY <1>1, <1>2, HeadInOrder DEF Placed, Claiming
<1>4. PICK do \in {"claim: row", "upsert"} :
        \/ Lists(p, <<>>)
        \/ Open(x.session) /\ Lists(p, <<[x EXCEPT !.do = do]>>)
  <2>1. "claim: row" \in Does /\ "upsert" \in Does
    BY DEF Does, Claiming
  <2>2. CASE ClaimReadsSession(p)
    BY <1>1, <1>2, <2>1, <2>2, ThenIfLists DEF ClaimReadsSession
  <2>3. CASE ClaimReadsRow(p)
    <3>1. Open(x.session)
      <4>1. Rests(p, x, sessions, up) /\ x.do = "claim: row"
        BY <1>1, <1>2, <2>3, HeadInOrder DEF ClaimReadsRow, Now
      <4> QED
        BY <4>1 DEF Rests, Open
    <3>2. PICK free : ThenIf(p, free, [x EXCEPT !.do = "upsert"])
      BY <2>3 DEF ClaimReadsRow
    <3> QED
      BY <1>1, <1>2, <2>1, <3>1, <3>2, ThenIfLists
  <2> QED
    BY <2>2, <2>3
<1>5. CASE Lists(p, <<>>)
  <2>2. todo[p][1].do # "delete" /\ Ordered(p, <<>>, sessions, claims, up)
    BY <1>2, EmptyOrdered
  <2> QED
    BY <1>1, <1>5, <2>2, EmptyList, EmptyFollows, ReadInOrder
<1>6. CASE Open(x.session) /\ Lists(p, <<[x EXCEPT !.do = do]>>)
  <2>1. do \in Does
    BY DEF Does, Claiming
  <2>2. PICK y \in Statements : y = [x EXCEPT !.do = do] /\ y.do = do /\ y.session = x.session
    BY <1>1, <1>2, <2>1, HeadIs
  <2>3. PICK list \in Seq(Statements) : list = <<y>> /\ Len(list) = 1 /\ list[1] = y
    BY Short
  <2>4. Lists(p, list)
    BY <1>6, <2>2, <2>3
  <2>5. Rests(p, list[1], sessions, up) /\ list[1].do \in {"claim: row", "upsert"}
    BY <1>6, <2>2, <2>3 DEF Rests, Open, Closing
  <2>6. Ordered(p, list, sessions, claims, up)
    BY <2>3, <2>5, OneOrdered
  <2>7. Follows(p, list)
    BY <1>3, <2>3, <2>5, OneFollows
  <2> QED
    BY <1>1, <1>2, <2>4, <2>6, <2>7, ReadInOrder
<1> QED
  BY <1>4, <1>5, <1>6

LEMMA Fields ==
  \A do, s, t : Statement(do, s, t).do = do /\ Statement(do, s, t).session = s
BY DEF Statement

\* One statement or none goes before the rest.
LEMMA OneStep ==
  ASSUME IInv, NEW p \in Servers, todo[p] # <<>>, UNCHANGED <<tables, up>>, NEW condition,
         NEW do \in {"delete", "select claims"},
         ThenIf(p, condition, [Head(todo[p]) EXCEPT !.do = do]),
         do = "select claims" => Head(todo[p]).do \in Closing,
         Head(todo[p]).do # "delete"
  PROVE  InOrder' /\ ClosedHoldsNothing'
<1> DEFINE x == Head(todo[p])
<1>1. do \in Does /\ do \notin Claiming
  BY DEF Does, Claiming, Closing
<1>2. Typed /\ x = todo[p][1]
  BY HeadIs DEF IInv
<1>3. Lists(p, <<>>) \/ Lists(p, <<[x EXCEPT !.do = do]>>)
  BY <1>1, <1>2, ThenIfLists
<1>4. CASE Lists(p, <<>>)
  <2>1. todo[p][1].do # "delete" /\ Ordered(p, <<>>, sessions, claims, up)
    BY <1>2, EmptyOrdered
  <2> QED
    BY <1>4, <2>1, EmptyList, EmptyFollows, ReadInOrder
<1>5. CASE Lists(p, <<[x EXCEPT !.do = do]>>)
  <2>1. PICK y \in Statements : y = [x EXCEPT !.do = do] /\ y.do = do /\ y.session = x.session
    BY <1>1, <1>2, HeadIs
  <2>2. PICK list \in Seq(Statements) : list = <<y>> /\ Len(list) = 1 /\ list[1] = y
    BY Short
  <2>3. Lists(p, list)
    BY <1>5, <2>1, <2>2
  <2>4. Rests(p, x, sessions, up)
    BY <1>2, HeadInOrder
  <2>5. Rests(p, list[1], sessions, up)
    BY <2>1, <2>2, <2>4 DEF Rests, Closing
  <2>6. list[1].do # "heartbeat" /\ list[1].do # "mark closed" /\ list[1].do \notin Claiming
    BY <1>1, <2>1, <2>2
  <2>7. Ordered(p, list, sessions, claims, up) /\ Follows(p, list)
    BY <2>2, <2>5, <2>6, OneOrdered, OneFollows
  <2> QED
    BY <1>2, <2>3, <2>7, ReadInOrder
<1> QED
  BY <1>3, <1>4, <1>5

LEMMA ReleaseStep ==
  ASSUME IInv, NEW p \in Servers, ReleaseReads(p) \/ CloseReads(p)
  PROVE  InOrder' /\ ClosedHoldsNothing'
<1>1. todo[p] # <<>> /\ UNCHANGED <<tables, up>>
  BY DEF ReleaseReads, CloseReads, Now, tables
<1>2. CASE ReleaseReads(p)
  <2>1. Head(todo[p]).do = "release"
    BY <1>2 DEF ReleaseReads, Now
  <2>2. \E condition : ThenIf(p, condition, [Head(todo[p]) EXCEPT !.do = "delete"])
    BY <1>2 DEF ReleaseReads
  <2> QED
    BY <1>1, <2>1, <2>2, OneStep
<1>3. CASE CloseReads(p)
  <2>1. Head(todo[p]).do = "close" /\ Head(todo[p]).do \in Closing
    BY <1>3 DEF CloseReads, Now, Closing
  <2>2. \E condition : ThenIf(p, condition, [Head(todo[p]) EXCEPT !.do = "select claims"])
    BY <1>3 DEF CloseReads
  <2> QED
    BY <1>1, <2>1, <2>2, OneStep
<1> QED
  BY <1>2, <1>3

LEMMA ExpireStep ==
  ASSUME IInv, NEW p \in Servers, SelectExpired(p) \/ SelectStale(p)
  PROVE  InOrder' /\ ClosedHoldsNothing'
<1>1. todo[p] # <<>> /\ UNCHANGED <<tables, up>>
  BY DEF SelectExpired, SelectStale, SelectOlderThan, Now, tables
<1>2. Typed /\ Head(todo[p]) = todo[p][1] /\ todo[p][1].do # "delete"
  BY <1>1, HeadIs DEF IInv, SelectExpired, SelectStale, SelectOlderThan, Now
<1>3. CASE SelectExpired(p)
  <2>1. PICK S \in SUBSET Targets :
          Then(p, Deletes(S)) /\ \A t \in S : claims[t].session \in Sessions
    <3> DEFINE T == {t \in Targets : claims[t] # NoClaim /\ claims[t].left = 0}
    <3>1. \A t \in T : claims[t].session \in Sessions
      BY <1>2 DEF Typed, TypeOK
    <3>2. Then(p, Deletes(T))
      BY <1>3 DEF SelectExpired
    <3> HIDE DEF T
    <3>3. T \in SUBSET Targets
      BY DEF T
    <3> QED
      BY <3>1, <3>2, <3>3
  <2>2. PICK list \in Seq(Statements) : list = Deletes(S)
    BY <1>2, <2>1, DeletesListed
  <2>3. \A i \in 1..Len(list) : list[i].do = "delete"
    <3>1. \A i \in 1..Len(list) : \E t \in S : list[i] = Statement("delete", claims[t].session, t)
      BY <1>2, <2>1, <2>2, DeletesListed
    <3> QED
      BY <3>1, Fields
  <2>4. Ordered(p, list, sessions, claims, up)
    BY <2>3, PlainOrdered
  <2>5. Follows(p, list)
    BY <2>3 DEF Follows, Claiming
  <2> QED
    BY <1>1, <1>2, <2>1, <2>2, <2>4, <2>5, ReadInOrder DEF Lists
<1>4. CASE SelectStale(p)
  <2>1. PICK S \in SUBSET Sessions :
          Then(p, Closes(S)) /\ \A s \in S : sessions[s].age > TTL
    <3> DEFINE T == {s \in Sessions : Open(s) /\ sessions[s].age > TTL}
    <3>1. Then(p, Closes(T)) /\ T \in SUBSET Sessions /\ \A s \in T : sessions[s].age > TTL
      BY <1>4 DEF SelectStale, SelectOlderThan
    <3> HIDE DEF T
    <3> QED
      BY <3>1
  <2>2. PICK list \in Seq(Statements) : list = Closes(S)
    BY ClosesListed
  <2>3. \A i \in 1..Len(list) : list[i].do = "close" /\ sessions[list[i].session].age > TTL
    <3>1. \A i \in 1..Len(list) : \E s \in S : list[i] = Statement("close", s, NoTarget)
      BY <2>2, ClosesListed
    <3> QED
      BY <2>1, <3>1, Fields
  <2>4. Ordered(p, list, sessions, claims, up)
    BY <2>3 DEF Ordered, Rests, Placed, Claiming
  <2>5. Follows(p, list)
    BY <2>3 DEF Follows, Claiming
  <2> QED
    BY <1>1, <1>2, <2>1, <2>2, <2>4, <2>5, ReadInOrder DEF Lists
<1> QED
  BY <1>3, <1>4

\* Every claim the session has is deleted before it is marked.
LEMMA SelectClaimsStep ==
  ASSUME IInv, NEW p \in Servers, SelectClaims(p)
  PROVE  InOrder' /\ ClosedHoldsNothing'
<1>1. todo[p] # <<>> /\ UNCHANGED <<tables, up>> /\ Head(todo[p]).do = "select claims"
  BY DEF SelectClaims, Now, tables
<1>2. Typed /\ Head(todo[p]) = todo[p][1] /\ Head(todo[p]) \in Statements
  BY <1>1, HeadIs DEF IInv
<1>3. PICK s \in Sessions : s = Head(todo[p]).session
  BY <1>2 DEF Statements
<1>4. PICK S \in SUBSET Targets : S = {t \in Targets : Holds(s, t)}
  OBVIOUS
<1>5. PICK y \in Statements :
        y = [Head(todo[p]) EXCEPT !.do = "mark closed"] /\ y.do = "mark closed" /\ y.session = s
  <2>1. "mark closed" \in Does
    BY DEF Does, Closing
  <2> QED
    BY <1>1, <1>2, <1>3, <2>1, HeadIs
<1>6. PICK deletes \in Seq(Statements) : deletes = Deletes(S)
  BY <1>2, <1>4, DeletesListed DEF Holds
<1>7. /\ \A i \in 1..Len(deletes) : deletes[i].do = "delete"
      /\ \A t \in S : \E i \in 1..Len(deletes) : deletes[i] = Statement("delete", s, t)
  <2>1. \A t \in S : claims[t].session = s
    BY <1>4 DEF Holds
  <2>2. /\ \A i \in 1..Len(deletes) :
             \E t \in S : deletes[i] = Statement("delete", claims[t].session, t)
        /\ \A t \in S : \E i \in 1..Len(deletes) :
             deletes[i] = Statement("delete", claims[t].session, t)
    BY <1>2, <1>6, <2>1, DeletesListed
  <2>3. \A i \in 1..Len(deletes) : deletes[i].do = "delete"
    BY <2>2, Fields
  <2> QED
    BY <2>1, <2>2, <2>3
<1>8. PICK n \in Nat : n = Len(deletes)
  OBVIOUS
<1>9. PICK list \in Seq(Statements) :
        /\ list = deletes \o <<y>> /\ Len(list) = n + 1 /\ list[n + 1] = y
        /\ \A i \in 1..n : list[i] = deletes[i]
  <2>1. <<y>> \in Seq(Statements) /\ Len(<<y>>) = 1 /\ <<y>>[1] = y
    BY Short
  <2>2. /\ deletes \o <<y>> \in Seq(Statements) /\ Len(deletes \o <<y>>) = n + 1
        /\ \A i \in 1..(n + 1) :
             (deletes \o <<y>>)[i] = IF i <= n THEN deletes[i] ELSE <<y>>[i - n]
    BY <1>8, <2>1, ConcatProperties
  <2>3. (deletes \o <<y>>)[n + 1] = <<y>>[1]
    BY <2>2
  <2>4. \A i \in 1..n : (deletes \o <<y>>)[i] = deletes[i]
    BY <2>2
  <2> QED
    BY <2>1, <2>2, <2>3, <2>4
<1>10. Lists(p, list)
  BY <1>1, <1>3, <1>4, <1>5, <1>6, <1>9 DEF Lists, SelectClaims
<1>11. Rests(p, y, sessions, up)
  <2>1. Rests(p, Head(todo[p]), sessions, up)
    BY <1>1, <1>2, HeadInOrder
  <2> QED
    BY <1>1, <1>3, <1>5, <2>1 DEF Rests, Closing
<1>12. \A i \in 1..n : Rests(p, list[i], sessions, up) /\ Placed(list, i, claims)
  BY <1>7, <1>8, <1>9 DEF Rests, Placed, Claiming, Closing
<1>13. Placed(list, n + 1, claims)
  <2>1. ASSUME NEW t \in Targets, claims[t].session = s
        PROVE  \E k \in 1..n : list[k] = Statement("delete", s, t)
    BY <1>4, <1>7, <1>8, <1>9, <2>1 DEF Holds
  <2>2. n = (n + 1) - 1
    OBVIOUS
  <2> QED
    BY <1>5, <1>9, <2>1, <2>2 DEF Placed, Claiming
<1>14. \A i \in 1..(n + 1) : i \in 1..n \/ i = n + 1
  OBVIOUS
<1>15. Ordered(p, list, sessions, claims, up)
  BY <1>9, <1>11, <1>12, <1>13, <1>14 DEF Ordered
<1>16. Follows(p, list)
  <2>1. \A i \in 1..(n + 1) : list[i].do = "delete" \/ list[i].do = "mark closed"
    BY <1>5, <1>7, <1>8, <1>9, <1>14
  <2> QED
    BY <1>9, <2>1 DEF Follows, Claiming
<1> QED
  BY <1>1, <1>2, <1>10, <1>15, <1>16, ReadInOrder
-----------------------------------------------------------------------------
\* The statements that write.
LEMMA UpsertStep ==
  ASSUME IInv, NEW p \in Servers, Upsert(p)
  PROVE  InOrder' /\ ClosedHoldsNothing'
<1>1. todo[p] # <<>> /\ Head(todo[p]).do = "upsert" /\ Lists(p, <<>>)
  BY EmptyList DEF Upsert, Now, Lists
<1>2. Typed /\ Head(todo[p]) = todo[p][1] /\ Head(todo[p]) \in Statements
  BY <1>1, HeadIs DEF IInv
<1>3. PICK s \in Sessions : s = Head(todo[p]).session
  BY <1>2 DEF Statements
<1>4. Len(todo[p]) = 1 /\ sessions[s].state = "open"
  <2>1. Rests(p, todo[p][1], sessions, up) /\ Placed(todo[p], 1, claims)
    BY <1>1, HeadInOrder
  <2>2. todo[p][1].do \in Claiming /\ todo[p][1].do = "upsert" /\ todo[p][1].session = s
    BY <1>1, <1>2, <1>3 DEF Claiming
  <2>3. Len(todo[p]) = 1
    BY <2>1, <2>2 DEF Placed
  <2> QED
    BY <2>1, <2>2, <2>3 DEF Rests
<1>5. sessions' = sessions /\ up' = up
      /\ claims' = [claims EXCEPT ![Head(todo[p]).target] = ClaimOf(s)]
  BY <1>3 DEF Upsert
<1>6. InOrder'
  <2>1. ~(Len(todo[p]) > 1)
    BY <1>4
  <2> QED
    BY <1>1, <1>2, <1>5, <2>1, EmptyList, EmptyFollows, EmptyOrdered, ThenInOrder DEF IInv
<1>7. \A t \in Targets : claims'[t] = claims[t] \/ claims'[t].session = s
  BY <1>2, <1>5 DEF ClaimOf, Typed, TypeOK
<1>8. ClosedHoldsNothing'
  BY <1>4, <1>5, <1>7 DEF IInv, ClosedHoldsNothing, Holds
<1> QED
  BY <1>6, <1>8

LEMMA DeleteStep ==
  ASSUME IInv, NEW p \in Servers, Delete(p)
  PROVE  InOrder' /\ ClosedHoldsNothing'
<1>1. todo[p] # <<>> /\ Lists(p, <<>>)
  BY EmptyList DEF Delete, Now, Lists
<1>2. Typed /\ Head(todo[p]) = todo[p][1]
  BY <1>1, HeadIs DEF IInv
<1>3. PICK x : x = todo[p][1]
  OBVIOUS
<1>4. sessions' = sessions /\ up' = up
      /\ claims' = [claims EXCEPT ![x.target] = IF Holds(x.session, x.target) THEN NoClaim ELSE @]
  BY <1>2, <1>3 DEF Delete
<1>5. ASSUME NEW t \in Targets, claims'[t].session \in Sessions
      PROVE  claims'[t] = claims[t] /\ x # Statement("delete", claims[t].session, t)
  <2>1. claims'[t] = IF t = x.target /\ Holds(x.session, t) THEN NoClaim ELSE claims[t]
    BY <1>2, <1>4 DEF Typed, TypeOK
  <2>2. claims'[t] # NoClaim
    BY <1>5, SessionsFinite DEF NoClaim
  <2> QED
    BY <2>1, <2>2 DEF Statement, Holds
<1>6. InOrder'
  BY <1>1, <1>2, <1>3, <1>4, <1>5, EmptyList, EmptyFollows, EmptyOrdered, ThenInOrder DEF IInv
<1>7. ClosedHoldsNothing'
  BY <1>4, <1>5, ClosedFrame DEF IInv
<1> QED
  BY <1>6, <1>7

LEMMA BeatenIs ==
  ASSUME Typed, NEW s \in Sessions
  PROVE  \A r \in Sessions :
           /\ Beaten(s)[r].state = sessions[r].state
           /\ r # s => Beaten(s)[r] = sessions[r]
BY DEF Beaten, Typed, TypeOK

LEMMA HeartbeatStep ==
  ASSUME IInv, NEW p \in Servers, Heartbeat(p)
  PROVE  InOrder' /\ ClosedHoldsNothing'
<1>1. todo[p] # <<>> /\ Lists(p, <<>>) /\ Head(todo[p]).do = "heartbeat"
  BY EmptyList DEF Heartbeat, Now, Lists
<1>2. Typed /\ Head(todo[p]) = todo[p][1]
  BY <1>1, HeadIs DEF IInv
<1>3. claims' = claims /\ up' = up /\ \A s \in Sessions : sessions'[s].state = sessions[s].state
  BY <1>2, BeatenIs DEF Heartbeat, Sessions
<1>4. \A i \in 1..Len(todo[p]) : todo[p][i].do \notin Closing
  BY <1>1, <1>2, HeadInOrder DEF Placed
<1>5. \A i \in 2..Len(todo[p]) :
        Rests(p, todo[p][i], sessions, up) => Rests(p, todo[p][i], sessions', up')
  <2> TAKE i \in 2..Len(todo[p])
  <2>1. i \in 1..Len(todo[p])
    BY <1>2 DEF Typed
  <2>2. todo[p][i] \in Statements
    BY <1>2, <2>1, ElementOfSeq DEF Typed
  <2>3. todo[p][i].session \in Sessions
    BY <2>2 DEF Statements
  <2> QED
    BY <1>3, <1>4, <2>1, <2>3 DEF Rests
<1>6. \A s \in Sessions, t \in Targets : todo[p][1] # Statement("delete", s, t)
  BY <1>1, <1>2 DEF Statement
<1>7. InOrder'
  BY <1>1, <1>2, <1>3, <1>5, <1>6, EmptyList, EmptyFollows, EmptyOrdered, ThenInOrder DEF IInv
<1>8. ClosedHoldsNothing'
  BY <1>3, ClosedFrame DEF IInv
<1> QED
  BY <1>7, <1>8

LEMMA Later == \A m \in Nat : \A i \in 2..m : i \in 1..m /\ m # 1
OBVIOUS

\* What marking a session closed rests on.
LEMMA MarkIs ==
  ASSUME IInv, NEW p \in Servers, MarkClosed(p)
  PROVE  \E s \in Sessions :
           /\ sessions' = [sessions EXCEPT ![s] = [state |-> "closed", age |-> 0]]
           /\ sessions[s].state = "closed" \/ sessions[s].age > TTL \/ (s = p /\ up[s] = "stopping")
           /\ \A t \in Targets : ~Holds(s, t)
<1>1. todo[p] # <<>> /\ Head(todo[p]).do = "mark closed"
  BY DEF MarkClosed, Now
<1>2. Head(todo[p]) = todo[p][1] /\ Head(todo[p]) \in Statements
  BY <1>1, HeadIs DEF IInv
<1>3. PICK s \in Sessions : s = Head(todo[p]).session
  BY <1>2 DEF Statements
<1>4. Rests(p, todo[p][1], sessions, up) /\ Placed(todo[p], 1, claims)
  BY <1>1, HeadInOrder
<1>5. sessions[s].state = "closed" \/ sessions[s].age > TTL \/ (s = p /\ up[s] = "stopping")
  BY <1>1, <1>2, <1>3, <1>4 DEF Rests, Closing
<1>6. \A k \in 1..(1 - 1) : FALSE
  OBVIOUS
<1>7. \A t \in Targets : ~Holds(s, t)
  BY <1>1, <1>2, <1>3, <1>4, <1>6 DEF Placed, Holds
<1> QED
  BY <1>3, <1>5, <1>7 DEF MarkClosed

LEMMA MarkClosedStep ==
  ASSUME IInv, NEW p \in Servers, MarkClosed(p)
  PROVE  InOrder' /\ ClosedHoldsNothing'
<1>1. todo[p] # <<>> /\ Lists(p, <<>>) /\ Head(todo[p]).do = "mark closed"
  BY EmptyList DEF MarkClosed, Now, Lists
<1>2. Typed /\ Head(todo[p]) = todo[p][1]
  BY <1>1, HeadIs DEF IInv
<1>3. claims' = claims /\ up' = up
  BY DEF MarkClosed
<1>4. PICK s \in Sessions :
        /\ sessions' = [sessions EXCEPT ![s] = [state |-> "closed", age |-> 0]]
        /\ \A t \in Targets : ~Holds(s, t)
  BY MarkIs
<1>5. \A r \in Sessions : sessions'[r] = IF r = s THEN [state |-> "closed", age |-> 0] ELSE sessions[r]
  BY <1>2, <1>4 DEF Typed, TypeOK
<1>6. \A i \in 2..Len(todo[p]) :
        Rests(p, todo[p][i], sessions, up) => Rests(p, todo[p][i], sessions', up')
  <2> TAKE i \in 2..Len(todo[p])
  <2>1. i \in 1..Len(todo[p]) /\ Len(todo[p]) # 1
    <3>1. todo[p] \in Seq(Statements)
      BY <1>2 DEF Typed
    <3>2. Len(todo[p]) \in Nat
      BY <3>1
    <3> QED
      BY <3>2, Later
  <2>2. todo[p][i] \in Statements
    BY <1>2, <2>1, ElementOfSeq DEF Typed
  <2>3. todo[p][i].session \in Sessions
    BY <2>2 DEF Statements
  <2>4. Placed(todo[p], i, claims)
    BY <2>1 DEF IInv, InOrder, Ordered
  <2>5. todo[p][i].do \in Claiming => Len(todo[p]) = 1
    BY <2>4 DEF Placed
  <2>6. todo[p][i].do \notin {"claim: row", "upsert"}
    BY <2>1, <2>5 DEF Claiming
  <2>7. \/ sessions'[todo[p][i].session] = sessions[todo[p][i].session]
        \/ sessions'[todo[p][i].session].state = "closed"
    BY <1>5, <2>3
  <2> QED
    BY <1>3, <2>6, <2>7 DEF Rests
<1>7. \A t \in Targets :
        /\ claims[t].session = claims'[t].session
        /\ todo[p][1] # Statement("delete", claims'[t].session, t)
  <2>1. todo[p][1].do = "mark closed"
    BY <1>1, <1>2
  <2>2. \A r, t : Statement("delete", r, t).do = "delete"
    BY Fields
  <2> QED
    BY <1>3, <2>1, <2>2
<1>8. InOrder'
  BY <1>1, <1>2, <1>6, <1>7, EmptyList, EmptyFollows, EmptyOrdered, ThenInOrder DEF IInv
<1>9. ClosedHoldsNothing'
  BY <1>3, <1>4, <1>5 DEF IInv, ClosedHoldsNothing, Holds
<1> QED
  BY <1>8, <1>9

LEMMA RunInOrder ==
  ASSUME IInv, NEW p \in Servers, RunStatement(p)
  PROVE  InOrder' /\ ClosedHoldsNothing'
BY ClaimStep, ReleaseStep, ExpireStep, SelectClaimsStep, UpsertStep, DeleteStep, HeartbeatStep,
   MarkClosedStep DEF RunStatement
-----------------------------------------------------------------------------
\* The handlers: with no method running, what they begin with is in order.
LEMMA IdleInOrder == (\A q \in Servers : todo'[q] = <<>>) => InOrder'
BY EmptyOrdered DEF InOrder

LEMMA FreeIdle ==
  ASSUME IInv, NEW p \in Servers, Free(p)
  PROVE  \A q \in Servers : todo[q] = <<>>
<1>1. up[p] \in Ups /\ todo[p] = <<>>
  BY DEF Free, Ups
<1> QED
  BY <1>1, IdleElsewhere DEF IInv

\* Handlers that change a session, and time.
LEMMA SessionStep ==
  ASSUME IInv, NEW p \in Servers, NEW h \in Humans, PostSession(p, h) \/ PostHeartbeat(p, h)
  PROVE  InOrder' /\ ClosedHoldsNothing'
<1>1. Free(p) /\ UNCHANGED <<claims, todo>> /\ h \in Sessions
  BY DEF PostSession, PostHeartbeat, Sessions
<1>2. InOrder'
  BY <1>1, FreeIdle, IdleInOrder
<1>3. \A s \in Sessions : sessions'[s].state = "closed" => sessions[s].state = "closed"
  <2>1. CASE PostSession(p, h)
    BY <2>1 DEF PostSession, Opened, IInv, Typed, TypeOK
  <2>2. CASE PostHeartbeat(p, h)
    BY <1>1, <2>2, BeatenIs DEF PostHeartbeat, IInv
  <2> QED
    BY <2>1, <2>2
<1> QED
  BY <1>1, <1>2, <1>3, ClosedFrame DEF IInv

LEMMA StartStep ==
  ASSUME OneUp, IInv, NEW p \in Servers, Start(p)
  PROVE  InOrder' /\ ClosedHoldsNothing'
<1>1. \A q \in Servers : todo'[q] = <<>>
  BY NoneUp DEF Start, IInv, Alone
<1>2. \A s \in Sessions : sessions'[s].state = "closed" => sessions[s].state = "closed"
  BY DEF Start, Opened, IInv, Typed, TypeOK
<1> QED
  BY <1>1, <1>2, IdleInOrder, ClosedFrame DEF Start, IInv

LEMMA DieStep ==
  ASSUME IInv, NEW p \in Servers, Die(p)
  PROVE  InOrder' /\ ClosedHoldsNothing'
<1>1. up[p] \in Ups /\ todo' = [todo EXCEPT ![p] = <<>>] /\ UNCHANGED tables
  BY DEF Die, Ups
<1>2. \A q \in Servers : todo'[q] = <<>>
  BY <1>1, IdleElsewhere DEF IInv, Typed
<1> QED
  BY <1>1, <1>2, IdleInOrder, ClosedFrame DEF IInv, tables

LEMMA AdvanceStep ==
  ASSUME IInv, Advance
  PROVE  InOrder' /\ ClosedHoldsNothing'
<1>1. \A q \in Servers : todo'[q] = <<>>
  BY DEF Advance
<1>2. \A s \in Sessions : sessions'[s].state = sessions[s].state
  BY DEF Advance, IInv, Typed, TypeOK
<1>3. \A t \in Targets : claims'[t].session = claims[t].session
  <2> TAKE t \in Targets
  <2>1. claims'[t] = [claims[t] EXCEPT !.left = IF @ > 0 THEN @ - 1 ELSE 0]
    BY DEF Advance
  <2>2. claims[t] \in [session : Sessions, left : 0..TTL] \/ claims[t] = NoClaim
    BY DEF IInv, Typed, TypeOK
  <2> QED
    BY <2>1, <2>2 DEF NoClaim
<1> QED
  BY <1>1, <1>2, <1>3, IdleInOrder, ClosedFrame DEF IInv

\* Handlers that begin a method.
LEMMA BeginStep ==
  ASSUME IInv, NEW p \in Servers, NEW list \in Seq(Statements), Calls(p, list), UNCHANGED tables,
         Ordered(p, list, sessions, claims, up')
  PROVE  InOrder' /\ ClosedHoldsNothing'
<1>1. sessions' = sessions /\ claims' = claims
  BY DEF tables
<1>2. InOrder'
  BY <1>1, CallInOrder DEF IInv
<1> QED
  BY <1>1, <1>2, ClosedFrame DEF IInv

LEMMA IntervalStep ==
  ASSUME IInv, NEW p \in Servers, Interval(p) \/ GetSessions(p)
  PROVE  InOrder' /\ ClosedHoldsNothing'
<1>1. CASE Interval(p)
  <2>1. PICK list \in Seq(Statements) :
          /\ Calls(p, list) /\ Len(list) = 3
          /\ list[1].do = "heartbeat" /\ list[2].do = "select expired" /\ list[3].do = "select stale"
    BY <1>1, SweepListed DEF Interval
  <2>2. \A i \in 1..3 : i = 1 \/ i = 2 \/ i = 3
    OBVIOUS
  <2>3. \A i \in 1..3 : list[i].do \notin Claiming /\ list[i].do \notin Closing
    BY <2>1, <2>2 DEF Claiming, Closing
  <2>4. \A i \in 1..3 : list[i].do = "heartbeat" => i = 1
    BY <2>1, <2>2
  <2>5. Ordered(p, list, sessions, claims, up')
    BY <2>1, <2>3, <2>4 DEF Ordered, Rests, Placed, Claiming, Closing
  <2> QED
    BY <1>1, <2>1, <2>5, BeginStep DEF Interval
<1>2. CASE GetSessions(p)
  <2>1. PICK list \in Seq(Statements) :
          /\ Calls(p, list) /\ Len(list) = 2
          /\ list[1].do = "select expired" /\ list[2].do = "select stale"
    BY <1>2, SweepListed DEF GetSessions
  <2>2. \A i \in 1..2 : i = 1 \/ i = 2
    OBVIOUS
  <2>3. Ordered(p, list, sessions, claims, up')
    BY <2>1, <2>2, PlainOrdered
  <2> QED
    BY <1>2, <2>1, <2>3, BeginStep DEF GetSessions
<1> QED
  BY <1>1, <1>2

LEMMA JobStep ==
  ASSUME IInv, NEW w \in Loops, EndJob(w) \/ \E t \in Targets : StartJob(w, t)
  PROVE  InOrder' /\ ClosedHoldsNothing'
<1>1. PICK p \in Servers : p = Server(w)
  BY DEF Server, Loops
<1>2. PICK x \in Statements :
        x.do \in {"release", "claim: session"} /\ Calls(p, <<x>>) /\ UNCHANGED tables
  <2>1. "release" \in Does /\ "claim: session" \in Does /\ p \in Sessions
    BY DEF Does, Claiming, Sessions
  <2>2. CASE EndJob(w)
    <3>1. work[w] \in Targets \cup {NoTarget}
      BY DEF IInv, Typed, TypeOK
    <3>2. PICK x \in Statements : x = Statement("release", p, work[w])
      BY <2>1, <3>1, StatementIs
    <3>3. x.do = "release"
      BY <3>2, Fields
    <3>4. Calls(p, <<x>>) /\ UNCHANGED tables
      BY <1>1, <2>2, <3>2 DEF EndJob, tables
    <3> QED
      BY <3>3, <3>4
  <2>3. ASSUME NEW t \in Targets, StartJob(w, t)
        PROVE  \E x \in Statements :
                 x.do \in {"release", "claim: session"} /\ Calls(p, <<x>>) /\ UNCHANGED tables
    <3>1. PICK x \in Statements : x = Statement("claim: session", p, t)
      BY <2>1, StatementIs
    <3>2. x.do = "claim: session"
      BY <3>1, Fields
    <3>3. Calls(p, <<x>>) /\ UNCHANGED tables
      BY <1>1, <2>3, <3>1 DEF StartJob, tables
    <3> QED
      BY <3>2, <3>3
  <2> QED
    BY <2>2, <2>3
<1>3. PICK list \in Seq(Statements) : list = <<x>> /\ Len(list) = 1 /\ list[1] = x
  BY Short
<1>4. Rests(p, list[1], sessions, up')
  BY <1>2, <1>3 DEF Rests, Closing
<1>5. list[1].do # "heartbeat" /\ list[1].do # "mark closed" /\ Calls(p, list)
  BY <1>2, <1>3
<1>6. Ordered(p, list, sessions, claims, up')
  BY <1>3, <1>4, <1>5, OneOrdered
<1> QED
  BY <1>2, <1>5, <1>6, BeginStep

LEMMA StopStep ==
  ASSUME IInv, NEW p \in Servers, Stop(p)
  PROVE  InOrder' /\ ClosedHoldsNothing'
<1>1. "close" \in Does /\ p \in Sessions
  BY DEF Does, Closing, Sessions
<1>2. PICK x \in Statements : x = Statement("close", p, NoTarget) /\ x.do = "close" /\ x.session = p
  BY <1>1, StatementIs
<1>3. PICK list \in Seq(Statements) : list = <<x>> /\ Len(list) = 1 /\ list[1] = x
  BY Short
<1>4. Calls(p, list) /\ UNCHANGED tables /\ up'[p] = "stopping"
  BY <1>2, <1>3 DEF Stop, IInv, Typed, TypeOK
<1>5. Rests(p, list[1], sessions, up')
  BY <1>2, <1>3, <1>4 DEF Rests
<1>6. list[1].do # "heartbeat" /\ list[1].do # "mark closed"
  BY <1>2, <1>3
<1>7. Ordered(p, list, sessions, claims, up')
  BY <1>3, <1>5, <1>6, OneOrdered
<1> QED
  BY <1>4, <1>7, BeginStep
-----------------------------------------------------------------------------
LEMMA StepIInv == OneUp /\ IInv /\ [Next]_vars => IInv'
<1> SUFFICES ASSUME OneUp, IInv, [Next]_vars PROVE IInv'
  OBVIOUS
<1>1. Typed' /\ Alone'
  BY StepTyped, AloneStep DEF IInv
<1>2. InOrder' /\ ClosedHoldsNothing'
  <2>1. CASE UNCHANGED vars
    <3>1. sessions' = sessions /\ claims' = claims /\ up' = up /\ todo' = todo
      BY <2>1 DEF vars, tables
    <3>2. InOrder'
      BY <3>1 DEF IInv, InOrder
    <3> QED
      BY <3>1, <3>2, ClosedFrame DEF IInv
  <2> QED
    BY <2>1, RunInOrder, SessionStep, StartStep, DieStep, AdvanceStep, IntervalStep, JobStep,
       StopStep DEF Next
<1> QED
  BY <1>1, <1>2 DEF IInv

LEMMA InitIInv == Init => IInv
<1> SUFFICES ASSUME Init PROVE IInv
  OBVIOUS
<1>1. Typed
  BY InitTyped
<1>2. Alone
  BY DEF Init, Alone, Ups
<1>3. InOrder
  BY EmptyOrdered DEF Init, InOrder
<1>4. ClosedHoldsNothing
  BY DEF Init, ClosedHoldsNothing
<1> QED
  BY <1>1, <1>2, <1>3, <1>4 DEF IInv

LEMMA AlwaysIInv == ASSUME OneUp PROVE Spec => []IInv
<1>1. IInv /\ [Next]_vars => IInv'
  BY StepIInv
<1> QED
  BY <1>1, InitIInv, PTL DEF Spec

\* With one server up at a time a session that is closed, by its server's
\* stop or by the next one's sweep, holds no claim from then on: a claim is
\* written only for a session read as open in the same method, and a session
\* is marked only once every claim it had when they were selected is gone.
THEOREM OneServerReleases == OneUp => (Spec => []ClosedHoldsNothing)
<1> SUFFICES ASSUME OneUp PROVE Spec => []ClosedHoldsNothing
  OBVIOUS
<1>1. IInv => ClosedHoldsNothing
  BY DEF IInv
<1> QED
  BY <1>1, AlwaysIInv, PTL

\* With one server up at a time the sweep closes no session whose heartbeat is
\* within the TTL: a session that is beaten between the sweep's select and its
\* closing would be, and no other server is there to beat it.
THEOREM OneServerSpares == OneUp => (Spec => SweepSparesLive)
<1> DEFINE Spared ==
      \A s \in Sessions :
        Open(s) /\ sessions'[s].state = "closed"
          => sessions[s].age > TTL \/ (s \in Servers /\ up[s] = "stopping")
<1> SUFFICES ASSUME OneUp PROVE Spec => SweepSparesLive
  OBVIOUS
<1>1. ASSUME IInv, [Next]_vars PROVE Spared
  <2>1. (\A s \in Sessions : sessions'[s].state = "closed" => sessions[s].state = "closed") => Spared
    BY DEF Open
  <2>2. ASSUME NEW p \in Servers, MarkClosed(p) PROVE Spared
    <3>1. PICK r \in Sessions :
            /\ sessions' = [sessions EXCEPT ![r] = [state |-> "closed", age |-> 0]]
            /\ sessions[r].state = "closed" \/ sessions[r].age > TTL \/ (r = p /\ up[r] = "stopping")
      BY <1>1, <2>2, MarkIs
    <3>2. \A s \in Sessions : s # r => sessions'[s] = sessions[s]
      BY <1>1, <3>1 DEF IInv, Typed, TypeOK
    <3> QED
      BY <3>1, <3>2 DEF Open
  <2> HIDE DEF Spared
  <2>3. ASSUME UNCHANGED sessions PROVE Spared
    BY <2>1, <2>3
  <2>4. ASSUME NEW p \in Servers, Heartbeat(p) PROVE Spared
    <3>1. p \in Sessions /\ sessions' = Beaten(p)
      BY <2>4 DEF Heartbeat, Sessions
    <3> QED
      BY <1>1, <2>1, <3>1, BeatenIs DEF IInv
  <2>5. ASSUME NEW p \in Servers, NEW h \in Humans, PostHeartbeat(p, h) PROVE Spared
    <3>1. h \in Sessions /\ sessions' = Beaten(h)
      BY <2>5 DEF PostHeartbeat, Sessions
    <3> QED
      BY <1>1, <2>1, <3>1, BeatenIs DEF IInv
  <2>6. ASSUME NEW p \in Servers, NEW h \in Humans, PostSession(p, h) PROVE Spared
    BY <1>1, <2>1, <2>6 DEF PostSession, Opened, IInv, Typed, TypeOK
  <2>7. ASSUME NEW p \in Servers, Start(p) PROVE Spared
    BY <1>1, <2>1, <2>7 DEF Start, Opened, IInv, Typed, TypeOK
  <2>8. CASE Advance
    <3>1. \A s \in Sessions : sessions'[s].state = sessions[s].state
      BY <1>1, <2>8 DEF Advance, IInv, Typed, TypeOK
    <3> QED
      BY <2>1, <3>1
  <2>9. ASSUME NEW p \in Servers, RunStatement(p) PROVE Spared
    <3>1. MarkClosed(p) \/ Heartbeat(p) \/ UNCHANGED sessions
      BY <2>9 DEF RunStatement, ClaimReadsSession, ClaimReadsRow, Upsert, ReleaseReads, Delete,
         SelectExpired, SelectStale, SelectOlderThan, CloseReads, SelectClaims, tables
    <3> QED
      BY <2>2, <2>3, <2>4, <2>9, <3>1
  <2>10. ASSUME NEW p \in Servers, Interval(p) \/ GetSessions(p) \/ Stop(p) \/ Die(p) PROVE Spared
    BY <2>3, <2>10 DEF Interval, GetSessions, Stop, Die, tables
  <2>11. ASSUME NEW w \in Loops, EndJob(w) \/ \E t \in Targets : StartJob(w, t) PROVE Spared
    BY <2>3, <2>11 DEF EndJob, StartJob, tables
  <2>12. CASE UNCHANGED vars
    BY <2>3, <2>12 DEF vars, tables
  <2> QED
    BY <1>1, <2>5, <2>6, <2>7, <2>8, <2>9, <2>10, <2>11, <2>12 DEF Next
<1>2. IInv /\ [Next]_vars => [Spared]_vars
  BY <1>1
<1> HIDE DEF Spared
<1>3. Spec => [][Spared]_vars
  BY <1>2, AlwaysIInv, PTL DEF Spec
<1>4. Spared <=>
      \A s \in Sessions :
        Open(s) /\ sessions'[s].state = "closed"
          => sessions[s].age > TTL \/ (s \in Servers /\ up[s] = "stopping")
  BY DEF Spared
<1> QED
  BY <1>3, <1>4, PTL DEF SweepSparesLive
=============================================================================
