------------------------------ MODULE Presence ------------------------------
(***************************************************************************)
(* Sessions, heartbeats and advisory claims (src/workers/presence.ts) as   *)
(* the UI server uses them: its interval and its stop                      *)
(* (src/ui-server/server.ts), its session routes                           *)
(* (src/ui-server/workers-routes.ts), and the claim each loop of the pool  *)
(* takes around a job (src/workers/runner.ts).                             *)
(*                                                                         *)
(* Every method is a run of SQL statements, each its own transaction: a    *)
(* server's `todo` holds the ones it has still to make, and another server *)
(* may come between any two.  Time is counted in heartbeats, relative to   *)
(* now, and passes only between methods: the statements of one take no     *)
(* time beside a TTL of half a minute.                                     *)
(***************************************************************************)
EXTENDS Naturals, Sequences, FiniteSets, SequencesExt

CONSTANTS
  Servers,      \* server processes: each opens one session, a restart is another
  Humans,       \* the browsers, one session each
  Targets,      \* functions and modules that jobs work on
  Concurrency,  \* loops per server
  TTL,          \* how long a heartbeat, and a claim, is good for
  MaxUp         \* bound on the servers up at once

ASSUME PresenceAssumption ==
  /\ IsFiniteSet(Servers) /\ IsFiniteSet(Humans) /\ IsFiniteSet(Targets)
  /\ "nobody" \notin Servers \cup Humans
  /\ TTL \in Nat

Loops == Servers \X (1..Concurrency)
Server(w) == w[1]
Sessions == Servers \cup Humans

VARIABLES
  sessions,  \* state, and the age of last_seen (TTL + 1: or older)
  claims,    \* per target, its row: the session and what is left until expires_at
  up,        \* "new", "up", "stopping" (stop was called) or "down"
  due,       \* whether a server's interval has to fire
  todo,      \* the statements a server has still to make
  work       \* the target each loop has a job on

tables == <<sessions, claims>>
vars == <<tables, up, due, todo, work>>

NoTarget == "no target"
NoClaim == [session |-> "nobody", left |-> 0]
Holds(s, t) == claims[t].session = s
Open(s) == sessions[s].state = "open"

Init ==
  /\ sessions = [s \in Sessions |-> [state |-> "none", age |-> 0]]
  /\ claims = [t \in Targets |-> NoClaim]
  /\ up = [p \in Servers |-> "new"]
  /\ due = [p \in Servers |-> FALSE]
  /\ todo = [p \in Servers |-> <<>>]
  /\ work = [w \in Loops |-> NoTarget]

Statement(do, s, t) == [do |-> do, session |-> s, target |-> t]
Deletes(rows) == SetToSeq({Statement("delete", claims[t].session, t) : t \in rows})
Sweep(p) == <<Statement("select expired", p, NoTarget), Statement("select stale", p, NoTarget)>>

\* The event loop of p is free: a method runs to its end before the next.
Free(p) == up[p] = "up" /\ todo[p] = <<>>
Calls(p, statements) == Free(p) /\ todo' = [todo EXCEPT ![p] = statements]

\* p's next statement, and what it puts before the ones that remain.
Now(p, do) == todo[p] # <<>> /\ Head(todo[p]).do = do
Then(p, statements) == todo' = [todo EXCEPT ![p] = statements \o Tail(@)]
ThenIf(p, condition, statement) == Then(p, IF condition THEN <<statement>> ELSE <<>>)
-----------------------------------------------------------------------------
\* open, as a server starts and as a browser posts its session.
Opened == [state |-> "open", age |-> 0]
Start(p) ==
  /\ up[p] = "new"
  /\ Cardinality({q \in Servers : up[q] \in {"up", "stopping"}}) < MaxUp
  /\ up' = [up EXCEPT ![p] = "up"]
  /\ sessions' = [sessions EXCEPT ![p] = Opened]
  /\ UNCHANGED <<claims, due, todo, work>>

PostSession(p, h) ==
  /\ Free(p)
  /\ sessions[h].state = "none"
  /\ sessions' = [sessions EXCEPT ![h] = Opened]
  /\ UNCHANGED <<claims, up, due, todo, work>>

\* heartbeat: a closed session stays as it is.
BeatenAll(s) ==  \* a mutant of Beaten
  [x \in Sessions |-> IF Open(x) THEN [sessions[x] EXCEPT !.age = 0] ELSE sessions[x]]
Beaten(s) == [sessions EXCEPT ![s].age = IF Open(s) THEN 0 ELSE @]
PostHeartbeat(p, h) ==
  /\ Free(p)
  /\ sessions[h].state # "none"
  /\ sessions' = Beaten(h)
  /\ UNCHANGED <<claims, up, due, todo, work>>

\* The server's interval: its heartbeat, whose result it ignores, and expire.
Interval(p) ==
  /\ due[p]
  /\ Calls(p, <<Statement("heartbeat", p, NoTarget)>> \o Sweep(p))
  /\ due' = [due EXCEPT ![p] = FALSE]
  /\ UNCHANGED <<tables, up, work>>

\* GET /api/sessions: expire, without a heartbeat.
GetSessions(p) == Calls(p, Sweep(p)) /\ UNCHANGED <<tables, up, due, work>>

\* A loop has a job: it claims the target and works whatever claim returns.
StartJob(w, t) ==
  /\ work[w] = NoTarget
  /\ Calls(Server(w), <<Statement("claim: session", Server(w), t)>>)
  /\ work' = [work EXCEPT ![w] = t]
  /\ UNCHANGED <<tables, up, due>>

\* The job ends, one way or another, and its `finally` releases the target.
EndJob(w) ==
  /\ work[w] # NoTarget
  /\ Calls(Server(w), <<Statement("release", Server(w), work[w])>>)
  /\ work' = [work EXCEPT ![w] = NoTarget]
  /\ UNCHANGED <<tables, up, due>>

\* stop: the session is closed, and the database after it: nothing that is
\* still running in this process can write again.
Stop(p) ==
  /\ Calls(p, <<Statement("close", p, NoTarget)>>)
  /\ up' = [up EXCEPT ![p] = "stopping"]
  /\ UNCHANGED <<tables, due, work>>

\* The process ends, after a stop or wherever it is.
Die(p) ==
  /\ up[p] \in {"up", "stopping"}
  /\ up' = [up EXCEPT ![p] = "down"]
  /\ todo' = [todo EXCEPT ![p] = <<>>]
  /\ work' = [w \in Loops |-> IF Server(w) = p THEN NoTarget ELSE work[w]]
  /\ UNCHANGED <<tables, due>>

\* Time passes; an interval that is due may be late by any of it, as when a
\* machine sleeps or a segregation keeps the event loop for a minute.
Advance ==
  /\ \A p \in Servers : todo[p] = <<>>
  /\ sessions' = [s \in Sessions |->
       [sessions[s] EXCEPT !.age = IF Open(s) /\ @ <= TTL THEN @ + 1 ELSE @]]
  /\ claims' = [t \in Targets |-> [claims[t] EXCEPT !.left = IF @ > 0 THEN @ - 1 ELSE 0]]
  /\ due' = [p \in Servers |-> up[p] = "up"]
  /\ UNCHANGED <<up, todo, work>>
-----------------------------------------------------------------------------
\* The statements.  claim reads its session, then the row on the target, and
\* writes unless another session's row is still good.
ClaimIgnoresSession(p) ==  \* a mutant of ClaimReadsSession
  /\ Now(p, "claim: session")
  /\ Then(p, <<[Head(todo[p]) EXCEPT !.do = "claim: row"]>>)
  /\ UNCHANGED <<tables, up, due, work>>
ClaimReadsSession(p) ==
  /\ Now(p, "claim: session")
  /\ LET x == Head(todo[p])
     IN  ThenIf(p, Open(x.session), [x EXCEPT !.do = "claim: row"])
  /\ UNCHANGED <<tables, up, due, work>>

ClaimReadsRow(p) ==
  /\ Now(p, "claim: row")
  /\ LET x == Head(todo[p])
         free == claims[x.target].left = 0 \/ Holds(x.session, x.target)
     IN  ThenIf(p, free, [x EXCEPT !.do = "upsert"])
  /\ UNCHANGED <<tables, up, due, work>>

ClaimBeyond(s) == [session |-> s, left |-> TTL + 1]  \* a mutant of ClaimOf
ClaimOf(s) == [session |-> s, left |-> TTL]
Upsert(p) ==
  /\ Now(p, "upsert")
  /\ claims' = [claims EXCEPT ![Head(todo[p]).target] = ClaimOf(Head(todo[p]).session)]
  /\ Then(p, <<>>)
  /\ UNCHANGED <<sessions, up, due, work>>

\* release reads the row; releaseClaimRow deletes it if it is still its
\* session's.
ReleaseReads(p) ==
  /\ Now(p, "release")
  /\ LET x == Head(todo[p])
     IN  ThenIf(p, Holds(x.session, x.target), [x EXCEPT !.do = "delete"])
  /\ UNCHANGED <<tables, up, due, work>>

Delete(p) ==
  /\ Now(p, "delete")
  /\ LET x == Head(todo[p])
     IN  claims' = [claims EXCEPT ![x.target] = IF Holds(x.session, x.target) THEN NoClaim ELSE @]
  /\ Then(p, <<>>)
  /\ UNCHANGED <<sessions, up, due, work>>

Heartbeat(p) ==
  /\ Now(p, "heartbeat")
  /\ sessions' = Beaten(p)
  /\ Then(p, <<>>)
  /\ UNCHANGED <<claims, up, due, work>>

\* expire selects the rows that have expired, deletes each, then selects the
\* open sessions and closes each whose heartbeat is older than the TTL.
SelectExpired(p) ==
  /\ Now(p, "select expired")
  /\ Then(p, Deletes({t \in Targets : claims[t] # NoClaim /\ claims[t].left = 0}))
  /\ UNCHANGED <<tables, up, due, work>>

Closes(stale) == SetToSeq({Statement("close", s, NoTarget) : s \in stale})
SelectOlderThan(p, age) ==
  /\ Now(p, "select stale")
  /\ Then(p, Closes({s \in Sessions : Open(s) /\ sessions[s].age > age}))
  /\ UNCHANGED <<tables, up, due, work>>
SelectAged(p) == SelectOlderThan(p, TTL - 1)
SelectStale(p) == SelectOlderThan(p, TTL)

\* close reads the session, unless it is closed deletes its claims one by one,
\* and marks it.
CloseReads(p) ==
  /\ Now(p, "close")
  /\ LET x == Head(todo[p])
     IN  ThenIf(p, Open(x.session), [x EXCEPT !.do = "select claims"])
  /\ UNCHANGED <<tables, up, due, work>>

SelectClaims(p) ==
  /\ Now(p, "select claims")
  /\ LET x == Head(todo[p])
     IN  Then(p, Deletes({t \in Targets : Holds(x.session, t)}) \o <<[x EXCEPT !.do = "mark closed"]>>)
  /\ UNCHANGED <<tables, up, due, work>>

MarkClosed(p) ==
  /\ Now(p, "mark closed")
  /\ sessions' = [sessions EXCEPT ![Head(todo[p]).session] = [state |-> "closed", age |-> 0]]
  /\ Then(p, <<>>)
  /\ UNCHANGED <<claims, up, due, work>>

RunStatement(p) ==
  \/ ClaimReadsSession(p) \/ ClaimReadsRow(p) \/ Upsert(p)
  \/ ReleaseReads(p) \/ Delete(p)
  \/ Heartbeat(p) \/ SelectExpired(p) \/ SelectStale(p)
  \/ CloseReads(p) \/ SelectClaims(p) \/ MarkClosed(p)

Next ==
  \/ Advance
  \/ \E p \in Servers :
       \/ RunStatement(p)
       \/ Start(p) \/ Interval(p) \/ GetSessions(p) \/ Stop(p) \/ Die(p)
       \/ \E h \in Humans : PostSession(p, h) \/ PostHeartbeat(p, h)
  \/ \E w \in Loops : EndJob(w) \/ \E t \in Targets : StartJob(w, t)

Spec == Init /\ [][Next]_vars

\* Time passes.  A statement is followed by the next.  The event loop serves
\* a timer that is due sooner or later, whatever requests keep it busy.
FairSpec ==
  /\ Spec
  /\ SF_vars(Advance)
  /\ \A p \in Servers : WF_vars(RunStatement(p)) /\ SF_vars(Interval(p))
-----------------------------------------------------------------------------
TypeOK ==
  /\ sessions \in [Sessions -> [state : {"none", "open", "closed"}, age : 0..(TTL + 1)]]
  /\ claims \in [Targets -> [session : Sessions, left : 0..TTL] \cup {NoClaim}]
  /\ up \in [Servers -> {"new", "up", "stopping", "down"}]
  /\ due \in [Servers -> BOOLEAN]
  /\ work \in [Loops -> Targets \cup {NoTarget}]

\* A closed session holds nothing, so a target it had is free at once and not
\* when its claim expires: close releases every claim, and claim refuses a
\* session that is closed although its loops still work.
ClosedHoldsNothing ==
  \A s \in Sessions, t \in Targets : sessions[s].state = "closed" => ~Holds(s, t)

\* expire closes no session that is live in the sense of liveSessions: only
\* the owner's stop does.
SweepSparesLive ==
  [][\A s \in Sessions :
       Open(s) /\ sessions'[s].state = "closed"
         => sessions[s].age > TTL \/ (s \in Servers /\ up[s] = "stopping")]_vars

\* A server that died holds nothing for ever: once another is up and stays
\* up, the dead one's session is closed and its claims are gone.
DeadReaped ==
  \A p, q \in Servers :
    p # q /\ up[p] = "down" /\ up[q] = "up"
      ~> up[q] # "up" \/ (~Open(p) /\ \A t \in Targets : ~Holds(p, t))

\* heartbeat's comment: a session that is not resurrected is replaced by its
\* caller, so a server that keeps running is always present again.  (Violated
\* once an interval is late by more than the TTL: the README says how.)
ServerStaysPresent == \A p \in Servers : up[p] = "up" ~> up[p] # "up" \/ Open(p)
=============================================================================
