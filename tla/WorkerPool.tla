----------------------------- MODULE WorkerPool -----------------------------
(***************************************************************************)
(* The job queue (src/workers/queue.ts) and the runner pool that drains it *)
(* (src/workers/runner.ts, started by src/ui-server/server.ts).            *)
(*                                                                         *)
(* A process is one event loop: between two awaits an actor's statements   *)
(* run uninterrupted by the other actors of its process, while another     *)
(* process may interleave between any two of them, each being its own      *)
(* transaction.  An actor inside such a run of statements is `Mid`, and    *)
(* nothing else of its process moves.                                      *)
(***************************************************************************)
EXTENDS Naturals, Sequences, FiniteSets, SequencesExt

CONSTANTS
  Jobs,         \* idempotency keys: one job row each, ever
  Procs,        \* the servers sharing the project database
  Concurrency,  \* loops per runUntilIdle call
  Kinds,        \* the job kinds enqueued: "suggest" (explain-fn and suggest-name),
                \* "readability" (its three kinds) and "other" (the unimplemented)
  MaxCrashes,   \* bound on process deaths
  MaxThrows     \* bound on statements refused by a locked database

ASSUME ConcurrencyAssumption == Concurrency \in Nat \ {0}

MAX_ATTEMPTS == 3

\* A call that rejects leaves its other loops running while the next call
\* starts, so a process needs identities for more loops than one call has.
Loops == Procs \X (1..(2 * Concurrency))
Proc(w) == w[1]

VARIABLES
  jobs,     \* the jobs table: status, kind and attempts per key
  created,  \* the keys in created_at order
  feed,     \* worker_events, per job
  unsent,   \* the event a process appends next, its UPDATE being committed,
            \* and the loop that did it (NoLoop: a route)
  landed,   \* the annotations and transactions each job wrote, in order
  result,   \* what jobs.result records as written
  loops,    \* where each loop is, on which job, what its attempt has written
  call,     \* the loops of the runUntilIdle call a server awaits ({}: not busy)
  route,    \* the job a cancel route has read as cancellable
  crashes, throws

tables == <<jobs, created, feed, landed, result>>
vars == <<tables, unsent, loops, call, route, crashes, throws>>

NoJob == "no job"
NoEvent == <<>>
NoLoop == <<>>
Terminal == {"done", "failed", "cancelled"}
Status == {"none", "queued", "running"} \cup Terminal
At(point, j) == [at |-> point, job |-> j, transient |-> FALSE, writes |-> <<>>]
Off == At("off", NoJob)
Ready == At("ready", NoJob)
Mid == {"picked", "claimed", "landing", "naming", "finishing", "finished", "failing", "failed"}
InFlight == Mid \cup {"awaiting", "surfaced"}

\* The event loop of p is free, but for w's own section.
FreeBut(p, own) ==
  /\ unsent[p] = NoEvent
  /\ route[p] = NoJob
  /\ \A x \in Loops \ own : Proc(x) = p => loops[x].at \notin Mid
Free(p) == FreeBut(p, {})
HasTurn(w) == FreeBut(Proc(w), {w})
Turn(w, point) == loops[w].at = point /\ HasTurn(w)

Init ==
  /\ jobs = [j \in Jobs |-> [status |-> "none", kind |-> "none", attempts |-> 0]]
  /\ created = <<>>
  /\ feed = [j \in Jobs |-> <<>>]
  /\ unsent = [p \in Procs |-> NoEvent]
  /\ landed = [j \in Jobs |-> <<>>]
  /\ result = [j \in Jobs |-> <<>>]
  /\ loops = [w \in Loops |-> Off]
  /\ call = [p \in Procs |-> {}]
  /\ route = [p \in Procs |-> NoJob]
  /\ crashes = 0
  /\ throws = 0

Goes(w, to) == loops' = [loops EXCEPT ![w] = to]
Announces(p, j, type, w) == unsent' = [unsent EXCEPT ![p] = <<j, type, w>>]
SetStatus(j, status) == jobs' = [jobs EXCEPT ![j].status = status]
-----------------------------------------------------------------------------
\* appendWorkerEvent, a statement of its own after the one it reports.
Announce(p) ==
  /\ unsent[p] # NoEvent
  /\ feed' = [feed EXCEPT ![unsent[p][1]] = Append(@, unsent[p][2])]
  /\ unsent' = [unsent EXCEPT ![p] = NoEvent]
  /\ UNCHANGED <<jobs, created, landed, result, loops, call, route, crashes, throws>>

\* enqueue: a key that already has a row, finished or not, is left alone.
Enqueue(p, j, kind) ==
  /\ Free(p)
  /\ jobs[j].status = "none"
  /\ jobs' = [jobs EXCEPT ![j] = [status |-> "queued", kind |-> kind, attempts |-> 0]]
  /\ created' = Append(created, j)
  /\ Announces(p, j, "queued", NoLoop)
  /\ UNCHANGED <<feed, landed, result, loops, call, route, crashes, throws>>

\* cancel, its read: a finished job is refused.
CancelFrom(p, j, statuses) ==
  /\ Free(p)
  /\ jobs[j].status \in statuses
  /\ route' = [route EXCEPT ![p] = j]
  /\ UNCHANGED <<tables, unsent, loops, call, crashes, throws>>
CancelReadAny(p, j) == CancelFrom(p, j, Status \ {"none"})
CancelRead(p, j) == CancelFrom(p, j, {"queued", "running"})

\* cancel, its UPDATE, which does not look at the status again.
CancelWrite(p) ==
  /\ route[p] # NoJob
  /\ SetStatus(route[p], "cancelled")
  /\ Announces(p, route[p], "cancelled", NoLoop)
  /\ route' = [route EXCEPT ![p] = NoJob]
  /\ UNCHANGED <<created, feed, landed, result, loops, call, crashes, throws>>

\* The server's interval: unless a call is still awaited, runUntilIdle
\* starts Concurrency loops.
TickUnless(p, busy) ==
  LET idle == {w \in Loops : Proc(w) = p /\ loops[w] = Off}
      started == CHOOSE S \in SUBSET idle : Cardinality(S) = Concurrency
  IN  /\ Free(p)
      /\ ~busy
      /\ Cardinality(idle) >= Concurrency
      /\ call' = [call EXCEPT ![p] = started]
      /\ loops' = [w \in Loops |-> IF w \in started THEN Ready ELSE loops[w]]
      /\ UNCHANGED <<tables, unsent, route, crashes, throws>>
TickAlways(p) == TickUnless(p, FALSE)
Tick(p) == TickUnless(p, call[p] # {})
-----------------------------------------------------------------------------
Queued == {i \in DOMAIN created : jobs[created[i]].status = "queued"}

\* claimNext, its SELECT: the oldest queued job, or the loop returns (and the
\* call with its last loop).
PickOrLeave(w, others) ==
  /\ Turn(w, "ready")
  /\ \/ Queued = {} /\ Goes(w, Off) /\ call' = [call EXCEPT ![Proc(w)] = others]
     \/ \E i \in Queued :
          (\A k \in Queued : i <= k) /\ Goes(w, At("picked", created[i])) /\ UNCHANGED call
  /\ UNCHANGED <<tables, unsent, route, crashes, throws>>

PickStaysBusy(w) == PickOrLeave(w, call[Proc(w)])
Pick(w) == PickOrLeave(w, call[Proc(w)] \ {w})

\* claimNext, its conditional UPDATE; a lost race selects again.
Started(row) == [status |-> "running", kind |-> row.kind, attempts |-> row.attempts + 1]

ClaimIf(w, wins) ==
  LET j == loops[w].job
  IN  /\ Turn(w, "picked")
      /\ IF wins
         THEN /\ jobs' = [jobs EXCEPT ![j] = Started(@)]
              /\ Announces(Proc(w), j, "started", w)
              /\ Goes(w, At("claimed", j))
         ELSE Goes(w, Ready) /\ UNCHANGED <<jobs, unsent>>
      /\ UNCHANGED <<created, feed, landed, result, call, route, crashes, throws>>
ClaimBlindly(w) == ClaimIf(w, TRUE)
Claim(w) == ClaimIf(w, jobs[loops[w].job].status = "queued")

\* The kind decides: an unimplemented one fails at once, the others claim
\* their target and call the backend or the readability surface.
Begin(w) ==
  LET j == loops[w].job
  IN  /\ Turn(w, "claimed")
      /\ Goes(w, At(IF jobs[j].kind = "other" THEN "failing" ELSE "awaiting", j))
      /\ UNCHANGED <<tables, unsent, call, route, crashes, throws>>

\* The job throws, and the handler will call fail.
Fails(w, point, transient) ==
  /\ Turn(w, point)
  /\ Goes(w, [At("failing", loops[w].job) EXCEPT !.transient = transient])
  /\ UNCHANGED <<tables, unsent, call, route, crashes, throws>>

\* The backend (or the readability surface's own call to it) rejects; or the
\* surface throws after its commit, writing the files of the tree.
BackendFails(w, transient) == Fails(w, "awaiting", transient)
TreeWriteFails(w) == Fails(w, "surfaced", FALSE)

\* The status is read again, and the loop goes on only while it is running.
Reread(w, point, next) ==
  /\ Turn(w, point)
  /\ Goes(w, IF jobs[loops[w].job].status = "running"
             THEN [loops[w] EXCEPT !.at = next] ELSE Ready)
  /\ UNCHANGED <<tables, unsent, call, route, crashes, throws>>

\* The backend answered; or the surface did, its write already made.
Works(w, kind) == loops[w].at = "awaiting" /\ jobs[loops[w].job].kind = kind
AnsweredUnchecked(w) ==
  /\ Works(w, "suggest")
  /\ HasTurn(w)
  /\ Goes(w, At("landing", loops[w].job))
  /\ UNCHANGED <<tables, unsent, call, route, crashes, throws>>
Answered(w) == Works(w, "suggest") /\ Reread(w, "awaiting", "landing")
SurfaceAnswered(w) == Reread(w, "surfaced", "finishing")

Land(w, tool, next) ==
  /\ landed' = [landed EXCEPT ![loops[w].job] = Append(@, tool)]
  /\ Goes(w, [loops[w] EXCEPT !.at = next, !.writes = Append(@, tool)])
  /\ UNCHANGED <<jobs, created, feed, result, unsent, call, route, crashes, throws>>

\* A readability surface commits what its gate accepts before it answers, and
\* answers without writing when the gate accepts nothing.
SurfaceWrites(w) == Works(w, "readability") /\ HasTurn(w) /\ Land(w, "tx", "surfaced")
SurfaceDeclines(w) ==
  /\ Works(w, "readability")
  /\ HasTurn(w)
  /\ Goes(w, At("surfaced", loops[w].job))
  /\ UNCHANGED <<tables, unsent, call, route, crashes, throws>>

\* Every answer lands as a comment; one that proposes a name, as a name too.
LandComment(w) ==
  \E next \in {"naming", "finishing"} : Turn(w, "landing") /\ Land(w, "add_comment", next)
LandName(w) == Turn(w, "naming") /\ Land(w, "set_name", "finishing")

\* set_name refuses a target the artifact index does not resolve, after the
\* comment on it has landed.
NameRefusedRetried(w) == Fails(w, "naming", TRUE)
NameRefused(w) == Fails(w, "naming", FALSE)

\* finish and fail read the status, then UPDATE ... AND status = 'running';
\* the event is appended whether or not a row changed.  What finish records
\* is the attempt's own list of writes, or the surface's own answer.
FinishRead(w) == Reread(w, "finishing", "finished")
FailRead(w) == Reread(w, "failing", "failed")

FinishWrite(w) ==
  LET j == loops[w].job
  IN  /\ Turn(w, "finished")
      /\ IF jobs[j].status = "running"
         THEN SetStatus(j, "done") /\ result' = [result EXCEPT ![j] = loops[w].writes]
         ELSE UNCHANGED <<jobs, result>>
      /\ Announces(Proc(w), j, "done", w)
      /\ Goes(w, Ready)
      /\ UNCHANGED <<created, feed, landed, call, route, crashes, throws>>

\* A transient failure requeues while attempts remain.
RequeuesOneMore(w) == loops[w].transient /\ jobs[loops[w].job].attempts <= MAX_ATTEMPTS
Requeues(w) == loops[w].transient /\ jobs[loops[w].job].attempts < MAX_ATTEMPTS

FailAs(w, requeue, type) ==
  LET j == loops[w].job
  IN  /\ Turn(w, "failed")
      /\ IF jobs[j].status = "running"
         THEN SetStatus(j, IF requeue THEN "queued" ELSE "failed")
         ELSE UNCHANGED jobs
      /\ Announces(Proc(w), j, type, w)
      /\ Goes(w, Ready)
      /\ UNCHANGED <<created, feed, landed, result, call, route, crashes, throws>>
FailWriteSaysFailed(w) == FailAs(w, Requeues(w), "failed")
FailWrite(w) == FailAs(w, Requeues(w), IF Requeues(w) THEN "requeued" ELSE "failed")
-----------------------------------------------------------------------------
\* A write is refused because another process holds the write lock.  Inside
\* the job's try it fails the job; in claimNext, in the claim on the target
\* or in the handler itself, it rejects the call that started the loop: the
\* server is no longer busy, the call's other loops go on.
Throws == throws < MaxThrows /\ throws' = throws + 1
Rejects(w) ==
  /\ Goes(w, Off)
  /\ call' = [call EXCEPT ![Proc(w)] = IF w \in @ THEN {} ELSE @]

Refused(w) ==
  /\ Throws
  /\ HasTurn(w)
  /\ \/ /\ loops[w].at \in {"landing", "naming", "finishing", "finished"}
        /\ Goes(w, At("failing", loops[w].job))
        /\ UNCHANGED call
     \/ /\ loops[w].at \in {"ready", "picked", "claimed", "failing", "failed"}
        /\ Rejects(w)
  /\ UNCHANGED <<tables, unsent, route, crashes>>

\* So is the INSERT of a loop's event, after the UPDATE it reports: the event
\* is lost.  After `done` the handler's fail reads a finished job and leaves
\* it; the other events are appended outside the try.
EventRefused(w) ==
  LET p == Proc(w)
  IN  /\ Throws
      /\ unsent[p] # NoEvent
      /\ unsent[p][3] = w
      /\ unsent' = [unsent EXCEPT ![p] = NoEvent]
      /\ IF unsent[p][2] = "done" THEN UNCHANGED <<loops, call>> ELSE Rejects(w)
      /\ UNCHANGED <<tables, route, crashes>>

\* A route's UPDATE, or the event of its enqueue or cancel, is refused: the
\* request fails.
RouteRefused(p) ==
  /\ Throws
  /\ \/ route[p] # NoJob
     \/ unsent[p] # NoEvent /\ unsent[p][3] = NoLoop
  /\ route' = [route EXCEPT ![p] = NoJob]
  /\ unsent' = [unsent EXCEPT ![p] = NoEvent]
  /\ UNCHANGED <<tables, loops, call, crashes>>

\* A process dies, wherever it is, and is started again: its loops are gone,
\* its event unsent, its running jobs left running.
Crash(p) ==
  /\ crashes < MaxCrashes
  /\ crashes' = crashes + 1
  /\ loops' = [w \in Loops |-> IF Proc(w) = p THEN Off ELSE loops[w]]
  /\ call' = [call EXCEPT ![p] = {}]
  /\ route' = [route EXCEPT ![p] = NoJob]
  /\ unsent' = [unsent EXCEPT ![p] = NoEvent]
  /\ UNCHANGED <<tables, throws>>

\* What a loop does without being asked.
LoopStep(w) ==
  \/ Pick(w) \/ Claim(w) \/ Begin(w)
  \/ Answered(w) \/ SurfaceWrites(w) \/ SurfaceDeclines(w) \/ SurfaceAnswered(w)
  \/ LandComment(w) \/ LandName(w) \/ NameRefused(w)
  \/ FinishRead(w) \/ FinishWrite(w) \/ FailRead(w) \/ FailWrite(w)

Next ==
  \/ \E p \in Procs :
       \/ Announce(p) \/ Tick(p) \/ CancelWrite(p) \/ RouteRefused(p) \/ Crash(p)
       \/ \E j \in Jobs : CancelRead(p, j) \/ \E kind \in Kinds : Enqueue(p, j, kind)
  \/ \E w \in Loops :
       \/ LoopStep(w)
       \/ \E transient \in BOOLEAN : BackendFails(w, transient)
       \/ TreeWriteFails(w)
       \/ Refused(w) \/ EventRefused(w)

Spec == Init /\ [][Next]_vars

\* The interval keeps ticking, a loop that can run runs, and the backend
\* answers or fails: the command-line backend bounds every call by a timeout.
FairSpec ==
  /\ Spec
  /\ \A p \in Procs : WF_vars(Announce(p)) /\ WF_vars(Tick(p)) /\ WF_vars(CancelWrite(p))
  /\ \A w \in Loops : WF_vars(LoopStep(w))
-----------------------------------------------------------------------------
TypeOK ==
  /\ jobs \in [Jobs -> [status : Status, kind : Kinds \cup {"none"}, attempts : 0..MAX_ATTEMPTS]]
  /\ IsInjective(created) /\ Range(created) \subseteq Jobs
  /\ \A w \in Loops : loops[w].at \in {"off", "ready"} \cup InFlight
                      /\ loops[w].job \in Jobs \cup {NoJob}
  /\ call \in [Procs -> SUBSET Loops]
  /\ route \in [Procs -> Jobs \cup {NoJob}]

\* No two loops, of one server or of two, ever work on the same job: the
\* conditional UPDATE is the only way into `running`, and a job that leaves
\* `running` early is not queued again.
OneOwner ==
  \A v, w \in Loops :
    v # w /\ loops[v].at \in InFlight \ {"picked"} /\ loops[w].at \in InFlight \ {"picked"}
      => loops[v].job # loops[w].job

\* The state machine of queue.ts's header.
LegalTransitions ==
  [][\A j \in Jobs :
       LET from == jobs[j].status
           to == jobs'[j].status
       IN  from # to =>
             <<from, to>> \in {<<"none", "queued">>, <<"queued", "running">>,
                               <<"queued", "cancelled">>, <<"running", "done">>,
                               <<"running", "failed">>, <<"running", "queued">>,
                               <<"running", "cancelled">>}]_vars

\* Every transition appends its event, so the last event of a job tells its
\* status to a rail that only reads the feed.  (A death or a refused INSERT
\* between the two loses the event: with either it does not hold.)
Tells(type) ==
  CASE type = "started" -> "running" [] type = "requeued" -> "queued" [] OTHER -> type
FeedTellsStatus ==
  \A j \in Jobs :
    jobs[j].status # "none" /\ (\A p \in Procs : unsent[p] = NoEvent \/ unsent[p][1] # j)
      => feed[j] # <<>> /\ Tells(Last(feed[j])) = jobs[j].status

\* Cancellation is a guarantee about writes: a cancelled job landed nothing.
CancelledLandsNothing == \A j \in Jobs : jobs[j].status = "cancelled" => landed[j] = <<>>

\* A retry repeats no write and loses none: whatever attempts a job needed,
\* each tool landed at most once, and what the last attempt recorded of its
\* own writes is all that the job's attempts together have landed.
LandsOnce ==
  \A j \in Jobs :
    /\ IsInjective(landed[j])
    /\ jobs[j].status = "done" => result[j] = landed[j]
    /\ jobs[j].status = "done" /\ jobs[j].kind = "suggest" => landed[j] # <<>>

\* A server has one pool: the loops started by its last call are the only
\* ones, and no tick adds to them before the last has returned.  The cap on
\* jobs in flight rests on nothing else.
OnePool ==
  \A p \in Procs :
    Cardinality({w \in Loops : Proc(w) = p /\ loops[w].at # "off"}) <= Concurrency

\* runUntilIdle's cap: at most Concurrency jobs of a server are in flight,
\* also when a statement of one loop is refused.  (With MaxThrows = 1 it is
\* violated: the README says how.)
InFlightCap ==
  \A p \in Procs :
    Cardinality({w \in Loops : Proc(w) = p /\ loops[w].at \in InFlight}) <= Concurrency

\* A running job is somebody's: a loop still has it in hand.  (After a death
\* it is nobody's for ever: the README says so.)
RunningIsOwned ==
  \A j \in Jobs : jobs[j].status = "running" => \E w \in Loops : loops[w].job = j

\* The pool drains: a queued job ends, whatever other jobs do.
Drains == \A j \in Jobs : jobs[j].status = "queued" ~> jobs[j].status \in Terminal
=============================================================================
