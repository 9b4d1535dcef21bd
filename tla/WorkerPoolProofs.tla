-------------------------- MODULE WorkerPoolProofs --------------------------
(***************************************************************************)
(* For any number of jobs, servers and loops: two loops never work on the  *)
(* same job.  A loop holds a job from its conditional UPDATE on, and what  *)
(* makes the claim exclusive is that a held job is neither queued nor      *)
(* absent: nobody can claim it until its holder has let it go.             *)
(***************************************************************************)
EXTENDS WorkerPool, SequenceTheorems, FiniteSetTheorems, TLAPS

Points == {"off", "ready"} \cup InFlight
Tools == {"tx", "add_comment", "set_name"}
LoopState == [at : Points, job : Jobs \cup {NoJob}, transient : BOOLEAN, writes : Seq(Tools)]
JobRow == [status : Status, kind : Kinds \cup {"none"}, attempts : Nat]

Typed ==
  /\ jobs \in [Jobs -> JobRow]
  /\ created \in Seq(Jobs)
  /\ loops \in [Loops -> LoopState]
  /\ \A w \in Loops : loops[w].at \in InFlight => loops[w].job \in Jobs
  /\ route \in [Procs -> Jobs \cup {NoJob}]

Holding == InFlight \ {"picked"}

\* What makes OneOwner inductive: a held job is not there to be claimed.
HeldIsTaken ==
  \A w \in Loops : loops[w].at \in Holding => jobs[loops[w].job].status \notin {"none", "queued"}

IInv == Typed /\ OneOwner /\ HeldIsTaken
-----------------------------------------------------------------------------
\* The constant parts of the state machine of a loop.
LEMMA LoopStates ==
  /\ Off \in LoopState /\ Off.at \notin InFlight
  /\ Ready \in LoopState /\ Ready.at \notin InFlight
  /\ \A point \in Points, j \in Jobs : /\ At(point, j) \in LoopState
                                       /\ At(point, j).at = point
                                       /\ At(point, j).job = j
<1>1. <<>> \in Seq(Tools)
  OBVIOUS
<1>2. \A point \in Points, j \in Jobs \cup {NoJob} :
        /\ At(point, j) \in LoopState
        /\ At(point, j).at = point
        /\ At(point, j).job = j
  BY <1>1 DEF At, LoopState
<1>3. /\ "off" \in Points /\ "off" \notin InFlight
      /\ "ready" \in Points /\ "ready" \notin InFlight
  BY DEF Points, InFlight, Mid
<1> QED
  BY <1>2, <1>3 DEF Off, Ready

\* A loop that moves, the tables being left alone, keeps the invariant if it
\* holds a job afterwards only where it held the same one before.
LEMMA MoveKeeps ==
  ASSUME IInv, NEW w \in Loops, NEW to \in LoopState, Goes(w, to),
         to.at \in InFlight => to.job \in Jobs,
         to.at \in Holding => loops[w].at \in Holding /\ loops[w].job = to.job,
         UNCHANGED <<jobs, created, route>>
  PROVE  IInv'
<1>1. /\ loops' \in [Loops -> LoopState]
      /\ loops'[w] = to
      /\ \A x \in Loops \ {w} : loops'[x] = loops[x]
  BY DEF IInv, Typed, Goes
<1>2. Typed'
  BY <1>1 DEF IInv, Typed
<1>3. \A x \in Loops : loops'[x].at \in Holding =>
                         loops[x].at \in Holding /\ loops[x].job = loops'[x].job
  BY <1>1
<1>4. OneOwner'
  BY <1>3 DEF IInv, OneOwner, Holding
<1>5. HeldIsTaken'
  BY <1>3 DEF IInv, HeldIsTaken
<1> QED
  BY <1>2, <1>4, <1>5 DEF IInv

\* A job whose row changes keeps it too, if the loop that changes it lets go
\* of it, or if the job does not become claimable.
LEMMA RowKeeps ==
  ASSUME IInv, NEW j \in Jobs, NEW row \in JobRow,
         jobs' = [jobs EXCEPT ![j] = row],
         created' \in Seq(Jobs), route' \in [Procs -> Jobs \cup {NoJob}],
         loops' \in [Loops -> LoopState],
         \A x \in Loops : loops'[x] = loops[x] \/ loops'[x].at \notin InFlight,
         \A x \in Loops : loops'[x].at \in Holding /\ loops[x].job = j
                            => row.status \notin {"none", "queued"}
  PROVE  IInv'
<1>1. Typed'
  BY DEF IInv, Typed
<1>2. \A x \in Loops : loops'[x].at \in Holding => loops'[x] = loops[x]
  BY DEF Holding
<1>3. OneOwner'
  BY <1>2 DEF IInv, OneOwner, Holding
<1>4. \A x \in Loops : loops'[x].at \in Holding => loops[x].job \in Jobs
  BY <1>2 DEF IInv, Typed, Holding
<1>5. HeldIsTaken'
  BY <1>2, <1>4 DEF IInv, HeldIsTaken, Typed
<1> QED
  BY <1>1, <1>3, <1>5 DEF IInv
-----------------------------------------------------------------------------
\* An empty queue with no loop running satisfies it.
LEMMA InitEstablishes == Init => IInv
<1> SUFFICES ASSUME Init PROVE IInv
  OBVIOUS
<1>1. Typed
  BY LoopStates DEF Init, Typed, JobRow, Status
<1>2. \A w \in Loops : loops[w].at \notin InFlight
  BY LoopStates DEF Init
<1> QED
  BY <1>1, <1>2 DEF IInv, OneOwner, HeldIsTaken, Holding

\* The loops of a server that died hold nothing.
LEMMA LettingGoKeeps ==
  ASSUME IInv, loops' \in [Loops -> LoopState],
         \A x \in Loops : loops'[x] = loops[x] \/ loops'[x].at \notin InFlight,
         UNCHANGED <<jobs, created>>, route' \in [Procs -> Jobs \cup {NoJob}]
  PROVE  IInv'
<1>1. Typed'
  BY DEF IInv, Typed
<1>2. \A x \in Loops : loops'[x].at \in Holding => loops'[x] = loops[x]
  BY DEF Holding
<1>3. OneOwner' /\ HeldIsTaken'
  BY <1>2 DEF IInv, OneOwner, HeldIsTaken, Holding
<1> QED
  BY <1>1, <1>3 DEF IInv

\* A loop that goes on within its job: the points it may go to keep the job.
LEMMA StepsOn ==
  ASSUME IInv, NEW w \in Loops, loops[w].at \in Holding, NEW to \in LoopState,
         to.job = loops[w].job, Goes(w, to), UNCHANGED <<jobs, created, route>>
  PROVE  IInv'
<1>1. loops[w].job \in Jobs
  BY DEF IInv, Typed, Holding
<1> QED
  BY <1>1, MoveKeeps

\* A loop that is done with its job and turns to the next.
LEMMA TurnsAway ==
  ASSUME IInv, NEW w \in Loops, NEW to \in {Off, Ready}, Goes(w, to),
         UNCHANGED <<jobs, created, route>>
  PROVE  IInv'
<1>1. to \in LoopState /\ to.at \notin InFlight /\ to.at \notin Holding
  BY LoopStates DEF Holding
<1> QED
  BY <1>1, MoveKeeps

\* The states a step of a job takes its loop to.
LEMMA NextPoints ==
  ASSUME IInv, NEW w \in Loops, loops[w].at \in Holding, NEW point \in InFlight,
         NEW t \in BOOLEAN
  PROVE  /\ At(point, loops[w].job) \in LoopState
         /\ At(point, loops[w].job).job = loops[w].job
         /\ [At(point, loops[w].job) EXCEPT !.transient = t] \in LoopState
         /\ [At(point, loops[w].job) EXCEPT !.transient = t].job = loops[w].job
         /\ [loops[w] EXCEPT !.at = point] \in LoopState
         /\ [loops[w] EXCEPT !.at = point].job = loops[w].job
         /\ \A tool \in Tools :
              LET to == [loops[w] EXCEPT !.at = point, !.writes = Append(@, tool)]
              IN  to \in LoopState /\ to.job = loops[w].job
<1>1. loops[w] \in LoopState /\ loops[w].job \in Jobs
  BY DEF IInv, Typed, Holding
<1>2. \A tool \in Tools : Append(loops[w].writes, tool) \in Seq(Tools)
  BY <1>1 DEF LoopState
<1>3. /\ [loops[w] EXCEPT !.at = point] \in LoopState
      /\ [loops[w] EXCEPT !.at = point].job = loops[w].job
  BY <1>1 DEF LoopState, Points
<1>4. ASSUME NEW tool \in Tools
      PROVE  LET to == [loops[w] EXCEPT !.at = point, !.writes = Append(@, tool)]
             IN  to \in LoopState /\ to.job = loops[w].job
  BY <1>1, <1>2 DEF LoopState, Points
<1>5. /\ At(point, loops[w].job) \in LoopState
      /\ At(point, loops[w].job).job = loops[w].job
      /\ [At(point, loops[w].job) EXCEPT !.transient = t] \in LoopState
      /\ [At(point, loops[w].job) EXCEPT !.transient = t].job = loops[w].job
  <2>1. At(point, loops[w].job) \in LoopState /\ At(point, loops[w].job).job = loops[w].job
    BY <1>1, LoopStates DEF Points
  <2> QED
    BY <2>1 DEF LoopState
<1> QED
  BY <1>3, <1>4, <1>5

\* The points at which a loop works on a job it has claimed.
LEMMA HoldingPoints ==
  /\ {"claimed", "awaiting", "surfaced", "landing", "naming", "finishing", "finished",
      "failing", "failed"} \subseteq Holding
  /\ Holding \subseteq InFlight
  /\ "picked" \in InFlight /\ "picked" \notin Holding
  /\ "ready" \notin Holding
BY DEF Holding, InFlight, Mid
-----------------------------------------------------------------------------
\* claimNext: what makes the claim exclusive.
LEMMA ClaimKeeps == ASSUME IInv, NEW w \in Loops, Claim(w) PROVE IInv'
<1> DEFINE j == loops[w].job
           row == Started(jobs[j])
<1>1. loops[w].at = "picked" /\ j \in Jobs
  BY HoldingPoints DEF IInv, Typed, Claim, ClaimIf, Turn
<1>2. CASE jobs[j].status # "queued"
  <2>1. Goes(w, Ready) /\ UNCHANGED <<jobs, created, route>>
    BY <1>2 DEF Claim, ClaimIf
  <2> QED
    BY <2>1, TurnsAway
<1>3. CASE jobs[j].status = "queued"
  <2>1. /\ jobs' = [jobs EXCEPT ![j] = row]
        /\ Goes(w, At("claimed", j)) /\ UNCHANGED <<created, route>>
    BY <1>3 DEF Claim, ClaimIf
  <2>3. jobs[j] \in JobRow
    BY <1>1 DEF IInv, Typed
  <2>2. row \in JobRow /\ row.status = "running"
    BY <2>3 DEF Started, JobRow, Status
  <2>4. At("claimed", j) \in LoopState /\ At("claimed", j).job = j /\ At("claimed", j).at = "claimed"
    BY <1>1, LoopStates, HoldingPoints DEF Points
  <2>5. /\ loops' \in [Loops -> LoopState]
        /\ loops'[w] = At("claimed", j)
        /\ \A x \in Loops \ {w} : loops'[x] = loops[x]
    BY <2>1, <2>4 DEF Goes, IInv, Typed
  <2>6. Typed'
    BY <1>1, <2>1, <2>2, <2>4, <2>5 DEF IInv, Typed
  <2>7. \A x \in Loops : loops[x].at \in Holding => loops[x].job # j
    BY <1>3 DEF IInv, HeldIsTaken
  <2>8. OneOwner'
    BY <2>4, <2>5, <2>7 DEF IInv, OneOwner, Holding
  <2>9. HeldIsTaken'
    <3> SUFFICES ASSUME NEW x \in Loops, loops'[x].at \in Holding
                 PROVE  jobs'[loops'[x].job].status \notin {"none", "queued"}
      BY DEF HeldIsTaken
    <3>1. CASE x = w
      BY <3>1, <1>1, <2>1, <2>2, <2>4, <2>5 DEF IInv, Typed
    <3>2. CASE x # w
      <4>1. loops'[x] = loops[x] /\ loops[x].job \in Jobs \ {j}
        BY <3>2, <2>5, <2>7, HoldingPoints DEF IInv, Typed
      <4>2. jobs'[loops[x].job] = jobs[loops[x].job]
        BY <4>1, <2>1, <1>1 DEF IInv, Typed
      <4> QED
        BY <4>1, <4>2 DEF IInv, HeldIsTaken
    <3> QED
      BY <3>1, <3>2
  <2> QED
    BY <2>6, <2>8, <2>9 DEF IInv
<1> QED
  BY <1>2, <1>3

\* finish and fail: the row is settled and the loop lets go of the job, so
\* that even a requeued job has no holder.
LEMMA SettleKeeps ==
  ASSUME IInv, NEW w \in Loops, loops[w].at \in Holding, NEW status \in Status,
         SetStatus(loops[w].job, status), Goes(w, Ready), UNCHANGED <<created, route>>
  PROVE  IInv'
<1> DEFINE j == loops[w].job
           row == [jobs[j] EXCEPT !.status = status]
<1>1. j \in Jobs
  BY HoldingPoints DEF IInv, Typed
<1>2. row \in JobRow /\ jobs' = [jobs EXCEPT ![j] = row]
  BY <1>1 DEF IInv, Typed, JobRow, SetStatus
<1>3. /\ loops' \in [Loops -> LoopState]
      /\ loops'[w] = Ready
      /\ \A x \in Loops \ {w} : loops'[x] = loops[x]
  BY LoopStates DEF Goes, IInv, Typed
<1>4. \A x \in Loops : loops'[x].at \in Holding => loops'[x] = loops[x] /\ loops[x].job # j
  BY <1>3, LoopStates, HoldingPoints DEF IInv, OneOwner, Holding
<1>5. created' \in Seq(Jobs) /\ route' \in [Procs -> Jobs \cup {NoJob}]
  BY DEF IInv, Typed
<1>6. \A x \in Loops : loops'[x] = loops[x] \/ loops'[x].at \notin InFlight
  BY <1>3, LoopStates
<1>7. \A x \in Loops : loops'[x].at \in Holding /\ loops[x].job = j
                         => row.status \notin {"none", "queued"}
  BY <1>4
<1> HIDE DEF row, j
<1> QED
  BY <1>1, <1>2, <1>3, <1>5, <1>6, <1>7, RowKeeps

\* A loop's own steps.
LEMMA LoopStepKeeps == ASSUME IInv, NEW w \in Loops, LoopStep(w) PROVE IInv'
<1>1. CASE Pick(w)
  <2>1. CASE Queued = {}
    <3>1. Goes(w, Off) /\ UNCHANGED <<jobs, created, route>>
      BY <1>1, <2>1 DEF Pick, PickOrLeave, tables
    <3> QED
      BY <3>1, TurnsAway
  <2>2. ASSUME NEW i \in Queued, Goes(w, At("picked", created[i]))
        PROVE  IInv'
    <3>1. created[i] \in Jobs
      BY DEF Queued, IInv, Typed
    <3>2. UNCHANGED <<jobs, created, route>>
      BY <1>1 DEF Pick, PickOrLeave, tables
    <3>3. /\ At("picked", created[i]) \in LoopState
          /\ At("picked", created[i]).at \notin Holding
          /\ At("picked", created[i]).job \in Jobs
      BY <3>1, LoopStates, HoldingPoints DEF Points
    <3> QED
      BY <2>2, <3>2, <3>3, MoveKeeps
  <2> QED
    BY <1>1, <2>1, <2>2 DEF Pick, PickOrLeave
<1>2. CASE Claim(w)
  BY <1>2, ClaimKeeps
<1>3. CASE Begin(w)
  <2>1. /\ loops[w].at \in Holding
        /\ UNCHANGED <<jobs, created, route>>
        /\ \E point \in {"failing", "awaiting"} : Goes(w, At(point, loops[w].job))
    BY <1>3, HoldingPoints DEF Begin, Turn, tables
  <2> QED
    BY <2>1, HoldingPoints, NextPoints, StepsOn
<1>4. ASSUME NEW point \in Holding, NEW next \in Holding, Reread(w, point, next)
      PROVE  IInv'
  <2>1. /\ loops[w].at \in Holding
        /\ UNCHANGED <<jobs, created, route>>
        /\ Goes(w, [loops[w] EXCEPT !.at = next]) \/ Goes(w, Ready)
    BY <1>4 DEF Reread, Turn, tables
  <2> QED
    BY <2>1, HoldingPoints, NextPoints, StepsOn, TurnsAway
<1>5. ASSUME NEW tool \in Tools, NEW next \in Holding, Land(w, tool, next), loops[w].at \in Holding
      PROVE  IInv'
  <2>1. /\ UNCHANGED <<jobs, created, route>>
        /\ Goes(w, [loops[w] EXCEPT !.at = next, !.writes = Append(@, tool)])
    BY <1>5 DEF Land
  <2>2. next \in InFlight /\ loops[w].at \in Holding /\ FALSE \in BOOLEAN
    BY <1>5, HoldingPoints
  <2> DEFINE to == [loops[w] EXCEPT !.at = next, !.writes = Append(@, tool)]
  <2>3. to \in LoopState /\ to.job = loops[w].job
    BY <2>2, NextPoints
  <2> HIDE DEF to
  <2>4. Goes(w, to)
    BY <2>1 DEF to
  <2> QED
    BY <2>1, <2>2, <2>3, <2>4, StepsOn
<1>6. CASE Answered(w) \/ SurfaceAnswered(w) \/ FinishRead(w) \/ FailRead(w)
  BY <1>6, <1>4, HoldingPoints DEF Answered, SurfaceAnswered, FinishRead, FailRead
<1>7. CASE SurfaceWrites(w) \/ LandComment(w) \/ LandName(w)
  BY <1>7, <1>5, HoldingPoints DEF SurfaceWrites, LandComment, LandName, Works, Turn, Tools
<1>8. CASE SurfaceDeclines(w)
  <2>1. /\ loops[w].at \in Holding
        /\ UNCHANGED <<jobs, created, route>>
        /\ Goes(w, At("surfaced", loops[w].job))
    BY <1>8, HoldingPoints DEF SurfaceDeclines, Works, tables
  <2> QED
    BY <2>1, HoldingPoints, NextPoints, StepsOn
<1>9. CASE NameRefused(w)
  <2>1. /\ loops[w].at \in Holding
        /\ UNCHANGED <<jobs, created, route>>
        /\ Goes(w, [At("failing", loops[w].job) EXCEPT !.transient = FALSE])
    BY <1>9, HoldingPoints DEF NameRefused, Fails, Turn, tables
  <2> QED
    BY <2>1, HoldingPoints, NextPoints, StepsOn
<1>10. CASE FinishWrite(w)
  <2>1. loops[w].at \in Holding /\ Goes(w, Ready) /\ UNCHANGED <<created, route>>
    BY <1>10, HoldingPoints DEF FinishWrite, Turn
  <2>2. SetStatus(loops[w].job, "done") \/ UNCHANGED jobs
    BY <1>10 DEF FinishWrite
  <2> QED
    BY <2>1, <2>2, SettleKeeps, TurnsAway DEF Status, Terminal
<1>11. CASE FailWrite(w)
  <2>1. loops[w].at \in Holding /\ Goes(w, Ready) /\ UNCHANGED <<created, route>>
    BY <1>11, HoldingPoints DEF FailWrite, FailAs, Turn
  <2>2. SetStatus(loops[w].job, "queued") \/ SetStatus(loops[w].job, "failed") \/ UNCHANGED jobs
    BY <1>11 DEF FailWrite, FailAs
  <2> QED
    BY <2>1, <2>2, SettleKeeps, TurnsAway DEF Status, Terminal
<1> QED
  BY <1>1, <1>2, <1>3, <1>6, <1>7, <1>8, <1>9, <1>10, <1>11 DEF LoopStep

\* Everything else: the event, the routes, the interval, failures and deaths.
LEMMA StepKeeps == IInv /\ [Next]_vars => IInv'
<1> SUFFICES ASSUME IInv, [Next]_vars PROVE IInv'
  OBVIOUS
<1>1. ASSUME NEW p \in Procs, Announce(p) PROVE IInv'
  BY <1>1, LettingGoKeeps DEF Announce, IInv, Typed
<1>2. ASSUME NEW p \in Procs, NEW j \in Jobs, CancelRead(p, j) PROVE IInv'
  <2>1. /\ UNCHANGED <<jobs, created, loops>>
        /\ route' \in [Procs -> Jobs \cup {NoJob}]
    BY <1>2 DEF CancelRead, CancelFrom, tables, IInv, Typed
  <2> QED
    BY <2>1, LettingGoKeeps DEF IInv, Typed
<1>3. ASSUME NEW p \in Procs, CancelWrite(p) PROVE IInv'
  <2> DEFINE j == route[p]
             row == [jobs[j] EXCEPT !.status = "cancelled"]
  <2>1. j \in Jobs
    BY <1>3 DEF CancelWrite, IInv, Typed
  <2>2. row \in JobRow /\ row.status = "cancelled" /\ jobs' = [jobs EXCEPT ![j] = row]
    BY <1>3, <2>1 DEF CancelWrite, SetStatus, IInv, Typed, JobRow, Status, Terminal
  <2>3. UNCHANGED <<created, loops>> /\ route' \in [Procs -> Jobs \cup {NoJob}]
    BY <1>3 DEF CancelWrite, IInv, Typed
  <2>4. loops' \in [Loops -> LoopState] /\ created' \in Seq(Jobs)
    BY <2>3 DEF IInv, Typed
  <2> HIDE DEF row, j
  <2> QED
    BY <2>1, <2>2, <2>3, <2>4, RowKeeps
<1>4. ASSUME NEW p \in Procs, NEW j \in Jobs, NEW kind \in Kinds, Enqueue(p, j, kind)
      PROVE  IInv'
  <2> DEFINE row == [status |-> "queued", kind |-> kind, attempts |-> 0]
  <2>1. row \in JobRow
    BY DEF JobRow, Status
  <2>2. /\ jobs' = [jobs EXCEPT ![j] = row]
        /\ created' \in Seq(Jobs)
        /\ UNCHANGED <<loops, route>>
    BY <1>4 DEF Enqueue, IInv, Typed
  <2>3. loops' \in [Loops -> LoopState] /\ route' \in [Procs -> Jobs \cup {NoJob}]
    BY <2>2 DEF IInv, Typed
  <2>4. \A x \in Loops : loops[x].at \in Holding => loops[x].job # j
    BY <1>4 DEF Enqueue, IInv, HeldIsTaken
  <2> HIDE DEF row
  <2> QED
    BY <2>1, <2>2, <2>3, <2>4, RowKeeps
<1>5. ASSUME NEW p \in Procs, Tick(p) PROVE IInv'
  <2>1. PICK started : loops' = [w \in Loops |-> IF w \in started THEN Ready ELSE loops[w]]
    BY <1>5 DEF Tick, TickUnless
  <2>2. UNCHANGED <<jobs, created, route>>
    BY <1>5 DEF Tick, TickUnless, tables
  <2>3. /\ loops' \in [Loops -> LoopState]
        /\ \A x \in Loops : loops'[x] = loops[x] \/ loops'[x].at \notin InFlight
    BY <2>1, LoopStates DEF IInv, Typed
  <2> QED
    BY <2>2, <2>3, LettingGoKeeps DEF IInv, Typed
<1>6. ASSUME NEW p \in Procs, Crash(p) PROVE IInv'
  <2>1. UNCHANGED <<jobs, created>> /\ route' \in [Procs -> Jobs \cup {NoJob}]
    BY <1>6 DEF Crash, tables, IInv, Typed
  <2>2. /\ loops' \in [Loops -> LoopState]
        /\ \A x \in Loops : loops'[x] = loops[x] \/ loops'[x].at \notin InFlight
    BY <1>6, LoopStates DEF Crash, IInv, Typed
  <2> QED
    BY <2>1, <2>2, LettingGoKeeps
<1>7. ASSUME NEW w \in Loops, NEW point \in Holding, NEW transient \in BOOLEAN,
             Fails(w, point, transient)
      PROVE  IInv'
  <2>1. /\ loops[w].at \in Holding
        /\ UNCHANGED <<jobs, created, route>>
        /\ Goes(w, [At("failing", loops[w].job) EXCEPT !.transient = transient])
    BY <1>7 DEF Fails, Turn, tables
  <2> QED
    BY <2>1, HoldingPoints, NextPoints, StepsOn
<1>8. ASSUME NEW w \in Loops, Refused(w) PROVE IInv'
  <2>1. UNCHANGED <<jobs, created, route>>
    BY <1>8 DEF Refused, tables
  <2>2. CASE loops[w].at \in Holding /\ Goes(w, At("failing", loops[w].job))
    BY <2>1, <2>2, HoldingPoints, NextPoints, StepsOn
  <2>3. CASE Goes(w, Off)
    BY <2>1, <2>3, TurnsAway
  <2> QED
    BY <1>8, <2>2, <2>3, HoldingPoints DEF Refused, Rejects
<1>11. ASSUME NEW w \in Loops, EventRefused(w) PROVE IInv'
  <2>1. UNCHANGED <<jobs, created, route>> /\ (UNCHANGED loops \/ Goes(w, Off))
    BY <1>11 DEF EventRefused, Rejects, tables
  <2> QED
    BY <2>1, TurnsAway, LettingGoKeeps DEF IInv, Typed
<1>12. ASSUME NEW p \in Procs, RouteRefused(p) PROVE IInv'
  <2>1. UNCHANGED <<jobs, created, loops>> /\ route' \in [Procs -> Jobs \cup {NoJob}]
    BY <1>12 DEF RouteRefused, tables, IInv, Typed
  <2> QED
    BY <2>1, LettingGoKeeps DEF IInv, Typed
<1>9. CASE UNCHANGED vars
  BY <1>9, LettingGoKeeps DEF vars, tables, IInv, Typed
<1>10. ASSUME NEW w \in Loops, LoopStep(w) PROVE IInv'
  BY <1>10, LoopStepKeeps
<1> QED
  BY <1>1, <1>2, <1>3, <1>4, <1>5, <1>6, <1>7, <1>8, <1>9, <1>10, <1>11, <1>12, HoldingPoints
     DEF Next, BackendFails, TreeWriteFails
-----------------------------------------------------------------------------
\* The strengthened invariant, for any number of jobs, servers and loops.
THEOREM Invariance == Spec => []IInv
BY InitEstablishes, StepKeeps, PTL DEF Spec

\* claimNext's promise: no two runner loops, in this process or another, work
\* on the same job, whatever is cancelled, retried, refused or killed.
THEOREM ClaimsAreExclusive == Spec => []OneOwner
<1>1. IInv => OneOwner
  BY DEF IInv
<1> QED
  BY <1>1, Invariance, PTL
-----------------------------------------------------------------------------
(***************************************************************************)
(* For any number of jobs, servers, loops, deaths and refused statements:  *)
(* a retry repeats no write and loses none.  What makes it inductive is    *)
(* what a loop's point in runOne tells of what its job has landed: only an *)
(* attempt that has landed nothing fails transiently.  It rests on the     *)
(* above: a job has one holder, who alone moves it on.                     *)
(***************************************************************************)
Outcomes == {<<>>, <<"tx">>, <<"add_comment">>, <<"add_comment", "set_name">>}

\* What a loop that holds a job tells of its row and of what has landed: the
\* list it keeps of its own attempt is the job's whole history.
Consistent(s, row, l) ==
  /\ row.status # "done"
  /\ s.at \notin {"failing", "failed"} => s.writes = l
  /\ s.at \in {"claimed", "awaiting", "landing"} => l = <<>>
  /\ s.at = "naming" => l = <<"add_comment">>
  /\ s.at = "surfaced" => row.kind # "suggest"
  /\ s.at \in {"finishing", "finished"} /\ row.kind = "suggest" => l # <<>>
  /\ s.at \in {"failing", "failed"} /\ s.transient => l = <<>>

\* What a row tells of what has landed and what is recorded.
Settled(row, l, r) ==
  /\ row.status \in {"none", "queued"} => l = <<>>
  /\ row.status = "done" => r = l /\ (row.kind = "suggest" => l # <<>>)

Landings ==
  /\ landed \in [Jobs -> Outcomes] /\ result \in [Jobs -> Outcomes]
  /\ \A j \in Jobs : Settled(jobs[j], landed[j], result[j])
  /\ \A w \in Loops : loops[w].at \in Holding =>
       Consistent(loops[w], jobs[loops[w].job], landed[loops[w].job])
-----------------------------------------------------------------------------
\* No outcome lists a tool twice, and an attempt's writes lead to outcomes.
LEMMA OutcomesInjective == \A l \in Outcomes : IsInjective(l)
<1>1. IsInjective(<<>>) /\ IsInjective(<<"tx">>) /\ IsInjective(<<"add_comment">>)
  BY DEF IsInjective
<1>2. IsInjective(<<"add_comment", "set_name">>)
  BY DEF IsInjective
<1> QED
  BY <1>1, <1>2 DEF Outcomes

LEMMA OutcomesGrow ==
  /\ Append(<<>>, "tx") = <<"tx">>
  /\ Append(<<>>, "add_comment") = <<"add_comment">>
  /\ Append(<<"add_comment">>, "set_name") = <<"add_comment", "set_name">>
  /\ <<"tx">> # <<>> /\ <<"add_comment">> # <<>> /\ <<"add_comment", "set_name">> # <<>>
<1>1. Append(<<>>, "tx") = <<"tx">> /\ Append(<<>>, "add_comment") = <<"add_comment">>
  OBVIOUS
<1>2. <<"tx">> # <<>> /\ <<"add_comment">> # <<>> /\ <<"add_comment", "set_name">> # <<>>
  OBVIOUS
<1>3. Append(<<"add_comment">>, "set_name") = <<"add_comment", "set_name">>
  <2> DEFINE a == Append(<<"add_comment">>, "set_name")
             b == <<"add_comment", "set_name">>
  <2>1. <<"add_comment">> \in Seq(Tools) /\ Len(<<"add_comment">>) = 1
    BY DEF Tools
  <2>2. a \in Seq(Tools) /\ Len(a) = 2 /\ a[1] = "add_comment" /\ a[2] = "set_name"
    BY <2>1, AppendProperties DEF Tools
  <2>3. b \in Seq(Tools) /\ Len(b) = 2 /\ b[1] = "add_comment" /\ b[2] = "set_name"
    BY DEF Tools
  <2>4. \A i \in 1..Len(a) : a[i] = b[i]
    BY <2>2, <2>3
  <2> HIDE DEF a, b
  <2>5. a = b
    BY <2>2, <2>3, <2>4, SeqEqual
  <2> QED
    BY <2>5 DEF a, b
<1> QED
  BY <1>1, <1>2, <1>3

\* A step that concerns one job keeps the invariant if what it leaves of that
\* job agrees with every loop that holds it.
LEMMA OneJobStep ==
  ASSUME NEW j \in Jobs, Landings, IInv, IInv',
         \A k \in Jobs \ {j} : jobs'[k] = jobs[k] /\ landed'[k] = landed[k] /\ result'[k] = result[k],
         landed' \in [Jobs -> Outcomes], result' \in [Jobs -> Outcomes],
         Settled(jobs'[j], landed'[j], result'[j]),
         \A x \in Loops : loops'[x].at \in Holding =>
           \/ loops'[x] = loops[x] /\ loops[x].job # j
           \/ loops'[x].job = j /\ Consistent(loops'[x], jobs'[j], landed'[j])
  PROVE  Landings'
<1>1. \A k \in Jobs : Settled(jobs'[k], landed'[k], result'[k])
  BY DEF Landings
<1>2. ASSUME NEW x \in Loops, loops'[x].at \in Holding
      PROVE  Consistent(loops'[x], jobs'[loops'[x].job], landed'[loops'[x].job])
  <2>1. CASE loops'[x] = loops[x] /\ loops[x].job # j
    <3>1. loops[x].job \in Jobs \ {j}
      BY <1>2, <2>1, HoldingPoints DEF IInv, Typed
    <3> QED
      BY <1>2, <2>1, <3>1 DEF Landings
  <2> QED
    BY <1>2, <2>1
<1> QED
  BY <1>1, <1>2 DEF Landings

\* A step that leaves the tables alone, with loops that stay or let go.
LEMMA LettingGoLands ==
  ASSUME Landings, UNCHANGED <<jobs, landed, result>>,
         \A x \in Loops : loops'[x] = loops[x] \/ loops'[x].at \notin Holding
  PROVE  Landings'
BY DEF Landings

\* A loop that moves on within its job, the tables being left alone.
LEMMA StepOnLands ==
  ASSUME IInv, Landings, UNCHANGED <<jobs, landed, result>>,
         NEW w \in Loops, NEW to, Goes(w, to),
         to.at \in Holding =>
           loops[w].at \in Holding /\ to.job = loops[w].job
             /\ Consistent(to, jobs[to.job], landed[to.job])
  PROVE  Landings'
<1>1. \A x \in Loops : loops'[x] = IF x = w THEN to ELSE loops[x]
  BY DEF Goes, IInv, Typed
<1> QED
  BY <1>1 DEF Landings

\* Only one loop holds a job.
LEMMA OtherHolders ==
  ASSUME IInv, NEW w \in Loops, loops[w].at \in Holding,
         NEW x \in Loops, x # w, loops[x].at \in Holding
  PROVE  loops[x].job # loops[w].job
BY DEF IInv, OneOwner, Holding
-----------------------------------------------------------------------------
LEMMA InitLands == Init => Landings
<1> SUFFICES ASSUME Init PROVE Landings
  OBVIOUS
<1>1. /\ landed \in [Jobs -> Outcomes] /\ result \in [Jobs -> Outcomes]
      /\ \A j \in Jobs : jobs[j].status = "none" /\ landed[j] = <<>>
  BY DEF Init, Outcomes
<1>2. \A w \in Loops : loops[w].at \notin Holding
  BY LoopStates, HoldingPoints DEF Init
<1> QED
  BY <1>1, <1>2 DEF Landings, Settled

\* A write of the loop's own attempt, which is what a job has landed so far.
LEMMA LandLands ==
  ASSUME IInv, IInv', Landings, NEW w \in Loops, loops[w].at \in Holding,
         loops[w].at \notin {"failing", "failed"},
         NEW tool, NEW next \in {"surfaced", "naming", "finishing"}, Land(w, tool, next),
         Append(landed[loops[w].job], tool) \in Outcomes,
         jobs[loops[w].job].status \notin {"none", "queued"},
         next = "naming" => Append(landed[loops[w].job], tool) = <<"add_comment">>,
         next = "surfaced" => jobs[loops[w].job].kind # "suggest",
         Append(landed[loops[w].job], tool) # <<>>
  PROVE  Landings'
<1> DEFINE j == loops[w].job
           to == [loops[w] EXCEPT !.at = next, !.writes = Append(@, tool)]
<1>8. Consistent(to, jobs[j], Append(landed[j], tool)) /\ to.job = j
  <2>1. loops[w] \in LoopState
    BY DEF IInv, Typed
  <2>2. Consistent(loops[w], jobs[j], landed[j])
    BY DEF Landings
  <2>3. to.at = next /\ to.job = j /\ to.writes = Append(loops[w].writes, tool)
    BY <2>1 DEF LoopState
  <2>4. to.writes = Append(landed[j], tool)
    BY <2>2, <2>3 DEF Consistent
  <2> HIDE DEF to, j
  <2>5. jobs[j].status # "done"
    BY <2>2 DEF Consistent, j
  <2> QED
    BY <2>3, <2>4, <2>5 DEF Consistent, j
<1>1. j \in Jobs
  BY HoldingPoints DEF IInv, Typed
<1>2. /\ landed' = [landed EXCEPT ![j] = Append(@, tool)]
      /\ UNCHANGED <<jobs, result>>
      /\ loops' = [loops EXCEPT ![w] = to]
  BY DEF Land, Goes
<1>3. landed' \in [Jobs -> Outcomes] /\ result' \in [Jobs -> Outcomes]
  BY <1>1, <1>2 DEF Landings
<1>4. \A k \in Jobs \ {j} : jobs'[k] = jobs[k] /\ landed'[k] = landed[k] /\ result'[k] = result[k]
  BY <1>1, <1>2 DEF Landings
<1>5. landed'[j] = Append(landed[j], tool) /\ jobs'[j] = jobs[j] /\ result'[j] = result[j]
  BY <1>1, <1>2 DEF Landings
<1>6. Settled(jobs'[j], landed'[j], result'[j])
  BY <1>5, <1>8 DEF Settled, Consistent
<1>7. ASSUME NEW x \in Loops, loops'[x].at \in Holding
      PROVE  \/ loops'[x] = loops[x] /\ loops[x].job # j
             \/ loops'[x].job = j /\ Consistent(loops'[x], jobs'[j], landed'[j])
  <2>1. CASE x = w
    <3>1. loops'[x] = to
      BY <2>1, <1>2 DEF IInv, Typed
    <3> QED
      BY <3>1, <1>5, <1>8
  <2>2. CASE x # w
    <3>1. loops'[x] = loops[x]
      BY <2>2, <1>2 DEF IInv, Typed
    <3> QED
      BY <3>1, <2>2, <1>7, OtherHolders
  <2> QED
    BY <2>1, <2>2
<1> QED
  BY <1>1, <1>3, <1>4, <1>6, <1>7, OneJobStep

\* A loop of the process fails its job: not transiently, or before it landed.
LEMMA FailsLands ==
  ASSUME IInv, Landings, NEW w \in Loops, loops[w].at \in Holding, NEW t \in BOOLEAN,
         Goes(w, [At("failing", loops[w].job) EXCEPT !.transient = t]),
         UNCHANGED <<jobs, landed, result>>,
         t => loops[w].at = "awaiting"
  PROVE  Landings'
<1> DEFINE to == [At("failing", loops[w].job) EXCEPT !.transient = t]
<1>1. to.at = "failing" /\ to.job = loops[w].job /\ to.transient = t
  BY DEF At
<1>2. Consistent(loops[w], jobs[loops[w].job], landed[loops[w].job])
  BY DEF Landings
<1>3. Consistent(to, jobs[loops[w].job], landed[loops[w].job])
  BY <1>1, <1>2 DEF Consistent
<1> HIDE DEF to
<1> QED
  BY <1>1, <1>3, StepOnLands DEF to

\* The status is read again: the loop goes on within its attempt, or lets go.
LEMMA RereadLands ==
  ASSUME IInv, Landings, NEW w \in Loops, loops[w].at \in Holding,
         NEW point, NEW next, Reread(w, point, next),
         Consistent([loops[w] EXCEPT !.at = next], jobs[loops[w].job], landed[loops[w].job])
  PROVE  Landings'
<1> DEFINE to == IF jobs[loops[w].job].status = "running" THEN [loops[w] EXCEPT !.at = next] ELSE Ready
<1>1. UNCHANGED <<jobs, landed, result>> /\ Goes(w, to)
  BY DEF Reread, tables
<1>2. to.at \in Holding => to = [loops[w] EXCEPT !.at = next]
  BY LoopStates, HoldingPoints
<1>3. [loops[w] EXCEPT !.at = next].job = loops[w].job
  BY DEF IInv, Typed, LoopState
<1> HIDE DEF to
<1> QED
  BY <1>1, <1>2, <1>3, StepOnLands

\* claimNext: a queued job has landed nothing, and nobody holds it.
LEMMA ClaimLands ==
  ASSUME IInv, IInv', Landings, NEW w \in Loops, Claim(w)
  PROVE  Landings'
<1> DEFINE j == loops[w].job
<1>1. j \in Jobs
  BY HoldingPoints DEF Claim, ClaimIf, Turn, IInv, Typed
<1>2. CASE jobs[j].status # "queued"
  <2>1. Goes(w, Ready) /\ UNCHANGED <<jobs, landed, result>>
    BY <1>2 DEF Claim, ClaimIf
  <2> QED
    BY <2>1, LoopStates, HoldingPoints, StepOnLands
<1>3. CASE jobs[j].status = "queued"
  <2>1. /\ jobs' = [jobs EXCEPT ![j] = Started(@)]
        /\ UNCHANGED <<landed, result>>
        /\ loops' = [loops EXCEPT ![w] = At("claimed", j)]
    BY <1>3 DEF Claim, ClaimIf, Goes
  <2>2. jobs'[j] = Started(jobs[j]) /\ \A k \in Jobs \ {j} : jobs'[k] = jobs[k]
    BY <1>1, <2>1 DEF IInv, Typed
  <2>3. jobs'[j].status = "running"
    BY <2>2 DEF Started
  <2>4. landed[j] = <<>>
    BY <1>1, <1>3 DEF Landings, Settled
  <2>5. Settled(jobs'[j], landed[j], result[j])
    BY <2>3 DEF Settled
  <2>6. Consistent(At("claimed", j), jobs'[j], landed[j])
    BY <2>3, <2>4 DEF Consistent, At
  <2>7. \A x \in Loops : loops[x].at \in Holding => loops[x].job # j
    BY <1>3 DEF IInv, HeldIsTaken
  <2>8. \A x \in Loops : loops'[x] = IF x = w THEN At("claimed", j) ELSE loops[x]
    BY <2>1 DEF IInv, Typed
  <2>9. \A x \in Loops : loops'[x].at \in Holding =>
           \/ loops'[x] = loops[x] /\ loops[x].job # j
           \/ loops'[x].job = j /\ Consistent(loops'[x], jobs'[j], landed[j])
    <3> SUFFICES ASSUME NEW x \in Loops, loops'[x].at \in Holding
                 PROVE  \/ loops'[x] = loops[x] /\ loops[x].job # j
                        \/ loops'[x].job = j /\ Consistent(loops'[x], jobs'[j], landed[j])
      OBVIOUS
    <3>1. CASE x = w
      <4>1. loops'[x] = At("claimed", j)
        BY <3>1, <2>8
      <4>2. loops'[x].job = j
        BY <4>1 DEF At
      <4> QED
        BY <4>1, <4>2, <2>6
    <3>2. CASE x # w
      BY <3>2, <2>7, <2>8
    <3> QED
      BY <3>1, <3>2
  <2>10. landed \in [Jobs -> Outcomes] /\ result \in [Jobs -> Outcomes]
    BY DEF Landings
  <2>11. landed' = landed /\ result' = result
    BY <2>1
  <2> HIDE DEF j
  <2>12. /\ Settled(jobs'[j], landed'[j], result'[j])
         /\ landed' \in [Jobs -> Outcomes] /\ result' \in [Jobs -> Outcomes]
         /\ \A k \in Jobs \ {j} : jobs'[k] = jobs[k] /\ landed'[k] = landed[k] /\ result'[k] = result[k]
    BY <2>2, <2>5, <2>10, <2>11
  <2>13. \A x \in Loops : loops'[x].at \in Holding =>
           \/ loops'[x] = loops[x] /\ loops[x].job # j
           \/ loops'[x].job = j /\ Consistent(loops'[x], jobs'[j], landed'[j])
    BY <2>9, <2>11
  <2> QED
    BY <1>1, <2>12, <2>13, OneJobStep
<1> QED
  BY <1>2, <1>3

\* finish and fail: the loop lets go of a job it was the only one to hold.
LEMMA SettleLands ==
  ASSUME IInv, IInv', Landings, NEW w \in Loops, loops[w].at \in Holding,
         NEW row, jobs' = [jobs EXCEPT ![loops[w].job] = row], UNCHANGED landed,
         NEW r \in Outcomes, result' = [result EXCEPT ![loops[w].job] = r],
         Settled(row, landed[loops[w].job], r), Goes(w, Ready)
  PROVE  Landings'
<1> DEFINE j == loops[w].job
<1>1. j \in Jobs
  BY HoldingPoints DEF IInv, Typed
<1>2. \A x \in Loops : loops'[x] = IF x = w THEN Ready ELSE loops[x]
  BY DEF Goes, IInv, Typed
<1>3. \A x \in Loops : loops'[x].at \in Holding => loops'[x] = loops[x] /\ loops[x].job # j
  BY <1>2, LoopStates, HoldingPoints, OtherHolders
<1>4. landed' \in [Jobs -> Outcomes] /\ result' \in [Jobs -> Outcomes]
  BY <1>1 DEF Landings
<1>5. jobs'[j] = row /\ landed'[j] = landed[j] /\ result'[j] = r
  BY <1>1 DEF Landings, IInv, Typed
<1>6. \A k \in Jobs \ {j} : jobs'[k] = jobs[k] /\ landed'[k] = landed[k] /\ result'[k] = result[k]
  BY <1>1 DEF Landings, IInv, Typed
<1>7. Settled(jobs'[j], landed'[j], result'[j])
  BY <1>5
<1> HIDE DEF j
<1> QED
  BY <1>1, <1>3, <1>4, <1>6, <1>7, OneJobStep
-----------------------------------------------------------------------------
\* A loop's own steps, point by point of runOne.
LEMMA LoopStepLands ==
  ASSUME IInv, IInv', Landings, NEW w \in Loops, LoopStep(w)
  PROVE  Landings'
<1> DEFINE j == loops[w].job
<1>1. loops[w].at \in Holding => j \in Jobs /\ Consistent(loops[w], jobs[j], landed[j])
  BY HoldingPoints DEF Landings, IInv, Typed
<1>2. loops[w].at \in Holding => jobs[j].status \notin {"none", "queued"}
  BY DEF IInv, HeldIsTaken
<1>3. CASE Pick(w)
  <2>1. UNCHANGED <<jobs, landed, result>>
    BY <1>3 DEF Pick, PickOrLeave, tables
  <2>2. Goes(w, Off) \/ \E i \in Queued : Goes(w, At("picked", created[i]))
    BY <1>3 DEF Pick, PickOrLeave
  <2>3. \A i \in Queued : At("picked", created[i]).at \notin Holding
    BY HoldingPoints DEF At
  <2>4. Off.at \notin Holding
    BY LoopStates, HoldingPoints
  <2> QED
    BY <2>1, <2>2, <2>3, <2>4, StepOnLands
<1>4. CASE Claim(w)
  BY <1>4, ClaimLands
<1>5. CASE Begin(w)
  <2>1. /\ loops[w].at = "claimed" /\ UNCHANGED <<jobs, landed, result>>
        /\ \E point \in {"failing", "awaiting"} : Goes(w, At(point, j))
    BY <1>5 DEF Begin, Turn, tables
  <2>2. loops[w].at \in Holding
    BY <2>1, HoldingPoints
  <2>3. \A point \in {"failing", "awaiting"} :
          At(point, j).job = j /\ Consistent(At(point, j), jobs[j], landed[j])
    BY <1>1, <2>1, <2>2 DEF Consistent, At
  <2>4. \A point \in {"failing", "awaiting"} : Goes(w, At(point, j)) => Landings'
    <3> HIDE DEF j
    <3> SUFFICES ASSUME NEW point \in {"failing", "awaiting"}, Goes(w, At(point, j)) PROVE Landings'
      OBVIOUS
    <3> QED
      BY <2>1, <2>2, <2>3, StepOnLands DEF j
  <2> QED
    BY <2>1, <2>4
<1>6. CASE Answered(w)
  <2>1. loops[w].at = "awaiting" /\ Reread(w, "awaiting", "landing")
    BY <1>6 DEF Answered, Works
  <2>2. loops[w].at \in Holding
    BY <2>1, HoldingPoints
  <2>3. Consistent([loops[w] EXCEPT !.at = "landing"], jobs[j], landed[j])
    BY <1>1, <2>1, <2>2 DEF Consistent, IInv, Typed, LoopState
  <2> QED
    BY <2>1, <2>2, <2>3, RereadLands
<1>7. CASE SurfaceAnswered(w)
  <2>1. loops[w].at = "surfaced" /\ Reread(w, "surfaced", "finishing")
    BY <1>7 DEF SurfaceAnswered, Reread, Turn
  <2>2. loops[w].at \in Holding
    BY <2>1, HoldingPoints
  <2>3. Consistent([loops[w] EXCEPT !.at = "finishing"], jobs[j], landed[j])
    BY <1>1, <2>1, <2>2 DEF Consistent, IInv, Typed, LoopState
  <2> QED
    BY <2>1, <2>2, <2>3, RereadLands
<1>8. CASE FinishRead(w)
  <2>1. loops[w].at = "finishing" /\ Reread(w, "finishing", "finished")
    BY <1>8 DEF FinishRead, Reread, Turn
  <2>2. loops[w].at \in Holding
    BY <2>1, HoldingPoints
  <2>3. Consistent([loops[w] EXCEPT !.at = "finished"], jobs[j], landed[j])
    BY <1>1, <2>1, <2>2 DEF Consistent, IInv, Typed, LoopState
  <2> QED
    BY <2>1, <2>2, <2>3, RereadLands
<1>9. CASE FailRead(w)
  <2>1. loops[w].at = "failing" /\ Reread(w, "failing", "failed")
    BY <1>9 DEF FailRead, Reread, Turn
  <2>2. loops[w].at \in Holding
    BY <2>1, HoldingPoints
  <2>3. Consistent([loops[w] EXCEPT !.at = "failed"], jobs[j], landed[j])
    BY <1>1, <2>1, <2>2 DEF Consistent, IInv, Typed, LoopState
  <2> QED
    BY <2>1, <2>2, <2>3, RereadLands
<1>10. CASE SurfaceWrites(w)
  <2>1. loops[w].at = "awaiting" /\ jobs[j].kind = "readability" /\ Land(w, "tx", "surfaced")
    BY <1>10 DEF SurfaceWrites, Works
  <2>2. loops[w].at \in Holding /\ "surfaced" \in Holding
    BY <2>1, HoldingPoints
  <2>3. Append(landed[j], "tx") \in Outcomes /\ Append(landed[j], "tx") # <<>>
    BY <1>1, <2>1, <2>2, OutcomesGrow DEF Consistent, Outcomes
  <2> QED
    BY <1>2, <2>1, <2>2, <2>3, LandLands
<1>11. CASE SurfaceDeclines(w)
  <2>1. /\ loops[w].at = "awaiting" /\ jobs[j].kind = "readability"
        /\ UNCHANGED <<jobs, landed, result>> /\ Goes(w, At("surfaced", j))
    BY <1>11 DEF SurfaceDeclines, Works, tables
  <2>2. loops[w].at \in Holding
    BY <2>1, HoldingPoints
  <2>3. At("surfaced", j).job = j /\ Consistent(At("surfaced", j), jobs[j], landed[j])
    BY <1>1, <2>1, <2>2 DEF Consistent, At
  <2> QED
    BY <2>1, <2>2, <2>3, StepOnLands
<1>12. CASE LandComment(w)
  <2>1. /\ loops[w].at = "landing"
        /\ \E next \in {"naming", "finishing"} : Land(w, "add_comment", next)
    BY <1>12 DEF LandComment, Turn
  <2>2. loops[w].at \in Holding /\ {"naming", "finishing"} \subseteq Holding
    BY <2>1, HoldingPoints
  <2>3. Append(landed[j], "add_comment") = <<"add_comment">>
    BY <1>1, <2>1, <2>2, OutcomesGrow DEF Consistent
  <2>4. <<"add_comment">> \in Outcomes /\ <<"add_comment">> # <<>>
    BY OutcomesGrow DEF Outcomes
  <2> QED
    BY <1>2, <2>1, <2>2, <2>3, <2>4, LandLands
<1>13. CASE LandName(w)
  <2>1. loops[w].at = "naming" /\ Land(w, "set_name", "finishing")
    BY <1>13 DEF LandName, Turn
  <2>2. loops[w].at \in Holding /\ "finishing" \in Holding
    BY <2>1, HoldingPoints
  <2>3. Append(landed[j], "set_name") = <<"add_comment", "set_name">>
    BY <1>1, <2>1, <2>2, OutcomesGrow DEF Consistent
  <2>4. <<"add_comment", "set_name">> \in Outcomes /\ <<"add_comment", "set_name">> # <<>>
    BY OutcomesGrow DEF Outcomes
  <2> QED
    BY <1>2, <2>1, <2>2, <2>3, <2>4, LandLands
<1>14. CASE NameRefused(w)
  <2>1. /\ loops[w].at = "naming" /\ UNCHANGED <<jobs, landed, result>>
        /\ Goes(w, [At("failing", j) EXCEPT !.transient = FALSE])
    BY <1>14 DEF NameRefused, Fails, Turn, tables
  <2>2. loops[w].at \in Holding
    BY <2>1, HoldingPoints
  <2> QED
    BY <2>1, <2>2, FailsLands
<1>15. CASE FinishWrite(w)
  <2>1. loops[w].at = "finished" /\ Goes(w, Ready) /\ UNCHANGED landed
    BY <1>15 DEF FinishWrite, Turn
  <2>2. loops[w].at \in Holding
    BY <2>1, HoldingPoints
  <2>3. CASE jobs[j].status = "running"
    <3> DEFINE row == [jobs[j] EXCEPT !.status = "done"]
    <3>1. jobs' = [jobs EXCEPT ![j] = row] /\ result' = [result EXCEPT ![j] = landed[j]]
      BY <1>15, <1>1, <2>1, <2>2, <2>3 DEF FinishWrite, SetStatus, Consistent
    <3>2. row.status = "done" /\ row.kind = jobs[j].kind
      BY <1>1, <2>2 DEF IInv, Typed, JobRow
    <3>3. Settled(row, landed[j], landed[j])
      BY <3>2, <1>1, <2>1, <2>2 DEF Settled, Consistent
    <3>4. landed[j] \in Outcomes
      BY <1>1, <2>2 DEF Landings
    <3> HIDE DEF row
    <3> QED
      BY <2>1, <2>2, <3>1, <3>3, <3>4, SettleLands
  <2>4. CASE jobs[j].status # "running"
    <3>1. UNCHANGED <<jobs, landed, result>>
      BY <1>15, <2>1, <2>4 DEF FinishWrite
    <3> QED
      BY <2>1, <3>1, LoopStates, HoldingPoints, StepOnLands
  <2> QED
    BY <2>3, <2>4
<1>16. CASE FailWrite(w)
  <2>1. loops[w].at = "failed" /\ Goes(w, Ready) /\ UNCHANGED <<landed, result>>
    BY <1>16 DEF FailWrite, FailAs, Turn
  <2>2. loops[w].at \in Holding
    BY <2>1, HoldingPoints
  <2>3. CASE jobs[j].status = "running"
    <3> DEFINE row == [jobs[j] EXCEPT !.status = IF Requeues(w) THEN "queued" ELSE "failed"]
    <3>1. jobs' = [jobs EXCEPT ![j] = row]
      BY <1>16, <2>3 DEF FailWrite, FailAs, SetStatus
    <3>2. row.status = IF Requeues(w) THEN "queued" ELSE "failed"
      BY <1>1, <2>2 DEF IInv, Typed, JobRow
    <3>3. Settled(row, landed[j], result[j])
      BY <3>2, <1>1, <2>1, <2>2 DEF Settled, Consistent, Requeues
    <3>4. result[j] \in Outcomes /\ result' = [result EXCEPT ![j] = result[j]]
      BY <1>1, <2>1, <2>2 DEF Landings
    <3> HIDE DEF row
    <3> QED
      BY <2>1, <2>2, <3>1, <3>3, <3>4, SettleLands
  <2>4. CASE jobs[j].status # "running"
    <3>1. UNCHANGED <<jobs, landed, result>>
      BY <1>16, <2>1, <2>4 DEF FailWrite, FailAs
    <3> QED
      BY <2>1, <3>1, LoopStates, HoldingPoints, StepOnLands
  <2> QED
    BY <2>3, <2>4
<1> QED
  BY <1>3, <1>4, <1>5, <1>6, <1>7, <1>8, <1>9, <1>10, <1>11, <1>12, <1>13, <1>14, <1>15, <1>16
     DEF LoopStep

\* The routes: a cancelled job has landed what it had landed, and an enqueued
\* one nothing.
LEMMA CancelLands ==
  ASSUME IInv, IInv', Landings, NEW p \in Procs, CancelWrite(p)
  PROVE  Landings'
<1> DEFINE j == route[p]
           row == [jobs[j] EXCEPT !.status = "cancelled"]
<1>1. j \in Jobs
  BY DEF CancelWrite, IInv, Typed
<1>2. jobs' = [jobs EXCEPT ![j] = row] /\ UNCHANGED <<landed, result, loops>>
  BY DEF CancelWrite, SetStatus
<1>3. row.status = "cancelled" /\ row.kind = jobs[j].kind
  BY <1>1 DEF IInv, Typed, JobRow
<1>4. jobs'[j] = row /\ \A k \in Jobs \ {j} : jobs'[k] = jobs[k]
  BY <1>1, <1>2 DEF IInv, Typed
<1>5. Settled(row, landed[j], result[j])
  BY <1>3 DEF Settled
<1>6. ASSUME NEW x \in Loops, loops[x].at \in Holding, loops[x].job = j
      PROVE  Consistent(loops[x], row, landed[j])
  <2>1. Consistent(loops[x], jobs[j], landed[j])
    BY <1>6 DEF Landings
  <2> QED
    BY <2>1, <1>3 DEF Consistent
<1>7. /\ landed' = landed /\ result' = result /\ loops' = loops
      /\ landed \in [Jobs -> Outcomes] /\ result \in [Jobs -> Outcomes]
  BY <1>2 DEF Landings
<1> HIDE DEF row, j
<1> QED
  BY <1>1, <1>4, <1>5, <1>6, <1>7, OneJobStep

LEMMA EnqueueLands ==
  ASSUME IInv, IInv', Landings, NEW p \in Procs, NEW j \in Jobs, NEW kind \in Kinds,
         Enqueue(p, j, kind)
  PROVE  Landings'
<1> DEFINE row == [status |-> "queued", kind |-> kind, attempts |-> 0]
<1>1. /\ jobs[j].status = "none" /\ jobs' = [jobs EXCEPT ![j] = row]
      /\ UNCHANGED <<landed, result, loops>>
  BY DEF Enqueue
<1>2. jobs'[j] = row /\ \A k \in Jobs \ {j} : jobs'[k] = jobs[k]
  BY <1>1 DEF IInv, Typed
<1>3. Settled(row, landed[j], result[j])
  BY <1>1 DEF Settled, Landings
<1>4. \A x \in Loops : loops[x].at \in Holding => loops[x].job # j
  BY <1>1 DEF IInv, HeldIsTaken
<1>5. /\ landed' = landed /\ result' = result /\ loops' = loops
      /\ landed \in [Jobs -> Outcomes] /\ result \in [Jobs -> Outcomes]
  BY <1>1 DEF Landings
<1> HIDE DEF row
<1> QED
  BY <1>2, <1>3, <1>4, <1>5, OneJobStep

LEMMA StepLands == IInv /\ IInv' /\ Landings /\ [Next]_vars => Landings'
<1> SUFFICES ASSUME IInv, IInv', Landings, [Next]_vars PROVE Landings'
  OBVIOUS
<1>1. ASSUME NEW p \in Procs, Announce(p) PROVE Landings'
  BY <1>1, LettingGoLands DEF Announce
<1>2. ASSUME NEW p \in Procs, NEW j \in Jobs, CancelRead(p, j) PROVE Landings'
  BY <1>2, LettingGoLands DEF CancelRead, CancelFrom, tables
<1>3. ASSUME NEW p \in Procs, Tick(p) PROVE Landings'
  <2>1. PICK started : loops' = [w \in Loops |-> IF w \in started THEN Ready ELSE loops[w]]
    BY <1>3 DEF Tick, TickUnless
  <2>2. UNCHANGED <<jobs, landed, result>>
    BY <1>3 DEF Tick, TickUnless, tables
  <2> QED
    BY <2>1, <2>2, LoopStates, HoldingPoints, LettingGoLands
<1>4. ASSUME NEW p \in Procs, Crash(p) PROVE Landings'
  BY <1>4, LoopStates, HoldingPoints, LettingGoLands DEF Crash, tables
<1>5. ASSUME NEW w \in Loops, NEW t \in BOOLEAN, BackendFails(w, t) PROVE Landings'
  <2>1. /\ loops[w].at = "awaiting" /\ UNCHANGED <<jobs, landed, result>>
        /\ Goes(w, [At("failing", loops[w].job) EXCEPT !.transient = t])
    BY <1>5 DEF BackendFails, Fails, Turn, tables
  <2> QED
    BY <2>1, HoldingPoints, FailsLands
<1>6. ASSUME NEW w \in Loops, TreeWriteFails(w) PROVE Landings'
  <2>1. /\ loops[w].at = "surfaced" /\ UNCHANGED <<jobs, landed, result>>
        /\ Goes(w, [At("failing", loops[w].job) EXCEPT !.transient = FALSE])
    BY <1>6 DEF TreeWriteFails, Fails, Turn, tables
  <2> QED
    BY <2>1, HoldingPoints, FailsLands
<1>7. ASSUME NEW w \in Loops, Refused(w) PROVE Landings'
  <2>1. UNCHANGED <<jobs, landed, result>>
    BY <1>7 DEF Refused, tables
  <2>2. CASE loops[w].at \in Holding /\ Goes(w, At("failing", loops[w].job))
    <3> DEFINE j == loops[w].job
    <3>1. Consistent(loops[w], jobs[j], landed[j])
      BY <2>2 DEF Landings
    <3>2. At("failing", j).job = j /\ Consistent(At("failing", j), jobs[j], landed[j])
      BY <3>1 DEF Consistent, At
    <3> QED
      BY <2>1, <2>2, <3>2, StepOnLands
  <2>3. CASE Goes(w, Off)
    BY <2>1, <2>3, LoopStates, HoldingPoints, StepOnLands
  <2> QED
    BY <1>7, <2>2, <2>3, HoldingPoints DEF Refused, Rejects
<1>9. ASSUME NEW w \in Loops, EventRefused(w) PROVE Landings'
  <2>1. UNCHANGED <<jobs, landed, result>> /\ (UNCHANGED loops \/ Goes(w, Off))
    BY <1>9 DEF EventRefused, Rejects, tables
  <2> QED
    BY <2>1, LoopStates, HoldingPoints, StepOnLands, LettingGoLands
<1>10. ASSUME NEW p \in Procs, RouteRefused(p) PROVE Landings'
  BY <1>10, LettingGoLands DEF RouteRefused, tables
<1>8. CASE UNCHANGED vars
  BY <1>8, LettingGoLands DEF vars, tables
<1> QED
  BY <1>1, <1>2, <1>3, <1>4, <1>5, <1>6, <1>7, <1>8, <1>9, <1>10, LoopStepLands, CancelLands, EnqueueLands DEF Next

\* A retry repeats no write and loses none: each tool lands at most once for a
\* job, whatever attempts it needed, and what the last attempt recorded of its
\* own writes is all that the job landed.
THEOREM RetriesLandOnce == Spec => []LandsOnce
<1>1. Landings => LandsOnce
  BY OutcomesInjective DEF Landings, LandsOnce, Settled
<1> QED
  BY <1>1, Invariance, InitLands, StepLands, PTL DEF Spec
-----------------------------------------------------------------------------
(* Types.  The attempts of a job are bounded, because only a job that has   *)
(* some left is requeued; a key is created once, because its row never goes *)
(* back to none.                                                            *)
Counted ==
  /\ \A j \in Jobs : jobs[j].attempts \in 0..MAX_ATTEMPTS
  /\ \A j \in Jobs : jobs[j].status \in {"none", "queued"} => jobs[j].attempts < MAX_ATTEMPTS
  /\ \A i \in 1..Len(created) : jobs[created[i]].status # "none"
  /\ \A i, k \in 1..Len(created) : created[i] = created[k] => i = k
  /\ call \in [Procs -> SUBSET Loops]

\* A finite set has subsets of every size up to its own.
LEMMA SubsetOfSize ==
  ASSUME NEW S, IsFiniteSet(S), NEW n \in Nat, n <= Cardinality(S)
  PROVE  \E T \in SUBSET S : Cardinality(T) = n
<1>1. PICK f \in Bijection(1..Cardinality(S), S) : TRUE
  BY FS_CardinalityType DEF ExistsBijection
<1> DEFINE T == {f[i] : i \in 1..n}
           g == [i \in 1..n |-> f[i]]
<1>2. Cardinality(S) \in Nat /\ 1..n \subseteq 1..Cardinality(S)
  BY FS_CardinalityType
<1>3. T \in SUBSET S
  BY <1>1, <1>2 DEF Bijection, Injection
<1>4. g \in Bijection(1..n, T)
  BY <1>1, <1>2 DEF Bijection, Injection, Surjection, IsInjective
<1>5. IsFiniteSet(1..n) /\ Cardinality(1..n) = n
  BY FS_Interval
<1>6. ExistsBijection(1..n, T)
  BY <1>4 DEF ExistsBijection
<1> HIDE DEF T
<1>7. Cardinality(T) = n
  BY <1>5, <1>6, FS_Bijection
<1> QED
  BY <1>3, <1>7

\* The interval of an idle server starts Concurrency loops of its own.
LEMMA TickStarts ==
  ASSUME NEW p \in Procs, Tick(p)
  PROVE  \E S \in SUBSET Loops :
           /\ IsFiniteSet(S) /\ Cardinality(S) = Concurrency
           /\ \A w \in S : Proc(w) = p
           /\ call[p] = {} /\ call' = [call EXCEPT ![p] = S]
           /\ loops' = [w \in Loops |-> IF w \in S THEN Ready ELSE loops[w]]
<1> DEFINE idle == {w \in Loops : Proc(w) = p /\ loops[w] = Off}
           started == CHOOSE S \in SUBSET idle : Cardinality(S) = Concurrency
<1>1. /\ Cardinality(idle) >= Concurrency /\ call[p] = {}
      /\ call' = [call EXCEPT ![p] = started]
      /\ loops' = [w \in Loops |-> IF w \in started THEN Ready ELSE loops[w]]
  BY DEF Tick, TickUnless
<1>2. IsFiniteSet({p} \X (1..(2 * Concurrency)))
  <2>1. IsFiniteSet({p})
    BY FS_Singleton
  <2>2. 1 \in Int /\ 2 * Concurrency \in Int
    BY ConcurrencyAssumption
  <2>3. IsFiniteSet(1..(2 * Concurrency))
    BY <2>2, FS_Interval
  <2> QED
    BY <2>1, <2>3, FS_Product
<1>3. idle \subseteq {p} \X (1..(2 * Concurrency))
  BY DEF Loops, Proc
<1>4. IsFiniteSet(idle)
  BY <1>2, <1>3, FS_Subset
<1>5. idle \subseteq Loops /\ \A w \in idle : Proc(w) = p
  OBVIOUS
<1> HIDE DEF idle
<1>6. \E S \in SUBSET idle : Cardinality(S) = Concurrency
  BY <1>1, <1>4, ConcurrencyAssumption, SubsetOfSize, FS_CardinalityType
<1>7. started \in SUBSET idle /\ Cardinality(started) = Concurrency
  BY <1>6
<1> HIDE DEF started
<1>8. IsFiniteSet(started)
  BY <1>4, <1>7, FS_Subset
<1> QED
  BY <1>1, <1>5, <1>7, <1>8

LEMMA TickTyped == ASSUME IInv, Counted, NEW p \in Procs, Tick(p) PROVE Counted'
<1>1. PICK S \in SUBSET Loops : call' = [call EXCEPT ![p] = S]
  BY TickStarts
<1>2. UNCHANGED <<jobs, created>>
  BY DEF Tick, TickUnless, tables
<1> QED
  BY <1>1, <1>2 DEF Counted

\* A row that changes, its key being created at most now.
LEMMA RowCounted ==
  ASSUME IInv, Counted, NEW j \in Jobs, NEW row \in JobRow,
         jobs' = [jobs EXCEPT ![j] = row],
         row.attempts <= MAX_ATTEMPTS, row.status # "none",
         row.status = "queued" => row.attempts < MAX_ATTEMPTS,
         UNCHANGED created \/ (created' = Append(created, j) /\ jobs[j].status = "none"),
         UNCHANGED call
  PROVE  Counted'
<1>1. jobs'[j] = row /\ \A k \in Jobs \ {j} : jobs'[k] = jobs[k]
  BY DEF IInv, Typed
<1>2. row.attempts \in 0..MAX_ATTEMPTS
  BY DEF JobRow, MAX_ATTEMPTS
<1>3. /\ \A k \in Jobs : jobs'[k].attempts \in 0..MAX_ATTEMPTS
      /\ \A k \in Jobs : jobs'[k].status \in {"none", "queued"} => jobs'[k].attempts < MAX_ATTEMPTS
      /\ \A k \in Jobs : jobs[k].status # "none" => jobs'[k].status # "none"
  BY <1>1, <1>2 DEF Counted
<1>4. created \in Seq(Jobs)
  BY DEF IInv, Typed
<1>5. CASE UNCHANGED created
  BY <1>3, <1>4, <1>5 DEF Counted
<1>6. CASE created' = Append(created, j) /\ jobs[j].status = "none"
  <2>1. /\ Len(created') = Len(created) + 1
        /\ \A i \in 1..Len(created) : created'[i] = created[i]
        /\ created'[Len(created) + 1] = j
    BY <1>4, <1>6, AppendProperties
  <2>2. Len(created) \in Nat /\ \A i \in 1..Len(created) : created[i] \in Jobs /\ created[i] # j
    BY <1>4, <1>6 DEF Counted
  <2>3. \A i \in 1..Len(created') : jobs'[created'[i]].status # "none"
    BY <1>1, <1>3, <2>1, <2>2 DEF Counted
  <2>4. \A i, k \in 1..Len(created') : created'[i] = created'[k] => i = k
    BY <2>1, <2>2 DEF Counted
  <2> QED
    BY <1>3, <2>3, <2>4 DEF Counted
<1> QED
  BY <1>5, <1>6

\* A row that only changes its status.
LEMMA StatusCounted ==
  ASSUME IInv, Counted, NEW j \in Jobs, NEW status \in Status \ {"none"},
         jobs' = [jobs EXCEPT ![j].status = status],
         status = "queued" => jobs[j].attempts < MAX_ATTEMPTS, UNCHANGED <<created, call>>
  PROVE  Counted'
<1> DEFINE row == [jobs[j] EXCEPT !.status = status]
<1>1. jobs[j] \in JobRow /\ jobs' = [jobs EXCEPT ![j] = row]
  BY DEF IInv, Typed
<1>2. row \in JobRow /\ row.status = status /\ row.attempts = jobs[j].attempts
  BY <1>1 DEF JobRow
<1>3. jobs[j].attempts <= MAX_ATTEMPTS
  BY DEF Counted, MAX_ATTEMPTS
<1> HIDE DEF row
<1> QED
  BY <1>1, <1>2, <1>3, RowCounted

\* A step that leaves the job table alone.
LEMMA NoRowCounted ==
  ASSUME Counted, UNCHANGED <<jobs, created>>, call' \in [Procs -> SUBSET Loops]
  PROVE  Counted'
BY DEF Counted

LEMMA LoopStepCounted == ASSUME IInv, Counted, NEW w \in Loops, LoopStep(w) PROVE Counted'
<1> DEFINE j == loops[w].job
<1>1. call \in [Procs -> SUBSET Loops] /\ Proc(w) \in Procs
  BY DEF Counted, Loops, Proc
<1>2. loops[w].at \in InFlight => j \in Jobs
  BY DEF IInv, Typed
<1>3. CASE Pick(w)
  <2>1. UNCHANGED <<jobs, created>>
    BY <1>3 DEF Pick, PickOrLeave, tables
  <2>2. call' \in [Procs -> SUBSET Loops]
    BY <1>1, <1>3 DEF Pick, PickOrLeave
  <2> QED
    BY <2>1, <2>2, NoRowCounted
<1>4. CASE Claim(w)
  <2>1. j \in Jobs
    BY <1>2, <1>4, HoldingPoints DEF Claim, ClaimIf, Turn
  <2>2. CASE jobs[j].status = "queued"
    <3>1. jobs' = [jobs EXCEPT ![j] = Started(jobs[j])] /\ UNCHANGED <<created, call>>
      BY <1>4, <2>2 DEF Claim, ClaimIf
    <3>2. jobs[j] \in JobRow /\ jobs[j].attempts < MAX_ATTEMPTS
      BY <2>1, <2>2 DEF IInv, Typed, Counted
    <3>3. /\ Started(jobs[j]) \in JobRow
          /\ Started(jobs[j]).attempts <= MAX_ATTEMPTS
          /\ Started(jobs[j]).status = "running"
      BY <3>2 DEF Started, JobRow, Status, MAX_ATTEMPTS
    <3> HIDE DEF j
    <3> QED
      BY <2>1, <3>1, <3>3, RowCounted
  <2>3. CASE jobs[j].status # "queued"
    <3>1. UNCHANGED <<jobs, created, call>>
      BY <1>4, <2>3 DEF Claim, ClaimIf
    <3> QED
      BY <1>1, <3>1, NoRowCounted
  <2> QED
    BY <2>2, <2>3
<1>5. CASE FinishWrite(w)
  <2>1. j \in Jobs /\ UNCHANGED <<created, call>>
    BY <1>2, <1>5, HoldingPoints DEF FinishWrite, Turn
  <2>2. CASE jobs[j].status = "running"
    <3>1. jobs' = [jobs EXCEPT ![j].status = "done"]
      BY <1>5, <2>2 DEF FinishWrite, SetStatus
    <3>2. "done" \in Status \ {"none"} /\ "done" # "queued"
      BY DEF Status, Terminal
    <3> HIDE DEF j
    <3> QED
      BY <2>1, <3>1, <3>2, StatusCounted
  <2>3. CASE jobs[j].status # "running"
    <3>1. UNCHANGED <<jobs, created, call>>
      BY <1>5, <2>1, <2>3 DEF FinishWrite
    <3> QED
      BY <1>1, <3>1, NoRowCounted
  <2> QED
    BY <2>2, <2>3
<1>6. CASE FailWrite(w)
  <2>1. j \in Jobs /\ UNCHANGED <<created, call>>
    BY <1>2, <1>6, HoldingPoints DEF FailWrite, FailAs, Turn
  <2>2. CASE jobs[j].status = "running"
    <3> DEFINE status == IF Requeues(w) THEN "queued" ELSE "failed"
    <3>1. jobs' = [jobs EXCEPT ![j].status = status]
      BY <1>6, <2>2 DEF FailWrite, FailAs, SetStatus
    <3>2. status \in Status \ {"none"} /\ (status = "queued" => jobs[j].attempts < MAX_ATTEMPTS)
      BY DEF Requeues, Status, Terminal
    <3> HIDE DEF status, j
    <3> QED
      BY <2>1, <3>1, <3>2, StatusCounted
  <2>3. CASE jobs[j].status # "running"
    <3>1. UNCHANGED <<jobs, created, call>>
      BY <1>6, <2>1, <2>3 DEF FailWrite, FailAs
    <3> QED
      BY <1>1, <3>1, NoRowCounted
  <2> QED
    BY <2>2, <2>3
<1>7. CASE \/ Begin(w) \/ Answered(w) \/ SurfaceAnswered(w) \/ SurfaceDeclines(w)
           \/ NameRefused(w) \/ FinishRead(w) \/ FailRead(w)
  <2>1. UNCHANGED <<jobs, created, call>>
    BY <1>7 DEF Begin, Answered, SurfaceAnswered, SurfaceDeclines, NameRefused, Fails,
                FinishRead, FailRead, Reread, tables
  <2> QED
    BY <1>1, <2>1, NoRowCounted
<1>8. CASE SurfaceWrites(w) \/ LandComment(w) \/ LandName(w)
  <2>1. UNCHANGED <<jobs, created, call>>
    BY <1>8 DEF SurfaceWrites, LandComment, LandName, Land
  <2> QED
    BY <1>1, <2>1, NoRowCounted
<1> QED
  BY <1>3, <1>4, <1>5, <1>6, <1>7, <1>8 DEF LoopStep

LEMMA StepCounted == IInv /\ Counted /\ [Next]_vars => Counted'
<1> SUFFICES ASSUME IInv, Counted, [Next]_vars PROVE Counted'
  OBVIOUS
<1> USE DEF tables
<1>1. call \in [Procs -> SUBSET Loops] /\ \A w \in Loops : Proc(w) \in Procs
  BY DEF Counted, Loops, Proc
<1>2. ASSUME NEW p \in Procs, Announce(p) PROVE Counted'
  BY <1>1, <1>2, NoRowCounted DEF Announce
<1>3. ASSUME NEW p \in Procs, NEW j \in Jobs, CancelRead(p, j) PROVE Counted'
  BY <1>1, <1>3, NoRowCounted DEF CancelRead, CancelFrom
<1>4. ASSUME NEW p \in Procs, CancelWrite(p) PROVE Counted'
  <2> DEFINE j == route[p]
  <2>1. j \in Jobs /\ jobs' = [jobs EXCEPT ![j].status = "cancelled"] /\ UNCHANGED <<created, call>>
    BY <1>4 DEF CancelWrite, SetStatus, IInv, Typed
  <2>2. "cancelled" \in Status \ {"none"} /\ "cancelled" # "queued"
    BY DEF Status, Terminal
  <2> HIDE DEF j
  <2> QED
    BY <2>1, <2>2, StatusCounted
<1>5. ASSUME NEW p \in Procs, NEW j \in Jobs, NEW kind \in Kinds, Enqueue(p, j, kind)
      PROVE  Counted'
  <2> DEFINE row == [status |-> "queued", kind |-> kind, attempts |-> 0]
  <2>1. /\ jobs' = [jobs EXCEPT ![j] = row] /\ UNCHANGED call
        /\ created' = Append(created, j) /\ jobs[j].status = "none"
    BY <1>5 DEF Enqueue
  <2>2. row \in JobRow /\ row.status = "queued" /\ row.attempts < MAX_ATTEMPTS /\ row.attempts <= MAX_ATTEMPTS
    BY DEF JobRow, Status, MAX_ATTEMPTS
  <2> HIDE DEF row
  <2> QED
    BY <2>1, <2>2, RowCounted
<1>6. ASSUME NEW p \in Procs, Crash(p) PROVE Counted'
  BY <1>1, <1>6, NoRowCounted DEF Crash
<1>7. ASSUME NEW w \in Loops, Refused(w) PROVE Counted'
  BY <1>1, <1>7, NoRowCounted DEF Refused, Rejects
<1>10. ASSUME NEW w \in Loops, EventRefused(w) PROVE Counted'
  BY <1>1, <1>10, NoRowCounted DEF EventRefused, Rejects
<1>11. ASSUME NEW p \in Procs, RouteRefused(p) PROVE Counted'
  BY <1>1, <1>11, NoRowCounted DEF RouteRefused
<1>8. ASSUME NEW w \in Loops, NEW point, NEW t, Fails(w, point, t) PROVE Counted'
  BY <1>1, <1>8, NoRowCounted DEF Fails
<1>9. CASE UNCHANGED vars
  BY <1>1, <1>9, NoRowCounted DEF vars
<1> QED
  BY <1>2, <1>3, <1>4, <1>5, <1>6, <1>7, <1>8, <1>9, <1>10, <1>11, LoopStepCounted, TickTyped
     DEF Next, BackendFails, TreeWriteFails

\* The queue's rows, the attempts of a job and the loops stay well formed.
THEOREM TypeCorrect == Spec => []TypeOK
<1>1. Init => Counted
  BY DEF Init, Counted, MAX_ATTEMPTS
<1>2. IInv /\ Counted => TypeOK
  <2> SUFFICES ASSUME IInv, Counted PROVE TypeOK
    OBVIOUS
  <2>1. jobs \in [Jobs -> [status : Status, kind : Kinds \cup {"none"}, attempts : 0..MAX_ATTEMPTS]]
    BY DEF IInv, Typed, JobRow, Counted
  <2>2. IsInjective(created) /\ Range(created) \subseteq Jobs
    <3>1. created \in [1..Len(created) -> Jobs] /\ DOMAIN created = 1..Len(created)
      BY DEF IInv, Typed
    <3>2. \A i, k \in 1..Len(created) : created[i] = created[k] => i = k
      BY DEF Counted
    <3>3. IsInjective(created)
      BY <3>1, <3>2 DEF IsInjective
    <3>4. Range(created) \subseteq Jobs
      BY <3>1 DEF Range
    <3> QED
      BY <3>3, <3>4
  <2>3. \A w \in Loops : /\ loops[w].at \in {"off", "ready"} \cup InFlight
                         /\ loops[w].job \in Jobs \cup {NoJob}
    BY DEF IInv, Typed, LoopState, Points
  <2> QED
    BY <2>1, <2>2, <2>3 DEF TypeOK, Counted, IInv, Typed
<1> QED
  BY <1>1, <1>2, Invariance, StepCounted, PTL DEF Spec
-----------------------------------------------------------------------------
(***************************************************************************)
(* What one server alone guarantees, for any number of jobs and loops.     *)
(* Its event loop runs one synchronous run of statements at a time, so a   *)
(* status it has read is still the status when it writes: the state        *)
(* machine, the feed and the guarantee of cancellation rest on that.  With *)
(* two servers each of the three fails, as the README says.  The last      *)
(* section is about each of any number of servers: its pool is one.        *)
(***************************************************************************)
OneServer == \A p, q \in Procs : p = q

Types == {"queued", "started", "done", "failed", "requeued", "cancelled"}
Writers == Loops \cup {NoLoop}
Events == {NoEvent} \cup (Jobs \X Types \X Writers)

\* The points after the status was read as running, in the same run of
\* statements.
Sections == {"landing", "naming", "finishing", "finished", "failed"}

\* A cancel between its read and its write has the event loop to itself.
RouteAlone ==
  \A p \in Procs : route[p] # NoJob =>
    /\ jobs[route[p]].status \in {"queued", "running"}
    /\ unsent[p] = NoEvent
    /\ \A w \in Loops : loops[w].at \notin Mid

SectionsRun == \A w \in Loops : loops[w].at \in Sections => jobs[loops[w].job].status = "running"

EventsTell ==
  \A p \in Procs : unsent[p] # NoEvent => Tells(unsent[p][2]) = jobs[unsent[p][1]].status

Orderly ==
  /\ unsent \in [Procs -> Events]
  /\ feed \in [Jobs -> Seq(Types)]
  /\ RouteAlone /\ SectionsRun /\ EventsTell
-----------------------------------------------------------------------------
\* A loop of the server moves and no row changes.
LEMMA QuietStep ==
  ASSUME OneServer, IInv, Orderly, NEW w \in Loops, HasTurn(w), NEW to, Goes(w, to),
         UNCHANGED <<jobs, unsent, route, feed>>,
         to.at \in Sections => jobs[to.job].status = "running"
  PROVE  Orderly'
<1>1. \A x \in Loops : loops'[x] = IF x = w THEN to ELSE loops[x]
  BY DEF Goes, IInv, Typed
<1>2. \A p \in Procs : route[p] = NoJob
  BY DEF OneServer, HasTurn, FreeBut, Proc, Loops
<1>3. RouteAlone'
  BY <1>2 DEF RouteAlone
<1>4. SectionsRun'
  BY <1>1 DEF SectionsRun, Orderly
<1>5. EventsTell'
  BY DEF EventsTell, Orderly
<1> QED
  BY <1>3, <1>4, <1>5 DEF Orderly

\* A row changes and the event that tells it is appended next.
LEMMA LoudStep ==
  ASSUME OneServer, IInv, Orderly, NEW p \in Procs, \A q \in Procs : route'[q] = NoJob,
         NEW j \in Jobs, NEW row, jobs' = [jobs EXCEPT ![j] = row],
         NEW type \in Types, NEW u \in Writers, Announces(p, j, type, u),
         Tells(type) = row.status, UNCHANGED feed, \A x \in Loops : loops'[x].at \notin Sections
  PROVE  Orderly'
<1>1. jobs'[j] = row
  BY DEF IInv, Typed
<1>2. unsent' = [unsent EXCEPT ![p] = <<j, type, u>>]
  BY DEF Announces
<1>3. unsent' \in [Procs -> Events]
  BY <1>2 DEF Orderly, Events
<1>4. \A q \in Procs : route'[q] = NoJob /\ unsent'[q] = <<j, type, u>>
  BY <1>2 DEF OneServer, IInv, Typed, Orderly
<1>5. RouteAlone' /\ SectionsRun'
  BY <1>4 DEF RouteAlone, SectionsRun
<1>6. EventsTell'
  BY <1>1, <1>4 DEF EventsTell
<1> QED
  BY <1>3, <1>5, <1>6 DEF Orderly

\* The event loop is w's: no other loop is in a run of statements.
LEMMA TurnAlone ==
  ASSUME OneServer, NEW w \in Loops, HasTurn(w)
  PROVE  /\ \A p \in Procs : route[p] = NoJob /\ unsent[p] = NoEvent
         /\ \A x \in Loops \ {w} : loops[x].at \notin Mid
BY DEF OneServer, HasTurn, FreeBut, Loops, Proc

LEMMA SectionPoints ==
  /\ Sections \subseteq Mid /\ Sections \subseteq Holding
  /\ {"off", "ready", "picked", "claimed", "awaiting", "surfaced", "failing"} \cap Sections = {}
BY DEF Sections, Mid, Holding, InFlight
-----------------------------------------------------------------------------
(* Every step of a server is one of three: it changes neither a row nor the *)
(* feed; it changes one row, legally, and will append the event that tells  *)
(* it; or it appends such an event.  Or the server dies, or it loses the    *)
(* event to a refused INSERT.                                               *)
Legal ==
  {<<"none", "queued">>, <<"queued", "running">>, <<"queued", "cancelled">>,
   <<"running", "done">>, <<"running", "failed">>, <<"running", "queued">>,
   <<"running", "cancelled">>}

Reports(p, j) ==
  /\ unsent[p] = NoEvent /\ UNCHANGED feed
  /\ jobs' = [jobs EXCEPT ![j] = jobs'[j]]
  /\ \E type \in Types, u \in Writers :
       Announces(p, j, type, u) /\ Tells(type) = jobs'[j].status
  /\ <<jobs[j].status, jobs'[j].status>> \in Legal

Step ==
  \/ UNCHANGED <<jobs, unsent, feed>>
  \/ \E p \in Procs : Announce(p) \/ Crash(p) \/ RouteRefused(p)
  \/ \E w \in Loops : EventRefused(w)
  \/ \E p \in Procs, j \in Jobs : Reports(p, j)

\* A loop's step that changes its job's row: it was the only one to move.
LEMMA LoopReports ==
  ASSUME OneServer, IInv, Orderly, NEW w \in Loops, HasTurn(w), loops[w].at \in InFlight,
         NEW row, jobs' = [jobs EXCEPT ![loops[w].job] = row],
         NEW type \in Types, Announces(Proc(w), loops[w].job, type, w), Tells(type) = row.status,
         <<jobs[loops[w].job].status, row.status>> \in Legal,
         NEW to, Goes(w, to), to.at \notin Sections, UNCHANGED <<feed, route>>
  PROVE  Orderly' /\ Step
<1> DEFINE j == loops[w].job
           p == Proc(w)
<1>1. j \in Jobs /\ p \in Procs
  BY DEF IInv, Typed, Loops, Proc
<1>2. \A x \in Loops : loops'[x].at \notin Sections
  <2>1. \A x \in Loops : loops'[x] = IF x = w THEN to ELSE loops[x]
    BY DEF Goes, IInv, Typed
  <2> QED
    BY <2>1, TurnAlone, SectionPoints
<1>3. \A q \in Procs : route'[q] = NoJob
  BY TurnAlone
<1>4. unsent[p] = NoEvent
  BY <1>1, TurnAlone
<1> HIDE DEF j, p
<1>5. Orderly'
  BY <1>1, <1>2, <1>3, LoudStep DEF j, p, Writers
<1>6. jobs'[j] = row
  BY <1>1 DEF IInv, Typed, j
<1>7. Reports(p, j)
  BY <1>4, <1>6 DEF Reports, j, p, Writers
<1> QED
  BY <1>1, <1>5, <1>7 DEF Step

LEMMA LoopStepOrderly ==
  ASSUME OneServer, IInv, Orderly, NEW w \in Loops, LoopStep(w)
  PROVE  Orderly' /\ Step
<1> DEFINE j == loops[w].job
<1>1. loops[w].at \in Sections => jobs[j].status = "running"
  BY DEF Orderly, SectionsRun
<1>2. ASSUME HasTurn(w), UNCHANGED <<jobs, unsent, route, feed>>,
             NEW to, Goes(w, to), to.at \in Sections => jobs[to.job].status = "running"
      PROVE  Orderly' /\ Step
  BY <1>2, QuietStep DEF Step
<1>3. Off.at \notin Sections /\ Ready.at \notin Sections
  BY SectionPoints DEF Off, Ready, At
<1>4. CASE Pick(w)
  <2>1. HasTurn(w) /\ UNCHANGED <<jobs, unsent, route, feed>>
    BY <1>4 DEF Pick, PickOrLeave, tables, Turn
  <2>2. Goes(w, Off) \/ \E i \in Queued : Goes(w, At("picked", created[i]))
    BY <1>4 DEF Pick, PickOrLeave
  <2>3. \A i \in Queued : At("picked", created[i]).at \notin Sections
    BY SectionPoints DEF At
  <2> QED
    BY <1>2, <1>3, <2>1, <2>2, <2>3
<1>5. CASE Claim(w)
  <2>1. HasTurn(w) /\ loops[w].at = "picked" /\ UNCHANGED <<route, feed>>
    BY <1>5 DEF Claim, ClaimIf, Turn
  <2>2. CASE jobs[j].status = "queued"
    <3>1. /\ jobs' = [jobs EXCEPT ![j] = Started(jobs[j])]
          /\ Announces(Proc(w), j, "started", w) /\ Goes(w, At("claimed", j))
      BY <1>5, <2>2 DEF Claim, ClaimIf
    <3>2. Started(jobs[j]).status = "running" /\ Tells("started") = "running" /\ "started" \in Types
      BY DEF Started, Tells, Types
    <3>3. <<jobs[j].status, "running">> \in Legal
      BY <2>2 DEF Legal
    <3>4. At("claimed", j).at \notin Sections
      BY SectionPoints DEF At
    <3> QED
      BY <2>1, <3>1, <3>2, <3>3, <3>4, LoopReports, HoldingPoints
  <2>3. CASE jobs[j].status # "queued"
    <3>1. Goes(w, Ready) /\ UNCHANGED <<jobs, unsent>>
      BY <1>5, <2>3 DEF Claim, ClaimIf
    <3> QED
      BY <1>2, <1>3, <2>1, <3>1
  <2> QED
    BY <2>2, <2>3
<1>6. CASE Begin(w)
  <2>1. /\ HasTurn(w) /\ UNCHANGED <<jobs, unsent, route, feed>>
        /\ \E point \in {"failing", "awaiting"} : Goes(w, At(point, j))
    BY <1>6 DEF Begin, Turn, tables
  <2>2. \A point \in {"failing", "awaiting"} : At(point, j).at \notin Sections
    BY SectionPoints DEF At
  <2> QED
    BY <1>2, <2>1, <2>2
<1>7. ASSUME NEW point, NEW next, Reread(w, point, next)
      PROVE  Orderly' /\ Step
  <2> DEFINE to == IF jobs[j].status = "running" THEN [loops[w] EXCEPT !.at = next] ELSE Ready
  <2>1. HasTurn(w) /\ UNCHANGED <<jobs, unsent, route, feed>> /\ Goes(w, to)
    BY <1>7 DEF Reread, Turn, tables
  <2>2. [loops[w] EXCEPT !.at = next].job = j
    BY DEF IInv, Typed, LoopState
  <2>3. to.at \in Sections => jobs[to.job].status = "running"
    BY <1>3, <2>2
  <2> HIDE DEF to
  <2> QED
    BY <1>2, <2>1, <2>3
<1>8. CASE Answered(w) \/ SurfaceAnswered(w) \/ FinishRead(w) \/ FailRead(w)
  BY <1>7, <1>8 DEF Answered, SurfaceAnswered, FinishRead, FailRead
<1>9. CASE SurfaceWrites(w) \/ SurfaceDeclines(w)
  <2>1. /\ HasTurn(w) /\ UNCHANGED <<jobs, unsent, route, feed>>
        /\ \/ Goes(w, At("surfaced", j))
           \/ Goes(w, [loops[w] EXCEPT !.at = "surfaced", !.writes = Append(@, "tx")])
    BY <1>9 DEF SurfaceWrites, SurfaceDeclines, Land, tables
  <2>2. /\ At("surfaced", j).at \notin Sections
        /\ [loops[w] EXCEPT !.at = "surfaced", !.writes = Append(@, "tx")].at \notin Sections
    BY SectionPoints DEF At, IInv, Typed, LoopState
  <2> QED
    BY <1>2, <2>1, <2>2
<1>10. CASE LandComment(w) \/ LandName(w)
  <2>1. /\ HasTurn(w) /\ UNCHANGED <<jobs, unsent, route, feed>> /\ loops[w].at \in Sections
        /\ \E next \in {"naming", "finishing"}, tool \in Tools :
             Goes(w, [loops[w] EXCEPT !.at = next, !.writes = Append(@, tool)])
    BY <1>10 DEF LandComment, LandName, Land, Turn, Sections, Tools
  <2>2. \A next \in {"naming", "finishing"}, tool \in Tools :
          [loops[w] EXCEPT !.at = next, !.writes = Append(@, tool)].job = j
    BY DEF IInv, Typed, LoopState
  <2> QED
    BY <1>1, <1>2, <2>1, <2>2
<1>11. CASE NameRefused(w)
  <2>1. /\ HasTurn(w) /\ UNCHANGED <<jobs, unsent, route, feed>>
        /\ Goes(w, [At("failing", j) EXCEPT !.transient = FALSE])
    BY <1>11 DEF NameRefused, Fails, Turn, tables
  <2>2. [At("failing", j) EXCEPT !.transient = FALSE].at \notin Sections
    BY SectionPoints DEF At
  <2> QED
    BY <1>2, <2>1, <2>2
<1>12. CASE FinishWrite(w)
  <2>1. /\ HasTurn(w) /\ loops[w].at = "finished" /\ UNCHANGED <<route, feed>>
        /\ Announces(Proc(w), j, "done", w) /\ Goes(w, Ready)
    BY <1>12 DEF FinishWrite, Turn
  <2>2. jobs[j].status = "running" /\ j \in Jobs
    BY <1>1, <2>1, HoldingPoints DEF Sections, IInv, Typed
  <2> DEFINE row == [jobs[j] EXCEPT !.status = "done"]
  <2>3. jobs' = [jobs EXCEPT ![j] = row]
    BY <1>12, <2>2 DEF FinishWrite, SetStatus
  <2>4. row.status = "done" /\ Tells("done") = "done" /\ "done" \in Types
    BY <2>2 DEF IInv, Typed, JobRow, Tells, Types
  <2>5. <<jobs[j].status, "done">> \in Legal
    BY <2>2 DEF Legal
  <2> HIDE DEF row
  <2> QED
    BY <1>3, <2>1, <2>3, <2>4, <2>5, LoopReports, HoldingPoints
<1>13. CASE FailWrite(w)
  <2> DEFINE status == IF Requeues(w) THEN "queued" ELSE "failed"
             type == IF Requeues(w) THEN "requeued" ELSE "failed"
             row == [jobs[j] EXCEPT !.status = status]
  <2>1. /\ HasTurn(w) /\ loops[w].at = "failed" /\ UNCHANGED <<route, feed>>
        /\ Announces(Proc(w), j, type, w) /\ Goes(w, Ready)
    BY <1>13 DEF FailWrite, FailAs, Turn
  <2>2. jobs[j].status = "running" /\ j \in Jobs
    BY <1>1, <2>1, HoldingPoints DEF Sections, IInv, Typed
  <2>3. jobs' = [jobs EXCEPT ![j] = row]
    BY <1>13, <2>2 DEF FailWrite, FailAs, SetStatus
  <2>4. row.status = status /\ Tells(type) = status /\ type \in Types
    BY <2>2 DEF IInv, Typed, JobRow, Tells, Types
  <2>5. <<jobs[j].status, status>> \in Legal
    BY <2>2 DEF Legal
  <2> HIDE DEF row, status, type
  <2> QED
    BY <1>3, <2>1, <2>3, <2>4, <2>5, LoopReports, HoldingPoints
<1> QED
  BY <1>4, <1>5, <1>6, <1>8, <1>9, <1>10, <1>11, <1>12, <1>13 DEF LoopStep

LEMMA StepOrderly == OneServer /\ IInv /\ IInv' /\ Orderly /\ [Next]_vars => Orderly' /\ Step
<1> SUFFICES ASSUME OneServer, IInv, IInv', Orderly, [Next]_vars PROVE Orderly' /\ Step
  OBVIOUS
<1> USE DEF tables
<1>1. ASSUME NEW p \in Procs, Announce(p) PROVE Orderly' /\ Step
  <2> DEFINE j == unsent[p][1]
             type == unsent[p][2]
  <2>1. j \in Jobs /\ type \in Types /\ UNCHANGED <<jobs, route, loops>>
    BY <1>1 DEF Announce, Orderly, Events
  <2>2. unsent' = [unsent EXCEPT ![p] = NoEvent] /\ feed' = [feed EXCEPT ![j] = Append(@, type)]
    BY <1>1 DEF Announce
  <2>3. unsent' \in [Procs -> Events]
    BY <2>2 DEF Orderly, Events
  <2>4. feed' \in [Jobs -> Seq(Types)]
    <3>1. Append(feed[j], type) \in Seq(Types)
      BY <2>1, AppendProperties DEF Orderly
    <3> HIDE DEF j, type
    <3> QED
      BY <2>1, <2>2, <3>1 DEF Orderly
  <2>5. \A q \in Procs : unsent'[q] = NoEvent
    BY <2>2 DEF OneServer, Orderly
  <2>6. RouteAlone' /\ SectionsRun' /\ EventsTell'
    BY <2>1, <2>5 DEF RouteAlone, SectionsRun, EventsTell, Orderly
  <2> QED
    BY <1>1, <2>3, <2>4, <2>6 DEF Orderly, Step
<1>2. ASSUME NEW p \in Procs, NEW j \in Jobs, CancelRead(p, j) PROVE Orderly' /\ Step
  <2>1. /\ UNCHANGED <<jobs, unsent, feed, loops>> /\ jobs[j].status \in {"queued", "running"}
        /\ route' = [route EXCEPT ![p] = j] /\ Free(p)
    BY <1>2 DEF CancelRead, CancelFrom
  <2>2. \A q \in Procs : /\ route'[q] = j /\ unsent[q] = NoEvent
                         /\ \A w \in Loops : loops[w].at \notin Mid
    BY <2>1 DEF OneServer, Free, FreeBut, Loops, Proc, IInv, Typed
  <2>3. RouteAlone' /\ SectionsRun' /\ EventsTell'
    BY <2>1, <2>2 DEF RouteAlone, SectionsRun, EventsTell, Orderly
  <2> QED
    BY <2>1, <2>3 DEF Orderly, Step
<1>3. ASSUME NEW p \in Procs, CancelWrite(p) PROVE Orderly' /\ Step
  <2> DEFINE j == route[p]
             row == [jobs[j] EXCEPT !.status = "cancelled"]
  <2>1. /\ j # NoJob /\ jobs' = [jobs EXCEPT ![j] = row] /\ Announces(p, j, "cancelled", NoLoop)
        /\ route' = [route EXCEPT ![p] = NoJob] /\ UNCHANGED <<feed, loops>>
    BY <1>3 DEF CancelWrite, SetStatus
  <2>2. /\ jobs[j].status \in {"queued", "running"} /\ unsent[p] = NoEvent
        /\ \A w \in Loops : loops[w].at \notin Mid
    BY <2>1 DEF Orderly, RouteAlone
  <2>3. j \in Jobs
    BY <2>1 DEF IInv, Typed
  <2>4. row.status = "cancelled" /\ jobs'[j] = row
    BY <2>1, <2>3 DEF IInv, Typed, JobRow
  <2>5. Tells("cancelled") = "cancelled" /\ "cancelled" \in Types
    BY DEF Tells, Types
  <2>6. <<jobs[j].status, "cancelled">> \in Legal
    BY <2>2 DEF Legal
  <2>7. \A q \in Procs : route'[q] = NoJob
    BY <2>1 DEF OneServer, IInv, Typed
  <2>8. \A w \in Loops : loops'[w].at \notin Sections
    BY <2>1, <2>2, SectionPoints
  <2> HIDE DEF j, row
  <2>9. Orderly'
    BY <2>1, <2>3, <2>4, <2>5, <2>7, <2>8, LoudStep DEF Writers
  <2>10. Reports(p, j)
    BY <2>1, <2>2, <2>4, <2>5, <2>6 DEF Reports, Writers
  <2> QED
    BY <2>3, <2>9, <2>10 DEF Step
<1>4. ASSUME NEW p \in Procs, NEW j \in Jobs, NEW kind \in Kinds, Enqueue(p, j, kind)
      PROVE  Orderly' /\ Step
  <2> DEFINE row == [status |-> "queued", kind |-> kind, attempts |-> 0]
  <2>1. /\ Free(p) /\ jobs[j].status = "none" /\ jobs' = [jobs EXCEPT ![j] = row]
        /\ Announces(p, j, "queued", NoLoop) /\ UNCHANGED <<feed, loops, route>>
    BY <1>4 DEF Enqueue
  <2>2. /\ unsent[p] = NoEvent
        /\ \A q \in Procs : route[q] = NoJob
        /\ \A w \in Loops : loops[w].at \notin Mid
    BY <2>1 DEF OneServer, Free, FreeBut, Loops, Proc
  <2>3. jobs'[j] = row
    BY <2>1 DEF IInv, Typed
  <2>4. Tells("queued") = "queued" /\ "queued" \in Types /\ row.status = "queued"
    BY DEF Tells, Types
  <2>5. <<jobs[j].status, "queued">> \in Legal
    BY <2>1 DEF Legal
  <2>6. \A w \in Loops : loops'[w].at \notin Sections
    BY <2>1, <2>2, SectionPoints
  <2> HIDE DEF row
  <2>7. Orderly'
    BY <2>1, <2>2, <2>4, <2>6, LoudStep DEF Writers
  <2>8. Reports(p, j)
    BY <2>1, <2>2, <2>3, <2>4, <2>5 DEF Reports, Writers
  <2> QED
    BY <2>7, <2>8 DEF Step
<1>5. ASSUME NEW p \in Procs, Tick(p) PROVE Orderly' /\ Step
  <2>1. PICK started : loops' = [w \in Loops |-> IF w \in started THEN Ready ELSE loops[w]]
    BY <1>5 DEF Tick, TickUnless
  <2>2. UNCHANGED <<jobs, unsent, feed, route>> /\ Free(p)
    BY <1>5 DEF Tick, TickUnless
  <2>3. \A q \in Procs : route[q] = NoJob
    BY <2>2 DEF OneServer, Free, FreeBut
  <2>4. Ready.at \notin Sections
    BY SectionPoints DEF Ready, At
  <2>5. RouteAlone' /\ SectionsRun' /\ EventsTell'
    BY <2>1, <2>2, <2>3, <2>4 DEF RouteAlone, SectionsRun, EventsTell, Orderly
  <2> QED
    BY <2>2, <2>5 DEF Orderly, Step
<1>6. ASSUME NEW p \in Procs, Crash(p) PROVE Orderly' /\ Step
  <2>1. /\ UNCHANGED <<jobs, feed>>
        /\ loops' = [w \in Loops |-> IF Proc(w) = p THEN Off ELSE loops[w]]
        /\ route' = [route EXCEPT ![p] = NoJob] /\ unsent' = [unsent EXCEPT ![p] = NoEvent]
    BY <1>6 DEF Crash
  <2>2. Off.at \notin Sections
    BY SectionPoints DEF Off, At
  <2>3. /\ \A q \in Procs : route'[q] = NoJob /\ unsent'[q] = NoEvent
        /\ \A w \in Loops : loops'[w].at \notin Sections
    BY <2>1, <2>2 DEF OneServer, Loops, Proc, IInv, Typed, Orderly
  <2>4. RouteAlone' /\ SectionsRun' /\ EventsTell'
    BY <2>3 DEF RouteAlone, SectionsRun, EventsTell
  <2>5. unsent' \in [Procs -> Events] /\ feed' \in [Jobs -> Seq(Types)]
    BY <2>1 DEF Orderly, Events
  <2> QED
    BY <1>6, <2>4, <2>5 DEF Orderly, Step
<1>7. ASSUME NEW w \in Loops, HasTurn(w), UNCHANGED <<jobs, unsent, route, feed>>,
             NEW to, Goes(w, to), to.at \notin Sections
      PROVE  Orderly' /\ Step
  BY <1>7, QuietStep DEF Step
<1>8. ASSUME NEW w \in Loops, NEW point, NEW t, Fails(w, point, t) PROVE Orderly' /\ Step
  <2>1. [At("failing", loops[w].job) EXCEPT !.transient = t].at \notin Sections
    BY SectionPoints DEF At
  <2> QED
    BY <1>7, <1>8, <2>1 DEF Fails, Turn
<1>9. ASSUME NEW w \in Loops, Refused(w) PROVE Orderly' /\ Step
  <2>1. HasTurn(w) /\ UNCHANGED <<jobs, unsent, route, feed>>
    BY <1>9 DEF Refused
  <2>2. Goes(w, Off) \/ Goes(w, At("failing", loops[w].job))
    BY <1>9 DEF Refused, Rejects
  <2>3. Off.at \notin Sections /\ At("failing", loops[w].job).at \notin Sections
    BY SectionPoints DEF Off, At
  <2> QED
    BY <1>7, <2>1, <2>2, <2>3
<1>11. ASSUME NEW p \in Procs, UNCHANGED <<jobs, feed>>,
              unsent' = [unsent EXCEPT ![p] = NoEvent], route'[p] = NoJob,
              \A w \in Loops : loops'[w] = loops[w] \/ loops'[w].at \notin Sections
       PROVE  Orderly'
  <2>1. unsent' \in [Procs -> Events]
    BY <1>11 DEF Orderly, Events
  <2>2. \A q \in Procs : unsent'[q] = NoEvent /\ route'[q] = NoJob
    BY <1>11 DEF OneServer, Orderly
  <2>3. RouteAlone' /\ EventsTell'
    BY <2>2 DEF RouteAlone, EventsTell
  <2>4. SectionsRun'
    BY <1>11 DEF SectionsRun, Orderly
  <2> QED
    BY <1>11, <2>1, <2>3, <2>4 DEF Orderly
<1>12. ASSUME NEW w \in Loops, EventRefused(w) PROVE Orderly' /\ Step
  <2>1. /\ UNCHANGED <<jobs, feed, route>> /\ unsent[Proc(w)] # NoEvent
        /\ unsent' = [unsent EXCEPT ![Proc(w)] = NoEvent]
        /\ UNCHANGED loops \/ Goes(w, Off)
    BY <1>12 DEF EventRefused, Rejects
  <2>2. Proc(w) \in Procs
    BY DEF Loops, Proc
  <2>3. route'[Proc(w)] = NoJob
    BY <2>1, <2>2 DEF Orderly, RouteAlone
  <2>4. \A x \in Loops : loops'[x] = loops[x] \/ loops'[x].at \notin Sections
    BY <2>1, SectionPoints DEF Goes, Off, At, IInv, Typed
  <2>5. Orderly'
    BY <1>11, <2>1, <2>2, <2>3, <2>4
  <2> QED
    BY <1>12, <2>5 DEF Step
<1>13. ASSUME NEW p \in Procs, RouteRefused(p) PROVE Orderly' /\ Step
  <2>1. /\ UNCHANGED <<jobs, feed, loops>>
        /\ unsent' = [unsent EXCEPT ![p] = NoEvent] /\ route' = [route EXCEPT ![p] = NoJob]
    BY <1>13 DEF RouteRefused
  <2>2. route'[p] = NoJob
    BY <2>1 DEF IInv, Typed
  <2>3. Orderly'
    BY <1>11, <2>1, <2>2
  <2> QED
    BY <1>13, <2>3 DEF Step
<1>10. CASE UNCHANGED vars
  BY <1>10 DEF vars, Orderly, RouteAlone, SectionsRun, EventsTell, Step
<1> QED
  BY <1>1, <1>2, <1>3, <1>4, <1>5, <1>6, <1>8, <1>9, <1>10, <1>12, <1>13, LoopStepOrderly
     DEF Next, BackendFails, TreeWriteFails

LEMMA InitOrderly == Init => Orderly
<1> SUFFICES ASSUME Init PROVE Orderly
  OBVIOUS
<1>1. \A w \in Loops : loops[w].at \notin Sections
  BY SectionPoints DEF Init, Off, At
<1>2. feed \in [Jobs -> Seq(Types)] /\ unsent \in [Procs -> Events]
  BY DEF Init, Events
<1> QED
  BY <1>1, <1>2 DEF Init, Orderly, RouteAlone, SectionsRun, EventsTell

LEMMA OrderlyAlways == ASSUME OneServer PROVE Spec => []Orderly
<1>1. IInv /\ IInv' /\ Orderly /\ [Next]_vars => Orderly'
  BY StepOrderly
<1> QED
  BY <1>1, Invariance, InitOrderly, PTL DEF Spec

\* A report changes one job's status, along the state machine.
LEMMA ReportsLegal ==
  ASSUME IInv, NEW p \in Procs, NEW j \in Jobs, Reports(p, j), NEW k \in Jobs,
         jobs'[k].status # jobs[k].status
  PROVE  k = j /\ <<jobs[k].status, jobs'[k].status>> \in Legal
<1>1. jobs' = [jobs EXCEPT ![j] = jobs'[j]] /\ jobs \in [Jobs -> JobRow]
  BY DEF Reports, IInv, Typed
<1>2. k = j
  BY <1>1
<1> QED
  BY <1>2 DEF Reports

\* While one server drains the queue, a job's status moves only along the
\* state machine of queue.ts's header: a cancel never overtakes an end.
THEOREM OneServerKeepsStates == OneServer => (Spec => LegalTransitions)
<1> SUFFICES ASSUME OneServer PROVE Spec => LegalTransitions
  OBVIOUS
<1> DEFINE Keeps ==
      \A j \in Jobs :
        jobs[j].status # jobs'[j].status => <<jobs[j].status, jobs'[j].status>> \in Legal
<1>1. IInv /\ IInv' /\ Orderly /\ [Next]_vars => Keeps
  <2> SUFFICES ASSUME IInv, IInv', Orderly, [Next]_vars, NEW k \in Jobs,
                      jobs[k].status # jobs'[k].status
               PROVE  <<jobs[k].status, jobs'[k].status>> \in Legal
    OBVIOUS
  <2>1. Step
    BY StepOrderly
  <2>2. /\ \A p \in Procs : Announce(p) \/ Crash(p) \/ RouteRefused(p) => UNCHANGED jobs
        /\ \A w \in Loops : EventRefused(w) => UNCHANGED jobs
    BY DEF Announce, Crash, RouteRefused, EventRefused, tables
  <2>3. PICK p \in Procs, j \in Jobs : Reports(p, j)
    BY <2>1, <2>2 DEF Step
  <2> QED
    BY <2>3, ReportsLegal
<1>2. IInv /\ IInv' /\ Orderly /\ [Next]_vars => [Keeps]_vars
  BY <1>1
<1> HIDE DEF Keeps
<1>3. Spec => [][Keeps]_vars
  BY <1>2, OrderlyAlways, Invariance, PTL DEF Spec
<1>4. Keeps <=> \A j \in Jobs :
         LET from == jobs[j].status
             to == jobs'[j].status
         IN  from # to => <<from, to>> \in Legal
  BY DEF Keeps
<1> QED
  BY <1>3, <1>4, PTL DEF LegalTransitions, Legal
-----------------------------------------------------------------------------
(* The feed.  A death between a row's UPDATE and its event loses the event, *)
(* and so does a refused INSERT: without either, none is lost.              *)
NoDeaths == MaxCrashes = 0
NoRefusals == MaxThrows = 0

Alive == crashes = 0
Unrefused == throws = 0

LEMMA StaysAlive == ASSUME NoDeaths, Alive, [Next]_vars
                    PROVE  Alive' /\ \A p \in Procs : ~Crash(p)
<1>1. \A p \in Procs : ~Crash(p)
  BY DEF Crash, NoDeaths, Alive
<1>2. UNCHANGED crashes
  BY <1>1 DEF Next, vars, Announce, Tick, TickUnless, CancelWrite, CancelRead, CancelFrom,
       Enqueue, LoopStep, Pick, PickOrLeave, Claim, ClaimIf, Begin, Answered, SurfaceAnswered,
       Reread, SurfaceWrites, SurfaceDeclines, Land, LandComment, LandName, NameRefused, Fails,
       FinishRead, FinishWrite, FailRead, FailWrite, FailAs, BackendFails, TreeWriteFails, Refused,
       EventRefused, RouteRefused
<1> QED
  BY <1>1, <1>2 DEF Alive

LEMMA StaysUnrefused ==
  ASSUME NoRefusals, Unrefused, [Next]_vars
  PROVE  /\ Unrefused'
         /\ \A w \in Loops : ~Refused(w) /\ ~EventRefused(w)
         /\ \A p \in Procs : ~RouteRefused(p)
<1>1. ~Throws
  BY DEF Throws, NoRefusals, Unrefused
<1>2. /\ \A w \in Loops : ~Refused(w) /\ ~EventRefused(w)
      /\ \A p \in Procs : ~RouteRefused(p)
  BY <1>1 DEF Refused, EventRefused, RouteRefused
<1>3. UNCHANGED throws
  BY <1>2 DEF Next, vars, Announce, Tick, TickUnless, CancelWrite, CancelRead, CancelFrom,
       Enqueue, LoopStep, Pick, PickOrLeave, Claim, ClaimIf, Begin, Answered, SurfaceAnswered,
       Reread, SurfaceWrites, SurfaceDeclines, Land, LandComment, LandName, NameRefused, Fails,
       FinishRead, FinishWrite, FailRead, FailWrite, FailAs, BackendFails, TreeWriteFails, Crash
<1> QED
  BY <1>2, <1>3 DEF Unrefused

LEMMA FeedStep ==
  ASSUME OneServer, IInv, Orderly, FeedTellsStatus, Step,
         \A p \in Procs : ~Crash(p) /\ ~RouteRefused(p), \A w \in Loops : ~EventRefused(w)
  PROVE  FeedTellsStatus'
<1>1. CASE UNCHANGED <<jobs, unsent, feed>>
  BY <1>1 DEF FeedTellsStatus
<1>2. ASSUME NEW p \in Procs, Announce(p) PROVE FeedTellsStatus'
  <2> DEFINE j == unsent[p][1]
             type == unsent[p][2]
  <2>1. /\ j \in Jobs /\ type \in Types /\ UNCHANGED jobs
        /\ feed' = [feed EXCEPT ![j] = Append(@, type)]
        /\ Tells(type) = jobs[j].status
    BY <1>2 DEF Announce, Orderly, EventsTell, Events
  <2>2. \A q \in Procs : q = p
    BY DEF OneServer
  <2>3. feed[j] \in Seq(Types) /\ feed'[j] = Append(feed[j], type)
    <3> HIDE DEF j, type
    <3> QED
      BY <2>1 DEF Orderly
  <2>4. feed'[j] # <<>> /\ Last(feed'[j]) = type
    <3> HIDE DEF j, type
    <3>1. Len(feed'[j]) = Len(feed[j]) + 1 /\ feed'[j][Len(feed[j]) + 1] = type
      BY <2>1, <2>3, AppendProperties
    <3>2. Len(feed[j]) \in Nat
      BY <2>3
    <3> QED
      BY <3>1, <3>2 DEF Last
  <2>5. \A k \in Jobs \ {j} : feed'[k] = feed[k]
    <3> HIDE DEF j, type
    <3> QED
      BY <2>1 DEF Orderly
  <2>6. \A k \in Jobs \ {j} : \A q \in Procs : unsent[q][1] # k
    BY <2>2
  <2> HIDE DEF j, type
  <2> QED
    BY <2>1, <2>4, <2>5, <2>6 DEF FeedTellsStatus
<1>3. ASSUME NEW p \in Procs, NEW j \in Jobs, Reports(p, j) PROVE FeedTellsStatus'
  <2>1. PICK type \in Types, u \in Writers : unsent' = [unsent EXCEPT ![p] = <<j, type, u>>]
    BY <1>3 DEF Reports, Announces
  <2>2. unsent'[p] = <<j, type, u>> /\ unsent'[p] # NoEvent /\ unsent'[p][1] = j
    BY <2>1 DEF Orderly, NoEvent
  <2>3. /\ \A q \in Procs : q = p /\ unsent[q] = NoEvent
        /\ UNCHANGED feed
    BY <1>3 DEF Reports, OneServer
  <2>4. \A k \in Jobs \ {j} : jobs'[k] = jobs[k]
    BY <1>3 DEF Reports, IInv, Typed
  <2> QED
    BY <2>2, <2>3, <2>4 DEF FeedTellsStatus
<1> QED
  BY <1>1, <1>2, <1>3 DEF Step

\* The last event of a job tells its status, for a reader of the feed alone.
THEOREM OneServerTells == OneServer /\ NoDeaths /\ NoRefusals => (Spec => []FeedTellsStatus)
<1> SUFFICES ASSUME OneServer, NoDeaths, NoRefusals PROVE Spec => []FeedTellsStatus
  OBVIOUS
<1>1. Init => Alive /\ Unrefused /\ FeedTellsStatus
  BY DEF Init, Alive, Unrefused, FeedTellsStatus
<1>2. IInv /\ IInv' /\ Orderly /\ Alive /\ Unrefused /\ FeedTellsStatus /\ [Next]_vars
        => Alive' /\ Unrefused' /\ FeedTellsStatus'
  BY StepOrderly, StaysAlive, StaysUnrefused, FeedStep
<1> QED
  BY <1>1, <1>2, OrderlyAlways, Invariance, PTL DEF Spec
-----------------------------------------------------------------------------
(* Cancellation.  Between a job's first write and its end its loop keeps    *)
(* the event loop, so that no cancel can come between.  A refused statement *)
(* or a death breaks that run, and a readability surface leaves it.         *)
Unsurfaced == "readability" \notin Kinds

Ending == {"naming", "finishing", "finished", "failing", "failed"}

Clean ==
  \A j \in Jobs : landed[j] # <<>> =>
    \/ jobs[j].status \in {"done", "failed"}
    \/ /\ jobs[j].status = "running"
       /\ \E w \in Loops : loops[w].at \in Ending /\ loops[w].job = j

\* Where a loop has the turn, no other loop is between its write and its end.
LEMMA MineOrEnded ==
  ASSUME OneServer, Clean, NEW w \in Loops, HasTurn(w), NEW j \in Jobs, landed[j] # <<>>
  PROVE  \/ jobs[j].status \in {"done", "failed"}
         \/ jobs[j].status = "running" /\ loops[w].at \in Ending /\ loops[w].job = j
<1>1. Ending \subseteq Mid
  BY DEF Ending, Mid
<1>2. \A x \in Loops \ {w} : loops[x].at \notin Ending
  BY <1>1, TurnAlone
<1> QED
  BY <1>2 DEF Clean

\* Where the event loop is free, or a cancel's, what has landed has ended.
LEMMA AllEnded ==
  ASSUME Clean, \A w \in Loops : loops[w].at \notin Mid, NEW j \in Jobs, landed[j] # <<>>
  PROVE  jobs[j].status \in {"done", "failed"}
BY DEF Clean, Ending, Mid

\* A loop moves, the tables being left alone: an ending job stays in hand.
LEMMA QuietClean ==
  ASSUME OneServer, IInv, Clean, NEW w \in Loops, HasTurn(w), NEW to, Goes(w, to),
         UNCHANGED <<jobs, landed>>,
         loops[w].at \in Ending /\ jobs[loops[w].job].status = "running"
           => to.at \in Ending /\ to.job = loops[w].job
  PROVE  Clean'
<1>1. loops'[w] = to
  BY DEF Goes, IInv, Typed
<1> QED
  BY <1>1, MineOrEnded DEF Clean

\* The loop's own job changes, and no other.
LEMMA OwnClean ==
  ASSUME OneServer, IInv, Clean, NEW w \in Loops, HasTurn(w), loops[w].at \in InFlight,
         \A k \in Jobs \ {loops[w].job} : jobs'[k] = jobs[k] /\ landed'[k] = landed[k],
         landed'[loops[w].job] # <<>> =>
           \/ jobs'[loops[w].job].status \in {"done", "failed"}
           \/ /\ jobs'[loops[w].job].status = "running"
              /\ loops'[w].at \in Ending /\ loops'[w].job = loops[w].job
  PROVE  Clean'
<1>1. loops[w].job \in Jobs
  BY DEF IInv, Typed
<1> QED
  BY <1>1, MineOrEnded DEF Clean

LEMMA LoopStepClean ==
  ASSUME OneServer, Unsurfaced, IInv, Orderly, Landings, Clean, NEW w \in Loops, LoopStep(w)
  PROVE  Clean'
<1> DEFINE j == loops[w].job
<1>1. ASSUME HasTurn(w), UNCHANGED <<jobs, landed>>, loops[w].at \notin Ending,
             NEW to, Goes(w, to)
      PROVE  Clean'
  BY <1>1, QuietClean
<1>2. CASE Pick(w)
  <2>1. HasTurn(w) /\ UNCHANGED <<jobs, landed>> /\ loops[w].at \notin Ending
    BY <1>2 DEF Pick, PickOrLeave, tables, Turn, Ending
  <2>2. Goes(w, Off) \/ \E i \in Queued : Goes(w, At("picked", created[i]))
    BY <1>2 DEF Pick, PickOrLeave
  <2> QED
    BY <1>1, <2>1, <2>2
<1>3. CASE Claim(w)
  <2>1. HasTurn(w) /\ loops[w].at = "picked" /\ UNCHANGED landed
    BY <1>3 DEF Claim, ClaimIf, Turn
  <2>2. loops[w].at \in InFlight /\ loops[w].at \notin Ending
    BY <2>1 DEF Ending, InFlight, Mid
  <2>3. CASE jobs[j].status = "queued"
    <3>1. j \in Jobs /\ landed[j] = <<>>
      BY <2>2, <2>3 DEF IInv, Typed, Landings, Settled
    <3>2. \A k \in Jobs \ {j} : jobs'[k] = jobs[k]
      BY <1>3, <2>3 DEF Claim, ClaimIf, IInv, Typed
    <3> QED
      BY <2>1, <2>2, <3>1, <3>2, OwnClean
  <2>4. CASE jobs[j].status # "queued"
    <3>1. Goes(w, Ready) /\ UNCHANGED jobs
      BY <1>3, <2>4 DEF Claim, ClaimIf
    <3> QED
      BY <1>1, <2>1, <2>2, <3>1
  <2> QED
    BY <2>3, <2>4
<1>4. CASE Begin(w)
  <2>1. /\ HasTurn(w) /\ UNCHANGED <<jobs, landed>> /\ loops[w].at \notin Ending
        /\ \E point \in {"failing", "awaiting"} : Goes(w, At(point, j))
    BY <1>4 DEF Begin, Turn, tables, Ending
  <2> QED
    BY <1>1, <2>1
<1>5. ASSUME NEW point, NEW next, Reread(w, point, next), point \in Ending => next \in Ending
      PROVE  Clean'
  <2> DEFINE to == IF jobs[j].status = "running" THEN [loops[w] EXCEPT !.at = next] ELSE Ready
  <2>1. /\ HasTurn(w) /\ UNCHANGED <<jobs, landed>> /\ Goes(w, to) /\ loops[w].at = point
    BY <1>5 DEF Reread, Turn, tables
  <2>2. [loops[w] EXCEPT !.at = next].job = j /\ [loops[w] EXCEPT !.at = next].at = next
    BY DEF IInv, Typed, LoopState
  <2>3. loops[w].at \in Ending /\ jobs[j].status = "running" => to.at \in Ending /\ to.job = j
    BY <1>5, <2>1, <2>2
  <2> HIDE DEF to
  <2> QED
    BY <2>1, <2>3, QuietClean
<1>6. CASE Answered(w) \/ SurfaceAnswered(w) \/ FinishRead(w) \/ FailRead(w)
  BY <1>5, <1>6 DEF Answered, SurfaceAnswered, FinishRead, FailRead, Ending
<1>7. CASE SurfaceWrites(w)
  <2>1. jobs[j].kind = "readability" /\ j \in Jobs
    BY <1>7 DEF SurfaceWrites, Works, IInv, Typed, InFlight
  <2>2. jobs[j].kind \in Kinds \cup {"none"}
    BY <2>1 DEF IInv, Typed, JobRow
  <2> QED
    BY <2>1, <2>2 DEF Unsurfaced
<1>8. CASE SurfaceDeclines(w)
  <2>1. /\ HasTurn(w) /\ UNCHANGED <<jobs, landed>> /\ loops[w].at \notin Ending
        /\ Goes(w, At("surfaced", j))
    BY <1>8 DEF SurfaceDeclines, Works, tables, Ending
  <2> QED
    BY <1>1, <2>1
<1>9. CASE LandComment(w) \/ LandName(w)
  <2>1. /\ HasTurn(w) /\ loops[w].at \in {"landing", "naming"} /\ UNCHANGED jobs
        /\ \E tool : landed' = [landed EXCEPT ![j] = Append(@, tool)]
        /\ \E next \in {"naming", "finishing"}, tool \in Tools :
             Goes(w, [loops[w] EXCEPT !.at = next, !.writes = Append(@, tool)])
    BY <1>9 DEF Tools, LandComment, LandName, Land, Turn
  <2>2. loops[w].at \in InFlight /\ loops[w].at \in Sections
    BY <2>1 DEF InFlight, Mid, Sections
  <2>3. jobs[j].status = "running" /\ j \in Jobs
    BY <2>2 DEF IInv, Typed, Orderly, SectionsRun
  <2>4. \A k \in Jobs \ {j} : landed'[k] = landed[k]
    BY <2>1 DEF Landings
  <2>5. loops'[w].at \in Ending /\ loops'[w].job = j
    BY <2>1 DEF Goes, IInv, Typed, LoopState, Ending
  <2> QED
    BY <2>1, <2>2, <2>3, <2>4, <2>5, OwnClean
<1>10. CASE NameRefused(w)
  <2> DEFINE to == [At("failing", j) EXCEPT !.transient = FALSE]
  <2>1. HasTurn(w) /\ UNCHANGED <<jobs, landed>> /\ Goes(w, to)
    BY <1>10 DEF NameRefused, Fails, Turn, tables
  <2>2. to.at \in Ending /\ to.job = j
    BY DEF At, Ending
  <2> HIDE DEF to
  <2> QED
    BY <2>1, <2>2, QuietClean
<1>11. CASE FinishWrite(w)
  <2>1. HasTurn(w) /\ loops[w].at = "finished" /\ UNCHANGED landed
    BY <1>11 DEF FinishWrite, Turn
  <2>2. loops[w].at \in InFlight /\ j \in Jobs /\ jobs[j].status = "running"
    BY <2>1 DEF InFlight, Mid, Sections, IInv, Typed, Orderly, SectionsRun
  <2>3. jobs' = [jobs EXCEPT ![j].status = "done"]
    BY <1>11, <2>2 DEF FinishWrite, SetStatus
  <2>4. jobs'[j].status = "done" /\ \A k \in Jobs \ {j} : jobs'[k] = jobs[k]
    BY <2>2, <2>3 DEF IInv, Typed, JobRow
  <2> QED
    BY <2>1, <2>2, <2>4, OwnClean
<1>12. CASE FailWrite(w)
  <2> DEFINE status == IF Requeues(w) THEN "queued" ELSE "failed"
  <2>1. HasTurn(w) /\ loops[w].at = "failed" /\ UNCHANGED landed
    BY <1>12 DEF FailWrite, FailAs, Turn
  <2>2. loops[w].at \in InFlight /\ j \in Jobs /\ jobs[j].status = "running"
    BY <2>1 DEF InFlight, Mid, Sections, IInv, Typed, Orderly, SectionsRun
  <2>3. jobs' = [jobs EXCEPT ![j].status = status]
    BY <1>12, <2>2 DEF FailWrite, FailAs, SetStatus
  <2>4. jobs'[j].status = status /\ \A k \in Jobs \ {j} : jobs'[k] = jobs[k]
    BY <2>2, <2>3 DEF IInv, Typed, JobRow
  <2>5. loops[w].transient => landed[j] = <<>>
    BY <2>1, HoldingPoints DEF Landings, Consistent
  <2>6. landed'[j] # <<>> => jobs'[j].status = "failed"
    BY <2>1, <2>4, <2>5 DEF Requeues
  <2> QED
    BY <2>1, <2>2, <2>4, <2>6, OwnClean
<1> QED
  BY <1>2, <1>3, <1>4, <1>6, <1>7, <1>8, <1>9, <1>10, <1>11, <1>12 DEF LoopStep

LEMMA StepClean ==
  ASSUME OneServer, Unsurfaced, IInv, Orderly, Landings, Clean, [Next]_vars,
         \A p \in Procs : ~Crash(p) /\ ~RouteRefused(p),
         \A w \in Loops : ~Refused(w) /\ ~EventRefused(w)
  PROVE  Clean'
<1>1. CASE UNCHANGED <<jobs, landed, loops>>
  BY <1>1 DEF Clean
<1>2. ASSUME NEW p \in Procs, Free(p) PROVE \A w \in Loops : loops[w].at \notin Mid
  BY <1>2 DEF OneServer, Free, FreeBut, Loops, Proc
<1>3. ASSUME NEW p \in Procs, Tick(p) PROVE Clean'
  <2>1. Free(p) /\ UNCHANGED <<jobs, landed>>
    BY <1>3 DEF Tick, TickUnless, tables
  <2> QED
    BY <1>2, <2>1, AllEnded DEF Clean
<1>4. ASSUME NEW p \in Procs, CancelWrite(p) PROVE Clean'
  <2>1. /\ route[p] \in Jobs /\ jobs[route[p]].status \in {"queued", "running"}
        /\ \A w \in Loops : loops[w].at \notin Mid
    BY <1>4 DEF CancelWrite, IInv, Typed, Orderly, RouteAlone
  <2>2. /\ UNCHANGED landed
        /\ \A k \in Jobs \ {route[p]} : jobs'[k] = jobs[k]
    BY <1>4 DEF CancelWrite, SetStatus, IInv, Typed
  <2>3. landed[route[p]] = <<>>
    BY <2>1, AllEnded
  <2> QED
    BY <2>1, <2>2, <2>3, AllEnded DEF Clean
<1>5. ASSUME NEW p \in Procs, NEW j \in Jobs, NEW kind \in Kinds, Enqueue(p, j, kind)
      PROVE  Clean'
  <2>1. /\ jobs[j].status = "none" /\ UNCHANGED landed /\ Free(p)
        /\ \A k \in Jobs \ {j} : jobs'[k] = jobs[k]
    BY <1>5 DEF Enqueue, IInv, Typed
  <2>2. landed[j] = <<>>
    BY <2>1 DEF Landings, Settled
  <2> QED
    BY <1>2, <2>1, <2>2, AllEnded DEF Clean
<1>6. ASSUME NEW w \in Loops, NEW point \in {"awaiting", "surfaced"}, NEW t \in BOOLEAN,
             Fails(w, point, t)
      PROVE  Clean'
  <2>1. /\ HasTurn(w) /\ UNCHANGED <<jobs, landed>> /\ loops[w].at \notin Ending
        /\ Goes(w, [At("failing", loops[w].job) EXCEPT !.transient = t])
    BY <1>6 DEF Fails, Turn, tables, Ending
  <2> QED
    BY <2>1, QuietClean
<1>7. CASE UNCHANGED vars
  BY <1>1, <1>7 DEF vars, tables
<1>8. \A p \in Procs : Announce(p) => UNCHANGED <<jobs, landed, loops>>
  BY DEF Announce
<1>9. \A p \in Procs, j \in Jobs : CancelRead(p, j) => UNCHANGED <<jobs, landed, loops>>
  BY DEF CancelRead, CancelFrom, tables
<1> QED
  BY <1>1, <1>3, <1>4, <1>5, <1>6, <1>7, <1>8, <1>9, LoopStepClean
     DEF Next, BackendFails, TreeWriteFails

\* A cancelled job has landed nothing and never will, of the kinds that land
\* through the tools of the server.
THEOREM OneServerCancels ==
  OneServer /\ NoDeaths /\ NoRefusals /\ Unsurfaced => (Spec => []CancelledLandsNothing)
<1> SUFFICES ASSUME OneServer, NoDeaths, NoRefusals, Unsurfaced
             PROVE  Spec => []CancelledLandsNothing
  OBVIOUS
<1>1. Init => Alive /\ Unrefused /\ Clean
  BY DEF Init, Alive, Unrefused, Clean
<1>2. IInv /\ Orderly /\ Landings /\ Alive /\ Unrefused /\ Clean /\ [Next]_vars
        => Alive' /\ Unrefused' /\ Clean'
  BY StepClean, StaysAlive, StaysUnrefused
<1>3. Spec => []Landings
  BY Invariance, InitLands, StepLands, PTL DEF Spec
<1>4. Clean => CancelledLandsNothing
  BY DEF Clean, CancelledLandsNothing
<1> QED
  BY <1>1, <1>2, <1>3, <1>4, OrderlyAlways, Invariance, PTL DEF Spec
-----------------------------------------------------------------------------
(* The pool of each server, however many there are: every loop that runs is *)
(* of the call the server awaits.  Only a call that rejects while its other *)
(* loops go on breaks that.                                                 *)
Pooled ==
  /\ \A p \in Procs : IsFiniteSet(call[p]) /\ Cardinality(call[p]) <= Concurrency
  /\ \A w \in Loops : loops[w].at # "off" => w \in call[Proc(w)]

LEMMA EmptyCall == IsFiniteSet({}) /\ Cardinality({}) <= Concurrency
BY FS_EmptySet, ConcurrencyAssumption

\* The interval, which starts Concurrency loops of an idle server.
LEMMA TickPooled == ASSUME IInv, Counted, Pooled, NEW p \in Procs, Tick(p) PROVE Pooled'
<1>1. PICK S \in SUBSET Loops :
        /\ IsFiniteSet(S) /\ Cardinality(S) = Concurrency
        /\ \A w \in S : Proc(w) = p
        /\ call[p] = {} /\ call' = [call EXCEPT ![p] = S]
        /\ loops' = [w \in Loops |-> IF w \in S THEN Ready ELSE loops[w]]
  BY TickStarts
<1>2. \A q \in Procs : call'[q] = IF q = p THEN S ELSE call[q]
  BY <1>1 DEF Counted
<1>3. Cardinality(S) <= Concurrency
  BY <1>1, ConcurrencyAssumption
<1>4. ASSUME NEW w \in Loops, loops'[w].at # "off" PROVE w \in call'[Proc(w)]
  <2>1. Proc(w) \in Procs
    BY DEF Proc, Loops
  <2>2. CASE w \in S
    BY <1>1, <1>2, <2>1, <2>2
  <2>3. CASE w \notin S
    <3>1. w \in call[Proc(w)] /\ Proc(w) # p
      BY <1>1, <1>4, <2>3 DEF Pooled
    <3> QED
      BY <1>2, <2>1, <3>1
  <2> QED
    BY <2>2, <2>3
<1> QED
  BY <1>1, <1>2, <1>3, <1>4 DEF Pooled

\* A loop that runs already moves on, the server awaiting what it awaited.
LEMMA MovePooled ==
  ASSUME IInv, Pooled, NEW w \in Loops, loops[w].at # "off", NEW to, Goes(w, to), UNCHANGED call
  PROVE  Pooled'
<1>1. \A x \in Loops : x # w => loops'[x] = loops[x]
  BY DEF Goes, IInv, Typed
<1> QED
  BY <1>1 DEF Pooled

LEMMA PickPooled == ASSUME IInv, Counted, Pooled, NEW w \in Loops, Pick(w) PROVE Pooled'
<1>1. loops[w].at = "ready"
  BY DEF Pick, PickOrLeave, Turn
<1>2. CASE UNCHANGED call
  <2>1. Goes(w, Off) \/ \E i \in Queued : Goes(w, At("picked", created[i]))
    BY DEF Pick, PickOrLeave
  <2> QED
    BY <1>1, <1>2, <2>1, MovePooled
<1>3. CASE Goes(w, Off) /\ call' = [call EXCEPT ![Proc(w)] = call[Proc(w)] \ {w}]
  <2> DEFINE p == Proc(w)
             rest == call[p] \ {w}
  <2>1. p \in Procs
    BY DEF Proc, Loops
  <2>2. \A q \in Procs : call'[q] = IF q = p THEN rest ELSE call[q]
    BY <1>3, <2>1 DEF Counted
  <2>3. IsFiniteSet(call[p]) /\ Cardinality(call[p]) <= Concurrency
    BY <2>1 DEF Pooled
  <2>4. rest \subseteq call[p]
    OBVIOUS
  <2>5. IsFiniteSet(rest) /\ Cardinality(rest) <= Cardinality(call[p])
    BY <2>3, <2>4, FS_Subset
  <2>6. Cardinality(rest) <= Concurrency
    BY <2>3, <2>5, FS_CardinalityType, ConcurrencyAssumption
  <2>7. \A x \in Loops : loops'[x] = IF x = w THEN Off ELSE loops[x]
    BY <1>3 DEF Goes, IInv, Typed
  <2>8. ASSUME NEW x \in Loops, loops'[x].at # "off" PROVE x \in call'[Proc(x)]
    <3>1. x # w /\ x \in call[Proc(x)] /\ Proc(x) \in Procs
      BY <2>7, <2>8 DEF Pooled, Off, At, Proc, Loops
    <3> QED
      BY <2>2, <3>1
  <2> HIDE DEF p, rest
  <2> QED
    BY <2>2, <2>5, <2>6, <2>8 DEF Pooled
<1> QED
  BY <1>2, <1>3 DEF Pick, PickOrLeave

LEMMA StepPooled ==
  ASSUME IInv, Counted, Pooled, [Next]_vars,
         \A w \in Loops : ~Refused(w) /\ ~EventRefused(w)
  PROVE  Pooled'
<1>1. CASE UNCHANGED <<loops, call>>
  BY <1>1 DEF Pooled
<1>2. ASSUME NEW p \in Procs, Crash(p) PROVE Pooled'
  <2>1. /\ loops' = [w \in Loops |-> IF Proc(w) = p THEN Off ELSE loops[w]]
        /\ call' = [call EXCEPT ![p] = {}]
    BY <1>2 DEF Crash
  <2>2. \A q \in Procs : call'[q] = IF q = p THEN {} ELSE call[q]
    BY <2>1 DEF Counted
  <2>3. ASSUME NEW w \in Loops, loops'[w].at # "off" PROVE w \in call'[Proc(w)]
    <3>1. Proc(w) # p /\ w \in call[Proc(w)] /\ Proc(w) \in Procs
      BY <2>1, <2>3 DEF Pooled, Off, At, Proc, Loops
    <3> QED
      BY <2>2, <3>1
  <2> QED
    BY <2>2, <2>3, EmptyCall DEF Pooled
<1>3. ASSUME NEW w \in Loops, loops[w].at # "off", UNCHANGED call, \E to : Goes(w, to)
      PROVE  Pooled'
  BY <1>3, MovePooled
<1>4. ASSUME NEW w \in Loops, NEW point \in InFlight, NEW t, Fails(w, point, t) PROVE Pooled'
  <2>1. loops[w].at # "off" /\ UNCHANGED call /\ \E to : Goes(w, to)
    BY <1>4 DEF Fails, Turn, InFlight, Mid
  <2> QED
    BY <1>3, <2>1
<1>5. ASSUME NEW w \in Loops, LoopStep(w) PROVE Pooled'
  <2>1. CASE Pick(w)
    BY <2>1, PickPooled
  <2>2. CASE Claim(w) \/ Begin(w) \/ FinishWrite(w) \/ FailWrite(w)
    <3>1. loops[w].at # "off" /\ UNCHANGED call /\ \E to : Goes(w, to)
      BY <2>2 DEF Claim, ClaimIf, Begin, FinishWrite, FailWrite, FailAs, Turn
    <3> QED
      BY <1>3, <3>1
  <2>3. CASE Answered(w) \/ SurfaceAnswered(w) \/ FinishRead(w) \/ FailRead(w)
    <3>1. loops[w].at # "off" /\ UNCHANGED call /\ \E to : Goes(w, to)
      BY <2>3 DEF Answered, SurfaceAnswered, FinishRead, FailRead, Reread, Turn
    <3> QED
      BY <1>3, <3>1
  <2>4. CASE SurfaceWrites(w) \/ SurfaceDeclines(w) \/ LandComment(w) \/ LandName(w)
    <3>1. loops[w].at # "off" /\ UNCHANGED call /\ \E to : Goes(w, to)
      BY <2>4 DEF SurfaceWrites, SurfaceDeclines, LandComment, LandName, Land, Works, Turn
    <3> QED
      BY <1>3, <3>1
  <2>5. CASE NameRefused(w)
    BY <1>4, <2>5 DEF NameRefused, InFlight, Mid
  <2> QED
    BY <1>5, <2>1, <2>2, <2>3, <2>4, <2>5 DEF LoopStep
<1>6. \A p \in Procs : Announce(p) \/ CancelWrite(p) \/ RouteRefused(p) => UNCHANGED <<loops, call>>
  BY DEF Announce, CancelWrite, RouteRefused
<1>7. \A p \in Procs, j \in Jobs :
         CancelRead(p, j) \/ (\E kind \in Kinds : Enqueue(p, j, kind)) => UNCHANGED <<loops, call>>
  BY DEF CancelRead, CancelFrom, Enqueue
<1>8. UNCHANGED vars => UNCHANGED <<loops, call>>
  BY DEF vars
<1>9. {"awaiting", "surfaced"} \subseteq InFlight
  BY DEF InFlight
<1> QED
  BY <1>1, <1>2, <1>4, <1>5, <1>6, <1>7, <1>8, <1>9, TickPooled
     DEF Next, BackendFails, TreeWriteFails

\* A server's interval never adds a second pool to the first, as long as no
\* statement of a loop is refused.
THEOREM PoolsStaySingle == NoRefusals => (Spec => []OnePool)
<1> SUFFICES ASSUME NoRefusals PROVE Spec => []OnePool
  OBVIOUS
<1>1. Init => Counted
  BY DEF Init, Counted, MAX_ATTEMPTS
<1>2. Init => Pooled /\ Unrefused
  BY EmptyCall DEF Init, Pooled, Unrefused, Off, At
<1>3. IInv /\ Counted /\ Pooled /\ Unrefused /\ [Next]_vars => Counted' /\ Pooled' /\ Unrefused'
  BY StepCounted, StepPooled, StaysUnrefused
<1>4. Pooled => OnePool
  <2> SUFFICES ASSUME Pooled, NEW p \in Procs
               PROVE  Cardinality({w \in Loops : Proc(w) = p /\ loops[w].at # "off"}) <= Concurrency
    BY DEF OnePool
  <2> DEFINE running == {w \in Loops : Proc(w) = p /\ loops[w].at # "off"}
  <2>1. running \subseteq call[p] /\ IsFiniteSet(call[p]) /\ Cardinality(call[p]) <= Concurrency
    BY DEF Pooled
  <2> HIDE DEF running
  <2>2. IsFiniteSet(running) /\ Cardinality(running) <= Cardinality(call[p])
    BY <2>1, FS_Subset
  <2>3. Cardinality(running) <= Concurrency
    BY <2>1, <2>2, FS_CardinalityType, ConcurrencyAssumption
  <2> QED
    BY <2>3 DEF running
<1> QED
  BY <1>1, <1>2, <1>3, <1>4, Invariance, PTL DEF Spec
=============================================================================
