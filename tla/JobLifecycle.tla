---------------------------- MODULE JobLifecycle ----------------------------
(***************************************************************************)
(* The life of an AiJob: API handlers that enqueue, cancel and retry it,   *)
(* the broker that carries its Celery message, the workers that execute it *)
(* and report to PATCH /internal/jobs/:id.  Every await of a handler and   *)
(* every report of a worker is a step of its own.                          *)
(*                                                                         *)
(* A job is published at most once, so its message bears its name.  Rows   *)
(* keep the fields some decision or property depends on; timestamps are    *)
(* kept as "has it been set".                                              *)
(***************************************************************************)
EXTENDS Naturals, FiniteSets

CONSTANTS
    Jobs,         \* ids of AiJob rows
    Payloads,     \* task payloads (their hash is the idempotency key)
    Unbindable,   \* payloads whose keyword arguments the task's signature refuses
    NoPayload,    \* the payload of a row that does not exist
    Handlers,     \* concurrent API request handlers
    Workers,      \* worker processes (prefetch 1: one message each)
    NoJob,
    MaxTries,     \* attempts of one report (tenacity stop_after_attempt)
    MaxRetries,   \* bound: retries of one row
    MaxCrashes,   \* bound: workers lost and messages taken back
    MaxLate,      \* bound: timed-out reports inside the API at one time
    Faults        \* which faults may happen, a subset of FaultKinds

FaultKinds == {"brokerDown", "apiCrash", "lostReport", "lateReport", "workerLost",
               "redelivery"}

ASSUME UnbindableAssumption == Unbindable \subseteq Payloads
ASSUME NoPayloadAssumption == NoPayload \notin Payloads
ASSUME NoJobAssumption == NoJob \notin Jobs
ASSUME TriesAssumption == MaxTries \in Nat \ {0}
ASSUME BoundsAssumption == {MaxRetries, MaxCrashes, MaxLate} \subseteq Nat
ASSUME FaultsAssumption == Faults \subseteq FaultKinds

VARIABLES
    row,        \* the AiJob table
    message,    \* where the Celery message of each job is
    handler,    \* API request handlers
    worker,     \* worker processes
    late,       \* reports the worker gave up waiting for, still inside the API
    accepted,   \* jobs some caller was told are enqueued
    outcomes,   \* history: how the executions of each job's task ended
    unsettled,  \* history: jobs whose record was left to chance by a fault
    crashes     \* history: workers lost and messages taken back so far

vars == <<row, message, handler, worker, late, accepted, outcomes, unsettled, crashes>>

Terminal == {"SUCCEEDED", "FAILED", "CANCELED"}
Status == Terminal \union {"QUEUED", "RUNNING", "RETRYING"}

\* Worker positions at which a report is being sent, and the status it carries.
Reporting == {"start", "progress", "succeed", "fail"}
ReportOf(pc) ==
    CASE pc = "succeed" -> "SUCCEEDED"
      [] pc = "fail"    -> "FAILED"
      [] OTHER          -> "RUNNING"

NoRow == [status |-> "NONE", payload |-> NoPayload, keyed |-> FALSE,
          attempts |-> 0, started |-> FALSE, finished |-> FALSE]
Row == [status: Status \union {"NONE"}, payload: Payloads \union {NoPayload},
        keyed: BOOLEAN, attempts: 0..MaxRetries, started: BOOLEAN, finished: BOOLEAN]

IdleHandler == [pc |-> "idle", job |-> NoJob, payload |-> NoPayload, keyed |-> FALSE]
Handler == [pc: {"idle", "create", "publish", "markFailed", "cancelWrite", "retryMark"},
            job: Jobs \union {NoJob}, payload: Payloads \union {NoPayload}, keyed: BOOLEAN]

\* "holds": the broker still counts the message as delivered to this worker.
IdleWorker == [pc |-> "idle", job |-> NoJob, tries |-> 0, holds |-> FALSE]
Worker == [pc: Reporting \union {"idle", "body", "ack"},
           job: Jobs \union {NoJob}, tries: 0..MaxTries, holds: BOOLEAN]

Exists(j) == row[j].status # "NONE"
HasKey(j, p) == Exists(j) /\ row[j].keyed /\ row[j].payload = p

TypeOK ==
    /\ row \in [Jobs -> Row]
    /\ message \in [Jobs -> {"none", "queued", "delivered", "acked"}]
    /\ handler \in [Handlers -> Handler]
    /\ worker \in [Workers -> Worker]
    /\ late \subseteq Jobs \X Status
    /\ accepted \subseteq Jobs
    /\ outcomes \in [Jobs -> SUBSET {"returned", "raised", "refused"}]
    /\ unsettled \subseteq Jobs
    /\ crashes \in 0..MaxCrashes

Init ==
    /\ row = [j \in Jobs |-> NoRow]
    /\ message = [j \in Jobs |-> "none"]
    /\ handler = [h \in Handlers |-> IdleHandler]
    /\ worker = [w \in Workers |-> IdleWorker]
    /\ late = {}
    /\ accepted = {}
    /\ outcomes = [j \in Jobs |-> {}]
    /\ unsettled = {}
    /\ crashes = 0

-----------------------------------------------------------------------------
(* jobs.service.ts: enqueue.  The lookup, the insert, the publication and,  *)
(* when that throws, the FAILED mark are separate awaits.                   *)

Finish(h) == handler' = [handler EXCEPT ![h] = IdleHandler]
MoveTo(h, pc) == handler' = [handler EXCEPT ![h].pc = pc]

\* The caller passes a payload, with or without an idempotency key.  A row
\* with the key is returned as it stands, whatever its status.
EnqueueFind(h, p, keyed) ==
    /\ handler[h].pc = "idle"
    /\ \/ /\ keyed
          /\ \E j \in Jobs : HasKey(j, p) /\ accepted' = accepted \union {j}
          /\ UNCHANGED handler
       \/ /\ ~ (keyed /\ \E j \in Jobs : HasKey(j, p))
          /\ handler' = [handler EXCEPT ![h] =
                 [pc |-> "create", job |-> NoJob, payload |-> p, keyed |-> keyed]]
          /\ UNCHANGED accepted
    /\ UNCHANGED <<row, message, worker, late, outcomes, unsettled, crashes>>

\* Mutant: no unique index on idempotencyKey.
CreateRowWithoutIndex(h, j) ==
    /\ handler[h].pc = "create"
    /\ ~ Exists(j)
    /\ row' = [row EXCEPT ![j] = [NoRow EXCEPT !.status = "QUEUED",
                                               !.payload = handler[h].payload,
                                               !.keyed = handler[h].keyed]]
    /\ handler' = [handler EXCEPT ![h] = [@ EXCEPT !.pc = "publish", !.job = j]]
    /\ UNCHANGED <<message, worker, late, accepted, outcomes, unsettled, crashes>>

\* The unique index on idempotencyKey refuses a second row with the key.
CreateRow(h, j) ==
    /\ handler[h].pc = "create"
    /\ ~ Exists(j)
    /\ ~ (handler[h].keyed /\ \E i \in Jobs : HasKey(i, handler[h].payload))
    /\ row' = [row EXCEPT ![j] = [NoRow EXCEPT !.status = "QUEUED",
                                               !.payload = handler[h].payload,
                                               !.keyed = handler[h].keyed]]
    /\ handler' = [handler EXCEPT ![h] = [@ EXCEPT !.pc = "publish", !.job = j]]
    /\ UNCHANGED <<message, worker, late, accepted, outcomes, unsettled, crashes>>

Publish(h) ==
    /\ handler[h].pc = "publish"
    /\ message' = [message EXCEPT ![handler[h].job] = "queued"]
    /\ accepted' = accepted \union {handler[h].job}
    /\ Finish(h)
    /\ UNCHANGED <<row, worker, late, outcomes, unsettled, crashes>>

\* Mutant: the error of the broker call is swallowed.
PublishThrowsUnhandled(h) ==
    /\ "brokerDown" \in Faults
    /\ handler[h].pc = "publish"
    /\ Finish(h)
    /\ UNCHANGED <<row, message, worker, late, accepted, outcomes, unsettled, crashes>>

\* The broker call throws: the message was refused, or taken and the
\* confirmation lost.
PublishThrows(h) ==
    /\ "brokerDown" \in Faults
    /\ handler[h].pc = "publish"
    /\ \/ UNCHANGED message
       \/ message' = [message EXCEPT ![handler[h].job] = "queued"]
    /\ MoveTo(h, "markFailed")
    /\ UNCHANGED <<row, worker, late, accepted, outcomes, unsettled, crashes>>

MarkFailed(h) ==
    /\ handler[h].pc = "markFailed"
    /\ row' = [row EXCEPT ![handler[h].job].status = "FAILED"]
    /\ Finish(h)
    /\ UNCHANGED <<message, worker, late, accepted, outcomes, unsettled, crashes>>

-----------------------------------------------------------------------------
(* jobs.service.ts: cancel, a read and an unguarded write.                 *)

CancelLoad(h, j) ==
    /\ handler[h].pc = "idle"
    /\ row[j].status \in {"QUEUED", "RUNNING"}
    /\ handler' = [handler EXCEPT ![h] = [@ EXCEPT !.pc = "cancelWrite", !.job = j]]
    /\ UNCHANGED <<row, message, worker, late, accepted, outcomes, unsettled, crashes>>

CancelWrite(h) ==
    /\ handler[h].pc = "cancelWrite"
    /\ row' = [row EXCEPT ![handler[h].job] =
                  [@ EXCEPT !.status = "CANCELED", !.finished = TRUE]]
    /\ Finish(h)
    /\ UNCHANGED <<message, worker, late, accepted, outcomes, unsettled, crashes>>

(* generation.routes.ts POST /jobs/:jobId/retry and jobs.service.ts retry:  *)
(* only SUCCEEDED is refused; the row is marked RETRYING and its payload    *)
(* enqueued again, without a key, as a new job.                             *)

RetryLoad(h, j) ==
    /\ handler[h].pc = "idle"
    /\ Exists(j) /\ row[j].status # "SUCCEEDED"
    /\ handler' = [handler EXCEPT ![h] = [pc |-> "retryMark", job |-> j,
                       payload |-> row[j].payload, keyed |-> FALSE]]
    /\ UNCHANGED <<row, message, worker, late, accepted, outcomes, unsettled, crashes>>

RetryMark(h) ==
    LET j == handler[h].job IN
    /\ handler[h].pc = "retryMark"
    /\ row[j].attempts < MaxRetries
    /\ row' = [row EXCEPT ![j] = [@ EXCEPT !.status = "RETRYING",
                                        !.attempts = row[j].attempts + 1]]
    /\ handler' = [handler EXCEPT ![h] = [@ EXCEPT !.pc = "create", !.job = NoJob]]
    /\ UNCHANGED <<message, worker, late, accepted, outcomes, unsettled, crashes>>

\* A database call of the handler throws (the unique index included), or its
\* process dies: nothing after the await runs.
HandlerFails(h) ==
    LET leavesJob == handler[h].pc \in {"publish", "markFailed"} IN
    /\ handler[h].pc # "idle"
    /\ handler[h].pc = "publish" => "apiCrash" \in Faults
    /\ unsettled' = IF leavesJob THEN unsettled \union {handler[h].job} ELSE unsettled
    /\ Finish(h)
    /\ UNCHANGED <<row, message, worker, late, accepted, outcomes, crashes>>

-----------------------------------------------------------------------------
(* Workers: one message at a time, acknowledged late.                      *)

Advance(w, pc) == worker' = [worker EXCEPT ![w] = [@ EXCEPT !.pc = pc, !.tries = 1]]

\* Mutant: the task goes on after it reported SUCCEEDED.
AfterReportGoesOn(pc) == IF pc = "fail" THEN "ack" ELSE "body"

AfterReport(pc) == IF pc \in {"start", "progress"} THEN "body" ELSE "ack"

Delivered(pc, j) == [pc |-> pc, job |-> j, tries |-> 1, holds |-> TRUE]

\* A payload the task's signature refuses raises before job_lifecycle is
\* entered, so nothing is reported; Celery acknowledges the failed task.
Deliver(w, j) ==
    /\ worker[w].pc = "idle"
    /\ message[j] = "queued"
    /\ message' = [message EXCEPT ![j] = "delivered"]
    /\ IF row[j].payload \in Unbindable
       THEN /\ worker' = [worker EXCEPT ![w] = Delivered("ack", j)]
            /\ outcomes' = [outcomes EXCEPT ![j] = @ \union {"refused"}]
       ELSE /\ worker' = [worker EXCEPT ![w] = Delivered("start", j)]
            /\ UNCHANGED outcomes
    /\ UNCHANGED <<row, handler, late, accepted, unsettled, crashes>>

\* PATCH /internal/jobs/:id writes the reported status over any other.
Landed(j, s) ==
    row' = [row EXCEPT ![j] = [@ EXCEPT !.status = s,
                     !.started = row[j].started \/ s = "RUNNING",
                     !.finished = row[j].finished \/ s \in Terminal]]

Reported(w) ==
    /\ worker[w].pc \in Reporting
    /\ Landed(worker[w].job, ReportOf(worker[w].pc))
    /\ Advance(w, AfterReport(worker[w].pc))
    /\ UNCHANGED <<message, handler, late, accepted, outcomes, unsettled, crashes>>

\* Mutant: one attempt too many.
AttemptFailsOnceMore(w) ==
    IF worker[w].tries <= MaxTries
    THEN worker' = [worker EXCEPT ![w].tries = @ + 1]
    ELSE Advance(w, AfterReport(worker[w].pc))

\* What the worker does when an attempt is not confirmed: tenacity tries
\* again, and after the last attempt the caller swallows the error.
AttemptFails(w) ==
    IF worker[w].tries < MaxTries
    THEN worker' = [worker EXCEPT ![w].tries = @ + 1]
    ELSE Advance(w, AfterReport(worker[w].pc))

\* The attempt never reaches the row: refused connection or a 5xx answer.
ReportLost(w) ==
    /\ "lostReport" \in Faults
    /\ worker[w].pc \in Reporting
    /\ AttemptFails(w)
    /\ unsettled' = IF worker[w].tries = MaxTries
                    THEN unsettled \union {worker[w].job} ELSE unsettled
    /\ UNCHANGED <<row, message, handler, late, accepted, outcomes, crashes>>

\* The client times out while the API is still at work on the request.
ReportTimesOut(w) ==
    /\ "lateReport" \in Faults
    /\ worker[w].pc \in Reporting
    /\ Cardinality(late) < MaxLate
    /\ AttemptFails(w)
    /\ late' = late \union {<<worker[w].job, ReportOf(worker[w].pc)>>}
    /\ unsettled' = unsettled \union {worker[w].job}
    /\ UNCHANGED <<row, message, handler, accepted, outcomes, crashes>>

LateReportLands(j, s) ==
    /\ <<j, s>> \in late
    /\ late' = late \ {<<j, s>>}
    /\ Landed(j, s)
    /\ UNCHANGED <<message, handler, worker, accepted, outcomes, unsettled, crashes>>

\* Mutant: a task that raised falls through to succeed.
BodyEndsAlwaysSucceeds(w) ==
    /\ worker[w].pc = "body"
    /\ Advance(w, "succeed")
    /\ \E how \in {"returned", "raised"} :
          outcomes' = [outcomes EXCEPT ![worker[w].job] = @ \union {how}]
    /\ UNCHANGED <<row, message, handler, late, accepted, unsettled, crashes>>

\* Mutant: a task that raised does not report FAILED.
BodyEndsUnreported(w) ==
    /\ worker[w].pc = "body"
    /\ \/ /\ Advance(w, "succeed")
          /\ outcomes' = [outcomes EXCEPT ![worker[w].job] = @ \union {"returned"}]
       \/ /\ Advance(w, "ack")
          /\ outcomes' = [outcomes EXCEPT ![worker[w].job] = @ \union {"raised"}]
    /\ UNCHANGED <<row, message, handler, late, accepted, unsettled, crashes>>

\* The task body: reports progress any number of times, then returns
\* (succeed) or raises (the except clause of job_lifecycle).
BodyReports(w) ==
    /\ worker[w].pc = "body"
    /\ Advance(w, "progress")
    /\ UNCHANGED <<row, message, handler, late, accepted, outcomes, unsettled, crashes>>

BodyEnds(w) ==
    /\ worker[w].pc = "body"
    /\ \/ /\ Advance(w, "succeed")
          /\ outcomes' = [outcomes EXCEPT ![worker[w].job] = @ \union {"returned"}]
       \/ /\ Advance(w, "fail")
          /\ outcomes' = [outcomes EXCEPT ![worker[w].job] = @ \union {"raised"}]
    /\ UNCHANGED <<row, message, handler, late, accepted, unsettled, crashes>>

\* task_acks_late: the message is acknowledged when the task is over, however
\* it ended.  The broker ignores a worker it has taken the message back from.
Ack(w) ==
    LET j == worker[w].job IN
    /\ worker[w].pc = "ack"
    /\ message' = [message EXCEPT ![j] = IF worker[w].holds THEN "acked" ELSE @]
    /\ worker' = [worker EXCEPT ![w] = IdleWorker]
    /\ UNCHANGED <<row, handler, late, accepted, outcomes, unsettled, crashes>>

\* The broker takes the message back from a worker that is still at it: the
\* connection was lost, or the delivery timed out.  The worker does not notice.
TakenBack(w) ==
    /\ "redelivery" \in Faults
    /\ worker[w].pc # "idle" /\ worker[w].holds
    /\ crashes < MaxCrashes
    /\ crashes' = crashes + 1
    /\ message' = [message EXCEPT ![worker[w].job] = "queued"]
    /\ worker' = [worker EXCEPT ![w].holds = FALSE]
    /\ UNCHANGED <<row, handler, late, accepted, outcomes, unsettled>>

\* A worker process dies, and with it what it had to report.  The message
\* becomes "next" if the worker still held it; if not, no broker cares.
WorkerDies(w, next) ==
    LET j == worker[w].job IN
    /\ "workerLost" \in Faults
    /\ worker[w].pc # "idle"
    /\ crashes < MaxCrashes
    /\ crashes' = crashes + 1
    /\ message' = [message EXCEPT ![j] = IF worker[w].holds THEN next ELSE @]
    /\ unsettled' = IF worker[w].holds THEN unsettled ELSE unsettled \union {j}
    /\ worker' = [worker EXCEPT ![w] = IdleWorker]
    /\ UNCHANGED <<row, handler, late, accepted, outcomes>>

\* Mutant: Celery's default, the message of a lost worker is acknowledged.
WorkerLostAcknowledged(w) == WorkerDies(w, "acked")

\* Mutant: the message of a lost worker stays with it.
WorkerLostForgotten(w) == WorkerDies(w, "delivered")

\* task_reject_on_worker_lost: the message of a lost worker is queued again.
WorkerLost(w) == WorkerDies(w, "queued")

-----------------------------------------------------------------------------
HandlerStep(h) ==
    \/ \E p \in Payloads, keyed \in BOOLEAN : EnqueueFind(h, p, keyed)
    \/ \E j \in Jobs : CreateRow(h, j) \/ CancelLoad(h, j) \/ RetryLoad(h, j)
    \/ Publish(h) \/ PublishThrows(h) \/ MarkFailed(h)
    \/ CancelWrite(h) \/ RetryMark(h) \/ HandlerFails(h)

WorkerStep(w) ==
    \/ \E j \in Jobs : Deliver(w, j)
    \/ Reported(w) \/ BodyReports(w) \/ BodyEnds(w) \/ Ack(w)

WorkerFault(w) == ReportLost(w) \/ ReportTimesOut(w) \/ WorkerLost(w) \/ TakenBack(w)

Next ==
    \/ \E h \in Handlers : HandlerStep(h)
    \/ \E w \in Workers : WorkerStep(w) \/ WorkerFault(w)
    \/ \E j \in Jobs, s \in Status : LateReportLands(j, s)

Spec == Init /\ [][Next]_vars

\* Workers keep running and a task ends: a free worker takes a waiting
\* message, and no body reports progress for ever.
Fairness ==
    /\ \A h \in Handlers : WF_vars(Publish(h)) /\ WF_vars(MarkFailed(h))
    /\ \A w \in Workers : /\ WF_vars(Reported(w))
                          /\ SF_vars(BodyEnds(w))
                          /\ WF_vars(Ack(w))
    /\ \A j \in Jobs : SF_vars(\E w \in Workers : Deliver(w, j))

FairSpec == Spec /\ Fairness

-----------------------------------------------------------------------------
(* Properties.                                                             *)

BeingEnqueued(j) ==
    \E h \in Handlers : handler[h].pc \in {"publish", "markFailed"} /\ handler[h].job = j

\* A worker has the task of a job in hand and its last report still to make.
Executing(j) == \E w \in Workers : worker[w].job = j /\ worker[w].pc \notin {"idle", "ack"}

\* A row that still says QUEUED or RUNNING has someone left to move it: the
\* handler that created it, the broker or a worker that still has to report.
\* The only rows left behind are those whose handler died before publishing,
\* whose worker could not deliver a report or died after the broker had taken
\* its message back, and those whose task refused its arguments.
NoJobLeftBehind ==
    \A j \in Jobs : row[j].status \in {"QUEUED", "RUNNING"} =>
        \/ BeingEnqueued(j)
        \/ message[j] = "queued"
        \/ Executing(j)
        \/ j \in unsettled
        \/ "refused" \in outcomes[j]

\* The row never runs ahead of the workers: it says RUNNING only of a job that
\* was published and SUCCEEDED only of one whose task returned, also when
\* reports are late, repeated or made by a second execution.
RowNeverAheadOfWorkers ==
    \A j \in Jobs :
        /\ row[j].status = "RUNNING" => message[j] # "none"
        /\ row[j].status = "SUCCEEDED" => "returned" \in outcomes[j]

\* Rows in a terminal state bear finishedAt, except a job whose publication
\* threw (enqueue writes FAILED without it).
TerminalRowsAreStamped ==
    \A j \in Jobs : row[j].status \in {"SUCCEEDED", "CANCELED"} => row[j].finished

\* Concurrent requests with one idempotency key get one job between them: the
\* lookup is not atomic with the insert, the unique index is what decides.
OneJobPerKey ==
    \A i, j \in Jobs : (\E p \in Payloads : HasKey(i, p) /\ HasKey(j, p)) => i = j

\* Of the workers that execute a message at most one holds it, and while it
\* does the message is not also waiting; every other one had it taken back
\* while it ran, which happens only where the broker may do so.
OneWorkerPerMessage ==
    \A w \in Workers : worker[w].pc # "idle" =>
        IF worker[w].holds
        THEN /\ message[worker[w].job] = "delivered"
             /\ \A v \in Workers \ {w} :
                   ~ (worker[v].job = worker[w].job /\ worker[v].holds)
        ELSE "redelivery" \in Faults

\* Without lost workers, messages taken back and timed-out reports a finished
\* execution is the last: a row that says SUCCEEDED never goes back to RUNNING.
SucceededNeverReopens ==
    [][\A j \in Jobs : row[j].status = "SUCCEEDED" => row'[j].status # "RUNNING"]_vars

\* The queue between API and workers is at-least-once delivery.
Delivery == INSTANCE JobDelivery WITH
    offered <- {j \in Jobs : message[j] # "none"},
    ran <- {j \in Jobs : outcomes[j] # {}},
    settled <- {j \in Jobs : message[j] = "acked"}

DeliverySafe == Delivery!Spec
DeliveryLive == Delivery!FairSpec

\* Every job leaves QUEUED and RUNNING for good or for a while.
EveryJobConcludes ==
    \A j \in Jobs : row[j].status \in {"QUEUED", "RUNNING"} ~>
        row[j].status \in Terminal \union {"RETRYING"}

(* What the documentation says and the code does not keep.                 *)

\* docs/AI_PIPELINE.md: QUEUED, then RUNNING, then one of the terminal
\* states.  A canceled row leaves CANCELED only by a retry.
CanceledIsFinal ==
    [][\A j \in Jobs : row[j].status = "CANCELED" =>
           row'[j].status \in {"CANCELED", "RETRYING"}]_vars

\* jobs.service.ts: "Could not enqueue the job - please retry": the caller who
\* tries again and is answered with a job has a job that reached the broker,
\* or is about to.
AcceptedJobIsPublished ==
    \A j \in accepted : BeingEnqueued(j) \/ message[j] # "none"

\* docs/AI_PIPELINE.md: every task is wrapped in job_lifecycle, which on raise
\* publishes FAILED.
RaisedTaskIsFailed ==
    \A j \in Jobs : (outcomes[j] # {}) ~>
        (row[j].status \in Terminal \union {"RETRYING"})
============================================================================
