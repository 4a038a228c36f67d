------------------------- MODULE JobLifecycleProofs -------------------------
(***************************************************************************)
(* Proofs about JobLifecycle for any number of jobs, handlers and workers, *)
(* any bounds and any set of faults: type correctness and the safety       *)
(* invariants of the job table.                                            *)
(***************************************************************************)
EXTENDS JobLifecycle, TLAPS

\* Where a handler is about to publish or write the row of the job it holds.
HoldingPc == {"publish", "markFailed", "cancelWrite", "retryMark"}

HandlersHoldRows ==
    \A h \in Handlers : handler[h].pc \in HoldingPc =>
        handler[h].job \in Jobs /\ Exists(handler[h].job)

WorkersHoldJobs ==
    \A w \in Workers :
        IF worker[w].pc = "idle" THEN worker[w].job = NoJob ELSE worker[w].job \in Jobs

Base == TypeOK /\ HandlersHoldRows /\ WorkersHoldJobs

\* A message is published once: its row exists by then, and the one handler
\* that may still publish it has not.
MessagesHaveRows == \A j \in Jobs : message[j] # "none" => Exists(j)

PublishersAlone ==
    \A h \in Handlers : handler[h].pc = "publish" =>
        /\ message[handler[h].job] = "none"
        /\ \A g \in Handlers \ {h} :
              handler[g].pc \in {"publish", "markFailed"} => handler[g].job # handler[h].job

ExecutedArePublished ==
    \A w \in Workers : worker[w].pc # "idle" => message[worker[w].job] # "none"

QueueInv == Base /\ MessagesHaveRows /\ PublishersAlone /\ OneWorkerPerMessage /\ ExecutedArePublished

\* What a report still to come may say: it was accounted for as unsettled when
\* the worker stopped waiting for it, and says SUCCEEDED only of a task that
\* returned.
LateReportsAreTrue ==
    \A j \in Jobs, s \in Status : <<j, s>> \in late =>
        /\ j \in unsettled
        /\ message[j] # "none"
        /\ s = "SUCCEEDED" => "returned" \in outcomes[j]

SuccessIsReturned ==
    \A w \in Workers : worker[w].pc = "succeed" => "returned" \in outcomes[worker[w].job]

ReportInv == QueueInv /\ LateReportsAreTrue /\ SuccessIsReturned /\ RowNeverAheadOfWorkers

SettleInv == ReportInv /\ NoJobLeftBehind

\* A worker past the body of its task has something to acknowledge,
\* and so does a message that was acknowledged.
EndsAreCounted ==
    /\ \A w \in Workers : worker[w].pc \in {"succeed", "fail", "ack"} =>
          outcomes[worker[w].job] # {}
    /\ \A j \in Jobs : message[j] = "acked" => outcomes[j] # {}

InOrder == {"lateReport", "workerLost", "redelivery"} \intersect Faults = {}

\* Without lost workers, messages taken back and late reports, a row that says SUCCEEDED belongs to
\* an execution that has nothing left to report.
SuccessIsLast ==
    /\ late = {}
    /\ \A j \in Jobs : row[j].status = "SUCCEEDED" =>
          /\ message[j] \in {"delivered", "acked"}
          /\ \A w \in Workers : worker[w].job = j => worker[w].pc = "ack"

\* OneJobPerKey, without naming the key.
KeyedRowsDiffer ==
    \A i, j \in Jobs :
        /\ Exists(i) /\ row[i].keyed
        /\ Exists(j) /\ row[j].keyed
        /\ row[i].payload = row[j].payload
        => i = j

Safety == SettleInv /\ TerminalRowsAreStamped /\ KeyedRowsDiffer

-----------------------------------------------------------------------------
(* The record updates of the actions are well typed.                       *)

LEMMA HandlerMoves ==
    ASSUME NEW x \in Handler, NEW j \in Jobs \union {NoJob},
           NEW pc \in {"idle", "create", "publish", "markFailed", "cancelWrite", "retryMark"}
    PROVE  /\ [x EXCEPT !.pc = pc] \in Handler
           /\ [x EXCEPT !.pc = pc, !.job = j] \in Handler
           /\ IdleHandler \in Handler
  BY DEF Handler, IdleHandler

LEMMA WorkerMoves ==
    ASSUME NEW x \in Worker, NEW j \in Jobs, NEW pc \in Reporting \union {"body", "ack"}
    PROVE  /\ [x EXCEPT !.pc = pc, !.tries = 1] \in Worker
           /\ Delivered(pc, j) \in Worker
<1>1. 1 \in 0..MaxTries
  BY TriesAssumption
<1> QED
  BY <1>1 DEF Worker, Delivered

LEMMA WorkerIdles == IdleWorker \in Worker
  BY TriesAssumption DEF Worker, IdleWorker

\* An attempt that is not confirmed is counted, up to the last.
LEMMA AttemptCounted ==
    ASSUME TypeOK, NEW w \in Workers, worker[w].pc \in Reporting, AttemptFails(w)
    PROVE  /\ worker' \in [Workers -> Worker]
           /\ \A v \in Workers \ {w} : worker'[v] = worker[v]
           /\ worker'[w].job = worker[w].job /\ worker'[w].holds = worker[w].holds
           /\ worker'[w].pc = IF worker[w].tries < MaxTries THEN worker[w].pc
                              ELSE AfterReport(worker[w].pc)
<1>1. CASE worker[w].tries < MaxTries
  <2>1. [worker[w] EXCEPT !.tries = worker[w].tries + 1] \in Worker
    BY <1>1, TriesAssumption DEF TypeOK, Worker
  <2> QED
    BY <1>1, <2>1 DEF TypeOK, AttemptFails, Worker
<1>2. CASE ~ (worker[w].tries < MaxTries)
  <2>1. AfterReport(worker[w].pc) \in {"body", "ack"}
    BY DEF AfterReport
  <2>2. [worker[w] EXCEPT !.pc = AfterReport(worker[w].pc), !.tries = 1] \in Worker
    <3>1. 1 \in 0..MaxTries
      BY TriesAssumption
    <3> QED
      BY <2>1, <3>1 DEF TypeOK, Worker
  <2>3. /\ [worker[w] EXCEPT !.pc = AfterReport(worker[w].pc), !.tries = 1].job = worker[w].job
        /\ [worker[w] EXCEPT !.pc = AfterReport(worker[w].pc), !.tries = 1].holds
              = worker[w].holds
        /\ [worker[w] EXCEPT !.pc = AfterReport(worker[w].pc), !.tries = 1].pc
              = AfterReport(worker[w].pc)
    BY DEF TypeOK, Worker
  <2>4. worker' = [worker EXCEPT ![w] =
                      [worker[w] EXCEPT !.pc = AfterReport(worker[w].pc), !.tries = 1]]
    BY <1>2 DEF AttemptFails, Advance
  <2> QED
    BY <1>2, <2>2, <2>3, <2>4 DEF TypeOK
<1> QED
  BY <1>1, <1>2

LEMMA RowWrites ==
    ASSUME NEW x \in Row, NEW s \in Status, NEW f \in BOOLEAN, NEW g \in BOOLEAN
    PROVE  /\ [x EXCEPT !.status = s] \in Row
           /\ [x EXCEPT !.status = s, !.finished = f] \in Row
           /\ [x EXCEPT !.status = s, !.started = f, !.finished = g] \in Row
  BY DEF Row

LEMMA LandedRow ==
    ASSUME TypeOK, NEW j \in Jobs, NEW s \in Status, Landed(j, s)
    PROVE  /\ row' \in [Jobs -> Row]
           /\ \A i \in Jobs \ {j} : row'[i] = row[i]
           /\ row'[j].status = s
           /\ row'[j].payload = row[j].payload /\ row'[j].keyed = row[j].keyed
           /\ s \in Terminal => row'[j].finished
<1> DEFINE x == [row[j] EXCEPT !.status = s,
                               !.started = row[j].started \/ s = "RUNNING",
                               !.finished = row[j].finished \/ s \in Terminal]
<1>1. x \in Row
  BY DEF TypeOK, Row
<1>2. x.status = s /\ x.payload = row[j].payload /\ x.keyed = row[j].keyed
  BY DEF TypeOK, Row
<1>3. s \in Terminal => x.finished
  BY DEF TypeOK, Row
<1>4. row' = [row EXCEPT ![j] = x]
  BY DEF Landed
<1> HIDE DEF x
<1> QED
  BY <1>1, <1>2, <1>3, <1>4 DEF TypeOK

LEMMA RowRetries ==
    ASSUME NEW x \in Row, x.attempts < MaxRetries
    PROVE  [x EXCEPT !.status = "RETRYING", !.attempts = x.attempts + 1] \in Row
<1>1. x.attempts + 1 \in 0..MaxRetries
  BY BoundsAssumption DEF Row
<1> QED
  BY <1>1 DEF Row, Status

-----------------------------------------------------------------------------
\* No step removes a row.
LEMMA RowsStay ==
    ASSUME TypeOK, [Next]_vars, NEW i \in Jobs, Exists(i)
    PROVE  Exists(i)'
<1> USE DEF Exists, TypeOK, Status, Terminal
<1>1. ASSUME NEW h \in Handlers, NEW p \in Payloads, NEW k \in BOOLEAN, EnqueueFind(h, p, k)
      PROVE Exists(i)'
  BY <1>1 DEF EnqueueFind
<1>2. ASSUME NEW h \in Handlers, NEW j \in Jobs, CreateRow(h, j) PROVE Exists(i)'
  BY <1>2 DEF CreateRow, NoRow
<1>3. ASSUME NEW h \in Handlers, NEW j \in Jobs, CancelLoad(h, j) PROVE Exists(i)'
  BY <1>3 DEF CancelLoad
<1>4. ASSUME NEW h \in Handlers, NEW j \in Jobs, RetryLoad(h, j) PROVE Exists(i)'
  BY <1>4 DEF RetryLoad
<1>5. ASSUME NEW h \in Handlers, Publish(h) PROVE Exists(i)'
  BY <1>5 DEF Publish, Finish
<1>6. ASSUME NEW h \in Handlers, PublishThrows(h) PROVE Exists(i)'
  BY <1>6 DEF PublishThrows, MoveTo
<1>7. ASSUME NEW h \in Handlers, MarkFailed(h) PROVE Exists(i)'
  BY <1>7 DEF MarkFailed, Finish
<1>8. ASSUME NEW h \in Handlers, CancelWrite(h) PROVE Exists(i)'
  BY <1>8 DEF CancelWrite, Finish
<1>9. ASSUME NEW h \in Handlers, RetryMark(h) PROVE Exists(i)'
  BY <1>9 DEF RetryMark
<1>10. ASSUME NEW h \in Handlers, HandlerFails(h) PROVE Exists(i)'
  BY <1>10 DEF HandlerFails, Finish
<1>11. ASSUME NEW w \in Workers, NEW j \in Jobs, Deliver(w, j) PROVE Exists(i)'
  BY <1>11 DEF Deliver
<1>12. ASSUME NEW w \in Workers, Reported(w) PROVE Exists(i)'
  BY <1>12 DEF Reported, Landed, ReportOf
<1>13. ASSUME NEW w \in Workers, BodyReports(w) PROVE Exists(i)'
  BY <1>13 DEF BodyReports, Advance
<1>14. ASSUME NEW w \in Workers, BodyEnds(w) PROVE Exists(i)'
  BY <1>14 DEF BodyEnds, Advance
<1>15. ASSUME NEW w \in Workers, Ack(w) PROVE Exists(i)'
  BY <1>15 DEF Ack
<1>16. ASSUME NEW w \in Workers, ReportLost(w) PROVE Exists(i)'
  BY <1>16 DEF ReportLost, AttemptFails, Advance
<1>17. ASSUME NEW w \in Workers, ReportTimesOut(w) PROVE Exists(i)'
  BY <1>17 DEF ReportTimesOut, AttemptFails, Advance
<1>18. ASSUME NEW w \in Workers, WorkerLost(w) PROVE Exists(i)'
  BY <1>18 DEF WorkerLost, WorkerDies
<1>19. ASSUME NEW w \in Workers, TakenBack(w) PROVE Exists(i)'
  BY <1>19 DEF TakenBack
<1>20. ASSUME NEW j \in Jobs, NEW s \in Status, LateReportLands(j, s)
      PROVE Exists(i)'
  BY <1>20 DEF LateReportLands, Landed
<1>21. CASE UNCHANGED vars
  BY <1>21 DEF vars
<1> QED
  BY <1>1, <1>2, <1>3, <1>4, <1>5, <1>6, <1>7, <1>8, <1>9, <1>10,
     <1>11, <1>12, <1>13, <1>14, <1>15, <1>16, <1>17, <1>18, <1>19, <1>20,
     <1>21
  DEF Next, HandlerStep, WorkerStep, WorkerFault

LEMMA StepsKeepTypes ==
    ASSUME Base, [Next]_vars
    PROVE  TypeOK'
<1> USE DEF Base, TypeOK
<1>1. ASSUME NEW h \in Handlers, NEW p \in Payloads, NEW k \in BOOLEAN, EnqueueFind(h, p, k)
      PROVE TypeOK'
  <2>1. [pc |-> "create", job |-> NoJob, payload |-> p, keyed |-> k] \in Handler
    BY DEF Handler
  <2> QED
    BY <1>1, <2>1 DEF EnqueueFind
<1>2. ASSUME NEW h \in Handlers, NEW j \in Jobs, CreateRow(h, j) PROVE TypeOK'
  <2>1. [NoRow EXCEPT !.status = "QUEUED", !.payload = handler[h].payload,
                      !.keyed = handler[h].keyed] \in Row
    <3>1. 0 \in 0..MaxRetries
      BY BoundsAssumption
    <3> QED
      BY <3>1 DEF Row, NoRow, Handler, Status
  <2>2. [handler[h] EXCEPT !.pc = "publish", !.job = j] \in Handler
    BY HandlerMoves
  <2> QED
    BY <1>2, <2>1, <2>2 DEF CreateRow
<1>3. ASSUME NEW h \in Handlers, NEW j \in Jobs, CancelLoad(h, j) PROVE TypeOK'
  <2>1. [handler[h] EXCEPT !.pc = "cancelWrite", !.job = j] \in Handler
    BY HandlerMoves
  <2> QED
    BY <1>3, <2>1 DEF CancelLoad
<1>4. ASSUME NEW h \in Handlers, NEW j \in Jobs, RetryLoad(h, j) PROVE TypeOK'
  <2>1. [pc |-> "retryMark", job |-> j, payload |-> row[j].payload, keyed |-> FALSE]
            \in Handler
    BY DEF Handler, Row
  <2> QED
    BY <1>4, <2>1 DEF RetryLoad
<1>5. ASSUME NEW h \in Handlers, Publish(h) PROVE TypeOK'
  <2>1. IdleHandler \in Handler /\ handler[h].job \in Jobs
    BY <1>5, HandlerMoves DEF HandlersHoldRows, HoldingPc, Publish
  <2> QED
    BY <1>5, <2>1 DEF Publish, Finish
<1>6. ASSUME NEW h \in Handlers, PublishThrows(h) PROVE TypeOK'
  <2>1. [handler[h] EXCEPT !.pc = "markFailed"] \in Handler
    BY HandlerMoves
  <2> QED
    BY <1>6, <2>1 DEF PublishThrows, MoveTo
<1>7. ASSUME NEW h \in Handlers, MarkFailed(h) PROVE TypeOK'
  <2>1. IdleHandler \in Handler
    BY HandlerMoves
  <2>2. \A j \in Jobs : [row[j] EXCEPT !.status = "FAILED"] \in Row
    BY RowWrites DEF Status, Terminal
  <2> QED
    BY <1>7, <2>1, <2>2 DEF MarkFailed, Finish
<1>8. ASSUME NEW h \in Handlers, CancelWrite(h) PROVE TypeOK'
  <2>1. IdleHandler \in Handler
    BY HandlerMoves
  <2>2. \A j \in Jobs : [row[j] EXCEPT !.status = "CANCELED", !.finished = TRUE] \in Row
    BY RowWrites DEF Status, Terminal
  <2> QED
    BY <1>8, <2>1, <2>2 DEF CancelWrite, Finish
<1>9. ASSUME NEW h \in Handlers, RetryMark(h) PROVE TypeOK'
  <2>1. [handler[h] EXCEPT !.pc = "create", !.job = NoJob] \in Handler
    BY HandlerMoves
  <2>2. handler[h].job \in Jobs
    BY <1>9 DEF HandlersHoldRows, HoldingPc, RetryMark
  <2>3. [row[handler[h].job] EXCEPT !.status = "RETRYING", !.attempts = row[handler[h].job].attempts + 1] \in Row
    BY <1>9, <2>2, RowRetries DEF RetryMark
  <2>4. handler' \in [Handlers -> Handler]
    BY <1>9, <2>1 DEF RetryMark
  <2>5. row' \in [Jobs -> Row]
    BY <1>9, <2>2, <2>3 DEF RetryMark
  <2> QED
    BY <1>9, <2>4, <2>5 DEF RetryMark
<1>10. ASSUME NEW h \in Handlers, HandlerFails(h) PROVE TypeOK'
  <2>1. IdleHandler \in Handler
    BY HandlerMoves
  <2>2. handler[h].pc \in {"publish", "markFailed"} => handler[h].job \in Jobs
    BY DEF HandlersHoldRows, HoldingPc
  <2> QED
    BY <1>10, <2>1, <2>2 DEF HandlerFails, Finish
<1>11. ASSUME NEW w \in Workers, NEW j \in Jobs, Deliver(w, j) PROVE TypeOK'
  <2>1. \A pc \in {"start", "ack"} : Delivered(pc, j) \in Worker
    BY WorkerMoves DEF Reporting
  <2> QED
    BY <1>11, <2>1 DEF Deliver
<1>12. ASSUME NEW w \in Workers, Reported(w) PROVE TypeOK'
  <2>1. AfterReport(worker[w].pc) \in {"body", "ack"} /\ ReportOf(worker[w].pc) \in Status
    BY DEF AfterReport, ReportOf, Status, Terminal
  <2>2. [worker[w] EXCEPT !.pc = AfterReport(worker[w].pc), !.tries = 1] \in Worker
    BY <1>12, <2>1, WorkerMoves DEF Reported, WorkersHoldJobs, Reporting
  <2>3. row' \in [Jobs -> Row]
    BY <1>12, <2>1, LandedRow DEF Reported, WorkersHoldJobs, Reporting
  <2> QED
    BY <1>12, <2>1, <2>2, <2>3 DEF Reported, Advance
<1>13. ASSUME NEW w \in Workers, BodyReports(w) PROVE TypeOK'
  <2>1. [worker[w] EXCEPT !.pc = "progress", !.tries = 1] \in Worker
    BY <1>13, WorkerMoves DEF BodyReports, WorkersHoldJobs, Reporting
  <2> QED
    BY <1>13, <2>1 DEF BodyReports, Advance
<1>14. ASSUME NEW w \in Workers, BodyEnds(w) PROVE TypeOK'
  <2>1. \A pc \in {"succeed", "fail"} : [worker[w] EXCEPT !.pc = pc, !.tries = 1] \in Worker
    BY <1>14, WorkerMoves DEF BodyEnds, WorkersHoldJobs, Reporting
  <2> QED
    BY <1>14, <2>1 DEF BodyEnds, Advance
<1>15. ASSUME NEW w \in Workers, Ack(w) PROVE TypeOK'
  BY <1>15, WorkerIdles DEF Ack
<1>16. ASSUME NEW w \in Workers, ReportLost(w) PROVE TypeOK'
  <2>1. worker' \in [Workers -> Worker]
    BY <1>16, AttemptCounted DEF ReportLost
  <2>2. worker[w].job \in Jobs
    BY <1>16 DEF ReportLost, WorkersHoldJobs, Reporting
  <2> QED
    BY <1>16, <2>1, <2>2 DEF ReportLost
<1>17. ASSUME NEW w \in Workers, ReportTimesOut(w) PROVE TypeOK'
  <2>1. worker' \in [Workers -> Worker]
    BY <1>17, AttemptCounted DEF ReportTimesOut
  <2>2. worker[w].job \in Jobs /\ ReportOf(worker[w].pc) \in Status
    BY <1>17 DEF ReportTimesOut, WorkersHoldJobs, Reporting, ReportOf, Status, Terminal
  <2> QED
    BY <1>17, <2>1, <2>2 DEF ReportTimesOut
<1>18. ASSUME NEW w \in Workers, WorkerLost(w) PROVE TypeOK'
  <2>1. crashes + 1 \in 0..MaxCrashes
    BY <1>18, BoundsAssumption DEF WorkerLost, WorkerDies
  <2>2. worker[w].job \in Jobs
    BY <1>18 DEF WorkerLost, WorkerDies, WorkersHoldJobs
  <2> QED
    BY <1>18, <2>1, <2>2, WorkerIdles DEF WorkerLost, WorkerDies
<1>19. ASSUME NEW w \in Workers, TakenBack(w) PROVE TypeOK'
  <2>1. crashes + 1 \in 0..MaxCrashes
    BY <1>19, BoundsAssumption DEF TakenBack
  <2>2. [worker[w] EXCEPT !.holds = FALSE] \in Worker
    BY DEF Worker
  <2> QED
    BY <1>19, <2>1, <2>2 DEF TakenBack
<1>20. ASSUME NEW j \in Jobs, NEW s \in Status, LateReportLands(j, s) PROVE TypeOK'
  BY <1>20, LandedRow DEF LateReportLands
<1>21. CASE UNCHANGED vars
  BY <1>21 DEF vars
<1> QED
  BY <1>1, <1>2, <1>3, <1>4, <1>5, <1>6, <1>7, <1>8, <1>9, <1>10,
     <1>11, <1>12, <1>13, <1>14, <1>15, <1>16, <1>17, <1>18, <1>19, <1>20,
     <1>21
  DEF Next, HandlerStep, WorkerStep, WorkerFault

\* A handler that holds a row keeps it: rows are never removed.
LEMMA StepsKeepHandlers ==
    ASSUME Base, TypeOK', [Next]_vars
    PROVE  HandlersHoldRows'
<1> USE RowsStay DEF Base, TypeOK, HandlersHoldRows, HoldingPc, Handler, IdleHandler
<1>1. ASSUME NEW h \in Handlers, NEW p \in Payloads, NEW k \in BOOLEAN, EnqueueFind(h, p, k)
      PROVE HandlersHoldRows'
  BY <1>1 DEF EnqueueFind
<1>2. ASSUME NEW h \in Handlers, NEW j \in Jobs, CreateRow(h, j) PROVE HandlersHoldRows'
  <2>1. Exists(j)'
    BY <1>2 DEF CreateRow, Exists, NoRow
  <2> QED
    BY <1>2, <2>1 DEF CreateRow
<1>3. ASSUME NEW h \in Handlers, NEW j \in Jobs, CancelLoad(h, j)
      PROVE HandlersHoldRows'
  <2>1. Exists(j)
    BY <1>3 DEF CancelLoad, Exists
  <2> QED
    BY <1>3, <2>1 DEF CancelLoad
<1>4. ASSUME NEW h \in Handlers, NEW j \in Jobs, RetryLoad(h, j) PROVE HandlersHoldRows'
  <2>1. Exists(j)
    BY <1>4 DEF RetryLoad
  <2> QED
    BY <1>4, <2>1 DEF RetryLoad
<1>5. ASSUME NEW h \in Handlers, Publish(h) PROVE HandlersHoldRows'
  BY <1>5 DEF Publish, Finish
<1>6. ASSUME NEW h \in Handlers, PublishThrows(h) PROVE HandlersHoldRows'
  BY <1>6 DEF PublishThrows, MoveTo
<1>7. ASSUME NEW h \in Handlers, MarkFailed(h) PROVE HandlersHoldRows'
  BY <1>7 DEF MarkFailed, Finish
<1>8. ASSUME NEW h \in Handlers, CancelWrite(h) PROVE HandlersHoldRows'
  BY <1>8 DEF CancelWrite, Finish
<1>9. ASSUME NEW h \in Handlers, RetryMark(h) PROVE HandlersHoldRows'
  BY <1>9 DEF RetryMark
<1>10. ASSUME NEW h \in Handlers, HandlerFails(h) PROVE HandlersHoldRows'
  BY <1>10 DEF HandlerFails, Finish
<1>11. ASSUME NEW w \in Workers, NEW j \in Jobs, Deliver(w, j) PROVE HandlersHoldRows'
  BY <1>11 DEF Deliver
<1>12. ASSUME NEW w \in Workers, Reported(w) PROVE HandlersHoldRows'
  BY <1>12 DEF Reported, Landed, Advance
<1>13. ASSUME NEW w \in Workers, BodyReports(w) PROVE HandlersHoldRows'
  BY <1>13 DEF BodyReports, Advance
<1>14. ASSUME NEW w \in Workers, BodyEnds(w) PROVE HandlersHoldRows'
  BY <1>14 DEF BodyEnds, Advance
<1>15. ASSUME NEW w \in Workers, Ack(w) PROVE HandlersHoldRows'
  BY <1>15 DEF Ack
<1>16. ASSUME NEW w \in Workers, ReportLost(w) PROVE HandlersHoldRows'
  BY <1>16 DEF ReportLost, AttemptFails, Advance
<1>17. ASSUME NEW w \in Workers, ReportTimesOut(w) PROVE HandlersHoldRows'
  BY <1>17 DEF ReportTimesOut, AttemptFails, Advance
<1>18. ASSUME NEW w \in Workers, WorkerLost(w) PROVE HandlersHoldRows'
  BY <1>18 DEF WorkerLost, WorkerDies
<1>19. ASSUME NEW w \in Workers, TakenBack(w) PROVE HandlersHoldRows'
  BY <1>19 DEF TakenBack
<1>20. ASSUME NEW j \in Jobs, NEW s \in Status, LateReportLands(j, s)
      PROVE HandlersHoldRows'
  BY <1>20 DEF LateReportLands, Landed
<1>21. CASE UNCHANGED vars
  BY <1>21 DEF vars
<1> QED
  BY <1>1, <1>2, <1>3, <1>4, <1>5, <1>6, <1>7, <1>8, <1>9, <1>10,
     <1>11, <1>12, <1>13, <1>14, <1>15, <1>16, <1>17, <1>18, <1>19, <1>20,
     <1>21
  DEF Next, HandlerStep, WorkerStep, WorkerFault

\* A worker that is not idle holds a job.
LEMMA StepsKeepWorkers ==
    ASSUME Base, TypeOK', [Next]_vars
    PROVE  WorkersHoldJobs'
<1> USE NoJobAssumption
    DEF Base, TypeOK, WorkersHoldJobs, Worker, IdleWorker, Reporting, Delivered
<1>1. ASSUME NEW h \in Handlers, NEW p \in Payloads, NEW k \in BOOLEAN, EnqueueFind(h, p, k)
      PROVE WorkersHoldJobs'
  BY <1>1 DEF EnqueueFind
<1>2. ASSUME NEW h \in Handlers, NEW j \in Jobs, CreateRow(h, j) PROVE WorkersHoldJobs'
  BY <1>2 DEF CreateRow
<1>3. ASSUME NEW h \in Handlers, NEW j \in Jobs, CancelLoad(h, j) PROVE WorkersHoldJobs'
  BY <1>3 DEF CancelLoad
<1>4. ASSUME NEW h \in Handlers, NEW j \in Jobs, RetryLoad(h, j) PROVE WorkersHoldJobs'
  BY <1>4 DEF RetryLoad
<1>5. ASSUME NEW h \in Handlers, Publish(h) PROVE WorkersHoldJobs'
  BY <1>5 DEF Publish, Finish
<1>6. ASSUME NEW h \in Handlers, PublishThrows(h) PROVE WorkersHoldJobs'
  BY <1>6 DEF PublishThrows, MoveTo
<1>7. ASSUME NEW h \in Handlers, MarkFailed(h) PROVE WorkersHoldJobs'
  BY <1>7 DEF MarkFailed, Finish
<1>8. ASSUME NEW h \in Handlers, CancelWrite(h) PROVE WorkersHoldJobs'
  BY <1>8 DEF CancelWrite, Finish
<1>9. ASSUME NEW h \in Handlers, RetryMark(h) PROVE WorkersHoldJobs'
  BY <1>9 DEF RetryMark
<1>10. ASSUME NEW h \in Handlers, HandlerFails(h) PROVE WorkersHoldJobs'
  BY <1>10 DEF HandlerFails, Finish
<1>11. ASSUME NEW w \in Workers, NEW j \in Jobs, Deliver(w, j) PROVE WorkersHoldJobs'
  BY <1>11 DEF Deliver
<1>12. ASSUME NEW w \in Workers, Reported(w) PROVE WorkersHoldJobs'
  <2>1. AfterReport(worker[w].pc) \in {"body", "ack"}
    BY DEF AfterReport
  <2> QED
    BY <1>12, <2>1 DEF Reported, Advance
<1>13. ASSUME NEW w \in Workers, BodyReports(w) PROVE WorkersHoldJobs'
  BY <1>13 DEF BodyReports, Advance
<1>14. ASSUME NEW w \in Workers, BodyEnds(w) PROVE WorkersHoldJobs'
  <2>1. worker[w].pc = "body" /\ \E pc \in {"succeed", "fail"} : Advance(w, pc)
    BY <1>14 DEF BodyEnds
  <2> QED
    BY <2>1 DEF Advance
<1>15. ASSUME NEW w \in Workers, Ack(w) PROVE WorkersHoldJobs'
  BY <1>15 DEF Ack
<1>16. ASSUME NEW w \in Workers, ReportLost(w) PROVE WorkersHoldJobs'
  <2>1. worker[w].pc # "idle" /\ worker'[w].pc # "idle"
    BY <1>16, AttemptCounted DEF ReportLost, AfterReport, Reporting
  <2> QED
    BY <1>16, <2>1, AttemptCounted DEF ReportLost
<1>17. ASSUME NEW w \in Workers, ReportTimesOut(w) PROVE WorkersHoldJobs'
  <2>1. worker[w].pc # "idle" /\ worker'[w].pc # "idle"
    BY <1>17, AttemptCounted DEF ReportTimesOut, AfterReport, Reporting
  <2> QED
    BY <1>17, <2>1, AttemptCounted DEF ReportTimesOut
<1>18. ASSUME NEW w \in Workers, WorkerLost(w) PROVE WorkersHoldJobs'
  BY <1>18 DEF WorkerLost, WorkerDies
<1>19. ASSUME NEW w \in Workers, TakenBack(w) PROVE WorkersHoldJobs'
  BY <1>19 DEF TakenBack
<1>20. ASSUME NEW j \in Jobs, NEW s \in Status, LateReportLands(j, s)
      PROVE WorkersHoldJobs'
  BY <1>20 DEF LateReportLands, Landed
<1>21. CASE UNCHANGED vars
  BY <1>21 DEF vars
<1> QED
  BY <1>1, <1>2, <1>3, <1>4, <1>5, <1>6, <1>7, <1>8, <1>9, <1>10,
     <1>11, <1>12, <1>13, <1>14, <1>15, <1>16, <1>17, <1>18, <1>19, <1>20,
     <1>21
  DEF Next, HandlerStep, WorkerStep, WorkerFault

\* Only an existing row is published.
LEMMA StepsKeepMessages ==
    ASSUME QueueInv, Base', [Next]_vars
    PROVE  MessagesHaveRows'
<1> USE RowsStay DEF QueueInv, Base, TypeOK, MessagesHaveRows
<1>1. ASSUME NEW h \in Handlers, NEW p \in Payloads, NEW k \in BOOLEAN, EnqueueFind(h, p, k)
      PROVE MessagesHaveRows'
  BY <1>1 DEF EnqueueFind
<1>2. ASSUME NEW h \in Handlers, NEW j \in Jobs, CreateRow(h, j) PROVE MessagesHaveRows'
  BY <1>2 DEF CreateRow
<1>3. ASSUME NEW h \in Handlers, NEW j \in Jobs, CancelLoad(h, j)
      PROVE MessagesHaveRows'
  BY <1>3 DEF CancelLoad
<1>4. ASSUME NEW h \in Handlers, NEW j \in Jobs, RetryLoad(h, j) PROVE MessagesHaveRows'
  BY <1>4 DEF RetryLoad
<1>5. ASSUME NEW h \in Handlers, Publish(h) PROVE MessagesHaveRows'
  <2>1. handler[h].job \in Jobs /\ Exists(handler[h].job)
    BY <1>5 DEF Publish, HandlersHoldRows, HoldingPc
  <2> QED
    BY <1>5, <2>1 DEF Publish
<1>6. ASSUME NEW h \in Handlers, PublishThrows(h) PROVE MessagesHaveRows'
  <2>1. handler[h].job \in Jobs /\ Exists(handler[h].job)
    BY <1>6 DEF PublishThrows, HandlersHoldRows, HoldingPc
  <2> QED
    BY <1>6, <2>1 DEF PublishThrows
<1>7. ASSUME NEW h \in Handlers, MarkFailed(h) PROVE MessagesHaveRows'
  BY <1>7 DEF MarkFailed, Finish
<1>8. ASSUME NEW h \in Handlers, CancelWrite(h) PROVE MessagesHaveRows'
  BY <1>8 DEF CancelWrite, Finish
<1>9. ASSUME NEW h \in Handlers, RetryMark(h) PROVE MessagesHaveRows'
  BY <1>9 DEF RetryMark
<1>10. ASSUME NEW h \in Handlers, HandlerFails(h) PROVE MessagesHaveRows'
  BY <1>10 DEF HandlerFails, Finish
<1>11. ASSUME NEW w \in Workers, NEW j \in Jobs, Deliver(w, j) PROVE MessagesHaveRows'
  BY <1>11 DEF Deliver
<1>12. ASSUME NEW w \in Workers, Reported(w) PROVE MessagesHaveRows'
  BY <1>12 DEF Reported, Landed, Advance
<1>13. ASSUME NEW w \in Workers, BodyReports(w) PROVE MessagesHaveRows'
  BY <1>13 DEF BodyReports, Advance
<1>14. ASSUME NEW w \in Workers, BodyEnds(w) PROVE MessagesHaveRows'
  BY <1>14 DEF BodyEnds, Advance
<1>15. ASSUME NEW w \in Workers, Ack(w) PROVE MessagesHaveRows'
  <2>1. message[worker[w].job] # "none" /\ worker[w].job \in Jobs
    BY <1>15 DEF Ack, ExecutedArePublished, WorkersHoldJobs
  <2> QED
    BY <1>15, <2>1 DEF Ack
<1>16. ASSUME NEW w \in Workers, ReportLost(w) PROVE MessagesHaveRows'
  BY <1>16 DEF ReportLost, AttemptFails, Advance
<1>17. ASSUME NEW w \in Workers, ReportTimesOut(w) PROVE MessagesHaveRows'
  BY <1>17 DEF ReportTimesOut, AttemptFails, Advance
<1>18. ASSUME NEW w \in Workers, WorkerLost(w) PROVE MessagesHaveRows'
  <2>1. message[worker[w].job] # "none" /\ worker[w].job \in Jobs
    BY <1>18 DEF WorkerLost, WorkerDies, ExecutedArePublished, WorkersHoldJobs
  <2> QED
    BY <1>18, <2>1 DEF WorkerLost, WorkerDies
<1>19. ASSUME NEW w \in Workers, TakenBack(w) PROVE MessagesHaveRows'
  <2>1. message[worker[w].job] # "none" /\ worker[w].job \in Jobs
    BY <1>19 DEF TakenBack, ExecutedArePublished, WorkersHoldJobs
  <2> QED
    BY <1>19, <2>1 DEF TakenBack
<1>20. ASSUME NEW j \in Jobs, NEW s \in Status, LateReportLands(j, s)
      PROVE MessagesHaveRows'
  BY <1>20 DEF LateReportLands, Landed
<1>21. CASE UNCHANGED vars
  BY <1>21 DEF vars
<1> QED
  BY <1>1, <1>2, <1>3, <1>4, <1>5, <1>6, <1>7, <1>8, <1>9, <1>10,
     <1>11, <1>12, <1>13, <1>14, <1>15, <1>16, <1>17, <1>18, <1>19, <1>20,
     <1>21
  DEF Next, HandlerStep, WorkerStep, WorkerFault

\* A row is created by one handler, the only one that will publish it.
LEMMA StepsKeepPublishers ==
    ASSUME QueueInv, Base', [Next]_vars
    PROVE  PublishersAlone'
<1> USE DEF QueueInv, Base, TypeOK, PublishersAlone, MessagesHaveRows, HandlersHoldRows, HoldingPc, Handler, IdleHandler
<1>1. ASSUME NEW h \in Handlers, NEW p \in Payloads, NEW k \in BOOLEAN, EnqueueFind(h, p, k)
      PROVE PublishersAlone'
  BY <1>1 DEF EnqueueFind
<1>2. ASSUME NEW h \in Handlers, NEW j \in Jobs, CreateRow(h, j) PROVE PublishersAlone'
  BY <1>2 DEF CreateRow
<1>3. ASSUME NEW h \in Handlers, NEW j \in Jobs, CancelLoad(h, j) PROVE PublishersAlone'
  BY <1>3 DEF CancelLoad
<1>4. ASSUME NEW h \in Handlers, NEW j \in Jobs, RetryLoad(h, j) PROVE PublishersAlone'
  BY <1>4 DEF RetryLoad
<1>5. ASSUME NEW h \in Handlers, Publish(h) PROVE PublishersAlone'
  BY <1>5 DEF Publish, Finish
<1>6. ASSUME NEW h \in Handlers, PublishThrows(h) PROVE PublishersAlone'
  BY <1>6 DEF PublishThrows, MoveTo
<1>7. ASSUME NEW h \in Handlers, MarkFailed(h) PROVE PublishersAlone'
  BY <1>7 DEF MarkFailed, Finish
<1>8. ASSUME NEW h \in Handlers, CancelWrite(h) PROVE PublishersAlone'
  BY <1>8 DEF CancelWrite, Finish
<1>9. ASSUME NEW h \in Handlers, RetryMark(h) PROVE PublishersAlone'
  BY <1>9 DEF RetryMark
<1>10. ASSUME NEW h \in Handlers, HandlerFails(h) PROVE PublishersAlone'
  BY <1>10 DEF HandlerFails, Finish
<1>11. ASSUME NEW w \in Workers, NEW j \in Jobs, Deliver(w, j) PROVE PublishersAlone'
  BY <1>11 DEF Deliver
<1>12. ASSUME NEW w \in Workers, Reported(w) PROVE PublishersAlone'
  BY <1>12 DEF Reported, Landed, Advance
<1>13. ASSUME NEW w \in Workers, BodyReports(w) PROVE PublishersAlone'
  BY <1>13 DEF BodyReports, Advance
<1>14. ASSUME NEW w \in Workers, BodyEnds(w) PROVE PublishersAlone'
  BY <1>14 DEF BodyEnds, Advance
<1>15. ASSUME NEW w \in Workers, Ack(w) PROVE PublishersAlone'
  <2>1. message[worker[w].job] # "none" /\ worker[w].job \in Jobs
    BY <1>15 DEF Ack, ExecutedArePublished, WorkersHoldJobs
  <2> QED
    BY <1>15, <2>1 DEF Ack
<1>16. ASSUME NEW w \in Workers, ReportLost(w) PROVE PublishersAlone'
  BY <1>16 DEF ReportLost, AttemptFails, Advance
<1>17. ASSUME NEW w \in Workers, ReportTimesOut(w) PROVE PublishersAlone'
  BY <1>17 DEF ReportTimesOut, AttemptFails, Advance
<1>18. ASSUME NEW w \in Workers, WorkerLost(w) PROVE PublishersAlone'
  <2>1. message[worker[w].job] # "none" /\ worker[w].job \in Jobs
    BY <1>18 DEF WorkerLost, WorkerDies, ExecutedArePublished, WorkersHoldJobs
  <2> QED
    BY <1>18, <2>1 DEF WorkerLost, WorkerDies
<1>19. ASSUME NEW w \in Workers, TakenBack(w) PROVE PublishersAlone'
  <2>1. message[worker[w].job] # "none" /\ worker[w].job \in Jobs
    BY <1>19 DEF TakenBack, ExecutedArePublished, WorkersHoldJobs
  <2> QED
    BY <1>19, <2>1 DEF TakenBack
<1>20. ASSUME NEW j \in Jobs, NEW s \in Status, LateReportLands(j, s)
      PROVE PublishersAlone'
  BY <1>20 DEF LateReportLands, Landed
<1>21. CASE UNCHANGED vars
  BY <1>21 DEF vars
<1> QED
  BY <1>1, <1>2, <1>3, <1>4, <1>5, <1>6, <1>7, <1>8, <1>9, <1>10,
     <1>11, <1>12, <1>13, <1>14, <1>15, <1>16, <1>17, <1>18, <1>19, <1>20,
     <1>21
  DEF Next, HandlerStep, WorkerStep, WorkerFault

\* A delivered message stays with the worker that took it.
LEMMA StepsKeepReservations ==
    ASSUME QueueInv, Base', [Next]_vars
    PROVE  OneWorkerPerMessage'
<1> USE NoJobAssumption DEF QueueInv, Base, TypeOK, PublishersAlone, OneWorkerPerMessage,
        ExecutedArePublished, WorkersHoldJobs, Worker, IdleWorker, Reporting, Delivered
<1>1. ASSUME NEW h \in Handlers, NEW p \in Payloads, NEW k \in BOOLEAN, EnqueueFind(h, p, k)
      PROVE OneWorkerPerMessage'
  BY <1>1 DEF EnqueueFind
<1>2. ASSUME NEW h \in Handlers, NEW j \in Jobs, CreateRow(h, j)
      PROVE OneWorkerPerMessage'
  BY <1>2 DEF CreateRow
<1>3. ASSUME NEW h \in Handlers, NEW j \in Jobs, CancelLoad(h, j)
      PROVE OneWorkerPerMessage'
  BY <1>3 DEF CancelLoad
<1>4. ASSUME NEW h \in Handlers, NEW j \in Jobs, RetryLoad(h, j)
      PROVE OneWorkerPerMessage'
  BY <1>4 DEF RetryLoad
<1>5. ASSUME NEW h \in Handlers, Publish(h) PROVE OneWorkerPerMessage'
  BY <1>5 DEF Publish, Finish
<1>6. ASSUME NEW h \in Handlers, PublishThrows(h) PROVE OneWorkerPerMessage'
  BY <1>6 DEF PublishThrows, MoveTo
<1>7. ASSUME NEW h \in Handlers, MarkFailed(h) PROVE OneWorkerPerMessage'
  BY <1>7 DEF MarkFailed, Finish
<1>8. ASSUME NEW h \in Handlers, CancelWrite(h) PROVE OneWorkerPerMessage'
  BY <1>8 DEF CancelWrite, Finish
<1>9. ASSUME NEW h \in Handlers, RetryMark(h) PROVE OneWorkerPerMessage'
  BY <1>9 DEF RetryMark
<1>10. ASSUME NEW h \in Handlers, HandlerFails(h) PROVE OneWorkerPerMessage'
  BY <1>10 DEF HandlerFails, Finish
<1>11. ASSUME NEW w \in Workers, NEW j \in Jobs, Deliver(w, j)
      PROVE OneWorkerPerMessage'
  BY <1>11 DEF Deliver
<1>12. ASSUME NEW w \in Workers, Reported(w) PROVE OneWorkerPerMessage'
  BY <1>12 DEF Reported, Landed, Advance
<1>13. ASSUME NEW w \in Workers, BodyReports(w) PROVE OneWorkerPerMessage'
  BY <1>13 DEF BodyReports, Advance
<1>14. ASSUME NEW w \in Workers, BodyEnds(w) PROVE OneWorkerPerMessage'
  <2>1. worker[w].pc = "body" /\ \E pc \in {"succeed", "fail"} : Advance(w, pc)
    BY <1>14 DEF BodyEnds
  <2> QED
    BY <1>14, <2>1 DEF BodyEnds, Advance
<1>15. ASSUME NEW w \in Workers, Ack(w) PROVE OneWorkerPerMessage'
  BY <1>15 DEF Ack
<1>16. ASSUME NEW w \in Workers, ReportLost(w) PROVE OneWorkerPerMessage'
  <2>1. worker[w].pc # "idle" /\ worker'[w].pc # "idle"
    BY <1>16, AttemptCounted DEF ReportLost, AfterReport, Reporting
  <2>2. /\ message' = message /\ worker'[w].job = worker[w].job
        /\ worker'[w].holds = worker[w].holds
    BY <1>16, AttemptCounted DEF ReportLost
  <2>3. \A v \in Workers \ {w} : worker'[v] = worker[v]
    BY <1>16, AttemptCounted DEF ReportLost
  <2> QED
    BY <2>1, <2>2, <2>3
<1>17. ASSUME NEW w \in Workers, ReportTimesOut(w) PROVE OneWorkerPerMessage'
  <2>1. worker[w].pc # "idle" /\ worker'[w].pc # "idle"
    BY <1>17, AttemptCounted DEF ReportTimesOut, AfterReport, Reporting
  <2>2. /\ message' = message /\ worker'[w].job = worker[w].job
        /\ worker'[w].holds = worker[w].holds
    BY <1>17, AttemptCounted DEF ReportTimesOut
  <2>3. \A v \in Workers \ {w} : worker'[v] = worker[v]
    BY <1>17, AttemptCounted DEF ReportTimesOut
  <2> QED
    BY <2>1, <2>2, <2>3
<1>18. ASSUME NEW w \in Workers, WorkerLost(w) PROVE OneWorkerPerMessage'
  BY <1>18 DEF WorkerLost, WorkerDies
<1>19. ASSUME NEW w \in Workers, TakenBack(w) PROVE OneWorkerPerMessage'
  BY <1>19 DEF TakenBack
<1>20. ASSUME NEW j \in Jobs, NEW s \in Status, LateReportLands(j, s)
      PROVE OneWorkerPerMessage'
  BY <1>20 DEF LateReportLands, Landed
<1>21. CASE UNCHANGED vars
  BY <1>21 DEF vars
<1> QED
  BY <1>1, <1>2, <1>3, <1>4, <1>5, <1>6, <1>7, <1>8, <1>9, <1>10,
     <1>11, <1>12, <1>13, <1>14, <1>15, <1>16, <1>17, <1>18, <1>19, <1>20,
     <1>21
  DEF Next, HandlerStep, WorkerStep, WorkerFault

\* What a worker executes was published, and no step unpublishes it.
LEMMA StepsKeepExecuted ==
    ASSUME QueueInv, Base', [Next]_vars
    PROVE  ExecutedArePublished'
<1> USE NoJobAssumption DEF QueueInv, Base, TypeOK, PublishersAlone, OneWorkerPerMessage,
        ExecutedArePublished, WorkersHoldJobs, Worker, IdleWorker, Reporting, Delivered
<1>1. ASSUME NEW h \in Handlers, NEW p \in Payloads, NEW k \in BOOLEAN, EnqueueFind(h, p, k)
      PROVE ExecutedArePublished'
  BY <1>1 DEF EnqueueFind
<1>2. ASSUME NEW h \in Handlers, NEW j \in Jobs, CreateRow(h, j)
      PROVE ExecutedArePublished'
  BY <1>2 DEF CreateRow
<1>3. ASSUME NEW h \in Handlers, NEW j \in Jobs, CancelLoad(h, j)
      PROVE ExecutedArePublished'
  BY <1>3 DEF CancelLoad
<1>4. ASSUME NEW h \in Handlers, NEW j \in Jobs, RetryLoad(h, j)
      PROVE ExecutedArePublished'
  BY <1>4 DEF RetryLoad
<1>5. ASSUME NEW h \in Handlers, Publish(h) PROVE ExecutedArePublished'
  BY <1>5 DEF Publish, Finish
<1>6. ASSUME NEW h \in Handlers, PublishThrows(h) PROVE ExecutedArePublished'
  BY <1>6 DEF PublishThrows, MoveTo
<1>7. ASSUME NEW h \in Handlers, MarkFailed(h) PROVE ExecutedArePublished'
  BY <1>7 DEF MarkFailed, Finish
<1>8. ASSUME NEW h \in Handlers, CancelWrite(h) PROVE ExecutedArePublished'
  BY <1>8 DEF CancelWrite, Finish
<1>9. ASSUME NEW h \in Handlers, RetryMark(h) PROVE ExecutedArePublished'
  BY <1>9 DEF RetryMark
<1>10. ASSUME NEW h \in Handlers, HandlerFails(h) PROVE ExecutedArePublished'
  BY <1>10 DEF HandlerFails, Finish
<1>11. ASSUME NEW w \in Workers, NEW j \in Jobs, Deliver(w, j)
      PROVE ExecutedArePublished'
  BY <1>11 DEF Deliver
<1>12. ASSUME NEW w \in Workers, Reported(w) PROVE ExecutedArePublished'
  BY <1>12 DEF Reported, Landed, Advance
<1>13. ASSUME NEW w \in Workers, BodyReports(w) PROVE ExecutedArePublished'
  BY <1>13 DEF BodyReports, Advance
<1>14. ASSUME NEW w \in Workers, BodyEnds(w) PROVE ExecutedArePublished'
  <2>1. worker[w].pc = "body" /\ \E pc \in {"succeed", "fail"} : Advance(w, pc)
    BY <1>14 DEF BodyEnds
  <2> QED
    BY <1>14, <2>1 DEF BodyEnds, Advance
<1>15. ASSUME NEW w \in Workers, Ack(w) PROVE ExecutedArePublished'
  BY <1>15 DEF Ack
<1>16. ASSUME NEW w \in Workers, ReportLost(w) PROVE ExecutedArePublished'
  <2>1. worker[w].pc # "idle" /\ worker'[w].pc # "idle"
    BY <1>16, AttemptCounted DEF ReportLost, AfterReport, Reporting
  <2>2. message' = message /\ worker'[w].job = worker[w].job
    BY <1>16, AttemptCounted DEF ReportLost
  <2>3. \A v \in Workers \ {w} : worker'[v] = worker[v]
    BY <1>16, AttemptCounted DEF ReportLost
  <2> QED
    BY <2>1, <2>2, <2>3
<1>17. ASSUME NEW w \in Workers, ReportTimesOut(w) PROVE ExecutedArePublished'
  <2>1. worker[w].pc # "idle" /\ worker'[w].pc # "idle"
    BY <1>17, AttemptCounted DEF ReportTimesOut, AfterReport, Reporting
  <2>2. message' = message /\ worker'[w].job = worker[w].job
    BY <1>17, AttemptCounted DEF ReportTimesOut
  <2>3. \A v \in Workers \ {w} : worker'[v] = worker[v]
    BY <1>17, AttemptCounted DEF ReportTimesOut
  <2> QED
    BY <2>1, <2>2, <2>3
<1>18. ASSUME NEW w \in Workers, WorkerLost(w) PROVE ExecutedArePublished'
  BY <1>18 DEF WorkerLost, WorkerDies
<1>19. ASSUME NEW w \in Workers, TakenBack(w) PROVE ExecutedArePublished'
  BY <1>19 DEF TakenBack
<1>20. ASSUME NEW j \in Jobs, NEW s \in Status, LateReportLands(j, s)
      PROVE ExecutedArePublished'
  BY <1>20 DEF LateReportLands, Landed
<1>21. CASE UNCHANGED vars
  BY <1>21 DEF vars
<1> QED
  BY <1>1, <1>2, <1>3, <1>4, <1>5, <1>6, <1>7, <1>8, <1>9, <1>10,
     <1>11, <1>12, <1>13, <1>14, <1>15, <1>16, <1>17, <1>18, <1>19, <1>20,
     <1>21
  DEF Next, HandlerStep, WorkerStep, WorkerFault

\* What an attempt that is confirmed does to the row and to the worker.
LEMMA ReportedStep ==
    ASSUME Base, NEW w \in Workers, Reported(w)
    PROVE  /\ worker[w].job \in Jobs
           /\ row' \in [Jobs -> Row]
           /\ \A i \in Jobs \ {worker[w].job} : row'[i] = row[i]
           /\ row'[worker[w].job].status = ReportOf(worker[w].pc)
           /\ row'[worker[w].job].payload = row[worker[w].job].payload
           /\ row'[worker[w].job].keyed = row[worker[w].job].keyed
           /\ ReportOf(worker[w].pc) \in Terminal => row'[worker[w].job].finished
           /\ worker'[w].job = worker[w].job /\ worker'[w].holds = worker[w].holds
           /\ worker'[w].pc = AfterReport(worker[w].pc)
           /\ \A v \in Workers \ {w} : worker'[v] = worker[v]
           /\ UNCHANGED <<message, handler, late, accepted, outcomes, unsettled, crashes>>
<1>1. worker[w].job \in Jobs
  BY DEF Reported, Base, WorkersHoldJobs, Reporting
<1>2. ReportOf(worker[w].pc) \in Status
  BY DEF ReportOf, Status, Terminal
<1>3. Landed(worker[w].job, ReportOf(worker[w].pc))
  BY DEF Reported
<1>4. /\ worker'[w].job = worker[w].job /\ worker'[w].holds = worker[w].holds
      /\ worker'[w].pc = AfterReport(worker[w].pc)
      /\ \A v \in Workers \ {w} : worker'[v] = worker[v]
  BY DEF Reported, Advance, Base, TypeOK, Worker
<1> QED
  BY <1>1, <1>2, <1>3, <1>4, LandedRow DEF Reported, Base

\* The end of a body.
LEMMA BodyEndsStep ==
    ASSUME Base, NEW w \in Workers, BodyEnds(w)
    PROVE  /\ worker[w].pc = "body" /\ worker[w].job \in Jobs
           /\ worker'[w].pc \in {"succeed", "fail"} /\ worker'[w].job = worker[w].job
           /\ worker'[w].pc = "succeed" => "returned" \in outcomes'[worker[w].job]
           /\ \A j \in Jobs : outcomes[j] \subseteq outcomes'[j]
           /\ \A v \in Workers \ {w} : worker'[v] = worker[v]
           /\ UNCHANGED <<row, message, handler, late, accepted, unsettled, crashes>>
<1>1. worker[w].job \in Jobs
  BY DEF BodyEnds, Base, WorkersHoldJobs
<1>2. worker[w].pc = "body" /\ \E pc \in {"succeed", "fail"} : Advance(w, pc)
  BY DEF BodyEnds
<1>3. /\ worker'[w].pc \in {"succeed", "fail"} /\ worker'[w].job = worker[w].job
      /\ \A v \in Workers \ {w} : worker'[v] = worker[v]
  BY <1>2 DEF Advance, Base, TypeOK, Worker
<1>4. CASE /\ Advance(w, "succeed")
           /\ outcomes' = [outcomes EXCEPT ![worker[w].job] = @ \union {"returned"}]
  BY <1>1, <1>2, <1>3, <1>4 DEF BodyEnds, Base, TypeOK
<1>5. CASE /\ Advance(w, "fail")
           /\ outcomes' = [outcomes EXCEPT ![worker[w].job] = @ \union {"raised"}]
  <2>1. worker'[w].pc = "fail"
    BY <1>5 DEF Advance, Base, TypeOK, Worker
  <2> QED
    BY <1>1, <1>2, <1>3, <1>5, <2>1 DEF BodyEnds, Base, TypeOK
<1> QED
  BY <1>4, <1>5 DEF BodyEnds

\* A late report was counted as unsettled by the step that made it late.
LEMMA StepsKeepLateReports ==
    ASSUME ReportInv, Base', [Next]_vars
    PROVE  LateReportsAreTrue'
<1> USE DEF ReportInv, QueueInv, Base, TypeOK, LateReportsAreTrue
<1>1. ASSUME NEW h \in Handlers, NEW p \in Payloads, NEW k \in BOOLEAN, EnqueueFind(h, p, k)
      PROVE LateReportsAreTrue'
  BY <1>1 DEF EnqueueFind
<1>2. ASSUME NEW h \in Handlers, NEW j \in Jobs, CreateRow(h, j)
      PROVE LateReportsAreTrue'
  BY <1>2 DEF CreateRow
<1>3. ASSUME NEW h \in Handlers, NEW j \in Jobs, CancelLoad(h, j)
      PROVE LateReportsAreTrue'
  BY <1>3 DEF CancelLoad
<1>4. ASSUME NEW h \in Handlers, NEW j \in Jobs, RetryLoad(h, j)
      PROVE LateReportsAreTrue'
  BY <1>4 DEF RetryLoad
<1>5. ASSUME NEW h \in Handlers, Publish(h) PROVE LateReportsAreTrue'
  BY <1>5 DEF Publish, Finish
<1>6. ASSUME NEW h \in Handlers, PublishThrows(h) PROVE LateReportsAreTrue'
  BY <1>6 DEF PublishThrows, MoveTo
<1>7. ASSUME NEW h \in Handlers, MarkFailed(h) PROVE LateReportsAreTrue'
  BY <1>7 DEF MarkFailed, Finish
<1>8. ASSUME NEW h \in Handlers, CancelWrite(h) PROVE LateReportsAreTrue'
  BY <1>8 DEF CancelWrite, Finish
<1>9. ASSUME NEW h \in Handlers, RetryMark(h) PROVE LateReportsAreTrue'
  BY <1>9 DEF RetryMark
<1>10. ASSUME NEW h \in Handlers, HandlerFails(h) PROVE LateReportsAreTrue'
  BY <1>10 DEF HandlerFails, Finish
<1>11. ASSUME NEW w \in Workers, NEW j \in Jobs, Deliver(w, j) PROVE LateReportsAreTrue'
  BY <1>11 DEF Deliver
<1>12. ASSUME NEW w \in Workers, Reported(w) PROVE LateReportsAreTrue'
  BY <1>12 DEF Reported, Landed, Advance
<1>13. ASSUME NEW w \in Workers, BodyReports(w) PROVE LateReportsAreTrue'
  BY <1>13 DEF BodyReports, Advance
<1>14. ASSUME NEW w \in Workers, BodyEnds(w) PROVE LateReportsAreTrue'
  BY <1>14 DEF BodyEnds, Advance
<1>15. ASSUME NEW w \in Workers, Ack(w) PROVE LateReportsAreTrue'
  BY <1>15 DEF Ack
<1>16. ASSUME NEW w \in Workers, ReportLost(w) PROVE LateReportsAreTrue'
  BY <1>16 DEF ReportLost, AttemptFails, Advance
<1>17. ASSUME NEW w \in Workers, ReportTimesOut(w) PROVE LateReportsAreTrue'
  <2>1. /\ worker[w].job \in Jobs
        /\ message[worker[w].job] # "none"
        /\ worker[w].pc = "succeed" => "returned" \in outcomes[worker[w].job]
    BY <1>17 DEF ReportTimesOut, Reporting, WorkersHoldJobs, ExecutedArePublished,
         SuccessIsReturned
  <2> QED
    BY <1>17, <2>1 DEF ReportTimesOut, ReportOf
<1>18. ASSUME NEW w \in Workers, WorkerLost(w) PROVE LateReportsAreTrue'
  <2>1. worker[w].job \in Jobs /\ message[worker[w].job] # "none"
    BY <1>18 DEF WorkerLost, WorkerDies, WorkersHoldJobs, ExecutedArePublished
  <2> QED
    BY <1>18, <2>1 DEF WorkerLost, WorkerDies
<1>19. ASSUME NEW w \in Workers, TakenBack(w) PROVE LateReportsAreTrue'
  BY <1>19 DEF TakenBack
<1>20. ASSUME NEW j \in Jobs, NEW s \in Status, LateReportLands(j, s)
      PROVE LateReportsAreTrue'
  BY <1>20 DEF LateReportLands, Landed
<1>21. CASE UNCHANGED vars
  BY <1>21 DEF vars
<1> QED
  BY <1>1, <1>2, <1>3, <1>4, <1>5, <1>6, <1>7, <1>8, <1>9, <1>10,
     <1>11, <1>12, <1>13, <1>14, <1>15, <1>16, <1>17, <1>18, <1>19, <1>20,
     <1>21
  DEF Next, HandlerStep, WorkerStep, WorkerFault

\* A worker reports success only after its task returned.
LEMMA StepsKeepReturns ==
    ASSUME ReportInv, Base', [Next]_vars
    PROVE  SuccessIsReturned'
<1> USE DEF ReportInv, QueueInv, Base, SuccessIsReturned
<1>1. ASSUME NEW h \in Handlers, NEW p \in Payloads, NEW k \in BOOLEAN, EnqueueFind(h, p, k)
      PROVE SuccessIsReturned'
  BY <1>1 DEF EnqueueFind
<1>2. ASSUME NEW h \in Handlers, NEW j \in Jobs, CreateRow(h, j)
      PROVE SuccessIsReturned'
  BY <1>2 DEF CreateRow
<1>3. ASSUME NEW h \in Handlers, NEW j \in Jobs, CancelLoad(h, j)
      PROVE SuccessIsReturned'
  BY <1>3 DEF CancelLoad
<1>4. ASSUME NEW h \in Handlers, NEW j \in Jobs, RetryLoad(h, j)
      PROVE SuccessIsReturned'
  BY <1>4 DEF RetryLoad
<1>5. ASSUME NEW h \in Handlers, Publish(h) PROVE SuccessIsReturned'
  BY <1>5 DEF Publish, Finish
<1>6. ASSUME NEW h \in Handlers, PublishThrows(h) PROVE SuccessIsReturned'
  BY <1>6 DEF PublishThrows, MoveTo
<1>7. ASSUME NEW h \in Handlers, MarkFailed(h) PROVE SuccessIsReturned'
  BY <1>7 DEF MarkFailed, Finish
<1>8. ASSUME NEW h \in Handlers, CancelWrite(h) PROVE SuccessIsReturned'
  BY <1>8 DEF CancelWrite, Finish
<1>9. ASSUME NEW h \in Handlers, RetryMark(h) PROVE SuccessIsReturned'
  BY <1>9 DEF RetryMark
<1>10. ASSUME NEW h \in Handlers, HandlerFails(h) PROVE SuccessIsReturned'
  BY <1>10 DEF HandlerFails, Finish
<1>11. ASSUME NEW w \in Workers, NEW j \in Jobs, Deliver(w, j) PROVE SuccessIsReturned'
  <2>1. worker'[w].pc # "succeed" /\ \A v \in Workers \ {w} : worker'[v] = worker[v]
    BY <1>11 DEF Deliver, Delivered, TypeOK
  <2> QED
    BY <1>11, <2>1 DEF Deliver, TypeOK, WorkersHoldJobs
<1>12. ASSUME NEW w \in Workers, Reported(w) PROVE SuccessIsReturned'
  BY <1>12, ReportedStep DEF ReportOf, AfterReport, Reported, Reporting
<1>13. ASSUME NEW w \in Workers, BodyReports(w) PROVE SuccessIsReturned'
  BY <1>13 DEF BodyReports, Advance, TypeOK, Worker
<1>14. ASSUME NEW w \in Workers, BodyEnds(w) PROVE SuccessIsReturned'
  <2>1. ASSUME NEW v \in Workers, v # w, worker[v].pc = "succeed"
        PROVE  worker[v].job \in Jobs
    BY <2>1 DEF WorkersHoldJobs
  <2> QED
    BY <1>14, <2>1, BodyEndsStep
<1>15. ASSUME NEW w \in Workers, Ack(w) PROVE SuccessIsReturned'
  BY <1>15 DEF Ack, TypeOK, IdleWorker
<1>16. ASSUME NEW w \in Workers, ReportLost(w) PROVE SuccessIsReturned'
  BY <1>16, AttemptCounted DEF ReportLost, AfterReport, Reporting
<1>17. ASSUME NEW w \in Workers, ReportTimesOut(w) PROVE SuccessIsReturned'
  BY <1>17, AttemptCounted DEF ReportTimesOut, AfterReport, Reporting
<1>18. ASSUME NEW w \in Workers, WorkerLost(w) PROVE SuccessIsReturned'
  BY <1>18 DEF WorkerLost, WorkerDies, TypeOK, IdleWorker
<1>19. ASSUME NEW w \in Workers, TakenBack(w) PROVE SuccessIsReturned'
  BY <1>19 DEF TakenBack, TypeOK, Worker
<1>20. ASSUME NEW j \in Jobs, NEW s \in Status, LateReportLands(j, s)
      PROVE SuccessIsReturned'
  BY <1>20 DEF LateReportLands, Landed
<1>21. CASE UNCHANGED vars
  BY <1>21 DEF vars
<1> QED
  BY <1>1, <1>2, <1>3, <1>4, <1>5, <1>6, <1>7, <1>8, <1>9, <1>10,
     <1>11, <1>12, <1>13, <1>14, <1>15, <1>16, <1>17, <1>18, <1>19, <1>20,
     <1>21
  DEF Next, HandlerStep, WorkerStep, WorkerFault

\* No write puts a row ahead of its execution.
LEMMA StepsKeepRowsBehind ==
    ASSUME ReportInv, Base', [Next]_vars
    PROVE  RowNeverAheadOfWorkers'
<1> USE DEF ReportInv, QueueInv, Base, TypeOK, RowNeverAheadOfWorkers
<1>1. ASSUME NEW h \in Handlers, NEW p \in Payloads, NEW k \in BOOLEAN, EnqueueFind(h, p, k)
      PROVE RowNeverAheadOfWorkers'
  BY <1>1 DEF EnqueueFind
<1>2. ASSUME NEW h \in Handlers, NEW j \in Jobs, CreateRow(h, j)
      PROVE RowNeverAheadOfWorkers'
  BY <1>2 DEF CreateRow
<1>3. ASSUME NEW h \in Handlers, NEW j \in Jobs, CancelLoad(h, j)
      PROVE RowNeverAheadOfWorkers'
  BY <1>3 DEF CancelLoad
<1>4. ASSUME NEW h \in Handlers, NEW j \in Jobs, RetryLoad(h, j)
      PROVE RowNeverAheadOfWorkers'
  BY <1>4 DEF RetryLoad
<1>5. ASSUME NEW h \in Handlers, Publish(h) PROVE RowNeverAheadOfWorkers'
  BY <1>5 DEF Publish, Finish
<1>6. ASSUME NEW h \in Handlers, PublishThrows(h) PROVE RowNeverAheadOfWorkers'
  BY <1>6 DEF PublishThrows, MoveTo
<1>7. ASSUME NEW h \in Handlers, MarkFailed(h) PROVE RowNeverAheadOfWorkers'
  BY <1>7 DEF MarkFailed, Finish
<1>8. ASSUME NEW h \in Handlers, CancelWrite(h) PROVE RowNeverAheadOfWorkers'
  BY <1>8 DEF CancelWrite, Finish
<1>9. ASSUME NEW h \in Handlers, RetryMark(h) PROVE RowNeverAheadOfWorkers'
  BY <1>9 DEF RetryMark
<1>10. ASSUME NEW h \in Handlers, HandlerFails(h) PROVE RowNeverAheadOfWorkers'
  BY <1>10 DEF HandlerFails, Finish
<1>11. ASSUME NEW w \in Workers, NEW j \in Jobs, Deliver(w, j)
      PROVE RowNeverAheadOfWorkers'
  BY <1>11 DEF Deliver
<1>12. ASSUME NEW w \in Workers, Reported(w) PROVE RowNeverAheadOfWorkers'
  <2>1. message[worker[w].job] # "none"
    BY <1>12 DEF Reported, Reporting, ExecutedArePublished
  <2> QED
    BY <1>12, <2>1, ReportedStep DEF ReportOf, Reported, Reporting, SuccessIsReturned
<1>13. ASSUME NEW w \in Workers, BodyReports(w) PROVE RowNeverAheadOfWorkers'
  BY <1>13 DEF BodyReports, Advance
<1>14. ASSUME NEW w \in Workers, BodyEnds(w) PROVE RowNeverAheadOfWorkers'
  BY <1>14 DEF BodyEnds, Advance
<1>15. ASSUME NEW w \in Workers, Ack(w) PROVE RowNeverAheadOfWorkers'
  BY <1>15 DEF Ack
<1>16. ASSUME NEW w \in Workers, ReportLost(w) PROVE RowNeverAheadOfWorkers'
  BY <1>16 DEF ReportLost, AttemptFails, Advance
<1>17. ASSUME NEW w \in Workers, ReportTimesOut(w) PROVE RowNeverAheadOfWorkers'
  BY <1>17 DEF ReportTimesOut, AttemptFails, Advance
<1>18. ASSUME NEW w \in Workers, WorkerLost(w) PROVE RowNeverAheadOfWorkers'
  <2>1. worker[w].job \in Jobs /\ message[worker[w].job] # "none"
    BY <1>18 DEF WorkerLost, WorkerDies, WorkersHoldJobs, ExecutedArePublished
  <2> QED
    BY <1>18, <2>1 DEF WorkerLost, WorkerDies
<1>19. ASSUME NEW w \in Workers, TakenBack(w) PROVE RowNeverAheadOfWorkers'
  BY <1>19 DEF TakenBack
<1>20. ASSUME NEW j \in Jobs, NEW s \in Status, LateReportLands(j, s)
      PROVE RowNeverAheadOfWorkers'
  BY <1>20, LandedRow DEF LateReportLands, LateReportsAreTrue
<1>21. CASE UNCHANGED vars
  BY <1>21 DEF vars
<1> QED
  BY <1>1, <1>2, <1>3, <1>4, <1>5, <1>6, <1>7, <1>8, <1>9, <1>10,
     <1>11, <1>12, <1>13, <1>14, <1>15, <1>16, <1>17, <1>18, <1>19, <1>20,
     <1>21
  DEF Next, HandlerStep, WorkerStep, WorkerFault

\* A row loses its mover only as it concludes.
LEMMA StepsKeepRowsInMotion ==
    ASSUME SettleInv, Base', [Next]_vars
    PROVE  NoJobLeftBehind'
<1> USE DEF SettleInv, ReportInv, QueueInv, Base, TypeOK, NoJobLeftBehind, BeingEnqueued,
            Executing, Worker, IdleWorker, Delivered
<1>1. ASSUME NEW h \in Handlers, NEW p \in Payloads, NEW k \in BOOLEAN, EnqueueFind(h, p, k)
      PROVE NoJobLeftBehind'
  BY <1>1 DEF EnqueueFind
<1>2. ASSUME NEW h \in Handlers, NEW j \in Jobs, CreateRow(h, j) PROVE NoJobLeftBehind'
  BY <1>2 DEF CreateRow
<1>3. ASSUME NEW h \in Handlers, NEW j \in Jobs, CancelLoad(h, j) PROVE NoJobLeftBehind'
  BY <1>3 DEF CancelLoad
<1>4. ASSUME NEW h \in Handlers, NEW j \in Jobs, RetryLoad(h, j) PROVE NoJobLeftBehind'
  BY <1>4 DEF RetryLoad
<1>5. ASSUME NEW h \in Handlers, Publish(h) PROVE NoJobLeftBehind'
  BY <1>5 DEF Publish, Finish
<1>6. ASSUME NEW h \in Handlers, PublishThrows(h) PROVE NoJobLeftBehind'
  BY <1>6 DEF PublishThrows, MoveTo
<1>7. ASSUME NEW h \in Handlers, MarkFailed(h) PROVE NoJobLeftBehind'
  BY <1>7 DEF MarkFailed, Finish
<1>8. ASSUME NEW h \in Handlers, CancelWrite(h) PROVE NoJobLeftBehind'
  BY <1>8 DEF CancelWrite, Finish
<1>9. ASSUME NEW h \in Handlers, RetryMark(h) PROVE NoJobLeftBehind'
  BY <1>9 DEF RetryMark
<1>10. ASSUME NEW h \in Handlers, HandlerFails(h) PROVE NoJobLeftBehind'
  BY <1>10 DEF HandlerFails, Finish
<1>11. ASSUME NEW w \in Workers, NEW j \in Jobs, Deliver(w, j) PROVE NoJobLeftBehind'
  <2>1. "refused" \in outcomes'[j] \/ Executing(j)'
    <3>1. CASE row[j].payload \in Unbindable
      BY <1>11, <3>1 DEF Deliver
    <3>2. CASE row[j].payload \notin Unbindable
      <4>1. worker'[w].job = j /\ worker'[w].pc = "start"
        BY <1>11, <3>2 DEF Deliver
      <4> QED
        BY <4>1
    <3> QED
      BY <3>1, <3>2
  <2>2. \A i \in Jobs : Executing(i) => Executing(i)'
    BY <1>11 DEF Deliver
  <2>3. \A i \in Jobs : outcomes[i] \subseteq outcomes'[i]
    BY <1>11 DEF Deliver
  <2>4. \A i \in Jobs \ {j} : message'[i] = message[i]
    BY <1>11 DEF Deliver
  <2>5. UNCHANGED <<row, handler, unsettled>>
    BY <1>11 DEF Deliver
  <2>6. \A i \in Jobs : BeingEnqueued(i)' <=> BeingEnqueued(i)
    BY <2>5
  <2> HIDE DEF Executing, BeingEnqueued
  <2>7. ASSUME NEW i \in Jobs \ {j}, row'[i].status \in {"QUEUED", "RUNNING"}
        PROVE  \/ BeingEnqueued(i)' \/ message'[i] = "queued" \/ Executing(i)'
               \/ i \in unsettled' \/ "refused" \in outcomes'[i]
    <3>1. row[i].status \in {"QUEUED", "RUNNING"}
      BY <2>5, <2>7
    <3>2. \/ BeingEnqueued(i) \/ message[i] = "queued" \/ Executing(i)
          \/ i \in unsettled \/ "refused" \in outcomes[i]
      BY <3>1
    <3> QED
      BY <2>2, <2>3, <2>4, <2>5, <2>6, <3>2
  <2> QED
    BY ONLY <2>1, <2>7 DEF NoJobLeftBehind
<1>12. ASSUME NEW w \in Workers, Reported(w) PROVE NoJobLeftBehind'
  <2>1. CASE AfterReport(worker[w].pc) = "body"
    <3>1. /\ worker'[w].pc = "body" /\ worker'[w].job = worker[w].job
          /\ worker[w].job \in Jobs
      BY <1>12, <2>1, ReportedStep
    <3>2. Executing(worker[w].job)'
      BY <3>1
    <3>3. \A i \in Jobs \ {worker[w].job} : Executing(i) => Executing(i)'
      BY <1>12, ReportedStep
    <3> QED
      BY <1>12, <3>2, <3>3, ReportedStep
  <2>2. CASE AfterReport(worker[w].pc) # "body"
    <3>1. row'[worker[w].job].status \notin {"QUEUED", "RUNNING"}
      BY <1>12, <2>2, ReportedStep DEF Reported, Reporting, AfterReport, ReportOf
    <3>2. \A i \in Jobs \ {worker[w].job} : Executing(i) => Executing(i)'
      BY <1>12, ReportedStep
    <3> QED
      BY <1>12, <3>1, <3>2, ReportedStep
  <2> QED
    BY <2>1, <2>2
<1>13. ASSUME NEW w \in Workers, BodyReports(w) PROVE NoJobLeftBehind'
  BY <1>13 DEF BodyReports, Advance
<1>14. ASSUME NEW w \in Workers, BodyEnds(w) PROVE NoJobLeftBehind'
  <2>1. \A i \in Jobs : Executing(i) => Executing(i)'
    BY <1>14, BodyEndsStep
  <2> QED
    BY <1>14, <2>1, BodyEndsStep
<1>15. ASSUME NEW w \in Workers, Ack(w) PROVE NoJobLeftBehind'
  <2>1. \A i \in Jobs : Executing(i) => Executing(i)'
    BY <1>15 DEF Ack
  <2>2. \A i \in Jobs : message[i] = "queued" => message'[i] = "queued"
    BY <1>15 DEF Ack, OneWorkerPerMessage
  <2> QED
    BY <1>15, <2>1, <2>2 DEF Ack
<1>16. ASSUME NEW w \in Workers, ReportLost(w) PROVE NoJobLeftBehind'
  <2>1. /\ worker[w].job \in Jobs
        /\ worker'[w].pc = "ack" => worker[w].job \in unsettled'
    BY <1>16, AttemptCounted, TriesAssumption DEF ReportLost, Reporting, WorkersHoldJobs
  <2>2. worker'[w].pc # "idle"
    BY <1>16, AttemptCounted DEF ReportLost, AfterReport, Reporting
  <2>3. \A i \in Jobs : Executing(i) => Executing(i)' \/ i \in unsettled'
    BY <1>16, <2>1, <2>2, AttemptCounted DEF ReportLost
  <2> QED
    BY <1>16, <2>3 DEF ReportLost
<1>17. ASSUME NEW w \in Workers, ReportTimesOut(w) PROVE NoJobLeftBehind'
  <2>1. /\ worker[w].job \in Jobs
        /\ worker'[w].pc = "ack" => worker[w].job \in unsettled'
    BY <1>17, AttemptCounted, TriesAssumption DEF ReportTimesOut, Reporting, WorkersHoldJobs
  <2>2. worker'[w].pc # "idle"
    BY <1>17, AttemptCounted DEF ReportTimesOut, AfterReport, Reporting
  <2>3. \A i \in Jobs : Executing(i) => Executing(i)' \/ i \in unsettled'
    BY <1>17, <2>1, <2>2, AttemptCounted DEF ReportTimesOut
  <2> QED
    BY <1>17, <2>3 DEF ReportTimesOut
<1>18. ASSUME NEW w \in Workers, WorkerLost(w) PROVE NoJobLeftBehind'
  <2>1. worker[w].job \in Jobs
    BY <1>18 DEF WorkerLost, WorkerDies, WorkersHoldJobs
  <2>2. message'[worker[w].job] = "queued" \/ worker[w].job \in unsettled'
    BY <1>18, <2>1 DEF WorkerLost, WorkerDies
  <2>3. \A i \in Jobs \ {worker[w].job} : Executing(i) => Executing(i)'
    BY <1>18 DEF WorkerLost, WorkerDies
  <2>4. \A i \in Jobs : /\ message[i] = "queued" => message'[i] = "queued"
                       /\ i \in unsettled => i \in unsettled'
    BY <1>18 DEF WorkerLost, WorkerDies
  <2> QED
    BY <1>18, <2>2, <2>3, <2>4 DEF WorkerLost, WorkerDies
<1>19. ASSUME NEW w \in Workers, TakenBack(w) PROVE NoJobLeftBehind'
  <2>1. \A i \in Jobs : Executing(i) => Executing(i)'
    BY <1>19 DEF TakenBack
  <2> QED
    BY <1>19, <2>1 DEF TakenBack
<1>20. ASSUME NEW j \in Jobs, NEW s \in Status, LateReportLands(j, s)
      PROVE NoJobLeftBehind'
  BY <1>20, LandedRow DEF LateReportLands, LateReportsAreTrue
<1>21. CASE UNCHANGED vars
  BY <1>21 DEF vars
<1> QED
  BY <1>1, <1>2, <1>3, <1>4, <1>5, <1>6, <1>7, <1>8, <1>9, <1>10,
     <1>11, <1>12, <1>13, <1>14, <1>15, <1>16, <1>17, <1>18, <1>19, <1>20,
     <1>21
  DEF Next, HandlerStep, WorkerStep, WorkerFault

\* Writes of SUCCEEDED and CANCELED stamp the row.
LEMMA StepsKeepStamps ==
    ASSUME QueueInv, Base', TerminalRowsAreStamped, [Next]_vars
    PROVE  TerminalRowsAreStamped'
<1> USE DEF QueueInv, Base, TypeOK, TerminalRowsAreStamped, Terminal
<1>1. ASSUME NEW h \in Handlers, NEW p \in Payloads, NEW k \in BOOLEAN, EnqueueFind(h, p, k)
      PROVE TerminalRowsAreStamped'
  BY <1>1 DEF EnqueueFind
<1>2. ASSUME NEW h \in Handlers, NEW j \in Jobs, CreateRow(h, j)
      PROVE TerminalRowsAreStamped'
  BY <1>2 DEF CreateRow
<1>3. ASSUME NEW h \in Handlers, NEW j \in Jobs, CancelLoad(h, j)
      PROVE TerminalRowsAreStamped'
  BY <1>3 DEF CancelLoad
<1>4. ASSUME NEW h \in Handlers, NEW j \in Jobs, RetryLoad(h, j)
      PROVE TerminalRowsAreStamped'
  BY <1>4 DEF RetryLoad
<1>5. ASSUME NEW h \in Handlers, Publish(h) PROVE TerminalRowsAreStamped'
  BY <1>5 DEF Publish, Finish
<1>6. ASSUME NEW h \in Handlers, PublishThrows(h) PROVE TerminalRowsAreStamped'
  BY <1>6 DEF PublishThrows, MoveTo
<1>7. ASSUME NEW h \in Handlers, MarkFailed(h) PROVE TerminalRowsAreStamped'
  BY <1>7 DEF MarkFailed, Finish
<1>8. ASSUME NEW h \in Handlers, CancelWrite(h) PROVE TerminalRowsAreStamped'
  BY <1>8 DEF CancelWrite, Finish
<1>9. ASSUME NEW h \in Handlers, RetryMark(h) PROVE TerminalRowsAreStamped'
  BY <1>9 DEF RetryMark
<1>10. ASSUME NEW h \in Handlers, HandlerFails(h) PROVE TerminalRowsAreStamped'
  BY <1>10 DEF HandlerFails, Finish
<1>11. ASSUME NEW w \in Workers, NEW j \in Jobs, Deliver(w, j)
      PROVE TerminalRowsAreStamped'
  BY <1>11 DEF Deliver
<1>12. ASSUME NEW w \in Workers, Reported(w) PROVE TerminalRowsAreStamped'
  BY <1>12, ReportedStep
<1>13. ASSUME NEW w \in Workers, BodyReports(w) PROVE TerminalRowsAreStamped'
  BY <1>13 DEF BodyReports, Advance
<1>14. ASSUME NEW w \in Workers, BodyEnds(w) PROVE TerminalRowsAreStamped'
  BY <1>14 DEF BodyEnds, Advance
<1>15. ASSUME NEW w \in Workers, Ack(w) PROVE TerminalRowsAreStamped'
  BY <1>15 DEF Ack
<1>16. ASSUME NEW w \in Workers, ReportLost(w) PROVE TerminalRowsAreStamped'
  BY <1>16 DEF ReportLost, AttemptFails, Advance
<1>17. ASSUME NEW w \in Workers, ReportTimesOut(w) PROVE TerminalRowsAreStamped'
  BY <1>17 DEF ReportTimesOut, AttemptFails, Advance
<1>18. ASSUME NEW w \in Workers, WorkerLost(w) PROVE TerminalRowsAreStamped'
  BY <1>18 DEF WorkerLost, WorkerDies
<1>19. ASSUME NEW w \in Workers, TakenBack(w) PROVE TerminalRowsAreStamped'
  BY <1>19 DEF TakenBack
<1>20. ASSUME NEW j \in Jobs, NEW s \in Status, LateReportLands(j, s)
      PROVE TerminalRowsAreStamped'
  BY <1>20, LandedRow DEF LateReportLands, LateReportsAreTrue
<1>21. CASE UNCHANGED vars
  BY <1>21 DEF vars
<1> QED
  BY <1>1, <1>2, <1>3, <1>4, <1>5, <1>6, <1>7, <1>8, <1>9, <1>10,
     <1>11, <1>12, <1>13, <1>14, <1>15, <1>16, <1>17, <1>18, <1>19, <1>20,
     <1>21
  DEF Next, HandlerStep, WorkerStep, WorkerFault

\* Only CreateRow adds a key, and the unique index guards it.
LEMMA StepsKeepKeys ==
    ASSUME ReportInv, Base', KeyedRowsDiffer, [Next]_vars
    PROVE  KeyedRowsDiffer'
<1> USE DEF ReportInv, QueueInv, Base, TypeOK, KeyedRowsDiffer, Exists
<1>1. ASSUME NEW h \in Handlers, NEW p \in Payloads, NEW k \in BOOLEAN, EnqueueFind(h, p, k)
      PROVE KeyedRowsDiffer'
  BY <1>1 DEF EnqueueFind
<1>2. ASSUME NEW h \in Handlers, NEW j \in Jobs, CreateRow(h, j) PROVE KeyedRowsDiffer'
  <2>1. /\ row'[j].payload = handler[h].payload
        /\ row'[j].keyed = handler[h].keyed
        /\ \A i \in Jobs \ {j} : row'[i] = row[i]
    BY <1>2 DEF CreateRow, NoRow
  <2>2. handler[h].keyed => \A i \in Jobs : ~ HasKey(i, handler[h].payload)
    BY <1>2 DEF CreateRow
  <2> QED
    BY <2>1, <2>2 DEF HasKey
<1>3. ASSUME NEW h \in Handlers, NEW j \in Jobs, CancelLoad(h, j) PROVE KeyedRowsDiffer'
  BY <1>3 DEF CancelLoad
<1>4. ASSUME NEW h \in Handlers, NEW j \in Jobs, RetryLoad(h, j) PROVE KeyedRowsDiffer'
  BY <1>4 DEF RetryLoad
<1>5. ASSUME NEW h \in Handlers, Publish(h) PROVE KeyedRowsDiffer'
  BY <1>5 DEF Publish, Finish
<1>6. ASSUME NEW h \in Handlers, PublishThrows(h) PROVE KeyedRowsDiffer'
  BY <1>6 DEF PublishThrows, MoveTo
<1>7. ASSUME NEW h \in Handlers, MarkFailed(h) PROVE KeyedRowsDiffer'
  <2>1. handler[h].job \in Jobs /\ Exists(handler[h].job)
    BY <1>7 DEF MarkFailed, HandlersHoldRows, HoldingPc
  <2>2. \A i \in Jobs : /\ row'[i].payload = row[i].payload
                       /\ row'[i].keyed = row[i].keyed
    BY <1>7, <2>1 DEF MarkFailed, Row
  <2>3. \A i \in Jobs : Exists(i)' => Exists(i)
    BY <1>7, <2>1 DEF MarkFailed, Row
  <2> QED
    BY <2>2, <2>3
<1>8. ASSUME NEW h \in Handlers, CancelWrite(h) PROVE KeyedRowsDiffer'
  <2>1. handler[h].job \in Jobs /\ Exists(handler[h].job)
    BY <1>8 DEF CancelWrite, HandlersHoldRows, HoldingPc
  <2>2. \A i \in Jobs : /\ row'[i].payload = row[i].payload
                       /\ row'[i].keyed = row[i].keyed
    BY <1>8, <2>1 DEF CancelWrite, Row
  <2>3. \A i \in Jobs : Exists(i)' => Exists(i)
    BY <1>8, <2>1 DEF CancelWrite, Row
  <2> QED
    BY <2>2, <2>3
<1>9. ASSUME NEW h \in Handlers, RetryMark(h) PROVE KeyedRowsDiffer'
  <2>1. handler[h].job \in Jobs /\ Exists(handler[h].job)
    BY <1>9 DEF RetryMark, HandlersHoldRows, HoldingPc
  <2>2. \A i \in Jobs : /\ row'[i].payload = row[i].payload
                       /\ row'[i].keyed = row[i].keyed
    BY <1>9, <2>1 DEF RetryMark, Row
  <2>3. \A i \in Jobs : Exists(i)' => Exists(i)
    BY <1>9, <2>1 DEF RetryMark, Row
  <2> QED
    BY <2>2, <2>3
<1>10. ASSUME NEW h \in Handlers, HandlerFails(h) PROVE KeyedRowsDiffer'
  BY <1>10 DEF HandlerFails, Finish
<1>11. ASSUME NEW w \in Workers, NEW j \in Jobs, Deliver(w, j) PROVE KeyedRowsDiffer'
  BY <1>11 DEF Deliver
<1>12. ASSUME NEW w \in Workers, Reported(w) PROVE KeyedRowsDiffer'
  <2>1. Exists(worker[w].job)
    BY <1>12 DEF Reported, Reporting, ExecutedArePublished, MessagesHaveRows, WorkersHoldJobs
  <2> QED
    BY <1>12, <2>1, ReportedStep
<1>13. ASSUME NEW w \in Workers, BodyReports(w) PROVE KeyedRowsDiffer'
  BY <1>13 DEF BodyReports, Advance
<1>14. ASSUME NEW w \in Workers, BodyEnds(w) PROVE KeyedRowsDiffer'
  BY <1>14 DEF BodyEnds, Advance
<1>15. ASSUME NEW w \in Workers, Ack(w) PROVE KeyedRowsDiffer'
  BY <1>15 DEF Ack
<1>16. ASSUME NEW w \in Workers, ReportLost(w) PROVE KeyedRowsDiffer'
  BY <1>16 DEF ReportLost, AttemptFails, Advance
<1>17. ASSUME NEW w \in Workers, ReportTimesOut(w) PROVE KeyedRowsDiffer'
  BY <1>17 DEF ReportTimesOut, AttemptFails, Advance
<1>18. ASSUME NEW w \in Workers, WorkerLost(w) PROVE KeyedRowsDiffer'
  BY <1>18 DEF WorkerLost, WorkerDies
<1>19. ASSUME NEW w \in Workers, TakenBack(w) PROVE KeyedRowsDiffer'
  BY <1>19 DEF TakenBack
<1>20. ASSUME NEW j \in Jobs, NEW s \in Status, LateReportLands(j, s)
      PROVE KeyedRowsDiffer'
  <2>1. Exists(j)
    BY <1>20 DEF LateReportLands, LateReportsAreTrue, MessagesHaveRows
  <2> QED
    BY <1>20, <2>1, LandedRow DEF LateReportLands
<1>21. CASE UNCHANGED vars
  BY <1>21 DEF vars
<1> QED
  BY <1>1, <1>2, <1>3, <1>4, <1>5, <1>6, <1>7, <1>8, <1>9, <1>10,
     <1>11, <1>12, <1>13, <1>14, <1>15, <1>16, <1>17, <1>18, <1>19, <1>20,
     <1>21
  DEF Next, HandlerStep, WorkerStep, WorkerFault

-----------------------------------------------------------------------------
(* The inductive invariant and the theorems.                               *)

LEMMA InitSafe == Init => Safety
<1> SUFFICES ASSUME Init PROVE Safety
  OBVIOUS
<1>1. TypeOK
  <2>1. NoRow \in [status: Status \union {"NONE"}, payload: Payloads \union {NoPayload},
                   keyed: BOOLEAN, attempts: 0..MaxRetries, started: BOOLEAN,
                   finished: BOOLEAN]
    <3>1. 0 \in 0..MaxRetries
      BY BoundsAssumption
    <3> QED
      BY <3>1 DEF NoRow
  <2>2. IdleHandler \in Handler
    BY DEF IdleHandler, Handler
  <2>3. 0 \in 0..MaxCrashes
    BY BoundsAssumption
  <2> QED
    BY <2>1, <2>2, <2>3, WorkerIdles DEF Init, TypeOK, Row
<1>2. HandlersHoldRows /\ WorkersHoldJobs
  BY DEF Init, HandlersHoldRows, HoldingPc, WorkersHoldJobs, IdleHandler, IdleWorker
<1>3. MessagesHaveRows /\ PublishersAlone /\ OneWorkerPerMessage /\ ExecutedArePublished
  BY DEF Init, MessagesHaveRows, PublishersAlone, OneWorkerPerMessage, ExecutedArePublished,
         IdleHandler, IdleWorker
<1>4. LateReportsAreTrue /\ SuccessIsReturned
  BY DEF Init, LateReportsAreTrue, SuccessIsReturned, IdleWorker
<1>5. RowNeverAheadOfWorkers /\ NoJobLeftBehind /\ TerminalRowsAreStamped /\ KeyedRowsDiffer
  BY DEF Init, RowNeverAheadOfWorkers, NoJobLeftBehind, TerminalRowsAreStamped,
         KeyedRowsDiffer, Exists, NoRow
<1> QED
  BY <1>1, <1>2, <1>3, <1>4, <1>5 DEF Safety, SettleInv, ReportInv, QueueInv, Base

LEMMA StepsKeepSafety == Safety /\ [Next]_vars => Safety'
<1> SUFFICES ASSUME Safety, [Next]_vars PROVE Safety'
  OBVIOUS
<1> USE DEF Safety, SettleInv, ReportInv, QueueInv
<1>1. Base'
  <2>1. TypeOK'
    BY StepsKeepTypes
  <2> QED
    BY <2>1, StepsKeepHandlers, StepsKeepWorkers DEF Base
<1>2. MessagesHaveRows' /\ PublishersAlone' /\ OneWorkerPerMessage' /\ ExecutedArePublished'
  BY <1>1, StepsKeepMessages, StepsKeepPublishers, StepsKeepReservations, StepsKeepExecuted
<1>3. LateReportsAreTrue' /\ SuccessIsReturned' /\ RowNeverAheadOfWorkers'
  BY <1>1, StepsKeepLateReports, StepsKeepReturns, StepsKeepRowsBehind
<1>4. NoJobLeftBehind'
  BY <1>1, StepsKeepRowsInMotion
<1>5. TerminalRowsAreStamped' /\ KeyedRowsDiffer'
  BY <1>1, StepsKeepStamps, StepsKeepKeys
<1> QED
  BY <1>1, <1>2, <1>3, <1>4, <1>5

LEMMA AlwaysSafe == Spec => []Safety
  BY InitSafe, StepsKeepSafety, PTL DEF Spec

\* Every state of the job system is well typed.
THEOREM TypeCorrect == Spec => []TypeOK
<1>1. Safety => TypeOK
  BY DEF Safety, SettleInv, ReportInv, QueueInv, Base
<1> QED
  BY <1>1, AlwaysSafe, PTL

\* Whatever fails, a row that says QUEUED or RUNNING has someone to move it or
\* is known to have been given up.
THEOREM NobodyLeftBehind == Spec => []NoJobLeftBehind
<1>1. Safety => NoJobLeftBehind
  BY DEF Safety, SettleInv
<1> QED
  BY <1>1, AlwaysSafe, PTL

\* Whatever fails, no row says RUNNING of an unpublished job or SUCCEEDED of a
\* task that never returned.
THEOREM RowsAreTruthful == Spec => []RowNeverAheadOfWorkers
<1>1. Safety => RowNeverAheadOfWorkers
  BY DEF Safety, SettleInv, ReportInv
<1> QED
  BY <1>1, AlwaysSafe, PTL

\* Whatever fails, of the workers that execute a message at most one holds it,
\* and every other one had it taken back while it ran; where the broker takes
\* nothing back, no message is executed twice at once, or executed and waiting.
THEOREM Reservation == Spec => []OneWorkerPerMessage
<1>1. Safety => OneWorkerPerMessage
  BY DEF Safety, SettleInv, ReportInv, QueueInv
<1> QED
  BY <1>1, AlwaysSafe, PTL

\* Concurrent requests with one key get one row between them.
THEOREM KeyIsUnique == Spec => []OneJobPerKey
<1>1. Safety => OneJobPerKey
  BY DEF Safety, KeyedRowsDiffer, OneJobPerKey, HasKey
<1> QED
  BY <1>1, AlwaysSafe, PTL

\* SUCCEEDED and CANCELED never stand without finishedAt.
THEOREM StampsStand == Spec => []TerminalRowsAreStamped
<1>1. Safety => TerminalRowsAreStamped
  BY DEF Safety
<1> QED
  BY <1>1, AlwaysSafe, PTL

-----------------------------------------------------------------------------
(* JobLifecycle implements JobDelivery.                                    *)

\* The end of a body is counted before it is reported.
LEMMA StepsKeepEnds ==
    ASSUME QueueInv, Base', EndsAreCounted, [Next]_vars
    PROVE  EndsAreCounted'
<1> USE DEF QueueInv, Base, TypeOK, EndsAreCounted
<1>1. ASSUME NEW h \in Handlers, NEW p \in Payloads, NEW k \in BOOLEAN, EnqueueFind(h, p, k)
      PROVE EndsAreCounted'
  BY <1>1 DEF EnqueueFind
<1>2. ASSUME NEW h \in Handlers, NEW j \in Jobs, CreateRow(h, j) PROVE EndsAreCounted'
  BY <1>2 DEF CreateRow
<1>3. ASSUME NEW h \in Handlers, NEW j \in Jobs, CancelLoad(h, j) PROVE EndsAreCounted'
  BY <1>3 DEF CancelLoad
<1>4. ASSUME NEW h \in Handlers, NEW j \in Jobs, RetryLoad(h, j) PROVE EndsAreCounted'
  BY <1>4 DEF RetryLoad
<1>5. ASSUME NEW h \in Handlers, Publish(h) PROVE EndsAreCounted'
  BY <1>5 DEF Publish, Finish
<1>6. ASSUME NEW h \in Handlers, PublishThrows(h) PROVE EndsAreCounted'
  BY <1>6 DEF PublishThrows, MoveTo
<1>7. ASSUME NEW h \in Handlers, MarkFailed(h) PROVE EndsAreCounted'
  BY <1>7 DEF MarkFailed, Finish
<1>8. ASSUME NEW h \in Handlers, CancelWrite(h) PROVE EndsAreCounted'
  BY <1>8 DEF CancelWrite, Finish
<1>9. ASSUME NEW h \in Handlers, RetryMark(h) PROVE EndsAreCounted'
  BY <1>9 DEF RetryMark
<1>10. ASSUME NEW h \in Handlers, HandlerFails(h) PROVE EndsAreCounted'
  BY <1>10 DEF HandlerFails, Finish
<1>11. ASSUME NEW w \in Workers, NEW j \in Jobs, Deliver(w, j) PROVE EndsAreCounted'
  <2>1. \A v \in Workers \ {w} : worker'[v] = worker[v]
    BY <1>11 DEF Deliver
  <2>2. worker'[w].pc = "ack" => worker'[w].job = j /\ outcomes'[j] # {}
    <3>1. CASE row[j].payload \in Unbindable
      <4>1. worker'[w].job = j /\ outcomes'[j] = outcomes[j] \union {"refused"}
        BY <1>11, <3>1 DEF Deliver, Delivered
      <4> QED
        BY <4>1
    <3>2. CASE row[j].payload \notin Unbindable
      <4>1. worker'[w].pc = "start"
        BY <1>11, <3>2 DEF Deliver, Delivered
      <4> QED
        BY <4>1
    <3> QED
      BY <3>1, <3>2
  <2>3. worker'[w].pc \in {"start", "ack"}
    BY <1>11 DEF Deliver, Delivered
  <2>4. \A i \in Jobs : outcomes[i] \subseteq outcomes'[i]
    BY <1>11 DEF Deliver
  <2>5. \A i \in Jobs : message'[i] = "acked" => message[i] = "acked"
    BY <1>11 DEF Deliver
  <2> QED
    BY <2>1, <2>2, <2>3, <2>4, <2>5 DEF WorkersHoldJobs
<1>12. ASSUME NEW w \in Workers, Reported(w) PROVE EndsAreCounted'
  <2>1. worker'[w].pc \in {"body", "ack"}
    BY <1>12, ReportedStep DEF AfterReport
  <2>2. worker'[w].pc = "ack" => worker[w].pc \in {"succeed", "fail"}
    BY <1>12, ReportedStep DEF AfterReport, Reported, Reporting
  <2>3. UNCHANGED <<message, outcomes>> /\ worker'[w].job = worker[w].job
    BY <1>12, ReportedStep
  <2>4. \A v \in Workers \ {w} : worker'[v] = worker[v]
    BY <1>12, ReportedStep
  <2> QED
    BY <2>1, <2>2, <2>3, <2>4
<1>13. ASSUME NEW w \in Workers, BodyReports(w) PROVE EndsAreCounted'
  BY <1>13 DEF BodyReports, Advance, Worker
<1>14. ASSUME NEW w \in Workers, BodyEnds(w) PROVE EndsAreCounted'
  <2>1. outcomes'[worker[w].job] # {}
    BY <1>14 DEF BodyEnds, WorkersHoldJobs
  <2>2. \A v \in Workers : worker[v].pc # "idle" => worker[v].job \in Jobs
    BY DEF WorkersHoldJobs
  <2>3. /\ worker'[w].job = worker[w].job /\ UNCHANGED message
        /\ \A j \in Jobs : outcomes[j] \subseteq outcomes'[j]
        /\ \A v \in Workers \ {w} : worker'[v] = worker[v]
    BY <1>14, BodyEndsStep
  <2>4. worker[w].job \in Jobs
    BY <1>14, BodyEndsStep
  <2>5. \A j \in Jobs : message'[j] = "acked" => outcomes'[j] # {}
    BY <2>3
  <2>6. ASSUME NEW v \in Workers, worker'[v].pc \in {"succeed", "fail", "ack"}
        PROVE  outcomes'[worker'[v].job] # {}
    <3>1. CASE v = w
      BY <2>1, <2>3, <3>1
    <3>2. CASE v # w
      <4>1. worker'[v] = worker[v]
        BY <2>3, <3>2
      <4>2. worker[v].job \in Jobs /\ outcomes[worker[v].job] # {}
        BY <2>2, <2>6, <4>1
      <4> QED
        BY <2>3, <4>1, <4>2
    <3> QED
      BY <3>1, <3>2
  <2> QED
    BY ONLY <2>5, <2>6 DEF EndsAreCounted
<1>15. ASSUME NEW w \in Workers, Ack(w) PROVE EndsAreCounted'
  <2>1. worker[w].job \in Jobs /\ outcomes[worker[w].job] # {}
    BY <1>15 DEF Ack, WorkersHoldJobs
  <2> QED
    BY <1>15, <2>1 DEF Ack, IdleWorker
<1>16. ASSUME NEW w \in Workers, ReportLost(w) PROVE EndsAreCounted'
  <2>1. worker'[w].pc \in {"succeed", "fail", "ack"} => worker[w].pc \in {"succeed", "fail"}
    BY <1>16, AttemptCounted DEF ReportLost, AfterReport, Reporting
  <2>2. UNCHANGED <<outcomes, message>>
    BY <1>16 DEF ReportLost
  <2>3. worker'[w].job = worker[w].job /\ \A v \in Workers \ {w} : worker'[v] = worker[v]
    BY <1>16, AttemptCounted DEF ReportLost
  <2> QED
    BY <2>1, <2>2, <2>3
<1>17. ASSUME NEW w \in Workers, ReportTimesOut(w) PROVE EndsAreCounted'
  <2>1. worker'[w].pc \in {"succeed", "fail", "ack"} => worker[w].pc \in {"succeed", "fail"}
    BY <1>17, AttemptCounted DEF ReportTimesOut, AfterReport, Reporting
  <2>2. UNCHANGED <<outcomes, message>>
    BY <1>17 DEF ReportTimesOut
  <2>3. worker'[w].job = worker[w].job /\ \A v \in Workers \ {w} : worker'[v] = worker[v]
    BY <1>17, AttemptCounted DEF ReportTimesOut
  <2> QED
    BY <2>1, <2>2, <2>3
<1>18. ASSUME NEW w \in Workers, WorkerLost(w) PROVE EndsAreCounted'
  BY <1>18 DEF WorkerLost, WorkerDies, IdleWorker
<1>19. ASSUME NEW w \in Workers, TakenBack(w) PROVE EndsAreCounted'
  BY <1>19 DEF TakenBack, Worker
<1>20. ASSUME NEW j \in Jobs, NEW s \in Status, LateReportLands(j, s)
      PROVE EndsAreCounted'
  BY <1>20 DEF LateReportLands, Landed
<1>21. CASE UNCHANGED vars
  BY <1>21 DEF vars
<1> QED
  BY <1>1, <1>2, <1>3, <1>4, <1>5, <1>6, <1>7, <1>8, <1>9, <1>10,
     <1>11, <1>12, <1>13, <1>14, <1>15, <1>16, <1>17, <1>18, <1>19, <1>20,
     <1>21
  DEF Next, HandlerStep, WorkerStep, WorkerFault

\* Each step offers, runs or settles one job, or changes none of this.
LEMMA StepsAreDeliveries ==
    ASSUME QueueInv, EndsAreCounted, [Next]_vars
    PROVE  Delivery!Next \/ UNCHANGED Delivery!vars
<1> USE DEF QueueInv, Base, TypeOK
<1>1. ASSUME NEW h \in Handlers, NEW p \in Payloads, NEW k \in BOOLEAN, EnqueueFind(h, p, k)
      PROVE Delivery!Next \/ UNCHANGED Delivery!vars
  <2>1. UNCHANGED <<message, outcomes>>
    BY <1>1 DEF EnqueueFind
  <2> QED
    BY <2>1 DEF Delivery!Next, Delivery!Offer, Delivery!RunToEnd, Delivery!Settle, Delivery!vars
<1>2. ASSUME NEW h \in Handlers, NEW j \in Jobs, CreateRow(h, j)
      PROVE Delivery!Next \/ UNCHANGED Delivery!vars
  <2>1. UNCHANGED <<message, outcomes>>
    BY <1>2 DEF CreateRow
  <2> QED
    BY <2>1 DEF Delivery!Next, Delivery!Offer, Delivery!RunToEnd, Delivery!Settle, Delivery!vars
<1>3. ASSUME NEW h \in Handlers, NEW j \in Jobs, CancelLoad(h, j)
      PROVE Delivery!Next \/ UNCHANGED Delivery!vars
  <2>1. UNCHANGED <<message, outcomes>>
    BY <1>3 DEF CancelLoad
  <2> QED
    BY <2>1 DEF Delivery!Next, Delivery!Offer, Delivery!RunToEnd, Delivery!Settle, Delivery!vars
<1>4. ASSUME NEW h \in Handlers, NEW j \in Jobs, RetryLoad(h, j)
      PROVE Delivery!Next \/ UNCHANGED Delivery!vars
  <2>1. UNCHANGED <<message, outcomes>>
    BY <1>4 DEF RetryLoad
  <2> QED
    BY <2>1 DEF Delivery!Next, Delivery!Offer, Delivery!RunToEnd, Delivery!Settle, Delivery!vars
<1>5. ASSUME NEW h \in Handlers, Publish(h)
      PROVE Delivery!Next \/ UNCHANGED Delivery!vars
  <2>1. PICK j \in Jobs : j = handler[h].job /\ message[j] = "none"
    BY <1>5 DEF Publish, HandlersHoldRows, HoldingPc, PublishersAlone
  <2>2. CASE UNCHANGED message
    BY <1>5, <2>2 DEF Publish, Delivery!vars
  <2>3. CASE message' = [message EXCEPT ![handler[h].job] = "queued"]
    <3>1. Delivery!Offer(j)
      BY <1>5, <2>1, <2>3 DEF Publish, Delivery!Offer
    <3> QED
      BY <3>1 DEF Delivery!Next
  <2> QED
    BY <1>5, <2>2, <2>3 DEF Publish
<1>6. ASSUME NEW h \in Handlers, PublishThrows(h)
      PROVE Delivery!Next \/ UNCHANGED Delivery!vars
  <2>1. PICK j \in Jobs : j = handler[h].job /\ message[j] = "none"
    BY <1>6 DEF PublishThrows, HandlersHoldRows, HoldingPc, PublishersAlone
  <2>2. CASE UNCHANGED message
    BY <1>6, <2>2 DEF PublishThrows, Delivery!vars
  <2>3. CASE message' = [message EXCEPT ![handler[h].job] = "queued"]
    <3>1. Delivery!Offer(j)
      BY <1>6, <2>1, <2>3 DEF PublishThrows, Delivery!Offer
    <3> QED
      BY <3>1 DEF Delivery!Next
  <2> QED
    BY <1>6, <2>2, <2>3 DEF PublishThrows
<1>7. ASSUME NEW h \in Handlers, MarkFailed(h)
      PROVE Delivery!Next \/ UNCHANGED Delivery!vars
  <2>1. UNCHANGED <<message, outcomes>>
    BY <1>7 DEF MarkFailed
  <2> QED
    BY <2>1 DEF Delivery!Next, Delivery!Offer, Delivery!RunToEnd, Delivery!Settle, Delivery!vars
<1>8. ASSUME NEW h \in Handlers, CancelWrite(h)
      PROVE Delivery!Next \/ UNCHANGED Delivery!vars
  <2>1. UNCHANGED <<message, outcomes>>
    BY <1>8 DEF CancelWrite
  <2> QED
    BY <2>1 DEF Delivery!Next, Delivery!Offer, Delivery!RunToEnd, Delivery!Settle, Delivery!vars
<1>9. ASSUME NEW h \in Handlers, RetryMark(h)
      PROVE Delivery!Next \/ UNCHANGED Delivery!vars
  <2>1. UNCHANGED <<message, outcomes>>
    BY <1>9 DEF RetryMark
  <2> QED
    BY <2>1 DEF Delivery!Next, Delivery!Offer, Delivery!RunToEnd, Delivery!Settle, Delivery!vars
<1>10. ASSUME NEW h \in Handlers, HandlerFails(h)
      PROVE Delivery!Next \/ UNCHANGED Delivery!vars
  <2>1. UNCHANGED <<message, outcomes>>
    BY <1>10 DEF HandlerFails
  <2> QED
    BY <2>1 DEF Delivery!Next, Delivery!Offer, Delivery!RunToEnd, Delivery!Settle, Delivery!vars
<1>11. ASSUME NEW w \in Workers, NEW j \in Jobs, Deliver(w, j)
      PROVE Delivery!Next \/ UNCHANGED Delivery!vars
  <2>1. CASE row[j].payload \in Unbindable
    <3>1. Delivery!RunToEnd(j)
      BY <1>11, <2>1 DEF Deliver, Delivery!RunToEnd
    <3> QED
      BY <3>1 DEF Delivery!Next
  <2>2. CASE row[j].payload \notin Unbindable
    BY <1>11, <2>2 DEF Deliver, Delivery!vars
  <2> QED
    BY <2>1, <2>2
<1>12. ASSUME NEW w \in Workers, Reported(w)
      PROVE Delivery!Next \/ UNCHANGED Delivery!vars
  <2>1. UNCHANGED <<message, outcomes>>
    BY <1>12 DEF Reported
  <2> QED
    BY <2>1 DEF Delivery!Next, Delivery!Offer, Delivery!RunToEnd, Delivery!Settle, Delivery!vars
<1>13. ASSUME NEW w \in Workers, BodyReports(w)
      PROVE Delivery!Next \/ UNCHANGED Delivery!vars
  <2>1. UNCHANGED <<message, outcomes>>
    BY <1>13 DEF BodyReports
  <2> QED
    BY <2>1 DEF Delivery!Next, Delivery!Offer, Delivery!RunToEnd, Delivery!Settle, Delivery!vars
<1>14. ASSUME NEW w \in Workers, BodyEnds(w)
      PROVE Delivery!Next \/ UNCHANGED Delivery!vars
  <2>1. PICK j \in Jobs : j = worker[w].job /\ message[j] # "none"
    BY <1>14 DEF BodyEnds, WorkersHoldJobs, ExecutedArePublished
  <2>2. \E how : outcomes' = [outcomes EXCEPT ![worker[w].job] = @ \union {how}]
    BY <1>14 DEF BodyEnds
  <2>3. UNCHANGED message
    BY <1>14 DEF BodyEnds
  <2>4. CASE message[j] = "acked"
    <3>1. outcomes[j] # {}
      BY <2>4 DEF EndsAreCounted
    <3> QED
      BY <2>1, <2>2, <2>3, <3>1 DEF Delivery!vars
  <2>5. CASE message[j] # "acked"
    <3>1. Delivery!RunToEnd(j)
      BY <2>1, <2>2, <2>3, <2>5 DEF Delivery!RunToEnd
    <3> QED
      BY <3>1 DEF Delivery!Next
  <2> QED
    BY <2>4, <2>5
<1>15. ASSUME NEW w \in Workers, Ack(w) PROVE Delivery!Next \/ UNCHANGED Delivery!vars
  <2>1. PICK j \in Jobs : j = worker[w].job
    BY <1>15 DEF Ack, WorkersHoldJobs
  <2>2. outcomes[j] # {}
    BY <1>15, <2>1 DEF Ack, EndsAreCounted
  <2>3. CASE worker[w].holds
    <3>1. message[j] = "delivered"
      BY <1>15, <2>1, <2>3 DEF Ack, OneWorkerPerMessage
    <3>2. Delivery!Settle(j)
      BY <1>15, <2>1, <2>2, <2>3, <3>1 DEF Ack, Delivery!Settle
    <3> QED
      BY <3>2 DEF Delivery!Next
  <2>4. CASE ~ worker[w].holds
    BY <1>15, <2>4 DEF Ack, Delivery!vars
  <2> QED
    BY <2>3, <2>4
<1>16. ASSUME NEW w \in Workers, ReportLost(w)
      PROVE Delivery!Next \/ UNCHANGED Delivery!vars
  <2>1. UNCHANGED <<message, outcomes>>
    BY <1>16 DEF ReportLost
  <2> QED
    BY <2>1 DEF Delivery!Next, Delivery!Offer, Delivery!RunToEnd, Delivery!Settle, Delivery!vars
<1>17. ASSUME NEW w \in Workers, ReportTimesOut(w)
      PROVE Delivery!Next \/ UNCHANGED Delivery!vars
  <2>1. UNCHANGED <<message, outcomes>>
    BY <1>17 DEF ReportTimesOut
  <2> QED
    BY <2>1 DEF Delivery!Next, Delivery!Offer, Delivery!RunToEnd, Delivery!Settle, Delivery!vars
<1>18. ASSUME NEW w \in Workers, WorkerLost(w)
      PROVE Delivery!Next \/ UNCHANGED Delivery!vars
  <2>1. /\ worker[w].job \in Jobs
        /\ worker[w].holds => message[worker[w].job] = "delivered"
    BY <1>18 DEF WorkerLost, WorkerDies, WorkersHoldJobs, OneWorkerPerMessage
  <2> QED
    BY <1>18, <2>1 DEF WorkerLost, WorkerDies, Delivery!vars
<1>19. ASSUME NEW w \in Workers, TakenBack(w)
      PROVE Delivery!Next \/ UNCHANGED Delivery!vars
  <2>1. worker[w].job \in Jobs /\ message[worker[w].job] = "delivered"
    BY <1>19 DEF TakenBack, WorkersHoldJobs, OneWorkerPerMessage
  <2> QED
    BY <1>19, <2>1 DEF TakenBack, Delivery!vars
<1>20. ASSUME NEW j \in Jobs, NEW s \in Status, LateReportLands(j, s)
      PROVE Delivery!Next \/ UNCHANGED Delivery!vars
  <2>1. UNCHANGED <<message, outcomes>>
    BY <1>20 DEF LateReportLands
  <2> QED
    BY <2>1 DEF Delivery!Next, Delivery!Offer, Delivery!RunToEnd, Delivery!Settle, Delivery!vars
<1>21. CASE UNCHANGED vars
  BY <1>21 DEF vars, Delivery!vars
<1> QED
  BY <1>1, <1>2, <1>3, <1>4, <1>5, <1>6, <1>7, <1>8, <1>9, <1>10,
     <1>11, <1>12, <1>13, <1>14, <1>15, <1>16, <1>17, <1>18, <1>19, <1>20,
     <1>21
  DEF Next, HandlerStep, WorkerStep, WorkerFault

\* The job queue is at-least-once delivery, lost workers and repeated
\* executions included.
THEOREM ImplementsDelivery == Spec => DeliverySafe
<1>1. Init => EndsAreCounted /\ Delivery!Init
  BY DEF Init, EndsAreCounted, IdleWorker, Delivery!Init
<1>2. Safety => QueueInv
  BY DEF Safety, SettleInv, ReportInv
<1>3. Safety /\ Safety' /\ EndsAreCounted /\ [Next]_vars => EndsAreCounted'
  BY <1>2, StepsKeepEnds DEF QueueInv, Safety, SettleInv, ReportInv
<1>4. Safety /\ EndsAreCounted /\ [Next]_vars => [Delivery!Next]_(Delivery!vars)
  BY <1>2, StepsAreDeliveries
<1> QED
  BY <1>1, <1>3, <1>4, AlwaysSafe, PTL DEF Spec, Delivery!Spec, DeliverySafe

-----------------------------------------------------------------------------
(* Without late reports, lost workers and messages taken back, success is  *)
(* final.                                                                  *)

\* Where the broker takes nothing back, a message has one worker.
LEMMA AloneInOrder ==
    ASSUME InOrder, QueueInv, NEW w \in Workers, worker[w].pc # "idle",
           NEW v \in Workers \ {w}
    PROVE  worker[v].job # worker[w].job
<1>1. CASE worker[v].pc = "idle"
  BY <1>1, NoJobAssumption DEF QueueInv, Base, WorkersHoldJobs
<1>2. CASE worker[v].pc # "idle"
  BY <1>2 DEF QueueInv, OneWorkerPerMessage, InOrder
<1> QED
  BY <1>1, <1>2

\* Where reports arrive in order, nothing is left to report after success.
LEMMA StepsKeepSuccess ==
    ASSUME InOrder, QueueInv, Base', SuccessIsLast, [Next]_vars
    PROVE  SuccessIsLast'
<1> USE DEF QueueInv, Base, TypeOK, SuccessIsLast
<1>1. ASSUME NEW h \in Handlers, NEW p \in Payloads, NEW k \in BOOLEAN, EnqueueFind(h, p, k)
      PROVE SuccessIsLast'
  BY <1>1 DEF EnqueueFind
<1>2. ASSUME NEW h \in Handlers, NEW j \in Jobs, CreateRow(h, j) PROVE SuccessIsLast'
  <2>1. row'[j].status = "QUEUED" /\ \A i \in Jobs \ {j} : row'[i] = row[i]
    BY <1>2 DEF CreateRow, NoRow
  <2> QED
    BY <1>2, <2>1 DEF CreateRow
<1>3. ASSUME NEW h \in Handlers, NEW j \in Jobs, CancelLoad(h, j) PROVE SuccessIsLast'
  BY <1>3 DEF CancelLoad
<1>4. ASSUME NEW h \in Handlers, NEW j \in Jobs, RetryLoad(h, j) PROVE SuccessIsLast'
  BY <1>4 DEF RetryLoad
<1>5. ASSUME NEW h \in Handlers, Publish(h) PROVE SuccessIsLast'
  <2>1. message[handler[h].job] = "none"
    BY <1>5 DEF Publish, PublishersAlone
  <2> QED
    BY <1>5, <2>1 DEF Publish
<1>6. ASSUME NEW h \in Handlers, PublishThrows(h) PROVE SuccessIsLast'
  <2>1. message[handler[h].job] = "none"
    BY <1>6 DEF PublishThrows, PublishersAlone
  <2> QED
    BY <1>6, <2>1 DEF PublishThrows
<1>7. ASSUME NEW h \in Handlers, MarkFailed(h) PROVE SuccessIsLast'
  BY <1>7 DEF MarkFailed, Finish
<1>8. ASSUME NEW h \in Handlers, CancelWrite(h) PROVE SuccessIsLast'
  BY <1>8 DEF CancelWrite, Finish
<1>9. ASSUME NEW h \in Handlers, RetryMark(h) PROVE SuccessIsLast'
  BY <1>9 DEF RetryMark
<1>10. ASSUME NEW h \in Handlers, HandlerFails(h) PROVE SuccessIsLast'
  BY <1>10 DEF HandlerFails, Finish
<1>11. ASSUME NEW w \in Workers, NEW j \in Jobs, Deliver(w, j) PROVE SuccessIsLast'
  <2>1. worker'[w].job = j /\ \A v \in Workers \ {w} : worker'[v] = worker[v]
    BY <1>11 DEF Deliver, Delivered
  <2>2. row[j].status # "SUCCEEDED"
    BY <1>11 DEF Deliver
  <2> QED
    BY <1>11, <2>1, <2>2 DEF Deliver
<1>12. ASSUME NEW w \in Workers, Reported(w) PROVE SuccessIsLast'
  <2>1. message[worker[w].job] = "delivered"
    BY <1>12 DEF Reported, Reporting, OneWorkerPerMessage, InOrder
  <2>2. \A v \in Workers \ {w} : worker[v].job # worker[w].job
    BY <1>12, AloneInOrder DEF Reported, Reporting
  <2>3. worker[w].pc # "succeed" => ReportOf(worker[w].pc) # "SUCCEEDED"
    BY DEF ReportOf
  <2>4. worker[w].pc = "succeed" => AfterReport(worker[w].pc) = "ack"
    BY DEF AfterReport
  <2>5. worker[w].pc # "ack"
    BY <1>12 DEF Reported, Reporting
  <2> QED
    BY <1>12, <2>1, <2>2, <2>3, <2>4, <2>5, ReportedStep
<1>13. ASSUME NEW w \in Workers, BodyReports(w) PROVE SuccessIsLast'
  BY <1>13 DEF BodyReports, Advance, Worker
<1>14. ASSUME NEW w \in Workers, BodyEnds(w) PROVE SuccessIsLast'
  BY <1>14, BodyEndsStep
<1>15. ASSUME NEW w \in Workers, Ack(w) PROVE SuccessIsLast'
  <2>1. \A v \in Workers \ {w} : worker[v].job # worker[w].job
    BY <1>15, AloneInOrder DEF Ack
  <2> QED
    BY <1>15, <2>1, NoJobAssumption DEF Ack, IdleWorker
<1>16. ASSUME NEW w \in Workers, ReportLost(w) PROVE SuccessIsLast'
  BY <1>16, AttemptCounted DEF ReportLost, Reporting
<1>17. ASSUME NEW w \in Workers, ReportTimesOut(w) PROVE SuccessIsLast'
  BY <1>17 DEF ReportTimesOut, InOrder
<1>18. ASSUME NEW w \in Workers, WorkerLost(w) PROVE SuccessIsLast'
  BY <1>18 DEF WorkerLost, WorkerDies, InOrder
<1>19. ASSUME NEW w \in Workers, TakenBack(w) PROVE SuccessIsLast'
  BY <1>19 DEF TakenBack, InOrder
<1>20. ASSUME NEW j \in Jobs, NEW s \in Status, LateReportLands(j, s)
      PROVE SuccessIsLast'
  BY <1>20 DEF LateReportLands
<1>21. CASE UNCHANGED vars
  BY <1>21 DEF vars
<1> QED
  BY <1>1, <1>2, <1>3, <1>4, <1>5, <1>6, <1>7, <1>8, <1>9, <1>10,
     <1>11, <1>12, <1>13, <1>14, <1>15, <1>16, <1>17, <1>18, <1>19, <1>20,
     <1>21
  DEF Next, HandlerStep, WorkerStep, WorkerFault

\* No step but a report of a worker still at work writes RUNNING.
LEMMA SuccessStands ==
    ASSUME QueueInv, SuccessIsLast, NEW i \in Jobs, row[i].status = "SUCCEEDED", [Next]_vars
    PROVE  row'[i].status # "RUNNING"
<1> USE DEF QueueInv, Base, TypeOK, SuccessIsLast
<1>1. ASSUME NEW h \in Handlers, NEW p \in Payloads, NEW k \in BOOLEAN, EnqueueFind(h, p, k)
      PROVE row'[i].status # "RUNNING"
  BY <1>1 DEF EnqueueFind
<1>2. ASSUME NEW h \in Handlers, NEW j \in Jobs, CreateRow(h, j)
      PROVE row'[i].status # "RUNNING"
  BY <1>2 DEF CreateRow, Exists, NoRow
<1>3. ASSUME NEW h \in Handlers, NEW j \in Jobs, CancelLoad(h, j)
      PROVE row'[i].status # "RUNNING"
  BY <1>3 DEF CancelLoad
<1>4. ASSUME NEW h \in Handlers, NEW j \in Jobs, RetryLoad(h, j)
      PROVE row'[i].status # "RUNNING"
  BY <1>4 DEF RetryLoad
<1>5. ASSUME NEW h \in Handlers, Publish(h) PROVE row'[i].status # "RUNNING"
  BY <1>5 DEF Publish, Finish
<1>6. ASSUME NEW h \in Handlers, PublishThrows(h) PROVE row'[i].status # "RUNNING"
  BY <1>6 DEF PublishThrows, MoveTo
<1>7. ASSUME NEW h \in Handlers, MarkFailed(h) PROVE row'[i].status # "RUNNING"
  BY <1>7 DEF MarkFailed, Finish
<1>8. ASSUME NEW h \in Handlers, CancelWrite(h) PROVE row'[i].status # "RUNNING"
  BY <1>8 DEF CancelWrite, Finish
<1>9. ASSUME NEW h \in Handlers, RetryMark(h) PROVE row'[i].status # "RUNNING"
  BY <1>9 DEF RetryMark
<1>10. ASSUME NEW h \in Handlers, HandlerFails(h) PROVE row'[i].status # "RUNNING"
  BY <1>10 DEF HandlerFails, Finish
<1>11. ASSUME NEW w \in Workers, NEW j \in Jobs, Deliver(w, j)
      PROVE row'[i].status # "RUNNING"
  BY <1>11 DEF Deliver
<1>12. ASSUME NEW w \in Workers, Reported(w) PROVE row'[i].status # "RUNNING"
  <2>1. worker[w].job # i
    BY <1>12 DEF Reported, Reporting
  <2> QED
    BY <1>12, <2>1, ReportedStep
<1>13. ASSUME NEW w \in Workers, BodyReports(w) PROVE row'[i].status # "RUNNING"
  BY <1>13 DEF BodyReports, Advance
<1>14. ASSUME NEW w \in Workers, BodyEnds(w) PROVE row'[i].status # "RUNNING"
  BY <1>14 DEF BodyEnds, Advance
<1>15. ASSUME NEW w \in Workers, Ack(w) PROVE row'[i].status # "RUNNING"
  BY <1>15 DEF Ack
<1>16. ASSUME NEW w \in Workers, ReportLost(w) PROVE row'[i].status # "RUNNING"
  BY <1>16 DEF ReportLost, AttemptFails, Advance
<1>17. ASSUME NEW w \in Workers, ReportTimesOut(w) PROVE row'[i].status # "RUNNING"
  BY <1>17 DEF ReportTimesOut, AttemptFails, Advance
<1>18. ASSUME NEW w \in Workers, WorkerLost(w) PROVE row'[i].status # "RUNNING"
  BY <1>18 DEF WorkerLost, WorkerDies
<1>19. ASSUME NEW w \in Workers, TakenBack(w) PROVE row'[i].status # "RUNNING"
  BY <1>19 DEF TakenBack
<1>20. ASSUME NEW j \in Jobs, NEW s \in Status, LateReportLands(j, s)
      PROVE row'[i].status # "RUNNING"
  BY <1>20 DEF LateReportLands, Landed
<1>21. CASE UNCHANGED vars
  BY <1>21 DEF vars
<1> QED
  BY <1>1, <1>2, <1>3, <1>4, <1>5, <1>6, <1>7, <1>8, <1>9, <1>10,
     <1>11, <1>12, <1>13, <1>14, <1>15, <1>16, <1>17, <1>18, <1>19, <1>20,
     <1>21
  DEF Next, HandlerStep, WorkerStep, WorkerFault

\* Where no worker is lost, no message taken back and no report late, a row that
\* says SUCCEEDED never goes back to RUNNING.
THEOREM SuccessIsFinal == InOrder => (Spec => SucceededNeverReopens)
<1> SUFFICES ASSUME InOrder PROVE Spec => SucceededNeverReopens
  OBVIOUS
<1>1. Init => SuccessIsLast
  BY DEF Init, SuccessIsLast, NoRow
<1>2. Safety => QueueInv
  BY DEF Safety, SettleInv, ReportInv
<1>3. Safety /\ Safety' /\ SuccessIsLast /\ [Next]_vars => SuccessIsLast'
  BY <1>2, StepsKeepSuccess DEF QueueInv, Safety, SettleInv, ReportInv
<1>4. Safety /\ SuccessIsLast /\ [Next]_vars =>
        [\A j \in Jobs : row[j].status = "SUCCEEDED" => row'[j].status # "RUNNING"]_vars
  BY <1>2, SuccessStands
<1> QED
  BY <1>1, <1>3, <1>4, AlwaysSafe, PTL DEF Spec, SucceededNeverReopens
=============================================================================
