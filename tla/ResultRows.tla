----------------------------- MODULE ResultRows -----------------------------
(***************************************************************************)
(* The rows that hold what a job makes (Transcript, Voiceover, Export,     *)
(* PublishJob, Asset, Voice): created by the request, which enqueues a job *)
(* and then writes the row once more, and completed by the callback the    *)
(* job's task posts to /internal.  The AiJob itself, its reports and the   *)
(* broker are module JobLifecycle; here a run is one job with its message. *)
(*                                                                         *)
(* The rows differ by kind in what they are keyed by, in that trailing     *)
(* write and in how the worker treats a callback that fails; status names  *)
(* are shared: waiting (QUEUED, PENDING_UPLOAD), working (RUNNING,         *)
(* RENDERING, PUBLISHING, PROCESSING, TRAINING, UPLOADED), done            *)
(* (COMPLETED, PUBLISHED, READY) and failed.                               *)
(***************************************************************************)
EXTENDS Naturals, FiniteSets

CONSTANTS
    MaxResults,   \* bound: result rows
    MaxRuns,      \* bound: jobs
    CallTries,    \* attempts of a callback sent by api_client.py
    MaxMishaps    \* bound: broker errors, lost workers and timed-out callbacks

ASSUME ResultBoundsAssumption == MaxResults \in Nat /\ MaxRuns \in Nat
ASSUME CallTriesAssumption == CallTries \in Nat \ {0}
ASSUME MishapsAssumption == MaxMishaps \in Nat

Results == 1..MaxResults
Runs == 1..MaxRuns
NoResult == 0
NoRun == 0

VARIABLES
    result,     \* the result rows, each with the request that creates it
    run,        \* jobs: the row they were enqueued for, and where they are
    lateCalls,  \* callbacks the worker gave up waiting for, inside the API
    told,       \* notifications sent (for an export: also exportsCount)
    excused,    \* history: rows that may stay as they are for a reason
    executions, \* history: times the task of an announced row was carried out
    mishaps     \* history: faults so far

resVars == <<result, run, lateCalls, told, excused, executions, mishaps>>

ResultKinds == {"transcript", "voiceover", "export", "publish", "import", "upload", "clone"}

\* The key hashes the content; an export's holds its own id, the others have none.
KeyedByContent == {"transcript", "voiceover"}
\* enqueue is followed by an update of the row's status.
WrittenAfterwards == {"transcript", "voiceover", "export", "publish"}
\* The callback goes through api_client.py and its failure fails the task.
MustReport == {"voiceover", "import"}
\* The done handler notifies the user.
Announced == {"export", "publish"}
\* vrs.transcribe takes no transcript_id: the call is refused.
Refusing == {"transcript"}

\* Mutant: every callback is sent by the retrying client.
AttemptsAlways(task, kind) == CallTries

Attempts(task, kind) == IF task = "poster" \/ kind \in MustReport THEN CallTries ELSE 1

NoResultRow == [kind |-> "none", status |-> "absent", file |-> FALSE, poster |-> FALSE,
                at |-> "none", run |-> NoRun]
NoJobRun == [of |-> NoResult, task |-> "none", at |-> "none", status |-> "none",
             tries |-> 0, verdict |-> "none"]

ResultRow == [kind: ResultKinds \union {"none"},
              status: {"absent", "waiting", "working", "done", "failed"},
              file: BOOLEAN, poster: BOOLEAN,
              at: {"none", "enqueue", "trailing", "returned", "threw"},
              run: Runs \union {NoRun}]
JobRun == [of: Results \union {NoResult},
           task: {"none", "make", "poster", "publishAsExport"},
           at: {"none", "queued", "body", "callback", "report", "settled"},
           status: {"none", "QUEUED", "RUNNING", "RETRYING", "SUCCEEDED", "FAILED"},
           tries: 0..CallTries, verdict: {"none", "done", "failed"}]
ResultCall == Results \X {"make", "poster"} \X {"done", "failed"}

ResTypeOK ==
    /\ result \in [Results -> ResultRow]
    /\ run \in [Runs -> JobRun]
    /\ lateCalls \subseteq ResultCall
    /\ told \in [Results -> Nat] /\ executions \in [Results -> Nat]
    /\ excused \subseteq Results
    /\ mishaps \in 0..MaxMishaps

ResInit ==
    /\ result = [r \in Results |-> NoResultRow]
    /\ run = [j \in Runs |-> NoJobRun]
    /\ lateCalls = {}
    /\ told = [r \in Results |-> 0]
    /\ excused = {}
    /\ executions = [r \in Results |-> 0]
    /\ mishaps = 0

Excuse(r) == excused' = excused \union {r}
\* Ids are taken in the order of creation.
NextResult(r) == result[r].at = "none" /\ \A q \in Results : q < r => result[q].at # "none"
NextRun(j) == run[j].at = "none" /\ \A i \in Runs : i < j => run[i].at # "none"
Mishap == mishaps < MaxMishaps /\ mishaps' = mishaps + 1

-----------------------------------------------------------------------------
(* Requests.                                                               *)

\* The row a publication is of: an export that is COMPLETED with its file.
Publishable == \E e \in Results : result[e].kind = "export" /\ result[e].status = "done"

Created(r, kind, status, at) ==
    /\ NextResult(r)
    /\ result' = [result EXCEPT ![r] =
           [NoResultRow EXCEPT !.kind = kind, !.status = status, !.at = at]]
    /\ UNCHANGED <<run, lateCalls, told, excused, executions, mishaps>>

\* The media requests reserve (module UsageQuota) before they create their row.
RequestTranscription(r) == Created(r, "transcript", "waiting", "enqueue")
RequestVoiceover(r) == Created(r, "voiceover", "waiting", "enqueue")
RequestExport(r) == Created(r, "export", "waiting", "enqueue")
RequestPublish(r) == Publishable /\ Created(r, "publish", "waiting", "enqueue")
ImportFromUrl(r) == Created(r, "import", "working", "enqueue")
CloneVoice(r) == Created(r, "clone", "working", "enqueue")
InitUpload(r) == Created(r, "upload", "waiting", "returned")

CreateResult(r) ==
    \/ RequestTranscription(r) \/ RequestVoiceover(r) \/ RequestExport(r) \/ RequestPublish(r)
    \/ ImportFromUrl(r) \/ CloneVoice(r) \/ InitUpload(r)

AfterEnqueue(kind) == IF kind \in WrittenAfterwards THEN "trailing" ELSE "returned"

\* An equal request has enqueued before: its job is returned as it stands,
\* and nothing will ever run for this row.
EnqueueReuses(r, j) ==
    /\ result[r].at = "enqueue"
    /\ result[r].kind \in KeyedByContent
    /\ run[j].task = "make" /\ run[j].of # r
    /\ result[run[j].of].kind = result[r].kind /\ result[run[j].of].run = j
    /\ result' = [result EXCEPT ![r].at = "trailing"]
    /\ Excuse(r)
    /\ UNCHANGED <<run, lateCalls, told, executions, mishaps>>

\* The job by its key; nothing looks for the job of a row whose kind has none.
KeptRun(kind, j) == IF kind \in KeyedByContent THEN j ELSE NoRun

FirstOfItsKind(r) == ~ \E j \in Runs :
    /\ run[j].task = "make"
    /\ result[run[j].of].kind = result[r].kind
    /\ result[run[j].of].run = j

\* enqueue publishes, or the broker throws and the job is marked FAILED.
EnqueueCreates(r, j) ==
    LET kind == result[r].kind
        job == [NoJobRun EXCEPT !.of = r, !.task = "make"]
    IN
    /\ result[r].at = "enqueue"
    /\ kind \in KeyedByContent => FirstOfItsKind(r)
    /\ NextRun(j)
    /\ \/ /\ run' = [run EXCEPT ![j] = [job EXCEPT !.at = "queued", !.status = "QUEUED"]]
          /\ result' = [result EXCEPT ![r].run = KeptRun(kind, j), ![r].at = AfterEnqueue(kind)]
          /\ UNCHANGED <<excused, mishaps>>
       \/ /\ Mishap
          /\ run' = [run EXCEPT ![j] = [job EXCEPT !.at = "settled", !.status = "FAILED"]]
          /\ result' = [result EXCEPT ![r].run = KeptRun(kind, j), ![r].at = "threw"]
          /\ Excuse(r)
    /\ UNCHANGED <<lateCalls, told, executions>>

\* The last write of the request, without a condition on what the row became.
WriteAfterwards(r) ==
    /\ result[r].at = "trailing"
    /\ result' = [result EXCEPT ![r].status = "working", ![r].at = "returned"]
    /\ IF result[r].status \in {"done", "failed"} THEN Excuse(r) ELSE UNCHANGED excused
    /\ UNCHANGED <<run, lateCalls, told, executions, mishaps>>

PosterRun(r) == [NoJobRun EXCEPT !.of = r, !.task = "poster", !.at = "queued", !.status = "QUEUED"]

\* An uploaded video never becomes READY, so every completion enqueues again.
CompleteUpload(r, j) ==
    /\ result[r].kind = "upload"
    /\ NextRun(j)
    /\ result' = [result EXCEPT ![r].status = "working"]
    /\ \/ run' = [run EXCEPT ![j] = PosterRun(r)] /\ UNCHANGED <<excused, mishaps>>
       \/ /\ Mishap
          /\ run' = [run EXCEPT ![j] = [PosterRun(r) EXCEPT !.at = "settled", !.status = "FAILED"]]
          /\ Excuse(r)
    /\ UNCHANGED <<lateCalls, told, executions>>

RetriedTask(i) ==
    IF run[i].task = "make" /\ result[run[i].of].kind = "publish" THEN "publishAsExport"
    ELSE run[i].task
RetryQueued(i, j) ==
    [run EXCEPT ![i].status = "RETRYING",
                ![j] = [NoJobRun EXCEPT !.of = run[i].of, !.task = RetriedTask(i),
                                        !.at = "queued", !.status = "QUEUED"]]

\* Mutant: a retry also puts its row back to the start.
RetryResetsRow(i, j) ==
    /\ run[i].status \notin {"none", "SUCCEEDED"}
    /\ NextRun(j)
    /\ run' = RetryQueued(i, j)
    /\ result' = [result EXCEPT ![run[i].of].status = "waiting"]
    /\ UNCHANGED <<lateCalls, told, excused, executions, mishaps>>

\* POST /jobs/:id/retry: whatever is not SUCCEEDED runs again as a new job of
\* the task of its kind; a publication's kind is EXPORT_RENDER.
RetryRun(i, j) ==
    /\ run[i].status \notin {"none", "SUCCEEDED"}
    /\ NextRun(j)
    /\ run' = RetryQueued(i, j)
    /\ UNCHANGED <<result, lateCalls, told, excused, executions, mishaps>>

-----------------------------------------------------------------------------
(* Workers.                                                                *)

\* The callback is behind the worker, or has to be made again from the start.
Past(j, pc) == [run[j] EXCEPT !.at = pc, !.tries = 0]
Spend(j, pc) == run' = [run EXCEPT ![j] = Past(j, pc)]
Settled(j, status) == [Past(j, "settled") EXCEPT !.status = status, !.verdict = "none"]
FailRun(j) == run' = [run EXCEPT ![j] = Settled(j, "FAILED")]

StartRun(j) ==
    LET refused == \/ run[j].task = "publishAsExport"
                   \/ run[j].task = "make" /\ result[run[j].of].kind \in Refusing
    IN
    /\ run[j].at = "queued"
    /\ IF refused
       THEN Spend(j, "settled") /\ Excuse(run[j].of)
       ELSE /\ run' = [run EXCEPT ![j].at = "body", ![j].status = "RUNNING"]
            /\ UNCHANGED excused
    /\ UNCHANGED <<result, lateCalls, told, executions, mishaps>>

ToCallback(j, verdict) ==
    /\ run' = [run EXCEPT ![j].at = "callback", ![j].tries = 0, ![j].verdict = verdict]
    /\ executions' = [executions EXCEPT ![run[j].of] = 
           @ + (IF run[j].task = "make" /\ result[run[j].of].kind \in Announced THEN 1 ELSE 0)]

\* Mutant: the task leaves the row to the API, which reads only the report.
MakesWithoutTelling(j) ==
    /\ run[j].at = "body"
    /\ run' = [run EXCEPT ![j].at = "report", ![j].verdict = "done"]
    /\ UNCHANGED <<result, lateCalls, told, excused, executions, mishaps>>

Makes(j) ==
    /\ run[j].at = "body"
    /\ ToCallback(j, "done")
    /\ UNCHANGED <<result, lateCalls, told, excused, mishaps>>

\* The body raises: a publication tells its row before the job fails, the
\* others tell only the job.
BodyRaises(j) ==
    /\ run[j].at = "body"
    /\ IF run[j].task = "make" /\ result[run[j].of].kind = "publish"
       THEN ToCallback(j, "failed") /\ UNCHANGED excused
       ELSE /\ FailRun(j)
            /\ Excuse(run[j].of)
            /\ UNCHANGED executions
    /\ UNCHANGED <<result, lateCalls, told, mishaps>>

Call(j) == <<run[j].of, run[j].task, run[j].verdict>>

Concluded(r, status) ==
    [result EXCEPT ![r].file = (status = "done"), ![r].status = status]
Tells(r) == told' = [told EXCEPT ![r] = @ + 1]

(* The callbacks of internal.routes.ts: the row, the user, and the jobs when *)
(* they are `runs` but for what the handler enqueues.                        *)

\* Best effort in the worker, and its own column.
ThumbnailMade(r, runs) ==
    /\ result' = [result EXCEPT ![r].poster = TRUE]
    /\ run' = runs
    /\ UNCHANGED told

\* The video an import brought gets its poster made when it has none; that
\* the broker refuses this job is left out.
AssetDone(r, runs) ==
    /\ result' = Concluded(r, "done")
    /\ IF result[r].poster THEN run' = runs
       ELSE \E i \in Runs : NextRun(i) /\ run' = [runs EXCEPT ![i] = PosterRun(r)]
    /\ UNCHANGED told

\* The voice, like the voiceover, tells nobody.
VoiceoverDone(r, runs) == result' = Concluded(r, "done") /\ run' = runs /\ UNCHANGED told
VoiceTrained(r, runs) == result' = Concluded(r, "done") /\ run' = runs /\ UNCHANGED told

\* Nobody posts the failure of an export; told counts exportsCount as well.
ExportDone(r, runs) == result' = Concluded(r, "done") /\ run' = runs /\ Tells(r)

\* The answer of the platform, whatever the row said before.
PublishDone(r, verdict, runs) == result' = Concluded(r, verdict) /\ run' = runs /\ Tells(r)

RecordResult(call, runs) ==
    LET r == call[1]
        kind == result[r].kind
    IN \/ call[2] = "poster" /\ ThumbnailMade(r, runs)
       \/ /\ call[2] = "make"
          /\ CASE kind = "import"    -> AssetDone(r, runs)
               [] kind = "voiceover" -> VoiceoverDone(r, runs)
               [] kind = "clone"     -> VoiceTrained(r, runs)
               [] kind = "export"    -> ExportDone(r, runs)
               [] kind = "publish"   -> PublishDone(r, call[3], runs)

Calls(j) ==
    /\ run[j].at = "callback"
    /\ RecordResult(Call(j), [run EXCEPT ![j] = Past(j, "report")])
    /\ UNCHANGED <<lateCalls, excused, executions, mishaps>>

\* The call timed out, before it reached the API or inside it.  When its
\* attempts are used up it fails the task or is passed over.
CallTimesOut(j) ==
    LET r == run[j].of
        required == run[j].task = "make" /\ result[r].kind \in MustReport
    IN
    /\ run[j].at = "callback"
    /\ Mishap
    /\ lateCalls' \in {lateCalls, lateCalls \union {Call(j)}}
    /\ IF run[j].tries + 1 < Attempts(run[j].task, result[r].kind)
       THEN run' = [run EXCEPT ![j].tries = @ + 1] /\ UNCHANGED excused
       ELSE IF required
       THEN FailRun(j) /\ Excuse(r)
       ELSE Spend(j, "report") /\ Excuse(r)
    /\ UNCHANGED <<result, told, executions>>

LateCallLands ==
    \E call \in lateCalls :
        /\ lateCalls' = lateCalls \ {call}
        /\ RecordResult(call, run)
        /\ UNCHANGED <<excused, executions, mishaps>>

ReportsOutcome(j) ==
    /\ run[j].at = "report"
    /\ run' = [run EXCEPT ![j] =
           Settled(j, IF run[j].verdict = "done" THEN "SUCCEEDED" ELSE "FAILED")]
    /\ UNCHANGED <<result, lateCalls, told, excused, executions, mishaps>>

\* Late acknowledgement: the message of a lost worker is delivered again.
WorkerDies(j) ==
    /\ run[j].at \in {"body", "callback", "report"}
    /\ Mishap
    /\ run' = [run EXCEPT ![j] = [Past(j, "queued") EXCEPT !.verdict = "none"]]
    /\ lateCalls' \in {lateCalls} \union
           (IF run[j].at = "callback" THEN {lateCalls \union {Call(j)}} ELSE {})
    /\ UNCHANGED <<result, told, excused, executions>>

-----------------------------------------------------------------------------
ResNext ==
    \/ \E r \in Results :
          \/ CreateResult(r)
          \/ WriteAfterwards(r)
          \/ \E j \in Runs : EnqueueReuses(r, j) \/ EnqueueCreates(r, j) \/ CompleteUpload(r, j)
    \/ \E i, j \in Runs : RetryRun(i, j)
    \/ \E j \in Runs :
          \/ StartRun(j) \/ Makes(j) \/ BodyRaises(j)
          \/ Calls(j) \/ CallTimesOut(j) \/ ReportsOutcome(j) \/ WorkerDies(j)
    \/ LateCallLands

ResSpec == ResInit /\ [][ResNext]_resVars

-----------------------------------------------------------------------------
Alive(r) == \/ \E j \in Runs : run[j].of = r /\ run[j].at \notin {"none", "settled"}
            \/ \E call \in lateCalls : call[1] = r

\* A row whose request has returned and for which nothing runs any more holds
\* its outcome, unless one of six things happened to it: an equal request's
\* job was returned to it, its task was refused or failed, its callback was
\* passed over, the request's last write came after the callback, or the
\* broker refused its job.
\* (generation.service.ts, the *_done callbacks of the workers)
StuckRowsHaveCause ==
    \A r \in Results :
        (result[r].at = "returned" /\ result[r].status # "waiting" /\ ~ Alive(r))
            => \/ result[r].status \in {"done", "failed"}
               \/ result[r].kind = "upload" /\ result[r].poster
               \/ r \in excused

\* Once the request has returned, no late callback, second run, retry or
\* poster takes a completed row back; only a publication that runs again and
\* fails does, which forgets the video that is out.
\* (internal.routes.ts: every done handler; publish.py:36)
DoneStaysDone ==
    [][\A r \in Results :
          (result[r].status = "done" /\ result'[r].status # "done")
              => \/ result[r].at = "trailing"
                 \/ result[r].kind = "publish" /\ result'[r].status = "failed"]_resVars

\* However calls are delayed and runs repeated, the user is not told of a row
\* (and an export is not counted) more often than its task was carried out.
\* (internal.routes.ts:377, :383; export_render.py:206)
NoticePerExecution ==
    \A r \in {q \in Results : result[q].kind \in Announced} :
        told[r] + Cardinality({call \in lateCalls : call[1] = r /\ call[2] = "make"}) <= executions[r]
=============================================================================
