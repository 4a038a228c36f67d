----------------------------- MODULE JobStream ------------------------------
(***************************************************************************)
(* The way of a job's progress from the worker to the strip of the editor: *)
(* Redis publish/subscribe (progress.py), the socket of one project        *)
(* (ws.routes.ts) and the client that reconnects and keeps the store's     *)
(* activeJobs (job-stream.ts).  An event is the number and the status of a *)
(* publication of its job; a job whose worker was lost runs again and      *)
(* publishes again after its outcome.                                      *)
(***************************************************************************)
EXTENDS Naturals, Sequences, SequencesExt

CONSTANTS
    StreamJobs,   \* jobs of the project
    MaxPublished, \* bound: events of a job
    MaxLosses     \* bound: publications and connections lost, pages left, requests made

ASSUME StreamAssumption == MaxPublished \in Nat /\ MaxLosses \in Nat

Statuses == {"RUNNING", "SUCCEEDED"}
NoNews == [n |-> 0, status |-> "none"]
Queued == [n |-> 0, status |-> "QUEUED"]
Event == [n: 1..MaxPublished, status: Statuses]

VARIABLES
    last,      \* the last event of each job
    conn,      \* the socket: "open", "broken" (a reconnect is due) or "left"
    known,     \* jobsOnThisProject of the connection
    looking,   \* events whose job is being looked up
    wire,      \* messages sent and not yet received
    strip,     \* activeJobs, which outlives the page
    timers,    \* cleanupTimers
    losses,    \* what MaxLosses bounds, so far
    lagging    \* history: jobs the strip has a reason to lag behind, see MayLag

streamVars == <<last, conn, known, looking, wire, strip, timers, losses, lagging>>

StreamTypeOK ==
    /\ last \in [StreamJobs -> Event \union {NoNews}]
    /\ conn \in {"open", "broken", "left"}
    /\ known \subseteq StreamJobs
    /\ looking \subseteq StreamJobs \X Event
    /\ wire \in Seq(StreamJobs \X Event)
    /\ strip \in [StreamJobs -> Event \union {NoNews, Queued}]
    /\ timers \subseteq StreamJobs \X Event
    /\ losses \in 0..MaxLosses
    /\ lagging \subseteq StreamJobs

StreamInit ==
    /\ last = [j \in StreamJobs |-> NoNews]
    /\ conn = "broken"
    /\ known = {} /\ looking = {} /\ wire = << >>
    /\ strip = [j \in StreamJobs |-> NoNews]
    /\ timers = {}
    /\ losses = 0
    /\ lagging = {}

Concluding(e) == e.status = "SUCCEEDED"
Loses == losses < MaxLosses /\ losses' = losses + 1

\* Four things leave the strip behind until a later event of the job is shown:
\* an event that did not get through, two lookups of the job at once, the timer
\* of an earlier outcome, and the page's own late "queued".
MayLag(jobs) == lagging' = lagging \union jobs

OnTheWay(j) == \E m \in looking \union Range(wire) : m[1] = j

-----------------------------------------------------------------------------
(* ws.routes.ts: a job the socket does not know yet is looked up, without  *)
(* holding back the events that follow.                                    *)

Forward(j, e) ==
    IF j \in known
    THEN wire' = Append(wire, <<j, e>>) /\ UNCHANGED <<looking, lagging>>
    ELSE /\ looking' = looking \union {<<j, e>>}
         /\ MayLag(IF \E m \in looking : m[1] = j THEN {j} ELSE {})
         /\ UNCHANGED wire

\* progress.publish swallows its errors; without a subscriber nobody hears it.
Publish(j, status) ==
    LET e == [n |-> last[j].n + 1, status |-> status] IN
    /\ last[j].n < MaxPublished
    /\ status = "SUCCEEDED" => last[j].status = "RUNNING"
    /\ last' = [last EXCEPT ![j] = e]
    /\ \/ conn = "open" /\ Forward(j, e) /\ UNCHANGED losses
       \/ /\ IF conn = "open" THEN Loses ELSE UNCHANGED losses
          /\ MayLag({j})
          /\ UNCHANGED <<looking, wire>>
    /\ UNCHANGED <<conn, known, strip, timers>>

LookedUp(j, e) ==
    /\ <<j, e>> \in looking
    /\ looking' = looking \ {<<j, e>>}
    /\ known' = known \union {j}
    /\ wire' = Append(wire, <<j, e>>)
    /\ UNCHANGED <<last, conn, strip, timers, losses, lagging>>

\* The server subscribes and reads the jobs at work; a row may still say
\* RUNNING of a job whose outcome is published.
Connect ==
    /\ conn = "broken"
    /\ conn' = "open"
    /\ \E S \in SUBSET StreamJobs :
          /\ {j \in StreamJobs : last[j].status = "RUNNING"} \subseteq S
          /\ known' = S
    /\ UNCHANGED <<last, looking, wire, strip, timers, losses, lagging>>

-----------------------------------------------------------------------------
(* job-stream.ts: connectJobStream.                                        *)

\* What was on its way is lost; nothing is read again afterwards.
Dropped ==
    /\ looking' = {} /\ wire' = << >> /\ known' = {}
    /\ MayLag({j \in StreamJobs : OnTheWay(j)})

Disconnect ==
    /\ conn = "open" /\ Loses
    /\ conn' = "broken"
    /\ Dropped
    /\ UNCHANGED <<last, strip, timers>>

\* setJob. The latest event makes up for what went wrong before, unless an
\* older one still follows it.
Shows(j, e) ==
    /\ strip' = [strip EXCEPT ![j] = e]
    /\ lagging' = IF e = last[j] /\ ~ \E m \in looking \union Range(Tail(wire)) : m[1] = j
                  THEN lagging \ {j} ELSE lagging

TimerOf(j, e) == timers \union {<<j, e>>}

\* Mutant: every event starts a timer.
StartsAnyway(j, e) == TimerOf(j, e)

Starts(j, e) == IF Concluding(e) THEN TimerOf(j, e) ELSE timers

\* onmessage: setJob, and for an outcome the timer of six seconds.
Receive(j, e) ==
    /\ conn = "open" /\ wire # << >> /\ Head(wire) = <<j, e>>
    /\ wire' = Tail(wire)
    /\ Shows(j, e)
    /\ timers' = Starts(j, e)
    /\ UNCHANGED <<last, conn, known, looking, losses>>

\* clearJob, whatever the strip shows by now.
TimerFires(j, e) ==
    /\ <<j, e>> \in timers
    /\ timers' = timers \ {<<j, e>>}
    /\ strip' = [strip EXCEPT ![j] = NoNews]
    /\ MayLag(IF strip[j] = e THEN {} ELSE {j})
    /\ UNCHANGED <<last, conn, known, looking, wire, losses>>

\* Sidebar.tsx: the answer to the request that made the job comes, before or
\* after the job's first events.
Requested(j) ==
    /\ strip[j] # Queued /\ conn # "left" /\ Loses
    /\ strip' = [strip EXCEPT ![j] = Queued]
    /\ MayLag({j})
    /\ UNCHANGED <<last, conn, known, looking, wire, timers>>

\* close(): the timers are canceled; the store keeps what they were to clear.
LeavePage ==
    /\ conn # "left" /\ Loses
    /\ conn' = "left"
    /\ timers' = {}
    /\ Dropped
    /\ UNCHANGED <<last, strip>>

OpenPage ==
    /\ conn = "left"
    /\ conn' = "broken"
    /\ UNCHANGED <<last, known, looking, wire, strip, timers, losses, lagging>>

StreamNext ==
    \/ \E j \in StreamJobs : Requested(j) \/ \E status \in Statuses : Publish(j, status)
    \/ \E m \in looking : LookedUp(m[1], m[2])
    \/ \E m \in Range(wire) : Receive(m[1], m[2])
    \/ \E m \in timers : TimerFires(m[1], m[2])
    \/ Connect \/ Disconnect \/ LeavePage \/ OpenPage

StreamSpec == StreamInit /\ [][StreamNext]_streamVars

-----------------------------------------------------------------------------
\* The strip shows the last thing a job's worker said, or nothing once that
\* was an outcome, unless an event of the job is on its way or one of the four
\* reasons of MayLag holds and no later event was shown since: the timer that
\* takes an outcome off the strip is the only thing that hides a job, and a
\* reconnect alone never makes up for what was missed.
StripFollowsJob ==
    \A j \in StreamJobs :
        \/ strip[j] = last[j]
        \/ strip[j] = NoNews /\ Concluding(last[j])
        \/ OnTheWay(j) \/ j \in lagging
=============================================================================
