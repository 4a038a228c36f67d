--------------------------- MODULE IdempotencyKey ---------------------------
(***************************************************************************)
(* The Idempotency-Key middleware (middleware/idempotency.ts), for the     *)
(* requests of one scope, route and key within the 24 hours a cached       *)
(* response lives.  Redis holds the cached response and the in-flight      *)
(* lock; every Redis call is a step.  The lock's value is a constant in    *)
(* the code: lock remembers who set it, but whoever deletes it deletes it. *)
(***************************************************************************)
EXTENDS Naturals, FiniteSets

CONSTANTS
    IdemRequests, \* requests with this key, repeats included
    Bodies,       \* request bodies, told apart by their hash
    NoRequest,
    SlowHandlers  \* may a handler run longer than the lock lives (60 s)?

ASSUME NoRequestAssumption == NoRequest \notin IdemRequests
ASSUME SlowHandlersAssumption == SlowHandlers \in BOOLEAN

VARIABLES
    cache,    \* the request whose response is cached, or NoRequest
    lock,     \* the request that set the in-flight lock, or NoRequest
    idemReq,  \* requests: position, body and what they were answered
    ran       \* requests whose handler ran to an end with a cacheable response

idemVars == <<cache, lock, idemReq, ran>>

\* new, then after a cache miss at the lock, running the handler, storing the
\* response, releasing the lock, answered.  A dead request was cut off.
Positions == {"new", "missed", "running", "store", "release", "answered", "dead"}
Answers == [kind: {"none", "own", "replay", "conflict", "mismatch"},
            of: IdemRequests \union {NoRequest}]
NoAnswer == [kind |-> "none", of |-> NoRequest]

IdemTypeOK ==
    /\ cache \in IdemRequests \union {NoRequest}
    /\ lock \in IdemRequests \union {NoRequest}
    /\ idemReq \in [IdemRequests -> [pc: Positions, body: Bodies, answer: Answers]]
    /\ ran \subseteq IdemRequests

IdemInit ==
    /\ cache = NoRequest
    /\ lock = NoRequest
    /\ idemReq \in [IdemRequests -> [pc: {"new"}, body: Bodies, answer: {NoAnswer}]]
    /\ ran = {}

Answer(r, kind, of) ==
    idemReq' = [idemReq EXCEPT ![r].pc = "answered", ![r].answer = [kind |-> kind, of |-> of]]

\* Mutant: the body hash is not compared.
LookUpAnyBody(r) ==
    /\ idemReq[r].pc = "new"
    /\ IF cache = NoRequest
       THEN idemReq' = [idemReq EXCEPT ![r].pc = "missed"]
       ELSE Answer(r, "replay", cache)
    /\ UNCHANGED <<cache, lock, ran>>

\* preHandler, the GET: a hit is replayed, or refused for another body.
LookUp(r) ==
    /\ idemReq[r].pc = "new"
    /\ \/ /\ cache = NoRequest
          /\ idemReq' = [idemReq EXCEPT ![r].pc = "missed"]
       \/ /\ cache # NoRequest
          /\ idemReq[cache].body = idemReq[r].body
          /\ Answer(r, "replay", cache)
       \/ /\ cache # NoRequest
          /\ idemReq[cache].body # idemReq[r].body
          /\ Answer(r, "mismatch", NoRequest)
    /\ UNCHANGED <<cache, lock, ran>>

\* Mutant: SET without NX.
TakeLockAnyway(r) ==
    /\ idemReq[r].pc = "missed"
    /\ lock' = r
    /\ idemReq' = [idemReq EXCEPT ![r].pc = "running"]
    /\ UNCHANGED <<cache, ran>>

\* preHandler, SET NX EX 60: whoever does not get the lock is told 409.
TakeLock(r) ==
    /\ idemReq[r].pc = "missed"
    /\ \/ /\ lock = NoRequest
          /\ lock' = r
          /\ idemReq' = [idemReq EXCEPT ![r].pc = "running"]
       \/ /\ lock # NoRequest
          /\ Answer(r, "conflict", NoRequest)
          /\ UNCHANGED lock
    /\ UNCHANGED <<cache, ran>>

\* Mutant: an uncacheable response is sent without releasing the lock.
HandlerEndsKeepingLock(r) ==
    /\ idemReq[r].pc = "running"
    /\ \/ idemReq' = [idemReq EXCEPT ![r].pc = "store"] /\ ran' = ran \union {r}
       \/ Answer(r, "own", r) /\ UNCHANGED ran
    /\ UNCHANGED <<cache, lock>>

\* The handler ends; onSend caches every response below 500 that is not too
\* large.
HandlerEnds(r) ==
    /\ idemReq[r].pc = "running"
    /\ \/ idemReq' = [idemReq EXCEPT ![r].pc = "store"] /\ ran' = ran \union {r}
       \/ idemReq' = [idemReq EXCEPT ![r].pc = "release"] /\ UNCHANGED ran
    /\ UNCHANGED <<cache, lock>>

\* onSend, SET of the response, over any other.
Store(r) ==
    /\ idemReq[r].pc = "store"
    /\ cache' = r
    /\ idemReq' = [idemReq EXCEPT ![r].pc = "release"]
    /\ UNCHANGED <<lock, ran>>

\* onSend, DEL of the lock, whoever set it.
Release(r) ==
    /\ idemReq[r].pc = "release"
    /\ lock' = NoRequest
    /\ Answer(r, "own", r)
    /\ UNCHANGED <<cache, ran>>

\* The API process dies; its lock stays until it expires.
Dies(r) ==
    /\ idemReq[r].pc \notin {"new", "answered", "dead"}
    /\ idemReq' = [idemReq EXCEPT ![r].pc = "dead"]
    /\ UNCHANGED <<cache, lock, ran>>

LockExpires ==
    /\ lock # NoRequest
    /\ SlowHandlers \/ idemReq[lock].pc = "dead"
    /\ lock' = NoRequest
    /\ UNCHANGED <<cache, idemReq, ran>>

Step(r) ==
    \/ LookUp(r) \/ TakeLock(r) \/ HandlerEnds(r)
    \/ Store(r) \/ Release(r) \/ Dies(r)

IdemNext ==
    \/ \E r \in IdemRequests : Step(r)
    \/ LockExpires

IdemSpec == IdemInit /\ [][IdemNext]_idemVars

-----------------------------------------------------------------------------
(* Properties.                                                             *)

Holding == {"running", "store", "release"}

\* While handlers finish within the life of the lock, requests with one key
\* run their handlers, and write Redis, one at a time, over deaths of the
\* process and expiries of the locks they leave.
OneAtATime ==
    \A r, s \in IdemRequests : idemReq[r].pc \in Holding /\ idemReq[s].pc \in Holding => r = s

\* A lock that is set belongs to a request that is going to release it or to
\* one that died: no answer leaves its key locked.
LockHasHolder ==
    lock # NoRequest => idemReq[lock].pc \in Holding \union {"dead"}

\* A replayed response is the response some other request with the same body
\* was cached with.
ReplayMatchesBody ==
    \A r \in IdemRequests : idemReq[r].answer.kind = "replay" =>
        LET of == idemReq[r].answer.of
        IN  of \in ran \ {r} /\ idemReq[of].body = idemReq[r].body

(* What the documentation says and the code does not keep.                 *)

\* docs/API.md: the first call runs the handler, subsequent calls with the key
\* replay its response.
HandlerRunsOnce == Cardinality(ran) <= 1
============================================================================
