---------------------------- MODULE SessionCache ----------------------------
(***************************************************************************)
(* The sessions of one user and the Redis cache of their freshness that    *)
(* requireAuth reads: sign-in, refresh (rotation), sign-out, revoke-all,   *)
(* account deletion.  Every statement and every Redis command is a step.   *)
(* Time passes in ticks much longer than a request, so the clock moves     *)
(* only between requests; Redis may be down for any while.                 *)
(***************************************************************************)
EXTENDS Naturals, FiniteSets

CONSTANTS
    Visits,         \* concurrent requests
    MaxSessions,    \* bound: Session rows
    MaxTime,        \* bound: the clock
    CacheTTL,       \* TTL_SECONDS, in ticks
    TombstoneTTL,   \* TTL_SECONDS + 5
    RefreshTTL      \* JWT_REFRESH_TTL_SECONDS

ASSUME RequestsAssumption == IsFiniteSet(Visits)
ASSUME SessionBoundsAssumption ==
    {MaxSessions, MaxTime, CacheTTL, TombstoneTTL, RefreshTTL} \subseteq Nat
ASSUME TombstoneOutlasts == CacheTTL <= TombstoneTTL

Sessions == 1..MaxSessions
NoSession == 0
NoEntry == [at |-> 0, until |-> 0]
Entry == [at: Nat, until: Nat]

VARIABLES
    session,    \* the Session rows
    cached,     \* sess:<id>, with the time the record was made and its expiry
    tombstone,  \* usertomb:<user>
    redisUp,
    request,    \* requests at work
    account,    \* "open" or "deleted"
    now,
    signIns     \* history: sessions opened by signing in

sessVars == <<session, cached, tombstone, redisUp, request, account, now, signIns>>

NoRowYet == [made |-> FALSE, revoked |-> FALSE, revokedAt |-> 0, ends |-> 0]
SessionRow == [made: BOOLEAN, revoked: BOOLEAN, revokedAt: Nat, ends: Nat]

Waiting == [pc |-> "idle", session |-> NoSession, record |-> NoEntry]
Visit == [pc: {"idle", "db", "fill", "tomb", "in", "evict", "revokeAll", "stamp",
                 "retire", "replace"},
            session: Sessions \union {NoSession}, record: Entry]

SessTypeOK ==
    /\ session \in [Sessions -> SessionRow]
    /\ cached \in [Sessions -> Entry]
    /\ tombstone \in Entry
    /\ redisUp \in BOOLEAN
    /\ request \in [Visits -> Visit]
    /\ account \in {"open", "deleted"}
    /\ now \in Nat /\ signIns \in Nat

SessInit ==
    /\ session = [s \in Sessions |-> NoRowYet]
    /\ cached = [s \in Sessions |-> NoEntry]
    /\ tombstone = NoEntry
    /\ redisUp = TRUE
    /\ request = [r \in Visits |-> Waiting]
    /\ account = "open"
    /\ now = 1
    /\ signIns = 0

Goto(r, pc) == request' = [request EXCEPT ![r].pc = pc]
Finished(r) == request' = [request EXCEPT ![r] = Waiting]

AtRevokeAll(r) == request' = [request EXCEPT ![r] = [Waiting EXCEPT !.pc = "revokeAll"]]

Present(e) == redisUp /\ now < e.until
Valid(s) == session[s].made /\ ~ session[s].revoked /\ now <= session[s].ends

\* A new row gets the next id.
Inserted(s) ==
    /\ ~ session[s].made
    /\ \A t \in Sessions : t < s => session[t].made
    /\ session' = [session EXCEPT ![s] =
           [NoRowYet EXCEPT !.made = TRUE, !.ends = now + RefreshTTL]]

-----------------------------------------------------------------------------
(* auth.service.ts: issueSession.                                          *)

SignIn(s) ==
    /\ account = "open"
    /\ Inserted(s)
    /\ signIns' = signIns + 1
    /\ UNCHANGED <<cached, tombstone, redisUp, request, account, now>>

-----------------------------------------------------------------------------
(* middleware/auth.ts: requireAuth, session-cache.service.ts: readSession.  *)

\* Mutant: a hit renews the expiry of the entry.
ReadCacheSliding(r, s) ==
    /\ request[r].pc = "idle" /\ session[s].made
    /\ request' = [request EXCEPT ![r] =
           IF Present(cached[s])
           THEN [pc |-> "tomb", session |-> s, record |-> cached[s]]
           ELSE [pc |-> "db", session |-> s, record |-> NoEntry]]
    /\ cached' = IF Present(cached[s])
                THEN [cached EXCEPT ![s].until = now + CacheTTL] ELSE cached
    /\ UNCHANGED <<session, tombstone, redisUp, account, now, signIns>>

\* A hit skips the database; a miss, or a Redis error, falls through to it.
ReadCache(r, s) ==
    /\ request[r].pc = "idle" /\ session[s].made
    /\ request' = [request EXCEPT ![r] =
           IF Present(cached[s])
           THEN [pc |-> "tomb", session |-> s, record |-> cached[s]]
           ELSE [pc |-> "db", session |-> s, record |-> NoEntry]]
    /\ UNCHANGED <<session, cached, tombstone, redisUp, account, now, signIns>>

\* The row is read; the record is stamped with the time after the read. The
\* row of a closed account is refused before anything is cached.
ReadRow(r) ==
    LET s == request[r].session IN
    /\ request[r].pc = "db"
    /\ IF Valid(s) /\ account = "open"
       THEN request' = [request EXCEPT ![r] =
                [@ EXCEPT !.pc = "fill", !.record = [at |-> now, until |-> now + CacheTTL]]]
       ELSE Finished(r)
    /\ UNCHANGED <<session, cached, tombstone, redisUp, account, now, signIns>>

FillCache(r) ==
    /\ request[r].pc = "fill"
    /\ cached' = IF redisUp THEN [cached EXCEPT ![request[r].session] = request[r].record]
                           ELSE cached
    /\ Goto(r, "tomb")
    /\ UNCHANGED <<session, tombstone, redisUp, account, now, signIns>>

\* A tombstone younger than the record rejects it; a Redis error lets it pass.
CheckTombstone(r) ==
    /\ request[r].pc = "tomb"
    /\ IF \/ Present(tombstone) /\ tombstone.at > request[r].record.at
          \/ now > session[request[r].session].ends
       THEN Finished(r)
       ELSE request' = [request EXCEPT ![r] = [@ EXCEPT !.pc = "in", !.record = NoEntry]]
    /\ UNCHANGED <<session, cached, tombstone, redisUp, account, now, signIns>>

Serve(r) ==
    /\ request[r].pc = "in"
    /\ Finished(r)
    /\ UNCHANGED <<session, cached, tombstone, redisUp, account, now, signIns>>

-----------------------------------------------------------------------------
(* Sign-out and DELETE /users/me/sessions/:id: revokeSession.              *)

Revoked(s) == [session[s] EXCEPT !.revoked = TRUE,
                  !.revokedAt = IF session[s].revoked THEN @ ELSE now]

Revoke(r, s) ==
    /\ request[r].pc = "in" /\ session[s].made
    /\ session' = [session EXCEPT ![s] = Revoked(s)]
    /\ request' = [request EXCEPT ![r] = [@ EXCEPT !.pc = "evict", !.session = s]]
    /\ UNCHANGED <<cached, tombstone, redisUp, account, now, signIns>>

\* A DEL that fails is ignored.
Evict(r) ==
    /\ request[r].pc = "evict"
    /\ cached' = IF redisUp THEN [cached EXCEPT ![request[r].session] = NoEntry] ELSE cached
    /\ Finished(r)
    /\ UNCHANGED <<session, tombstone, redisUp, account, now, signIns>>

\* revoke-all of the user, of an administrator (who needs no session of this
\* user), and of the deletion of the account, which closes it first. That a
\* session is valid is a bound: without one the call changes nothing here.
AskRevokeAll(r) ==
    /\ request[r].pc \in {"in", "idle"}
    /\ \E s \in Sessions : Valid(s)
    /\ AtRevokeAll(r)
    /\ UNCHANGED <<session, cached, tombstone, redisUp, account, now, signIns>>

DeleteAccount(r) ==
    /\ request[r].pc = "in"
    /\ account' = "deleted"
    /\ AtRevokeAll(r)
    /\ UNCHANGED <<session, cached, tombstone, redisUp, now, signIns>>

RevokeAll(r) ==
    /\ request[r].pc = "revokeAll"
    /\ session' = [s \in Sessions |-> IF session[s].made THEN Revoked(s) ELSE session[s]]
    /\ Goto(r, "stamp")
    /\ UNCHANGED <<cached, tombstone, redisUp, account, now, signIns>>

WriteTombstone(r) ==
    /\ request[r].pc = "stamp"
    /\ tombstone' = IF redisUp THEN [at |-> now, until |-> now + TombstoneTTL] ELSE tombstone
    /\ Finished(r)
    /\ UNCHANGED <<session, cached, redisUp, account, now, signIns>>

-----------------------------------------------------------------------------
(* auth.service.ts: rotateSession.                                         *)

RotateLoad(r, s) ==
    /\ request[r].pc = "idle"
    /\ Valid(s) /\ account = "open"
    /\ request' = [request EXCEPT ![r] = [Waiting EXCEPT !.pc = "retire", !.session = s]]
    /\ UNCHANGED <<session, cached, tombstone, redisUp, account, now, signIns>>

\* Mutant: the update is not conditional on revokedAt.
RetireAnyway(r) ==
    /\ request[r].pc = "retire"
    /\ session' = [session EXCEPT ![request[r].session] = Revoked(request[r].session)]
    /\ Goto(r, "replace")
    /\ UNCHANGED <<cached, tombstone, redisUp, account, now, signIns>>

\* Only one of two refreshes with the same token revokes the row.
Retire(r) ==
    LET s == request[r].session IN
    /\ request[r].pc = "retire"
    /\ IF session[s].revoked
       THEN Finished(r) /\ UNCHANGED session
       ELSE Goto(r, "replace") /\ session' = [session EXCEPT ![s] = Revoked(s)]
    /\ UNCHANGED <<cached, tombstone, redisUp, account, now, signIns>>

\* The new row, with the link from the old one.
Replace(r, t) ==
    /\ request[r].pc = "replace"
    /\ Inserted(t)
    /\ Goto(r, "evict")
    /\ UNCHANGED <<cached, tombstone, redisUp, account, now, signIns>>

\* A statement throws or the process dies.
RequestFails(r) ==
    /\ request[r].pc # "idle"
    /\ Finished(r)
    /\ UNCHANGED <<session, cached, tombstone, redisUp, account, now, signIns>>

-----------------------------------------------------------------------------
RedisToggles ==
    /\ redisUp' = ~ redisUp
    /\ UNCHANGED <<session, cached, tombstone, request, account, now, signIns>>

Tick ==
    /\ \A r \in Visits : request[r].pc = "idle"
    /\ now < MaxTime
    /\ now' = now + 1
    /\ UNCHANGED <<session, cached, tombstone, redisUp, request, account, signIns>>

VisitStep(r) ==
    \/ \E s \in Sessions : ReadCache(r, s) \/ Revoke(r, s) \/ RotateLoad(r, s) \/ Replace(r, s)
    \/ ReadRow(r) \/ FillCache(r) \/ CheckTombstone(r) \/ Serve(r) \/ Evict(r)
    \/ AskRevokeAll(r) \/ DeleteAccount(r) \/ RevokeAll(r) \/ WriteTombstone(r)
    \/ Retire(r) \/ RequestFails(r)

SessNext ==
    \/ \E s \in Sessions : SignIn(s)
    \/ \E r \in Visits : VisitStep(r)
    \/ RedisToggles \/ Tick

SessSpec == SessInit /\ [][SessNext]_sessVars

-----------------------------------------------------------------------------
(* Properties.                                                             *)

\* Refreshing never multiplies sessions: however many refreshes race with one
\* token, the sessions alive and the replacements under way are no more than
\* the sign-ins.
RotationNeverMultiplies ==
    Cardinality({s \in Sessions : session[s].made /\ ~ session[s].revoked})
        + Cardinality({r \in Visits : request[r].pc = "replace"}) <= signIns

\* A revoked session is let in for less than the cache's TTL after it was
\* revoked, whatever fills and evictions overlap and while Redis is down.
StaleWithinTTL ==
    \A r \in Visits :
        LET s == request[r].session IN
        (request[r].pc \in {"tomb", "in"} /\ session[s].revoked) =>
            \/ now = session[s].revokedAt
            \/ now < session[s].revokedAt + CacheTTL
============================================================================
