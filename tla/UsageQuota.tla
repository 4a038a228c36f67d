----------------------------- MODULE UsageQuota -----------------------------
(***************************************************************************)
(* The usage counter of one user and one kind of usage                     *)
(* (usage.service.ts), and the requests that reserve on it: project        *)
(* creations (projects.service.ts, ranking.service.ts), prompts that pass  *)
(* moderation and media generations (generation.service.ts).  There is one *)
(* UsageRecord per month; the plan, and the month, may change between any  *)
(* two awaits of a request.                                                *)
(***************************************************************************)
EXTENDS Integers, FiniteSets

CONSTANTS
    Requests,    \* concurrent API requests
    LastMonth,   \* bound: months 1..LastMonth
    Amounts,     \* quantities a request may ask for
    Limits,      \* plan limits of this kind; Unlimited stands for "no limit"
    Kinds,       \* kinds of request in play
    MaxCharged   \* bound: what is reserved in one month

Unlimited == -1
AllKinds == {"project", "prompt", "media"}

ASSUME ReserversAssumption == IsFiniteSet(Requests)
ASSUME LastMonthAssumption == LastMonth \in Nat \ {0}
ASSUME AmountsAssumption == Amounts \subseteq Nat
ASSUME LimitsAssumption == Limits \subseteq Int
ASSUME KindsAssumption == Kinds \subseteq AllKinds
ASSUME MaxChargedAssumption == MaxCharged \in Nat

Months == 1..LastMonth

VARIABLES
    usage,      \* the UsageRecord of each month
    planLimit,  \* what resolvePlanLimits would answer now
    month,      \* the current month
    req,        \* requests in progress
    charged,    \* history: what was reserved in a month and put to work
    leaked,     \* history: what was reserved in a month, came to nothing and stayed
    astray,     \* history: refunds a month got for another month's reservation
    lowered     \* history: months whose limit was set below what was used

usageVars == <<usage, planLimit, month, req, charged, leaked, astray, lowered>>

Record == [exists: BOOLEAN, used: Int, limit: Limits \union {0}]
NoRecord == [exists |-> FALSE, used |-> 0, limit |-> 0]

\* "upsert" and "reserve", "refused", "decrement" follow the awaits of
\* getOrCreateUsage and of its callers; "work" is what the reservation is for.
\* rec is the month of the record in hand, taken the month reserved in.
Idle == [pc |-> "idle", then |-> "idle", kind |-> "none", amount |-> 0,
         limit |-> 0, rec |-> 0, taken |-> 0]
Request == [pc: {"idle", "lookup", "upsert", "reserve", "refused", "work", "decrement"},
            then: {"idle", "reserve", "refused", "decrement"},
            kind: AllKinds \union {"none"}, amount: Amounts \union {0},
            limit: Limits \union {0}, rec: 0..LastMonth, taken: 0..LastMonth]

UsageTypeOK ==
    /\ usage \in [Months -> Record]
    /\ planLimit \in Limits
    /\ month \in Months
    /\ req \in [Requests -> Request]
    /\ charged \in [Months -> Nat]
    /\ leaked \in [Months -> Nat]
    /\ astray \in [Months -> Nat]
    /\ lowered \subseteq Months

UsageInit ==
    /\ usage = [m \in Months |-> NoRecord]
    /\ planLimit \in Limits
    /\ month = 1
    /\ req = [r \in Requests |-> Idle]
    /\ charged = [m \in Months |-> 0]
    /\ leaked = [m \in Months |-> 0]
    /\ astray = [m \in Months |-> 0]
    /\ lowered = {}

-----------------------------------------------------------------------------
Share(r, m) == IF req[r].taken = m THEN req[r].amount ELSE 0

\* The units that requests still at work have reserved in month m.
Held(m) == Cardinality(UNION {{r} \X (1..Share(r, m)) : r \in Requests})

Fits(rec, n) == rec.limit = Unlimited \/ rec.used + n <= rec.limit

\* A caller asks for n: assertAndIncrement, tryReserve, getOrCreateUsage.
Begin(r, kind, n) ==
    /\ req[r].pc = "idle"
    /\ req' = [req EXCEPT ![r] = [Idle EXCEPT !.pc = "lookup", !.then = "reserve",
                                              !.kind = kind, !.amount = n]]
    /\ UNCHANGED <<usage, planLimit, month, charged, leaked, astray, lowered>>

\* getOrCreateUsage, first half: currentPeriod and resolvePlanLimits.
ResolveLimit(r) ==
    /\ req[r].pc = "lookup"
    /\ req' = [req EXCEPT ![r] = [@ EXCEPT !.pc = "upsert",
                                           !.limit = planLimit, !.rec = month]]
    /\ UNCHANGED <<usage, planLimit, month, charged, leaked, astray, lowered>>

\* Second half: the record is created, or its limit set to the one resolved.
Upsert(r) ==
    LET m == req[r].rec IN
    /\ req[r].pc = "upsert"
    /\ usage' = [usage EXCEPT ![m] = [@ EXCEPT !.exists = TRUE, !.limit = req[r].limit]]
    /\ lowered' = IF Fits([usage[m] EXCEPT !.limit = req[r].limit], 0)
                  THEN lowered ELSE lowered \union {m}
    /\ req' = [req EXCEPT ![r].pc = req[r].then]
    /\ UNCHANGED <<planLimit, month, charged, leaked, astray>>

\* Mutant: assertWithinLimit followed by increment; the check was made on the
\* record read before.
ReserveUnguarded(r) ==
    LET m == req[r].rec IN
    /\ req[r].pc = "reserve"
    /\ usage[m].used + req[r].amount <= MaxCharged
    /\ usage' = [usage EXCEPT ![m].used = @ + req[r].amount]
    /\ req' = [req EXCEPT ![r] = [@ EXCEPT !.pc = "work", !.taken = m]]
    /\ UNCHANGED <<planLimit, month, charged, leaked, astray, lowered>>

\* tryReserve: one guarded UPDATE of the record in hand.  When it matches no
\* row the record is fetched again for the error message.
Reserve(r) ==
    LET m == req[r].rec IN
    /\ req[r].pc = "reserve"
    /\ usage[m].used + req[r].amount <= MaxCharged
    /\ IF Fits(usage[m], req[r].amount)
       THEN /\ usage' = [usage EXCEPT ![m].used = @ + req[r].amount]
            /\ req' = [req EXCEPT ![r] = [@ EXCEPT !.pc = "work", !.taken = m]]
       ELSE /\ req' = [req EXCEPT ![r] = [@ EXCEPT !.pc = "lookup", !.then = "refused"]]
            /\ UNCHANGED usage
    /\ UNCHANGED <<planLimit, month, charged, leaked, astray, lowered>>

Refused(r) ==
    /\ req[r].pc = "refused"
    /\ req' = [req EXCEPT ![r] = Idle]
    /\ UNCHANGED <<usage, planLimit, month, charged, leaked, astray, lowered>>

\* The project was created, or the job enqueued (or found by its key).
WorkDone(r) ==
    /\ req[r].pc = "work"
    /\ charged' = [charged EXCEPT ![req[r].taken] = @ + req[r].amount]
    /\ req' = [req EXCEPT ![r] = Idle]
    /\ UNCHANGED <<usage, planLimit, month, leaked, astray, lowered>>

\* Mutant: a failed creation is answered without the refund.
WorkRefusedKept(r) ==
    /\ req[r].pc = "work"
    /\ req[r].kind \in {"project", "prompt"}
    /\ req' = [req EXCEPT ![r] = Idle]
    /\ UNCHANGED <<usage, planLimit, month, charged, leaked, astray, lowered>>

\* Unknown template or failed transaction; prompt refused by moderation.
WorkRefused(r) ==
    /\ req[r].pc = "work"
    /\ req[r].kind \in {"project", "prompt"}
    /\ req' = [req EXCEPT ![r] = [@ EXCEPT !.pc = "lookup", !.then = "decrement"]]
    /\ UNCHANGED <<usage, planLimit, month, charged, leaked, astray, lowered>>

\* increment(-n) on the record of the month it is by now; where that record
\* does not exist yet the update throws and the refund is lost.
Decrement(r) ==
    LET m == month
        t == req[r].taken
    IN
    /\ req[r].pc = "decrement"
    /\ IF usage[m].exists
       THEN /\ usage' = [usage EXCEPT ![m].used = @ - req[r].amount]
            /\ astray' = IF m = t THEN astray
                         ELSE [astray EXCEPT ![m] = @ + req[r].amount]
       ELSE UNCHANGED <<usage, astray>>
    /\ leaked' = IF m = t THEN leaked ELSE [leaked EXCEPT ![t] = @ + req[r].amount]
    /\ req' = [req EXCEPT ![r] = Idle]
    /\ UNCHANGED <<planLimit, month, charged, lowered>>

\* A database call throws or the process dies; for a prompt or media request
\* also enqueue throwing, after which nothing is refunded.
Abandoned(r) ==
    LET t == req[r].taken IN
    /\ req[r].pc # "idle"
    /\ leaked' = IF t = 0 THEN leaked ELSE [leaked EXCEPT ![t] = @ + req[r].amount]
    /\ req' = [req EXCEPT ![r] = Idle]
    /\ UNCHANGED <<usage, planLimit, month, charged, astray, lowered>>

ChangePlan(l) ==
    /\ planLimit' = l
    /\ UNCHANGED <<usage, month, req, charged, leaked, astray, lowered>>

TurnMonth ==
    /\ month < LastMonth
    /\ month' = month + 1
    /\ UNCHANGED <<usage, planLimit, req, charged, leaked, astray, lowered>>

RequestStep(r) ==
    \/ \E kind \in Kinds, n \in Amounts : Begin(r, kind, n)
    \/ ResolveLimit(r) \/ Upsert(r) \/ Reserve(r) \/ Refused(r)
    \/ WorkDone(r) \/ WorkRefused(r) \/ Decrement(r) \/ Abandoned(r)

UsageNext ==
    \/ \E r \in Requests : RequestStep(r)
    \/ \E l \in Limits : ChangePlan(l)
    \/ TurnMonth

UsageSpec == UsageInit /\ [][UsageNext]_usageVars

-----------------------------------------------------------------------------
(* Properties.                                                             *)

\* Concurrent reservations never take a month over its limit: the counter is
\* above the limit only where a plan change lowered the limit under it.
WithinLimit ==
    \A m \in Months : Fits(usage[m], 0) \/ m \in lowered

\* The counter accounts for every unit: what requests at work hold, what was
\* put to work and what was lost with a request that died, less the refunds
\* that landed here for a reservation of another month.
Ledger ==
    \A m \in Months :
        usage[m].used = Held(m) + charged[m] + leaked[m] - astray[m]

(* What the code's comments say and the code does not keep.                *)

\* projects.service.ts: a bad templateId must not consume one of the user's
\* monthly slots; the same is said of failed transactions and of prompts
\* moderation refuses.  A refund belongs to the month that was charged.
RefundFindsItsMonth ==
    \A m \in Months : astray[m] = 0
============================================================================
