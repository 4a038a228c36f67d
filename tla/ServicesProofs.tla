--------------------------- MODULE ServicesProofs ---------------------------
(***************************************************************************)
(* Proofs about what an account may do.  UsageQuota, for any number of     *)
(* requests, months, amounts and plans, IdempotencyKey, for any number of  *)
(* requests with one key, and BillingWebhooks, for any number of           *)
(* concurrent requests, events and failures: what is acknowledged took     *)
(* effect, a notification is repeated only by an overlap or a failure, and *)
(* rows that differ from Stripe's objects were overtaken.                  *)
(*                                                                         *)
(* At the end, the services side by side: what MCServices lets happen to   *)
(* one of them is a behaviour of that service's own specification, so that *)
(* everything proved of the services by themselves holds of it.            *)
(***************************************************************************)
EXTENDS MCServices, SignInProofs, ContentProofs

-----------------------------------------------------------------------------
(* The usage counter.                                                      *)

\* A request past the choice of a month has one in hand.
RecordInHand == \A r \in Requests : req[r].pc \in {"upsert", "reserve"} => req[r].rec \in Months

QuotaBase == UsageTypeOK /\ RecordInHand

LEMMA IdleTyped == Idle \in Request
  BY LastMonthAssumption DEF Idle, Request

LEMMA MonthsBounded == \A m \in Months : m \in 0..LastMonth /\ m # 0
  BY LastMonthAssumption DEF Months

LEMMA AmountsCount ==
    ASSUME UsageTypeOK, NEW r \in Requests
    PROVE  req[r].amount \in Nat
<1>1. req[r].amount \in Amounts \/ req[r].amount = 0
  BY DEF UsageTypeOK, Request
<1>2. \A n \in Amounts : n \in Nat
  BY AmountsAssumption
<1> QED
  BY <1>1, <1>2

\* Adding an amount to a count of every month.
LEMMA AddedUp ==
    ASSUME NEW f \in [Months -> Nat], NEW t, NEW n \in Nat
    PROVE  [f EXCEPT ![t] = f[t] + n] \in [Months -> Nat]
<1>1. CASE t \in Months
  <2>1. f[t] + n \in Nat
    BY <1>1
  <2> QED
    BY <2>1
<1>2. CASE t \notin Months
  BY <1>2
<1> QED
  BY <1>1, <1>2

LEMMA QuotaStepsKeepTypes ==
    ASSUME QuotaBase, [UsageNext]_usageVars
    PROVE  UsageTypeOK'
<1> USE DEF QuotaBase, UsageTypeOK
<1>1. ASSUME NEW r \in Requests, NEW kind \in Kinds, NEW n \in Amounts, Begin(r, kind, n)
      PROVE UsageTypeOK'
  <2>1. [Idle EXCEPT !.pc = "lookup", !.then = "reserve", !.kind = kind, !.amount = n]
           \in Request
    <3>1. 0 \in 0..LastMonth
      BY LastMonthAssumption
    <3> QED
      BY <3>1, KindsAssumption DEF Idle, Request
  <2> QED
    BY <1>1, <2>1 DEF Begin
<1>2. ASSUME NEW r \in Requests, ResolveLimit(r) PROVE UsageTypeOK'
  <2>1. [req[r] EXCEPT !.pc = "upsert", !.limit = planLimit, !.rec = month] \in Request
    BY MonthsBounded DEF Request
  <2> QED
    BY <1>2, <2>1 DEF ResolveLimit
<1>3. ASSUME NEW r \in Requests, Upsert(r) PROVE UsageTypeOK'
  <2>1. [req[r] EXCEPT !.pc = req[r].then] \in Request
    BY DEF Request
  <2>2. req[r].rec \in Months
    BY <1>3 DEF Upsert, RecordInHand
  <2>3. [usage[req[r].rec] EXCEPT !.exists = TRUE, !.limit = req[r].limit] \in Record
    <3>1. req[r].limit \in Limits \union {0}
      BY DEF Request
    <3> QED
      BY <2>2, <3>1 DEF Record
  <2> QED
    BY <1>3, <2>1, <2>2, <2>3 DEF Upsert
<1>4. ASSUME NEW r \in Requests, Reserve(r) PROVE UsageTypeOK'
  <2>1. req[r].rec \in Months
    BY <1>4 DEF Reserve, RecordInHand
  <2>2. [usage[req[r].rec] EXCEPT !.used = usage[req[r].rec].used + req[r].amount] \in Record
    BY <2>1, AmountsCount DEF Record
  <2>3. [req[r] EXCEPT !.pc = "work", !.taken = req[r].rec] \in Request
    BY <2>1, MonthsBounded DEF Request
  <2>4. [req[r] EXCEPT !.pc = "lookup", !.then = "refused"] \in Request
    BY DEF Request
  <2> QED
    BY <1>4, <2>1, <2>2, <2>3, <2>4 DEF Reserve
<1>5. ASSUME NEW r \in Requests, Refused(r) PROVE UsageTypeOK'
  BY <1>5, IdleTyped DEF Refused
<1>6. ASSUME NEW r \in Requests, WorkDone(r) PROVE UsageTypeOK'
  BY <1>6, IdleTyped, AmountsCount, AddedUp DEF WorkDone
<1>7. ASSUME NEW r \in Requests, WorkRefused(r) PROVE UsageTypeOK'
  <2>1. [req[r] EXCEPT !.pc = "lookup", !.then = "decrement"] \in Request
    BY DEF Request
  <2> QED
    BY <1>7, <2>1 DEF WorkRefused
<1>8. ASSUME NEW r \in Requests, Decrement(r) PROVE UsageTypeOK'
  <2>1. [usage[month] EXCEPT !.used = usage[month].used - req[r].amount] \in Record
    BY AmountsCount DEF Record
  <2>2. usage' \in [Months -> Record]
    BY <1>8, <2>1 DEF Decrement
  <2>3. astray' \in [Months -> Nat] /\ leaked' \in [Months -> Nat]
    <3>1. [astray EXCEPT ![month] = astray[month] + req[r].amount] \in [Months -> Nat]
      BY AmountsCount, AddedUp
    <3>2. [leaked EXCEPT ![req[r].taken] = leaked[req[r].taken] + req[r].amount]
             \in [Months -> Nat]
      BY AmountsCount, AddedUp
    <3> QED
      BY <1>8, <3>1, <3>2 DEF Decrement
  <2> QED
    BY <1>8, <2>2, <2>3, IdleTyped DEF Decrement
<1>9. ASSUME NEW r \in Requests, Abandoned(r) PROVE UsageTypeOK'
  BY <1>9, IdleTyped, AmountsCount, AddedUp DEF Abandoned
<1>10. ASSUME NEW l \in Limits, ChangePlan(l) PROVE UsageTypeOK'
  BY <1>10 DEF ChangePlan
<1>11. CASE TurnMonth
  BY <1>11, LastMonthAssumption DEF TurnMonth, Months
<1>12. CASE UNCHANGED usageVars
  BY <1>12 DEF usageVars
<1> QED
  BY <1>1, <1>2, <1>3, <1>4, <1>5, <1>6, <1>7, <1>8, <1>9, <1>10, <1>11, <1>12
  DEF UsageNext, RequestStep

\* ResolveLimit takes the current month in hand, and it stays there.
LEMMA StepsKeepRecordInHand ==
    ASSUME QuotaBase, [UsageNext]_usageVars
    PROVE  RecordInHand'
<1> USE DEF QuotaBase, UsageTypeOK, RecordInHand
<1>1. ASSUME NEW r \in Requests, NEW kind \in Kinds, NEW n \in Amounts, Begin(r, kind, n)
      PROVE RecordInHand'
  BY <1>1 DEF Begin, Idle
<1>2. ASSUME NEW r \in Requests, ResolveLimit(r) PROVE RecordInHand'
  BY <1>2 DEF ResolveLimit, Request
<1>3. ASSUME NEW r \in Requests, Upsert(r) PROVE RecordInHand'
  BY <1>3 DEF Upsert, Request
<1>4. ASSUME NEW r \in Requests, Reserve(r) PROVE RecordInHand'
  <2>1. req'[r].pc \in {"work", "lookup"} /\ \A q \in Requests \ {r} : req'[q] = req[q]
    <3>1. /\ [req[r] EXCEPT !.pc = "work", !.taken = req[r].rec].pc = "work"
          /\ [req[r] EXCEPT !.pc = "lookup", !.then = "refused"].pc = "lookup"
      BY DEF Request
    <3>2. \/ req' = [req EXCEPT ![r] = [req[r] EXCEPT !.pc = "work", !.taken = req[r].rec]]
          \/ req' = [req EXCEPT ![r] = [req[r] EXCEPT !.pc = "lookup", !.then = "refused"]]
      BY <1>4 DEF Reserve
    <3> QED
      BY <3>1, <3>2
  <2> QED
    BY <2>1
<1>5. ASSUME NEW r \in Requests, Refused(r) PROVE RecordInHand'
  BY <1>5 DEF Refused, Idle
<1>6. ASSUME NEW r \in Requests, WorkDone(r) PROVE RecordInHand'
  BY <1>6 DEF WorkDone, Idle
<1>7. ASSUME NEW r \in Requests, WorkRefused(r) PROVE RecordInHand'
  BY <1>7 DEF WorkRefused, Request
<1>8. ASSUME NEW r \in Requests, Decrement(r) PROVE RecordInHand'
  BY <1>8 DEF Decrement, Idle
<1>9. ASSUME NEW r \in Requests, Abandoned(r) PROVE RecordInHand'
  BY <1>9 DEF Abandoned, Idle
<1>10. ASSUME NEW l \in Limits, ChangePlan(l) PROVE RecordInHand'
  BY <1>10 DEF ChangePlan
<1>11. CASE TurnMonth
  BY <1>11 DEF TurnMonth
<1>12. CASE UNCHANGED usageVars
  BY <1>12 DEF usageVars
<1> QED
  BY <1>1, <1>2, <1>3, <1>4, <1>5, <1>6, <1>7, <1>8, <1>9, <1>10, <1>11, <1>12
  DEF UsageNext, RequestStep

LEMMA QuotaStepsKeepBase == QuotaBase /\ [UsageNext]_usageVars => QuotaBase'
  BY QuotaStepsKeepTypes, StepsKeepRecordInHand DEF QuotaBase

\* The guarded UPDATE of tryReserve is what keeps the counter within the limit:
\* nothing else raises it, and only a plan change lowers the limit.
LEMMA StepsKeepLimit ==
    ASSUME QuotaBase, WithinLimit, [UsageNext]_usageVars
    PROVE  WithinLimit'
<1> USE DEF QuotaBase, UsageTypeOK, WithinLimit, Fits
<1>1. ASSUME NEW r \in Requests, NEW kind \in Kinds, NEW n \in Amounts, Begin(r, kind, n)
      PROVE WithinLimit'
  BY <1>1 DEF Begin
<1>2. ASSUME NEW r \in Requests, ResolveLimit(r) PROVE WithinLimit'
  BY <1>2 DEF ResolveLimit
<1>3. ASSUME NEW r \in Requests, Upsert(r) PROVE WithinLimit'
  <2>1. PICK m \in Months : m = req[r].rec
    BY <1>3 DEF Upsert, RecordInHand
  <2>2. usage'[m].used = usage[m].used /\ usage'[m].limit = req[r].limit
    BY <1>3, <2>1 DEF Upsert, Record
  <2>3. \A k \in Months \ {m} : usage'[k] = usage[k]
    BY <1>3, <2>1 DEF Upsert
  <2>4. lowered \subseteq lowered'
    BY <1>3 DEF Upsert
  <2>5. (req[r].limit = Unlimited \/ usage[m].used + 0 <= req[r].limit) \/ m \in lowered'
    <3>1. DEFINE u == [usage[m] EXCEPT !.limit = req[r].limit]
    <3>2. u.limit = req[r].limit /\ u.used = usage[m].used
      BY DEF Record
    <3>3. lowered' = IF Fits(u, 0) THEN lowered ELSE lowered \union {m}
      BY <1>3, <2>1 DEF Upsert
    <3> HIDE DEF u
    <3> QED
      BY <3>2, <3>3
  <2> QED
    BY <2>2, <2>3, <2>4, <2>5
<1>4. ASSUME NEW r \in Requests, Reserve(r) PROVE WithinLimit'
  <2>1. PICK m \in Months : m = req[r].rec
    BY <1>4 DEF Reserve, RecordInHand
  <2>2. UNCHANGED lowered
    BY <1>4 DEF Reserve
  <2>3. CASE UNCHANGED usage
    BY <2>2, <2>3
  <2>4. CASE /\ Fits(usage[m], req[r].amount)
             /\ usage' = [usage EXCEPT ![m].used = @ + req[r].amount]
    <3>1. /\ usage'[m].used = usage[m].used + req[r].amount
          /\ usage'[m].limit = usage[m].limit
          /\ \A k \in Months \ {m} : usage'[k] = usage[k]
      BY <2>4 DEF Record
    <3>2. usage[m].used \in Int /\ req[r].amount \in Nat
      BY AmountsCount DEF Record
    <3> QED
      BY <2>2, <2>4, <3>1, <3>2
  <2> QED
    BY <1>4, <2>1, <2>3, <2>4 DEF Reserve
<1>5. ASSUME NEW r \in Requests, Refused(r) PROVE WithinLimit'
  BY <1>5 DEF Refused
<1>6. ASSUME NEW r \in Requests, WorkDone(r) PROVE WithinLimit'
  BY <1>6 DEF WorkDone
<1>7. ASSUME NEW r \in Requests, WorkRefused(r) PROVE WithinLimit'
  BY <1>7 DEF WorkRefused
<1>8. ASSUME NEW r \in Requests, Decrement(r) PROVE WithinLimit'
  <2>1. UNCHANGED lowered
    BY <1>8 DEF Decrement
  <2>2. CASE UNCHANGED usage
    BY <2>1, <2>2
  <2>3. CASE usage' = [usage EXCEPT ![month].used = @ - req[r].amount]
    <3>1. /\ usage'[month].used = usage[month].used - req[r].amount
          /\ usage'[month].limit = usage[month].limit
          /\ \A k \in Months \ {month} : usage'[k] = usage[k]
      BY <2>3 DEF Record
    <3>2. usage[month].used \in Int /\ req[r].amount \in Nat
      BY AmountsCount DEF Record
    <3>3. usage[month].limit \in Int
      <4>1. usage[month].limit \in Limits \/ usage[month].limit = 0
        BY DEF Record
      <4>2. \A l \in Limits : l \in Int
        BY LimitsAssumption
      <4> QED
        BY <4>1, <4>2
    <3> QED
      BY <2>1, <3>1, <3>2, <3>3
  <2> QED
    BY <1>8, <2>2, <2>3 DEF Decrement
<1>9. ASSUME NEW r \in Requests, Abandoned(r) PROVE WithinLimit'
  BY <1>9 DEF Abandoned
<1>10. ASSUME NEW l \in Limits, ChangePlan(l) PROVE WithinLimit'
  BY <1>10 DEF ChangePlan
<1>11. CASE TurnMonth
  BY <1>11 DEF TurnMonth
<1>12. CASE UNCHANGED usageVars
  BY <1>12 DEF usageVars
<1> QED
  BY <1>1, <1>2, <1>3, <1>4, <1>5, <1>6, <1>7, <1>8, <1>9, <1>10, <1>11, <1>12
  DEF UsageNext, RequestStep

LEMMA InitQuota == UsageInit => QuotaBase /\ WithinLimit
<1>1. UsageInit => UsageTypeOK
  BY LastMonthAssumption, IdleTyped DEF UsageInit, UsageTypeOK, Months, NoRecord, Record
<1>2. UsageInit => RecordInHand
  BY DEF UsageInit, RecordInHand, Idle
<1>3. UsageInit => WithinLimit
  BY DEF UsageInit, WithinLimit, Fits, NoRecord
<1> QED
  BY <1>1, <1>2, <1>3 DEF QuotaBase

\* Every state of the counters is well typed.
THEOREM QuotaTypeCorrect == UsageSpec => []UsageTypeOK
<1>1. QuotaBase => UsageTypeOK
  BY DEF QuotaBase
<1> QED
  BY <1>1, InitQuota, QuotaStepsKeepBase, PTL DEF UsageSpec

\* However many requests reserve at once, and whenever plans or months change,
\* a month is over its limit only where the limit was lowered under it.
THEOREM NeverOverLimit == UsageSpec => []WithinLimit
<1>1. QuotaBase /\ WithinLimit /\ [UsageNext]_usageVars => (QuotaBase /\ WithinLimit)'
  BY QuotaStepsKeepBase, StepsKeepLimit
<1> QED
  BY <1>1, InitQuota, PTL DEF UsageSpec

(***************************************************************************)
(* The ledger.  A step moves the reservation of one request at most, so    *)
(* what is held changes by that request's share and by nothing else.       *)
(***************************************************************************)

Units(f) == UNION {{r} \X (1..f[r]) : r \in Requests}

LEMMA UnitsFinite ==
    ASSUME NEW f \in [Requests -> Nat]
    PROVE  IsFiniteSet(Units(f)) /\ Cardinality(Units(f)) \in Nat
<1> DEFINE own == [r \in Requests |-> {r} \X (1..f[r])]
           S == {own[r] : r \in Requests}
<1>1. own \in Surjection(Requests, S)
  BY DEF Surjection
<1>2. IsFiniteSet(S)
  BY <1>1, FS_Surjection, ReserversAssumption
<1>3. \A T \in S : IsFiniteSet(T)
  <2> SUFFICES ASSUME NEW r \in Requests PROVE IsFiniteSet({r} \X (1..f[r]))
    OBVIOUS
  <2>1. f[r] \in Nat
    OBVIOUS
  <2>2. IsFiniteSet({r})
    BY FS_Singleton
  <2>3. IsFiniteSet(1..f[r])
    BY <2>1, FS_Interval
  <2> QED
    BY <2>2, <2>3, FS_Product
<1>4. Units(f) = UNION S
  BY DEF Units
<1> QED
  BY <1>2, <1>3, <1>4, FS_UNION, FS_CardinalityType

LEMMA UnitsWithout ==
    ASSUME NEW f \in [Requests -> Nat], NEW r \in Requests
    PROVE  Cardinality(Units(f) \ ({r} \X (1..f[r]))) = Cardinality(Units(f)) - f[r]
<1> DEFINE own == {r} \X (1..f[r])
<1>1. IsFiniteSet({r}) /\ Cardinality({r}) = 1
  BY FS_Singleton
<1>2. IsFiniteSet(1..f[r]) /\ Cardinality(1..f[r]) = f[r]
  <2>1. f[r] \in Nat
    OBVIOUS
  <2> QED
    BY <2>1, FS_Interval
<1>3. Cardinality(own) = f[r]
  <2>1. Cardinality(own) = 1 * f[r]
    BY <1>1, <1>2, FS_Product
  <2> QED
    BY <2>1
<1>4. Units(f) \cap own = own
  BY DEF Units
<1> HIDE DEF own
<1>5. Cardinality(Units(f) \ own) = Cardinality(Units(f)) - Cardinality(Units(f) \cap own)
  BY UnitsFinite, FS_Difference
<1>6. Cardinality(Units(f) \ own) = Cardinality(Units(f)) - f[r]
  BY <1>3, <1>4, <1>5
<1> QED
  BY <1>6 DEF own

LEMMA OneShareChanges ==
    ASSUME NEW f \in [Requests -> Nat], NEW g \in [Requests -> Nat], NEW r \in Requests,
           \A q \in Requests \ {r} : g[q] = f[q]
    PROVE  Cardinality(Units(g)) - g[r] = Cardinality(Units(f)) - f[r]
<1>1. Units(f) \ ({r} \X (1..f[r])) = Units(g) \ ({r} \X (1..g[r]))
  <2>1. ASSUME NEW h \in [Requests -> Nat]
        PROVE  Units(h) \ ({r} \X (1..h[r])) = UNION {{q} \X (1..h[q]) : q \in Requests \ {r}}
    BY DEF Units
  <2>2. {{q} \X (1..f[q]) : q \in Requests \ {r}} = {{q} \X (1..g[q]) : q \in Requests \ {r}}
    OBVIOUS
  <2> QED
    BY <2>1, <2>2
<1> QED
  BY <1>1, UnitsWithout

\* What a step does to what is held in a month.
LEMMA HeldMoves ==
    ASSUME UsageTypeOK, UsageTypeOK', NEW r \in Requests, NEW m,
           \A q \in Requests \ {r} : req'[q] = req[q]
    PROVE  /\ Held(m) \in Nat /\ Held(m)' \in Nat
           /\ Held(m)' = Held(m) - Share(r, m) + Share(r, m)'
<1> DEFINE f == [q \in Requests |-> Share(q, m)]
           g == [q \in Requests |-> Share(q, m)']
<1>1. f \in [Requests -> Nat] /\ g \in [Requests -> Nat]
  <2>1. \A n \in Amounts : n \in Nat
    BY AmountsAssumption
  <2> QED
    BY <2>1 DEF Share, UsageTypeOK, Request
<1>2. Held(m) = Cardinality(Units(f)) /\ Held(m)' = Cardinality(Units(g))
  <2>1. /\ {{q} \X (1..Share(q, m)) : q \in Requests} = {{q} \X (1..f[q]) : q \in Requests}
        /\ {{q} \X (1..Share(q, m)') : q \in Requests} = {{q} \X (1..g[q]) : q \in Requests}
    OBVIOUS
  <2> QED
    BY <2>1 DEF Held, Units
<1>3. \A q \in Requests \ {r} : g[q] = f[q]
  BY DEF Share
<1>4. f[r] = Share(r, m) /\ g[r] = Share(r, m)'
  OBVIOUS
<1> HIDE DEF f, g
<1>5. f[r] \in Nat /\ g[r] \in Nat
  BY <1>1
<1> QED
  BY <1>1, <1>2, <1>3, <1>4, <1>5, OneShareChanges, UnitsFinite

\* Only a request at work, or on its way to give back, has reserved; the month
\* it reserved in has a record, and so has the month it is about to reserve in.
Reserved(r) ==
    \/ req[r].pc \in {"work", "decrement"}
    \/ req[r].pc \in {"lookup", "upsert"} /\ req[r].then = "decrement"

TakenInHand ==
    \A r \in Requests :
        IF Reserved(r) THEN req[r].taken \in Months /\ usage[req[r].taken].exists
                       ELSE req[r].taken = 0

RecordExists == \A r \in Requests : req[r].pc = "reserve" => usage[req[r].rec].exists

LedgerInv == QuotaBase /\ TakenInHand /\ RecordExists /\ Ledger

LEMMA RecordsStay ==
    ASSUME QuotaBase, [UsageNext]_usageVars
    PROVE  \A m \in Months : usage[m].exists => usage'[m].exists
<1> USE DEF QuotaBase, UsageTypeOK, Record
<1>1. ASSUME NEW r \in Requests, Upsert(r) PROVE \A m \in Months : usage[m].exists => usage'[m].exists
  BY <1>1 DEF Upsert, RecordInHand
<1>2. ASSUME NEW r \in Requests, Reserve(r) PROVE \A m \in Months : usage[m].exists => usage'[m].exists
  <2>1. UNCHANGED usage \/ usage' = [usage EXCEPT ![req[r].rec].used = @ + req[r].amount]
    BY <1>2 DEF Reserve
  <2> QED
    BY <2>1
<1>3. ASSUME NEW r \in Requests, Decrement(r) PROVE \A m \in Months : usage[m].exists => usage'[m].exists
  <2>1. UNCHANGED usage \/ usage' = [usage EXCEPT ![month].used = @ - req[r].amount]
    BY <1>3 DEF Decrement
  <2> QED
    BY <2>1
<1>4. ASSUME UNCHANGED usage PROVE \A m \in Months : usage[m].exists => usage'[m].exists
  BY <1>4
<1> QED
  BY <1>1, <1>2, <1>3, <1>4 DEF UsageNext, RequestStep, usageVars, Begin, ResolveLimit, Refused,
     WorkDone, WorkRefused, Abandoned, ChangePlan, TurnMonth

LEMMA StepsKeepTaken ==
    ASSUME QuotaBase, TakenInHand, RecordExists, [UsageNext]_usageVars
    PROVE  TakenInHand' /\ RecordExists'
<1>r. \A m \in Months : usage[m].exists => usage'[m].exists
  BY RecordsStay
<1>t. UsageTypeOK'
  BY QuotaStepsKeepTypes
<1> USE DEF QuotaBase, TakenInHand, RecordExists, Reserved
<1>a. ASSUME NEW r \in Requests, \A q \in Requests \ {r} : req'[q] = req[q],
             IF Reserved(r)' THEN req'[r].taken \in Months /\ usage'[req'[r].taken].exists
                             ELSE req'[r].taken = 0,
             req'[r].pc = "reserve" => usage'[req'[r].rec].exists
      PROVE  TakenInHand' /\ RecordExists'
  BY <1>a, <1>r DEF RecordInHand
<1>s. ASSUME UNCHANGED req PROVE TakenInHand' /\ RecordExists'
  BY <1>s, <1>r DEF RecordInHand
<1> USE DEF UsageTypeOK
<1>i. Idle.pc = "idle" /\ Idle.taken = 0
  BY DEF Idle
<1>1. ASSUME NEW r \in Requests, NEW kind \in Kinds, NEW n \in Amounts, Begin(r, kind, n)
      PROVE TakenInHand' /\ RecordExists'
  BY <1>1, <1>a DEF Begin, Idle
<1>2. ASSUME NEW r \in Requests, ResolveLimit(r) PROVE TakenInHand' /\ RecordExists'
  <2>1. /\ req'[r].pc = "upsert" /\ req'[r].then = req[r].then /\ req'[r].taken = req[r].taken
        /\ \A q \in Requests \ {r} : req'[q] = req[q]
        /\ req[r].pc = "lookup"
    BY <1>2 DEF ResolveLimit, Request
  <2> QED
    BY <2>1, <1>a, <1>r
<1>3. ASSUME NEW r \in Requests, Upsert(r) PROVE TakenInHand' /\ RecordExists'
  <2>1. /\ req'[r].pc = req[r].then /\ req'[r].taken = req[r].taken /\ req'[r].rec = req[r].rec
        /\ \A q \in Requests \ {r} : req'[q] = req[q]
        /\ req[r].pc = "upsert" /\ req[r].then \in {"idle", "reserve", "refused", "decrement"}
    BY <1>3 DEF Upsert, Request
  <2>2. req[r].rec \in Months
    BY <2>1 DEF RecordInHand
  <2>3. usage'[req[r].rec].exists
    BY <1>3, <2>2 DEF Upsert, Record
  <2> QED
    BY <2>1, <2>3, <1>a, <1>r
<1>4. ASSUME NEW r \in Requests, Reserve(r) PROVE TakenInHand' /\ RecordExists'
  <2>1. \/ req' = [req EXCEPT ![r] = [@ EXCEPT !.pc = "work", !.taken = req[r].rec]]
        \/ req' = [req EXCEPT ![r] = [@ EXCEPT !.pc = "lookup", !.then = "refused"]]
    BY <1>4 DEF Reserve
  <2>2. req[r].pc = "reserve" /\ req[r].rec \in Months /\ usage[req[r].rec].exists
    BY <1>4 DEF Reserve, RecordInHand
  <2>3. CASE req' = [req EXCEPT ![r] = [@ EXCEPT !.pc = "work", !.taken = req[r].rec]]
    <3>1. /\ \A q \in Requests \ {r} : req'[q] = req[q]
          /\ req'[r].pc = "work" /\ req'[r].taken = req[r].rec
      BY <2>3 DEF Request
    <3> QED
      BY <2>2, <3>1, <1>a, <1>r
  <2>4. CASE req' = [req EXCEPT ![r] = [@ EXCEPT !.pc = "lookup", !.then = "refused"]]
    <3>1. /\ \A q \in Requests \ {r} : req'[q] = req[q]
          /\ req'[r].pc = "lookup" /\ req'[r].then = "refused" /\ req'[r].taken = req[r].taken
      BY <2>4 DEF Request
    <3> QED
      BY <2>2, <3>1, <1>a, <1>r
  <2> QED
    BY <2>1, <2>3, <2>4
<1>5. ASSUME NEW r \in Requests, Refused(r) \/ WorkDone(r) \/ Decrement(r) \/ Abandoned(r)
      PROVE TakenInHand' /\ RecordExists'
  <2>1. req' = [req EXCEPT ![r] = Idle]
    BY <1>5 DEF Refused, WorkDone, Decrement, Abandoned
  <2> QED
    BY <2>1, <1>a, <1>i
<1>6. ASSUME NEW r \in Requests, WorkRefused(r) PROVE TakenInHand' /\ RecordExists'
  <2>1. /\ req'[r].pc = "lookup" /\ req'[r].then = "decrement" /\ req'[r].taken = req[r].taken
        /\ \A q \in Requests \ {r} : req'[q] = req[q]
        /\ req[r].pc = "work"
    BY <1>6 DEF WorkRefused, Request
  <2> QED
    BY <2>1, <1>a, <1>r
<1>7. ASSUME NEW l \in Limits, ChangePlan(l) PROVE TakenInHand' /\ RecordExists'
  BY <1>7, <1>s DEF ChangePlan
<1>8. CASE TurnMonth
  BY <1>8, <1>s DEF TurnMonth
<1>9. CASE UNCHANGED usageVars
  BY <1>9, <1>s DEF usageVars
<1> QED
  BY <1>1, <1>2, <1>3, <1>4, <1>5, <1>6, <1>7, <1>8, <1>9 DEF UsageNext, RequestStep

Balance(m) == usage[m].used - charged[m] - leaked[m] + astray[m]

\* The counters of a month move by the share of the request that steps.
LEMMA LedgerMoves ==
    ASSUME UsageTypeOK, UsageTypeOK', Ledger, NEW r \in Requests,
           \A q \in Requests \ {r} : req'[q] = req[q],
           \A m \in Months : Balance(m)' = Balance(m) - Share(r, m) + Share(r, m)'
    PROVE  Ledger'
<1> SUFFICES ASSUME NEW m \in Months
             PROVE  usage'[m].used = Held(m)' + charged'[m] + leaked'[m] - astray'[m]
  BY DEF Ledger
<1>1. /\ usage[m].used \in Int /\ charged[m] \in Nat /\ leaked[m] \in Nat /\ astray[m] \in Nat
      /\ usage'[m].used \in Int /\ charged'[m] \in Nat /\ leaked'[m] \in Nat /\ astray'[m] \in Nat
  BY DEF UsageTypeOK, Record
<1>2. Share(r, m) \in Nat /\ Share(r, m)' \in Nat
  <2>1. \A n \in Amounts : n \in Nat
    BY AmountsAssumption
  <2> QED
    BY <2>1 DEF Share, UsageTypeOK, Request
<1>3. usage[m].used = Held(m) + charged[m] + leaked[m] - astray[m]
  BY DEF Ledger
<1>4. /\ Held(m) \in Nat /\ Held(m)' \in Nat
      /\ Held(m)' = Held(m) - Share(r, m) + Share(r, m)'
  BY HeldMoves
<1>5. Balance(m)' = Balance(m) - Share(r, m) + Share(r, m)'
  OBVIOUS
<1> QED
  BY <1>1, <1>2, <1>3, <1>4, <1>5 DEF Balance

\* Nothing is held differently where no request moved.
LEMMA HeldStays == ASSUME UNCHANGED req, NEW m PROVE Held(m)' = Held(m)
  BY DEF Held, Share

LEMMA StepsKeepLedger ==
    ASSUME LedgerInv, [UsageNext]_usageVars
    PROVE  Ledger'
<1>b. QuotaBase /\ UsageTypeOK /\ UsageTypeOK' /\ Ledger /\ TakenInHand /\ RecordExists
  BY QuotaStepsKeepTypes DEF LedgerInv, QuotaBase
<1>n. /\ 0 \notin Months
      /\ \A n \in Amounts \union {0} : n \in Nat
  BY AmountsAssumption, MonthsBounded
<1>i. \A m \in Months : Idle.taken # m
  BY <1>n DEF Idle
\* A request that holds nothing before and after, and counters that stay.
<1>z. ASSUME NEW r \in Requests, \A q \in Requests \ {r} : req'[q] = req[q],
             req'[r].taken = req[r].taken, req'[r].amount = req[r].amount \/ req[r].taken = 0,
             UNCHANGED <<usage, charged, leaked, astray>>
      PROVE  Ledger'
  <2>1. ASSUME NEW m \in Months PROVE Balance(m)' = Balance(m) - Share(r, m) + Share(r, m)'
    <3>1. Share(r, m)' = Share(r, m) /\ Share(r, m) \in Nat
      BY <1>z, <1>b, <1>n DEF Share, UsageTypeOK, Request
    <3>2. Balance(m)' = Balance(m) /\ Balance(m) \in Int
      BY <1>z, <1>b DEF Balance, UsageTypeOK, Record
    <3> QED
      BY <3>1, <3>2
  <2> QED
    BY <2>1, <1>z, <1>b, LedgerMoves
<1>s. ASSUME UNCHANGED <<req, usage, charged, leaked, astray>> PROVE Ledger'
  BY <1>s, <1>b, HeldStays DEF Ledger
<1>1. ASSUME NEW r \in Requests, NEW kind \in Kinds, NEW n \in Amounts, Begin(r, kind, n)
      PROVE Ledger'
  <2>1. req[r].taken = 0
    BY <1>1, <1>b DEF Begin, TakenInHand, Reserved
  <2>2. req'[r].taken = 0 /\ \A q \in Requests \ {r} : req'[q] = req[q]
    BY <1>1, <1>b DEF Begin, Idle, UsageTypeOK
  <2> QED
    BY <1>1, <2>1, <2>2, <1>z DEF Begin
<1>2. ASSUME NEW r \in Requests, ResolveLimit(r) \/ Upsert(r) PROVE Ledger'
  <2>1. CASE ResolveLimit(r)
    <3>1. req'[r].taken = req[r].taken /\ req'[r].amount = req[r].amount
          /\ \A q \in Requests \ {r} : req'[q] = req[q]
      BY <2>1, <1>b DEF ResolveLimit, UsageTypeOK, Request
    <3> QED
      BY <2>1, <3>1, <1>z DEF ResolveLimit
  <2>2. CASE Upsert(r)
    <3>1. req'[r].taken = req[r].taken /\ req'[r].amount = req[r].amount
          /\ \A q \in Requests \ {r} : req'[q] = req[q]
      BY <2>2, <1>b DEF Upsert, UsageTypeOK, Request
    <3>2. \A m \in Months : usage'[m].used = usage[m].used
      BY <2>2, <1>b DEF Upsert, UsageTypeOK, Record
    <3>3. UNCHANGED <<charged, leaked, astray>>
      BY <2>2 DEF Upsert
    <3>4. ASSUME NEW m \in Months PROVE Balance(m)' = Balance(m) - Share(r, m) + Share(r, m)'
      <4>1. Share(r, m)' = Share(r, m) /\ Share(r, m) \in Nat
        BY <3>1, <1>b, <1>n DEF Share, UsageTypeOK, Request
      <4>2. Balance(m)' = Balance(m) /\ Balance(m) \in Int
        BY <3>2, <3>3, <1>b DEF Balance, UsageTypeOK, Record
      <4> QED
        BY <4>1, <4>2
    <3> QED
      BY <3>1, <3>4, <1>b, LedgerMoves
  <2> QED
    BY <1>2, <2>1, <2>2
<1>3. ASSUME NEW r \in Requests, Reserve(r) PROVE Ledger'
  <2>1. req[r].pc = "reserve" /\ req[r].rec \in Months /\ req[r].taken = 0
    BY <1>3, <1>b DEF Reserve, RecordInHand, TakenInHand, Reserved, QuotaBase
  <2>2. UNCHANGED <<charged, leaked, astray>>
    BY <1>3 DEF Reserve
  <2>3. CASE /\ usage' = [usage EXCEPT ![req[r].rec].used = @ + req[r].amount]
             /\ req' = [req EXCEPT ![r] = [@ EXCEPT !.pc = "work", !.taken = req[r].rec]]
    <3>1. /\ req'[r].taken = req[r].rec /\ req'[r].amount = req[r].amount
          /\ \A q \in Requests \ {r} : req'[q] = req[q]
      BY <2>3, <1>b DEF UsageTypeOK, Request
    <3>2. \A m \in Months : usage'[m].used = IF m = req[r].rec THEN usage[m].used + req[r].amount
                                             ELSE usage[m].used
      BY <2>1, <2>3, <1>b DEF UsageTypeOK, Record
    <3>3. ASSUME NEW m \in Months PROVE Balance(m)' = Balance(m) - Share(r, m) + Share(r, m)'
      <4>1. Share(r, m) = 0 /\ Share(r, m)' = IF m = req[r].rec THEN req[r].amount ELSE 0
        BY <2>1, <3>1, <1>n DEF Share
      <4>2. /\ usage[m].used \in Int /\ charged[m] \in Nat /\ leaked[m] \in Nat
            /\ astray[m] \in Nat /\ req[r].amount \in Nat
        BY <1>b, <1>n DEF UsageTypeOK, Record, Request
      <4> QED
        BY <2>2, <3>2, <4>1, <4>2 DEF Balance
    <3> QED
      BY <3>1, <3>3, <1>b, LedgerMoves
  <2>4. CASE /\ req' = [req EXCEPT ![r] = [@ EXCEPT !.pc = "lookup", !.then = "refused"]]
             /\ UNCHANGED usage
    <3>1. /\ req'[r].taken = req[r].taken
          /\ \A q \in Requests \ {r} : req'[q] = req[q]
      BY <2>4, <1>b DEF UsageTypeOK, Request
    <3> QED
      BY <2>1, <2>2, <2>4, <3>1, <1>z
  <2> QED
    BY <1>3, <2>3, <2>4 DEF Reserve
<1>4. ASSUME NEW r \in Requests, Refused(r) PROVE Ledger'
  <2>1. req[r].taken = 0
    BY <1>4, <1>b DEF Refused, TakenInHand, Reserved
  <2>2. req'[r].taken = 0 /\ \A q \in Requests \ {r} : req'[q] = req[q]
    BY <1>4, <1>b DEF Refused, Idle, UsageTypeOK
  <2> QED
    BY <1>4, <2>1, <2>2, <1>z DEF Refused
<1>5. ASSUME NEW r \in Requests, WorkDone(r) PROVE Ledger'
  <2>1. PICK t \in Months : t = req[r].taken
    BY <1>5, <1>b DEF WorkDone, TakenInHand, Reserved
  <2>2. /\ req'[r] = Idle /\ \A q \in Requests \ {r} : req'[q] = req[q]
        /\ UNCHANGED <<usage, leaked, astray>>
    BY <1>5, <1>b DEF WorkDone, UsageTypeOK
  <2>3. ASSUME NEW m \in Months PROVE Balance(m)' = Balance(m) - Share(r, m) + Share(r, m)'
    <3>1. Share(r, m)' = 0 /\ Share(r, m) = IF m = t THEN req[r].amount ELSE 0
      BY <2>1, <2>2, <1>i DEF Share
    <3>2. charged'[m] = IF m = t THEN charged[m] + req[r].amount ELSE charged[m]
      BY <1>5, <2>1, <1>b DEF WorkDone, UsageTypeOK
    <3>3. /\ usage[m].used \in Int /\ charged[m] \in Nat /\ leaked[m] \in Nat
          /\ astray[m] \in Nat /\ req[r].amount \in Nat
      BY <1>b, <1>n DEF UsageTypeOK, Record, Request
    <3> QED
      BY <2>2, <3>1, <3>2, <3>3 DEF Balance
  <2> QED
    BY <2>2, <2>3, <1>b, LedgerMoves
<1>6. ASSUME NEW r \in Requests, WorkRefused(r) PROVE Ledger'
  <2>1. /\ req'[r].taken = req[r].taken /\ req'[r].amount = req[r].amount
        /\ \A q \in Requests \ {r} : req'[q] = req[q]
    BY <1>6, <1>b DEF WorkRefused, UsageTypeOK, Request
  <2> QED
    BY <1>6, <2>1, <1>z DEF WorkRefused
<1>7. ASSUME NEW r \in Requests, Decrement(r) PROVE Ledger'
  <2>1. PICK t \in Months : t = req[r].taken /\ usage[t].exists
    BY <1>7, <1>b DEF Decrement, TakenInHand, Reserved
  <2>2. /\ req'[r] = Idle /\ \A q \in Requests \ {r} : req'[q] = req[q]
        /\ UNCHANGED charged /\ month \in Months
    BY <1>7, <1>b DEF Decrement, UsageTypeOK
  <2>3. ASSUME NEW m \in Months PROVE Balance(m)' = Balance(m) - Share(r, m) + Share(r, m)'
    <3>1. Share(r, m)' = 0 /\ Share(r, m) = IF m = t THEN req[r].amount ELSE 0
      BY <2>1, <2>2, <1>i DEF Share
    <3>2. leaked'[m] = IF m = t /\ month # t THEN leaked[m] + req[r].amount ELSE leaked[m]
      BY <1>7, <2>1, <1>b DEF Decrement, UsageTypeOK
    <3>3. usage'[m].used = IF m = month /\ usage[month].exists THEN usage[m].used - req[r].amount
                           ELSE usage[m].used
      BY <1>7, <2>2, <1>b DEF Decrement, UsageTypeOK, Record
    <3>4. astray'[m] = IF m = month /\ usage[month].exists /\ month # t
                       THEN astray[m] + req[r].amount ELSE astray[m]
      BY <1>7, <2>1, <2>2, <1>b DEF Decrement, UsageTypeOK
    <3>5. /\ usage[m].used \in Int /\ charged[m] \in Nat /\ leaked[m] \in Nat
          /\ astray[m] \in Nat /\ req[r].amount \in Nat
      BY <1>b, <1>n DEF UsageTypeOK, Record, Request
    <3> QED
      BY <2>1, <2>2, <3>1, <3>2, <3>3, <3>4, <3>5 DEF Balance
  <2> QED
    BY <2>2, <2>3, <1>b, LedgerMoves
<1>8. ASSUME NEW r \in Requests, Abandoned(r) PROVE Ledger'
  <2>1. req[r].taken \in Months \/ req[r].taken = 0
    BY <1>b DEF TakenInHand
  <2>2. /\ req'[r] = Idle /\ \A q \in Requests \ {r} : req'[q] = req[q]
        /\ UNCHANGED <<usage, charged, astray>>
    BY <1>8, <1>b DEF Abandoned, UsageTypeOK
  <2>3. ASSUME NEW m \in Months PROVE Balance(m)' = Balance(m) - Share(r, m) + Share(r, m)'
    <3>1. Share(r, m)' = 0 /\ Share(r, m) = IF m = req[r].taken THEN req[r].amount ELSE 0
      BY <2>2, <1>i DEF Share
    <3>2. leaked'[m] = IF m = req[r].taken THEN leaked[m] + req[r].amount ELSE leaked[m]
      BY <1>8, <2>1, <1>b, <1>n DEF Abandoned, UsageTypeOK
    <3>3. /\ usage[m].used \in Int /\ charged[m] \in Nat /\ leaked[m] \in Nat
          /\ astray[m] \in Nat /\ req[r].amount \in Nat
      BY <1>b, <1>n DEF UsageTypeOK, Record, Request
    <3> QED
      BY <2>2, <3>1, <3>2, <3>3 DEF Balance
  <2> QED
    BY <2>2, <2>3, <1>b, LedgerMoves
<1>9. ASSUME NEW l \in Limits, ChangePlan(l) PROVE Ledger'
  BY <1>9, <1>s DEF ChangePlan
<1>10. CASE TurnMonth
  BY <1>10, <1>s DEF TurnMonth
<1>11. CASE UNCHANGED usageVars
  BY <1>11, <1>s DEF usageVars
<1> QED
  BY <1>1, <1>2, <1>3, <1>4, <1>5, <1>6, <1>7, <1>8, <1>9, <1>10, <1>11 DEF UsageNext, RequestStep

LEMMA InitLedger == UsageInit => LedgerInv
<1> SUFFICES ASSUME UsageInit PROVE LedgerInv
  OBVIOUS
<1>1. QuotaBase
  BY InitQuota
<1>2. TakenInHand /\ RecordExists
  BY DEF UsageInit, TakenInHand, RecordExists, Reserved, Idle
<1>3. \A m \in Months : Held(m) = 0
  <2> SUFFICES ASSUME NEW m \in Months PROVE Held(m) = 0
    OBVIOUS
  <2>1. \A r \in Requests : Share(r, m) = 0
    BY MonthsBounded DEF UsageInit, Share, Idle
  <2>2. UNION {{r} \X (1..Share(r, m)) : r \in Requests} = {}
    BY <2>1
  <2> QED
    BY <2>2, FS_EmptySet DEF Held
<1>4. Ledger
  BY <1>3 DEF UsageInit, Ledger, NoRecord
<1> QED
  BY <1>1, <1>2, <1>4 DEF LedgerInv

\* However reservations, refunds, deaths of requests and turns of the month
\* interleave, the counter accounts for every unit it holds.
THEOREM EveryUnitAccounted == UsageSpec => []Ledger
<1>1. LedgerInv /\ [UsageNext]_usageVars => LedgerInv'
  BY QuotaStepsKeepBase, StepsKeepTaken, StepsKeepLedger DEF LedgerInv
<1>2. LedgerInv => Ledger
  BY DEF LedgerInv
<1> QED
  BY <1>1, <1>2, InitLedger, PTL DEF UsageSpec

-----------------------------------------------------------------------------
(* The Idempotency-Key hook.                                               *)

\* The handler of each request finishes within the life of the lock.
Prompt == SlowHandlers = FALSE

\* What makes mutual exclusion inductive: a request between lock and release
\* is the one the lock names.
HolderHasLock == \A r \in IdemRequests : idemReq[r].pc \in Holding => lock = r

LockInv == IdemTypeOK /\ HolderHasLock /\ LockHasHolder

LEMMA KeyStepsKeepTypes == IdemTypeOK /\ [IdemNext]_idemVars => IdemTypeOK'
<1> SUFFICES ASSUME IdemTypeOK, [IdemNext]_idemVars PROVE IdemTypeOK'
  OBVIOUS
<1> USE DEF IdemTypeOK, Positions, Answers, NoAnswer, Answer
<1>1. ASSUME NEW r \in IdemRequests, LookUp(r) PROVE IdemTypeOK'
  BY <1>1 DEF LookUp
<1>2. ASSUME NEW r \in IdemRequests, TakeLock(r) PROVE IdemTypeOK'
  BY <1>2 DEF TakeLock
<1>3. ASSUME NEW r \in IdemRequests, HandlerEnds(r) PROVE IdemTypeOK'
  BY <1>3 DEF HandlerEnds
<1>4. ASSUME NEW r \in IdemRequests, Store(r) PROVE IdemTypeOK'
  BY <1>4 DEF Store
<1>5. ASSUME NEW r \in IdemRequests, Release(r) PROVE IdemTypeOK'
  BY <1>5 DEF Release
<1>6. ASSUME NEW r \in IdemRequests, Dies(r) PROVE IdemTypeOK'
  BY <1>6 DEF Dies
<1>7. CASE LockExpires
  BY <1>7 DEF LockExpires
<1>8. CASE UNCHANGED idemVars
  BY <1>8 DEF idemVars
<1> QED
  BY <1>1, <1>2, <1>3, <1>4, <1>5, <1>6, <1>7, <1>8 DEF IdemNext, Step

\* Every state of the middleware is well typed.
THEOREM KeyTypeCorrect == IdemSpec => []IdemTypeOK
<1>1. IdemInit => IdemTypeOK
  BY DEF IdemInit, IdemTypeOK, Positions, Answers, NoAnswer
<1> QED
  BY <1>1, KeyStepsKeepTypes, PTL DEF IdemSpec

\* The lock invariant survives every step of every request: only Release,
\* of the holder, and the expiry of a dead request's lock clear it.
LEMMA StepsKeepLock == Prompt /\ LockInv /\ [IdemNext]_idemVars => LockInv'
<1> SUFFICES ASSUME Prompt, LockInv, [IdemNext]_idemVars PROVE LockInv'
  OBVIOUS
<1>t. IdemTypeOK'
  BY KeyStepsKeepTypes DEF LockInv
<1> USE NoRequestAssumption DEF LockInv, IdemTypeOK, HolderHasLock, LockHasHolder, Holding, Positions, Answer
<1>1. ASSUME NEW r \in IdemRequests, LookUp(r) PROVE LockInv'
  BY <1>1, <1>t DEF LookUp
<1>2. ASSUME NEW r \in IdemRequests, TakeLock(r) PROVE LockInv'
  BY <1>2, <1>t DEF TakeLock
<1>3. ASSUME NEW r \in IdemRequests, HandlerEnds(r) PROVE LockInv'
  BY <1>3, <1>t DEF HandlerEnds
<1>4. ASSUME NEW r \in IdemRequests, Store(r) PROVE LockInv'
  BY <1>4, <1>t DEF Store
<1>5. ASSUME NEW r \in IdemRequests, Release(r) PROVE LockInv'
  BY <1>5, <1>t DEF Release
<1>6. ASSUME NEW r \in IdemRequests, Dies(r) PROVE LockInv'
  BY <1>6, <1>t DEF Dies
<1>7. CASE LockExpires
  BY <1>7, <1>t DEF LockExpires, Prompt
<1>8. CASE UNCHANGED idemVars
  BY <1>8, <1>t DEF idemVars
<1> QED
  BY <1>1, <1>2, <1>3, <1>4, <1>5, <1>6, <1>7, <1>8 DEF IdemNext, Step

LEMMA LockStands == Prompt => (IdemSpec => []LockInv)
<1> SUFFICES ASSUME Prompt PROVE IdemSpec => []LockInv
  OBVIOUS
<1>1. IdemInit => LockInv
  BY NoRequestAssumption
  DEF IdemInit, LockInv, IdemTypeOK, HolderHasLock, LockHasHolder, Holding, Positions, Answers, NoAnswer
<1>2. LockInv /\ [IdemNext]_idemVars => LockInv'
  BY StepsKeepLock
<1> QED
  BY <1>1, <1>2, PTL DEF IdemSpec

\* With handlers faster than the lock, no two requests of a key are between
\* lock and release at once.
THEOREM Exclusion == Prompt => (IdemSpec => []OneAtATime)
<1>1. LockInv => OneAtATime
  BY DEF LockInv, HolderHasLock, OneAtATime
<1> QED
  BY <1>1, LockStands, PTL

\* With handlers faster than the lock, a lock that is set will be released or
\* belongs to a request that died.
THEOREM LockIsHeld == Prompt => (IdemSpec => []LockHasHolder)
<1>1. LockInv => LockHasHolder
  BY DEF LockInv
<1> QED
  BY <1>1, LockStands, PTL

-----------------------------------------------------------------------------
\* Where replays come from: what is cached, or about to be, is of a request
\* that ran, and a request that has not reached its handler did not run.
CachedRan ==
    /\ cache # NoRequest => cache \in ran
    /\ \A r \in IdemRequests : idemReq[r].pc = "store" => r \in ran
    /\ \A r \in IdemRequests : idemReq[r].pc \in {"new", "missed", "running"} => r \notin ran

ReplayInv == IdemTypeOK /\ CachedRan /\ ReplayMatchesBody

LEMMA StepsKeepReplays == ReplayInv /\ [IdemNext]_idemVars => ReplayInv'
<1> SUFFICES ASSUME ReplayInv, [IdemNext]_idemVars PROVE ReplayInv'
  OBVIOUS
<1>t. IdemTypeOK'
  BY KeyStepsKeepTypes DEF ReplayInv
<1> USE NoRequestAssumption DEF ReplayInv, IdemTypeOK, CachedRan, ReplayMatchesBody, Positions, Answers, Answer
<1>1. ASSUME NEW r \in IdemRequests, LookUp(r) PROVE ReplayInv'
  BY <1>1, <1>t DEF LookUp
<1>2. ASSUME NEW r \in IdemRequests, TakeLock(r) PROVE ReplayInv'
  BY <1>2, <1>t DEF TakeLock
<1>3. ASSUME NEW r \in IdemRequests, HandlerEnds(r) PROVE ReplayInv'
  BY <1>3, <1>t DEF HandlerEnds
<1>4. ASSUME NEW r \in IdemRequests, Store(r) PROVE ReplayInv'
  BY <1>4, <1>t DEF Store
<1>5. ASSUME NEW r \in IdemRequests, Release(r) PROVE ReplayInv'
  BY <1>5, <1>t DEF Release
<1>6. ASSUME NEW r \in IdemRequests, Dies(r) PROVE ReplayInv'
  BY <1>6, <1>t DEF Dies
<1>7. CASE LockExpires
  BY <1>7, <1>t DEF LockExpires
<1>8. CASE UNCHANGED idemVars
  BY <1>8, <1>t DEF idemVars
<1> QED
  BY <1>1, <1>2, <1>3, <1>4, <1>5, <1>6, <1>7, <1>8 DEF IdemNext, Step

\* Whatever handlers, locks and deaths do, a replayed response is that of
\* another request with the same body, whose handler ran.
THEOREM RepliesAreOfTheBody == IdemSpec => []ReplayMatchesBody
<1>1. IdemInit => ReplayInv
  BY DEF IdemInit, ReplayInv, IdemTypeOK, CachedRan, ReplayMatchesBody, Positions, Answers, NoAnswer
<1>2. ReplayInv => ReplayMatchesBody
  BY DEF ReplayInv
<1> QED
  BY <1>1, <1>2, StepsKeepReplays, PTL DEF IdemSpec

-----------------------------------------------------------------------------
(* Billing webhooks.                                                       *)

\* Requests hold their fields and work on emitted events; what takes effect was
\* emitted.  Nothing is emitted before the creation of the subscription.
EventInHand ==
    /\ hook \in [Hooks -> Hook]
    /\ \A h \in Hooks : hook[h].pc = "idle" <=> hook[h].event = NoEvent
    /\ \A h \in Hooks : hook[h].event # NoEvent => hook[h].event \in emitted
    /\ emitted \subseteq Events
    /\ effected \subseteq emitted
    /\ emitted # {} => "subCreated" \in emitted

\* The steps of one request are told apart by what becomes of its record.
Others(h) == \A g \in Hooks \ {h} : hook'[g] = hook[g]
Takes(h, e) ==
    /\ hook[h].pc = "idle" /\ e \in emitted
    /\ hook' = [hook EXCEPT ![h] = [pc |-> "store", event |-> e, before |-> "none"]]
Moves(h, pcs) ==
    /\ hook[h].pc # "idle"
    /\ hook' \in [Hooks -> Hook]
    /\ hook'[h].pc \in pcs /\ hook'[h].event = hook[h].event
    /\ Others(h)
Leaves(h) ==
    /\ hook[h].pc # "idle"
    /\ hook' = [hook EXCEPT ![h] = Free]

-----------------------------------------------------------------------------
LEMMA AgesAreNumbers == \A e \in Events : Age[e] \in 1..6
  BY DEF Age, Events

LEMMA InitHeld == BillInit => EventInHand
  BY DEF BillInit, EventInHand, Free, Hook, NoEvent, Events

LEMMA TakingHolds ==
    ASSUME EventInHand, NEW h \in Hooks, NEW e, Takes(h, e),
           effected' = effected, emitted' = emitted
    PROVE  EventInHand'
  BY DEF EventInHand, Takes, Hook, NoEvent, Events

LEMMA MovingHolds ==
    ASSUME EventInHand, NEW h \in Hooks, NEW pcs, "idle" \notin pcs, Moves(h, pcs),
           emitted' = emitted, effected' \subseteq effected \union {hook[h].event}
    PROVE  EventInHand'
<1>1. hook[h].event \in emitted /\ hook'[h].event \in emitted'
  BY DEF EventInHand, Moves
<1>2. \A g \in Hooks : hook'[g].pc = "idle" <=> hook'[g].event = NoEvent
  BY DEF EventInHand, Moves, Others
<1>3. \A g \in Hooks : hook'[g].event # NoEvent => hook'[g].event \in emitted'
  BY <1>1 DEF EventInHand, Moves, Others
<1> QED
  BY <1>1, <1>2, <1>3 DEF EventInHand, Moves

LEMMA LeavingHolds ==
    ASSUME EventInHand, NEW h \in Hooks, Leaves(h), effected' = effected, emitted' = emitted
    PROVE  EventInHand'
  BY DEF EventInHand, Leaves, Free, Hook, NoEvent, Events

LEMMA WorksOnEvent ==
    ASSUME EventInHand, NEW h \in Hooks, hook[h].pc # "idle"
    PROVE  hook[h].event \in emitted /\ hook[h].event \in Events
  BY DEF EventInHand

LEMMA Advances ==
    ASSUME EventInHand, NEW h \in Hooks, hook[h].pc # "idle",
           NEW pc \in {"apply", "write", "mark", "markFailed"}, HookAt(h, pc)
    PROVE  Moves(h, {pc})
  BY DEF HookAt, Moves, Others, EventInHand, Hook

LEMMA StoreMoves == ASSUME EventInHand, NEW h \in Hooks, StoreDelivery(h) PROVE Moves(h, {"apply"})
  BY Advances DEF StoreDelivery

LEMMA UpsertMoves == ASSUME EventInHand, NEW h \in Hooks, UpsertSubscription(h) PROVE Moves(h, {"mark"})
  BY Advances DEF UpsertSubscription

LEMMA CancelMoves ==
    ASSUME EventInHand, NEW h \in Hooks, MarkSubscriptionCanceled(h)
    PROVE  Moves(h, {"mark"})
  BY Advances DEF MarkSubscriptionCanceled

LEMMA InvoiceMoves == ASSUME EventInHand, NEW h \in Hooks, RecordInvoice(h) PROVE Moves(h, {"mark"})
  BY Advances DEF RecordInvoice

LEMMA ThrowMoves == ASSUME EventInHand, NEW h \in Hooks, HookThrows(h) PROVE Moves(h, {"markFailed"})
  BY Advances DEF HookThrows

LEMMA ReadMoves ==
    ASSUME EventInHand, BillTypeOK, NEW h \in Hooks, ReadBefore(h)
    PROVE  Moves(h, {"write", "mark"})
<1>1. CASE HookAt(h, "mark")
  BY <1>1, Advances DEF ReadBefore, Moves
<1>2. CASE hook' = [hook EXCEPT ![h] = [@ EXCEPT !.pc = "write",
                       !.before = IF hook[h].event = "subDeleted" THEN sub ELSE invoice]]
  <2>1. PICK b : b = IF hook[h].event = "subDeleted" THEN sub ELSE invoice
    OBVIOUS
  <2>2. b \in {"none", "ACTIVE", "PAST_DUE", "CANCELED", "OPEN", "PAID"}
    BY <2>1 DEF BillTypeOK
  <2>3. hook' = [hook EXCEPT ![h] = [hook[h] EXCEPT !.pc = "write", !.before = b]]
    BY <1>2, <2>1
  <2>4. hook[h].pc # "idle"
    BY DEF ReadBefore
  <2> QED
    BY <2>2, <2>3, <2>4 DEF Moves, Others, EventInHand, Hook
<1> QED
  BY <1>1, <1>2 DEF ReadBefore

LEMMA StepsHold ==
    ASSUME EventInHand, BillTypeOK, [BillNext]_billVars
    PROVE  EventInHand'
<1>1. ASSUME NEW e \in Events, Emit(e) PROVE EventInHand'
  BY <1>1 DEF EventInHand, Emit, history
<1>2. CASE CancelActiveSubscription
  BY <1>2, <1>1 DEF CancelActiveSubscription, Events
<1>3. ASSUME NEW h \in Hooks, NEW e \in Events, Receive(h, e) PROVE EventInHand'
  <2>1. CASE delivery[e] = "PROCESSED"
    BY <1>3, <2>1 DEF Receive, EventInHand
  <2>2. CASE delivery[e] # "PROCESSED"
    BY <1>3, <2>2, TakingHolds DEF Receive, Takes
  <2> QED
    BY <2>1, <2>2
<1>4. ASSUME NEW h \in Hooks, StoreDelivery(h) PROVE EventInHand'
  BY <1>4, StoreMoves, MovingHolds DEF StoreDelivery, history
<1>5. ASSUME NEW h \in Hooks, UpsertSubscription(h) PROVE EventInHand'
  BY <1>5, UpsertMoves, MovingHolds DEF UpsertSubscription, TakesEffect
<1>6. ASSUME NEW h \in Hooks, ReadBefore(h) PROVE EventInHand'
  BY <1>6, ReadMoves, MovingHolds DEF ReadBefore
<1>7. ASSUME NEW h \in Hooks, MarkSubscriptionCanceled(h) PROVE EventInHand'
  BY <1>7, CancelMoves, MovingHolds DEF MarkSubscriptionCanceled, TakesEffect
<1>8. ASSUME NEW h \in Hooks, RecordInvoice(h) PROVE EventInHand'
  BY <1>8, InvoiceMoves, MovingHolds DEF RecordInvoice, TakesEffect
<1>9. ASSUME NEW h \in Hooks, MarkProcessed(h) PROVE EventInHand'
  BY <1>9, LeavingHolds DEF MarkProcessed, history, HookDone, Leaves
<1>10. ASSUME NEW h \in Hooks, MarkDeliveryFailed(h) PROVE EventInHand'
  BY <1>10, LeavingHolds DEF MarkDeliveryFailed, history, HookDone, Leaves
<1>11. ASSUME NEW h \in Hooks, HookThrows(h) PROVE EventInHand'
  BY <1>11, ThrowMoves, MovingHolds DEF HookThrows
<1>12. ASSUME NEW h \in Hooks, HookDies(h) PROVE EventInHand'
  BY <1>12, LeavingHolds DEF HookDies, HookDone, Leaves
<1>13. CASE UNCHANGED billVars
  BY <1>13 DEF billVars, EventInHand
<1> QED
  BY <1>1, <1>2, <1>3, <1>4, <1>5, <1>6, <1>7, <1>8, <1>9, <1>10, <1>11, <1>12, <1>13
  DEF BillNext, HookStep

\* What a step may write of an event on its way to the end of the switch.
LEMMA EffectTyped ==
    ASSUME BillTypeOK, NEW e \in Events, TakesEffect(e)
    PROVE  effected' \subseteq Events /\ overtaken' \subseteq Objects /\ latest' \in [Objects -> 0..6]
  BY AgesAreNumbers DEF BillTypeOK, TakesEffect, ObjectOf, Objects

LEMMA NoticedTyped ==
    ASSUME BillTypeOK, NEW e \in Events, Noticed(e)
    PROVE  notices' \in [Events -> Nat]
  BY DEF BillTypeOK, Noticed

LEMMA StepsKeepTypes ==
    ASSUME EventInHand, BillTypeOK, [BillNext]_billVars
    PROVE  BillTypeOK'
<1>h. hook' \in [Hooks -> Hook]
  BY StepsHold DEF EventInHand
<1>1. ASSUME NEW e \in Events, Emit(e) PROVE BillTypeOK'
  BY <1>1 DEF BillTypeOK, Emit, history
<1>2. CASE CancelActiveSubscription
  BY <1>2, <1>1 DEF CancelActiveSubscription, Events
<1>3. ASSUME NEW h \in Hooks, NEW e \in Events, Receive(h, e) PROVE BillTypeOK'
  BY <1>3, <1>h DEF BillTypeOK, Receive, NowRepeated
<1>4. ASSUME NEW h \in Hooks, StoreDelivery(h) PROVE BillTypeOK'
  BY <1>4, <1>h DEF BillTypeOK, StoreDelivery, history
<1>5. ASSUME NEW h \in Hooks, UpsertSubscription(h) PROVE BillTypeOK'
  <2>1. CASE hook[h].event \in unusable
    BY <1>5, <1>h, <2>1 DEF BillTypeOK, UpsertSubscription
  <2>2. CASE hook[h].event \notin unusable
    <3>1. hook[h].event \in Events /\ sub' \in {"ACTIVE", "PAST_DUE"}
      BY <1>5, <2>2 DEF UpsertSubscription, StatusIn, Events
    <3> QED
      BY <1>5, <1>h, <2>2, <3>1, EffectTyped DEF BillTypeOK, UpsertSubscription
  <2> QED
    BY <2>1, <2>2
<1>6. ASSUME NEW h \in Hooks, ReadBefore(h) PROVE BillTypeOK'
  BY <1>6, <1>h DEF BillTypeOK, ReadBefore
<1>7. ASSUME NEW h \in Hooks, MarkSubscriptionCanceled(h) PROVE BillTypeOK'
  BY <1>7, <1>h, EffectTyped, NoticedTyped DEF BillTypeOK, MarkSubscriptionCanceled, Events
<1>8. ASSUME NEW h \in Hooks, RecordInvoice(h) PROVE BillTypeOK'
  <2>1. hook[h].event \in Events /\ invoice' \in {"OPEN", "PAID"}
    BY <1>8 DEF RecordInvoice, StatusIn, Events, InvoiceEvents
  <2> QED
    BY <1>8, <1>h, <2>1, EffectTyped, NoticedTyped DEF BillTypeOK, RecordInvoice
<1>9. ASSUME NEW h \in Hooks, MarkProcessed(h) PROVE BillTypeOK'
  BY <1>9, <1>h, WorksOnEvent DEF BillTypeOK, MarkProcessed, history
<1>10. ASSUME NEW h \in Hooks, MarkDeliveryFailed(h) PROVE BillTypeOK'
  BY <1>10, <1>h, WorksOnEvent DEF BillTypeOK, MarkDeliveryFailed, history
<1>11. ASSUME NEW h \in Hooks, HookThrows(h) PROVE BillTypeOK'
  BY <1>11, <1>h, WorksOnEvent, HookBoundsAssumption DEF BillTypeOK, HookThrows
<1>12. ASSUME NEW h \in Hooks, HookDies(h) PROVE BillTypeOK'
  BY <1>12, <1>h, WorksOnEvent, HookBoundsAssumption DEF BillTypeOK, HookDies
<1>13. CASE UNCHANGED billVars
  BY <1>13 DEF billVars, BillTypeOK
<1> QED
  BY <1>1, <1>2, <1>3, <1>4, <1>5, <1>6, <1>7, <1>8, <1>9, <1>10, <1>11, <1>12, <1>13
  DEF BillNext, HookStep

Base == BillTypeOK /\ EventInHand

LEMMA InitBase == BillInit => Base
<1>1. BillInit => BillTypeOK
  BY HookBoundsAssumption
  DEF BillInit, BillTypeOK, Free, Hook, NoEvent, Events, Objects
<1> QED
  BY <1>1, InitHeld DEF Base

LEMMA StepsKeepBase == Base /\ [BillNext]_billVars => Base'
  BY StepsHold, StepsKeepTypes DEF Base

\* Every state of the webhook's rows and requests is well typed.
THEOREM BillingTypeCorrect == BillSpec => []BillTypeOK
<1>1. Base => BillTypeOK
  BY DEF Base
<1> QED
  BY <1>1, InitBase, StepsKeepBase, PTL DEF BillSpec

-----------------------------------------------------------------------------
\* An event is marked PROCESSED, and acknowledged, by a request that came to the
\* end of the switch with it.
SettledEvents(e) == e \in effected \union unusable \union unplaced
EffectInv ==
    /\ \A e \in Events : delivery[e] = "PROCESSED" => SettledEvents(e)
    /\ \A h \in Hooks : hook[h].pc = "mark" => SettledEvents(hook[h].event)
    /\ AckedTookEffect

LEMMA StepsKeepEffect ==
    ASSUME Base, EffectInv, [BillNext]_billVars
    PROVE  EffectInv'
<1>b. EventInHand /\ BillTypeOK
  BY DEF Base
<1> USE DEF EffectInv, SettledEvents, AckedTookEffect
<1>m. ASSUME NEW h \in Hooks, NEW pcs, Moves(h, pcs),
             hook'[h].pc = "mark" =>
                 hook[h].event \in effected' \union unusable' \union unplaced',
             effected \subseteq effected', unplaced \subseteq unplaced', unusable' = unusable
      PROVE  \A g \in Hooks : hook'[g].pc = "mark" =>
                 hook'[g].event \in effected' \union unusable' \union unplaced'
  BY <1>m DEF Moves, Others
<1>1. ASSUME NEW e \in Events, Emit(e) PROVE EffectInv'
  BY <1>1 DEF Emit, history
<1>2. CASE CancelActiveSubscription
  BY <1>2, <1>1 DEF CancelActiveSubscription, Events
<1>3. ASSUME NEW h \in Hooks, NEW e \in Events, Receive(h, e) PROVE EffectInv'
  BY <1>3, <1>b DEF Receive, EventInHand
<1>4. ASSUME NEW h \in Hooks, StoreDelivery(h) PROVE EffectInv'
  <2>1. \A e \in Events : delivery'[e] = "PROCESSED" => delivery[e] = "PROCESSED"
    BY <1>4, <1>b DEF StoreDelivery, BillTypeOK
  <2>2. UNCHANGED <<effected, unusable, unplaced, acked>>
    BY <1>4 DEF StoreDelivery, history
  <2>3. Moves(h, {"apply"})
    BY <1>4, <1>b, StoreMoves
  <2> QED
    BY <2>1, <2>2, <2>3 DEF Moves, Others
<1>5. ASSUME NEW h \in Hooks, UpsertSubscription(h) PROVE EffectInv'
  <2>1. Moves(h, {"mark"})
    BY <1>5, <1>b, UpsertMoves
  <2>2. UNCHANGED <<delivery, acked, unusable, unplaced>> /\ effected \subseteq effected'
    BY <1>5 DEF UpsertSubscription, TakesEffect
  <2>3. hook[h].event \in effected' \union unusable'
    BY <1>5, <2>2 DEF UpsertSubscription, TakesEffect
  <2>4. \A g \in Hooks : hook'[g].pc = "mark" =>
           hook'[g].event \in effected' \union unusable' \union unplaced'
    BY <1>m, <2>1, <2>2, <2>3
  <2> QED
    BY <2>2, <2>4
<1>6. ASSUME NEW h \in Hooks, ReadBefore(h) PROVE EffectInv'
  <2>1. Moves(h, {"write", "mark"})
    BY <1>6, <1>b, ReadMoves
  <2>2. hook'[h].pc = "mark" => hook[h].event \in effected' \union unusable' \union unplaced'
    <3>1. CASE hook[h].event \in unusable \/ (hook[h].event \in InvoiceEvents /\ sub = "none")
      <4>1. unusable' = unusable
        BY <1>6 DEF ReadBefore
      <4>2. hook[h].event \notin unusable => hook[h].event \in unplaced'
        BY <1>6, <3>1 DEF ReadBefore
      <4> QED
        BY <4>1, <4>2
    <3>2. CASE ~(hook[h].event \in unusable \/ (hook[h].event \in InvoiceEvents /\ sub = "none"))
      <4>1. hook' = [hook EXCEPT ![h] = [@ EXCEPT !.pc = "write",
                         !.before = IF hook[h].event = "subDeleted" THEN sub ELSE invoice]]
        BY <1>6, <3>2 DEF ReadBefore
      <4>2. hook'[h].pc = "write"
        BY <1>b, <4>1 DEF EventInHand, Hook
      <4> QED
        BY <4>2
    <3> QED
      BY <3>1, <3>2
  <2>3. UNCHANGED <<delivery, acked, effected, unusable>> /\ unplaced \subseteq unplaced'
    BY <1>6 DEF ReadBefore
  <2> QED
    BY <1>m, <2>1, <2>2, <2>3
<1>7. ASSUME NEW h \in Hooks, MarkSubscriptionCanceled(h) PROVE EffectInv'
  BY <1>7, <1>b, <1>m, CancelMoves DEF MarkSubscriptionCanceled, TakesEffect
<1>8. ASSUME NEW h \in Hooks, RecordInvoice(h) PROVE EffectInv'
  BY <1>8, <1>b, <1>m, InvoiceMoves DEF RecordInvoice, TakesEffect
<1>9. ASSUME NEW h \in Hooks, MarkProcessed(h) PROVE EffectInv'
  BY <1>9, <1>b, WorksOnEvent DEF MarkProcessed, history, HookDone, EventInHand, Free, BillTypeOK
<1>10. ASSUME NEW h \in Hooks, MarkDeliveryFailed(h) PROVE EffectInv'
  BY <1>10, <1>b, WorksOnEvent DEF MarkDeliveryFailed, history, HookDone, EventInHand, Free, BillTypeOK
<1>11. ASSUME NEW h \in Hooks, HookThrows(h) PROVE EffectInv'
  BY <1>11, <1>b, <1>m, ThrowMoves DEF HookThrows, Moves
<1>12. ASSUME NEW h \in Hooks, HookDies(h) PROVE EffectInv'
  BY <1>12, <1>b DEF HookDies, HookDone, EventInHand, Free
<1>13. CASE UNCHANGED billVars
  BY <1>13 DEF billVars
<1> QED
  BY <1>1, <1>2, <1>3, <1>4, <1>5, <1>6, <1>7, <1>8, <1>9, <1>10, <1>11, <1>12, <1>13
  DEF BillNext, HookStep

\* What was answered 200, and is not delivered again, wrote its row or was
\* passed over by the handler itself, whatever throws and dies and however the
\* requests overlap.
THEOREM NothingAckedIsLost == BillSpec => []AckedTookEffect
<1>1. BillInit => EffectInv
  BY DEF BillInit, EffectInv, SettledEvents, AckedTookEffect, Free
<1>2. Base /\ EffectInv /\ [BillNext]_billVars => (Base /\ EffectInv)'
  BY StepsKeepBase, StepsKeepEffect
<1>3. EffectInv => AckedTookEffect
  BY DEF EffectInv
<1> QED
  BY <1>1, <1>2, <1>3, InitBase, PTL DEF BillSpec

-----------------------------------------------------------------------------
\* An event nobody repeated is with one request at most; until that request has
\* written, nothing was notified, and it either gets through or repeats.
Once(e) ==
    /\ notices[e] <= 1
    /\ \A g, h \in Hooks : hook[g].event = e /\ hook[h].event = e => g = h
    /\ \A h \in Hooks : hook[h].event = e => hook[h].pc # "markFailed"
    /\ \A h \in Hooks : hook[h].event = e /\ hook[h].pc \in {"store", "apply", "write"}
                          => notices[e] = 0
    /\ (delivery[e] # "PROCESSED" /\ \A h \in Hooks : hook[h].event # e) => notices[e] = 0
NoticeInv == \A e \in Events : e \notin repeated => Once(e)

LEMMA MovingNotifiesOnce ==
    ASSUME Base, NoticeInv, NEW h \in Hooks, Moves(h, {"apply", "write", "mark"}),
           repeated' = repeated,
           \A e \in Events : delivery'[e] = "PROCESSED" <=> delivery[e] = "PROCESSED",
           \/ notices' = notices /\ (hook[h].pc = "mark" => hook'[h].pc = "mark")
           \/ Noticed(hook[h].event) /\ hook[h].pc = "write" /\ hook'[h].pc = "mark"
    PROVE  NoticeInv'
<1>h. hook[h].event \in Events
  BY WorksOnEvent DEF Base, Moves
<1>t. notices \in [Events -> Nat]
  BY DEF Base, BillTypeOK
<1> SUFFICES ASSUME NEW e \in Events, e \notin repeated PROVE Once(e)'
  BY DEF NoticeInv
<1>o. Once(e)
  BY DEF NoticeInv
<1>e. \A g \in Hooks : hook'[g].event = hook[g].event
  BY DEF Moves, Others
<1>1. CASE hook[h].event # e
  <2>1. notices'[e] = notices[e]
    BY <1>1, <1>t DEF Noticed
  <2>2. \A g \in Hooks : hook[g].event = e => hook'[g] = hook[g]
    BY <1>1 DEF Moves, Others
  <2> QED
    BY <1>o, <1>e, <2>1, <2>2 DEF Once
<1>2. CASE hook[h].event = e
  <2>1. \A g \in Hooks : hook[g].event = e => g = h
    BY <1>o, <1>2 DEF Once
  <2>2. hook[h].pc \in {"store", "apply", "write", "mark"}
    BY <1>o, <1>2 DEF Once, Base, EventInHand, Hook, Moves
  <2>3. CASE notices' = notices /\ (hook[h].pc = "mark" => hook'[h].pc = "mark")
    <3>1. hook'[h].pc \in {"store", "apply", "write"} => notices'[e] = 0
      BY <1>o, <1>2, <2>2, <2>3 DEF Once
    <3> QED
      BY <1>o, <1>e, <1>2, <2>1, <2>3, <3>1 DEF Once, Moves
  <2>4. CASE Noticed(hook[h].event) /\ hook[h].pc = "write" /\ hook'[h].pc = "mark"
    <3>1. notices[e] = 0
      BY <1>o, <1>2, <2>4 DEF Once
    <3>2. notices'[e] = 1
      BY <1>t, <1>2, <2>4, <3>1 DEF Noticed
    <3> QED
      BY <1>e, <1>2, <2>1, <2>4, <3>2 DEF Once
  <2> QED
    BY <2>3, <2>4
<1> QED
  BY <1>1, <1>2

LEMMA LeavingNotifiesOnce ==
    ASSUME Base, NoticeInv, NEW h \in Hooks, Leaves(h), notices' = notices,
           repeated \subseteq repeated',
           \A e \in Events : e # hook[h].event => delivery'[e] = delivery[e],
           hook[h].event \in repeated' \/ delivery'[hook[h].event] = "PROCESSED"
    PROVE  NoticeInv'
<1> SUFFICES ASSUME NEW e \in Events, e \notin repeated' PROVE Once(e)'
  BY DEF NoticeInv
<1>o. Once(e)
  BY DEF NoticeInv
<1>f. hook'[h].event # e /\ \A g \in Hooks \ {h} : hook'[g] = hook[g]
  BY DEF Leaves, Free, NoEvent, Events, Base, EventInHand
<1>1. CASE hook[h].event # e
  BY <1>1, <1>o, <1>f DEF Once
<1>2. CASE hook[h].event = e
  BY <1>2, <1>o, <1>f DEF Once
<1> QED
  BY <1>1, <1>2

LEMMA StepsNotifyOnce ==
    ASSUME Base, NoticeInv, [BillNext]_billVars
    PROVE  NoticeInv'
<1>b. EventInHand /\ BillTypeOK
  BY DEF Base
<1>1. ASSUME NEW e \in Events, Emit(e) PROVE NoticeInv'
  BY <1>1 DEF Emit, history, NoticeInv, Once
<1>2. CASE CancelActiveSubscription
  BY <1>2, <1>1 DEF CancelActiveSubscription, Events
<1>3. ASSUME NEW h \in Hooks, NEW e \in Events, Receive(h, e) PROVE NoticeInv'
  <2>1. CASE delivery[e] = "PROCESSED"
    BY <1>3, <2>1 DEF Receive, NoticeInv, Once
  <2>2. CASE delivery[e] # "PROCESSED"
    <3> SUFFICES ASSUME NEW d \in Events, d \notin repeated' PROVE Once(d)'
      BY DEF NoticeInv
    <3>1. d \notin repeated
      BY <1>3, <2>2 DEF Receive, NowRepeated
    <3>2. Once(d)
      BY <3>1 DEF NoticeInv
    <3>3. /\ hook'[h] = [pc |-> "store", event |-> e, before |-> "none"]
          /\ \A g \in Hooks \ {h} : hook'[g] = hook[g]
          /\ notices' = notices /\ delivery' = delivery
      BY <1>3, <1>b, <2>2 DEF Receive, EventInHand
    <3>4. hook[h].event = NoEvent
      BY <1>3, <1>b, <2>2 DEF Receive, EventInHand
    <3>5. CASE d = e
      <4>1. \A g \in Hooks \ {h} : hook[g].event # e
        BY <1>3, <2>2, <3>5 DEF Receive, NowRepeated
      <4>2. notices[e] = 0
        BY <2>2, <3>2, <3>4, <3>5, <4>1 DEF Once, NoEvent, Events
      <4> QED
        BY <3>2, <3>3, <3>5, <4>1, <4>2 DEF Once
    <3>6. CASE d # e
      BY <3>2, <3>3, <3>4, <3>6 DEF Once, NoEvent, Events
    <3> QED
      BY <3>5, <3>6
  <2> QED
    BY <2>1, <2>2
<1>4. ASSUME NEW h \in Hooks, StoreDelivery(h) PROVE NoticeInv'
  <2>1. Moves(h, {"apply", "write", "mark"})
    BY <1>4, <1>b, StoreMoves DEF Moves
  <2>2. \A e \in Events : delivery'[e] = "PROCESSED" <=> delivery[e] = "PROCESSED"
    BY <1>4, <1>b DEF StoreDelivery, BillTypeOK
  <2>3. UNCHANGED <<repeated, notices>> /\ hook[h].pc # "mark"
    BY <1>4 DEF StoreDelivery, history
  <2> QED
    BY <2>1, <2>2, <2>3, MovingNotifiesOnce
<1>5. ASSUME NEW h \in Hooks, UpsertSubscription(h) PROVE NoticeInv'
  <2>1. Moves(h, {"apply", "write", "mark"})
    BY <1>5, <1>b, UpsertMoves DEF Moves
  <2>2. UNCHANGED <<repeated, notices, delivery>> /\ hook[h].pc # "mark"
    BY <1>5 DEF UpsertSubscription
  <2> QED
    BY <2>1, <2>2, MovingNotifiesOnce
<1>6. ASSUME NEW h \in Hooks, ReadBefore(h) PROVE NoticeInv'
  <2>1. Moves(h, {"apply", "write", "mark"})
    BY <1>6, <1>b, ReadMoves DEF Moves
  <2>2. UNCHANGED <<repeated, notices, delivery>> /\ hook[h].pc # "mark"
    BY <1>6 DEF ReadBefore
  <2> QED
    BY <2>1, <2>2, MovingNotifiesOnce
<1>7. ASSUME NEW h \in Hooks, MarkSubscriptionCanceled(h) PROVE NoticeInv'
  <2>1. Moves(h, {"mark"})
    BY <1>7, <1>b, CancelMoves
  <2>2. Moves(h, {"apply", "write", "mark"}) /\ hook'[h].pc = "mark"
    BY <2>1 DEF Moves
  <2>3. UNCHANGED <<repeated, delivery>> /\ hook[h].pc = "write"
    BY <1>7 DEF MarkSubscriptionCanceled
  <2>4. notices' = notices \/ Noticed(hook[h].event)
    BY <1>7 DEF MarkSubscriptionCanceled
  <2> QED
    BY <2>2, <2>3, <2>4, MovingNotifiesOnce
<1>8. ASSUME NEW h \in Hooks, RecordInvoice(h) PROVE NoticeInv'
  <2>1. Moves(h, {"mark"})
    BY <1>8, <1>b, InvoiceMoves
  <2>2. Moves(h, {"apply", "write", "mark"}) /\ hook'[h].pc = "mark"
    BY <2>1 DEF Moves
  <2>3. UNCHANGED <<repeated, delivery>> /\ hook[h].pc = "write"
    BY <1>8 DEF RecordInvoice
  <2>4. notices' = notices \/ Noticed(hook[h].event)
    BY <1>8 DEF RecordInvoice
  <2> QED
    BY <2>2, <2>3, <2>4, MovingNotifiesOnce
<1>9. ASSUME NEW h \in Hooks, MarkProcessed(h) PROVE NoticeInv'
  <2>1. hook[h].event \in Events
    BY <1>9, <1>b, WorksOnEvent DEF MarkProcessed
  <2> QED
    BY <1>9, <1>b, <2>1, LeavingNotifiesOnce
    DEF MarkProcessed, history, HookDone, Leaves, BillTypeOK
<1>10. ASSUME NEW h \in Hooks, MarkDeliveryFailed(h) PROVE NoticeInv'
  <2>1. hook[h].event \in Events
    BY <1>10, <1>b, WorksOnEvent DEF MarkDeliveryFailed
  <2>2. hook[h].event \in repeated
    BY <1>10, <2>1 DEF MarkDeliveryFailed, NoticeInv, Once
  <2> QED
    BY <1>10, <1>b, <2>1, <2>2, LeavingNotifiesOnce
    DEF MarkDeliveryFailed, history, HookDone, Leaves, BillTypeOK
<1>11. ASSUME NEW h \in Hooks, HookThrows(h) PROVE NoticeInv'
  <2>1. Moves(h, {"markFailed"})
    BY <1>11, <1>b, ThrowMoves
  <2>2. repeated' = repeated \union {hook[h].event} /\ UNCHANGED <<notices, delivery>>
    BY <1>11 DEF HookThrows
  <2> QED
    BY <2>1, <2>2 DEF NoticeInv, Once, Moves, Others
<1>12. ASSUME NEW h \in Hooks, HookDies(h) PROVE NoticeInv'
  BY <1>12, LeavingNotifiesOnce DEF HookDies, HookDone, Leaves
<1>13. CASE UNCHANGED billVars
  BY <1>13 DEF billVars, NoticeInv, Once
<1> QED
  BY <1>1, <1>2, <1>3, <1>4, <1>5, <1>6, <1>7, <1>8, <1>9, <1>10, <1>11, <1>12, <1>13
  DEF BillNext, HookStep

\* A delivery repeated after the first was carried through notifies nobody again.
THEOREM NotifiedOnce == BillSpec => []NoticeOncePerEvent
<1>1. BillInit => NoticeInv
  BY DEF BillInit, NoticeInv, Once, Free, NoEvent, Events
<1>2. Base /\ NoticeInv /\ [BillNext]_billVars => (Base /\ NoticeInv)'
  BY StepsKeepBase, StepsNotifyOnce
<1>3. NoticeInv => NoticeOncePerEvent
  BY DEF NoticeInv, Once, NoticeOncePerEvent
<1> QED
  BY <1>1, <1>2, <1>3, InitBase, PTL DEF BillSpec

-----------------------------------------------------------------------------
\* latest is the age of the newest event applied to an object, and the object's
\* row bears its status unless the last to write it was older.
MirrorInv ==
    /\ \A e \in effected : Age[e] <= latest[ObjectOf(e)]
    /\ \A o \in Objects : latest[o] # 0 => \E e \in effected : ObjectOf(e) = o /\ Age[e] = latest[o]
    /\ "sub" \notin overtaken =>
          \A e \in SubEvents : Age[e] = latest["sub"] => sub = StatusIn(e)
    /\ "invoice" \notin overtaken =>
          \A e \in InvoiceEvents : Age[e] = latest["invoice"] => invoice = StatusIn(e)

LEMMA AgesDiffer == \A d, e \in Events : Age[d] = Age[e] => d = e
  BY DEF Age, Events

LEMMA ObjectsOfEvents ==
    /\ \A e \in Events : ObjectOf(e) \in Objects
    /\ \A e \in Events : ObjectOf(e) = "sub" <=> e \in SubEvents
    /\ \A e \in Events : ObjectOf(e) = "invoice" <=> e \in InvoiceEvents
    /\ SubEvents \subseteq Events /\ InvoiceEvents \subseteq Events
  BY DEF ObjectOf, Objects, Events, SubEvents, InvoiceEvents

\* The counters of TakesEffect, whatever the row becomes.
LEMMA EffectRecorded ==
    ASSUME Base, MirrorInv, NEW e \in Events, TakesEffect(e)
    PROVE  /\ \A d \in effected' : Age[d] <= latest'[ObjectOf(d)]
           /\ \A o \in Objects :
                 latest'[o] # 0 => \E d \in effected' : ObjectOf(d) = o /\ Age[d] = latest'[o]
           /\ ObjectOf(e) \notin overtaken' => latest'[ObjectOf(e)] = Age[e]
           /\ \A o \in Objects : o # ObjectOf(e) =>
                 latest'[o] = latest[o] /\ (o \in overtaken' <=> o \in overtaken)
<1>1. /\ latest \in [Objects -> 0..6] /\ effected \subseteq Events
      /\ ObjectOf(e) \in Objects /\ Age[e] \in 1..6
      /\ \A d \in effected : ObjectOf(d) \in Objects /\ Age[d] \in 1..6
  BY ObjectsOfEvents, AgesAreNumbers DEF Base, BillTypeOK
<1>2. CASE Age[e] > latest[ObjectOf(e)]
  <2>1. latest' = [latest EXCEPT ![ObjectOf(e)] = Age[e]]
        /\ overtaken' = overtaken \ {ObjectOf(e)}
        /\ effected' = effected \union {e}
    BY <1>1, <1>2 DEF TakesEffect
  <2>2. latest'[ObjectOf(e)] = Age[e]
        /\ \A o \in Objects : o # ObjectOf(e) => latest'[o] = latest[o]
    BY <1>1, <2>1
  <2>3. \A d \in effected' : Age[d] <= latest'[ObjectOf(d)]
    BY <1>1, <1>2, <2>1, <2>2 DEF MirrorInv
  <2>4. \A o \in Objects :
           latest'[o] # 0 => \E d \in effected' : ObjectOf(d) = o /\ Age[d] = latest'[o]
    BY <1>1, <2>1, <2>2 DEF MirrorInv
  <2> QED
    BY <2>1, <2>2, <2>3, <2>4
<1>3. CASE ~(Age[e] > latest[ObjectOf(e)])
  <2>1. latest' = latest /\ effected' = effected \union {e}
        /\ overtaken' = IF Age[e] < latest[ObjectOf(e)]
                        THEN overtaken \union {ObjectOf(e)} ELSE overtaken \ {ObjectOf(e)}
    BY <1>1, <1>3 DEF TakesEffect
  <2>2. \A d \in effected' : Age[d] <= latest'[ObjectOf(d)]
    BY <1>1, <1>3, <2>1 DEF MirrorInv
  <2> QED
    BY <1>1, <1>3, <2>1, <2>2 DEF MirrorInv
<1> QED
  BY <1>2, <1>3

LEMMA StepsKeepMirror ==
    ASSUME Base, MirrorInv, [BillNext]_billVars
    PROVE  MirrorInv'
<1>b. EventInHand /\ BillTypeOK
  BY DEF Base
<1> USE ObjectsOfEvents
<1>1. ASSUME NEW e \in Events, Emit(e) PROVE MirrorInv'
  BY <1>1 DEF Emit, history, MirrorInv
<1>2. CASE CancelActiveSubscription
  BY <1>2, <1>1 DEF CancelActiveSubscription, Events
<1>3. ASSUME NEW h \in Hooks, NEW e \in Events, Receive(h, e) PROVE MirrorInv'
  BY <1>3 DEF Receive, MirrorInv
<1>4. ASSUME NEW h \in Hooks, StoreDelivery(h) PROVE MirrorInv'
  BY <1>4 DEF StoreDelivery, history, MirrorInv
<1>5. ASSUME NEW h \in Hooks, UpsertSubscription(h) PROVE MirrorInv'
  <2>1. PICK e \in SubEvents : e = hook[h].event
    BY <1>5 DEF UpsertSubscription, SubEvents
  <2>2. invoice' = invoice
    BY <1>5 DEF UpsertSubscription
  <2>3. CASE e \in unusable
    BY <1>5, <2>1, <2>2, <2>3 DEF UpsertSubscription, MirrorInv
  <2>4. CASE e \notin unusable
    <3>1. TakesEffect(e) /\ sub' = StatusIn(e)
      BY <1>5, <2>1, <2>4 DEF UpsertSubscription
    <3>2. "sub" \notin overtaken' => latest'["sub"] = Age[e]
      BY <3>1, EffectRecorded
    <3>3. latest'["invoice"] = latest["invoice"]
          /\ ("invoice" \in overtaken' <=> "invoice" \in overtaken)
      BY <3>1, EffectRecorded DEF Objects
    <3>4. "sub" \notin overtaken' =>
             \A d \in SubEvents : Age[d] = latest'["sub"] => sub' = StatusIn(d)
      BY <3>1, <3>2, AgesDiffer
    <3> QED
      BY <2>2, <3>1, <3>3, <3>4, EffectRecorded DEF MirrorInv
  <2> QED
    BY <2>3, <2>4
<1>6. ASSUME NEW h \in Hooks, ReadBefore(h) PROVE MirrorInv'
  BY <1>6 DEF ReadBefore, MirrorInv
<1>7. ASSUME NEW h \in Hooks, MarkSubscriptionCanceled(h) PROVE MirrorInv'
  <2>1. "subDeleted" \in SubEvents /\ invoice' = invoice
    BY <1>7 DEF MarkSubscriptionCanceled, SubEvents
  <2>2. CASE sub = "none"
    BY <1>7, <2>2 DEF MarkSubscriptionCanceled, MirrorInv
  <2>3. CASE sub # "none"
    <3>1. TakesEffect("subDeleted") /\ sub' = StatusIn("subDeleted")
      BY <1>7, <2>3 DEF MarkSubscriptionCanceled, StatusIn
    <3>2. "sub" \notin overtaken' => latest'["sub"] = Age["subDeleted"]
      BY <2>1, <3>1, EffectRecorded
    <3>3. latest'["invoice"] = latest["invoice"]
          /\ ("invoice" \in overtaken' <=> "invoice" \in overtaken)
      BY <2>1, <3>1, EffectRecorded DEF Objects
    <3>4. "sub" \notin overtaken' =>
             \A d \in SubEvents : Age[d] = latest'["sub"] => sub' = StatusIn(d)
      BY <2>1, <3>1, <3>2, AgesDiffer
    <3> QED
      BY <2>1, <3>1, <3>3, <3>4, EffectRecorded DEF MirrorInv
  <2> QED
    BY <2>2, <2>3
<1>8. ASSUME NEW h \in Hooks, RecordInvoice(h) PROVE MirrorInv'
  <2>1. PICK e \in InvoiceEvents : e = hook[h].event /\ TakesEffect(e) /\ invoice' = StatusIn(e)
    BY <1>8 DEF RecordInvoice
  <2>2. sub' = sub
    BY <1>8 DEF RecordInvoice
  <2>3. "invoice" \notin overtaken' => latest'["invoice"] = Age[e]
    BY <2>1, EffectRecorded
  <2>4. latest'["sub"] = latest["sub"] /\ ("sub" \in overtaken' <=> "sub" \in overtaken)
    BY <2>1, EffectRecorded DEF Objects
  <2>5. "invoice" \notin overtaken' =>
           \A d \in InvoiceEvents : Age[d] = latest'["invoice"] => invoice' = StatusIn(d)
    BY <2>1, <2>3, AgesDiffer
  <2> QED
    BY <2>1, <2>2, <2>4, <2>5, EffectRecorded DEF MirrorInv
<1>9. ASSUME NEW h \in Hooks, MarkProcessed(h) PROVE MirrorInv'
  BY <1>9 DEF MarkProcessed, history, MirrorInv
<1>10. ASSUME NEW h \in Hooks, MarkDeliveryFailed(h) PROVE MirrorInv'
  BY <1>10 DEF MarkDeliveryFailed, history, MirrorInv
<1>11. ASSUME NEW h \in Hooks, HookThrows(h) PROVE MirrorInv'
  BY <1>11 DEF HookThrows, MirrorInv
<1>12. ASSUME NEW h \in Hooks, HookDies(h) PROVE MirrorInv'
  BY <1>12 DEF HookDies, MirrorInv
<1>13. CASE UNCHANGED billVars
  BY <1>13 DEF billVars, MirrorInv
<1> QED
  BY <1>1, <1>2, <1>3, <1>4, <1>5, <1>6, <1>7, <1>8, <1>9, <1>10, <1>11, <1>12, <1>13
  DEF BillNext, HookStep

\* Of some events of one object there is a newest one.
LEMMA NewestExists ==
    ASSUME NEW S, S # {}, S \subseteq SubEvents \/ S \subseteq InvoiceEvents
    PROVE  NewestOf(S) \in S /\ \A d \in S : Age[d] <= Age[NewestOf(S)]
<1>1. \E e \in S : \A d \in S : Age[d] <= Age[e]
  <2>1. CASE S \subseteq SubEvents
    <3>1. /\ Age["subCreated"] = 1 /\ Age["subPastDue"] = 4 /\ Age["subDeleted"] = 6
      BY DEF Age
    <3>2. CASE "subDeleted" \in S
      BY <2>1, <3>1, <3>2 DEF SubEvents
    <3>3. CASE "subDeleted" \notin S /\ "subPastDue" \in S
      BY <2>1, <3>1, <3>3 DEF SubEvents
    <3>4. CASE "subDeleted" \notin S /\ "subPastDue" \notin S
      <4>1. S = {"subCreated"}
        BY <2>1, <3>4 DEF SubEvents
      <4> QED
        BY <3>1, <4>1
    <3> QED
      BY <3>2, <3>3, <3>4
  <2>2. CASE S \subseteq InvoiceEvents
    <3>1. /\ Age["invFinalized"] = 2 /\ Age["invFailed"] = 3 /\ Age["invPaid"] = 5
      BY DEF Age
    <3>2. CASE "invPaid" \in S
      BY <2>2, <3>1, <3>2 DEF InvoiceEvents
    <3>3. CASE "invPaid" \notin S /\ "invFailed" \in S
      BY <2>2, <3>1, <3>3 DEF InvoiceEvents
    <3>4. CASE "invPaid" \notin S /\ "invFailed" \notin S
      <4>1. S = {"invFinalized"}
        BY <2>2, <3>4 DEF InvoiceEvents
      <4> QED
        BY <3>1, <4>1
    <3> QED
      BY <3>2, <3>3, <3>4
  <2> QED
    BY <2>1, <2>2
<1> QED
  BY <1>1 DEF NewestOf

\* Where the newest event of an object was applied, latest is its age.
LEMMA LatestIsNewest ==
    ASSUME Base, MirrorInv, NEW o \in Objects, NEW S, S # {},
           S = {e \in emitted : ObjectOf(e) = o}, NewestOf(S) \in effected
    PROVE  NewestOf(S) \in S /\ Age[NewestOf(S)] = latest[o]
<1>1. S \subseteq Events /\ effected \subseteq emitted /\ emitted \subseteq Events
      /\ latest[o] \in 0..6
  BY DEF Base, EventInHand, BillTypeOK
<1>2. S \subseteq SubEvents \/ S \subseteq InvoiceEvents
  BY <1>1, ObjectsOfEvents DEF Objects
<1>3. NewestOf(S) \in S /\ \A d \in S : Age[d] <= Age[NewestOf(S)]
  BY <1>2, NewestExists
<1>4. Age[NewestOf(S)] <= latest[o] /\ Age[NewestOf(S)] \in 1..6
  BY <1>1, <1>3, AgesAreNumbers DEF MirrorInv
<1>5. PICK e \in effected : ObjectOf(e) = o /\ Age[e] = latest[o]
  BY <1>1, <1>4 DEF MirrorInv
<1>6. e \in S
  BY <1>1, <1>5
<1>7. Age[e] <= Age[NewestOf(S)]
  BY <1>3, <1>6
<1> QED
  BY <1>1, <1>3, <1>4, <1>5, <1>7

LEMMA MirrorsWhenAnswered ==
    ASSUME Base, EffectInv, MirrorInv
    PROVE  MirrorsStripe
<1> SUFFICES ASSUME emitted \subseteq acked
             PROVE  /\ Mirrors(sub, "sub", emitted \intersect SubEvents)
                    /\ Mirrors(invoice, "invoice", emitted \intersect InvoiceEvents)
  BY DEF MirrorsStripe
<1>1. emitted \subseteq effected \union unusable \union unplaced /\ emitted \subseteq Events
  BY DEF EffectInv, AckedTookEffect, Base, BillTypeOK
<1>2. ASSUME NEW o \in Objects, NEW S, S = {e \in emitted : ObjectOf(e) = o}, S # {},
             NewestOf(S) \notin (unusable \union unplaced) \ effected
      PROVE  NewestOf(S) \in S /\ Age[NewestOf(S)] = latest[o]
  <2>1. S \subseteq SubEvents \/ S \subseteq InvoiceEvents
    BY <1>1, <1>2, ObjectsOfEvents DEF Objects
  <2>2. NewestOf(S) \in S
    BY <1>2, <2>1, NewestExists
  <2>3. NewestOf(S) \in effected
    BY <1>1, <1>2, <2>2
  <2> QED
    BY <1>2, <2>3, LatestIsNewest
<1>3. Mirrors(sub, "sub", emitted \intersect SubEvents)
  <2>1. emitted \intersect SubEvents = {e \in emitted : ObjectOf(e) = "sub"}
    BY <1>1, ObjectsOfEvents
  <2> QED
    BY <1>2, <2>1 DEF Mirrors, MirrorInv, Objects
<1>4. Mirrors(invoice, "invoice", emitted \intersect InvoiceEvents)
  <2>1. emitted \intersect InvoiceEvents = {e \in emitted : ObjectOf(e) = "invoice"}
    BY <1>1, ObjectsOfEvents
  <2> QED
    BY <1>2, <2>1 DEF Mirrors, MirrorInv, Objects
<1> QED
  BY <1>3, <1>4

\* When everything is answered each row says what Stripe says, unless the newest
\* event of the object was passed over (an object that cannot be used, no row for
\* its subscription) or an older event was applied after a newer one: overlaps,
\* repetitions and failures make no difference of their own.
THEOREM RowsMirrorStripe == BillSpec => []MirrorsStripe
<1>1. BillInit => EffectInv /\ MirrorInv
  <2>1. BillInit => EffectInv
    BY DEF BillInit, EffectInv, SettledEvents, AckedTookEffect, Free
  <2>2. BillInit => MirrorInv
    BY AgesAreNumbers, ObjectsOfEvents DEF BillInit, MirrorInv, Objects
  <2> QED
    BY <2>1, <2>2
<1>2. Base /\ EffectInv /\ MirrorInv /\ [BillNext]_billVars => (Base /\ EffectInv /\ MirrorInv)'
  BY StepsKeepBase, StepsKeepEffect, StepsKeepMirror
<1>3. Base /\ EffectInv /\ MirrorInv => MirrorsStripe
  BY MirrorsWhenAnswered
<1> QED
  BY <1>1, <1>2, <1>3, InitBase, PTL DEF BillSpec

-----------------------------------------------------------------------------
(* The composition.                                                        *)

\* A step of the composition is a step of the service that has the focus, and
\* leaves the others where they are.
LEMMA StepsOfServices ==
    ASSUME [Next]_vars
    PROVE  /\ [OtpNext]_otpVars /\ [SessNext]_sessVars /\ [BillNext]_billVars
           /\ [UsageNext]_usageVars /\ [IdemNext]_idemVars /\ [ResNext]_resVars
  BY DEF Next, vars

\* The composition implements the specification of every service in it: the
\* initial states are theirs, and a step of one is a stutter of the others
\* (they are called by separate routes and share no row and no key).
THEOREM EveryServiceKeepsItsSpec ==
    Spec => /\ OtpSpec /\ SessSpec /\ BillSpec /\ UsageSpec /\ IdemSpec /\ ResSpec
<1>1. Init => /\ OtpInit /\ SessInit /\ BillInit /\ UsageInit /\ IdemInit /\ ResInit
  BY DEF Init
<1>2. [Next]_vars => /\ [OtpNext]_otpVars /\ [SessNext]_sessVars /\ [BillNext]_billVars
                     /\ [UsageNext]_usageVars /\ [IdemNext]_idemVars /\ [ResNext]_resVars
  BY StepsOfServices
<1> QED
  BY <1>1, <1>2, PTL DEF Spec, OtpSpec, SessSpec, BillSpec, UsageSpec, IdemSpec, ResSpec

LEMMA FocusStays == Spec => [](focus \in Services)
<1>1. Init => focus \in Services
  BY DEF Init
<1>2. focus \in Services /\ [Next]_vars => (focus \in Services)'
  BY DEF Next, vars
<1> QED
  BY <1>1, <1>2, PTL DEF Spec

\* Whichever service moves, its rows keep their types: the rows of the users,
\* codes, sessions, subscriptions, counters and results that the routes
\* of src/apps/api read and write.
THEOREM ServicesTypeCorrect == Spec => []ServicesTypeOK
<1>1. /\ focus \in Services /\ OtpTypeOK /\ SessTypeOK /\ BillTypeOK /\ UsageTypeOK
      /\ IdemTypeOK /\ ResTypeOK
      => ServicesTypeOK
  BY DEF ServicesTypeOK, Services
<1> QED
  BY <1>1, EveryServiceKeepsItsSpec, FocusStays, CodesTypeCorrect, SessionsTypeCorrect,
     BillingTypeCorrect, QuotaTypeCorrect, KeyTypeCorrect, RowsTypeCorrect, PTL
=============================================================================
