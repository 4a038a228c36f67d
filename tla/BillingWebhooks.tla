-------------------------- MODULE BillingWebhooks --------------------------
(***************************************************************************)
(* Stripe's events about one subscription and its invoice, delivered at    *)
(* least once and in any order to POST /billing/webhook, and the rows and  *)
(* notifications handleWebhookEvent makes of them.  Every statement of the *)
(* handler is a step; Stripe repeats a delivery until one is answered 200  *)
(* and now and then after that.                                            *)
(***************************************************************************)
EXTENDS Naturals, FiniteSets

CONSTANTS
    Hooks,          \* concurrent webhook requests
    MaxEvents,      \* bound: events emitted
    MaxHookFaults   \* bound: statements that throw, processes that die

ASSUME HookBoundsAssumption == MaxEvents \in Nat /\ MaxHookFaults \in Nat

\* The events, in the order Stripe emits them, and what their objects say.
Events == {"subCreated", "invFinalized", "invFailed", "subPastDue", "invPaid", "subDeleted"}
Age == [subCreated |-> 1, invFinalized |-> 2, invFailed |-> 3, subPastDue |-> 4,
        invPaid |-> 5, subDeleted |-> 6]
SubEvents == {"subCreated", "subPastDue", "subDeleted"}
InvoiceEvents == {"invFinalized", "invFailed", "invPaid"}

\* Mutant: Stripe's own names are stored.
StatusAsSent(e) ==
    CASE e = "subCreated" -> "active"
      [] e = "subPastDue" -> "past_due"
      [] e = "subDeleted" -> "canceled"
      [] OTHER            -> "open"

\* SUB_STATUS_MAP and INVOICE_STATUS_MAP of the statuses the objects bear.
StatusIn(e) ==
    CASE e = "subCreated"   -> "ACTIVE"
      [] e = "subPastDue"   -> "PAST_DUE"
      [] e = "subDeleted"   -> "CANCELED"
      [] e = "invFinalized" -> "OPEN"
      [] e = "invFailed"    -> "OPEN"
      [] e = "invPaid"      -> "PAID"

VARIABLES
    emitted,    \* events Stripe has emitted
    unusable,   \* those of them whose object lacks what the handler needs
    delivery,   \* WebhookDelivery rows
    sub,        \* status of the Subscription row
    invoice,    \* status of the Invoice row
    hook,       \* webhook requests at work
    acked,      \* events answered 200
    effected,   \* history: events that wrote their row
    unplaced,   \* history: events that found no subscription to write to
    overtaken,  \* history: objects whose last writer is older than one before it
    latest,     \* history: the age of the newest event applied to each object
    notices,    \* history: notifications sent by each event
    repeated,   \* history: events two requests worked on at once, or one failed on
    hookFaults

billVars == <<emitted, unusable, delivery, sub, invoice, hook, acked, effected, unplaced,
              overtaken, latest, notices, repeated, hookFaults>>
history == <<effected, unplaced, overtaken, latest, notices, repeated, hookFaults>>

NoEvent == "none"
Objects == {"sub", "invoice"}
ObjectOf(e) == IF e \in SubEvents THEN "sub" ELSE "invoice"
Free == [pc |-> "idle", event |-> NoEvent, before |-> "none"]
Hook == [pc: {"idle", "store", "apply", "write", "mark", "markFailed"},
         event: Events \union {NoEvent}, before: {"none", "ACTIVE", "PAST_DUE", "CANCELED", "OPEN", "PAID"}]

BillTypeOK ==
    /\ emitted \subseteq Events /\ unusable \subseteq emitted
    /\ delivery \in [Events -> {"none", "RECEIVED", "PROCESSED", "FAILED"}]
    /\ sub \in {"none", "ACTIVE", "PAST_DUE", "CANCELED"}
    /\ invoice \in {"none", "OPEN", "PAID"}
    /\ hook \in [Hooks -> Hook]
    /\ acked \subseteq Events /\ effected \subseteq Events
    /\ unplaced \subseteq InvoiceEvents \union {"subDeleted"}
    /\ overtaken \subseteq Objects
    /\ latest \in [Objects -> 0..6]
    /\ notices \in [Events -> Nat]
    /\ repeated \subseteq Events
    /\ hookFaults \in 0..MaxHookFaults

BillInit ==
    /\ emitted = {} /\ unusable = {}
    /\ delivery = [e \in Events |-> "none"]
    /\ sub = "none" /\ invoice = "none"
    /\ hook = [h \in Hooks |-> Free]
    /\ acked = {} /\ effected = {} /\ unplaced = {} /\ overtaken = {}
    /\ latest = [o \in Objects |-> 0]
    /\ notices = [e \in Events |-> 0]
    /\ repeated = {}
    /\ hookFaults = 0

HookAt(h, pc) == hook' = [hook EXCEPT ![h].pc = pc]
HookDone(h) == hook' = [hook EXCEPT ![h] = Free]

-----------------------------------------------------------------------------
\* Stripe: an event follows the ones before it; invoices may stay open, the
\* subscription may be canceled at any time after its creation.  Its object is
\* unusable when the subscription names no user, a price that is no plan's or a
\* plan without a row, or the invoice names no customer or no subscription.
Emit(e) ==
    /\ e \notin emitted
    /\ Cardinality(emitted) < MaxEvents
    /\ e # "subCreated" => "subCreated" \in emitted
    /\ \A d \in emitted : Age[d] < Age[e]
    /\ e \in {"invFailed", "invPaid"} => "invFinalized" \in emitted
    /\ emitted' = emitted \union {e}
    /\ \/ UNCHANGED unusable
       \/ e # "subDeleted" /\ unusable' = unusable \union {e}
    /\ UNCHANGED <<delivery, sub, invoice, hook, acked>> /\ UNCHANGED history

\* POST /billing/cancel with immediate: the subscription found active is
\* canceled at Stripe, whose event then changes the row.
CancelActiveSubscription ==
    /\ sub \in {"ACTIVE", "PAST_DUE"}
    /\ Emit("subDeleted")

-----------------------------------------------------------------------------
(* billing.service.ts: handleWebhookEvent.                                 *)

NowRepeated(h, e) ==
    IF \E g \in Hooks \ {h} : hook[g].event = e THEN repeated \union {e} ELSE repeated

\* Mutant: no early exit for a delivery already processed.
ReceiveAgain(h, e) ==
    /\ hook[h].pc = "idle" /\ e \in emitted
    /\ notices[e] < 3
    /\ hook' = [hook EXCEPT ![h] = [pc |-> "store", event |-> e, before |-> "none"]]
    /\ repeated' = NowRepeated(h, e)
    /\ UNCHANGED <<emitted, unusable, delivery, sub, invoice, acked, effected, unplaced,
                   overtaken, latest, notices, hookFaults>>

\* Mutant: a delivery that has a row is left to the request that stored it.
ReceiveFirstOnly(h, e) ==
    /\ hook[h].pc = "idle" /\ e \in emitted
    /\ delivery[e] = "none"
    /\ hook' = [hook EXCEPT ![h] = [pc |-> "store", event |-> e, before |-> "none"]]
    /\ repeated' = NowRepeated(h, e)
    /\ UNCHANGED <<emitted, unusable, delivery, sub, invoice, acked, effected, unplaced,
                   overtaken, latest, notices, hookFaults>>

\* A delivery of an event already PROCESSED is acknowledged at once.
Receive(h, e) ==
    /\ hook[h].pc = "idle" /\ e \in emitted
    /\ IF delivery[e] = "PROCESSED"
       THEN acked' = acked \union {e} /\ UNCHANGED <<hook, repeated>>
       ELSE /\ hook' = [hook EXCEPT ![h] = [pc |-> "store", event |-> e, before |-> "none"]]
            /\ repeated' = NowRepeated(h, e)
            /\ UNCHANGED acked
    /\ UNCHANGED <<emitted, unusable, delivery, sub, invoice, effected, unplaced,
                   overtaken, latest, notices, hookFaults>>

StoreDelivery(h) ==
    LET e == hook[h].event IN
    /\ hook[h].pc = "store"
    /\ delivery' = IF delivery[e] = "none" THEN [delivery EXCEPT ![e] = "RECEIVED"] ELSE delivery
    /\ HookAt(h, "apply")
    /\ UNCHANGED <<emitted, unusable, sub, invoice, acked>> /\ UNCHANGED history

\* Event e writes its row.
TakesEffect(e) ==
    /\ effected' = effected \union {e}
    /\ overtaken' = IF Age[e] < latest[ObjectOf(e)]
                    THEN overtaken \union {ObjectOf(e)} ELSE overtaken \ {ObjectOf(e)}
    /\ latest' = IF Age[e] > latest[ObjectOf(e)]
                 THEN [latest EXCEPT ![ObjectOf(e)] = Age[e]] ELSE latest

\* Mutant: the update of an existing row leaves its status out.
UpsertKeepsStatus(h) ==
    LET e == hook[h].event IN
    /\ hook[h].pc = "apply" /\ e \in {"subCreated", "subPastDue"}
    /\ IF e \in unusable
       THEN UNCHANGED <<sub, effected, overtaken, latest>>
       ELSE sub' = (IF sub = "none" THEN StatusIn(e) ELSE sub) /\ TakesEffect(e)
    /\ HookAt(h, "mark")
    /\ UNCHANGED <<emitted, unusable, delivery, invoice, acked, unplaced, notices,
                   repeated, hookFaults>>

\* created and updated: one upsert, whatever the row says; a subscription that
\* names no user or no known price and plan is logged and passed over.
UpsertSubscription(h) ==
    LET e == hook[h].event IN
    /\ hook[h].pc = "apply" /\ e \in {"subCreated", "subPastDue"}
    /\ IF e \in unusable
       THEN UNCHANGED <<sub, effected, overtaken, latest>>
       ELSE sub' = StatusIn(e) /\ TakesEffect(e)
    /\ HookAt(h, "mark")
    /\ UNCHANGED <<emitted, unusable, delivery, invoice, acked, unplaced, notices,
                   repeated, hookFaults>>

\* deleted reads the row (for the notification), an invoice event reads its
\* subscription and its own row; it ends there without a customer or a
\* subscription.
ReadBefore(h) ==
    LET e == hook[h].event IN
    /\ hook[h].pc = "apply" /\ e \in InvoiceEvents \union {"subDeleted"}
    /\ IF e \in unusable \/ (e \in InvoiceEvents /\ sub = "none")
       THEN HookAt(h, "mark")
       ELSE hook' = [hook EXCEPT ![h] = [@ EXCEPT !.pc = "write",
                         !.before = IF e = "subDeleted" THEN sub ELSE invoice]]
    /\ unplaced' = IF e \in InvoiceEvents \ unusable /\ sub = "none"
                   THEN unplaced \union {e} ELSE unplaced
    /\ UNCHANGED <<emitted, unusable, delivery, sub, invoice, acked, effected, overtaken, latest,
                   notices, repeated, hookFaults>>

Noticed(e) == notices' = [notices EXCEPT ![e] = @ + 1]

\* An updateMany: it may match no row.
MarkSubscriptionCanceled(h) ==
    /\ hook[h].pc = "write" /\ hook[h].event = "subDeleted"
    /\ IF sub = "none"
       THEN /\ unplaced' = unplaced \union {"subDeleted"}
            /\ UNCHANGED <<sub, effected, overtaken, latest>>
       ELSE /\ sub' = "CANCELED" /\ TakesEffect("subDeleted")
            /\ UNCHANGED unplaced
    /\ IF hook[h].before # "none" THEN Noticed("subDeleted") ELSE UNCHANGED notices
    /\ HookAt(h, "mark")
    /\ UNCHANGED <<emitted, unusable, delivery, invoice, acked, repeated, hookFaults>>

\* PAYMENT_SUCCEEDED when the row becomes PAID; PAYMENT_FAILED when an attempt
\* was made and the status changed.
InvoiceNotice(e, before) ==
    \/ e = "invPaid" /\ before # "PAID"
    \/ e = "invFailed" /\ before # "OPEN"

RecordInvoice(h) ==
    LET e == hook[h].event IN
    /\ hook[h].pc = "write" /\ e \in InvoiceEvents
    /\ invoice' = StatusIn(e)
    /\ IF InvoiceNotice(e, hook[h].before) THEN Noticed(e) ELSE UNCHANGED notices
    /\ TakesEffect(e)
    /\ HookAt(h, "mark")
    /\ UNCHANGED <<emitted, unusable, delivery, sub, acked, unplaced, repeated, hookFaults>>

MarkProcessed(h) ==
    LET e == hook[h].event IN
    /\ hook[h].pc = "mark"
    /\ delivery' = [delivery EXCEPT ![e] = "PROCESSED"]
    /\ acked' = acked \union {e}
    /\ HookDone(h)
    /\ UNCHANGED <<emitted, unusable, sub, invoice>> /\ UNCHANGED history

-----------------------------------------------------------------------------
\* A statement of the try block throws.
HookThrows(h) ==
    /\ hook[h].pc \in {"apply", "write", "mark"}
    /\ hookFaults < MaxHookFaults /\ hookFaults' = hookFaults + 1
    /\ repeated' = repeated \union {hook[h].event}
    /\ HookAt(h, "markFailed")
    /\ UNCHANGED <<emitted, unusable, delivery, sub, invoice, acked, effected, unplaced,
                   overtaken, latest, notices>>

\* Mutant: the error is not thrown on, the request is answered 200.
MarkFailedAcknowledged(h) ==
    /\ hook[h].pc = "markFailed"
    /\ delivery' = [delivery EXCEPT ![hook[h].event] = "FAILED"]
    /\ acked' = acked \union {hook[h].event}
    /\ HookDone(h)
    /\ UNCHANGED <<emitted, unusable, sub, invoice>> /\ UNCHANGED history

\* The delivery is marked FAILED, also when another request has marked it
\* PROCESSED, and the error answers the request.
MarkDeliveryFailed(h) ==
    /\ hook[h].pc = "markFailed"
    /\ delivery' = [delivery EXCEPT ![hook[h].event] = "FAILED"]
    /\ HookDone(h)
    /\ UNCHANGED <<emitted, unusable, sub, invoice, acked>> /\ UNCHANGED history

\* The process dies, or the first statements or the FAILED mark throw.
HookDies(h) ==
    /\ hook[h].pc # "idle"
    /\ hookFaults < MaxHookFaults /\ hookFaults' = hookFaults + 1
    /\ repeated' = repeated \union {hook[h].event}
    /\ HookDone(h)
    /\ UNCHANGED <<emitted, unusable, delivery, sub, invoice, acked, effected, unplaced,
                   overtaken, latest, notices>>

HookStep(h) ==
    \/ StoreDelivery(h) \/ UpsertSubscription(h) \/ ReadBefore(h)
    \/ MarkSubscriptionCanceled(h) \/ RecordInvoice(h)
    \/ MarkProcessed(h) \/ MarkDeliveryFailed(h)

BillNext ==
    \/ \E e \in Events : Emit(e)
    \/ CancelActiveSubscription
    \/ \E h \in Hooks : \/ \E e \in Events : Receive(h, e)
                        \/ HookStep(h) \/ HookThrows(h) \/ HookDies(h)

BillSpec == BillInit /\ [][BillNext]_billVars

\* Stripe delivers an event again until it is answered; requests go on.
BillFairness ==
    /\ \A h \in Hooks : WF_billVars(HookStep(h))
    /\ \A e \in Events : WF_billVars(e \notin acked /\ \E h \in Hooks : Receive(h, e))

-----------------------------------------------------------------------------
(* Properties.                                                             *)

\* What was answered 200, and so is not delivered again, wrote its row: no event
\* is lost to a failure in the middle of the handler.  The handler passes over
\* two kinds of events by itself: those whose object it cannot use, and an
\* invoice or a cancellation whose subscription has no row.
AckedTookEffect == acked \subseteq effected \union unusable \union unplaced

\* A repeated delivery notifies nobody again, unless it overlapped the first
\* one or repeats one that failed half-way.
NoticeOncePerEvent ==
    \A e \in Events : notices[e] <= 1 \/ e \in repeated

NewestOf(S) == CHOOSE e \in S : \A d \in S : Age[d] <= Age[e]

\* The row of an object after Stripe has said S of it: it is what the newest of
\* S says, unless that one was passed over or the row's last writer is an older one.
Mirrors(row, object, S) ==
    S # {} => \/ row = StatusIn(NewestOf(S))
              \/ NewestOf(S) \in (unusable \union unplaced) \ effected
              \/ object \in overtaken

\* Once every event is answered each row says what Stripe says, or one of two
\* things happened: the newest event of the object was answered without effect
\* (an object that cannot be used, a subscription without a row), or an older
\* event was applied after a newer one.  Overlaps, repetitions, failures and
\* what befell other events make no difference.
MirrorsStripe ==
    (emitted \subseteq acked /\ \A h \in Hooks : hook[h].pc = "idle") =>
        /\ Mirrors(sub, "sub", emitted \intersect SubEvents)
        /\ Mirrors(invoice, "invoice", emitted \intersect InvoiceEvents)

\* Every event Stripe emits is answered in the end, failures being finite.
EveryEventAnswered == \A e \in Events : (e \in emitted) ~> (e \in acked)

\* docs/BILLING.md:69, "Move Subscription to PAST_DUE and notify the user", the
\* first half: a failed payment that was carried out moves the subscription, as
\* long as no newer event of the subscription itself has come.
FailedPaymentIsPastDue ==
    ("invFailed" \in acked \intersect effected /\ latest["sub"] < Age["invFailed"])
        => sub = "PAST_DUE"

\* The second half: the user is told.
FailedPaymentIsNotified ==
    "invFailed" \in acked \intersect effected => notices["invFailed"] > 0
============================================================================
