------------------------------ MODULE OtpCodes ------------------------------
(***************************************************************************)
(* One-time codes of one email address: POST /auth/otp/request issues a    *)
(* code, POST /auth/otp/verify consumes one and opens a session.  Every    *)
(* await of the handlers is a step.  A code row is its number, in order of *)
(* creation; the digits are abstracted to "the code of that row" or some   *)
(* other digits, and expiry to a step that may happen at any time.         *)
(***************************************************************************)
EXTENDS Naturals, FiniteSets

CONSTANTS
    Callers,      \* concurrent requests
    Requested,    \* purposes codes are requested for
    MaxCodes,     \* bound: rows ever created
    OtpMaxAttempts

ASSUME CallersAssumption == IsFiniteSet(Callers)
ASSUME RequestedAssumption == Requested \subseteq {"SIGN_IN", "SIGN_UP"}
ASSUME OtpBoundsAssumption == MaxCodes \in Nat /\ OtpMaxAttempts \in Nat \ {0}

Purposes == {"SIGN_IN", "SIGN_UP"}
Codes == 1..MaxCodes
NoCode == 0
WrongDigits == 0    \* digits that match no row

VARIABLES
    code,       \* the OtpCode rows
    cooldown,   \* purposes whose resend key is in Redis
    caller,     \* requests at work
    user,       \* the User row of the address: "none", "active" or "closed"
    opened      \* history: sessions opened with each code

otpVars == <<code, cooldown, caller, user, opened>>

NoRow == [made |-> FALSE, purpose |-> "SIGN_IN", expired |-> FALSE,
          attempts |-> 0, consumed |-> FALSE]
CodeRow == [made: BOOLEAN, purpose: Purposes, expired: BOOLEAN, attempts: Nat, consumed: BOOLEAN]

IdleCaller == [pc |-> "idle", purpose |-> "SIGN_IN", code |-> NoCode, digits |-> WrongDigits,
         counted |-> FALSE]
Caller == [pc: {"idle", "invalidate", "store", "cool", "load", "count", "consume",
                "findUser", "createUser", "session"},
           purpose: Purposes, code: Codes \union {NoCode}, digits: Codes \union {WrongDigits},
           counted: BOOLEAN]   \* history: this submit raised a counter

OtpTypeOK ==
    /\ code \in [Codes -> CodeRow]
    /\ cooldown \subseteq Purposes
    /\ caller \in [Callers -> Caller]
    /\ user \in {"none", "active", "closed"}
    /\ opened \in [Codes -> Nat]

OtpInit ==
    /\ code = [c \in Codes |-> NoRow]
    /\ cooldown = {}
    /\ caller = [r \in Callers |-> IdleCaller]
    /\ user \in {"none", "active", "closed"}
    /\ opened = [c \in Codes |-> 0]

OtpStep(r, pc) == caller' = [caller EXCEPT ![r].pc = pc]
Done(r) == caller' = [caller EXCEPT ![r] = IdleCaller]

Live(c) == code[c].made /\ ~ code[c].consumed /\ ~ code[c].expired

-----------------------------------------------------------------------------
(* otp.service.ts: issueOtp.                                               *)

IssueCheck(r, p) ==
    /\ caller[r].pc = "idle"
    /\ p \notin cooldown
    /\ caller' = [caller EXCEPT ![r] = [IdleCaller EXCEPT !.pc = "invalidate", !.purpose = p]]
    /\ UNCHANGED <<code, cooldown, user, opened>>

\* The unconsumed codes of the purpose expire now.
IssueInvalidate(r) ==
    /\ caller[r].pc = "invalidate"
    /\ code' = [c \in Codes |->
          IF Live(c) /\ code[c].purpose = caller[r].purpose
          THEN [code[c] EXCEPT !.expired = TRUE] ELSE code[c]]
    /\ OtpStep(r, "store")
    /\ UNCHANGED <<cooldown, user, opened>>

IssueStore(r, c) ==
    /\ caller[r].pc = "store"
    /\ ~ code[c].made
    /\ \A b \in Codes : b < c => code[b].made
    /\ code' = [code EXCEPT ![c] = [NoRow EXCEPT !.made = TRUE, !.purpose = caller[r].purpose]]
    /\ OtpStep(r, "cool")
    /\ UNCHANGED <<cooldown, user, opened>>

\* setex of the resend key; the mail that follows changes no state, and when
\* it cannot be sent the code stays.
IssueCool(r) ==
    /\ caller[r].pc = "cool"
    /\ cooldown' = cooldown \union {caller[r].purpose}
    /\ Done(r)
    /\ UNCHANGED <<code, user, opened>>

-----------------------------------------------------------------------------
(* auth.routes.ts POST /auth/otp/verify and otp.service.ts verifyOtp.      *)

Submit(r, digits) ==
    /\ caller[r].pc = "idle"
    /\ caller' = [caller EXCEPT ![r] = [IdleCaller EXCEPT !.pc = "load", !.digits = digits]]
    /\ UNCHANGED <<code, cooldown, user, opened>>

\* OTP_INVALID for SIGN_IN is caught by the route, which tries SIGN_UP.
Invalid(r) ==
    IF caller[r].purpose = "SIGN_IN"
    THEN caller' = [caller EXCEPT ![r] = [@ EXCEPT !.pc = "load", !.purpose = "SIGN_UP",
                        !.code = NoCode, !.counted = caller[r].pc = "count"]]
    ELSE Done(r)

\* The unconsumed rows of the purpose; the newest is the one verified.
Candidates(p) == {c \in Codes : code[c].made /\ ~ code[c].consumed /\ code[c].purpose = p}
IsNewest(c, p) == c \in Candidates(p) /\ \A b \in Candidates(p) : b <= c

\* Mutant: the attempts check is off by one.
TriesLeftOrOneMore(c) == code[c].attempts <= OtpMaxAttempts

TriesLeft(c) == code[c].attempts < OtpMaxAttempts

\* findFirst, the checks, and the comparison with the hash it returned.
VerifyLoad(r) ==
    /\ caller[r].pc = "load"
    /\ \/ /\ Candidates(caller[r].purpose) = {}
          /\ Invalid(r)
       \/ \E c \in Codes :
          /\ IsNewest(c, caller[r].purpose)
          /\ IF Live(c) /\ TriesLeft(c)
             THEN caller' = [caller EXCEPT ![r] = [@ EXCEPT !.code = c,
                      !.pc = IF caller[r].digits = c THEN "consume" ELSE "count"]]
             ELSE Done(r)
    /\ UNCHANGED <<code, cooldown, user, opened>>

VerifyCount(r) ==
    /\ caller[r].pc = "count"
    /\ code' = [code EXCEPT ![caller[r].code].attempts = @ + 1]
    /\ Invalid(r)
    /\ UNCHANGED <<cooldown, user, opened>>

\* Mutant: the update is not conditional on consumedAt.
ConsumeAnyway(r) ==
    /\ caller[r].pc = "consume"
    /\ code' = [code EXCEPT ![caller[r].code].consumed = TRUE]
    /\ OtpStep(r, "findUser")
    /\ UNCHANGED <<cooldown, user, opened>>

Consume(r) ==
    /\ caller[r].pc = "consume"
    /\ IF code[caller[r].code].consumed
       THEN Invalid(r) /\ UNCHANGED code
       ELSE /\ code' = [code EXCEPT ![caller[r].code].consumed = TRUE]
            /\ OtpStep(r, "findUser")
    /\ UNCHANGED <<cooldown, user, opened>>

-----------------------------------------------------------------------------
(* auth.service.ts: findOrCreateUserByEmail and issueSession.              *)

\* A deleted or suspended account is refused, after its code was consumed.
FindUser(r) ==
    /\ caller[r].pc = "findUser"
    /\ CASE user = "none"   -> OtpStep(r, "createUser")
         [] user = "active" -> OtpStep(r, "session")
         [] user = "closed" -> Done(r)
    /\ UNCHANGED <<code, cooldown, user, opened>>

\* The unique index on User.email refuses a second row.
CreateUser(r) ==
    /\ caller[r].pc = "createUser"
    /\ IF user = "none" THEN user' = "active" /\ OtpStep(r, "session")
                        ELSE Done(r) /\ UNCHANGED user
    /\ UNCHANGED <<code, cooldown, opened>>

OpenSession(r) ==
    /\ caller[r].pc = "session"
    /\ opened' = [opened EXCEPT ![caller[r].code] = @ + 1]
    /\ Done(r)
    /\ UNCHANGED <<code, cooldown, user>>

\* A statement throws or the process dies.
CallerFails(r) ==
    /\ caller[r].pc # "idle"
    /\ Done(r)
    /\ UNCHANGED <<code, cooldown, user, opened>>

-----------------------------------------------------------------------------
CodeExpires(c) ==
    /\ Live(c)
    /\ code' = [code EXCEPT ![c].expired = TRUE]
    /\ UNCHANGED <<cooldown, caller, user, opened>>

CooldownEnds(p) ==
    /\ p \in cooldown
    /\ cooldown' = cooldown \ {p}
    /\ UNCHANGED <<code, caller, user, opened>>

CallerStep(r) ==
    \/ \E p \in Requested : IssueCheck(r, p)
    \/ IssueInvalidate(r)
    \/ \E c \in Codes : IssueStore(r, c)
    \/ IssueCool(r)
    \/ \E d \in Codes \union {WrongDigits} : Submit(r, d)
    \/ VerifyLoad(r) \/ VerifyCount(r) \/ Consume(r)
    \/ FindUser(r) \/ CreateUser(r) \/ OpenSession(r) \/ CallerFails(r)

OtpNext ==
    \/ \E r \in Callers : CallerStep(r)
    \/ \E c \in Codes : CodeExpires(c)
    \/ \E p \in Purposes : CooldownEnds(p)

OtpSpec == OtpInit /\ [][OtpNext]_otpVars

-----------------------------------------------------------------------------
(* Properties.                                                             *)

OtpHolding(c, pc) == {r \in Callers : caller[r].pc \in pc /\ caller[r].code = c}
\* A code opens one session at most, however many requests submit it at once:
\* what is consumed has one holder on the way to its session.
OneSessionPerCode ==
    \A c \in Codes :
        /\ opened[c] + Cardinality(OtpHolding(c, {"findUser", "createUser", "session"})) <= 1
        /\ opened[c] > 0 => code[c].consumed

\* The limit of attempts is read before the comparison and the counter raised
\* after it: as many tries as there are concurrent requests may slip past the
\* limit, and not one more.
AttemptsBounded ==
    \A c \in Codes :
        code[c].attempts + Cardinality(OtpHolding(c, {"count"}))
            <= OtpMaxAttempts - 1 + Cardinality(Callers)

\* auth.routes.ts: "fall back to SIGN_UP only when there was no live SIGN_IN
\* OTP for this email at all": one submit counts against one code.
SubmitCountsOnce ==
    \A r \in Callers : caller[r].pc = "count" => ~ caller[r].counted
============================================================================
