---------------------------- MODULE SignInProofs ----------------------------
(***************************************************************************)
(* Proofs about signing in and staying signed in: OtpCodes, for any number *)
(* of calls and codes, and SessionCache, for any number of requests,       *)
(* sessions and any length of the cache's life.                            *)
(***************************************************************************)
EXTENDS OtpCodes, SessionCache, FiniteSetTheorems, TLAPS

-----------------------------------------------------------------------------
(* One-time codes.                                                         *)

WithCode == {"count", "consume", "findUser", "createUser", "session"}
OnTheWay == {"findUser", "createUser", "session"}

\* A request past its look holds a code that was made, and only those are
\* consumed.
CodeInHand ==
    \A r \in Callers : caller[r].pc \in WithCode =>
        caller[r].code \in Codes /\ code[caller[r].code].made
ConsumedIsMade == \A c \in Codes : code[c].consumed => code[c].made

CodesBase == OtpTypeOK /\ CodeInHand /\ ConsumedIsMade

\* The others keep their records.
OtherCallersStay(r) == \A q \in Callers \ {r} : caller'[q] = caller[q]

-----------------------------------------------------------------------------
\* What becomes of the record of the request that steps.
LEMMA Stepping ==
    ASSUME OtpTypeOK, NEW r \in Callers,
           NEW pc \in {"store", "cool", "findUser", "createUser", "session"}, OtpStep(r, pc)
    PROVE  /\ caller' \in [Callers -> Caller] /\ OtherCallersStay(r)
           /\ caller'[r].pc = pc /\ caller'[r].code = caller[r].code
  BY DEF OtpTypeOK, OtpStep, Caller, OtherCallersStay

LEMMA IdleCallerTyped == IdleCaller \in Caller /\ IdleCaller.pc = "idle"
  BY DEF IdleCaller, Caller, Purposes, NoCode, WrongDigits

LEMMA Ending ==
    ASSUME OtpTypeOK, NEW r \in Callers, Done(r)
    PROVE  caller' \in [Callers -> Caller] /\ OtherCallersStay(r) /\ caller'[r].pc = "idle"
  BY IdleCallerTyped DEF OtpTypeOK, Done, OtherCallersStay

LEMMA Rejecting ==
    ASSUME OtpTypeOK, NEW r \in Callers, Invalid(r)
    PROVE  caller' \in [Callers -> Caller] /\ OtherCallersStay(r) /\ caller'[r].pc \in {"idle", "load"}
<1>1. CASE caller[r].purpose = "SIGN_IN"
  <2>1. PICK b \in BOOLEAN : b = (caller[r].pc = "count")
    OBVIOUS
  <2>2. caller' = [caller EXCEPT ![r] = [caller[r] EXCEPT !.pc = "load", !.purpose = "SIGN_UP",
                                           !.code = NoCode, !.counted = b]]
    BY <1>1, <2>1 DEF Invalid
  <2>3. caller[r] \in Caller
    BY DEF OtpTypeOK
  <2>4. /\ [caller[r] EXCEPT !.pc = "load", !.purpose = "SIGN_UP", !.code = NoCode,
                             !.counted = b] \in Caller
        /\ [caller[r] EXCEPT !.pc = "load", !.purpose = "SIGN_UP", !.code = NoCode,
                             !.counted = b].pc = "load"
    BY <2>3 DEF Caller, Purposes
  <2> QED
    BY <2>2, <2>4 DEF OtpTypeOK, OtherCallersStay
<1>2. CASE caller[r].purpose # "SIGN_IN"
  BY <1>2, Ending DEF Invalid
<1> QED
  BY <1>1, <1>2

LEMMA Starting ==
    ASSUME OtpTypeOK, NEW r \in Callers
    PROVE  /\ \A p \in Purposes :
                 [IdleCaller EXCEPT !.pc = "invalidate", !.purpose = p] \in Caller
           /\ \A p : [IdleCaller EXCEPT !.pc = "invalidate", !.purpose = p].pc = "invalidate"
           /\ \A d \in Codes \union {WrongDigits} :
                 [IdleCaller EXCEPT !.pc = "load", !.digits = d] \in Caller
           /\ \A d : [IdleCaller EXCEPT !.pc = "load", !.digits = d].pc = "load"
  BY IdleCallerTyped DEF IdleCaller, Caller

\* A live code with tries left is taken in hand; anything else ends the look.
LEMMA LookingCodeUp ==
    ASSUME OtpTypeOK, NEW r \in Callers, VerifyLoad(r)
    PROVE  /\ caller' \in [Callers -> Caller] /\ OtherCallersStay(r)
           /\ \/ caller'[r].pc \in {"idle", "load"}
              \/ /\ caller'[r].pc \in {"consume", "count"} /\ caller'[r].code \in Codes
                 /\ code[caller'[r].code].made
                 /\ code[caller'[r].code].attempts < OtpMaxAttempts
<1>1. CASE Invalid(r)
  BY <1>1, Rejecting
<1>2. CASE Done(r)
  BY <1>2, Ending
<1>3. ASSUME NEW c \in Codes, Live(c), TriesLeft(c),
             caller' = [caller EXCEPT ![r] = [@ EXCEPT !.code = c,
                      !.pc = IF caller[r].digits = c THEN "consume" ELSE "count"]]
      PROVE  /\ caller' \in [Callers -> Caller] /\ OtherCallersStay(r)
             /\ caller'[r].pc \in {"consume", "count"} /\ caller'[r].code = c
  <2>1. PICK pc \in {"consume", "count"} :
           pc = IF caller[r].digits = c THEN "consume" ELSE "count"
    OBVIOUS
  <2>2. caller' = [caller EXCEPT ![r] = [caller[r] EXCEPT !.code = c, !.pc = pc]]
    BY <1>3, <2>1
  <2>3. caller[r] \in Caller
    BY DEF OtpTypeOK
  <2>4. /\ [caller[r] EXCEPT !.code = c, !.pc = pc] \in Caller
        /\ [caller[r] EXCEPT !.code = c, !.pc = pc].pc = pc
        /\ [caller[r] EXCEPT !.code = c, !.pc = pc].code = c
    BY <2>3 DEF Caller
  <2> QED
    BY <2>1, <2>2, <2>4 DEF OtpTypeOK, OtherCallersStay
<1>4. \/ Invalid(r) \/ Done(r)
      \/ \E c \in Codes :
            /\ Live(c) /\ TriesLeft(c)
            /\ caller' = [caller EXCEPT ![r] = [@ EXCEPT !.code = c,
                      !.pc = IF caller[r].digits = c THEN "consume" ELSE "count"]]
  BY DEF VerifyLoad
<1> QED
  BY <1>1, <1>2, <1>3, <1>4 DEF Live, TriesLeft

\* What becomes of the rows.  Every step but IssueStore keeps made, and none but
\* IssueStore takes a consumption or an attempt back.
LEMMA Storing ==
    ASSUME OtpTypeOK, NEW r \in Callers, NEW c \in Codes, IssueStore(r, c)
    PROVE  /\ code' \in [Codes -> CodeRow]
           /\ ~ code[c].made
           /\ code'[c].made /\ ~ code'[c].consumed /\ code'[c].attempts = 0
           /\ \A b \in Codes \ {c} : code'[b] = code[b]
<1>1. [NoRow EXCEPT !.made = TRUE, !.purpose = caller[r].purpose] \in CodeRow
      /\ [NoRow EXCEPT !.made = TRUE, !.purpose = caller[r].purpose].made = TRUE
      /\ [NoRow EXCEPT !.made = TRUE, !.purpose = caller[r].purpose].consumed = FALSE
      /\ [NoRow EXCEPT !.made = TRUE, !.purpose = caller[r].purpose].attempts = 0
  BY DEF NoRow, CodeRow, OtpTypeOK, Caller
<1> QED
  BY <1>1 DEF IssueStore, OtpTypeOK

SameRows ==
    \A c \in Codes : /\ code'[c].made = code[c].made /\ code'[c].consumed = code[c].consumed
                     /\ code'[c].attempts = code[c].attempts

LEMMA Expiring ==
    ASSUME OtpTypeOK, NEW c \in Codes
    PROVE  /\ [code[c] EXCEPT !.expired = TRUE] \in CodeRow
           /\ [code[c] EXCEPT !.expired = TRUE].made = code[c].made
           /\ [code[c] EXCEPT !.expired = TRUE].consumed = code[c].consumed
           /\ [code[c] EXCEPT !.expired = TRUE].attempts = code[c].attempts
  BY DEF OtpTypeOK, CodeRow

LEMMA Invalidating ==
    ASSUME OtpTypeOK, NEW r \in Callers, IssueInvalidate(r)
    PROVE  code' \in [Codes -> CodeRow] /\ SameRows
  BY Expiring DEF IssueInvalidate, OtpTypeOK, SameRows

LEMMA RunningOut ==
    ASSUME OtpTypeOK, NEW c \in Codes, CodeExpires(c)
    PROVE  code' \in [Codes -> CodeRow] /\ SameRows
<1>1. code' = [code EXCEPT ![c] = [code[c] EXCEPT !.expired = TRUE]]
  BY DEF CodeExpires
<1> QED
  BY <1>1, Expiring DEF OtpTypeOK, SameRows

LEMMA Counting ==
    ASSUME CodesBase, NEW r \in Callers, VerifyCount(r)
    PROVE  /\ caller[r].code \in Codes
           /\ code' \in [Codes -> CodeRow]
           /\ \A c \in Codes : /\ code'[c].made = code[c].made
                               /\ code'[c].consumed = code[c].consumed
                               /\ c # caller[r].code => code'[c] = code[c]
           /\ code'[caller[r].code].attempts = code[caller[r].code].attempts + 1
<1>1. PICK c \in Codes : c = caller[r].code
  BY DEF CodesBase, CodeInHand, WithCode, VerifyCount
<1>2. code[c] \in CodeRow
  BY DEF CodesBase, OtpTypeOK
<1>3. code[c].attempts + 1 \in Nat
  BY <1>2 DEF CodeRow
<1>4. code' = [code EXCEPT ![c] = [code[c] EXCEPT !.attempts = code[c].attempts + 1]]
  BY <1>1 DEF VerifyCount
<1>5. /\ [code[c] EXCEPT !.attempts = code[c].attempts + 1] \in CodeRow
      /\ [code[c] EXCEPT !.attempts = code[c].attempts + 1].made = code[c].made
      /\ [code[c] EXCEPT !.attempts = code[c].attempts + 1].consumed = code[c].consumed
      /\ [code[c] EXCEPT !.attempts = code[c].attempts + 1].attempts = code[c].attempts + 1
  BY <1>2, <1>3 DEF CodeRow
<1> QED
  BY <1>1, <1>4, <1>5 DEF CodesBase, OtpTypeOK

LEMMA Consuming ==
    ASSUME CodesBase, NEW r \in Callers, Consume(r), ~ code[caller[r].code].consumed
    PROVE  /\ caller[r].code \in Codes
           /\ code' \in [Codes -> CodeRow]
           /\ \A c \in Codes : /\ code'[c].made = code[c].made
                               /\ code'[c].attempts = code[c].attempts
                               /\ c # caller[r].code => code'[c] = code[c]
           /\ code'[caller[r].code].consumed
           /\ OtpStep(r, "findUser")
<1>1. PICK c \in Codes : c = caller[r].code
  BY DEF CodesBase, CodeInHand, WithCode, Consume
<1>2. code[c] \in CodeRow
  BY DEF CodesBase, OtpTypeOK
<1>3. code' = [code EXCEPT ![c] = [code[c] EXCEPT !.consumed = TRUE]] /\ OtpStep(r, "findUser")
  BY <1>1 DEF Consume
<1>4. /\ [code[c] EXCEPT !.consumed = TRUE] \in CodeRow
      /\ [code[c] EXCEPT !.consumed = TRUE].made = code[c].made
      /\ [code[c] EXCEPT !.consumed = TRUE].attempts = code[c].attempts
      /\ [code[c] EXCEPT !.consumed = TRUE].consumed = TRUE
  BY <1>2 DEF CodeRow
<1> QED
  BY <1>1, <1>3, <1>4 DEF CodesBase, OtpTypeOK

\* A request that submits or asks starts without a code; one that refuses a
\* consumed code goes back without it.
LEMMA NewStep ==
    ASSUME OtpTypeOK, NEW r \in Callers,
           \/ \E p \in Purposes : IssueCheck(r, p)
           \/ \E d \in Codes \union {WrongDigits} : Submit(r, d)
    PROVE  caller' \in [Callers -> Caller] /\ OtherCallersStay(r) /\ caller'[r].pc \in {"invalidate", "load"}
           /\ UNCHANGED <<code, cooldown, user, opened>>
<1>1. ASSUME NEW p \in Purposes, IssueCheck(r, p)
      PROVE  caller' \in [Callers -> Caller] /\ OtherCallersStay(r) /\ caller'[r].pc = "invalidate"
  BY <1>1, Starting DEF IssueCheck, OtpTypeOK, OtherCallersStay
<1>2. ASSUME NEW d \in Codes \union {WrongDigits}, Submit(r, d)
      PROVE  caller' \in [Callers -> Caller] /\ OtherCallersStay(r) /\ caller'[r].pc = "load"
  BY <1>2, Starting DEF Submit, OtpTypeOK, OtherCallersStay
<1> QED
  BY <1>1, <1>2 DEF IssueCheck, Submit

\* Every step, as far as the invariants see it: which record moves where, and
\* what becomes of the rows and the sessions.
MovesAside(r) == OtherCallersStay(r) /\ caller'[r].pc \notin WithCode
Effect(r) ==
    \/ MovesAside(r) /\ SameRows /\ opened' = opened
    \/ \E c \in Codes :
          /\ MovesAside(r) /\ opened' = opened
          /\ ~ code[c].made /\ code'[c].made /\ ~ code'[c].consumed /\ code'[c].attempts = 0
          /\ \A b \in Codes \ {c} : code'[b] = code[b]
    \/ /\ OtherCallersStay(r) /\ SameRows /\ opened' = opened
       /\ caller[r].pc = "load"
       /\ caller'[r].pc \in {"consume", "count"} /\ caller'[r].code \in Codes
       /\ code[caller'[r].code].made /\ code[caller'[r].code].attempts < OtpMaxAttempts
    \/ /\ MovesAside(r) /\ opened' = opened
       /\ caller[r].pc = "count" /\ caller[r].code \in Codes
       /\ code'[caller[r].code].attempts = code[caller[r].code].attempts + 1
       /\ \A c \in Codes : /\ code'[c].made = code[c].made
                           /\ code'[c].consumed = code[c].consumed
                           /\ c # caller[r].code => code'[c] = code[c]
    \/ /\ OtherCallersStay(r) /\ opened' = opened
       /\ caller[r].pc = "consume" /\ caller[r].code \in Codes
       /\ caller'[r].pc = "findUser" /\ caller'[r].code = caller[r].code
       /\ ~ code[caller[r].code].consumed /\ code'[caller[r].code].consumed
       /\ \A c \in Codes : /\ code'[c].made = code[c].made
                           /\ code'[c].attempts = code[c].attempts
                           /\ c # caller[r].code => code'[c] = code[c]
    \/ /\ OtherCallersStay(r) /\ SameRows /\ opened' = opened
       /\ caller[r].pc \in OnTheWay
       /\ caller'[r].pc \in {"createUser", "session"} /\ caller'[r].code = caller[r].code
    \/ /\ MovesAside(r) /\ SameRows
       /\ caller[r].pc = "session" /\ caller[r].code \in Codes
       /\ opened' = [opened EXCEPT ![caller[r].code] = @ + 1]

LEMMA EveryStep ==
    ASSUME CodesBase, NEW r \in Callers, CallerStep(r)
    PROVE  OtpTypeOK' /\ Effect(r)
<1>b. OtpTypeOK
  BY DEF CodesBase
<1>s. ASSUME code' = code PROVE SameRows
  BY <1>s DEF SameRows
<1> USE DEF WithCode, OnTheWay
<1>1. CASE \/ \E p \in Requested : IssueCheck(r, p)
           \/ \E d \in Codes \union {WrongDigits} : Submit(r, d)
  <2>1. caller' \in [Callers -> Caller] /\ OtherCallersStay(r) /\ caller'[r].pc \in {"invalidate", "load"}
        /\ UNCHANGED <<code, cooldown, user, opened>>
    BY <1>1, <1>b, NewStep, RequestedAssumption DEF Purposes
  <2> QED
    BY <1>b, <1>s, <2>1 DEF OtpTypeOK, Effect, MovesAside
<1>2. CASE IssueInvalidate(r)
  <2>1. caller' \in [Callers -> Caller] /\ OtherCallersStay(r) /\ caller'[r].pc = "store"
    BY <1>2, <1>b, Stepping DEF IssueInvalidate
  <2>2. code' \in [Codes -> CodeRow] /\ SameRows
    BY <1>2, <1>b, Invalidating
  <2>3. UNCHANGED <<cooldown, user, opened>>
    BY <1>2 DEF IssueInvalidate
  <2> QED
    BY <1>b, <2>1, <2>2, <2>3 DEF OtpTypeOK, Effect, MovesAside
<1>3. ASSUME NEW c \in Codes, IssueStore(r, c) PROVE OtpTypeOK' /\ Effect(r)
  <2>1. caller' \in [Callers -> Caller] /\ OtherCallersStay(r) /\ caller'[r].pc = "cool"
    BY <1>3, <1>b, Stepping DEF IssueStore
  <2>2. UNCHANGED <<cooldown, user, opened>>
    BY <1>3 DEF IssueStore
  <2> QED
    BY <1>3, <1>b, <2>1, <2>2, Storing DEF OtpTypeOK, Effect, MovesAside
<1>4. CASE IssueCool(r)
  <2>1. caller' \in [Callers -> Caller] /\ OtherCallersStay(r) /\ caller'[r].pc = "idle"
    BY <1>4, <1>b, Ending DEF IssueCool
  <2>2. UNCHANGED <<code, user, opened>> /\ cooldown' = cooldown \union {caller[r].purpose}
    BY <1>4 DEF IssueCool
  <2>3. cooldown' \subseteq Purposes
    BY <1>b, <2>2 DEF OtpTypeOK, Caller
  <2> QED
    BY <1>b, <1>s, <2>1, <2>2, <2>3 DEF OtpTypeOK, Effect, MovesAside
<1>5. CASE VerifyLoad(r)
  <2>1. UNCHANGED <<code, cooldown, user, opened>> /\ caller[r].pc = "load"
    BY <1>5 DEF VerifyLoad
  <2>2. OtpTypeOK'
    BY <1>5, <1>b, <2>1, LookingCodeUp DEF OtpTypeOK
  <2>3. CASE caller'[r].pc \in {"idle", "load"}
    <3>1. OtherCallersStay(r)
      BY <1>5, <1>b, LookingCodeUp
    <3> QED
      BY <1>s, <2>1, <2>2, <2>3, <3>1 DEF Effect, MovesAside
  <2>4. CASE caller'[r].pc \notin {"idle", "load"}
    <3>1. /\ OtherCallersStay(r)
          /\ caller'[r].pc \in {"consume", "count"} /\ caller'[r].code \in Codes
          /\ code[caller'[r].code].made /\ code[caller'[r].code].attempts < OtpMaxAttempts
      BY <1>5, <1>b, <2>4, LookingCodeUp
    <3> QED
      BY <1>s, <2>1, <2>2, <3>1 DEF Effect
  <2> QED
    BY <2>2, <2>3, <2>4
<1>6. CASE VerifyCount(r)
  <2>1. UNCHANGED <<cooldown, user, opened>> /\ caller[r].pc = "count" /\ Invalid(r)
    BY <1>6 DEF VerifyCount
  <2>2. caller' \in [Callers -> Caller] /\ MovesAside(r)
    BY <1>b, <2>1, Rejecting DEF MovesAside
  <2>3. OtpTypeOK'
    BY <1>6, <1>b, <2>1, <2>2, Counting DEF OtpTypeOK
  <2>4. /\ caller[r].code \in Codes
        /\ code'[caller[r].code].attempts = code[caller[r].code].attempts + 1
        /\ \A c \in Codes : /\ code'[c].made = code[c].made
                            /\ code'[c].consumed = code[c].consumed
                            /\ c # caller[r].code => code'[c] = code[c]
    BY <1>6, Counting
  <2> QED
    BY <2>1, <2>2, <2>3, <2>4 DEF Effect
<1>7. CASE Consume(r)
  <2>1. UNCHANGED <<cooldown, user, opened>> /\ caller[r].pc = "consume"
    BY <1>7 DEF Consume
  <2>2. CASE code[caller[r].code].consumed
    <3>1. Invalid(r) /\ code' = code
      BY <1>7, <2>2 DEF Consume
    <3>2. caller' \in [Callers -> Caller] /\ MovesAside(r)
      BY <1>b, <3>1, Rejecting DEF MovesAside
    <3> QED
      BY <1>b, <1>s, <2>1, <3>1, <3>2 DEF OtpTypeOK, Effect
  <2>3. CASE ~ code[caller[r].code].consumed
    <3>1. OtpStep(r, "findUser") /\ caller[r].code \in Codes
      BY <1>7, <2>3, Consuming
    <3>2. /\ caller' \in [Callers -> Caller] /\ OtherCallersStay(r)
          /\ caller'[r].pc = "findUser" /\ caller'[r].code = caller[r].code
      BY <1>b, <3>1, Stepping
    <3>3. /\ code' \in [Codes -> CodeRow]
          /\ \A c \in Codes : /\ code'[c].made = code[c].made
                              /\ code'[c].attempts = code[c].attempts
                              /\ c # caller[r].code => code'[c] = code[c]
          /\ code'[caller[r].code].consumed
      BY <1>7, <2>3, Consuming
    <3>4. OtpTypeOK'
      BY <1>b, <2>1, <3>2, <3>3 DEF OtpTypeOK
    <3> QED
      BY <2>1, <2>3, <3>1, <3>2, <3>3, <3>4 DEF Effect
  <2> QED
    BY <2>2, <2>3
<1>8. CASE FindUser(r)
  <2>1. UNCHANGED <<code, cooldown, user, opened>> /\ caller[r].pc = "findUser"
    BY <1>8 DEF FindUser
  <2>2. Done(r) \/ OtpStep(r, "createUser") \/ OtpStep(r, "session")
    BY <1>8, <1>b DEF FindUser, OtpTypeOK
  <2>3. CASE Done(r)
    BY <1>b, <1>s, <2>1, <2>3, Ending DEF OtpTypeOK, Effect, MovesAside
  <2>4. CASE OtpStep(r, "createUser") \/ OtpStep(r, "session")
    BY <1>b, <1>s, <2>1, <2>4, Stepping DEF OtpTypeOK, Effect
  <2> QED
    BY <2>2, <2>3, <2>4
<1>9. CASE CreateUser(r)
  <2>1. UNCHANGED <<code, cooldown, opened>> /\ caller[r].pc = "createUser"
        /\ user' \in {"none", "active", "closed"}
    BY <1>9, <1>b DEF CreateUser, OtpTypeOK
  <2>2. Done(r) \/ OtpStep(r, "session")
    BY <1>9 DEF CreateUser
  <2>3. CASE Done(r)
    BY <1>b, <1>s, <2>1, <2>3, Ending DEF OtpTypeOK, Effect, MovesAside
  <2>4. CASE OtpStep(r, "session")
    BY <1>b, <1>s, <2>1, <2>4, Stepping DEF OtpTypeOK, Effect
  <2> QED
    BY <2>2, <2>3, <2>4
<1>10. CASE OpenSession(r)
  <2>1. /\ UNCHANGED <<code, cooldown, user>> /\ caller[r].pc = "session"
        /\ opened' = [opened EXCEPT ![caller[r].code] = @ + 1]
        /\ caller[r].code \in Codes
    BY <1>10 DEF OpenSession, CodesBase, CodeInHand
  <2>2. caller' \in [Callers -> Caller] /\ MovesAside(r)
    BY <1>10, <1>b, Ending DEF OpenSession, MovesAside
  <2>3. OtpTypeOK'
    BY <1>b, <2>1, <2>2 DEF OtpTypeOK
  <2> QED
    BY <1>s, <2>1, <2>2, <2>3 DEF Effect
<1>11. CASE CallerFails(r)
  <2>1. caller' \in [Callers -> Caller] /\ MovesAside(r)
    BY <1>11, <1>b, Ending DEF CallerFails, MovesAside
  <2> QED
    BY <1>11, <1>b, <1>s, <2>1 DEF CallerFails, OtpTypeOK, Effect
<1> QED
  BY <1>1, <1>2, <1>3, <1>4, <1>5, <1>6, <1>7, <1>8, <1>9, <1>10, <1>11 DEF CallerStep

\* Codes run out and the resend key expires on their own.
LEMMA TimePasses ==
    ASSUME CodesBase, \/ \E c \in Codes : CodeExpires(c)
                      \/ \E p \in Purposes : CooldownEnds(p)
                      \/ UNCHANGED otpVars
    PROVE  OtpTypeOK' /\ SameRows /\ UNCHANGED <<caller, opened>>
<1>b. OtpTypeOK
  BY DEF CodesBase
<1>1. ASSUME NEW c \in Codes, CodeExpires(c)
      PROVE  OtpTypeOK' /\ SameRows /\ UNCHANGED <<caller, opened>>
  <2>1. UNCHANGED <<cooldown, caller, user, opened>>
    BY <1>1 DEF CodeExpires
  <2> QED
    BY <1>1, <1>b, <2>1, RunningOut DEF OtpTypeOK
<1>2. ASSUME NEW p \in Purposes, CooldownEnds(p)
      PROVE  OtpTypeOK' /\ SameRows /\ UNCHANGED <<caller, opened>>
  BY <1>2, <1>b DEF CooldownEnds, OtpTypeOK, SameRows
<1>3. ASSUME UNCHANGED otpVars PROVE OtpTypeOK' /\ SameRows /\ UNCHANGED <<caller, opened>>
  BY <1>3, <1>b DEF otpVars, OtpTypeOK, SameRows
<1> QED
  BY <1>1, <1>2, <1>3

LEMMA StepKinds ==
    ASSUME CodesBase, [OtpNext]_otpVars
    PROVE  /\ OtpTypeOK'
           /\ \/ \E r \in Callers : Effect(r)
              \/ SameRows /\ UNCHANGED <<caller, opened>>
  BY EveryStep, TimePasses DEF OtpNext

LEMMA CodesStepsKeepBase == CodesBase /\ [OtpNext]_otpVars => CodesBase'
<1> SUFFICES ASSUME CodesBase, [OtpNext]_otpVars PROVE CodeInHand' /\ ConsumedIsMade'
  BY StepKinds DEF CodesBase
<1>1. ASSUME NEW r \in Callers, Effect(r) PROVE CodeInHand' /\ ConsumedIsMade'
  BY <1>1 DEF CodesBase, CodeInHand, ConsumedIsMade, Effect, MovesAside, OtherCallersStay, SameRows, WithCode, OnTheWay
<1>2. ASSUME SameRows, UNCHANGED <<caller, opened>> PROVE CodeInHand' /\ ConsumedIsMade'
  BY <1>2 DEF CodesBase, CodeInHand, ConsumedIsMade, SameRows
<1> QED
  BY <1>1, <1>2, StepKinds

LEMMA CodesInitBase == OtpInit => CodesBase
<1>1. NoRow \in CodeRow /\ NoRow.consumed = FALSE
  BY DEF NoRow, CodeRow, Purposes
<1> QED
  BY <1>1, IdleCallerTyped DEF OtpInit, CodesBase, OtpTypeOK, CodeInHand, ConsumedIsMade, WithCode, Purposes

\* Every state of the codes and their requests is well typed.
THEOREM CodesTypeCorrect == OtpSpec => []OtpTypeOK
<1>1. CodesBase => OtpTypeOK
  BY DEF CodesBase
<1> QED
  BY <1>1, CodesInitBase, CodesStepsKeepBase, PTL DEF OtpSpec

-----------------------------------------------------------------------------
\* A request that consumed code c and has not opened its session yet.
Rides(q, c) == caller[q].pc \in OnTheWay /\ caller[q].code = c

\* A code is on the way to one session or has opened one, and is consumed then.
OneEach(c) ==
    /\ opened[c] \in {0, 1}
    /\ opened[c] = 1 => code[c].consumed
    /\ \A r \in Callers : Rides(r, c) => code[c].consumed /\ opened[c] = 0
    /\ \A q, r \in Callers : Rides(q, c) /\ Rides(r, c) => q = r
OneInv == \A c \in Codes : OneEach(c)

LEMMA NoNewRider ==
    ASSUME NEW c \in Codes, OneEach(c),
           opened'[c] = opened[c], code'[c].consumed = code[c].consumed,
           \A q \in Callers : Rides(q, c)' => Rides(q, c)
    PROVE  OneEach(c)'
  BY DEF OneEach

LEMMA AsideRides ==
    ASSUME NEW r \in Callers, NEW c \in Codes, MovesAside(r)
    PROVE  /\ \A q \in Callers : Rides(q, c)' => Rides(q, c)
           /\ ~ Rides(r, c)'
  BY DEF MovesAside, OtherCallersStay, Rides, WithCode, OnTheWay

LEMMA StepsKeepOne ==
    ASSUME CodesBase, OneInv, [OtpNext]_otpVars
    PROVE  OneInv'
<1>o. opened \in [Codes -> Nat]
  BY DEF CodesBase, OtpTypeOK
<1>1. ASSUME NEW r \in Callers, Effect(r) PROVE OneInv'
  <2> SUFFICES ASSUME NEW c \in Codes PROVE OneEach(c)'
    BY DEF OneInv
  <2>c. OneEach(c)
    BY DEF OneInv
  <2>1. CASE MovesAside(r) /\ SameRows /\ opened' = opened
    <3>1. code'[c].consumed = code[c].consumed /\ opened'[c] = opened[c]
      BY <2>1 DEF SameRows
    <3> QED
      BY <2>c, <2>1, <3>1, AsideRides, NoNewRider
  <2>2. ASSUME NEW b \in Codes, MovesAside(r), opened' = opened,
               ~ code[b].made, code'[b].made, ~ code'[b].consumed,
               \A d \in Codes \ {b} : code'[d] = code[d]
        PROVE  OneEach(c)'
    <3>1. ~ code[b].consumed
      BY <2>2 DEF CodesBase, ConsumedIsMade
    <3>2. CASE c = b
      <4>1. /\ opened[c] = 0 /\ opened'[c] = 0
            /\ \A q \in Callers : ~ Rides(q, c)
        BY <2>c, <2>2, <3>1, <3>2 DEF OneEach
      <4>2. \A q \in Callers : ~ Rides(q, c)'
        BY <2>2, <4>1, AsideRides
      <4> QED
        BY <4>1, <4>2 DEF OneEach
    <3>3. CASE c # b
      <4>1. code'[c].consumed = code[c].consumed /\ opened'[c] = opened[c]
        BY <2>2, <3>3
      <4> QED
        BY <2>c, <2>2, <4>1, AsideRides, NoNewRider
    <3> QED
      BY <3>2, <3>3
  <2>3. CASE /\ OtherCallersStay(r) /\ SameRows /\ opened' = opened
             /\ caller'[r].pc \in {"consume", "count"}
    <3>1. code'[c].consumed = code[c].consumed /\ opened'[c] = opened[c]
      BY <2>3 DEF SameRows
    <3>2. \A q \in Callers : Rides(q, c)' => Rides(q, c)
      BY <2>3 DEF OtherCallersStay, Rides, OnTheWay
    <3> QED
      BY <2>c, <3>1, <3>2, NoNewRider
  <2>4. CASE /\ MovesAside(r) /\ opened' = opened
             /\ \A d \in Codes : code'[d].consumed = code[d].consumed
    <3>1. code'[c].consumed = code[c].consumed /\ opened'[c] = opened[c]
      BY <2>4
    <3> QED
      BY <2>c, <2>4, <3>1, AsideRides, NoNewRider
  <2>5. CASE /\ OtherCallersStay(r) /\ opened' = opened
             /\ caller[r].pc = "consume" /\ caller[r].code \in Codes
             /\ caller'[r].pc = "findUser" /\ caller'[r].code = caller[r].code
             /\ ~ code[caller[r].code].consumed /\ code'[caller[r].code].consumed
             /\ \A d \in Codes : d # caller[r].code => code'[d] = code[d]
    <3>1. CASE c = caller[r].code
      <4>1. /\ opened[c] = 0 /\ opened'[c] = 0
            /\ \A q \in Callers : ~ Rides(q, c)
        BY <2>c, <2>5, <3>1 DEF OneEach
      <4>2. \A q \in Callers : Rides(q, c)' => q = r
        BY <2>5, <4>1 DEF OtherCallersStay, Rides
      <4> QED
        BY <2>5, <3>1, <4>1, <4>2 DEF OneEach
    <3>2. CASE c # caller[r].code
      <4>1. code'[c].consumed = code[c].consumed /\ opened'[c] = opened[c]
        BY <2>5, <3>2
      <4>2. \A q \in Callers : Rides(q, c)' => Rides(q, c)
        BY <2>5, <3>2 DEF OtherCallersStay, Rides
      <4> QED
        BY <2>c, <4>1, <4>2, NoNewRider
    <3> QED
      BY <3>1, <3>2
  <2>6. CASE /\ OtherCallersStay(r) /\ SameRows /\ opened' = opened
             /\ caller[r].pc \in OnTheWay
             /\ caller'[r].pc \in {"createUser", "session"} /\ caller'[r].code = caller[r].code
    <3>1. code'[c].consumed = code[c].consumed /\ opened'[c] = opened[c]
      BY <2>6 DEF SameRows
    <3>2. \A q \in Callers : Rides(q, c)' => Rides(q, c)
      BY <2>6 DEF OtherCallersStay, Rides
    <3> QED
      BY <2>c, <3>1, <3>2, NoNewRider
  <2>7. CASE /\ MovesAside(r) /\ SameRows
             /\ caller[r].pc = "session" /\ caller[r].code \in Codes
             /\ opened' = [opened EXCEPT ![caller[r].code] = @ + 1]
    <3>1. CASE c = caller[r].code
      <4>1. Rides(r, c)
        BY <2>7, <3>1 DEF Rides, OnTheWay
      <4>2. /\ opened[c] = 0 /\ code[c].consumed
            /\ \A q \in Callers : Rides(q, c) => q = r
        BY <2>c, <4>1 DEF OneEach
      <4>3. opened'[c] = 1 /\ code'[c].consumed
        BY <1>o, <2>7, <3>1, <4>2 DEF SameRows
      <4>4. \A q \in Callers : ~ Rides(q, c)'
        BY <2>7, <4>2, AsideRides
      <4> QED
        BY <4>3, <4>4 DEF OneEach
    <3>2. CASE c # caller[r].code
      <4>1. opened'[c] = opened[c] /\ code'[c].consumed = code[c].consumed
        BY <1>o, <2>7, <3>2 DEF SameRows
      <4> QED
        BY <2>c, <2>7, <4>1, AsideRides, NoNewRider
    <3> QED
      BY <3>1, <3>2
  <2> QED
    BY <1>1, <2>1, <2>2, <2>3, <2>4, <2>5, <2>6, <2>7 DEF Effect
<1>2. ASSUME SameRows, UNCHANGED <<caller, opened>> PROVE OneInv'
  <2> SUFFICES ASSUME NEW c \in Codes PROVE OneEach(c)'
    BY DEF OneInv
  <2>1. code'[c].consumed = code[c].consumed /\ opened'[c] = opened[c]
    BY <1>2 DEF SameRows
  <2>2. \A q \in Callers : Rides(q, c)' => Rides(q, c)
    BY <1>2 DEF Rides
  <2> QED
    BY <2>1, <2>2, NoNewRider DEF OneInv
<1> QED
  BY <1>1, <1>2, StepKinds

LEMMA OneIsEnough == OneInv => OneSessionPerCode
<1> SUFFICES ASSUME OneInv, NEW c \in Codes
             PROVE  /\ opened[c] + Cardinality(OtpHolding(c, {"findUser", "createUser", "session"})) <= 1
                    /\ opened[c] > 0 => code[c].consumed
  BY DEF OneSessionPerCode
<1>1. OneEach(c)
  BY DEF OneInv
<1>2. PICK S : S = OtpHolding(c, {"findUser", "createUser", "session"})
  OBVIOUS
<1>3. CASE S = {}
  BY <1>1, <1>2, <1>3, FS_EmptySet DEF OneEach
<1>4. CASE S # {}
  <2>1. PICK r : r \in S
    BY <1>4
  <2>2. opened[c] = 0 /\ S = {r}
    BY <1>1, <1>2, <2>1 DEF OneEach, Rides, OtpHolding, OnTheWay
  <2>3. Cardinality({r}) = 1
    BY FS_Singleton
  <2> QED
    BY <1>2, <2>2, <2>3
<1> QED
  BY <1>3, <1>4

\* A code opens one session at most, however many requests submit it at once.
THEOREM CodesOpenOneSession == OtpSpec => []OneSessionPerCode
<1>1. OtpInit => OneInv
  <2> SUFFICES ASSUME OtpInit, NEW c \in Codes PROVE OneEach(c)
    BY DEF OneInv
  <2>1. opened[c] = 0
    BY DEF OtpInit
  <2>2. \A q \in Callers : ~ Rides(q, c)
    BY IdleCallerTyped DEF OtpInit, Rides, OnTheWay
  <2> QED
    BY <2>1, <2>2 DEF OneEach
<1>2. CodesBase /\ OneInv /\ [OtpNext]_otpVars => (CodesBase /\ OneInv)'
  BY CodesStepsKeepBase, StepsKeepOne
<1> QED
  BY <1>1, <1>2, OneIsEnough, CodesInitBase, PTL DEF OtpSpec

-----------------------------------------------------------------------------
\* Requests that found tries left and are about to count one.
Counters(c) == OtpHolding(c, {"count"})

LEMMA CountersFinite ==
    /\ \A c : IsFiniteSet(Counters(c)) /\ Cardinality(Counters(c)) \in Nat
             /\ Cardinality(Counters(c)) <= Cardinality(Callers)
    /\ \A c : IsFiniteSet(Counters(c)') /\ Cardinality(Counters(c)') \in Nat
             /\ Cardinality(Counters(c)') <= Cardinality(Callers)
    /\ Cardinality(Callers) \in Nat
<1>1. \A S \in SUBSET Callers : IsFiniteSet(S) /\ Cardinality(S) <= Cardinality(Callers)
  BY CallersAssumption, FS_Subset
<1>2. \A S \in SUBSET Callers : Cardinality(S) \in Nat
  BY <1>1, FS_CardinalityType
<1>3. \A c : Counters(c) \in SUBSET Callers /\ Counters(c)' \in SUBSET Callers
  BY DEF Counters, OtpHolding
<1> QED
  BY <1>1, <1>2, <1>3, CallersAssumption, FS_CardinalityType

\* Where a code's row keeps its count, fewer counters keep the bound.
LEMMA FewerCounters ==
    ASSUME CodesBase, AttemptsBounded, NEW c \in Codes, code'[c].attempts = code[c].attempts,
           Counters(c)' \subseteq Counters(c)
    PROVE  code'[c].attempts + Cardinality(Counters(c)') <= OtpMaxAttempts - 1 + Cardinality(Callers)
<1>1. Cardinality(Counters(c)') <= Cardinality(Counters(c))
  BY CountersFinite, FS_Subset
<1>2. code[c].attempts + Cardinality(Counters(c)) <= OtpMaxAttempts - 1 + Cardinality(Callers)
  BY DEF AttemptsBounded, Counters
<1>3. code[c].attempts \in Nat
  BY DEF CodesBase, OtpTypeOK, CodeRow
<1> QED
  BY <1>1, <1>2, <1>3, CountersFinite, OtpBoundsAssumption

LEMMA StepsKeepBound ==
    ASSUME CodesBase, AttemptsBounded, [OtpNext]_otpVars
    PROVE  AttemptsBounded'
<1> SUFFICES ASSUME NEW c \in Codes
             PROVE  code'[c].attempts + Cardinality(Counters(c)')
                      <= OtpMaxAttempts - 1 + Cardinality(Callers)
  BY DEF AttemptsBounded, Counters
<1>a. code[c].attempts \in Nat
  BY DEF CodesBase, OtpTypeOK, CodeRow
<1>1. ASSUME NEW r \in Callers, Effect(r)
      PROVE  code'[c].attempts + Cardinality(Counters(c)')
               <= OtpMaxAttempts - 1 + Cardinality(Callers)
  <2> USE DEF MovesAside, OtherCallersStay, WithCode, OnTheWay
  <2>f. ASSUME OtherCallersStay(r), caller'[r].pc # "count" PROVE Counters(c)' \subseteq Counters(c)
    BY <2>f DEF Counters, OtpHolding
  <2>1. CASE /\ OtherCallersStay(r) /\ caller'[r].pc # "count"
             /\ \A d \in Codes : code'[d].attempts = code[d].attempts
    BY <2>1, <2>f, FewerCounters
  <2>2. ASSUME NEW b \in Codes, MovesAside(r), code'[b].attempts = 0,
               \A d \in Codes \ {b} : code'[d] = code[d]
        PROVE  code'[c].attempts + Cardinality(Counters(c)')
                 <= OtpMaxAttempts - 1 + Cardinality(Callers)
    <3>1. CASE c = b
      <4>1. code'[c].attempts = 0
        BY <2>2, <3>1
      <4> QED
        BY <4>1, CountersFinite, OtpBoundsAssumption
    <3>2. CASE c # b
      BY <2>2, <2>f, <3>2, FewerCounters
    <3> QED
      BY <3>1, <3>2
  <2>3. CASE /\ OtherCallersStay(r) /\ SameRows
             /\ caller'[r].pc \in {"consume", "count"} /\ caller'[r].code \in Codes
             /\ code[caller'[r].code].attempts < OtpMaxAttempts
    <3>1. CASE caller'[r].pc = "count" /\ caller'[r].code = c
      <4>1. code'[c].attempts = code[c].attempts /\ code[c].attempts <= OtpMaxAttempts - 1
        BY <1>a, <2>3, <3>1, OtpBoundsAssumption DEF SameRows
      <4> QED
        BY <1>a, <4>1, CountersFinite, OtpBoundsAssumption
    <3>2. CASE ~(caller'[r].pc = "count" /\ caller'[r].code = c)
      <4>1. Counters(c)' \subseteq Counters(c)
        BY <2>3, <3>2 DEF Counters, OtpHolding
      <4> QED
        BY <2>3, <4>1, FewerCounters DEF SameRows
    <3> QED
      BY <3>1, <3>2
  <2>4. CASE /\ MovesAside(r)
             /\ caller[r].pc = "count" /\ caller[r].code \in Codes
             /\ code'[caller[r].code].attempts = code[caller[r].code].attempts + 1
             /\ \A d \in Codes : d # caller[r].code => code'[d] = code[d]
    <3>1. CASE c = caller[r].code
      <4>1. r \in Counters(c) /\ Counters(c)' = Counters(c) \ {r}
        BY <2>4, <3>1 DEF Counters, OtpHolding
      <4>2. Cardinality(Counters(c)') = Cardinality(Counters(c)) - 1
        BY <4>1, CountersFinite, FS_RemoveElement
      <4>3. code[c].attempts + Cardinality(Counters(c)) <= OtpMaxAttempts - 1 + Cardinality(Callers)
        BY DEF AttemptsBounded, Counters
      <4>4. code'[c].attempts = code[c].attempts + 1
        BY <2>4, <3>1
      <4> QED
        BY <1>a, <4>2, <4>3, <4>4, CountersFinite, OtpBoundsAssumption
    <3>2. CASE c # caller[r].code
      BY <2>4, <2>f, <3>2, FewerCounters
    <3> QED
      BY <3>1, <3>2
  <2> QED
    BY <1>1, <2>1, <2>2, <2>3, <2>4 DEF Effect, SameRows
<1>2. ASSUME SameRows, UNCHANGED <<caller, opened>>
      PROVE  code'[c].attempts + Cardinality(Counters(c)')
               <= OtpMaxAttempts - 1 + Cardinality(Callers)
  BY <1>2, FewerCounters DEF SameRows, Counters, OtpHolding
<1> QED
  BY <1>1, <1>2, StepKinds

\* Attempts counted against a code pass the limit by no more than the requests
\* that were comparing at once.
THEOREM AttemptsAreBounded == OtpSpec => []AttemptsBounded
<1>1. OtpInit => AttemptsBounded
  <2> SUFFICES ASSUME OtpInit, NEW c \in Codes
               PROVE  code[c].attempts + Cardinality(Counters(c))
                        <= OtpMaxAttempts - 1 + Cardinality(Callers)
    BY DEF AttemptsBounded, Counters
  <2>1. code[c].attempts = 0
    BY DEF OtpInit, NoRow
  <2> QED
    BY <2>1, CountersFinite, OtpBoundsAssumption
<1>2. CodesBase /\ AttemptsBounded /\ [OtpNext]_otpVars => (CodesBase /\ AttemptsBounded)'
  BY CodesStepsKeepBase, StepsKeepBound
<1> QED
  BY <1>1, <1>2, CodesInitBase, PTL DEF OtpSpec

-----------------------------------------------------------------------------
(* Sessions and their cache.                                               *)

\* A request has a session in hand from its read on.
InHand ==
    \A r \in Visits :
        request[r].pc \in {"db", "fill", "tomb", "in", "evict", "retire", "replace"} =>
            request[r].session \in Sessions
\* Only rows that were made are revoked, and not in the future.
RevokedBefore ==
    \A s \in Sessions : session[s].revoked => session[s].made /\ session[s].revokedAt <= now
\* A request holds a session it found in a row.
HeldIsMade ==
    \A r \in Visits : request[r].pc \in {"retire", "replace"} => session[request[r].session].made

SessBase == SessTypeOK /\ InHand /\ RevokedBefore /\ HeldIsMade

LEMMA BoundsAreNumbers ==
    MaxSessions \in Nat /\ MaxTime \in Nat /\ CacheTTL \in Nat /\ TombstoneTTL \in Nat /\ RefreshTTL \in Nat
  BY SessionBoundsAssumption

\* What a step makes of the record of its request.
LEMMA RowsTyped ==
    ASSUME SessTypeOK, NEW s \in Sessions
    PROVE  /\ Revoked(s) \in SessionRow
           /\ Revoked(s).revoked = TRUE /\ Revoked(s).made = session[s].made
           /\ Revoked(s).revokedAt = IF session[s].revoked THEN session[s].revokedAt ELSE now
<1>1. session[s] \in SessionRow /\ now \in Nat
  BY DEF SessTypeOK
<1>2. PICK at : at = IF session[s].revoked THEN session[s].revokedAt ELSE now
  OBVIOUS
<1>3. at \in Nat
  BY <1>1, <1>2 DEF SessionRow
<1>4. Revoked(s) = [session[s] EXCEPT !.revoked = TRUE, !.revokedAt = at]
  BY <1>2 DEF Revoked
<1>5. [session[s] EXCEPT !.revoked = TRUE, !.revokedAt = at] \in SessionRow
  BY <1>1, <1>3 DEF SessionRow
<1>6. /\ [session[s] EXCEPT !.revoked = TRUE, !.revokedAt = at].revoked = TRUE
      /\ [session[s] EXCEPT !.revoked = TRUE, !.revokedAt = at].made = session[s].made
      /\ [session[s] EXCEPT !.revoked = TRUE, !.revokedAt = at].revokedAt = at
  BY <1>1 DEF SessionRow
<1> QED
  BY <1>2, <1>4, <1>5, <1>6

LEMMA NewRowTyped ==
    ASSUME SessTypeOK
    PROVE  /\ [NoRowYet EXCEPT !.made = TRUE, !.ends = now + RefreshTTL] \in SessionRow
           /\ [NoRowYet EXCEPT !.made = TRUE, !.ends = now + RefreshTTL].made = TRUE
           /\ [NoRowYet EXCEPT !.made = TRUE, !.ends = now + RefreshTTL].revoked = FALSE
<1>1. now + RefreshTTL \in Nat
  BY BoundsAreNumbers DEF SessTypeOK
<1> QED
  BY <1>1 DEF NoRowYet, SessionRow

LEMMA EntriesTyped ==
    ASSUME SessTypeOK
    PROVE  /\ NoEntry \in Entry
           /\ [at |-> now, until |-> now + CacheTTL] \in Entry
           /\ [at |-> now, until |-> now + TombstoneTTL] \in Entry
<1>1. now \in Nat /\ now + CacheTTL \in Nat /\ now + TombstoneTTL \in Nat
  BY BoundsAreNumbers DEF SessTypeOK
<1> QED
  BY <1>1 DEF NoEntry, Entry

LEMMA VisitsTyped ==
    ASSUME SessTypeOK
    PROVE  /\ Waiting \in Visit
           /\ [Waiting EXCEPT !.pc = "revokeAll"] \in Visit
           /\ \A s \in Sessions : /\ [Waiting EXCEPT !.pc = "retire", !.session = s] \in Visit
                                  /\ [pc |-> "tomb", session |-> s, record |-> cached[s]] \in Visit
                                  /\ [pc |-> "db", session |-> s, record |-> NoEntry] \in Visit
  BY EntriesTyped DEF SessTypeOK, Visit, Waiting

LEMMA SessStepsKeepTypes ==
    ASSUME SessBase, [SessNext]_sessVars
    PROVE  SessTypeOK'
<1>b. SessTypeOK
  BY DEF SessBase
<1> USE DEF SessTypeOK
<1>1. ASSUME NEW s \in Sessions, SignIn(s) PROVE SessTypeOK'
  <2>1. session' \in [Sessions -> SessionRow]
    BY <1>1, <1>b, NewRowTyped DEF SignIn, Inserted
  <2>2. signIns' \in Nat
    BY <1>1, <1>b DEF SignIn
  <2> QED
    BY <1>1, <1>b, <2>1, <2>2 DEF SignIn
<1>2. ASSUME NEW r \in Visits, NEW s \in Sessions, ReadCache(r, s) PROVE SessTypeOK'
  BY <1>2, <1>b, VisitsTyped DEF ReadCache
<1>3. ASSUME NEW r \in Visits, ReadRow(r) PROVE SessTypeOK'
  <2>1. [request[r] EXCEPT !.pc = "fill", !.record = [at |-> now, until |-> now + CacheTTL]] \in Visit
    BY <1>b, EntriesTyped DEF Visit
  <2> QED
    BY <1>3, <1>b, <2>1, VisitsTyped DEF ReadRow, Finished
<1>4. ASSUME NEW r \in Visits, FillCache(r) PROVE SessTypeOK'
  <2>1. request[r].record \in Entry
    BY <1>b DEF Visit
  <2>2. request' \in [Visits -> Visit]
    BY <1>4, <1>b DEF FillCache, Goto, Visit
  <2> QED
    BY <1>4, <1>b, <2>1, <2>2 DEF FillCache
<1>5. ASSUME NEW r \in Visits, CheckTombstone(r) PROVE SessTypeOK'
  <2>1. [request[r] EXCEPT !.pc = "in", !.record = NoEntry] \in Visit
    BY <1>b, EntriesTyped DEF Visit
  <2> QED
    BY <1>5, <1>b, <2>1, VisitsTyped DEF CheckTombstone, Finished
<1>6. ASSUME NEW r \in Visits, Serve(r) PROVE SessTypeOK'
  BY <1>6, <1>b, VisitsTyped DEF Serve, Finished
<1>7. ASSUME NEW r \in Visits, NEW s \in Sessions, Revoke(r, s) PROVE SessTypeOK'
  <2>1. [request[r] EXCEPT !.pc = "evict", !.session = s] \in Visit
    BY <1>b DEF Visit
  <2> QED
    BY <1>7, <1>b, <2>1, RowsTyped DEF Revoke
<1>8. ASSUME NEW r \in Visits, Evict(r) PROVE SessTypeOK'
  BY <1>8, <1>b, VisitsTyped, EntriesTyped DEF Evict, Finished
<1>9. ASSUME NEW r \in Visits, AskRevokeAll(r) \/ DeleteAccount(r) PROVE SessTypeOK'
  BY <1>9, <1>b, VisitsTyped DEF AskRevokeAll, DeleteAccount, AtRevokeAll
<1>10. ASSUME NEW r \in Visits, RevokeAll(r) PROVE SessTypeOK'
  <2>1. request' \in [Visits -> Visit]
    BY <1>10, <1>b DEF RevokeAll, Goto, Visit
  <2> QED
    BY <1>10, <1>b, <2>1, RowsTyped DEF RevokeAll
<1>11. ASSUME NEW r \in Visits, WriteTombstone(r) PROVE SessTypeOK'
  BY <1>11, <1>b, VisitsTyped, EntriesTyped DEF WriteTombstone, Finished
<1>12. ASSUME NEW r \in Visits, NEW s \in Sessions, RotateLoad(r, s) PROVE SessTypeOK'
  BY <1>12, <1>b, VisitsTyped DEF RotateLoad
<1>13. ASSUME NEW r \in Visits, Retire(r) PROVE SessTypeOK'
  <2>1. request[r].session \in Sessions
    BY <1>13 DEF Retire, SessBase, InHand
  <2>2. [request EXCEPT ![r].pc = "replace"] \in [Visits -> Visit]
    BY <1>b DEF Visit
  <2> QED
    BY <1>13, <1>b, <2>1, <2>2, RowsTyped, VisitsTyped DEF Retire, Finished, Goto
<1>14. ASSUME NEW r \in Visits, NEW s \in Sessions, Replace(r, s) PROVE SessTypeOK'
  <2>1. request' \in [Visits -> Visit]
    BY <1>14, <1>b DEF Replace, Goto, Visit
  <2> QED
    BY <1>14, <1>b, <2>1, NewRowTyped DEF Replace, Inserted
<1>15. ASSUME NEW r \in Visits, RequestFails(r) PROVE SessTypeOK'
  BY <1>15, <1>b, VisitsTyped DEF RequestFails, Finished
<1>16. CASE RedisToggles
  BY <1>16, <1>b DEF RedisToggles
<1>17. CASE Tick
  BY <1>17, <1>b DEF Tick
<1>18. CASE UNCHANGED sessVars
  BY <1>18, <1>b DEF sessVars
<1> QED
  BY <1>1, <1>2, <1>3, <1>4, <1>5, <1>6, <1>7, <1>8, <1>9, <1>10, <1>11, <1>12, <1>13, <1>14,
     <1>15, <1>16, <1>17, <1>18
  DEF SessNext, VisitStep

\* The rows a step touches: revoked ones and a new one; the rest stay.
RevokesOnly(S) ==
    session' = [s \in Sessions |-> IF s \in S THEN Revoked(s) ELSE session[s]]

LEMMA RevokingOne ==
    ASSUME SessTypeOK, NEW s \in Sessions, session' = [session EXCEPT ![s] = Revoked(s)]
    PROVE  RevokesOnly({s})
  BY DEF SessTypeOK, RevokesOnly

LEMMA RevokingKeepsRows ==
    ASSUME SessTypeOK, RevokedBefore, NEW S \in SUBSET Sessions, RevokesOnly(S), now' = now,
           \A s \in S : session[s].made
    PROVE  /\ RevokedBefore'
           /\ \A s \in Sessions : session[s].made => session'[s].made
<1>1. now \in Nat /\ session \in [Sessions -> SessionRow]
  BY DEF SessTypeOK
<1>2. \A s \in Sessions : session[s].made => session'[s].made
  BY <1>1, RowsTyped DEF RevokesOnly
<1>3. ASSUME NEW s \in Sessions, session'[s].revoked
      PROVE  session'[s].made /\ session'[s].revokedAt <= now
  <2>1. CASE s \in S
    <3>1. session'[s] = Revoked(s)
      BY <2>1 DEF RevokesOnly
    <3>2. Revoked(s).made = session[s].made
          /\ Revoked(s).revokedAt = IF session[s].revoked THEN session[s].revokedAt ELSE now
      BY RowsTyped
    <3> QED
      BY <1>1, <2>1, <3>1, <3>2 DEF RevokedBefore
  <2>2. CASE s \notin S
    BY <1>3, <2>2 DEF RevokesOnly, RevokedBefore
  <2> QED
    BY <2>1, <2>2
<1> QED
  BY <1>2, <1>3 DEF RevokedBefore

LEMMA InsertingKeepsRows ==
    ASSUME SessTypeOK, RevokedBefore, NEW s \in Sessions, Inserted(s), now' = now
    PROVE  /\ RevokedBefore'
           /\ \A t \in Sessions : session[t].made => session'[t].made
           /\ ~ session[s].made /\ ~ session[s].revoked
           /\ session'[s].made /\ ~ session'[s].revoked
           /\ \A t \in Sessions \ {s} : session'[t] = session[t]
  BY NewRowTyped DEF Inserted, RevokedBefore, SessTypeOK

LEMMA StepsKeepHands ==
    ASSUME SessBase, [SessNext]_sessVars
    PROVE  InHand' /\ RevokedBefore' /\ HeldIsMade'
<1>b. SessTypeOK /\ InHand /\ RevokedBefore /\ HeldIsMade
  BY DEF SessBase
<1>r. request \in [Visits -> Visit]
  BY <1>b DEF SessTypeOK
<1>q. ASSUME session' = session, now' = now PROVE RevokedBefore'
  BY <1>b, <1>q DEF RevokedBefore
<1>w. Waiting.pc = "idle"
  BY DEF Waiting
<1> USE DEF InHand, HeldIsMade
<1>1. ASSUME NEW s \in Sessions, SignIn(s) PROVE InHand' /\ RevokedBefore' /\ HeldIsMade'
  BY <1>1, <1>b, InsertingKeepsRows DEF SignIn
<1>2. ASSUME NEW r \in Visits, NEW s \in Sessions, ReadCache(r, s)
      PROVE InHand' /\ RevokedBefore' /\ HeldIsMade'
  BY <1>2, <1>b, <1>r, <1>q DEF ReadCache
<1>3. ASSUME NEW r \in Visits, ReadRow(r) PROVE InHand' /\ RevokedBefore' /\ HeldIsMade'
  <2>1. [request[r] EXCEPT !.pc = "fill", !.record = [at |-> now, until |-> now + CacheTTL]].session
          = request[r].session
        /\ [request[r] EXCEPT !.pc = "fill", !.record = [at |-> now, until |-> now + CacheTTL]].pc = "fill"
    BY <1>r DEF Visit
  <2> QED
    BY <1>3, <1>b, <1>r, <1>q, <1>w, <2>1 DEF ReadRow, Finished
<1>4. ASSUME NEW r \in Visits, FillCache(r) PROVE InHand' /\ RevokedBefore' /\ HeldIsMade'
  BY <1>4, <1>b, <1>r, <1>q DEF FillCache, Goto, Visit
<1>5. ASSUME NEW r \in Visits, CheckTombstone(r) PROVE InHand' /\ RevokedBefore' /\ HeldIsMade'
  <2>1. [request[r] EXCEPT !.pc = "in", !.record = NoEntry].session = request[r].session
        /\ [request[r] EXCEPT !.pc = "in", !.record = NoEntry].pc = "in"
    BY <1>r DEF Visit
  <2> QED
    BY <1>5, <1>b, <1>r, <1>q, <1>w, <2>1 DEF CheckTombstone, Finished
<1>6. ASSUME NEW r \in Visits, Serve(r) PROVE InHand' /\ RevokedBefore' /\ HeldIsMade'
  BY <1>6, <1>b, <1>r, <1>q, <1>w DEF Serve, Finished
<1>7. ASSUME NEW r \in Visits, NEW s \in Sessions, Revoke(r, s)
      PROVE InHand' /\ RevokedBefore' /\ HeldIsMade'
  <2>1. [request[r] EXCEPT !.pc = "evict", !.session = s].session = s
        /\ [request[r] EXCEPT !.pc = "evict", !.session = s].pc = "evict"
    BY <1>r DEF Visit
  <2>2. /\ RevokedBefore'
        /\ \A t \in Sessions : session[t].made => session'[t].made
    BY <1>7, <1>b, RevokingOne, RevokingKeepsRows DEF Revoke
  <2> QED
    BY <1>7, <1>b, <1>r, <2>1, <2>2 DEF Revoke
<1>8. ASSUME NEW r \in Visits, Evict(r) PROVE InHand' /\ RevokedBefore' /\ HeldIsMade'
  BY <1>8, <1>b, <1>r, <1>q, <1>w DEF Evict, Finished
<1>9. ASSUME NEW r \in Visits, AskRevokeAll(r) \/ DeleteAccount(r)
      PROVE InHand' /\ RevokedBefore' /\ HeldIsMade'
  <2>1. [Waiting EXCEPT !.pc = "revokeAll"].pc = "revokeAll"
    BY DEF Waiting
  <2> QED
    BY <1>9, <1>b, <1>r, <1>q, <2>1 DEF AskRevokeAll, DeleteAccount, AtRevokeAll
<1>10. ASSUME NEW r \in Visits, RevokeAll(r) PROVE InHand' /\ RevokedBefore' /\ HeldIsMade'
  <2>1. RevokesOnly({s \in Sessions : session[s].made})
    BY <1>10 DEF RevokeAll, RevokesOnly
  <2>2. /\ RevokedBefore'
        /\ \A t \in Sessions : session[t].made => session'[t].made
    BY <1>10, <1>b, <2>1, RevokingKeepsRows DEF RevokeAll
  <2> QED
    BY <1>10, <1>b, <1>r, <2>2 DEF RevokeAll, Goto, Visit
<1>11. ASSUME NEW r \in Visits, WriteTombstone(r) PROVE InHand' /\ RevokedBefore' /\ HeldIsMade'
  BY <1>11, <1>b, <1>r, <1>q, <1>w DEF WriteTombstone, Finished
<1>12. ASSUME NEW r \in Visits, NEW s \in Sessions, RotateLoad(r, s)
       PROVE InHand' /\ RevokedBefore' /\ HeldIsMade'
  <2>1. [Waiting EXCEPT !.pc = "retire", !.session = s].session = s
    BY DEF Waiting
  <2> QED
    BY <1>12, <1>b, <1>r, <1>q, <2>1 DEF RotateLoad, Valid
<1>13. ASSUME NEW r \in Visits, Retire(r) PROVE InHand' /\ RevokedBefore' /\ HeldIsMade'
  <2>1. request[r].session \in Sessions /\ session[request[r].session].made
    BY <1>13, <1>b DEF Retire
  <2>2. CASE session[request[r].session].revoked
    BY <1>13, <1>b, <1>r, <1>q, <1>w, <2>2 DEF Retire, Finished
  <2>3. CASE ~ session[request[r].session].revoked
    <3>1. /\ RevokedBefore'
          /\ \A t \in Sessions : session[t].made => session'[t].made
      BY <1>13, <1>b, <2>1, <2>3, RevokingOne, RevokingKeepsRows DEF Retire
    <3>2. request' = [request EXCEPT ![r].pc = "replace"]
      BY <1>13, <2>3 DEF Retire, Goto
    <3>3. \A q \in Visits : request'[q].session = request[q].session
                           /\ (q # r => request'[q] = request[q])
      BY <1>r, <3>2 DEF Visit
    <3> QED
      BY <1>b, <2>1, <3>1, <3>3
  <2> QED
    BY <2>2, <2>3
<1>14. ASSUME NEW r \in Visits, NEW s \in Sessions, Replace(r, s)
       PROVE InHand' /\ RevokedBefore' /\ HeldIsMade'
  BY <1>14, <1>b, <1>r, InsertingKeepsRows DEF Replace, Goto, Visit
<1>15. ASSUME NEW r \in Visits, RequestFails(r) PROVE InHand' /\ RevokedBefore' /\ HeldIsMade'
  BY <1>15, <1>b, <1>r, <1>q, <1>w DEF RequestFails, Finished
<1>16. CASE RedisToggles
  BY <1>16, <1>b, <1>q DEF RedisToggles
<1>17. CASE Tick
  <2>1. RevokedBefore'
    BY <1>17, <1>b DEF Tick, RevokedBefore, SessTypeOK, SessionRow
  <2> QED
    BY <1>17, <1>b, <2>1 DEF Tick
<1>18. CASE UNCHANGED sessVars
  BY <1>18, <1>b, <1>q DEF sessVars
<1> QED
  BY <1>1, <1>2, <1>3, <1>4, <1>5, <1>6, <1>7, <1>8, <1>9, <1>10, <1>11, <1>12, <1>13, <1>14,
     <1>15, <1>16, <1>17, <1>18
  DEF SessNext, VisitStep

LEMMA SessStepsKeepBase == SessBase /\ [SessNext]_sessVars => SessBase'
  BY SessStepsKeepTypes, StepsKeepHands DEF SessBase

LEMMA SessInitBase == SessInit => SessBase
<1>1. NoRowYet \in SessionRow /\ NoEntry \in Entry /\ Waiting \in Visit
  BY DEF NoRowYet, SessionRow, NoEntry, Entry, Waiting, Visit
<1>2. NoRowYet.revoked = FALSE /\ Waiting.pc = "idle"
  BY DEF NoRowYet, Waiting
<1> QED
  BY <1>1, <1>2 DEF SessInit, SessBase, SessTypeOK, InHand, RevokedBefore, HeldIsMade

\* Every state of the sessions and of their cache is well typed.
THEOREM SessionsTypeCorrect == SessSpec => []SessTypeOK
<1>1. SessBase => SessTypeOK
  BY DEF SessBase
<1> QED
  BY <1>1, SessInitBase, SessStepsKeepBase, PTL DEF SessSpec

-----------------------------------------------------------------------------
\* Until when a record made of session s may be good: its TTL from now, or from
\* the revocation of s.
Horizon(s) == (IF session[s].revoked THEN session[s].revokedAt ELSE now) + CacheTTL
RevokedNow(s) == session[s].revoked => session[s].revokedAt = now

\* No record outlives its horizon: neither those in Redis nor the one a request
\* is about to write, whose session, if revoked since, was revoked this tick.
CacheFresh == \A s \in Sessions : cached[s].until <= Horizon(s)
Fresh(r) ==
    /\ request[r].pc = "fill" =>
          request[r].record.until = now + CacheTTL /\ RevokedNow(request[r].session)
    /\ request[r].pc \in {"tomb", "in"} /\ session[request[r].session].revoked =>
          \/ now = session[request[r].session].revokedAt
          \/ now < session[request[r].session].revokedAt + CacheTTL
StaleInv == CacheFresh /\ \A r \in Visits : Fresh(r)

\* What a step on the rows must respect to leave records within their horizons.
RowsSettle ==
    \A s \in Sessions : session'[s].revoked =>
        \/ session[s].revoked /\ session'[s].revokedAt = session[s].revokedAt
        \/ ~ session[s].revoked /\ session'[s].revokedAt = now

LEMMA RevokingSettles ==
    ASSUME SessBase, NEW S \in SUBSET Sessions, RevokesOnly(S)
    PROVE  RowsSettle
<1> SUFFICES ASSUME NEW s \in Sessions, session'[s].revoked
             PROVE  \/ session[s].revoked /\ session'[s].revokedAt = session[s].revokedAt
                    \/ ~ session[s].revoked /\ session'[s].revokedAt = now
  BY DEF RowsSettle
<1>1. CASE s \in S
  <2>1. session'[s].revokedAt = IF session[s].revoked THEN session[s].revokedAt ELSE now
    BY <1>1, RowsTyped DEF RevokesOnly, SessBase
  <2> QED
    BY <2>1
<1>2. CASE s \notin S
  BY <1>2 DEF RevokesOnly
<1> QED
  BY <1>1, <1>2

LEMMA InsertingSettles ==
    ASSUME SessBase, NEW s \in Sessions, Inserted(s), now' = now
    PROVE  RowsSettle
  BY InsertingKeepsRows DEF SessBase, RowsSettle

LEMMA StayingSettles == ASSUME session' = session PROVE RowsSettle
  BY DEF RowsSettle

LEMMA Numbers ==
    ASSUME SessBase
    PROVE  /\ now \in Nat /\ CacheTTL \in Nat
           /\ \A s \in Sessions : cached[s].until \in Nat /\ session[s].revokedAt \in Nat
           /\ \A r \in Visits : request[r].record.until \in Nat
  BY BoundsAreNumbers DEF SessBase, SessTypeOK, Entry, SessionRow, Visit

LEMMA CacheStaysFresh ==
    ASSUME SessBase, CacheFresh, RowsSettle, now' = now, cached' = cached
    PROVE  CacheFresh'
<1> SUFFICES ASSUME NEW s \in Sessions PROVE cached[s].until <= Horizon(s)'
  BY DEF CacheFresh
<1>1. cached[s].until <= Horizon(s)
  BY DEF CacheFresh
<1>2. session[s].revoked => session[s].revokedAt <= now
  BY DEF SessBase, RevokedBefore
<1> QED
  BY <1>1, <1>2, Numbers DEF RowsSettle, Horizon

LEMMA RequestStaysFresh ==
    ASSUME SessBase, NEW r \in Visits, Fresh(r), RowsSettle, now' = now, request'[r] = request[r]
    PROVE  Fresh(r)'
<1>1. CASE request[r].pc \in {"fill", "tomb", "in"}
  <2>1. request[r].session \in Sessions
    BY <1>1 DEF SessBase, InHand
  <2> QED
    BY <2>1, Numbers DEF RowsSettle, Fresh, RevokedNow
<1>2. CASE request[r].pc \notin {"fill", "tomb", "in"}
  BY <1>2 DEF Fresh
<1> QED
  BY <1>1, <1>2

\* A step that moves request r elsewhere than to where records are used.
LEMMA AsideStaysFresh ==
    ASSUME SessBase, StaleInv, RowsSettle, now' = now, cached' = cached, NEW r \in Visits,
           \A q \in Visits \ {r} : request'[q] = request[q],
           request'[r].pc \notin {"fill", "tomb", "in"}
    PROVE  StaleInv'
<1>1. CacheFresh'
  BY CacheStaysFresh DEF StaleInv
<1>2. \A q \in Visits \ {r} : Fresh(q)'
  BY RequestStaysFresh DEF StaleInv
<1>3. Fresh(r)'
  BY DEF Fresh
<1> QED
  BY <1>1, <1>2, <1>3 DEF StaleInv

LEMMA StepsStayFresh ==
    ASSUME SessBase, StaleInv, [SessNext]_sessVars
    PROVE  StaleInv'
<1>b. SessTypeOK /\ InHand /\ RevokedBefore
  BY DEF SessBase
<1>r. request \in [Visits -> Visit] /\ cached \in [Sessions -> Entry]
  BY <1>b DEF SessTypeOK
<1>w. Waiting.pc = "idle" /\ NoEntry.until = 0
  BY DEF Waiting, NoEntry
<1>a. ASSUME NEW r \in Visits, Finished(r), session' = session, now' = now, cached' = cached
      PROVE  StaleInv'
  BY <1>a, <1>r, <1>w, StayingSettles, AsideStaysFresh DEF Finished
<1>1. ASSUME NEW s \in Sessions, SignIn(s) PROVE StaleInv'
  <2>1. RowsSettle /\ UNCHANGED <<now, cached, request>>
    BY <1>1, InsertingSettles DEF SignIn
  <2> QED
    BY <2>1, CacheStaysFresh, RequestStaysFresh DEF StaleInv
<1>2. ASSUME NEW r \in Visits, NEW s \in Sessions, ReadCache(r, s) PROVE StaleInv'
  <2>1. UNCHANGED <<now, cached, session>> /\ RowsSettle
    BY <1>2, StayingSettles DEF ReadCache
  <2>2. \A q \in Visits \ {r} : request'[q] = request[q]
    BY <1>2, <1>r DEF ReadCache
  <2>3. CASE Present(cached[s])
    <3>1. request'[r] = [pc |-> "tomb", session |-> s, record |-> cached[s]]
      BY <1>2, <1>r, <2>3 DEF ReadCache
    <3>2. now < cached[s].until /\ cached[s].until <= Horizon(s)
      BY <2>3 DEF Present, StaleInv, CacheFresh
    <3>3. Fresh(r)'
      BY <2>1, <3>1, <3>2, Numbers DEF Fresh, Horizon
    <3> QED
      BY <2>1, <2>2, <3>3, CacheStaysFresh, RequestStaysFresh DEF StaleInv
  <2>4. CASE ~ Present(cached[s])
    BY <1>2, <1>r, <2>1, <2>2, <2>4, AsideStaysFresh DEF ReadCache
  <2> QED
    BY <2>3, <2>4
<1>3. ASSUME NEW r \in Visits, ReadRow(r) PROVE StaleInv'
  <2>1. UNCHANGED <<now, cached, session>> /\ RowsSettle
    BY <1>3, StayingSettles DEF ReadRow
  <2>2. CASE Valid(request[r].session) /\ account = "open"
    <3>1. PICK e : e = [at |-> now, until |-> now + CacheTTL]
      OBVIOUS
    <3>2. request' = [request EXCEPT ![r] = [request[r] EXCEPT !.pc = "fill", !.record = e]]
      BY <1>3, <2>2, <3>1 DEF ReadRow
    <3>3. /\ request'[r].pc = "fill" /\ request'[r].record = e
          /\ request'[r].session = request[r].session
          /\ \A q \in Visits \ {r} : request'[q] = request[q]
      BY <1>r, <3>2 DEF Visit
    <3>4. ~ session[request[r].session].revoked
      BY <2>2 DEF Valid
    <3>5. Fresh(r)'
      BY <2>1, <3>1, <3>3, <3>4 DEF Fresh, RevokedNow
    <3> QED
      BY <2>1, <3>3, <3>5, CacheStaysFresh, RequestStaysFresh DEF StaleInv
  <2>3. CASE ~(Valid(request[r].session) /\ account = "open")
    BY <1>3, <1>a, <2>1, <2>3 DEF ReadRow
  <2> QED
    BY <2>2, <2>3
<1>4. ASSUME NEW r \in Visits, FillCache(r) PROVE StaleInv'
  <2>1. UNCHANGED <<now, session>> /\ RowsSettle /\ request[r].pc = "fill"
    BY <1>4, StayingSettles DEF FillCache
  <2>2. PICK s \in Sessions : s = request[r].session
    BY <1>b, <2>1 DEF InHand
  <2>3. request[r].record.until = now + CacheTTL /\ RevokedNow(s)
    BY <2>1, <2>2 DEF StaleInv, Fresh
  <2>4. /\ request'[r].pc = "tomb" /\ request'[r].session = s
        /\ \A q \in Visits \ {r} : request'[q] = request[q]
    BY <1>4, <1>r, <2>2 DEF FillCache, Goto, Visit
  <2>5. Fresh(r)'
    BY <2>1, <2>3, <2>4 DEF Fresh, RevokedNow
  <2>6. CacheFresh'
    <3>1. \/ cached' = cached
          \/ cached' = [cached EXCEPT ![s] = request[r].record]
      BY <1>4, <2>2 DEF FillCache
    <3>2. request[r].record.until <= Horizon(s)
      BY <2>3, Numbers DEF Horizon, RevokedNow
    <3>3. \A t \in Sessions : Horizon(t)' = Horizon(t)
      BY <2>1 DEF Horizon
    <3> QED
      BY <1>r, <3>1, <3>2, <3>3 DEF StaleInv, CacheFresh
  <2> QED
    BY <2>1, <2>4, <2>5, <2>6, RequestStaysFresh DEF StaleInv
<1>5. ASSUME NEW r \in Visits, CheckTombstone(r) PROVE StaleInv'
  <2>1. UNCHANGED <<now, cached, session>> /\ RowsSettle /\ request[r].pc = "tomb"
    BY <1>5, StayingSettles DEF CheckTombstone
  <2>2. CASE Finished(r)
    BY <1>a, <2>1, <2>2
  <2>3. CASE request' = [request EXCEPT ![r] = [@ EXCEPT !.pc = "in", !.record = NoEntry]]
    <3>1. request' = [request EXCEPT ![r] = [request[r] EXCEPT !.pc = "in", !.record = NoEntry]]
      BY <2>3
    <3>2. /\ request'[r].pc = "in" /\ request'[r].session = request[r].session
          /\ \A q \in Visits \ {r} : request'[q] = request[q]
      BY <1>r, <3>1 DEF Visit
    <3>3. Fresh(r)'
      BY <2>1, <3>2 DEF StaleInv, Fresh
    <3> QED
      BY <2>1, <3>2, <3>3, CacheStaysFresh, RequestStaysFresh DEF StaleInv
  <2> QED
    BY <1>5, <2>2, <2>3 DEF CheckTombstone
<1>6. ASSUME NEW r \in Visits, Serve(r) \/ RequestFails(r) \/ WriteTombstone(r) PROVE StaleInv'
  BY <1>6, <1>a DEF Serve, RequestFails, WriteTombstone
<1>7. ASSUME NEW r \in Visits, NEW s \in Sessions, Revoke(r, s) PROVE StaleInv'
  <2>1. RowsSettle /\ UNCHANGED <<now, cached>>
    BY <1>7, <1>b, RevokingOne, RevokingSettles DEF Revoke
  <2>2. request' = [request EXCEPT ![r] = [request[r] EXCEPT !.pc = "evict", !.session = s]]
    BY <1>7 DEF Revoke
  <2>3. request'[r].pc = "evict" /\ \A q \in Visits \ {r} : request'[q] = request[q]
    BY <1>r, <2>2 DEF Visit
  <2> QED
    BY <2>1, <2>3, AsideStaysFresh
<1>8. ASSUME NEW r \in Visits, Evict(r) PROVE StaleInv'
  <2>1. UNCHANGED <<now, session>> /\ RowsSettle
    BY <1>8, StayingSettles DEF Evict
  <2>2. request'[r].pc = "idle" /\ \A q \in Visits \ {r} : request'[q] = request[q]
    BY <1>8, <1>r, <1>w DEF Evict, Finished
  <2>3. CacheFresh'
    <3>1. \A s \in Sessions : cached'[s] = cached[s] \/ cached'[s].until = 0
      BY <1>8, <1>r, <1>w DEF Evict
    <3>2. \A s \in Sessions : Horizon(s)' = Horizon(s) /\ 0 <= Horizon(s)
      BY <2>1, Numbers DEF Horizon
    <3> QED
      BY <3>1, <3>2 DEF StaleInv, CacheFresh
  <2>4. Fresh(r)'
    BY <2>2 DEF Fresh
  <2> QED
    BY <2>1, <2>2, <2>3, <2>4, RequestStaysFresh DEF StaleInv
<1>9. ASSUME NEW r \in Visits, AskRevokeAll(r) \/ DeleteAccount(r) PROVE StaleInv'
  <2>1. UNCHANGED <<now, cached, session>> /\ RowsSettle
    BY <1>9, StayingSettles DEF AskRevokeAll, DeleteAccount
  <2>2. request'[r].pc = "revokeAll" /\ \A q \in Visits \ {r} : request'[q] = request[q]
    BY <1>9, <1>r DEF AskRevokeAll, DeleteAccount, AtRevokeAll, Waiting
  <2> QED
    BY <2>1, <2>2, AsideStaysFresh
<1>10. ASSUME NEW r \in Visits, RevokeAll(r) PROVE StaleInv'
  <2>1. RevokesOnly({s \in Sessions : session[s].made})
    BY <1>10 DEF RevokeAll, RevokesOnly
  <2>2. UNCHANGED <<now, cached>> /\ RowsSettle
    BY <1>10, <2>1, RevokingSettles DEF RevokeAll
  <2>3. request'[r].pc = "stamp" /\ \A q \in Visits \ {r} : request'[q] = request[q]
    BY <1>10, <1>r DEF RevokeAll, Goto, Visit
  <2> QED
    BY <2>2, <2>3, AsideStaysFresh
<1>11. ASSUME NEW r \in Visits, NEW s \in Sessions, RotateLoad(r, s) PROVE StaleInv'
  <2>1. UNCHANGED <<now, cached, session>> /\ RowsSettle
    BY <1>11, StayingSettles DEF RotateLoad
  <2>2. request'[r].pc = "retire" /\ \A q \in Visits \ {r} : request'[q] = request[q]
    BY <1>11, <1>r DEF RotateLoad, Waiting
  <2> QED
    BY <2>1, <2>2, AsideStaysFresh
<1>12. ASSUME NEW r \in Visits, Retire(r) PROVE StaleInv'
  <2>1. request[r].session \in Sessions
    BY <1>12, <1>b DEF Retire, InHand
  <2>2. CASE session[request[r].session].revoked
    BY <1>12, <1>a, <2>2 DEF Retire
  <2>3. CASE ~ session[request[r].session].revoked
    <3>1. RowsSettle /\ UNCHANGED <<now, cached>>
      BY <1>12, <1>b, <2>1, <2>3, RevokingOne, RevokingSettles DEF Retire
    <3>2. request'[r].pc = "replace" /\ \A q \in Visits \ {r} : request'[q] = request[q]
      BY <1>12, <1>r, <2>3 DEF Retire, Goto, Visit
    <3> QED
      BY <3>1, <3>2, AsideStaysFresh
  <2> QED
    BY <2>2, <2>3
<1>13. ASSUME NEW r \in Visits, NEW s \in Sessions, Replace(r, s) PROVE StaleInv'
  <2>1. RowsSettle /\ UNCHANGED <<now, cached>>
    BY <1>13, InsertingSettles DEF Replace
  <2>2. request'[r].pc = "evict" /\ \A q \in Visits \ {r} : request'[q] = request[q]
    BY <1>13, <1>r DEF Replace, Goto, Visit
  <2> QED
    BY <2>1, <2>2, AsideStaysFresh
<1>14. CASE RedisToggles
  <2>1. UNCHANGED <<now, cached, session, request>> /\ RowsSettle
    BY <1>14, StayingSettles DEF RedisToggles
  <2> QED
    BY <2>1, CacheStaysFresh, RequestStaysFresh DEF StaleInv
<1>15. CASE Tick
  <2>1. \A r \in Visits : request'[r].pc = "idle"
    BY <1>15 DEF Tick
  <2>2. UNCHANGED <<cached, session>> /\ now' = now + 1
    BY <1>15 DEF Tick
  <2>3. CacheFresh'
    BY <2>2, Numbers DEF StaleInv, CacheFresh, Horizon
  <2> QED
    BY <2>1, <2>3 DEF StaleInv, Fresh
<1>16. CASE UNCHANGED sessVars
  <2>1. UNCHANGED <<now, cached, session, request>> /\ RowsSettle
    BY <1>16, StayingSettles DEF sessVars
  <2> QED
    BY <2>1, CacheStaysFresh, RequestStaysFresh DEF StaleInv
<1> QED
  BY <1>1, <1>2, <1>3, <1>4, <1>5, <1>6, <1>7, <1>8, <1>9, <1>10, <1>11, <1>12, <1>13, <1>14,
     <1>15, <1>16
  DEF SessNext, VisitStep

\* A revoked session is let in for less than the cache's TTL after its
\* revocation, whatever fills and evictions overlap and while Redis is down.
THEOREM RevokedWithinTTL == SessSpec => []StaleWithinTTL
<1>1. SessInit => StaleInv
  <2>1. NoRowYet.revoked = FALSE /\ Waiting.pc = "idle" /\ NoEntry.until = 0
    BY DEF NoRowYet, Waiting, NoEntry
  <2> QED
    BY <2>1, BoundsAreNumbers DEF SessInit, StaleInv, CacheFresh, Fresh, Horizon
<1>2. SessBase /\ StaleInv /\ [SessNext]_sessVars => (SessBase /\ StaleInv)'
  BY SessStepsKeepBase, StepsStayFresh
<1>3. StaleInv => StaleWithinTTL
  BY DEF StaleInv, Fresh, StaleWithinTTL
<1> QED
  BY <1>1, <1>2, <1>3, SessInitBase, PTL DEF SessSpec

-----------------------------------------------------------------------------
AliveSessions == {s \in Sessions : session[s].made /\ ~ session[s].revoked}
Replacing == {r \in Visits : request[r].pc = "replace"}

LEMMA BothFinite ==
    ASSUME NEW S \in SUBSET Sessions, NEW R \in SUBSET Visits
    PROVE  /\ IsFiniteSet(S) /\ Cardinality(S) \in Nat
           /\ IsFiniteSet(R) /\ Cardinality(R) \in Nat
<1>1. IsFiniteSet(Sessions)
  BY FS_Interval, BoundsAreNumbers DEF Sessions
<1>2. IsFiniteSet(S) /\ IsFiniteSet(R)
  BY <1>1, RequestsAssumption, FS_Subset
<1> QED
  BY <1>2, FS_CardinalityType

LEMMA AliveAndReplacing ==
    /\ AliveSessions \in SUBSET Sessions /\ AliveSessions' \in SUBSET Sessions
    /\ Replacing \in SUBSET Visits /\ Replacing' \in SUBSET Visits
  BY DEF AliveSessions, Replacing

LEMMA Shrinking ==
    ASSUME SessBase, RotationNeverMultiplies, AliveSessions' \subseteq AliveSessions,
           Replacing' \subseteq Replacing, signIns' = signIns
    PROVE  RotationNeverMultiplies'
<1>1. /\ IsFiniteSet(AliveSessions) /\ Cardinality(AliveSessions) \in Nat
      /\ IsFiniteSet(Replacing) /\ Cardinality(Replacing) \in Nat
      /\ Cardinality(AliveSessions') \in Nat /\ Cardinality(Replacing') \in Nat
  BY AliveAndReplacing, BothFinite
<1>2. Cardinality(AliveSessions') <= Cardinality(AliveSessions)
  BY <1>1, FS_Subset
<1>3. Cardinality(Replacing') <= Cardinality(Replacing)
  BY <1>1, FS_Subset
<1>4. Cardinality(AliveSessions) + Cardinality(Replacing) <= signIns /\ signIns \in Nat
  BY DEF RotationNeverMultiplies, AliveSessions, Replacing, SessBase, SessTypeOK
<1>5. Cardinality(AliveSessions') + Cardinality(Replacing') <= signIns'
  BY <1>1, <1>2, <1>3, <1>4
<1> QED
  BY <1>5 DEF RotationNeverMultiplies, AliveSessions, Replacing

\* A row comes alive for a sign-in, or for a replacement that is over.
LEMMA Growing ==
    ASSUME SessBase, RotationNeverMultiplies, NEW s \in Sessions, s \notin AliveSessions,
           AliveSessions' = AliveSessions \union {s},
           \/ signIns' = signIns + 1 /\ Replacing' = Replacing
           \/ signIns' = signIns /\ \E r \in Replacing : Replacing' = Replacing \ {r}
    PROVE  RotationNeverMultiplies'
<1>1. /\ IsFiniteSet(AliveSessions) /\ Cardinality(AliveSessions) \in Nat
      /\ IsFiniteSet(Replacing) /\ Cardinality(Replacing) \in Nat
  BY AliveAndReplacing, BothFinite
<1>2. Cardinality(AliveSessions') = Cardinality(AliveSessions) + 1
  BY <1>1, FS_AddElement
<1>3. ASSUME NEW r \in Replacing, Replacing' = Replacing \ {r}
      PROVE  Cardinality(Replacing') = Cardinality(Replacing) - 1
  BY <1>1, <1>3, FS_RemoveElement
<1>4. Cardinality(AliveSessions) + Cardinality(Replacing) <= signIns /\ signIns \in Nat
  BY DEF RotationNeverMultiplies, AliveSessions, Replacing, SessBase, SessTypeOK
<1>5. Cardinality(AliveSessions') + Cardinality(Replacing') <= signIns'
  BY <1>1, <1>2, <1>3, <1>4
<1> QED
  BY <1>5 DEF RotationNeverMultiplies, AliveSessions, Replacing

\* A request gets to replace a row by ending its life.
LEMMA Retiring ==
    ASSUME SessBase, RotationNeverMultiplies, NEW s \in AliveSessions, NEW r \in Visits, r \notin Replacing,
           AliveSessions' = AliveSessions \ {s}, Replacing' = Replacing \union {r}, signIns' = signIns
    PROVE  RotationNeverMultiplies'
<1>1. /\ IsFiniteSet(AliveSessions) /\ Cardinality(AliveSessions) \in Nat
      /\ IsFiniteSet(Replacing) /\ Cardinality(Replacing) \in Nat
  BY AliveAndReplacing, BothFinite
<1>2. Cardinality(AliveSessions') = Cardinality(AliveSessions) - 1
  BY <1>1, FS_RemoveElement
<1>3. Cardinality(Replacing') = Cardinality(Replacing) + 1
  BY <1>1, FS_AddElement
<1>4. Cardinality(AliveSessions) + Cardinality(Replacing) <= signIns /\ signIns \in Nat
  BY DEF RotationNeverMultiplies, AliveSessions, Replacing, SessBase, SessTypeOK
<1>5. Cardinality(AliveSessions') + Cardinality(Replacing') <= signIns'
  BY <1>1, <1>2, <1>3, <1>4
<1> QED
  BY <1>5 DEF RotationNeverMultiplies, AliveSessions, Replacing

LEMMA StepsNeverMultiply ==
    ASSUME SessBase, RotationNeverMultiplies, [SessNext]_sessVars
    PROVE  RotationNeverMultiplies'
<1>b. SessTypeOK /\ InHand /\ RevokedBefore /\ HeldIsMade
  BY DEF SessBase
<1>r. request \in [Visits -> Visit]
  BY <1>b DEF SessTypeOK
<1>w. Waiting.pc = "idle"
  BY DEF Waiting
\* A step of one request that does not get to replace, and leaves the rows.
<1>q. ASSUME NEW r \in Visits, session' = session, signIns' = signIns,
             \A q \in Visits \ {r} : request'[q] = request[q], request'[r].pc # "replace"
      PROVE  RotationNeverMultiplies'
  BY <1>q, Shrinking DEF AliveSessions, Replacing
<1>f. ASSUME NEW r \in Visits, Finished(r)
      PROVE  request'[r].pc = "idle" /\ \A q \in Visits \ {r} : request'[q] = request[q]
  BY <1>f, <1>r, <1>w DEF Finished
<1>1. ASSUME NEW s \in Sessions, SignIn(s) PROVE RotationNeverMultiplies'
  <2>1. s \notin AliveSessions /\ AliveSessions' = AliveSessions \union {s}
    BY <1>1, <1>b, InsertingKeepsRows DEF SignIn, AliveSessions
  <2>2. signIns' = signIns + 1 /\ Replacing' = Replacing
    BY <1>1 DEF SignIn, Replacing
  <2> QED
    BY <2>1, <2>2, Growing
<1>2. ASSUME NEW r \in Visits, NEW s \in Sessions, ReadCache(r, s) PROVE RotationNeverMultiplies'
  BY <1>2, <1>r, <1>q DEF ReadCache
<1>3. ASSUME NEW r \in Visits, ReadRow(r) PROVE RotationNeverMultiplies'
  <2>1. [request[r] EXCEPT !.pc = "fill", !.record = [at |-> now, until |-> now + CacheTTL]].pc = "fill"
    BY <1>r DEF Visit
  <2>2. request'[r].pc # "replace" /\ \A q \in Visits \ {r} : request'[q] = request[q]
    BY <1>3, <1>f, <1>r, <2>1 DEF ReadRow
  <2> QED
    BY <1>3, <1>q, <2>2 DEF ReadRow
<1>4. ASSUME NEW r \in Visits, FillCache(r) PROVE RotationNeverMultiplies'
  <2>1. request'[r].pc = "tomb" /\ \A q \in Visits \ {r} : request'[q] = request[q]
    BY <1>4, <1>r DEF FillCache, Goto, Visit
  <2> QED
    BY <1>4, <1>q, <2>1 DEF FillCache
<1>5. ASSUME NEW r \in Visits, CheckTombstone(r) PROVE RotationNeverMultiplies'
  <2>1. [request[r] EXCEPT !.pc = "in", !.record = NoEntry].pc = "in"
    BY <1>r DEF Visit
  <2>2. request'[r].pc # "replace" /\ \A q \in Visits \ {r} : request'[q] = request[q]
    BY <1>5, <1>f, <1>r, <2>1 DEF CheckTombstone
  <2> QED
    BY <1>5, <1>q, <2>2 DEF CheckTombstone
<1>6. ASSUME NEW r \in Visits, Serve(r) \/ RequestFails(r) \/ WriteTombstone(r) \/ Evict(r)
      PROVE  RotationNeverMultiplies'
  BY <1>6, <1>f, <1>q DEF Serve, RequestFails, WriteTombstone, Evict
<1>7. ASSUME NEW r \in Visits, NEW s \in Sessions, Revoke(r, s) PROVE RotationNeverMultiplies'
  <2>1. RevokesOnly({s})
    BY <1>7, <1>b, RevokingOne DEF Revoke
  <2>2. AliveSessions' \subseteq AliveSessions
    BY <1>b, <2>1, RowsTyped DEF RevokesOnly, AliveSessions
  <2>3. request' = [request EXCEPT ![r] = [request[r] EXCEPT !.pc = "evict", !.session = s]]
    BY <1>7 DEF Revoke
  <2>4. request'[r].pc = "evict" /\ \A q \in Visits \ {r} : request'[q] = request[q]
    BY <1>r, <2>3 DEF Visit
  <2>5. Replacing' \subseteq Replacing
    BY <2>4 DEF Replacing
  <2> QED
    BY <1>7, <2>2, <2>5, Shrinking DEF Revoke
<1>8. ASSUME NEW r \in Visits, AskRevokeAll(r) \/ DeleteAccount(r) PROVE RotationNeverMultiplies'
  <2>1. request'[r].pc = "revokeAll" /\ \A q \in Visits \ {r} : request'[q] = request[q]
    BY <1>8, <1>r DEF AskRevokeAll, DeleteAccount, AtRevokeAll, Waiting
  <2> QED
    BY <1>8, <1>q, <2>1 DEF AskRevokeAll, DeleteAccount
<1>9. ASSUME NEW r \in Visits, RevokeAll(r) PROVE RotationNeverMultiplies'
  <2>1. RevokesOnly({s \in Sessions : session[s].made})
    BY <1>9 DEF RevokeAll, RevokesOnly
  <2>2. AliveSessions' \subseteq AliveSessions
    BY <1>b, <2>1, RowsTyped DEF RevokesOnly, AliveSessions
  <2>3. request'[r].pc = "stamp" /\ \A q \in Visits \ {r} : request'[q] = request[q]
    BY <1>9, <1>r DEF RevokeAll, Goto, Visit
  <2>4. Replacing' \subseteq Replacing
    BY <2>3 DEF Replacing
  <2> QED
    BY <1>9, <2>2, <2>4, Shrinking DEF RevokeAll
<1>10. ASSUME NEW r \in Visits, NEW s \in Sessions, RotateLoad(r, s) PROVE RotationNeverMultiplies'
  <2>1. request'[r].pc = "retire" /\ \A q \in Visits \ {r} : request'[q] = request[q]
    BY <1>10, <1>r DEF RotateLoad, Waiting
  <2> QED
    BY <1>10, <1>q, <2>1 DEF RotateLoad
<1>11. ASSUME NEW r \in Visits, Retire(r) PROVE RotationNeverMultiplies'
  <2>1. PICK s \in Sessions : s = request[r].session /\ session[s].made
    BY <1>11, <1>b DEF Retire, InHand, HeldIsMade
  <2>2. CASE session[s].revoked
    BY <1>11, <1>f, <1>q, <2>1, <2>2 DEF Retire
  <2>3. CASE ~ session[s].revoked
    <3>1. RevokesOnly({s}) /\ signIns' = signIns
      BY <1>11, <1>b, <2>1, <2>3, RevokingOne DEF Retire
    <3>2. s \in AliveSessions /\ AliveSessions' = AliveSessions \ {s}
      BY <1>b, <2>1, <2>3, <3>1, RowsTyped DEF RevokesOnly, AliveSessions
    <3>3. request'[r].pc = "replace" /\ \A q \in Visits \ {r} : request'[q] = request[q]
      BY <1>11, <1>r, <2>1, <2>3 DEF Retire, Goto, Visit
    <3>4. r \notin Replacing /\ Replacing' = Replacing \union {r}
      BY <1>11, <3>3 DEF Retire, Replacing
    <3> QED
      BY <3>1, <3>2, <3>4, Retiring
  <2> QED
    BY <2>2, <2>3
<1>12. ASSUME NEW r \in Visits, NEW s \in Sessions, Replace(r, s) PROVE RotationNeverMultiplies'
  <2>1. s \notin AliveSessions /\ AliveSessions' = AliveSessions \union {s}
    BY <1>12, <1>b, InsertingKeepsRows DEF Replace, AliveSessions
  <2>2. request'[r].pc = "evict" /\ \A q \in Visits \ {r} : request'[q] = request[q]
    BY <1>12, <1>r DEF Replace, Goto, Visit
  <2>3. r \in Replacing /\ Replacing' = Replacing \ {r} /\ signIns' = signIns
    BY <1>12, <2>2 DEF Replace, Replacing
  <2> QED
    BY <2>1, <2>3, Growing
<1>13. CASE RedisToggles \/ Tick \/ UNCHANGED sessVars
  BY <1>13, Shrinking DEF RedisToggles, Tick, sessVars, AliveSessions, Replacing
<1> QED
  BY <1>1, <1>2, <1>3, <1>4, <1>5, <1>6, <1>7, <1>8, <1>9, <1>10, <1>11, <1>12, <1>13
  DEF SessNext, VisitStep

\* Refreshes never multiply sessions: those alive, and those about to replace one
\* that is not, are no more than the sign-ins.
THEOREM OneSessionPerSignIn == SessSpec => []RotationNeverMultiplies
<1>1. SessInit => RotationNeverMultiplies
  <2>1. SessInit => AliveSessions = {} /\ Replacing = {} /\ signIns = 0
    BY DEF SessInit, AliveSessions, Replacing, NoRowYet, Waiting
  <2>2. Cardinality({}) + Cardinality({}) <= 0
    BY FS_EmptySet
  <2> QED
    BY <2>1, <2>2 DEF RotationNeverMultiplies, AliveSessions, Replacing
<1>2. SessBase /\ RotationNeverMultiplies /\ [SessNext]_sessVars => (SessBase /\ RotationNeverMultiplies)'
  BY SessStepsKeepBase, StepsNeverMultiply
<1> QED
  BY <1>1, <1>2, SessInitBase, PTL DEF SessSpec
=============================================================================
