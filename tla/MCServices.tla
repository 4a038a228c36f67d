----------------------------- MODULE MCServices -----------------------------
(***************************************************************************)
(* The parts of the API that share no state with each other, side by side: *)
(* sign-in codes, sessions and their cache, the Stripe webhook, the usage  *)
(* counter, the Idempotency-Key hook and result rows.  `focus`, chosen at  *)
(* the start, says which of them moves, so the instance is the sum of      *)
(* theirs and not the product.                                             *)
(***************************************************************************)
EXTENDS OtpCodes, SessionCache, BillingWebhooks, UsageQuota, IdempotencyKey, ResultRows

VARIABLE focus

Services == {"otp", "sessions", "billing", "usage", "idempotency", "results"}

OneOrUnlimited == {Unlimited, 1}

vars == <<focus, otpVars, sessVars, billVars, usageVars, idemVars, resVars>>

\* The values left open by an Init are explored only in the service that moves.
Init ==
    /\ focus \in Services
    /\ OtpInit /\ (focus # "otp" => user = "none")
    /\ SessInit
    /\ BillInit
    /\ UsageInit /\ (focus # "usage" => planLimit = Unlimited)
    /\ IdemInit /\ (focus # "idempotency" => \A r, s \in IdemRequests :
                                                idemReq[r].body = CHOOSE b \in Bodies : TRUE)
    /\ ResInit

Next ==
    /\ UNCHANGED focus
    /\ \/ /\ focus = "otp" /\ OtpNext
          /\ UNCHANGED <<sessVars, billVars, usageVars, idemVars, resVars>>
       \/ /\ focus = "sessions" /\ SessNext
          /\ UNCHANGED <<otpVars, billVars, usageVars, idemVars, resVars>>
       \/ /\ focus = "billing" /\ BillNext
          /\ UNCHANGED <<otpVars, sessVars, usageVars, idemVars, resVars>>
       \/ /\ focus = "usage" /\ UsageNext
          /\ UNCHANGED <<otpVars, sessVars, billVars, idemVars, resVars>>
       \/ /\ focus = "idempotency" /\ IdemNext
          /\ UNCHANGED <<otpVars, sessVars, billVars, usageVars, resVars>>
       \/ /\ focus = "results" /\ ResNext
          /\ UNCHANGED <<otpVars, sessVars, billVars, usageVars, idemVars>>

Spec == Init /\ [][Next]_vars

\* The rows of the service that moves keep their types.
ServicesTypeOK ==
    CASE focus = "otp"         -> OtpTypeOK
      [] focus = "sessions"    -> SessTypeOK
      [] focus = "billing"     -> BillTypeOK
      [] focus = "usage"       -> UsageTypeOK
      [] focus = "idempotency" -> IdemTypeOK
      [] focus = "results"     -> ResTypeOK
============================================================================
