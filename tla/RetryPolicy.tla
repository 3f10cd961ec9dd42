----------------------------- MODULE RetryPolicy -----------------------------
(***************************************************************************)
(* The pure decisions of src/drcom/src/retry_policy.c: how long to wait    *)
(* before the next login, when to give a session up, which login template  *)
(* to try and which extra keepalive packet to send.  The thresholds are    *)
(* parameters so that a model may shrink them; the values of               *)
(* retry_policy.h are named beside them.                                   *)
(***************************************************************************)
EXTENDS Integers

CONSTANTS
    FailureThreshold,   \* DRCOM_KEEPALIVE_FAILURE_RECONNECT_THRESHOLD, 6
    ExtraInterval       \* DRCOM_JLU_KEEPALIVE_EXTRA_INTERVAL, 10

ASSUME RetryPolicyAssumption ==
    /\ FailureThreshold \in Nat \ {0}
    /\ ExtraInterval \in Nat \ {0}

ShortGenericDelay == 3
DefaultDelay == 60

Templates == {"STANDARD", "JLU"}

NormalizeLoginRetryDelay(seconds) ==
    IF seconds > 0 THEN seconds ELSE DefaultDelay

RetryDelayForLoginReply(code, length, retryAfter) ==
    IF code = "WRONG_PASS" /\ length <= 5 THEN ShortGenericDelay
    ELSE IF code = "UPDATE_CLIENT" /\ retryAfter > 0 THEN retryAfter
    ELSE DefaultDelay

(* Mutant: a good round does not clear the count. *)
StickyFailureCount(failures, succeeded) ==
    IF succeeded THEN failures ELSE failures + 1

NextKeepaliveFailureCount(failures, succeeded) ==
    IF succeeded THEN 0
    ELSE (IF failures < 0 THEN 0 ELSE failures) + 1

(* Mutant: one failure late. *)
LateReconnect(failures) == failures > FailureThreshold

ShouldReconnect(failures) == failures >= FailureThreshold

(* Mutant: the alternate template, once reached, is never left. *)
StickyTemplate(jluMode, failedLogins) ==
    IF jluMode \/ failedLogins > 2 THEN "JLU" ELSE "STANDARD"

LoginTemplateForAttempt(jluMode, failedLogins) ==
    IF jluMode \/ (failedLogins > 2 /\ failedLogins % 2 # 0)
    THEN "JLU" ELSE "STANDARD"

KeepaliveExtraKind(rounds) ==
    IF rounds <= 0 THEN "FIRST"
    ELSE IF rounds % ExtraInterval = 0 THEN "PERIODIC"
    ELSE "NONE"

-----------------------------------------------------------------------------
(***************************************************************************)
(* Two counters of dogcom() grow without bound.  The code reads the number *)
(* of completed keepalive rounds only through KeepaliveExtraKind and the   *)
(* number of failed logins only through LoginTemplateForAttempt, so the    *)
(* models count in the quotients below, which those two cannot tell from   *)
(* the real counters (ExchangeProofs).                                     *)
(***************************************************************************)
NextRounds(rounds) == IF rounds = ExtraInterval THEN 1 ELSE rounds + 1

NextFailedLogins(failed) == IF failed = 4 THEN 3 ELSE failed + 1

ReducedRounds(n) == IF n = 0 THEN 0 ELSE ((n - 1) % ExtraInterval) + 1

ReducedFailedLogins(n) == IF n <= 4 THEN n ELSE 4 - (n % 2)
=============================================================================
