---------------------------- MODULE DistressLadder ----------------------------
(***************************************************************************)
(* The retry and fallback ladder of distress_delivery.rs: the primary         *)
(* transport up to 1 + max_retries times with a pause between attempts, then  *)
(* every fallback once, until one of them accepts the mail.                   *)
(***************************************************************************)
EXTENDS Naturals, Sequences

CONSTANTS
    U32Max,         \* the largest u32, the type of max_retries
    MaxFallbacks    \* the longest fallback slice a caller passes

ASSUME LadderAssumption == U32Max \in Nat \ {0} /\ MaxFallbacks \in Nat

VARIABLES
    phase,      \* where the ladder is
    policy,     \* what the caller passed
    calls       \* history: the deliver calls that returned, in order

vars == <<phase, policy, calls>>

Outcomes == {"delivered", "nack", "error"}

Running == {"primary", "backoff", "fallback"}
Finished == {"delivered", "exhausted", "error"}

Policies == [retries : 0 .. U32Max, fallbacks : 0 .. MaxFallbacks]

\* Transport 0 is the primary, transport n the n-th fallback.
Call == [by : 0 .. MaxFallbacks, outcome : Outcomes]

TypeOK ==
    /\ phase \in {"idle"} \cup Running \cup Finished
    /\ policy \in Policies
    /\ calls \in Seq(Call)

\* Faulty variant: 1 + max_retries wraps around.
WrappingAttempts(retries) == (1 + retries) % (U32Max + 1)

\* 1_u32.saturating_add(max_retries)
MaxAttempts(retries) == IF retries = U32Max THEN U32Max ELSE 1 + retries

Attempts == MaxAttempts(policy.retries)

\* Faulty variant: a pause also follows the last attempt.
PauseAfterLast(p, n) ==
    IF n <= MaxAttempts(p.retries) THEN "backoff"
    ELSE IF n < MaxAttempts(p.retries) + p.fallbacks THEN "fallback"
    ELSE "exhausted"

\* The phase that follows the n-th return when nothing was delivered.
PhaseAfterNack(p, n) ==
    IF n < MaxAttempts(p.retries) THEN "backoff"
    ELSE IF n < MaxAttempts(p.retries) + p.fallbacks THEN "fallback"
    ELSE "exhausted"

Init ==
    /\ phase = "idle"
    /\ policy \in Policies
    /\ calls = << >>

\* A caller enters the ladder; with no attempt and no fallback it would
\* return at once.
Start(p) ==
    /\ phase = "idle"
    /\ policy' = p
    /\ calls' = << >>
    /\ phase' = IF MaxAttempts(p.retries) > 0
                THEN "primary" ELSE PhaseAfterNack(p, 0)

\* Faulty variant: a success does not end the ladder.
ReturnedAlwaysGoesOn(by, outcome) ==
    /\ calls' = Append(calls, [by |-> by, outcome |-> outcome])
    /\ phase' = PhaseAfterNack(policy, Len(calls'))
    /\ UNCHANGED policy

\* Faulty variant: an attempt that was refused does not count.
ReturnedUncounted(by, outcome) ==
    /\ calls' = IF outcome = "nack"
                THEN calls ELSE Append(calls, [by |-> by, outcome |-> outcome])
    /\ phase' = IF outcome = "nack"
                THEN PhaseAfterNack(policy, Len(calls')) ELSE outcome
    /\ UNCHANGED policy

Returned(by, outcome) ==
    /\ calls' = Append(calls, [by |-> by, outcome |-> outcome])
    /\ phase' = IF outcome = "nack"
                THEN PhaseAfterNack(policy, Len(calls')) ELSE outcome
    /\ UNCHANGED policy

PrimaryReturns(outcome) ==
    /\ phase = "primary"
    /\ Returned(0, outcome)

\* The pause between two attempts.
Backoff ==
    /\ phase = "backoff"
    /\ phase' = "primary"
    /\ UNCHANGED <<policy, calls>>

\* Faulty variant: the first fallback is skipped.
FallbackSkipsFirst(outcome) ==
    /\ phase = "fallback"
    /\ Returned(Len(calls) + 2 - Attempts, outcome)

FallbackReturns(outcome) ==
    /\ phase = "fallback"
    /\ Returned(Len(calls) + 1 - Attempts, outcome)

\* The caller takes the result, or its process dies in the middle.
Leave ==
    /\ phase \in Finished
    /\ phase' = "idle"
    /\ calls' = << >>
    /\ UNCHANGED policy

Die ==
    /\ phase \in Running
    /\ phase' = "idle"
    /\ calls' = << >>
    /\ UNCHANGED policy

Next ==
    \/ \E p \in Policies : Start(p)
    \/ \E outcome \in Outcomes : PrimaryReturns(outcome)
    \/ Backoff
    \/ \E outcome \in Outcomes : FallbackReturns(outcome)
    \/ Leave
    \/ Die

Spec == Init /\ [][Next]_vars

-----------------------------------------------------------------------------
\* A mail that was accepted is never sent again and an error ends the ladder:
\* every call but the last was refused (distress_delivery.rs:30-33).
StopsAtFirstSuccess ==
    \A i \in 1 .. Len(calls) - 1 : calls[i].outcome = "nack"

\* The ladder reports failure only after it made every call it has: each
\* attempt of the primary, then each fallback once, in order.  At least one
\* call is made whatever max_retries is, u32::MAX included.
FailsOnlyWhenExhausted ==
    phase = "exhausted" =>
        /\ Len(calls) = Attempts + policy.fallbacks
        /\ Len(calls) > 0
        /\ \A i \in DOMAIN calls :
              /\ calls[i].by = IF i <= Attempts THEN 0 ELSE i - Attempts
              /\ calls[i].outcome = "nack"

\* A pause is always followed by an attempt: never after the last one, and
\* never between fallbacks.
PausesBetweenAttempts ==
    phase = "backoff" => 0 < Len(calls) /\ Len(calls) < Attempts
=============================================================================
