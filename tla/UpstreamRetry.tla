--------------------------- MODULE UpstreamRetry ---------------------------
(***************************************************************************)
(* The bounded retry of a native turn, before any byte has been relayed:   *)
(* fetchWithRetry in src/router/src/upstream-retry.mjs.                    *)
(*                                                                         *)
(* One request; the attempts, the backoff, the budget and a caller who may *)
(* leave at any await.  Time is counted in ticks since the first attempt.  *)
(* canRetry is left out: its callers relay nothing before this returns.    *)
(***************************************************************************)
EXTENDS Naturals, Sequences

CONSTANTS Retries, Backoff, BackoffFactor, Budget,
          MaxAttempt    \* the longest an attempt takes, in ticks

(* The backoff before attempt n + 2.                                       *)
Delay(n) == Backoff * BackoffFactor ^ n

ASSUME RetryAssumption ==
    /\ Retries \in Nat /\ Backoff \in Nat /\ BackoffFactor \in Nat
    /\ Budget \in Nat \ {0} /\ MaxAttempt \in Nat
    /\ \A n \in 0..Retries : Delay(n) \in Nat

VARIABLES pc, attempt,
          clock,    \* now() - startedAt
          taken,    \* how long each attempt took
          left,     \* what is left of the backoff
          hears,    \* an abort would end the backoff
          reply,    \* what the last attempt brought
          body,     \* a response whose body nobody has read or cancelled
          aborted

request == <<pc, attempt, clock, taken, left, hears, reply, body, aborted>>

Replies == {"ok", "final", "status", "error", "abort"}
HasBody(r) == r \in {"ok", "final", "status"}
(* isRetryableStatus, isRetryableTransportError                            *)
Retryable(r) == r \in {"status", "error"}

RetryInit ==
    /\ pc = "fetch" /\ attempt = 0 /\ clock = 0 /\ taken = <<>> /\ left = 0
    /\ hears = FALSE /\ reply = "none" /\ body = FALSE /\ aborted = FALSE

(* An attempt ends after some time; with the caller gone fetch rejects.    *)
Fetch ==
    /\ pc = "fetch" /\ pc' = "judge"
    /\ \E r \in Replies, d \in 0..MaxAttempt :
         /\ aborted => r = "abort"
         /\ reply' = r /\ body' = HasBody(r)
         /\ clock' = clock + d /\ taken' = Append(taken, d)
    /\ aborted' = (aborted \/ reply' = "abort")
    /\ UNCHANGED <<attempt, left, hears>>

(* Mutant: the budget pays for the delay only after it has been slept.     *)
SettlesLate == attempt >= Retries \/ ~Retryable(reply) \/ aborted \/ clock >= Budget + Delay(attempt)
Settles == attempt >= Retries \/ ~Retryable(reply) \/ aborted \/ clock >= Budget
(* settle: the response is handed to the caller, a failure is thrown.      *)
Settle ==
    /\ pc = "judge" /\ Settles
    /\ pc' = (IF HasBody(reply) THEN "returned" ELSE "threw")
    /\ UNCHANGED <<attempt, clock, taken, left, hears, reply, body, aborted>>

Again ==
    /\ pc = "judge" /\ ~Settles /\ pc' = "discard"
    /\ UNCHANGED <<attempt, clock, taken, left, hears, reply, body, aborted>>
(* The body is cancelled; sleep listens for an abort that is still to come,*)
(* and the listener is never called for one that came during the discard.  *)
Doze ==
    /\ pc = "discard" /\ pc' = "sleep"
    /\ body' = FALSE /\ attempt' = attempt + 1 /\ left' = Delay(attempt) /\ hears' = ~aborted
    /\ UNCHANGED <<clock, taken, reply, aborted>>

Woken == hears /\ aborted
Pass ==
    /\ pc = "sleep" /\ left > 0 /\ ~Woken /\ left' = left - 1 /\ clock' = clock + 1
    /\ UNCHANGED <<pc, attempt, taken, hears, reply, body, aborted>>
(* Mutant: the signal is not looked at again after the sleep.              *)
WakeAnyway ==
    /\ pc = "sleep" /\ (left = 0 \/ Woken) /\ pc' = "fetch"
    /\ UNCHANGED <<attempt, clock, taken, left, hears, reply, body, aborted>>
(* Mutant: an abort clears the timer and resolves nothing.                 *)
WakeByTimer ==
    /\ pc = "sleep" /\ left = 0 /\ pc' = (IF aborted THEN "threw" ELSE "fetch")
    /\ UNCHANGED <<attempt, clock, taken, left, hears, reply, body, aborted>>
(* sleep ends with its timer or with the caller.                           *)
Wake ==
    /\ pc = "sleep" /\ (left = 0 \/ Woken)
    /\ pc' = (IF aborted THEN "threw" ELSE "fetch")
    /\ UNCHANGED <<attempt, clock, taken, left, hears, reply, body, aborted>>

(* The caller leaves; without a body nothing is awaited in discardBody.    *)
Leave ==
    /\ ~aborted /\ (pc = "discard" => body) /\ pc \in {"fetch", "judge", "discard", "sleep"} /\ aborted' = TRUE
    /\ UNCHANGED <<pc, attempt, clock, taken, left, hears, reply, body>>

RetryNext == Fetch \/ Settle \/ Again \/ Doze \/ Pass \/ Wake \/ Leave
RetryFairness ==
    /\ WF_request(Fetch) /\ WF_request(Settle) /\ WF_request(Again) /\ WF_request(Doze)
    /\ WF_request(Pass) /\ WF_request(Wake)
RetrySpec == RetryInit /\ [][RetryNext]_request /\ RetryFairness

---------------------------------------------------------------------------
Finished == {"returned", "threw"}

(* A slow failure is never multiplied: an attempt that takes the whole     *)
(* budget is the last, and what is spent when an attempt is started is     *)
(* less than the budget and the last delay together.                       *)
OneSlowAttempt ==
    /\ \A i \in 1..Len(taken) : taken[i] >= Budget => i = Len(taken) /\ pc \notin {"discard", "sleep", "fetch"}
    /\ pc = "fetch" /\ attempt > 0 => clock < Budget + Delay(attempt - 1)

(* Work for nobody: once the caller has left no attempt is started.        *)
NothingForNobody == [][aborted /\ pc # "fetch" => pc' # "fetch"]_request

(* The request ends, and no socket is lost on the way: the only body left  *)
(* open is the one handed over.                                            *)
Ends == <>(pc \in Finished /\ (body => pc = "returned"))
============================================================================
