-------------------------------- MODULE Retry --------------------------------
(***************************************************************************)
(* DoWithRetry (internal/oncall/retry.go): the loop, the backoff, the      *)
(* deadline and the caller's context, against a clock.                     *)
(*                                                                         *)
(*     head --> waiting --> calling --> head ...                           *)
(*      `----------`-----------`-------> done                              *)
(*                                                                         *)
(* Time is counted in ticks; what the code does between two waits takes no *)
(* time.  No code of the server calls DoWithRetry at this commit.          *)
(* Mutant... definitions are faulty variants not used.                     *)
(***************************************************************************)
EXTENDS Integers

CONSTANTS
  MaxRetries, BaseDelay, MaxDelay, Timeout,  \* the RetryConfig
  DurationMax                                \* the largest time.Duration

ASSUME ConfigAssumption ==
  /\ MaxRetries \in Int
  /\ BaseDelay \in Nat /\ MaxDelay \in Nat /\ Timeout \in Nat /\ DurationMax \in Nat

VARIABLES
  now,        \* the clock
  canceled,   \* whether the caller cancelled its context
  phase,      \* where DoWithRetry is
  attempt,    \* its loop variable
  wake,       \* when the timer of the backoff fires
  lastErr,    \* its last error
  result,     \* what it returned
  sent,       \* how often it called fn
  freed,      \* when the last call of fn ended
  failure     \* how the last call of fn failed, if it did

timeVars == <<now, canceled>>
loopVars == <<phase, attempt, wake, lastErr, result>>
historyVars == <<sent, freed, failure>>
vars == <<timeVars, loopVars, historyVars>>

Failures == {"429", "5xx", "temporary", "permanent"}

-----------------------------------------------------------------------------
(* math.Pow(2, n), for a natural n.                                        *)
Power[n \in Nat] == IF n = 0 THEN 1 ELSE 2 * Power[n - 1]

(* backoff: doubled each time, jittered by less than the base, capped.     *)
(* Beyond the largest Duration the conversion is the platform's choice: a  *)
(* negative delay, over at once, or a huge one, capped.                    *)
MutantBackoff(n) == {IF BaseDelay < MaxDelay THEN BaseDelay ELSE MaxDelay}
Backoff(n) ==
  LET raw == {BaseDelay * Power[n - 1] + jitter : jitter \in 0..(BaseDelay - 1)}
             \cup {BaseDelay * Power[n - 1]}
  IN {IF d < MaxDelay THEN d ELSE MaxDelay : d \in raw}
     \cup IF \E d \in raw : d > DurationMax THEN {0} ELSE {}

(* reqCtx is done: its deadline is over, or its parent was cancelled.      *)
Expired == now >= Timeout \/ canceled

(* What DoWithRetry waits for has happened, or it waits for nothing.       *)
MutantDue ==
  /\ phase = "waiting" => now >= wake
  /\ phase = "calling" => Expired
Due ==
  /\ phase = "waiting" => now >= wake \/ Expired
  /\ phase = "calling" => Expired

-----------------------------------------------------------------------------
Init ==
  /\ now = 0
  /\ canceled = FALSE
  /\ phase = "head"
  /\ attempt = 0
  /\ wake = 0
  /\ lastErr = "nil"
  /\ result = "none"
  /\ sent = 0
  /\ freed = 0
  /\ failure = "none"

Return(r) == phase' = "done" /\ result' = r /\ UNCHANGED <<attempt, wake, lastErr>>

(* The loop condition.                                                     *)
MutantGoesOn == attempt <= MaxRetries + 1
GoesOn == attempt <= MaxRetries

Exhausted ==
  /\ phase = "head"
  /\ ~GoesOn
  /\ Return("exhausted")
  /\ UNCHANGED <<timeVars, historyVars>>

CallFn ==
  /\ phase' = "calling"
  /\ sent' = sent + 1
  /\ UNCHANGED <<timeVars, attempt, wake, lastErr, result, freed, failure>>

FirstAttempt == phase = "head" /\ attempt = 0 /\ GoesOn /\ CallFn

(* The select between the context and the timer: either one when both are  *)
(* ready.                                                                  *)
BackOff ==
  /\ phase = "head"
  /\ attempt > 0 /\ GoesOn
  /\ phase' = "waiting"
  /\ \E d \in Backoff(attempt) : wake' = now + d
  /\ UNCHANGED <<timeVars, attempt, lastErr, result, historyVars>>

NextAttempt == phase = "waiting" /\ now >= wake /\ CallFn

CanceledInBackoff ==
  /\ phase = "waiting"
  /\ Expired
  /\ Return("canceled")
  /\ UNCHANGED <<timeVars, historyVars>>

Ended(how) == freed' = now /\ failure' = how /\ UNCHANGED <<timeVars, sent>>

(* fn returned a response that is neither a 429 nor a 5xx ...              *)
MutantRespond ==
  /\ phase = "calling"
  /\ Return("response")
  /\ Ended("429")
Respond ==
  /\ phase = "calling"
  /\ Return("response")
  /\ Ended("none")

(* ... or one of those, or an error that is Temporary(), which the end of  *)
(* the deadline is too; external: fn gives up when its context is done.    *)
MutantTryAgain(how) ==
  /\ phase = "calling"
  /\ Ended(how)
  /\ lastErr' = IF lastErr = "nil" THEN how ELSE lastErr
  /\ phase' = "head"
  /\ attempt' = attempt + 1
  /\ UNCHANGED <<wake, result>>
TryAgain(how) ==
  /\ phase = "calling"
  /\ Ended(how)
  /\ lastErr' = how
  /\ phase' = "head"
  /\ attempt' = attempt + 1
  /\ UNCHANGED <<wake, result>>

(* ... or another error, such as the cancellation.                         *)
MutantPermanent == TryAgain("permanent")
Permanent ==
  /\ phase = "calling"
  /\ Return("permanent")
  /\ Ended("permanent")

FnReturns ==
  \/ Respond
  \/ \E how \in Failures \ {"permanent"} : TryAgain(how)
  \/ Permanent

FnGivesUp ==
  \/ now >= Timeout /\ TryAgain("temporary")
  \/ canceled /\ Permanent

-----------------------------------------------------------------------------
(* Time goes on while DoWithRetry waits.                                   *)
Tick ==
  /\ phase \in {"waiting", "calling"}
  /\ ~Due
  /\ now' = now + 1
  /\ UNCHANGED <<canceled, loopVars, historyVars>>

(* External: the caller cancels.                                           *)
Cancel ==
  /\ ~canceled
  /\ phase # "done"
  /\ canceled' = TRUE
  /\ UNCHANGED <<now, loopVars, historyVars>>

Loop ==
  Exhausted \/ FirstAttempt \/ BackOff \/ NextAttempt \/ CanceledInBackoff

Next == Loop \/ FnReturns \/ FnGivesUp \/ Tick \/ Cancel

Spec == Init /\ [][Next]_vars

(* The runtime runs the loop, time passes, and fn honours its context.     *)
FairSpec == Spec /\ WF_vars(Loop) /\ WF_vars(FnGivesUp) /\ WF_vars(Tick)

-----------------------------------------------------------------------------
(***************************************************************************)
(* Properties.                                                             *)
(***************************************************************************)
TypeOK ==
  /\ now \in Nat
  /\ canceled \in BOOLEAN
  /\ phase \in {"head", "waiting", "calling", "done"}
  /\ attempt \in Nat
  /\ wake \in Nat
  /\ lastErr \in (Failures \ {"permanent"}) \cup {"nil"}
  /\ result \in {"none", "response", "permanent", "exhausted", "canceled"}
  /\ sent \in Nat
  /\ freed \in Nat
  /\ failure \in Failures \cup {"none"}

(* DoWithRetry is over by its deadline: no backoff runs past it, however   *)
(* late the last failure came.                                             *)
DoneByDeadline == now <= Timeout

(* The n-th repetition comes BaseDelay * 2^(n-1) ticks after the failure   *)
(* before it, or MaxDelay ticks: a failing upstream is asked ever more     *)
(* rarely, as long as no Duration overflows.                               *)
AttemptsBackOff ==
  [][phase = "waiting" /\ phase' = "calling"
       /\ BaseDelay * Power[attempt] <= DurationMax =>
       now - freed >= MaxDelay \/ now - freed >= BaseDelay * Power[attempt - 1]]_vars

(* The error of a caller whose attempts are used up is the one of the last *)
(* attempt, a rate limit included, and a response is never a 429 or a 5xx. *)
LastFailureReported ==
  /\ result = "exhausted" /\ sent > 0 => lastErr = failure
  /\ result = "response" => failure = "none"

Bounded == INSTANCE BoundedRequest WITH
  Budget  <- IF MaxRetries < 0 THEN 0 ELSE MaxRetries + 1,
  tries   <- sent,
  outcome <- IF result \in {"none", "response"} THEN result ELSE "error"

(* At most MaxRetries + 1 attempts, none after the outcome, and an outcome *)
(* in the end, whatever fn, the upstream and the caller do.                *)
ImplementsBoundedRequest == Bounded!FairSpec

==============================================================================
