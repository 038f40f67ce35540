----------------------------- MODULE Retry_proofs -----------------------------
(***************************************************************************)
(* Proofs about Retry for every RetryConfig, a negative MaxRetries         *)
(* included: the types, the deadline, the error reported, the distance     *)
(* between two attempts, and the safety part of BoundedRequest.            *)
(***************************************************************************)
EXTENDS Retry, WellFoundedInduction, TLAPS

(***************************************************************************)
(* Powers of two.  Induction over the numbers is stated for a set instead  *)
(* of a predicate, and rests on the least element of a set of numbers.     *)
(***************************************************************************)

(* Every nonempty set of numbers has a least element.                      *)
LEMMA Least ==
  ASSUME NEW T \in SUBSET Nat, T # {}
  PROVE  \E m \in T : \A k \in T : m <= k
<1> DEFINE R == OpToRel(<, Nat)
<1>1. IsWellFoundedOn(R, Nat)
  BY NatLessThanWellFounded
<1>2. \A x, y \in Nat : y < x => <<y, x>> \in R
  BY DEF OpToRel
<1> HIDE DEF R
<1>3. PICK x \in T : \A y \in T : <<y, x>> \notin R
  BY <1>1, WFMin
<1>4. \A y \in T : ~(y < x)
  BY <1>3, <1>2
<1>. QED
  BY <1>4

(* A set that holds 0 and the successor of each number in it holds them    *)
(* all.                                                                    *)
LEMMA SetInduction ==
  ASSUME NEW S, 0 \in S, \A n \in Nat : n \in S => n + 1 \in S
  PROVE  \A n \in Nat : n \in S
<1> SUFFICES ASSUME Nat \ S # {} PROVE FALSE
  OBVIOUS
<1>1. PICK m \in Nat \ S : \A k \in Nat \ S : m <= k
  BY Least
<1>2. m - 1 \in Nat /\ m - 1 \in S
  BY <1>1
<1>. QED
  BY <1>1, <1>2

(* g is the table of the powers of two up to k.                            *)
Doubles(g, k) ==
  /\ g \in [0..k -> Nat \ {0}]
  /\ g[0] = 1
  /\ \A i \in 1..k : g[i] = 2 * g[i - 1]

HasTable(k) == \E g \in [0..k -> Nat \ {0}] : Doubles(g, k)

(* A table that stops at n goes on to n + 1 ...                            *)
LEMMA TableExtends ==
  ASSUME NEW n \in Nat, NEW g, Doubles(g, n)
  PROVE  HasTable(n + 1)
<1> DEFINE h == [i \in 0..(n + 1) |-> IF i <= n THEN g[i] ELSE 2 * g[n]]
<1>1. h \in [0..(n + 1) -> Nat \ {0}]
  BY DEF Doubles
<1>2. h[0] = 1 /\ \A i \in 1..(n + 1) : h[i] = 2 * h[i - 1]
  BY DEF Doubles
<1>3. Doubles(h, n + 1)
  BY <1>1, <1>2 DEF Doubles
<1>. QED
  BY <1>1, <1>3 DEF HasTable

(* ... so there is a table up to every number ...                          *)
LEMMA TableExists == \A k \in Nat : HasTable(k)
<1> DEFINE S == {k \in Nat : HasTable(k)}
<1>1. 0 \in S
  <2>1. Doubles([i \in 0..0 |-> 1], 0)
    BY DEF Doubles
  <2>. QED
    BY <2>1 DEF HasTable
<1>2. \A n \in Nat : n \in S => n + 1 \in S
  <2> SUFFICES ASSUME NEW n \in Nat, HasTable(n) PROVE HasTable(n + 1)
    OBVIOUS
  <2>. QED
    BY TableExtends DEF HasTable
<1> HIDE DEF S
<1>3. \A n \in Nat : n \in S
  BY <1>1, <1>2, SetInduction
<1>. QED
  BY <1>3 DEF S

(* ... and two tables agree where both are defined.                        *)
LEMMA TableUnique ==
  ASSUME NEW k \in Nat, NEW n \in Nat, k <= n, NEW g, NEW h, Doubles(g, k), Doubles(h, n)
  PROVE  \A i \in 0..k : g[i] = h[i]
<1> DEFINE S == {i \in Nat : i <= k => g[i] = h[i]}
<1>1. 0 \in S
  BY DEF Doubles
<1>2. \A i \in Nat : i \in S => i + 1 \in S
  <2> SUFFICES ASSUME NEW i \in Nat, i + 1 <= k, g[i] = h[i] PROVE g[i + 1] = h[i + 1]
    OBVIOUS
  <2>. QED
    BY DEF Doubles
<1> HIDE DEF S
<1>3. \A i \in Nat : i \in S
  BY <1>1, <1>2, SetInduction
<1>. QED
  BY <1>3 DEF S

(* So Power is the function its equation describes ...                     *)
LEMMA PowerEquation == Power = [n \in Nat |-> IF n = 0 THEN 1 ELSE 2 * Power[n - 1]]
<1> DEFINE upto(k) == CHOOSE g \in [0..k -> Nat \ {0}] : Doubles(g, k)
           f == [k \in Nat |-> upto(k)[k]]
<1>1. \A k \in Nat : Doubles(upto(k), k)
  BY TableExists DEF HasTable
<1> HIDE DEF upto
<1>2. \A k \in Nat \ {0} : upto(k)[k] = 2 * upto(k - 1)[k - 1]
  <2> SUFFICES ASSUME NEW k \in Nat \ {0} PROVE upto(k)[k] = 2 * upto(k - 1)[k - 1]
    OBVIOUS
  <2>1. upto(k)[k] = 2 * upto(k)[k - 1]
    BY <1>1 DEF Doubles
  <2>2. k - 1 \in Nat /\ k - 1 \in 0..(k - 1) /\ k - 1 <= k
    OBVIOUS
  <2>3. Doubles(upto(k), k) /\ Doubles(upto(k - 1), k - 1)
    BY <1>1, <2>2
  <2>4. \A i \in 0..(k - 1) : upto(k - 1)[i] = upto(k)[i]
    BY TableUnique, <2>2, <2>3
  <2>. QED
    BY <2>1, <2>2, <2>4
<1>3. upto(0)[0] = 1
  BY <1>1 DEF Doubles
<1>4. f = [n \in Nat |-> IF n = 0 THEN 1 ELSE 2 * f[n - 1]]
  <2>1. \A n \in Nat : upto(n)[n] = IF n = 0 THEN 1 ELSE 2 * f[n - 1]
    BY <1>2, <1>3
  <2>. QED
    BY <2>1
<1> HIDE DEF f
<1>5. \E g : g = [n \in Nat |-> IF n = 0 THEN 1 ELSE 2 * g[n - 1]]
  BY <1>4
<1>. QED
  BY <1>5, Zenon DEF Power

(* ... which is positive and doubles with every number.                    *)
LEMMA PowerDoubles ==
  /\ \A n \in Nat : Power[n] \in Nat \ {0}
  /\ \A n \in Nat \ {0} : Power[n] = 2 * Power[n - 1]
<1>1. Power[0] = 1 /\ \A n \in Nat \ {0} : Power[n] = 2 * Power[n - 1]
  BY PowerEquation
<1> DEFINE S == {n \in Nat : Power[n] \in Nat \ {0}}
<1>2. 0 \in S
  BY <1>1
<1>3. \A n \in Nat : n \in S => n + 1 \in S
  <2> SUFFICES ASSUME NEW n \in Nat, Power[n] \in Nat \ {0}
               PROVE  Power[n + 1] \in Nat \ {0}
    OBVIOUS
  <2>1. Power[n + 1] = 2 * Power[n]
    BY <1>1
  <2>. QED
    BY <2>1
<1> HIDE DEF S
<1>4. \A n \in Nat : n \in S
  BY <1>2, <1>3, SetInduction
<1>. QED
  BY <1>1, <1>4 DEF S

(* A backoff is never negative, and as long as the doubled delay is no     *)
(* more than a Duration holds it is the cap or the doubled delay at least. *)
LEMMA BackoffBounds ==
  ASSUME NEW n \in Nat \ {0}, NEW d \in Backoff(n)
  PROVE  /\ d \in Nat
         /\ BaseDelay * Power[n] <= DurationMax => d >= MaxDelay \/ d >= BaseDelay * Power[n - 1]
<1> DEFINE low == BaseDelay * Power[n - 1]
           raw == {low + jitter : jitter \in 0..(BaseDelay - 1)} \cup {low}
<1>1. n - 1 \in Nat /\ Power[n - 1] \in Nat \ {0} /\ Power[n] = 2 * Power[n - 1]
  BY PowerDoubles
<1>2. low \in Nat /\ low >= BaseDelay /\ BaseDelay * Power[n] = 2 * low
  BY <1>1, ConfigAssumption
<1> HIDE DEF low
<1>3. \A r \in raw : r \in Nat /\ r >= low /\ r <= 2 * low
  BY <1>2, ConfigAssumption
<1>4. \/ \E r \in raw : d = IF r < MaxDelay THEN r ELSE MaxDelay
      \/ d = 0 /\ \E r \in raw : r > DurationMax
  BY DEF Backoff, low
<1> HIDE DEF raw
<1>5. d \in Nat
  BY <1>3, <1>4, ConfigAssumption
<1>6. BaseDelay * Power[n] <= DurationMax => d >= MaxDelay \/ d >= low
  BY <1>2, <1>3, <1>4, ConfigAssumption
<1>. QED
  BY <1>5, <1>6 DEF low

-----------------------------------------------------------------------------

(* The loop variable counts the calls of fn, and the loop condition held   *)
(* when the call that is being waited for was decided on ...               *)
AttemptInv ==
  /\ attempt \in Nat /\ sent \in Nat
  /\ phase \in {"head", "waiting"} => sent = attempt
  /\ phase = "calling" => sent = attempt + 1
  /\ phase \in {"waiting", "calling"} => attempt <= MaxRetries

(* ... and at the head of the loop lastErr is how the last one failed.     *)
ErrorInv ==
  /\ phase \in {"head", "waiting", "calling", "done"}
  /\ phase # "done" => result = "none"
  /\ phase = "head" /\ sent > 0 => lastErr = failure

ClockInv == now \in Nat /\ now <= Timeout

IInv == AttemptInv /\ ErrorInv /\ ClockInv /\ LastFailureReported

-----------------------------------------------------------------------------
(* DoWithRetry starts with nothing done.                                   *)
LEMMA InitInv == Init => IInv
  BY ConfigAssumption
     DEF Init, IInv, AttemptInv, ErrorInv, ClockInv, LastFailureReported

(* An outcome is given once, from the head of the loop or after a wait.    *)
LEMMA LoopInv == IInv /\ Loop => IInv'
<1> SUFFICES ASSUME IInv, Loop PROVE IInv'
  OBVIOUS
<1> USE ConfigAssumption DEF IInv, AttemptInv, ErrorInv, ClockInv, LastFailureReported,
      timeVars, historyVars
<1>1. CASE Exhausted
  BY <1>1 DEF Exhausted, Return
<1>2. CASE FirstAttempt
  BY <1>2 DEF FirstAttempt, GoesOn, CallFn
<1>3. CASE BackOff
  BY <1>3 DEF BackOff, GoesOn
<1>4. CASE NextAttempt
  BY <1>4 DEF NextAttempt, CallFn
<1>5. CASE CanceledInBackoff
  BY <1>5 DEF CanceledInBackoff, Return
<1>. QED
  BY <1>1, <1>2, <1>3, <1>4, <1>5 DEF Loop

(* However fn ends, what is kept of it is how it ended.                    *)
LEMMA CallInv == IInv /\ (FnReturns \/ FnGivesUp) => IInv'
<1> SUFFICES ASSUME IInv, FnReturns \/ FnGivesUp PROVE IInv'
  OBVIOUS
<1> USE DEF IInv, AttemptInv, ErrorInv, ClockInv, LastFailureReported, timeVars
<1>1. CASE Respond
  BY <1>1 DEF Respond, Return, Ended
<1>2. ASSUME NEW how, TryAgain(how) PROVE IInv'
  BY <1>2 DEF TryAgain, Ended
<1>3. CASE Permanent
  BY <1>3 DEF Permanent, Return, Ended
<1>. QED
  BY <1>1, <1>2, <1>3 DEF FnReturns, FnGivesUp

(* Time stops at the deadline, where everything waited for is over.        *)
LEMMA TickInv == IInv /\ Tick => IInv'
<1> SUFFICES ASSUME IInv, Tick PROVE IInv'
  OBVIOUS
<1>1. now < Timeout
  BY ConfigAssumption DEF Tick, Due, Expired, IInv, ClockInv
<1>2. ClockInv'
  BY <1>1, ConfigAssumption DEF Tick, IInv, ClockInv
<1>. QED
  BY <1>2 DEF Tick, loopVars, historyVars, IInv, AttemptInv, ErrorInv, LastFailureReported

(* Every step keeps the invariant.                                         *)
LEMMA NextInv == IInv /\ [Next]_vars => IInv'
<1> SUFFICES ASSUME IInv, [Next]_vars PROVE IInv'
  OBVIOUS
<1>1. CASE Cancel
  BY <1>1 DEF Cancel, loopVars, historyVars, IInv, AttemptInv, ErrorInv, ClockInv,
              LastFailureReported
<1>2. CASE UNCHANGED vars
  BY <1>2 DEF vars, timeVars, loopVars, historyVars, IInv, AttemptInv, ErrorInv, ClockInv,
              LastFailureReported
<1>. QED
  BY <1>1, <1>2, LoopInv, CallInv, TickInv DEF Next

(* The invariant holds in every reachable state.                           *)
THEOREM Invariance == Spec => []IInv
  BY InitInv, NextInv, PTL DEF Spec

(* DoWithRetry is over by its deadline.                                    *)
THEOREM OverByDeadline == Spec => []DoneByDeadline
<1>1. IInv => DoneByDeadline
  BY DEF IInv, ClockInv, DoneByDeadline
<1>. QED
  BY <1>1, Invariance, PTL

(* The error that is reported is the one of the last attempt.              *)
THEOREM ReportsLastFailure == Spec => []LastFailureReported
<1>1. IInv => LastFailureReported
  BY DEF IInv
<1>. QED
  BY <1>1, Invariance, PTL

-----------------------------------------------------------------------------
(* Every backoff waits for a time, and what is kept of a failure is one    *)
(* that is tried again.                                                    *)
LEMMA NextTypes == TypeOK /\ [Next]_vars => TypeOK'
<1> SUFFICES ASSUME TypeOK, [Next]_vars PROVE TypeOK'
  OBVIOUS
<1> USE DEF TypeOK, Failures, timeVars, loopVars, historyVars
<1>1. CASE Exhausted \/ CanceledInBackoff
  BY <1>1 DEF Exhausted, CanceledInBackoff, Return
<1>2. CASE FirstAttempt \/ NextAttempt
  BY <1>2 DEF FirstAttempt, NextAttempt, CallFn
<1>3. CASE BackOff
  <2>1. attempt \in Nat \ {0}
    BY <1>3 DEF BackOff
  <2>2. wake' \in Nat
    <3>1. PICK d \in Backoff(attempt) : wake' = now + d
      BY <1>3 DEF BackOff
    <3>2. d \in Nat
      BY <2>1, BackoffBounds
    <3>. QED
      BY <3>1, <3>2
  <2>. QED
    BY <1>3, <2>2 DEF BackOff
<1>4. CASE Respond \/ Permanent
  BY <1>4 DEF Respond, Permanent, Return, Ended
<1>5. ASSUME NEW how \in Failures \ {"permanent"}, TryAgain(how) PROVE TypeOK'
  BY <1>5 DEF TryAgain, Ended
<1>6. CASE Tick \/ UNCHANGED vars
  BY <1>6 DEF Tick, vars
<1>7. CASE Cancel
  <2>1. canceled' \in BOOLEAN
    BY <1>7, Zenon DEF Cancel
  <2>. QED
    BY <1>7, <2>1 DEF Cancel
<1>. QED
  BY <1>1, <1>2, <1>3, <1>4, <1>5, <1>6, <1>7 DEF Next, Loop, FnReturns, FnGivesUp

(* The types hold when DoWithRetry starts ...                              *)
LEMMA InitTypes == Init => TypeOK
<1> SUFFICES ASSUME Init PROVE TypeOK
  OBVIOUS
<1>1. canceled \in BOOLEAN
  BY Zenon DEF Init
<1>. QED
  BY <1>1 DEF Init, TypeOK, Failures

(* ... and every variable keeps its type.                                  *)
THEOREM TypeCorrect == Spec => []TypeOK
  BY InitTypes, NextTypes, PTL DEF Spec

(* The loop backs off at the very moment the last call failed, and for as  *)
(* long as AttemptsBackOff asks for.                                       *)
WaitInv ==
  /\ freed <= now
  /\ phase = "head" => freed = now
  /\ phase = "waiting" => attempt > 0
  /\ phase = "waiting" /\ BaseDelay * Power[attempt] <= DurationMax =>
       wake - freed >= MaxDelay \/ wake - freed >= BaseDelay * Power[attempt - 1]

(* A backoff starts when the last call ended and lasts as long as drawn;   *)
(* time passes only while something is waited for.                         *)
LEMMA WaitStep == TypeOK /\ WaitInv /\ [Next]_vars => WaitInv'
<1> SUFFICES ASSUME TypeOK, WaitInv, [Next]_vars PROVE WaitInv'
  OBVIOUS
<1>0. now \in Nat /\ freed \in Nat /\ wake \in Nat /\ attempt \in Nat
  BY DEF TypeOK
<1> USE DEF WaitInv, timeVars, loopVars, historyVars
<1>1. CASE Exhausted \/ CanceledInBackoff
  BY <1>1 DEF Exhausted, CanceledInBackoff, Return
<1>2. CASE FirstAttempt \/ NextAttempt
  BY <1>2 DEF FirstAttempt, NextAttempt, CallFn
<1>3. CASE BackOff
  <2>1. attempt \in Nat \ {0} /\ attempt' = attempt /\ freed = now
        /\ phase' = "waiting" /\ now' = now /\ freed' = freed
    BY <1>0, <1>3 DEF BackOff
  <2>2. PICK d \in Backoff(attempt) : wake' = now + d
    BY <1>3 DEF BackOff
  <2>3. /\ d \in Nat
        /\ BaseDelay * Power[attempt] <= DurationMax =>
             d >= MaxDelay \/ d >= BaseDelay * Power[attempt - 1]
    BY <2>1, BackoffBounds
  <2>4. wake' - freed' = d
    BY <1>0, <2>1, <2>2, <2>3
  <2>. QED
    BY <1>0, <2>1, <2>3, <2>4
<1>4. CASE Respond \/ Permanent
  BY <1>0, <1>4 DEF Respond, Permanent, Return, Ended
<1>5. ASSUME NEW how, TryAgain(how) PROVE WaitInv'
  BY <1>0, <1>5 DEF TryAgain, Ended
<1>6. CASE Tick
  BY <1>0, <1>6 DEF Tick
<1>7. CASE Cancel \/ UNCHANGED vars
  BY <1>7 DEF Cancel, vars
<1>. QED
  BY <1>1, <1>2, <1>3, <1>4, <1>5, <1>6, <1>7 DEF Next, Loop, FnReturns, FnGivesUp

(* A failing upstream is asked ever more rarely: between a failure and the *)
(* next attempt lie MaxDelay or BaseDelay * 2^(n-1) ticks, unless a        *)
(* Duration overflows.                                                     *)
THEOREM BacksOff == Spec => AttemptsBackOff
<1> DEFINE Step ==
      phase = "waiting" /\ phase' = "calling"
        /\ BaseDelay * Power[attempt] <= DurationMax =>
        now - freed >= MaxDelay \/ now - freed >= BaseDelay * Power[attempt - 1]
<1>1. Init => TypeOK /\ WaitInv
  BY InitTypes DEF Init, WaitInv
<1>2. TypeOK /\ WaitInv /\ [Next]_vars => [Step]_vars
  <2> SUFFICES ASSUME TypeOK, WaitInv, [Next]_vars,
                      phase = "waiting", phase' = "calling",
                      BaseDelay * Power[attempt] <= DurationMax
               PROVE  now - freed >= MaxDelay \/ now - freed >= BaseDelay * Power[attempt - 1]
    OBVIOUS
  <2>1. NextAttempt
    <3>1. ~(Exhausted \/ FirstAttempt \/ BackOff \/ CanceledInBackoff)
      BY DEF Exhausted, FirstAttempt, BackOff, CanceledInBackoff, Return
    <3>2. ~Respond /\ ~Permanent /\ \A how : ~TryAgain(how)
      BY DEF Respond, Permanent, TryAgain
    <3>3. ~Tick /\ ~Cancel /\ ~UNCHANGED vars
      BY DEF Tick, Cancel, vars, loopVars
    <3>. QED
      BY <3>1, <3>2, <3>3 DEF Next, Loop, FnReturns, FnGivesUp
  <2>2. now \in Nat /\ wake \in Nat /\ freed \in Nat /\ now >= wake
    BY <2>1 DEF NextAttempt, TypeOK
  <2>3. BaseDelay * Power[attempt - 1] \in Int
    <3>1. attempt - 1 \in Nat
      BY DEF TypeOK, WaitInv
    <3>2. Power[attempt - 1] \in Nat
      BY <3>1, PowerDoubles
    <3>. QED
      BY <3>2, ConfigAssumption
  <2>. QED
    BY <2>2, <2>3, ConfigAssumption DEF WaitInv
<1>3. TypeOK /\ WaitInv /\ [Next]_vars => (TypeOK /\ WaitInv)'
  BY NextTypes, WaitStep
<1>. QED
  BY <1>1, <1>2, <1>3, PTL DEF Spec, AttemptsBackOff

-----------------------------------------------------------------------------
(* What the attempts are bounded by.                                       *)
Attempts == IF MaxRetries < 0 THEN 0 ELSE MaxRetries + 1

(* Calling fn is a Try of BoundedRequest.                                  *)
LEMMA CallFnTries ==
  ASSUME IInv, phase # "done", attempt <= MaxRetries, sent = attempt, CallFn
  PROVE  Bounded!Try
<1>1. sent < Attempts /\ result = "none" /\ result' = result /\ sent' = sent + 1
  BY ConfigAssumption DEF IInv, AttemptInv, ErrorInv, CallFn, Attempts
<1>. QED
  BY <1>1 DEF Bounded!Try, Attempts

(* Every step is a step of BoundedRequest or changes nothing it sees.      *)
LEMMA StepImplements == IInv /\ [Next]_vars => [Bounded!Next]_(Bounded!vars)
<1> SUFFICES ASSUME IInv, [Next]_vars PROVE [Bounded!Next]_(Bounded!vars)
  OBVIOUS
<1>1. CASE FirstAttempt \/ NextAttempt
  <2>1. phase # "done" /\ attempt <= MaxRetries /\ sent = attempt /\ CallFn
    BY <1>1 DEF FirstAttempt, NextAttempt, GoesOn, IInv, AttemptInv
  <2>. QED
    BY <2>1, CallFnTries DEF Bounded!Next
<1>2. CASE Respond
  <2>1. result = "none" /\ sent > 0 /\ result' = "response" /\ sent' = sent
    BY <1>2 DEF Respond, Return, Ended, IInv, AttemptInv, ErrorInv
  <2>. QED
    BY <2>1 DEF Bounded!Next, Bounded!Succeed
<1>3. CASE Exhausted \/ CanceledInBackoff \/ Permanent
  <2>1. /\ result = "none"
        /\ result' \in {"exhausted", "canceled", "permanent"}
        /\ sent' = sent
    BY <1>3 DEF Exhausted, CanceledInBackoff, Permanent, Return, Ended, historyVars, IInv, ErrorInv
  <2>. QED
    BY <2>1 DEF Bounded!Next, Bounded!GiveUp
<1>4. CASE UNCHANGED <<sent, result>>
  BY <1>4 DEF Bounded!vars
<1>5. ASSUME NEW how, TryAgain(how) PROVE UNCHANGED <<sent, result>>
  BY <1>5 DEF TryAgain, Ended
<1>6. BackOff \/ Tick \/ Cancel \/ UNCHANGED vars => UNCHANGED <<sent, result>>
  BY DEF BackOff, Tick, Cancel, vars, loopVars, historyVars
<1>. QED
  BY <1>1, <1>2, <1>3, <1>4, <1>5, <1>6 DEF Next, Loop, FnReturns, FnGivesUp

(* At most MaxRetries + 1 attempts are made, none after the outcome.       *)
THEOREM AttemptsAreBounded == Spec => Bounded!Spec
<1>1. Init => Bounded!Init
  BY DEF Init, Bounded!Init
<1>. QED
  BY <1>1, Invariance, StepImplements, PTL DEF Spec, Bounded!Spec

===============================================================================
