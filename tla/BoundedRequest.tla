---------------------------- MODULE BoundedRequest ----------------------------
(***************************************************************************)
(* What a helper that repeats a request promises its caller: it tries at   *)
(* most Budget times, gives one outcome, a response only if it tried, and  *)
(* does nothing after the outcome.  Retry is shown to implement it.        *)
(***************************************************************************)
EXTENDS Integers

CONSTANT Budget

VARIABLES
  tries,    \* how often the request was made
  outcome   \* "none", "response" or "error"

vars == <<tries, outcome>>

Init == tries = 0 /\ outcome = "none"

Try ==
  /\ outcome = "none"
  /\ tries < Budget
  /\ tries' = tries + 1
  /\ UNCHANGED outcome

Succeed ==
  /\ outcome = "none"
  /\ tries > 0
  /\ outcome' = "response"
  /\ UNCHANGED tries

GiveUp ==
  /\ outcome = "none"
  /\ outcome' = "error"
  /\ UNCHANGED tries

Next == Try \/ Succeed \/ GiveUp

Spec == Init /\ [][Next]_vars

(* ... and an outcome is given at last.                                    *)
FairSpec == Spec /\ WF_vars(Succeed \/ GiveUp)

==============================================================================
