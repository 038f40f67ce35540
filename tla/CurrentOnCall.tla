---------------------------- MODULE CurrentOnCall ----------------------------
(***************************************************************************)
(* One call of get_current_oncall_users (internal/tools/users.go) and the  *)
(* one or two requests it makes (internal/oncall/client.go), while other   *)
(* people change the rota or delete the schedule:                          *)
(*                                                                         *)
(*     idle --> first --> second --> answered                              *)
(*       `--------`-------------------^                                    *)
(*                                                                         *)
(* The second request is the fallback for a 404: it reads on_call_now of   *)
(* the schedule through the API library's own HTTP client, which is given  *)
(* no timeout.  Mutant... definitions are faulty variants not used.        *)
(***************************************************************************)
EXTENDS ErrorEnvelope, Sequences, SequencesExt

CONSTANTS
  Users,       \* ids of users
  NoId,        \* the empty id
  Ends,        \* shift ends
  NoEnd,       \* shift_end_at missing
  Rotas,       \* who may be on call: sequences of a user and a shift end
  Gone,        \* the schedule does not exist
  MaxChanges,  \* bound on the changes other people make
  HTTPTimeout  \* ClientOpts.HTTPTimeout in seconds; may be 0 or negative

ASSUME RotaAssumption ==
  /\ Rotas \subseteq Seq([user : Users \cup {NoId}, end : Ends \cup {NoEnd}])
  /\ Gone \notin Rotas
ASSUME ChangesAssumption == MaxChanges \in Nat
ASSUME TimeoutAssumption == HTTPTimeout \in Int

VARIABLES
  schedule,  \* the rota in OnCall now, or Gone
  changes,   \* changes made so far
  endpoint,  \* whether this OnCall serves on_call_shifts/current_users/
  phase,     \* where the handler is
  reply,     \* the response to the request that is out
  answer,    \* what the handler returned
  seen,      \* the values schedule has had since the call was made
  received   \* the statuses the handler has received

vars == <<schedule, changes, endpoint, phase, reply, answer, seen, received>>

Values == Rotas \cup {Gone}

(* A response: its status, 0 while there is none; the rota it was made     *)
(* from; whether its body decodes.                                         *)
Response(status, rota, body) == [status |-> status, rota |-> rota, body |-> body]
NoResponse == Response(0, Gone, "none")
Responses ==
  [status : ErrorStatuses \cup {200}, rota : Values, body : {"none", "good", "garbled"}]

-----------------------------------------------------------------------------
(* The users reported, collected by the loop: an empty id is left out.     *)
MutantListed(rota) == [i \in DOMAIN rota |-> rota[i].user]
Listed(rota) ==
  LET users[n \in 0..Len(rota)] ==
        IF n = 0 THEN <<>>
        ELSE IF rota[n].user = NoId THEN users[n - 1]
        ELSE Append(users[n - 1], rota[n].user)
  IN users[Len(rota)]

(* The shift end reported: the last one there is.                          *)
ShiftEnd(rota) ==
  LET ends == SelectSeq([i \in DOMAIN rota |-> rota[i].end], LAMBDA e : e # NoEnd)
  IN IF ends = <<>> THEN NoEnd ELSE Last(ends)

NoAnswer == [kind |-> "none", code |-> "", users |-> <<>>, end |-> NoEnd]
Error(code) == [kind |-> "error", code |-> code, users |-> <<>>, end |-> NoEnd]
Result(users, end) == [kind |-> "result", code |-> "", users |-> users, end |-> end]

-----------------------------------------------------------------------------
Init ==
  /\ schedule \in Values
  /\ changes = 0
  /\ endpoint \in BOOLEAN
  /\ phase = "idle"
  /\ reply = NoResponse
  /\ answer = NoAnswer
  /\ seen = {}
  /\ received = {}

Return(result) == phase' = "answered" /\ answer' = result

(* The call arrives; the handler checks schedule_id and sends the GET.     *)
RejectInput ==
  /\ phase = "idle"
  /\ Return(Error("INVALID_INPUT"))
  /\ seen' = {schedule}
  /\ UNCHANGED <<reply, received>>

AskFirst ==
  /\ phase = "idle"
  /\ phase' = "first"
  /\ seen' = {schedule}
  /\ UNCHANGED <<reply, answer, received>>

Received(p) ==
  /\ phase = p
  /\ reply # NoResponse
  /\ received' = received \cup {reply.status}

(* GetCurrentOnCallUsers, 200 and a body that decodes.                     *)
TakeUsers ==
  /\ Received("first")
  /\ reply.status = 200 /\ reply.body = "good"
  /\ Return(Result(Listed(reply.rota), ShiftEnd(reply.rota)))
  /\ UNCHANGED <<reply, seen>>

(* ... 404: the fallback, GetSchedule.                                     *)
AskSecond ==
  /\ Received("first")
  /\ reply.status = 404
  /\ phase' = "second"
  /\ reply' = NoResponse
  /\ UNCHANGED <<answer, seen>>

(* ... any other status, or a body that does not decode.                   *)
MutantFirstRefused ==
  /\ Received("first")
  /\ reply.status # 404 /\ reply.body # "good"
  /\ Return(Error("NOT_FOUND"))
  /\ UNCHANGED <<reply, seen>>
FirstRefused ==
  /\ Received("first")
  /\ reply.status # 404 /\ reply.body # "good"
  /\ \E code \in MapUpstreamError(reply.status) : Return(Error(code))
  /\ UNCHANGED <<reply, seen>>

(* ... no response.                                                        *)
FirstFails ==
  /\ phase = "first"
  /\ \E code \in MapUpstreamError(0) : Return(Error(code))
  /\ UNCHANGED <<reply, seen, received>>

(* http.Client.Timeout bounds the first request, unless it is negative; 0  *)
(* became 10 s.                                                            *)
MutantEffectiveTimeout == HTTPTimeout
EffectiveTimeout == IF HTTPTimeout = 0 THEN 10 ELSE HTTPTimeout
FirstTimesOut == EffectiveTimeout > 0 /\ FirstFails

(* The schedule's on_call_now: ids only, no shift end.                     *)
MutantTakeFallback ==
  /\ Received("second")
  /\ Return(Result(IF reply.body = "good" THEN Listed(reply.rota) ELSE <<>>, NoEnd))
  /\ UNCHANGED <<reply, seen>>
TakeFallback ==
  /\ Received("second")
  /\ reply.status = 200 /\ reply.body = "good"
  /\ Return(Result(Listed(reply.rota), NoEnd))
  /\ UNCHANGED <<reply, seen>>

(* Whatever is wrong with the second request, the first one's 404 is the   *)
(* error, and the handler makes NOT_FOUND of it.                           *)
FallbackRefused ==
  /\ Received("second")
  /\ reply.body # "good"
  /\ Return(Error("NOT_FOUND"))
  /\ UNCHANGED <<reply, seen>>

FallbackFails ==
  /\ phase = "second"
  /\ Return(Error("NOT_FOUND"))
  /\ UNCHANGED <<reply, seen, received>>

-----------------------------------------------------------------------------
(***************************************************************************)
(* External: OnCall and the people working in it.                          *)
(***************************************************************************)
Reply(r) ==
  /\ reply = NoResponse
  /\ reply' = r
  /\ UNCHANGED <<schedule, changes, phase, answer, seen, received>>

ServeFirst ==
  /\ phase = "first"
  /\ IF endpoint /\ schedule # Gone THEN Reply(Response(200, schedule, "good"))
     ELSE Reply(Response(404, Gone, "none"))

ServeSecond ==
  /\ phase = "second"
  /\ IF schedule # Gone THEN Reply(Response(200, schedule, "good"))
     ELSE Reply(Response(404, Gone, "none"))

(* A refusal, a failing server, or a gateway's page for an answer.         *)
ServeBadly ==
  /\ phase \in {"first", "second"}
  /\ \/ \E status \in ErrorStatuses \ {0, 404} : Reply(Response(status, Gone, "none"))
     \/ Reply(Response(200, Gone, "garbled"))

OthersAct ==
  /\ changes < MaxChanges
  /\ changes' = changes + 1
  /\ schedule' \in Values \ {schedule}
  /\ seen' = IF phase \in {"first", "second"} THEN seen \cup {schedule'} ELSE seen
  /\ UNCHANGED <<phase, reply, answer, received>>

-----------------------------------------------------------------------------
(* The handler's steps that need nothing but the Go runtime.               *)
Handler ==
  \/ TakeUsers \/ AskSecond \/ FirstRefused \/ FirstTimesOut
  \/ TakeFallback \/ FallbackRefused

Next ==
  /\ \/ (RejectInput \/ AskFirst \/ Handler \/ FirstFails \/ FallbackFails)
           /\ UNCHANGED <<schedule, changes>>
     \/ ServeFirst \/ ServeSecond \/ ServeBadly \/ OthersAct
  /\ UNCHANGED endpoint

Spec == Init /\ [][Next]_vars

(* The runtime runs the handler and fires its timer.  Nothing is assumed   *)
(* of OnCall or of the library's HTTP client.                              *)
FairSpec == Spec /\ WF_vars(Handler /\ UNCHANGED <<schedule, changes, endpoint>>)

-----------------------------------------------------------------------------
(***************************************************************************)
(* Properties.                                                             *)
(***************************************************************************)
TypeOK ==
  /\ schedule \in Values
  /\ changes \in 0..MaxChanges
  /\ endpoint \in BOOLEAN
  /\ phase \in {"idle", "first", "second", "answered"}
  /\ reply \in Responses
  /\ answer.kind \in {"none", "error", "result"}
  /\ answer.code \in ReadErrorCodes \cup {""}
  /\ answer.users \in Seq(Users)
  /\ seen \subseteq Values
  /\ received \subseteq ErrorStatuses \cup {200}

(* A result is one reading of the schedule: its users, and its shift end   *)
(* if there is one, were true together at some moment of the call, whoever *)
(* changed the rota in between; a failure never looks like an empty rota.  *)
ResultIsOneReading ==
  answer.kind = "result" =>
    \E rota \in seen \cap Rotas :
      answer.users = Listed(rota) /\ answer.end \in {ShiftEnd(rota), NoEnd}

(* NOT_FOUND is given only when the schedule was missing at some moment of *)
(* the call, or the endpoint is: as the message says.                      *)
NotFoundHasACause == answer.code = "NOT_FOUND" => Gone \in seen \/ ~endpoint

(* A call gets past its first request, whatever OnCall does: HTTPTimeout,  *)
(* if it is not negative, bounds it.  The code has no bound for the        *)
(* fallback.                                                               *)
FirstRequestBounded == phase = "first" ~> phase \in {"second", "answered"}

(***************************************************************************)
(* A property the documents state and the code does not have.              *)
(***************************************************************************)

(* Upstream 429 returns UPSTREAM_RATE_LIMITED and is marked retryable.     *)
RateLimitReported ==
  phase = "answered" /\ 429 \in received => answer.code = "UPSTREAM_RATE_LIMITED"

==============================================================================
