--------------------------- MODULE AlertGroupWrites ---------------------------
(***************************************************************************)
(* The four write tools (internal/tools/alert_groups_write.go), the HTTP   *)
(* client under them (internal/oncall/client.go) and the read-only gate in *)
(* front of them (internal/server), against an OnCall API whose alert      *)
(* groups other people change at the same time.                            *)
(*                                                                         *)
(* mcp-go runs every tools/call in a goroutine; the handlers share nothing *)
(* but the immutable oncall.Client.  A call goes                           *)
(*                                                                         *)
(*     idle --> queued --> posting --> answered                            *)
(*                                                                         *)
(* and its POST goes none --> out --> back, or is lost.  The two advance   *)
(* independently: the handler can give up while the POST is still out, and *)
(* the OnCall API can still carry it out afterwards.                       *)
(*                                                                         *)
(* A definition whose name starts with Mutant is a faulty variant of the   *)
(* one that follows it; the model does not use it (see the README).        *)
(***************************************************************************)
EXTENDS Integers, ToolRegistry

CONSTANTS
  Calls,        \* the tools/call requests MCP clients make
  Groups,       \* alert group ids an argument may name
  NoGroup,      \* alert_group_id missing, empty or not a string
  AcceptCodes,  \* statuses the OnCall API answers a write it carried out with
  RefuseCodes,  \* statuses of a write it refused
  FailCodes,    \* statuses of a server or a gateway that failed
  HTTPTimeout   \* ClientOpts.HTTPTimeout in seconds; may be 0 or negative

ASSUME GroupAssumption == NoGroup \notin Groups

ASSUME CodeAssumption ==
  /\ AcceptCodes \subseteq {200, 201}
  /\ RefuseCodes \subseteq 400..499
  /\ FailCodes \subseteq 500..599

ASSUME TimeoutAssumption == HTTPTimeout \in Int

VARIABLES
  readOnly,  \* Server.readOnly.Enabled, fixed when the process starts
  request,   \* [Calls -> Requests]  what each call asks, chosen at the start
  phase,     \* [Calls -> Phases]    where its handler is
  answer,    \* [Calls -> Answers]   the result the handler returned
  wire,      \* [Calls -> Wires]     where its POST is
  status,    \* [Calls -> Int]       the HTTP status of the response, 0: none
  state,     \* [Groups -> States]   the alert groups in OnCall
  effects,   \* [Calls -> Nat]       how often OnCall carried the write out
  move       \* [Calls -> Moves]     the group's state before and after it

upstreamVars == <<status, state, effects, move>>
vars == <<readOnly, request, phase, answer, wire, status, state, effects, move>>

Phases == {"idle", "queued", "posting", "answered"}
Wires == {"none", "out", "back", "lost"}
LiveStates == {"new", "acknowledged", "silenced", "resolved"}
States == LiveStates \cup {"absent"}
Moves == [from : States, to : States]
NoMove == [from |-> "absent", to |-> "absent"]
Codes == AcceptCodes \cup RefuseCodes \cup FailCodes

(* "until" matters to silence only: in the future, past, or unparsable.    *)
Requests ==
  [tool : WriteTools \ {"silence_alert_group"}, group : Groups \cup {NoGroup},
   until : {"unused"}]
  \cup [tool : {"silence_alert_group"}, group : Groups \cup {NoGroup},
        until : {"future", "past", "malformed"}]

ErrorCodes == {"TOOL_NOT_FOUND", "INVALID_INPUT", "UPSTREAM_UNAVAILABLE"}

(* What a handler returns: nothing yet, a newErrorResult with its code, or *)
(* a WriteResult with its new_state, of kind "already" or "written" as     *)
(* was_already_in_state is true or false.                                  *)
Answers ==
  [kind : {"none"}, code : {""}, newState : {""}]
  \cup [kind : {"error"}, code : ErrorCodes, newState : {""}]
  \cup [kind : {"already", "written"}, code : {""}, newState : LiveStates]

NoAnswer == [kind |-> "none", code |-> "", newState |-> ""]
Error(code) == [kind |-> "error", code |-> code, newState |-> ""]
WriteResults == {"already", "written"}

-----------------------------------------------------------------------------
(***************************************************************************)
(* The pure parts of the handlers.                                         *)
(***************************************************************************)

(* What the handlers check before they call OnCall.                        *)
InputOK(r) ==
  /\ r.group # NoGroup
  /\ r.tool = "silence_alert_group" => r.until = "future"

(* The expectedState each handler passes to performWrite2 or performWrite3 *)
(* and that goes into the result unseen.                                   *)
MutantExpectedState == [acknowledge_alert_group |-> "acknowledged",
                        resolve_alert_group     |-> "resolved",
                        silence_alert_group     |-> "silenced",
                        unresolve_alert_group   |-> "firing"]
ExpectedState == [acknowledge_alert_group |-> "acknowledged",
                  resolve_alert_group     |-> "resolved",
                  silence_alert_group     |-> "silenced",
                  unresolve_alert_group   |-> "new"]

(* buildWriteResult: every response is a WriteResult, whatever its status; *)
(* the status only decides was_already_in_state.                           *)
MutantBuildWriteResult(tool, code) ==
  [kind |-> IF code < 500 THEN "already" ELSE "written",
   code |-> "", newState |-> ExpectedState[tool]]
BuildWriteResult(tool, code) ==
  [kind |-> IF code \in {200, 201} THEN "already" ELSE "written",
   code |-> "", newState |-> ExpectedState[tool]]

(* NewClientWithOptions turns 0 into 10 s; http.Client arms its timer only *)
(* for a positive Timeout.                                                 *)
MutantEffectiveTimeout == HTTPTimeout
EffectiveTimeout == IF HTTPTimeout = 0 THEN 10 ELSE HTTPTimeout
TimeoutArmed == EffectiveTimeout > 0

(* External: what OnCall does with a write on a group in state s, as the   *)
(* repository's data model tabulates it; repeating a write is a no-op.     *)
Target == [acknowledge_alert_group |-> "acknowledged",
           resolve_alert_group     |-> "resolved",
           silence_alert_group     |-> "silenced",
           unresolve_alert_group   |-> "new"]
Sources == [acknowledge_alert_group |-> {"new", "silenced", "acknowledged"},
            resolve_alert_group     |-> LiveStates,
            silence_alert_group     |-> {"new", "acknowledged", "silenced"},
            unresolve_alert_group   |-> {"resolved", "new"}]

-----------------------------------------------------------------------------
Init ==
  /\ readOnly \in BOOLEAN
  /\ request \in [Calls -> Requests]
  /\ phase = [c \in Calls |-> "idle"]
  /\ answer = [c \in Calls |-> NoAnswer]
  /\ wire = [c \in Calls |-> "none"]
  /\ status = [c \in Calls |-> 0]
  /\ state \in [Groups -> States]
  /\ effects = [c \in Calls |-> 0]
  /\ move = [c \in Calls |-> NoMove]

Return(c, result) ==
  /\ phase' = [phase EXCEPT ![c] = "answered"]
  /\ answer' = [answer EXCEPT ![c] = result]

(* The client's tools/call reaches the server.                             *)
Call(c) ==
  /\ phase[c] = "idle"
  /\ phase' = [phase EXCEPT ![c] = "queued"]
  /\ UNCHANGED <<answer, wire, upstreamVars>>

(* External: mcp-go has no such tool, AddTool was never called for it.     *)
RejectTool(c) ==
  /\ phase[c] = "queued"
  /\ ~ShouldRegisterTool(readOnly, request[c].tool)
  /\ Return(c, Error("TOOL_NOT_FOUND"))
  /\ UNCHANGED <<wire, upstreamVars>>

(* The handler's argument checks fail.                                     *)
MutantRejectInput(c) ==
  /\ phase[c] = "queued"
  /\ ShouldRegisterTool(readOnly, request[c].tool)
  /\ ~InputOK(request[c])
  /\ Return(c, Error("INVALID_INPUT"))
  /\ wire' = [wire EXCEPT ![c] = "out"]
  /\ UNCHANGED upstreamVars
RejectInput(c) ==
  /\ phase[c] = "queued"
  /\ ShouldRegisterTool(readOnly, request[c].tool)
  /\ ~InputOK(request[c])
  /\ Return(c, Error("INVALID_INPUT"))
  /\ UNCHANGED <<wire, upstreamVars>>

(* performWrite2, performWrite3: one POST, under context.Background(), so  *)
(* a call its client cancels goes on like any other.                       *)
Post(c) ==
  /\ phase[c] = "queued"
  /\ ShouldRegisterTool(readOnly, request[c].tool)
  /\ InputOK(request[c])
  /\ phase' = [phase EXCEPT ![c] = "posting"]
  /\ wire' = [wire EXCEPT ![c] = "out"]
  /\ UNCHANGED <<answer, upstreamVars>>

(* Do returned a response: whatever its status, the result is a success.   *)
Respond(c) ==
  /\ phase[c] = "posting"
  /\ wire[c] = "back"
  /\ Return(c, BuildWriteResult(request[c].tool, status[c]))
  /\ UNCHANGED <<wire, upstreamVars>>

(* Do returned an error.  resp is nil then, so the switch over its status  *)
(* never runs and the answer is UPSTREAM_UNAVAILABLE.  The POST is lost,   *)
(* or is on its way and will be served all the same.                       *)
MutantDoFails(c) ==
  /\ phase[c] = "posting"
  /\ wire' = [wire EXCEPT ![c] = "out"]
  /\ UNCHANGED <<phase, answer, upstreamVars>>
DoFails(c) ==
  /\ phase[c] = "posting"
  /\ wire' \in {wire, [wire EXCEPT ![c] = "lost"]}
  /\ Return(c, Error("UPSTREAM_UNAVAILABLE"))
  /\ UNCHANGED upstreamVars

TransportError(c) == DoFails(c)

(* http.Client.Timeout; also while the response is already on its way.     *)
MutantTimeout(c) ==
  /\ TimeoutArmed
  /\ phase[c] = "posting"
  /\ Return(c, BuildWriteResult(request[c].tool, 200))
  /\ UNCHANGED <<wire, upstreamVars>>
Timeout(c) == TimeoutArmed /\ DoFails(c)

-----------------------------------------------------------------------------
(***************************************************************************)
(* External: the OnCall API and the other people working in OnCall.        *)
(***************************************************************************)
Served(c, code) ==
  /\ wire' = [wire EXCEPT ![c] = "back"]
  /\ status' = [status EXCEPT ![c] = code]

CarryOut(c) ==
  LET tool == request[c].tool
      group == request[c].group
  IN /\ state[group] \in Sources[tool]
     /\ state' = [state EXCEPT ![group] = Target[tool]]
     /\ effects' = [effects EXCEPT ![c] = @ + 1]
     /\ move' = [move EXCEPT ![c] = [from |-> state[group], to |-> Target[tool]]]

(* The write is carried out and acknowledged; a gateway in between may     *)
(* still turn the acknowledgement into a 5xx.                              *)
Accept(c) ==
  /\ wire[c] = "out"
  /\ CarryOut(c)
  /\ \E code \in AcceptCodes \cup FailCodes : Served(c, code)
  /\ UNCHANGED <<phase, answer>>

(* The write is refused: unknown group, illegal transition, permission,    *)
(* rate limit, or a failing server.                                        *)
Refuse(c) ==
  /\ wire[c] = "out"
  /\ \E code \in RefuseCodes \cup FailCodes : Served(c, code)
  /\ UNCHANGED <<phase, answer, state, effects, move>>

(* Someone else changes a group: in the OnCall app, or a new alert.        *)
OthersAct(g) ==
  /\ state[g] # "absent"
  /\ \E s \in LiveStates \ {state[g]} : state' = [state EXCEPT ![g] = s]
  /\ UNCHANGED <<phase, answer, wire, status, effects, move>>

-----------------------------------------------------------------------------
Handler(c) ==
  RejectTool(c) \/ RejectInput(c) \/ Post(c) \/ Respond(c) \/ Timeout(c)

Next ==
  /\ \/ \E c \in Calls :
          \/ Call(c) \/ RejectTool(c) \/ RejectInput(c) \/ Post(c)
          \/ Respond(c) \/ TransportError(c) \/ Timeout(c)
          \/ Accept(c) \/ Refuse(c)
     \/ \E g \in Groups : OthersAct(g)
  /\ UNCHANGED <<readOnly, request>>

Spec == Init /\ [][Next]_vars

(* The Go scheduler runs every handler, and net/http fires its timer.      *)
(* Nothing is assumed of the network, of OnCall or of the clients.         *)
FairSpec ==
  Spec /\ \A c \in Calls : WF_vars(Handler(c) /\ UNCHANGED <<readOnly, request>>)

-----------------------------------------------------------------------------
(***************************************************************************)
(* Properties.                                                             *)
(***************************************************************************)
TypeOK ==
  /\ readOnly \in BOOLEAN
  /\ request \in [Calls -> Requests]
  /\ phase \in [Calls -> Phases]
  /\ answer \in [Calls -> Answers]
  /\ wire \in [Calls -> Wires]
  /\ status \in [Calls -> Codes \cup {0}]
  /\ state \in [Groups -> States]
  /\ effects \in [Calls -> Nat]
  /\ move \in [Calls -> Moves]

(* A success whose was_already_in_state is set is the one answer a client  *)
(* can rely on: OnCall carried this very write out, once, and left the     *)
(* group in the new_state reported (buildWriteResult).                     *)
FlaggedSuccessTookEffect ==
  \A c \in Calls :
    answer[c].kind = "already" =>
      effects[c] = 1 /\ move[c].to = answer[c].newState

(* In read-only mode no sequence of calls makes this server change an      *)
(* alert group or even send a POST (readonly.go, server.go RegisterTool).  *)
ReadOnlyNeverWrites ==
  readOnly => \A c \in Calls : wire[c] = "none" /\ effects[c] = 0

(* However handlers, OnCall and failures interleave, one call is carried   *)
(* out at most once: the handlers never repeat a POST.                     *)
AtMostOnce == \A c \in Calls : effects[c] \in {0, 1}

(* A call answered INVALID_INPUT has not touched OnCall and never will.    *)
InvalidInputHasNoEffect ==
  \A c \in Calls :
    answer[c].code = "INVALID_INPUT" => effects[c] = 0 /\ wire[c] = "none"

(* An answer other than UPSTREAM_UNAVAILABLE settles the call: nothing is  *)
(* done on its behalf afterwards, so a later call sees its effect or none. *)
AnswersSettle ==
  [][\A c \in Calls :
       phase[c] = "answered" /\ answer[c].code # "UPSTREAM_UNAVAILABLE"
         => effects'[c] = effects[c]]_vars

(* Every call is answered, whatever the network, OnCall and the other      *)
(* callers do: the HTTP timeout bounds the wait.                           *)
EveryCallAnswered == \A c \in Calls : phase[c] = "queued" ~> phase[c] = "answered"

(* What a client knows about each call, as WriteContract has it.           *)
Outcome(a) ==
  IF a.kind = "already" THEN "confirmed"
  ELSE IF a.code \in {"INVALID_INPUT", "TOOL_NOT_FOUND"} THEN "refused"
  ELSE "unconfirmed"

view ==
  [c \in Calls |-> IF phase[c] = "idle" THEN "idle"
                  ELSE IF phase[c] = "answered" THEN Outcome(answer[c])
                  ELSE "open"]

Contract == INSTANCE WriteContract WITH Calls <- Calls, view <- view, effects <- effects

(* The handlers implement WriteContract, with an HTTP error status counted *)
(* as an answer that confirms nothing.                                     *)
ImplementsContract == Contract!Spec

(* A WriteResult means that OnCall carried the write out; a write it       *)
(* refuses is answered with an error.  The data model says so of resolved  *)
(* groups; the code answers with a WriteResult all the same.               *)
SuccessMeansCarriedOut ==
  \A c \in Calls : answer[c].kind \in WriteResults => effects[c] = 1

==============================================================================
