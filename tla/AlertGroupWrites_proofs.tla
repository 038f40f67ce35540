----------------------- MODULE AlertGroupWrites_proofs -----------------------
(***************************************************************************)
(* Proofs about AlertGroupWrites for any set of calls, any set of groups   *)
(* and any HTTP timeout.                                                   *)
(***************************************************************************)
EXTENDS AlertGroupWrites, TLAPS

(* How far a POST has come says what OnCall has done for the call ...       *)
WireInv(c) ==
  /\ phase[c] \in {"idle", "queued"} => wire[c] = "none"
  /\ phase[c] = "posting" => wire[c] \in {"out", "back"}
  /\ wire[c] # "none" => ~readOnly /\ request[c].group \in Groups
  /\ wire[c] \in {"none", "out"} => effects[c] = 0
  /\ wire[c] = "back" => status[c] \in Codes
  /\ wire[c] = "back" /\ status[c] \in AcceptCodes => effects[c] = 1
  /\ effects[c] \in {0, 1}
  /\ effects[c] = 1 => move[c].to = Target[request[c].tool]

(* ... and where it is now says which answers the handler can have given.   *)
AnswerInv(c) ==
  /\ phase[c] # "answered" => answer[c] = NoAnswer
  /\ phase[c] = "answered" =>
       \/ /\ answer[c] \in {Error("TOOL_NOT_FOUND"), Error("INVALID_INPUT")}
          /\ wire[c] = "none"
       \/ answer[c] = Error("UPSTREAM_UNAVAILABLE") /\ wire[c] # "none"
       \/ wire[c] = "back" /\ answer[c] = BuildWriteResult(request[c].tool, status[c])

CallInv(c) == WireInv(c) /\ AnswerInv(c)

IInv == TypeOK /\ \A c \in Calls : CallInv(c)

-----------------------------------------------------------------------------
(***************************************************************************)
(* The answers the handlers build, and what is in them.                    *)
(***************************************************************************)

(* An error result carries its code and nothing of a WriteResult.          *)
LEMMA ErrorType ==
  ASSUME NEW code \in ErrorCodes
  PROVE  /\ Error(code) \in Answers
         /\ Error(code).kind = "error"
         /\ Error(code).code = code
  BY DEF Error, Answers

(* A WriteResult names the tool's target state ...                         *)
LEMMA ResultType ==
  ASSUME NEW tool \in WriteTools, NEW code \in Int
  PROVE  /\ BuildWriteResult(tool, code) \in Answers
         /\ BuildWriteResult(tool, code).newState = Target[tool]
  <1>1. ExpectedState[tool] = Target[tool] /\ ExpectedState[tool] \in LiveStates
    BY DEF WriteTools, ExpectedState, Target, LiveStates
  <1> QED
    BY <1>1 DEF BuildWriteResult, Answers

(* ... and is flagged for 200 and 201 only.                                *)
LEMMA ResultFlag ==
  ASSUME NEW tool \in WriteTools, NEW code \in Int,
         BuildWriteResult(tool, code).kind = "already"
  PROVE  code \in {200, 201}
  BY DEF BuildWriteResult

(* A request names a write tool.                                           *)
LEMMA RequestType ==
  ASSUME NEW r \in Requests
  PROVE  r.tool \in WriteTools /\ r.group \in Groups \cup {NoGroup}
  BY DEF Requests, WriteTools

(* Every HTTP status is an integer.                                        *)
LEMMA CodesAreInts ==
  ASSUME NEW code \in Codes
  PROVE  code \in Int
  <1>1. CASE code \in AcceptCodes
    BY <1>1, CodeAssumption
  <1>2. CASE code \in RefuseCodes
    BY <1>2, CodeAssumption
  <1>3. CASE code \in FailCodes
    BY <1>3, CodeAssumption
  <1> QED
    BY <1>1, <1>2, <1>3 DEF Codes

(* What TypeOK says of one call.                                           *)
LEMMA CallType ==
  ASSUME TypeOK, NEW c \in Calls
  PROVE  request[c].tool \in WriteTools /\ status[c] \in Int
  <1>1. request[c] \in Requests /\ status[c] \in Codes \cup {0}
    BY DEF TypeOK
  <1>2. request[c].tool \in WriteTools
    BY <1>1, RequestType
  <1>3. CASE status[c] = 0
    BY <1>2, <1>3
  <1>4. CASE status[c] \in Codes
    BY <1>2, <1>4, CodesAreInts
  <1> QED
    BY <1>1, <1>3, <1>4

-----------------------------------------------------------------------------
(* The inductive invariant holds when the process starts ...               *)
LEMMA InitInv == Init => IInv
  <1> SUFFICES ASSUME Init PROVE IInv
    OBVIOUS
  <1>1. TypeOK
    BY DEF Init, TypeOK, Phases, Answers, NoAnswer, Wires, States, LiveStates, Moves, NoMove
  <1>2. ASSUME NEW c \in Calls PROVE CallInv(c)
    BY DEF Init, CallInv, WireInv, AnswerInv
  <1> QED
    BY <1>1, <1>2 DEF IInv

(* A call that a step leaves alone keeps its part of the invariant.        *)
LEMMA Untouched ==
  ASSUME NEW c \in Calls, CallInv(c),
         UNCHANGED <<readOnly, request>>,
         phase'[c] = phase[c], answer'[c] = answer[c], wire'[c] = wire[c],
         status'[c] = status[c], effects'[c] = effects[c], move'[c] = move[c]
  PROVE  CallInv(c)'
  BY DEF CallInv, WireInv, AnswerInv

(* ... and every step keeps it.                                            *)
LEMMA NextInv == IInv /\ [Next]_vars => IInv'
  <1> SUFFICES ASSUME IInv, [Next]_vars PROVE IInv'
    OBVIOUS
  <1> USE DEF IInv
  <1>1. ASSUME NEW c \in Calls, Call(c), UNCHANGED <<readOnly, request>>
        PROVE  IInv'
    <2>1. TypeOK'
      BY <1>1 DEF Call, TypeOK, Phases, upstreamVars
    <2>2. CallInv(c)'
      BY <1>1 DEF Call, CallInv, WireInv, AnswerInv, TypeOK, upstreamVars
    <2>3. ASSUME NEW d \in Calls, d # c PROVE CallInv(d)'
      BY <1>1, <2>3, Untouched DEF Call, TypeOK, upstreamVars
    <2> QED
      BY <2>1, <2>2, <2>3
  <1>2. ASSUME NEW c \in Calls, NEW code \in {"TOOL_NOT_FOUND", "INVALID_INPUT"},
               phase[c] = "queued", Return(c, Error(code)),
               UNCHANGED <<readOnly, request, wire, upstreamVars>>
        PROVE  IInv'
    <2>1. TypeOK'
      BY <1>2, ErrorType DEF Return, TypeOK, Phases, upstreamVars, ErrorCodes
    <2>2. CallInv(c)'
      BY <1>2 DEF Return, CallInv, WireInv, AnswerInv, TypeOK, upstreamVars
    <2>3. ASSUME NEW d \in Calls, d # c PROVE CallInv(d)'
      BY <1>2, <2>3, Untouched DEF Return, TypeOK, upstreamVars
    <2> QED
      BY <2>1, <2>2, <2>3
  <1>3. ASSUME NEW c \in Calls, Post(c), UNCHANGED <<readOnly, request>>
        PROVE  IInv'
    <2>1. TypeOK'
      BY <1>3 DEF Post, TypeOK, Phases, Wires, upstreamVars
    <2>2. ~readOnly /\ request[c].group \in Groups
      BY <1>3, RequestType DEF Post, ShouldRegisterTool, IsWriteTool, writeToolNames, WriteTools,
                               InputOK, TypeOK
    <2>3. CallInv(c)'
      BY <1>3, <2>2 DEF Post, CallInv, WireInv, AnswerInv, TypeOK, upstreamVars
    <2>4. ASSUME NEW d \in Calls, d # c PROVE CallInv(d)'
      BY <1>3, <2>4, Untouched DEF Post, TypeOK, upstreamVars
    <2> QED
      BY <2>1, <2>3, <2>4
  <1>4. ASSUME NEW c \in Calls, Respond(c), UNCHANGED <<readOnly, request>>
        PROVE  IInv'
    <2>1. request[c].tool \in WriteTools /\ status[c] \in Int
      BY CallType
    <2>2. TypeOK'
      BY <1>4, <2>1, ResultType DEF Respond, Return, TypeOK, Phases, upstreamVars
    <2>3. CallInv(c)'
      BY <1>4 DEF Respond, Return, CallInv, WireInv, AnswerInv, TypeOK, upstreamVars
    <2>4. ASSUME NEW d \in Calls, d # c PROVE CallInv(d)'
      BY <1>4, <2>4, Untouched DEF Respond, Return, TypeOK, upstreamVars
    <2> QED
      BY <2>2, <2>3, <2>4
  <1>5. ASSUME NEW c \in Calls, DoFails(c), UNCHANGED <<readOnly, request>>
        PROVE  IInv'
    <2>1. TypeOK'
      BY <1>5, ErrorType DEF DoFails, Return, TypeOK, Phases, Wires, upstreamVars, ErrorCodes
    <2>2. CallInv(c)'
      BY <1>5 DEF DoFails, Return, CallInv, WireInv, AnswerInv, TypeOK, upstreamVars
    <2>3. ASSUME NEW d \in Calls, d # c PROVE CallInv(d)'
      BY <1>5, <2>3, Untouched DEF DoFails, Return, TypeOK, upstreamVars
    <2> QED
      BY <2>1, <2>2, <2>3
  <1>6. ASSUME NEW c \in Calls, Accept(c), UNCHANGED <<readOnly, request>>
        PROVE  IInv'
    <2>1. request[c].group \in Groups /\ request[c].tool \in WriteTools /\ effects[c] = 0
      BY <1>6, RequestType DEF Accept, CallInv, WireInv, TypeOK
    <2>2. PICK code \in AcceptCodes \cup FailCodes : Served(c, code)
      BY <1>6 DEF Accept
    <2>3. Target[request[c].tool] \in States /\ state[request[c].group] \in States
      BY <2>1 DEF Target, WriteTools, States, LiveStates, TypeOK
    <2>4. TypeOK'
      BY <1>6, <2>1, <2>2, <2>3
         DEF Accept, CarryOut, Served, TypeOK, Wires, Codes, Moves
    <2>5. CallInv(c)'
      <3>1. WireInv(c)'
        BY <1>6, <2>1, <2>2 DEF Accept, CarryOut, Served, CallInv, WireInv, TypeOK, Codes
      <3>2. AnswerInv(c)'
        BY <1>6, <2>2 DEF Accept, Served, CallInv, AnswerInv, TypeOK
      <3> QED
        BY <3>1, <3>2 DEF CallInv
    <2>6. ASSUME NEW d \in Calls, d # c PROVE CallInv(d)'
      BY <1>6, <2>2, <2>6, Untouched DEF Accept, CarryOut, Served, TypeOK
    <2> QED
      BY <2>4, <2>5, <2>6
  <1>7. ASSUME NEW c \in Calls, Refuse(c), UNCHANGED <<readOnly, request>>
        PROVE  IInv'
    <2>1. PICK code \in RefuseCodes \cup FailCodes : Served(c, code)
      BY <1>7 DEF Refuse
    <2>2. code \in Codes /\ code \notin AcceptCodes
      BY CodeAssumption DEF Codes
    <2>3. TypeOK'
      BY <1>7, <2>1, <2>2 DEF Refuse, Served, TypeOK, Wires
    <2>4. CallInv(c)'
      <3>1. WireInv(c)'
        BY <1>7, <2>1, <2>2 DEF Refuse, Served, CallInv, WireInv, TypeOK
      <3>2. AnswerInv(c)'
        BY <1>7, <2>1 DEF Refuse, Served, CallInv, AnswerInv, TypeOK
      <3> QED
        BY <3>1, <3>2 DEF CallInv
    <2>5. ASSUME NEW d \in Calls, d # c PROVE CallInv(d)'
      BY <1>7, <2>1, <2>5, Untouched DEF Refuse, Served, TypeOK
    <2> QED
      BY <2>3, <2>4, <2>5
  <1>8. ASSUME NEW g \in Groups, OthersAct(g), UNCHANGED <<readOnly, request>>
        PROVE  IInv'
    <2>1. TypeOK'
      BY <1>8 DEF OthersAct, TypeOK, States
    <2>2. ASSUME NEW d \in Calls PROVE CallInv(d)'
      BY <1>8, Untouched DEF OthersAct
    <2> QED
      BY <2>1, <2>2
  <1>9. CASE UNCHANGED vars
    <2>1. TypeOK'
      BY <1>9 DEF vars, TypeOK
    <2>2. ASSUME NEW d \in Calls PROVE CallInv(d)'
      BY <1>9, Untouched DEF vars
    <2> QED
      BY <2>1, <2>2
  <1>10. ASSUME NEW c \in Calls, RejectTool(c) \/ RejectInput(c),
                UNCHANGED <<readOnly, request>>
         PROVE  IInv'
    BY <1>10, <1>2 DEF RejectTool, RejectInput
  <1> QED
    BY <1>1, <1>3, <1>4, <1>5, <1>6, <1>7, <1>8, <1>9, <1>10
       DEF Next, TransportError, Timeout

(* Every reachable state satisfies the inductive invariant.                *)
THEOREM Invariance == Spec => []IInv
  BY InitInv, NextInv, PTL DEF Spec

-----------------------------------------------------------------------------
(* Type correctness.                                                       *)
THEOREM TypeCorrect == Spec => []TypeOK
  <1>1. IInv => TypeOK
    BY DEF IInv
  <1> QED
    BY <1>1, Invariance, PTL

(* A success answers a POST that has come back.                            *)
LEMMA SuccessAnswer ==
  ASSUME IInv, NEW c \in Calls, answer[c].kind \in WriteResults
  PROVE  /\ wire[c] = "back"
         /\ answer[c] = BuildWriteResult(request[c].tool, status[c])
  <1>1. NoAnswer.kind = "none"
    BY DEF NoAnswer
  <1>2. phase[c] = "answered"
    BY <1>1 DEF IInv, CallInv, AnswerInv, WriteResults
  <1> QED
    BY <1>2, ErrorType DEF IInv, CallInv, AnswerInv, ErrorCodes, WriteResults

(* A flagged success stands for exactly one write that was carried out.    *)
LEMMA SuccessIsReal == IInv => FlaggedSuccessTookEffect
  <1>1. ASSUME IInv, NEW c \in Calls,
               answer[c].kind \in WriteResults, status[c] \in {200, 201}
        PROVE  effects[c] = 1
    <2>1. wire[c] = "back"
      BY <1>1, SuccessAnswer
    <2>2. status[c] \in AcceptCodes
      BY <1>1, <2>1, CodeAssumption DEF IInv, CallInv, WireInv, Codes
    <2> QED
      BY <1>1, <2>1, <2>2 DEF IInv, CallInv, WireInv
  <1>2. ASSUME IInv, NEW c \in Calls, answer[c].kind = "already"
        PROVE  /\ answer[c].newState = Target[request[c].tool]
               /\ status[c] \in {200, 201}
    <2>1. request[c].tool \in WriteTools /\ status[c] \in Int
      BY <1>2, CallType DEF IInv
    <2>2. answer[c] = BuildWriteResult(request[c].tool, status[c])
      BY <1>2, SuccessAnswer DEF WriteResults
    <2>3. answer[c].newState = Target[request[c].tool]
      BY <2>1, <2>2, ResultType
    <2>4. status[c] \in {200, 201}
      BY <1>2, <2>1, <2>2, ResultFlag
    <2> QED
      BY <2>3, <2>4
  <1>3. ASSUME IInv, NEW c \in Calls, effects[c] = 1
        PROVE  move[c].to = Target[request[c].tool]
    BY <1>3 DEF IInv, CallInv, WireInv
  <1> QED
    BY <1>1, <1>2, <1>3 DEF FlaggedSuccessTookEffect, WriteResults

(* Flagged successes are real throughout.                                  *)
THEOREM FlaggedSuccess == Spec => []FlaggedSuccessTookEffect
  BY SuccessIsReal, Invariance, PTL

(* A read-only server never sends a write.                                 *)
THEOREM ReadOnly == Spec => []ReadOnlyNeverWrites
  <1>1. IInv => ReadOnlyNeverWrites
    BY DEF IInv, CallInv, WireInv, ReadOnlyNeverWrites
  <1> QED
    BY <1>1, Invariance, PTL

(* No call is carried out twice.                                           *)
LEMMA NeverTwice == IInv => AtMostOnce
  BY DEF IInv, CallInv, WireInv, AtMostOnce

(* It is carried out at most once throughout.                              *)
THEOREM OnceAtMost == Spec => []AtMostOnce
  BY NeverTwice, Invariance, PTL

(* An invalid call has not reached OnCall.                                 *)
LEMMA RejectionIsClean == IInv => InvalidInputHasNoEffect
  <1>1. ASSUME IInv, NEW c \in Calls, answer[c].code = "INVALID_INPUT"
        PROVE  wire[c] = "none"
    <2>1. NoAnswer.code = ""
      BY DEF NoAnswer
    <2>2. BuildWriteResult(request[c].tool, status[c]).code = ""
      BY DEF BuildWriteResult
    <2>3. Error("UPSTREAM_UNAVAILABLE").code = "UPSTREAM_UNAVAILABLE"
      BY ErrorType DEF ErrorCodes
    <2>4. phase[c] = "answered"
      BY <1>1, <2>1 DEF IInv, CallInv, AnswerInv
    <2>5. /\ answer[c] # Error("UPSTREAM_UNAVAILABLE")
          /\ answer[c] # BuildWriteResult(request[c].tool, status[c])
      BY <1>1, <2>2, <2>3
    <2> QED
      BY <1>1, <2>4, <2>5 DEF IInv, CallInv, AnswerInv
  <1> QED
    BY <1>1 DEF InvalidInputHasNoEffect, IInv, CallInv, WireInv

(* Nor will it ever.                                                       *)
THEOREM InvalidInput == Spec => []InvalidInputHasNoEffect
  BY RejectionIsClean, Invariance, PTL

-----------------------------------------------------------------------------
(* An effect belongs to a POST that was still out.                         *)
LEMMA EffectOfPost ==
  ASSUME IInv, [Next]_vars, NEW c \in Calls, effects'[c] # effects[c]
  PROVE  wire[c] = "out"
  <1>1. effects \in [Calls -> Nat]
    BY DEF IInv, TypeOK
  <1>2. PICK d \in Calls : Accept(d)
    BY DEF Next, Call, RejectTool, RejectInput, Post, Respond, TransportError, Timeout,
           DoFails, Refuse, OthersAct, vars, upstreamVars
  <1> QED
    BY <1>1, <1>2 DEF Accept, CarryOut

(* Every answer but UPSTREAM_UNAVAILABLE settles the call ...              *)
LEMMA AnswerSettles ==
  ASSUME IInv, [Next]_vars, NEW c \in Calls,
         phase[c] = "answered", answer[c].code # "UPSTREAM_UNAVAILABLE"
  PROVE  effects'[c] = effects[c]
  <1>1. answer[c] # Error("UPSTREAM_UNAVAILABLE")
    BY ErrorType DEF ErrorCodes
  <1>2. wire[c] # "out"
    BY <1>1 DEF IInv, CallInv, AnswerInv
  <1> QED
    BY <1>2, EffectOfPost

(* ... in every step.                                                      *)
THEOREM AnswersAreSettled == Spec => AnswersSettle
  <1>1. IInv /\ [Next]_vars =>
          [\A c \in Calls :
             phase[c] = "answered" /\ answer[c].code # "UPSTREAM_UNAVAILABLE"
               => effects'[c] = effects[c]]_vars
    BY AnswerSettles
  <1> QED
    BY <1>1, Invariance, PTL DEF Spec, AnswersSettle
-----------------------------------------------------------------------------
(***************************************************************************)
(* The handlers implement WriteContract.                                   *)
(***************************************************************************)

(* A step that leaves every handler alone changes no view.                 *)
LEMMA ViewStays ==
  ASSUME phase' = phase, answer' = answer
  PROVE  view' = view
  BY DEF view

(* A call that is made or posted is open.                                  *)
LEMMA ViewOpens ==
  ASSUME TypeOK, NEW c \in Calls, NEW p \in {"queued", "posting"},
         phase' = [phase EXCEPT ![c] = p], answer' = answer
  PROVE  view' = [view EXCEPT ![c] = "open"]
  BY DEF view, TypeOK

(* An answer changes the view of its own call only.                        *)
LEMMA ViewCloses ==
  ASSUME TypeOK, NEW c \in Calls, NEW a, Return(c, a)
  PROVE  view' = [view EXCEPT ![c] = Outcome(a)]
  BY DEF view, TypeOK, Return

(* An error refuses the call, unless it is UPSTREAM_UNAVAILABLE ...        *)
LEMMA OutcomeOfErrors ==
  /\ Outcome(Error("TOOL_NOT_FOUND")) = "refused"
  /\ Outcome(Error("INVALID_INPUT")) = "refused"
  /\ Outcome(Error("UPSTREAM_UNAVAILABLE")) = "unconfirmed"
  BY DEF Outcome, Error

(* ... and a WriteResult confirms it if it is flagged.                     *)
LEMMA OutcomeOfResult ==
  ASSUME NEW tool \in WriteTools, NEW code \in Int
  PROVE  Outcome(BuildWriteResult(tool, code)) =
           IF code \in {200, 201} THEN "confirmed" ELSE "unconfirmed"
  BY DEF Outcome, BuildWriteResult

(* The initial states are initial states of the contract ...               *)
LEMMA InitImplements == Init => Contract!Init
  BY DEF Init, Contract!Init, view

(* ... and every step is a step of the contract or leaves it alone.        *)
LEMMA StepImplements ==
  ASSUME IInv, [Next]_vars
  PROVE  [Contract!Next]_Contract!vars
  <1> USE DEF Contract!Next, Contract!vars
  <1>1. ASSUME NEW c \in Calls, Call(c)
        PROVE  Contract!Next
    <2>1. view[c] = "idle"
      BY <1>1 DEF Call, view
    <2>2. view' = [view EXCEPT ![c] = "open"]
      BY <1>1, ViewOpens DEF Call, IInv
    <2> QED
      BY <1>1, <2>1, <2>2 DEF Call, upstreamVars, Contract!Open
  <1>2. ASSUME NEW c \in Calls, RejectTool(c) \/ RejectInput(c)
        PROVE  Contract!Next
    <2>1. PICK code \in {"TOOL_NOT_FOUND", "INVALID_INPUT"} : Return(c, Error(code))
      BY <1>2 DEF RejectTool, RejectInput
    <2>2. phase[c] = "queued" /\ effects' = effects
      BY <1>2 DEF RejectTool, RejectInput, upstreamVars
    <2>3. view[c] = "open" /\ effects[c] = 0
      BY <2>2 DEF view, IInv, CallInv, WireInv
    <2>4. view' = [view EXCEPT ![c] = "refused"]
      BY <2>1, OutcomeOfErrors, ViewCloses DEF IInv
    <2> QED
      BY <2>2, <2>3, <2>4 DEF Contract!Refuse
  <1>3. ASSUME NEW c \in Calls, Post(c)
        PROVE  UNCHANGED Contract!vars
    <2>1. view[c] = "open" /\ effects' = effects
      BY <1>3 DEF Post, view, upstreamVars
    <2>2. view' = [view EXCEPT ![c] = "open"]
      BY <1>3, ViewOpens DEF Post, IInv
    <2> QED
      BY <2>1, <2>2 DEF view
  <1>4. ASSUME NEW c \in Calls, Respond(c)
        PROVE  Contract!Next
    <2>1. request[c].tool \in WriteTools /\ status[c] \in Int
      BY CallType DEF IInv
    <2>2. view[c] = "open" /\ effects' = effects
      BY <1>4 DEF Respond, view, upstreamVars
    <2>3. CASE status[c] \in {200, 201}
      <3>1. view' = [view EXCEPT ![c] = "confirmed"]
        BY <1>4, <2>1, <2>3, OutcomeOfResult, ViewCloses DEF Respond, IInv
      <3>2. status[c] \in AcceptCodes
        BY <1>4, <2>3, CodeAssumption DEF Respond, IInv, CallInv, WireInv, Codes
      <3>3. effects[c] = 1
        BY <1>4, <3>2 DEF Respond, IInv, CallInv, WireInv
      <3> QED
        BY <2>2, <3>1, <3>3 DEF Contract!Confirm
    <2>4. CASE status[c] \notin {200, 201}
      <3>1. view' = [view EXCEPT ![c] = "unconfirmed"]
        BY <1>4, <2>1, <2>4, OutcomeOfResult, ViewCloses DEF Respond, IInv
      <3> QED
        BY <2>2, <3>1 DEF Contract!GiveUp
    <2> QED
      BY <2>3, <2>4
  <1>5. ASSUME NEW c \in Calls, DoFails(c)
        PROVE  Contract!Next
    <2>1. view[c] = "open" /\ effects' = effects
      BY <1>5 DEF DoFails, view, upstreamVars
    <2>2. view' = [view EXCEPT ![c] = "unconfirmed"]
      BY <1>5, OutcomeOfErrors, ViewCloses DEF DoFails, IInv
    <2> QED
      BY <2>1, <2>2 DEF Contract!GiveUp
  <1>6. ASSUME NEW c \in Calls, Accept(c)
        PROVE  Contract!Next
    <2>1. effects[c] = 0
      BY <1>6 DEF Accept, IInv, CallInv, WireInv
    <2>2. effects' = [effects EXCEPT ![c] = 1]
      BY <1>6, <2>1 DEF Accept, CarryOut
    <2>3. view[c] \in {"open", "unconfirmed"}
      <3>1. CASE phase[c] = "answered"
        <4>1. answer[c] = Error("UPSTREAM_UNAVAILABLE")
          BY <1>6, <3>1 DEF Accept, IInv, CallInv, AnswerInv
        <4> QED
          BY <3>1, <4>1, OutcomeOfErrors DEF view
      <3>2. CASE phase[c] # "answered"
        <4>1. phase[c] # "idle"
          BY <1>6 DEF Accept, IInv, CallInv, WireInv
        <4> QED
          BY <3>2, <4>1 DEF view
      <3> QED
        BY <3>1, <3>2
    <2>4. view' = view
      BY <1>6, ViewStays DEF Accept
    <2> QED
      BY <2>1, <2>2, <2>3, <2>4 DEF Contract!TakeEffect
  <1>7. ASSUME NEW c \in Calls, Refuse(c)
        PROVE  UNCHANGED Contract!vars
    BY <1>7, ViewStays DEF Refuse
  <1>8. ASSUME NEW g \in Groups, OthersAct(g)
        PROVE  UNCHANGED Contract!vars
    BY <1>8, ViewStays DEF OthersAct
  <1>9. CASE UNCHANGED vars
    BY <1>9, ViewStays DEF vars
  <1> QED
    BY <1>1, <1>2, <1>3, <1>4, <1>5, <1>6, <1>7, <1>8, <1>9
       DEF Next, TransportError, Timeout

(* The write tools keep WriteContract.                                     *)
THEOREM Implementation == Spec => ImplementsContract
  <1>1. IInv /\ [Next]_vars => [Contract!Next]_Contract!vars
    BY StepImplements
  <1> QED
    BY <1>1, InitImplements, Invariance, PTL DEF Spec, ImplementsContract, Contract!Spec

-----------------------------------------------------------------------------
(***************************************************************************)
(* What WriteContract promises, and so what the write tools do.  Nothing   *)
(* is used of view but its name: the proof is about the contract alone.    *)
(***************************************************************************)
ContractInv == Contract!TypeOK /\ Contract!Promise

(* No call has been made at first ...                                      *)
LEMMA ContractStarts == Contract!Init => ContractInv
  BY DEF Contract!Init, ContractInv, Contract!TypeOK, Contract!Promise, Contract!Views

(* ... and no step of the contract breaks the promise to any call.         *)
LEMMA ContractKeeps == ContractInv /\ [Contract!Next]_(Contract!vars) => ContractInv'
<1> SUFFICES ASSUME ContractInv, [Contract!Next]_(Contract!vars) PROVE ContractInv'
  OBVIOUS
<1> USE DEF ContractInv, Contract!TypeOK, Contract!Promise, Contract!Views
<1>1. ASSUME NEW c \in Calls, Contract!Open(c) PROVE ContractInv'
  BY <1>1 DEF Contract!Open
<1>2. ASSUME NEW c \in Calls, Contract!TakeEffect(c) PROVE ContractInv'
  BY <1>2 DEF Contract!TakeEffect
<1>3. ASSUME NEW c \in Calls, Contract!Confirm(c) PROVE ContractInv'
  BY <1>3 DEF Contract!Confirm
<1>4. ASSUME NEW c \in Calls, Contract!Refuse(c) PROVE ContractInv'
  BY <1>4 DEF Contract!Refuse
<1>5. ASSUME NEW c \in Calls, Contract!GiveUp(c) PROVE ContractInv'
  BY <1>5 DEF Contract!GiveUp
<1>6. CASE UNCHANGED Contract!vars
  BY <1>6 DEF Contract!vars
<1>. QED
  BY <1>1, <1>2, <1>3, <1>4, <1>5, <1>6 DEF Contract!Next

(* The contract keeps its promise: no write is carried out twice, a        *)
(* confirmed one was carried out and a refused one was not ...             *)
THEOREM PromiseKept == Contract!Spec => []Contract!Promise
<1>1. ContractInv => Contract!Promise
  BY DEF ContractInv
<1>. QED
  BY ContractStarts, ContractKeeps, <1>1, PTL DEF Contract!Spec

(* ... and so do the write tools (performWrite2, performWrite3), to every  *)
(* call.                                                                   *)
THEOREM WritesKeepPromise == Spec => []Contract!Promise
  BY PromiseKept, Implementation, PTL DEF ImplementsContract

==============================================================================
