----------------------------- MODULE Server_proofs -----------------------------
(***************************************************************************)
(* Proofs about Server, for any calls, any alert groups and any number of  *)
(* restarts: read-only mode holds from the settings to the wire, and       *)
(* across the end of the process and its restarts WriteContract is kept,   *)
(* answers stay true and every startup is sound.                           *)
(***************************************************************************)
EXTENDS Server, TLAPS

(* The invariant and the refinement of the handlers, proved once.          *)
Proofs == INSTANCE AlertGroupWrites_proofs

ReadOnlyAsked == settings.roEnv = "true" \/ settings.roFlag = "true"

(* Once the settings are loaded the gate is closed, so that no write tool  *)
(* is registered; a call for one is never posted, in this process or the   *)
(* next.                                                                   *)
GateInv ==
  ReadOnlyAsked =>
    /\ main \notin {"load", "exited"} => readOnly
    /\ main \in {"transport", "serving"} => \A t \in Start!WriteTools : t \notin registered
    /\ \A c \in Calls : phase[c] # "posting" /\ wire[c] = "none" /\ effects[c] = 0

RequestsOK == request \in [Calls -> Write!Requests] /\ phase \in [Calls -> Write!Phases]

IInv == RequestsOK /\ GateInv

-----------------------------------------------------------------------------
(* Every call is for one of the write tools.                               *)
LEMMA RequestTool ==
  ASSUME RequestsOK, NEW c \in Calls
  PROVE  request[c].tool \in Start!WriteTools
<1>1. request[c] \in Write!Requests
  BY DEF RequestsOK
<1>2. \A r \in Write!Requests : r.tool \in Start!WriteTools
  BY DEF Write!Requests, Write!WriteTools, Start!WriteTools
<1>. QED
  BY <1>1, <1>2

(* A closed gate lets no write tool through.                               *)
LEMMA GateClosed ==
  ASSUME readOnly, NEW t \in Start!WriteTools
  PROVE  ~Start!ShouldRegisterTool(readOnly, t)
  BY Zenon DEF Start!WriteTools, Start!ShouldRegisterTool, Start!IsWriteTool,
               Start!writeToolNames

(* The process starts with nothing called.                                 *)
LEMMA InitInv == Init => IInv
<1> SUFFICES ASSUME Init PROVE IInv
  OBVIOUS
<1>1. main = "load"
  BY DEF Init, Start!Init
<1>2. /\ request \in [Calls -> Write!Requests]
      /\ phase = [c \in Calls |-> "idle"]
      /\ wire = [c \in Calls |-> "none"]
      /\ effects = [c \in Calls |-> 0]
  BY DEF Init
<1>. QED
  BY <1>1, <1>2 DEF IInv, RequestsOK, GateInv, Write!Phases

(* main and the discovery close the gate before they register a tool.      *)
LEMMA ProcessInv == IInv /\ Process => IInv'
<1> SUFFICES ASSUME IInv, Process PROVE IInv'
  OBVIOUS
<1>1. UNCHANGED <<settings, request, phase, wire, effects>>
  BY DEF Process, callVars
<1>2. RequestsOK' /\ (ReadOnlyAsked' <=> ReadOnlyAsked)
  BY <1>1, Zenon DEF IInv, RequestsOK, ReadOnlyAsked
<1> SUFFICES ASSUME ReadOnlyAsked
             PROVE  /\ main' \notin {"load", "exited"} => readOnly'
                    /\ main' \in {"transport", "serving"} =>
                         \A t \in Start!WriteTools : t \notin registered'
  <2>1. \A c \in Calls : ReadOnlyAsked => phase'[c] # "posting" /\ wire'[c] = "none" /\ effects'[c] = 0
    BY <1>1 DEF IInv, GateInv
  <2>. QED
    BY <1>2, <2>1, Zenon DEF IInv, GateInv
<1>3. /\ main \notin {"load", "exited"} => readOnly
      /\ main \in {"transport", "serving"} => \A t \in Start!WriteTools : t \notin registered
  BY Zenon DEF IInv, GateInv
<1>4. CASE Start!LoadConfig
  <2>1. main' = "wire" \/ main' = "exited"
    BY <1>4, Zenon DEF Start!LoadConfig, Start!Exit
  <2>2. readOnly'
    BY <1>4, Zenon DEF Start!LoadConfig, Start!OnCallReadOnly, Start!ParseBoolEnv, ReadOnlyAsked
  <2>. QED
    BY <2>1, <2>2
<1>5. CASE Start!AddOnCallTools
  <2>1. /\ main = "tools" /\ UNCHANGED readOnly
        /\ registered' = {t \in Start!OnCallTools : Start!ShouldRegisterTool(readOnly, t)}
    BY <1>5 DEF Start!AddOnCallTools
  <2>2. readOnly
    BY <1>3, <2>1
  <2>3. \A t \in Start!WriteTools : t \notin registered'
    BY <2>1, <2>2, GateClosed
  <2>. QED
    BY <2>1, <2>2, <2>3, Zenon
<1>6. CASE \/ Start!ParsePreference \/ Start!DirectClient \/ Start!Discover
           \/ Start!PluginClient \/ Start!ClientFails \/ Start!ParseTransport
           \/ Start!DiscoveryStep \/ Start!ServeReturns
  <2>1. /\ UNCHANGED <<readOnly, registered>>
        /\ main' # main => main \notin {"load", "exited"}
        /\ main' \in {"transport", "serving"} => main \in {"transport", "serving"}
        /\ main' = "load" => main = "load"
    BY <1>6 DEF Start!ParsePreference, Start!DirectClient, Start!Discover, Start!PluginClient,
                Start!ClientFails, Start!ParseTransport, Start!DiscoveryStep,
                Start!ServeReturns, Start!Exit, Start!mainVars
  <2>2. main' \notin {"load", "exited"} => readOnly'
    BY <1>3, <2>1, Zenon
  <2>. QED
    BY <1>3, <2>1, <2>2, Zenon
<1>. QED
  BY <1>4, <1>5, <1>6, Zenon DEF Process, Start!MainStep

(* A handler never gets to its POST when the gate is closed.               *)
LEMMA CallInv ==
  ASSUME IInv, NEW c \in Calls, Handle(c) \/ Meet(c) \/ GiveUp(c)
  PROVE  IInv'
<1>1. UNCHANGED <<settings, main, readOnly, registered, request>>
  BY DEF Handle, Meet, GiveUp, processVars, callVars
<1>2. phase \in [Calls -> Write!Phases]
  BY DEF IInv, RequestsOK
<1>3. /\ phase' \in [Calls -> Write!Phases]
      /\ \A d \in Calls : d # c => phase'[d] = phase[d]
  BY <1>2 DEF Handle, Meet, GiveUp, callVars, Write!RejectTool, Write!RejectInput,
              Write!Post, Write!Respond, Write!Timeout, Write!DoFails, Write!Call,
              Write!TransportError, Write!Return, Write!Phases
<1>4. RequestsOK' /\ (ReadOnlyAsked' <=> ReadOnlyAsked)
  BY <1>1, <1>3, Zenon DEF IInv, RequestsOK, ReadOnlyAsked
<1>5. ASSUME ReadOnlyAsked
      PROVE  phase'[c] # "posting" /\ UNCHANGED <<wire, effects>>
  <2>1. phase[c] # "posting"
    BY <1>5 DEF IInv, GateInv
  <2>2. ~(Write!Respond(c) \/ Write!Timeout(c) \/ Write!TransportError(c))
    BY <2>1 DEF Write!Respond, Write!Timeout, Write!TransportError, Write!DoFails
  <2>3. main = "serving" => request[c].tool \notin registered
    BY <1>5, RequestTool DEF IInv, GateInv
  <2>4. (Handle(c) /\ Write!RejectTool(c)) \/ (Meet(c) /\ Write!Call(c)) \/ GiveUp(c)
    BY <2>2, <2>3 DEF Handle, Meet
  <2>. QED
    BY <1>2, <2>1, <2>4 DEF GiveUp, callVars, Write!RejectTool, Write!Call, Write!Return,
                            Write!upstreamVars, Write!Phases
<1>6. ASSUME ReadOnlyAsked, NEW d \in Calls
      PROVE  phase'[d] # "posting" /\ wire'[d] = "none" /\ effects'[d] = 0
  BY <1>3, <1>5, <1>6 DEF IInv, GateInv
<1>. QED
  BY <1>1, <1>4, <1>6, Zenon DEF IInv, GateInv

(* Every step keeps the invariant.                                         *)
LEMMA NextInv == IInv /\ [Next]_vars => IInv'
<1> SUFFICES ASSUME IInv, [Next]_vars PROVE IInv'
  OBVIOUS
<1>1. CASE Upstream
  <2>1. UNCHANGED <<settings, main, readOnly, registered, request>>
    BY <1>1 DEF Upstream, processVars
  <2>2. UNCHANGED phase
    BY <1>1 DEF Upstream, Write!Accept, Write!Refuse, Write!OthersAct
  <2>3. ASSUME ReadOnlyAsked PROVE UNCHANGED <<wire, effects>>
    <3>1. \A c \in Calls : wire[c] # "out"
      BY <2>3 DEF IInv, GateInv
    <3>. QED
      BY <1>1, <3>1 DEF Upstream, Write!Accept, Write!Refuse, Write!OthersAct
  <2>. QED
    BY <2>1, <2>2, <2>3, Zenon DEF IInv, RequestsOK, GateInv, ReadOnlyAsked
<1>2. CASE Restart
  <2>1. main' = "load" /\ UNCHANGED <<settings, request, phase, wire, effects>>
    BY <1>2 DEF Restart, callVars
  <2>2. main' \in {"load", "exited"} /\ main' \notin {"transport", "serving"}
    BY <2>1
  <2>. QED
    BY <2>1, <2>2, Zenon DEF IInv, RequestsOK, GateInv, ReadOnlyAsked
<1>3. CASE UNCHANGED vars
  <2>1. UNCHANGED <<settings, main, readOnly, registered, request, phase, wire, effects>>
    BY <1>3 DEF vars, processVars, callVars
  <2>. QED
    BY <2>1, Zenon DEF IInv, RequestsOK, GateInv, ReadOnlyAsked
<1>. QED
  BY <1>1, <1>2, <1>3, ProcessInv, CallInv DEF Next

(* No POST leaves a server that was told to be read-only, and no alert     *)
(* group is changed by it.                                                 *)
THEOREM ReadOnlyHolds == Spec => []ReadOnlyToTheWire
<1>1. IInv => ReadOnlyToTheWire
  BY Zenon DEF IInv, GateInv, ReadOnlyAsked, ReadOnlyToTheWire
<1>. QED
  BY InitInv, NextInv, <1>1, PTL DEF Spec

-----------------------------------------------------------------------------
(***************************************************************************)
(* The process keeps WriteContract.  The proof goes through that of the    *)
(* handlers: while readOnly stands still, a step of the process is one of  *)
(* theirs or none; when it changes, nothing it forbids has been posted.    *)
(***************************************************************************)
GateIsAskedFor ==
  /\ settings \in Start!Settings
  /\ readOnly => ReadOnlyAsked

ContractInv == IInv /\ GateIsAskedFor /\ Proofs!IInv

(* The theorems about the handlers hold here: their assumptions are ours.  *)
LEMMA HandlersInv ==
  /\ Proofs!Init => Proofs!IInv
  /\ Proofs!IInv /\ [Proofs!Next]_Proofs!vars => Proofs!IInv'
<1>1. Proofs!Init => Proofs!IInv
  BY Proofs!InitInv, GroupAssumption, CodeAssumption, TimeoutAssumption
<1>2. Proofs!IInv /\ [Proofs!Next]_Proofs!vars => Proofs!IInv'
  BY Proofs!NextInv, GroupAssumption, CodeAssumption, TimeoutAssumption
<1>. QED
  BY <1>1, <1>2

(* So does their refinement, step by step.                                 *)
LEMMA HandlersImplement ==
  ASSUME Proofs!IInv, [Proofs!Next]_Proofs!vars
  PROVE  [Proofs!Contract!Next]_Proofs!Contract!vars
  BY Proofs!StepImplements, GroupAssumption, CodeAssumption, TimeoutAssumption

(* The process starts as the handlers do.                                  *)
LEMMA InitHandlers == Init => Proofs!IInv /\ GateIsAskedFor
<1> SUFFICES ASSUME Init PROVE Proofs!IInv /\ GateIsAskedFor
  OBVIOUS
<1>1. readOnly = FALSE /\ settings \in Start!Settings
  BY DEF Init, Start!Init
<1>2. Proofs!Init
  BY <1>1 DEF Init, Proofs!Init, Write!Requests, Proofs!Requests, Write!States, Proofs!States,
              Write!LiveStates, Proofs!LiveStates, Write!WriteTools, Proofs!WriteTools,
              Write!NoAnswer, Proofs!NoAnswer, Write!NoMove, Proofs!NoMove
<1>. QED
  BY <1>1, <1>2, HandlersInv DEF GateIsAskedFor

(* The two instances of AlertGroupWrites, in Server and with its proofs,   *)
(* have the same actions.                                                  *)
LEMMA SameActions ==
  ASSUME NEW c \in Calls
  PROVE  /\ Write!Call(c) => Proofs!Call(c)
         /\ Write!RejectTool(c) => Proofs!RejectTool(c)
         /\ Write!RejectInput(c) => Proofs!RejectInput(c)
         /\ Write!Post(c) => Proofs!Post(c)
         /\ Write!Respond(c) => Proofs!Respond(c)
         /\ Write!TransportError(c) => Proofs!TransportError(c)
         /\ Write!Timeout(c) => Proofs!Timeout(c)
         /\ Write!Accept(c) => Proofs!Accept(c)
         /\ Write!Refuse(c) => Proofs!Refuse(c)
<1>1. Write!Call(c) => Proofs!Call(c)
  BY Zenon DEF Write!Call, Proofs!Call, Write!upstreamVars, Proofs!upstreamVars
<1>2. Write!RejectTool(c) => Proofs!RejectTool(c)
  BY Zenon DEF Write!RejectTool, Proofs!RejectTool, Write!ShouldRegisterTool,
         Proofs!ShouldRegisterTool, Write!IsWriteTool, Proofs!IsWriteTool,
         Write!writeToolNames, Proofs!writeToolNames, Write!Return, Proofs!Return,
         Write!Error, Proofs!Error, Write!upstreamVars, Proofs!upstreamVars
<1>3. Write!RejectInput(c) => Proofs!RejectInput(c)
  BY Zenon DEF Write!RejectInput, Proofs!RejectInput, Write!ShouldRegisterTool,
         Proofs!ShouldRegisterTool, Write!IsWriteTool, Proofs!IsWriteTool,
         Write!writeToolNames, Proofs!writeToolNames, Write!InputOK, Proofs!InputOK,
         Write!Return, Proofs!Return, Write!Error, Proofs!Error, Write!upstreamVars,
         Proofs!upstreamVars
<1>4. Write!Post(c) => Proofs!Post(c)
  BY Zenon DEF Write!Post, Proofs!Post, Write!ShouldRegisterTool,
         Proofs!ShouldRegisterTool, Write!IsWriteTool, Proofs!IsWriteTool,
         Write!writeToolNames, Proofs!writeToolNames, Write!InputOK, Proofs!InputOK,
         Write!upstreamVars, Proofs!upstreamVars
<1>5. Write!Respond(c) => Proofs!Respond(c)
  BY Zenon DEF Write!Respond, Proofs!Respond, Write!Return, Proofs!Return,
         Write!BuildWriteResult, Proofs!BuildWriteResult, Write!ExpectedState,
         Proofs!ExpectedState, Write!upstreamVars, Proofs!upstreamVars
<1>6. Write!TransportError(c) => Proofs!TransportError(c)
  BY Zenon DEF Write!TransportError, Proofs!TransportError, Write!DoFails,
         Proofs!DoFails, Write!Return, Proofs!Return, Write!Error, Proofs!Error,
         Write!upstreamVars, Proofs!upstreamVars
<1>7. Write!Timeout(c) => Proofs!Timeout(c)
  BY Zenon DEF Write!Timeout, Proofs!Timeout, Write!TimeoutArmed,
         Proofs!TimeoutArmed, Write!EffectiveTimeout, Proofs!EffectiveTimeout,
         Write!DoFails, Proofs!DoFails, Write!Return, Proofs!Return, Write!Error,
         Proofs!Error, Write!upstreamVars, Proofs!upstreamVars
<1>8. Write!Accept(c) => Proofs!Accept(c)
  BY Zenon DEF Write!Accept, Proofs!Accept, Write!CarryOut, Proofs!CarryOut,
         Write!Sources, Proofs!Sources, Write!Target, Proofs!Target,
         Write!LiveStates, Proofs!LiveStates, Write!Served, Proofs!Served
<1>9. Write!Refuse(c) => Proofs!Refuse(c)
  BY Zenon DEF Write!Refuse, Proofs!Refuse, Write!Served, Proofs!Served
<1>. QED
  BY <1>1, <1>2, <1>3, <1>4, <1>5, <1>6, <1>7, <1>8, <1>9

(* A step on a call is a step of its handler, and no other call moves ...  *)
LEMMA CallIsHandled ==
  ASSUME NEW c \in Calls, Handle(c) \/ Meet(c)
  PROVE  Proofs!Next
<1>1. UNCHANGED <<readOnly, request>>
  BY DEF Handle, Meet, processVars
<1>2. \/ Proofs!Call(c) \/ Proofs!RejectTool(c) \/ Proofs!RejectInput(c) \/ Proofs!Post(c)
      \/ Proofs!Respond(c) \/ Proofs!TransportError(c) \/ Proofs!Timeout(c)
  BY SameActions DEF Handle, Meet
<1>. QED
  BY <1>1, <1>2, Zenon DEF Proofs!Next

(* ... and a step of OnCall is the same here and there.                    *)
LEMMA UpstreamIsThere == Upstream => Proofs!Next
<1> SUFFICES ASSUME Upstream PROVE Proofs!Next
  OBVIOUS
<1>1. UNCHANGED <<readOnly, request>>
  BY DEF Upstream, processVars
<1>2. ASSUME NEW c \in Calls, Write!Accept(c) \/ Write!Refuse(c)
      PROVE  Proofs!Next
  BY <1>1, <1>2, SameActions, Zenon DEF Proofs!Next
<1>3. ASSUME NEW g \in Groups, Write!OthersAct(g)
      PROVE  Proofs!Next
  <2>1. Proofs!OthersAct(g)
    BY <1>3, Zenon DEF Write!OthersAct, Proofs!OthersAct, Write!LiveStates, Proofs!LiveStates
  <2>. QED
    BY <1>1, <2>1, Zenon DEF Proofs!Next
<1>. QED
  BY <1>2, <1>3 DEF Upstream

(* While the calls stand still, readOnly may change if it forbids nothing  *)
(* that was done.                                                          *)
LEMMA ReadOnlyMayChange ==
  ASSUME Proofs!IInv, UNCHANGED callVars, readOnly' \in BOOLEAN,
         readOnly' => \A c \in Calls : wire[c] = "none"
  PROVE  Proofs!IInv'
<1>1. UNCHANGED <<request, phase, answer, wire, status, state, effects, move>>
  BY DEF callVars
<1>2. Proofs!TypeOK'
  BY <1>1, Zenon DEF Proofs!IInv, Proofs!TypeOK
<1>3. ASSUME NEW c \in Calls PROVE Proofs!CallInv(c)'
  <2>1. Proofs!WireInv(c)'
    <3>1. Proofs!WireInv(c)
      BY DEF Proofs!IInv, Proofs!CallInv
    <3>2. wire[c] # "none" => ~readOnly'
      BY Zenon
    <3>. QED
      BY <1>1, <3>1, <3>2, Zenon DEF Proofs!WireInv
  <2>2. Proofs!AnswerInv(c)'
    BY <1>1, Zenon DEF Proofs!IInv, Proofs!CallInv, Proofs!AnswerInv
  <2>. QED
    BY <2>1, <2>2, Zenon DEF Proofs!CallInv
<1>. QED
  BY <1>2, <1>3, Zenon DEF Proofs!IInv

(* Every step keeps the invariant of the handlers.                         *)
LEMMA NextContractInv == ContractInv /\ [Next]_vars => ContractInv'
<1> SUFFICES ASSUME ContractInv, [Next]_vars PROVE ContractInv'
  OBVIOUS
<1>1. IInv' /\ UNCHANGED settings
  BY NextInv DEF ContractInv, Next, Process, Handle, Meet, GiveUp, Upstream, Restart, vars,
                 processVars
<1>2. ASSUME readOnly' = readOnly, Proofs!IInv' PROVE ContractInv'
  BY <1>1, <1>2, Zenon DEF ContractInv, GateIsAskedFor, ReadOnlyAsked
<1>3. ASSUME UNCHANGED callVars, readOnly' \in BOOLEAN, readOnly' => ReadOnlyAsked
      PROVE  ContractInv'
  <2>1. ReadOnlyAsked => \A c \in Calls : wire[c] = "none"
    BY Zenon DEF ContractInv, IInv, GateInv
  <2>2. Proofs!IInv'
    BY <1>3, <2>1, ReadOnlyMayChange DEF ContractInv
  <2>. QED
    BY <1>1, <1>3, <2>2, Zenon DEF ContractInv, GateIsAskedFor, ReadOnlyAsked
<1>4. readOnly \in BOOLEAN /\ (readOnly => ReadOnlyAsked) /\ settings \in Start!Settings
  BY Zenon DEF ContractInv, GateIsAskedFor, Proofs!IInv, Proofs!TypeOK
<1>5. CASE \E c \in Calls : Handle(c) \/ Meet(c)
  BY <1>2, <1>5, CallIsHandled, HandlersInv DEF ContractInv, Handle, Meet, processVars
<1>6. CASE Upstream
  BY <1>2, <1>6, UpstreamIsThere, HandlersInv DEF ContractInv, Upstream, processVars
<1>7. CASE \/ \E c \in Calls : GiveUp(c)
           \/ UNCHANGED vars
  BY <1>3, <1>4, <1>7 DEF GiveUp, vars, processVars
<1>8. CASE Restart
  BY <1>3, <1>8 DEF Restart
<1>9. CASE Process
  <2>1. UNCHANGED callVars
    BY <1>9 DEF Process
  <2>2. CASE Start!LoadConfig
    <3>1. readOnly' = Start!OnCallReadOnly(settings)
      BY <2>2 DEF Start!LoadConfig
    <3>2. readOnly' \in BOOLEAN /\ (readOnly' => ReadOnlyAsked)
      BY <3>1, Zenon DEF Start!OnCallReadOnly, Start!ParseBoolEnv, ReadOnlyAsked
    <3>. QED
      BY <1>3, <2>1, <3>2
  <2>3. CASE ~Start!LoadConfig
    <3>1. readOnly' = readOnly
      BY <1>9, <2>3 DEF Process, Start!MainStep, Start!ParsePreference, Start!DirectClient,
           Start!Discover, Start!PluginClient, Start!ClientFails, Start!AddOnCallTools,
           Start!ParseTransport, Start!DiscoveryStep, Start!ServeReturns, Start!mainVars
    <3>. QED
      BY <1>3, <1>4, <2>1, <3>1, Zenon
  <2>. QED
    BY <2>2, <2>3
<1>. QED
  BY <1>5, <1>6, <1>7, <1>8, <1>9 DEF Next

(* The invariant of the process and of the handlers holds throughout.      *)
THEOREM ContractInvariance == Spec => []ContractInv
<1>1. Init => ContractInv
  BY InitInv, InitHandlers DEF ContractInv
<1>. QED
  BY <1>1, NextContractInv, PTL DEF Spec

(***************************************************************************)
(* What the client knows of a call: what the handlers' proofs say, unless  *)
(* it has given the call up.                                               *)
(***************************************************************************)

(* The view of one call, before and after a step.                          *)
LEMMA ViewOfCall ==
  ASSUME NEW c \in Calls
  PROVE  /\ view[c] = IF c \in given_up THEN "unconfirmed" ELSE Proofs!view[c]
         /\ view'[c] = IF c \in given_up' THEN "unconfirmed" ELSE Proofs!view'[c]
<1>1. Write!view = Proofs!view /\ Write!view' = Proofs!view'
  BY Zenon DEF Write!view, Proofs!view, Write!Outcome, Proofs!Outcome
<1>. QED
  BY <1>1 DEF view

(* All views together are a function of the calls.                         *)
LEMMA ViewIsFunction ==
  /\ view = [c \in Calls |-> view[c]]
  /\ view' = [c \in Calls |-> view'[c]]
  BY Zenon DEF view

(* Nothing changes a view but a change of its call.                        *)
LEMMA ViewStays ==
  ASSUME UNCHANGED given_up, \A c \in Calls : Proofs!view'[c] = Proofs!view[c]
  PROVE  view' = view
<1>1. \A c \in Calls : view'[c] = view[c]
  BY ViewOfCall
<1>. QED
  BY <1>1, ViewIsFunction

(* A change of one call is a change of its view.                           *)
LEMMA ViewChanges ==
  ASSUME NEW c \in Calls, c \notin given_up, UNCHANGED given_up, NEW v,
         Proofs!view' = [Proofs!view EXCEPT ![c] = v]
  PROVE  view' = [view EXCEPT ![c] = v]
<1>1. DOMAIN Proofs!view = Calls
  BY DEF Proofs!view
<1>2. ASSUME NEW d \in Calls
      PROVE  view'[d] = IF d = c THEN v ELSE view[d]
  BY <1>1, <1>2, ViewOfCall
<1>3. view' = [d \in Calls |-> IF d = c THEN v ELSE view[d]]
  BY <1>2, ViewIsFunction
<1>4. DOMAIN view = Calls
  BY DEF view
<1>. QED
  BY <1>3, <1>4

(* A step of the handlers' contract that leaves the calls alone that were  *)
(* given up is a step of the process's contract.                           *)
LEMMA Promoted ==
  ASSUME UNCHANGED given_up,
         \A c \in Calls : c \in given_up => Proofs!view'[c] = Proofs!view[c],
         [Proofs!Contract!Next]_Proofs!Contract!vars
  PROVE  [Contract!Next]_Contract!vars
<1>1. CASE UNCHANGED Proofs!Contract!vars
  <2>1. Proofs!view' = Proofs!view /\ effects' = effects
    BY <1>1 DEF Proofs!Contract!vars
  <2>. QED
    BY <2>1, ViewStays DEF Contract!vars
<1>2. ASSUME NEW c \in Calls, Proofs!Contract!TakeEffect(c)
      PROVE  Contract!TakeEffect(c)
  <2>1. /\ Proofs!view[c] \in {"open", "unconfirmed"} /\ Proofs!view' = Proofs!view
        /\ effects[c] = 0 /\ effects' = [effects EXCEPT ![c] = 1]
    BY <1>2 DEF Proofs!Contract!TakeEffect
  <2>2. view[c] \in {"open", "unconfirmed"}
    BY <2>1, ViewOfCall
  <2>3. view' = view
    BY <2>1, ViewStays
  <2>. QED
    BY <2>1, <2>2, <2>3 DEF Contract!TakeEffect
<1>3. ASSUME NEW c \in Calls, NEW from, NEW to, from # to,
             Proofs!view[c] = from, Proofs!view' = [Proofs!view EXCEPT ![c] = to]
      PROVE  view[c] = from /\ view' = [view EXCEPT ![c] = to]
  <2>1. Proofs!view'[c] = to
    BY <1>3 DEF Proofs!view
  <2>2. c \notin given_up
    BY <1>3, <2>1
  <2>. QED
    BY <1>3, <2>2, ViewOfCall, ViewChanges
<1>4. ASSUME NEW c \in Calls, Proofs!Contract!Open(c) PROVE Contract!Open(c)
  BY <1>3, <1>4 DEF Proofs!Contract!Open, Contract!Open
<1>5. ASSUME NEW c \in Calls, Proofs!Contract!Confirm(c) PROVE Contract!Confirm(c)
  BY <1>3, <1>5 DEF Proofs!Contract!Confirm, Contract!Confirm
<1>6. ASSUME NEW c \in Calls, Proofs!Contract!Refuse(c) PROVE Contract!Refuse(c)
  BY <1>3, <1>6 DEF Proofs!Contract!Refuse, Contract!Refuse
<1>7. ASSUME NEW c \in Calls, Proofs!Contract!GiveUp(c) PROVE Contract!GiveUp(c)
  BY <1>3, <1>7 DEF Proofs!Contract!GiveUp, Contract!GiveUp
<1>8. CASE Proofs!Contract!Next
  BY <1>2, <1>4, <1>5, <1>6, <1>7, <1>8 DEF Proofs!Contract!Next, Contract!Next
<1>. QED
  BY <1>1, <1>8

(* A call moves alone, and only while its client waits for it.             *)
LEMMA OthersStay ==
  ASSUME Proofs!TypeOK, NEW c \in Calls, Handle(c) \/ Meet(c)
  PROVE  /\ c \notin given_up /\ UNCHANGED given_up
         /\ \A d \in Calls : d # c => Proofs!view'[d] = Proofs!view[d]
<1>1. c \notin given_up /\ UNCHANGED given_up
  BY DEF Handle, Meet, clientVars
<1>2. \/ \E p : phase' = [phase EXCEPT ![c] = p] /\ answer' = answer
      \/ \E p, a : phase' = [phase EXCEPT ![c] = p] /\ answer' = [answer EXCEPT ![c] = a]
  BY Zenon DEF Handle, Meet, Write!Call, Write!RejectTool, Write!RejectInput, Write!Post,
               Write!Respond, Write!TransportError, Write!Timeout, Write!DoFails, Write!Return
<1>3. ASSUME NEW d \in Calls, d # c
      PROVE  phase'[d] = phase[d] /\ answer'[d] = answer[d]
  <2>1. DOMAIN phase = Calls /\ DOMAIN answer = Calls
    BY DEF Proofs!TypeOK
  <2>2. CASE \E p : phase' = [phase EXCEPT ![c] = p] /\ answer' = answer
    BY <1>3, <2>1, <2>2
  <2>3. CASE \E p, a : phase' = [phase EXCEPT ![c] = p] /\ answer' = [answer EXCEPT ![c] = a]
    BY <1>3, <2>1, <2>3
  <2>. QED
    BY <1>2, <2>2, <2>3
<1>4. ASSUME NEW d \in Calls, d # c
      PROVE  Proofs!view'[d] = Proofs!view[d]
  BY <1>3, <1>4 DEF Proofs!view
<1>. QED
  BY <1>1, <1>4

(* Every step keeps the contract.                                          *)
LEMMA StepImplements ==
  ASSUME ContractInv, [Next]_vars
  PROVE  [Contract!Next]_Contract!vars
<1>1. Proofs!IInv
  BY DEF ContractInv
<1>2. CASE \E c \in Calls : Handle(c) \/ Meet(c)
  <2>1. PICK c \in Calls : Handle(c) \/ Meet(c)
    BY <1>2
  <2>2. [Proofs!Contract!Next]_Proofs!Contract!vars
    BY <1>1, <2>1, CallIsHandled, HandlersImplement
  <2>. QED
    BY <1>1, <2>1, <2>2, OthersStay, Promoted DEF Proofs!IInv
<1>3. CASE Upstream
  <2>1. UNCHANGED <<phase, answer, given_up>>
    BY <1>3 DEF Upstream, clientVars, Write!Accept, Write!Refuse, Write!OthersAct
  <2>2. Proofs!view' = Proofs!view
    BY <2>1, Zenon DEF Proofs!view
  <2>3. [Proofs!Contract!Next]_Proofs!Contract!vars
    BY <1>1, <1>3, UpstreamIsThere, HandlersImplement
  <2>. QED
    BY <2>1, <2>2, <2>3, Promoted
<1>4. CASE Process \/ Restart \/ UNCHANGED vars
  <2>1. UNCHANGED <<phase, answer, effects, given_up>>
    BY <1>4 DEF Process, Restart, vars, callVars, clientVars
  <2>2. Proofs!view' = Proofs!view
    BY <2>1, Zenon DEF Proofs!view
  <2>. QED
    BY <2>1, <2>2, ViewStays DEF Contract!vars
<1>5. ASSUME NEW c \in Calls, GiveUp(c) PROVE Contract!Next
  <2>1. /\ phase[c] \in {"queued", "posting"} /\ c \notin given_up
        /\ given_up' = given_up \cup {c}
        /\ UNCHANGED <<phase, answer, effects>>
    BY <1>5 DEF GiveUp, InFlight, callVars
  <2>2. Proofs!view' = Proofs!view /\ Proofs!view[c] = "open"
    <3>1. Proofs!view' = Proofs!view
      BY <2>1, Zenon DEF Proofs!view
    <3>2. Proofs!view[c] = "open"
      BY <2>1 DEF Proofs!view
    <3>. QED
      BY <3>1, <3>2
  <2>3. view[c] = "open"
    BY <2>1, <2>2, ViewOfCall
  <2>4. ASSUME NEW d \in Calls
        PROVE  view'[d] = IF d = c THEN "unconfirmed" ELSE view[d]
    BY <2>1, <2>2, <2>4, ViewOfCall
  <2>5. view' = [view EXCEPT ![c] = "unconfirmed"]
    <3>1. view' = [d \in Calls |-> IF d = c THEN "unconfirmed" ELSE view[d]]
      BY <2>4, ViewIsFunction
    <3>2. DOMAIN view = Calls
      BY DEF view
    <3>. QED
      BY <3>1, <3>2
  <2>6. Contract!GiveUp(c)
    BY <2>1, <2>3, <2>5 DEF Contract!GiveUp
  <2>. QED
    BY <2>6 DEF Contract!Next
<1>. QED
  BY <1>2, <1>3, <1>4, <1>5 DEF Next

(* Nothing is known of any call at the start.                              *)
LEMMA InitImplements == Init => Contract!Init
<1> SUFFICES ASSUME Init PROVE Contract!Init
  OBVIOUS
<1>1. /\ phase = [c \in Calls |-> "idle"] /\ given_up = {}
      /\ effects = [c \in Calls |-> 0]
  BY DEF Init
<1>2. \A c \in Calls : Proofs!view[c] = "idle"
  BY <1>1 DEF Proofs!view
<1>3. \A c \in Calls : view[c] = "idle"
  BY <1>1, <1>2, ViewOfCall
<1>. QED
  BY <1>1, <1>3, ViewIsFunction DEF Contract!Init

(* The process keeps WriteContract, whenever it ends and however often it  *)
(* is started again.                                                       *)
THEOREM Implementation == Spec => ImplementsContract
<1>1. ContractInv /\ [Next]_vars => [Contract!Next]_Contract!vars
  BY StepImplements
<1>. QED
  BY <1>1, InitImplements, ContractInvariance, PTL DEF Spec, ImplementsContract, Contract!Spec

(***************************************************************************)
(* What that promises to the client of each call, of whichever process.    *)
(***************************************************************************)

(* The handlers' own contract sees neither restarts nor calls given up.    *)
LEMMA HandlersStep ==
  ASSUME ContractInv, [Next]_vars
  PROVE  [Proofs!Contract!Next]_Proofs!Contract!vars
<1>1. Proofs!IInv
  BY DEF ContractInv
<1>2. ASSUME NEW c \in Calls, Handle(c) \/ Meet(c)
      PROVE  [Proofs!Contract!Next]_Proofs!Contract!vars
  BY <1>1, <1>2, CallIsHandled, HandlersImplement
<1>3. CASE Upstream
  BY <1>1, <1>3, UpstreamIsThere, HandlersImplement
<1>4. CASE Process \/ Restart \/ (\E c \in Calls : GiveUp(c)) \/ UNCHANGED vars
  <2>1. UNCHANGED <<phase, answer, effects>>
    BY <1>4 DEF Process, Restart, GiveUp, vars, callVars
  <2>2. Proofs!view' = Proofs!view
    BY <2>1, Zenon DEF Proofs!view
  <2>. QED
    BY <2>1, <2>2 DEF Proofs!Contract!vars
<1>. QED
  BY <1>2, <1>3, <1>4 DEF Next

(* A call that is given up is promised nothing, the others are promised    *)
(* what the handlers promise.                                              *)
LEMMA PromiseOfCalls == Proofs!ContractInv => Contract!Promise
<1> SUFFICES ASSUME Proofs!ContractInv PROVE Contract!Promise
  OBVIOUS
<1>1. ASSUME NEW c \in Calls
      PROVE  /\ effects[c] \in {0, 1}
             /\ Proofs!view[c] = "confirmed" => effects[c] = 1
             /\ Proofs!view[c] \in {"idle", "refused"} => effects[c] = 0
  BY DEF Proofs!ContractInv, Proofs!Contract!Promise
<1>2. ASSUME NEW c \in Calls
      PROVE  view[c] \in {"unconfirmed", Proofs!view[c]}
  BY ViewOfCall
<1>. QED
  BY <1>1, <1>2 DEF Contract!Promise

(* No write is carried out twice, a confirmed one was and a refused one    *)
(* was not carried out, though processes end with calls in flight and      *)
(* their POSTs arrive when others run (main, performWrite2).               *)
THEOREM PromiseKept == Spec => []Contract!Promise
<1>1. Init => Proofs!ContractInv
  <2>1. Init => Proofs!Contract!Init
    <3> SUFFICES ASSUME Init PROVE Proofs!Contract!Init
      OBVIOUS
    <3>1. phase = [c \in Calls |-> "idle"] /\ effects = [c \in Calls |-> 0]
      BY DEF Init
    <3>2. \A c \in Calls : Proofs!view[c] = "idle"
      BY <3>1 DEF Proofs!view
    <3>3. Proofs!view = [c \in Calls |-> Proofs!view[c]]
      BY Zenon DEF Proofs!view
    <3>. QED
      BY <3>1, <3>2, <3>3 DEF Proofs!Contract!Init
  <2>. QED
    BY <2>1, Proofs!ContractStarts, GroupAssumption, CodeAssumption, TimeoutAssumption
<1>2. ContractInv /\ Proofs!ContractInv /\ [Next]_vars => Proofs!ContractInv'
  BY HandlersStep, Proofs!ContractKeeps, GroupAssumption, CodeAssumption,
     TimeoutAssumption
<1>. QED
  BY <1>1, <1>2, PromiseOfCalls, ContractInvariance, PTL DEF Spec

(***************************************************************************)
(* What the answers are worth.                                             *)
(***************************************************************************)
AnswersAreHonest ==
  /\ Write!FlaggedSuccessTookEffect
  /\ Write!AtMostOnce
  /\ Write!InvalidInputHasNoEffect

(* A flagged success was carried out, no POST was carried out twice and a  *)
(* rejected call left OnCall alone, also when the process that answered    *)
(* has long ended and another one runs (performWrite2, buildWriteResult).  *)
THEOREM AnswersStayHonest == Spec => []AnswersAreHonest
<1>1. Proofs!IInv => /\ Proofs!FlaggedSuccessTookEffect
                     /\ Proofs!AtMostOnce
                     /\ Proofs!InvalidInputHasNoEffect
  BY Proofs!SuccessIsReal, Proofs!NeverTwice, Proofs!RejectionIsClean,
     GroupAssumption, CodeAssumption, TimeoutAssumption
<1>2. ContractInv => AnswersAreHonest
  BY <1>1, Zenon DEF ContractInv, AnswersAreHonest,
                     Write!FlaggedSuccessTookEffect, Proofs!FlaggedSuccessTookEffect,
                     Write!AtMostOnce, Proofs!AtMostOnce,
                     Write!InvalidInputHasNoEffect, Proofs!InvalidInputHasNoEffect
<1>. QED
  BY <1>2, ContractInvariance, PTL

(* A call that was answered, but not with UPSTREAM_UNAVAILABLE, is settled *)
(* for good: neither a late POST nor the next process does anything for it.*)
THEOREM AnswersStaySettled ==
  Spec => [][\A c \in Calls :
               phase[c] = "answered" /\ answer[c].code # "UPSTREAM_UNAVAILABLE"
                 => effects'[c] = effects[c]]_vars
<1>1. ASSUME ContractInv, [Next]_vars, NEW c \in Calls,
             phase[c] = "answered", answer[c].code # "UPSTREAM_UNAVAILABLE"
      PROVE  effects'[c] = effects[c]
  <2>1. CASE (\E d \in Calls : Handle(d) \/ Meet(d)) \/ Upstream
    <3>1. Proofs!Next
      BY <2>1, CallIsHandled, UpstreamIsThere
    <3>. QED
      BY <1>1, <3>1, Proofs!AnswerSettles, GroupAssumption, CodeAssumption,
         TimeoutAssumption DEF ContractInv
  <2>2. CASE Process \/ Restart \/ (\E d \in Calls : GiveUp(d)) \/ UNCHANGED vars
    BY <2>2 DEF Process, Restart, GiveUp, vars, callVars
  <2>. QED
    BY <1>1, <2>1, <2>2 DEF Next
<1>2. ContractInv /\ [Next]_vars =>
        [\A c \in Calls :
           phase[c] = "answered" /\ answer[c].code # "UPSTREAM_UNAVAILABLE"
             => effects'[c] = effects[c]]_vars
  BY <1>1
<1>. QED
  BY <1>2, ContractInvariance, PTL DEF Spec

-----------------------------------------------------------------------------
(***************************************************************************)
(* Every start of the process does what Startup promises: the invariant of *)
(* Startup_proofs holds from start to start, because Restart leads to one  *)
(* of its initial states.                                                  *)
(***************************************************************************)
Begin == INSTANCE Startup_proofs

(* The actions of main are those of Startup_proofs ...                     *)
LEMMA SameMainSteps == Start!MainStep => Begin!MainStep
<1>1. Start!LoadConfig => Begin!LoadConfig
  BY Zenon DEF Start!LoadConfig, Begin!LoadConfig, Start!OnCallReadOnly,
         Begin!OnCallReadOnly, Start!ParseBoolEnv, Begin!ParseBoolEnv, Start!Valid,
         Begin!Valid, Start!UsesDirectOnCallAPI, Begin!UsesDirectOnCallAPI, Start!Exit,
         Begin!Exit, Start!selectionVars, Begin!selectionVars, Start!probeVars,
         Begin!probeVars, Start!outcomeVars, Begin!outcomeVars
<1>2. Start!ParsePreference => Begin!ParsePreference
  BY Zenon DEF Start!ParsePreference, Begin!ParsePreference, Start!UsesDirectOnCallAPI,
         Begin!UsesDirectOnCallAPI, Start!ParsePluginPreference,
         Begin!ParsePluginPreference, Start!RawPreference, Begin!RawPreference,
         Start!Preferences, Begin!Preferences, Start!Plugins, Begin!Plugins, Start!Exit,
         Begin!Exit, Start!probeVars, Begin!probeVars, Start!outcomeVars, Begin!outcomeVars
<1>3. Start!DirectClient => Begin!DirectClient
  BY Zenon DEF Start!DirectClient, Begin!DirectClient, Start!UsesDirectOnCallAPI,
         Begin!UsesDirectOnCallAPI, Start!selectionVars, Begin!selectionVars,
         Start!probeVars, Begin!probeVars, Start!outcomeVars, Begin!outcomeVars
<1>4. Start!Discover => Begin!Discover
  BY Zenon DEF Start!Discover, Begin!Discover, Start!UsesDirectOnCallAPI,
         Begin!UsesDirectOnCallAPI, Start!ProbeBoth, Begin!ProbeBoth, Start!Plugins,
         Begin!Plugins, Start!mainVars, Begin!mainVars
<1>5. Start!PluginClient => Begin!PluginClient
  BY Zenon DEF Start!PluginClient, Begin!PluginClient, Start!selectionVars,
         Begin!selectionVars, Start!probeVars, Begin!probeVars, Start!outcomeVars,
         Begin!outcomeVars
<1>6. Start!ClientFails => Begin!ClientFails
  BY Zenon DEF Start!ClientFails, Begin!ClientFails, Start!UsesDirectOnCallAPI,
         Begin!UsesDirectOnCallAPI, Start!Exit, Begin!Exit, Start!selectionVars, Begin!selectionVars, Start!probeVars,
         Begin!probeVars, Start!outcomeVars, Begin!outcomeVars
<1>7. Start!AddOnCallTools => Begin!AddOnCallTools
  BY Zenon DEF Start!AddOnCallTools, Begin!AddOnCallTools, Start!OnCallTools,
         Begin!OnCallTools, Start!ReadTools, Begin!ReadTools, Start!WriteTools,
         Begin!WriteTools, Start!ShouldRegisterTool, Begin!ShouldRegisterTool,
         Start!IsWriteTool, Begin!IsWriteTool, Start!writeToolNames, Begin!writeToolNames,
         Start!selectionVars, Begin!selectionVars, Start!probeVars, Begin!probeVars,
         Start!outcomeVars, Begin!outcomeVars
<1>8. Start!ParseTransport => Begin!ParseTransport
  BY Zenon DEF Start!ParseTransport, Begin!ParseTransport, Start!Exit, Begin!Exit,
         Start!selectionVars, Begin!selectionVars, Start!probeVars, Begin!probeVars,
         Start!outcomeVars, Begin!outcomeVars
<1>. QED
  BY <1>1, <1>2, <1>3, <1>4, <1>5, <1>6, <1>7, <1>8, Zenon DEF Start!MainStep, Begin!MainStep

(* ... and so are those of the discovery and the end of Serve.             *)
LEMMA SameDiscoverySteps ==
  /\ Start!DiscoveryStep => Begin!DiscoveryStep
  /\ Start!ServeReturns => Begin!ServeReturns
<1>1. Start!SelectPlugin => Begin!SelectPlugin
  BY Zenon DEF Start!SelectPlugin, Begin!SelectPlugin, Start!Joined, Begin!Joined,
         Start!Plugins, Begin!Plugins, Start!Chosen, Begin!Chosen, Start!Up, Begin!Up,
         Start!irmBaseURL, Begin!irmBaseURL, Start!NoURL, Begin!NoURL,
         Start!legacyBaseURL, Begin!legacyBaseURL, Start!probeVars, Begin!probeVars
<1>2. Start!SelectNone => Begin!SelectNone
  BY Zenon DEF Start!SelectNone, Begin!SelectNone, Start!Joined, Begin!Joined,
         Start!Plugins, Begin!Plugins, Start!Chosen, Begin!Chosen, Start!Up, Begin!Up,
         Start!RefusalCode, Begin!RefusalCode, Start!probeVars, Begin!probeVars
<1>3. ASSUME NEW p \in Start!Plugins
      PROVE  /\ Start!ProbeFinds(p) => Begin!ProbeFinds(p)
             /\ Start!ProbeMisses(p) => Begin!ProbeMisses(p)
             /\ Start!ProbeErrs(p) => Begin!ProbeErrs(p)
             /\ Start!ProbeTimesOut(p) => Begin!ProbeTimesOut(p)
             /\ Start!ProbeDone(p) => Begin!ProbeDone(p)
  <2>1. \A r : Start!Store(p, r) => Begin!Store(p, r)
    BY Zenon DEF Start!Store, Begin!Store, Start!outcomeVars, Begin!outcomeVars
  <2>. QED
    BY <2>1, Zenon DEF Start!ProbeFinds, Begin!ProbeFinds, Start!ProbeMisses,
           Begin!ProbeMisses, Start!ProbeErrs, Begin!ProbeErrs, Start!ProbeTimesOut,
           Begin!ProbeTimesOut, Start!ProbeDone, Begin!ProbeDone, Start!RawURLs,
           Begin!RawURLs, Start!NoURL, Begin!NoURL, Start!outcomeVars, Begin!outcomeVars
<1>4. Start!Plugins = Begin!Plugins
  BY DEF Start!Plugins, Begin!Plugins
<1>5. Start!SelectionStep => Begin!SelectionStep
  BY <1>1, <1>2, <1>3, <1>4, Zenon DEF Start!SelectionStep, Begin!SelectionStep
<1>6. Start!DiscoveryStep => Begin!DiscoveryStep
  BY <1>5, Zenon DEF Start!DiscoveryStep, Begin!DiscoveryStep, Start!mainVars, Begin!mainVars
<1>7. Start!ServeReturns => Begin!ServeReturns
  BY Zenon DEF Start!ServeReturns, Begin!ServeReturns, Start!Exit, Begin!Exit,
         Start!selectionVars, Begin!selectionVars, Start!probeVars, Begin!probeVars,
         Start!outcomeVars, Begin!outcomeVars
<1>. QED
  BY <1>6, <1>7

(* The process starts, the first time ...                                  *)
LEMMA InitBegins == Init => Begin!IInv
<1>1. Init => Begin!Init
  BY Zenon DEF Init, Start!Init, Begin!Init, Start!Settings, Begin!Settings,
         Start!RawPreferences, Begin!RawPreferences, Start!SelectionInit,
         Begin!SelectionInit, Start!Plugins, Begin!Plugins, Start!Preferences,
         Begin!Preferences, Start!NoURL, Begin!NoURL
<1>. QED
  BY <1>1, Begin!InitInv

(* ... and again and again, with the same settings and the same Grafana.   *)
LEMMA RestartBegins == Begin!IInv /\ Restart => Begin!IInv'
<1>1. Begin!IInv /\ Restart => Begin!Init'
  <2> SUFFICES ASSUME Begin!IInv, Restart PROVE Begin!Init'
    OBVIOUS
  <2>1. settings' \in Begin!Settings /\ hosted' \in SUBSET Begin!Plugins
    BY Zenon DEF Restart, Begin!IInv, Begin!TypeOK, Begin!SelectionTypeOK
  <2>2. Begin!NoURL = Start!NoURL /\ Begin!Plugins = Start!Plugins
        /\ "unset" \in Begin!Preferences
    BY DEF Begin!NoURL, Start!NoURL, Begin!Plugins, Start!Plugins, Begin!Preferences
  <2>. QED
    BY <2>1, <2>2, Zenon DEF Restart, Begin!Init, Begin!SelectionInit
<1>2. Begin!Init' => Begin!IInv'
  BY Begin!InitInv, PTL
<1>. QED
  BY <1>1, <1>2

(* Every step of the process keeps the invariant of its startup.           *)
LEMMA NextBegins == Begin!IInv /\ [Next]_vars => Begin!IInv'
<1> SUFFICES ASSUME Begin!IInv, [Next]_vars PROVE Begin!IInv'
  OBVIOUS
<1>1. CASE Process
  <2>1. Begin!Next
    BY <1>1, SameMainSteps, SameDiscoverySteps, Zenon DEF Process, Begin!Next
  <2>. QED
    BY <2>1, Begin!NextInv
<1>2. CASE Restart
  BY <1>2, RestartBegins
<1>3. CASE Upstream \/ (\E c \in Calls : Handle(c) \/ Meet(c) \/ GiveUp(c)) \/ UNCHANGED vars
  <2>1. UNCHANGED processVars
    BY <1>3 DEF Upstream, Handle, Meet, GiveUp, vars
  <2>2. UNCHANGED Begin!vars
    BY <2>1, Zenon DEF processVars, Begin!vars, Begin!mainVars, Begin!selectionVars,
                       Begin!probeVars, Begin!outcomeVars
  <2>. QED
    BY <2>2, Begin!NextInv
<1>. QED
  BY <1>1, <1>2, <1>3 DEF Next

(* The invariant of the startup holds throughout.                          *)
THEOREM StartupInvariance == Spec => []Begin!IInv
  BY InitBegins, NextBegins, PTL DEF Spec

StartupIsSound ==
  /\ Start!SelectionFollowsTable
  /\ Start!ServesOnlyWhatWasFound
  /\ Start!ReadOnlyIsHonoured
  /\ Start!ProbesAreConfigured

(* However many processes have ended, and whatever calls they left behind: *)
(* a process that serves has itself found the plugin it serves for, as the *)
(* precedence table says, and lists the tools of its mode; its probes went *)
(* out for sound settings only (main, SelectAndResolve).                   *)
THEOREM StartupStaysSound == Spec => []StartupIsSound
<1>1. Begin!IInv => /\ Begin!SelectionFollowsTable
                    /\ Begin!ServesOnlyWhatWasFound
                    /\ Begin!ReadOnlyIsHonoured
                    /\ Begin!ProbesAreConfigured
  <2>1. Begin!IInv => Begin!SelectionFollowsTable
    BY DEF Begin!IInv, Begin!ChoiceInv
  <2>. QED
    BY <2>1, Begin!FoundIsServed, Begin!GateDecides, Begin!SoundIsProbed
<1>2. Begin!SelectionFollowsTable => Start!SelectionFollowsTable
  BY Zenon DEF Begin!SelectionFollowsTable, Start!SelectionFollowsTable,
               Begin!PrecedenceTable, Start!PrecedenceTable
<1>3. Begin!ServesOnlyWhatWasFound => Start!ServesOnlyWhatWasFound
  BY Zenon DEF Begin!ServesOnlyWhatWasFound, Start!ServesOnlyWhatWasFound
<1>4. Begin!ReadOnlyIsHonoured => Start!ReadOnlyIsHonoured
  BY Zenon DEF Begin!ReadOnlyIsHonoured, Start!ReadOnlyIsHonoured, Begin!OnCallTools,
               Start!OnCallTools, Begin!ReadTools, Start!ReadTools, Begin!WriteTools,
               Start!WriteTools
<1>5. Begin!ProbesAreConfigured => Start!ProbesAreConfigured
  BY Zenon DEF Begin!ProbesAreConfigured, Start!ProbesAreConfigured,
               Begin!Plugins, Start!Plugins, Begin!RawPreference, Start!RawPreference
<1>6. Begin!IInv => StartupIsSound
  BY <1>1, <1>2, <1>3, <1>4, <1>5 DEF StartupIsSound
<1>. QED
  BY <1>6, StartupInvariance, PTL

(* The plugin and the URL the calls go to change with the process only,    *)
(* whatever the probes, Grafana and the calls do (NewClientWithOptions).   *)
THEOREM SelectionOfProcess ==
  Spec => [][discovery = "selected" /\ ~Restart =>
               UNCHANGED <<plugin, baseURL, result, onCallURL>>]_vars
<1>1. ASSUME Begin!IInv, [Next]_vars, discovery = "selected", ~Restart
      PROVE  UNCHANGED <<plugin, baseURL, result, onCallURL>>
  <2>1. CASE Process
    <3>1. Begin!Next
      BY <2>1, SameMainSteps, SameDiscoverySteps, Zenon DEF Process, Begin!Next
    <3>. QED
      BY <1>1, <3>1, Begin!SelectionStands
  <2>2. CASE \/ Upstream \/ UNCHANGED vars
             \/ \E c \in Calls : Handle(c) \/ Meet(c) \/ GiveUp(c)
    BY <2>2 DEF Upstream, Handle, Meet, GiveUp, vars, processVars
  <2>. QED
    BY <1>1, <2>1, <2>2 DEF Next
<1>2. Begin!IInv /\ [Next]_vars =>
        [discovery = "selected" /\ ~Restart =>
           UNCHANGED <<plugin, baseURL, result, onCallURL>>]_vars
  BY <1>1
<1>. QED
  BY <1>2, StartupInvariance, PTL DEF Spec

================================================================================
