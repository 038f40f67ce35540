-------------------------------- MODULE Server --------------------------------
(***************************************************************************)
(* The whole process: Startup, then the write calls of AlertGroupWrites on *)
(* the tools startup registered, and what becomes of the calls when the    *)
(* process ends in between and the MCP client starts it again.             *)
(*                                                                         *)
(* main does not wait for the handlers when Serve returns                  *)
(* (cmd/oncall-mcp/main.go), and nothing is stored: a call that was being  *)
(* handled is never answered, but its POST may be on its way.              *)
(***************************************************************************)
EXTENDS Integers

CONSTANTS
  Calls, Groups, NoGroup, AcceptCodes, RefuseCodes, FailCodes, HTTPTimeout,
  MaxRestarts   \* bound on how often the process is started again

(* What AlertGroupWrites assumes of its constants, and the bound.          *)
ASSUME GroupAssumption == NoGroup \notin Groups
ASSUME CodeAssumption ==
  /\ AcceptCodes \subseteq {200, 201}
  /\ RefuseCodes \subseteq 400..499
  /\ FailCodes \subseteq 500..599
ASSUME TimeoutAssumption == HTTPTimeout \in Int
ASSUME RestartAssumption == MaxRestarts \in Nat

VARIABLES
  settings, main, exit, readOnly, client, registered,        \* of Startup
  pref, hosted, probe, result, onCallURL,                    \* of PluginSelection
  discovery, plugin, baseURL, refusal,
  request, phase, answer, wire, status, state, effects, move, \* of AlertGroupWrites
  given_up,  \* calls whose client was told that the connection is closed
  restarts   \* how often the process was started again

processVars == <<settings, main, exit, readOnly, client, registered, pref, hosted,
                 probe, result, onCallURL, discovery, plugin, baseURL, refusal>>
callVars == <<request, phase, answer, wire, status, state, effects, move>>
clientVars == <<given_up, restarts>>
vars == <<processVars, callVars, clientVars>>

(* The registered tools and cfg.OnCallReadOnly are what startup left.      *)
Start == INSTANCE Startup
Write == INSTANCE AlertGroupWrites WITH readOnly <- readOnly

-----------------------------------------------------------------------------
Init ==
  /\ Start!Init
  /\ request \in [Calls -> Write!Requests]
  /\ state \in [Groups -> Write!States]
  /\ phase = [c \in Calls |-> "idle"]
  /\ answer = [c \in Calls |-> Write!NoAnswer]
  /\ wire = [c \in Calls |-> "none"]
  /\ status = [c \in Calls |-> 0]
  /\ effects = [c \in Calls |-> 0]
  /\ move = [c \in Calls |-> Write!NoMove]
  /\ given_up = {}
  /\ restarts = 0

(* main and the discovery.                                                 *)
Process ==
  /\ Start!MainStep \/ Start!DiscoveryStep \/ Start!ServeReturns
  /\ UNCHANGED <<settings, callVars, clientVars>>

(* The goroutine of a call: its tool is looked up among the registered     *)
(* ones.                                                                   *)
InFlight(c) == phase[c] \in {"queued", "posting"}

Handle(c) ==
  /\ main = "serving"
  /\ c \notin given_up
  /\ \/ request[c].tool \notin registered /\ Write!RejectTool(c)
     \/ request[c].tool \in registered /\ (Write!RejectInput(c) \/ Write!Post(c))
     \/ Write!Respond(c)
     \/ Write!Timeout(c)
  /\ UNCHANGED <<processVars, request, clientVars>>

(* What the handler meets: a call, and a connection that fails.            *)
Meet(c) ==
  /\ main = "serving"
  /\ c \notin given_up
  /\ Write!Call(c) \/ Write!TransportError(c)
  /\ UNCHANGED <<processVars, request, clientVars>>

(* External: OnCall and the people in it, whether the process runs or not. *)
Upstream ==
  /\ \/ \E c \in Calls : Write!Accept(c) \/ Write!Refuse(c)
     \/ \E g \in Groups : Write!OthersAct(g)
  /\ UNCHANGED <<processVars, request, clientVars>>

(* External: the MCP client finds the connection closed, call by call,     *)
(* and starts the process again, with the same settings and nothing left   *)
(* of the process before.                                                  *)
GiveUp(c) ==
  /\ main = "exited"
  /\ InFlight(c)
  /\ c \notin given_up
  /\ given_up' = given_up \cup {c}
  /\ UNCHANGED <<processVars, callVars, restarts>>

Restart ==
  /\ main = "exited"
  /\ restarts < MaxRestarts
  /\ \A c \in Calls : InFlight(c) => c \in given_up
  /\ restarts' = restarts + 1
  /\ main' = "load" /\ exit' = "" /\ readOnly' = FALSE
  /\ client' = "none" /\ registered' = {} /\ pref' = "unset"
  /\ probe' = [p \in Start!Plugins |-> "idle"]
  /\ result' = [p \in Start!Plugins |-> "zero"]
  /\ onCallURL' = Start!NoURL
  /\ discovery' = "idle" /\ plugin' = "none" /\ baseURL' = Start!NoURL /\ refusal' = ""
  /\ UNCHANGED <<settings, hosted, callVars, given_up>>

Next ==
  \/ Process \/ Upstream \/ Restart
  \/ \E c \in Calls : Handle(c) \/ Meet(c) \/ GiveUp(c)

Spec == Init /\ [][Next]_vars

(* The goroutines run and the clients notice a closed connection; nothing  *)
(* is assumed of Grafana, OnCall or of when the process ends.              *)
FairSpec == Spec /\ \A c \in Calls : WF_vars(Handle(c)) /\ WF_vars(GiveUp(c))

-----------------------------------------------------------------------------
(***************************************************************************)
(* Properties.                                                             *)
(***************************************************************************)
(* Read-only mode, asked for by the flag, or by the variable without a     *)
(* flag, holds to the wire: whatever is selected, called, ended and        *)
(* started again, no POST leaves the server and changes an alert group.    *)
ReadOnlyToTheWire ==
  settings.roFlag = "true" \/ (settings.roFlag = "absent" /\ settings.roEnv = "true") =>
    \A c \in Calls : wire[c] = "none" /\ effects[c] = 0

(* Every call the server took is answered, unless the process ends and the *)
(* client learns that from the connection.                                 *)
CallsEnd == \A c \in Calls : phase[c] = "queued" ~> phase[c] = "answered" \/ c \in given_up

(* What the client knows: a call it gave up is unconfirmed for ever.       *)
view == [c \in Calls |-> IF c \in given_up THEN "unconfirmed" ELSE Write!view[c]]

Contract == INSTANCE WriteContract WITH Calls <- Calls, view <- view, effects <- effects

(* The whole process keeps the contract of the write tools, across the end *)
(* of the process and its restarts.                                        *)
ImplementsContract == Contract!Spec

==============================================================================
