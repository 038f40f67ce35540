------------------------------- MODULE MCServer -------------------------------
(* Instances of Server for TLC. *)
EXTENDS Server

CONSTANTS c1, c2, g1

TwoCalls == {c1, c2}
OneGroup == {g1}
Accepted == {200}
Refused == {409}
Failed == {}

(* Complete and incomplete settings of both modes, read-only or not.       *)
Environment(grafanaURL, token, direct, roEnv, roFlag) ==
  [grafanaURL |-> grafanaURL, token |-> token, direct |-> direct,
   roEnv |-> roEnv, roFlag |-> roFlag, prefEnv |-> "", prefFlag |-> "",
   transport |-> "stdio"]

SomeSettings ==
  {Environment("https", token, "neither", "false", "absent") : token \in {"set", "missing"}}
  \cup {Environment("missing", "missing", direct, roEnv, roFlag) :
           direct \in {"both", "one of two"}, roEnv \in {"true", "false"},
           roFlag \in {"absent", "true", "false"}}

Request(tool, until) == [tool |-> tool, group |-> g1, until |-> until]
Acknowledge == Request("acknowledge_alert_group", "unused")
Unresolve == Request("unresolve_alert_group", "unused")
LateSilence == Request("silence_alert_group", "past")

(* One call acknowledges, the other one reopens the group, or is rejected. *)
MCInit ==
  /\ settings \in SomeSettings
  /\ \E r \in {Unresolve, LateSilence} :
       request = [c \in Calls |-> IF c = c1 THEN Acknowledge ELSE r]
  /\ hosted = {"oncall-app"}
  /\ state = [g \in Groups |-> "new"]
  /\ Init

MCSpec ==
  /\ MCInit
  /\ [][Next]_vars
  /\ \A c \in Calls : WF_vars(Handle(c)) /\ WF_vars(GiveUp(c))

===============================================================================
