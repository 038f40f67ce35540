------------------------------- MODULE Startup -------------------------------
(***************************************************************************)
(* The server process from its environment and flags to Serve              *)
(* (cmd/oncall-mcp/main.go, internal/config, internal/server), with the    *)
(* plugin discovery of PluginSelection in the middle.                      *)
(*                                                                         *)
(*   load --> wire --> client --> tools --> transport --> serving          *)
(*                                                                         *)
(* and from every step but "tools" to "exited".  Mutant... definitions are *)
(* faulty variants the model does not use.                                 *)
(***************************************************************************)
EXTENDS PluginSelection, ToolRegistry

VARIABLES
  settings,    \* the environment and the flags, fixed
  main,        \* how far main has come
  exit,        \* the code of the startup error, "unstructured" if none
  readOnly,    \* cfg.OnCallReadOnly
  client,      \* the Plugin of the oncall.Client, "none" before it is built
  registered   \* the tools mcp-go lists

mainVars == <<main, exit, readOnly, client, registered>>
vars == <<settings, mainVars, selectionVars>>

(* The environment and the flags, as far as a branch looks at them.  An    *)
(* explicit --read-only=false is not the same as no flag.                  *)
RawPreferences == {"", "oncall-app", " IRM ", "unset"}
Settings ==
  [grafanaURL  : {"https", "http", "missing"},
   token       : {"set", "missing"},
   direct      : {"neither", "both", "one of two", "both, http"},
   roEnv       : {"true", "false", "yes"},
   roFlag      : {"absent", "true", "false"},
   prefEnv     : RawPreferences,
   prefFlag    : RawPreferences,
   transport   : {"stdio", "bogus"}]

-----------------------------------------------------------------------------
(***************************************************************************)
(* Configuration.                                                          *)
(***************************************************************************)

(* parseBoolEnv: what strconv.ParseBool does not know is the default.      *)
ParseBoolEnv(v) == v = "true"

(* The environment variable or the flag turns read-only mode on; a flag    *)
(* that is false, by default or explicitly, changes nothing.               *)
MutantOnCallReadOnly(s) == s.roFlag = "true"
OnCallReadOnly(s) == ParseBoolEnv(s.roEnv) \/ s.roFlag = "true"

RawPreference(s) == IF s.prefFlag # "" THEN s.prefFlag ELSE s.prefEnv

(* ParsePluginPreference trims and lowers; {}: no such preference.         *)
MutantParsePluginPreference(raw) == IF raw = "" THEN {"unset"} ELSE {raw}
ParsePluginPreference(raw) ==
  {p \in Preferences : <<raw, p>> \in
     {<<"", "unset">>, <<"oncall-app", "oncall-app">>, <<" IRM ", "irm">>}}

UsesDirectOnCallAPI(s) == s.direct # "neither"

MutantValid(s) ==
  IF UsesDirectOnCallAPI(s) THEN s.direct \in {"both", "both, http"}
  ELSE s.grafanaURL # "missing"
Valid(s) ==
  IF UsesDirectOnCallAPI(s) THEN s.direct = "both"
  ELSE s.grafanaURL = "https" /\ s.token # "missing"

-----------------------------------------------------------------------------
Init ==
  /\ settings \in Settings
  /\ main = "load"
  /\ exit = ""
  /\ readOnly = FALSE
  /\ client = "none"
  /\ registered = {}
  /\ SelectionInit
  /\ pref = "unset"

Exit(code) == main' = "exited" /\ exit' = code

(* config.Load, the flag overrides and Validate.                           *)
LoadConfig ==
  /\ main = "load"
  /\ readOnly' = OnCallReadOnly(settings)
  /\ IF Valid(settings) THEN main' = "wire" /\ UNCHANGED exit
     ELSE Exit("INVALID_CONFIG")
  /\ UNCHANGED <<client, registered, selectionVars>>

(* NewServer, then the preference, which direct mode does not look at.     *)
ParsePreference ==
  /\ main = "wire"
  /\ LET parsed == IF UsesDirectOnCallAPI(settings) THEN {"unset"}
                   ELSE ParsePluginPreference(RawPreference(settings))
     IN \/ \E p \in parsed : pref' = p /\ main' = "client" /\ UNCHANGED exit
        \/ parsed = {} /\ Exit("INVALID_CONFIG") /\ UNCHANGED pref
  /\ UNCHANGED <<readOnly, client, registered, hosted, probeVars, outcomeVars>>

(* NewClientWithOptions in direct mode.                                    *)
DirectClient ==
  /\ main = "client"
  /\ UsesDirectOnCallAPI(settings)
  /\ client' = "direct-api"
  /\ main' = "tools"
  /\ UNCHANGED <<exit, readOnly, registered, selectionVars>>

(* NewClientWithOptions in plugin mode: discovery, in PluginSelection.     *)
Discover ==
  /\ main = "client"
  /\ ~UsesDirectOnCallAPI(settings)
  /\ ProbeBoth
  /\ UNCHANGED mainVars

DiscoveryStep == SelectionStep /\ UNCHANGED mainVars

(* ... then the OnCall client for the base URL.                            *)
PluginClient ==
  /\ main = "client"
  /\ discovery = "selected"
  /\ client' = plugin
  /\ main' = "tools"
  /\ UNCHANGED <<exit, readOnly, registered, selectionVars>>

(* No plugin, or the API library refuses the URL: that of direct mode or   *)
(* of the IRM settings may be malformed or empty.  external: which URLs.   *)
ClientFails ==
  /\ main = "client"
  /\ \/ UsesDirectOnCallAPI(settings)
     \/ discovery = "failed"
     \/ discovery = "selected" /\ plugin = "irm"
  /\ Exit("STARTUP_HEALTH_CHECK_FAILED")
  /\ UNCHANGED <<readOnly, client, registered, selectionVars>>

AddOnCallTools ==
  /\ main = "tools"
  /\ registered' = {t \in OnCallTools : ShouldRegisterTool(readOnly, t)}
  /\ main' = "transport"
  /\ UNCHANGED <<exit, readOnly, client, selectionVars>>

(* ParseTransport only after everything else; its error is logged only.    *)
ParseTransport ==
  /\ main = "transport"
  /\ IF settings.transport = "bogus" THEN Exit("unstructured")
     ELSE main' = "serving" /\ UNCHANGED exit
  /\ UNCHANGED <<readOnly, client, registered, selectionVars>>

(* Serve returns: an address in use, or the end of stdin.  Calls that are  *)
(* still being handled end with the process.                               *)
ServeReturns ==
  /\ main = "serving"
  /\ \E code \in {"", "unstructured"} : Exit(code)
  /\ UNCHANGED <<readOnly, client, registered, selectionVars>>

(* The process has ended or serves its clients.                            *)
Settled == main \in {"serving", "exited"} /\ UNCHANGED <<mainVars, selectionVars>>

MainStep ==
  \/ LoadConfig \/ ParsePreference \/ DirectClient \/ Discover \/ PluginClient
  \/ ClientFails \/ AddOnCallTools \/ ParseTransport

Next ==
  /\ MainStep \/ DiscoveryStep \/ ServeReturns \/ Settled
  /\ UNCHANGED settings

Spec == Init /\ [][Next]_vars

(* main and the probe goroutines run; net/http ends a probe in 5 seconds.  *)
(* Nothing is assumed of Grafana.                                          *)
FairSpec ==
  /\ Spec
  /\ WF_vars(MainStep /\ UNCHANGED settings)
  /\ WF_vars((SelectPlugin \/ SelectNone) /\ UNCHANGED <<mainVars, settings>>)
  /\ \A p \in Plugins : WF_vars(Goroutine(p) /\ UNCHANGED <<mainVars, settings>>)

-----------------------------------------------------------------------------
(***************************************************************************)
(* Properties.                                                             *)
(***************************************************************************)
TypeOK ==
  /\ settings \in Settings
  /\ main \in {"load", "wire", "client", "tools", "transport", "serving", "exited"}
  /\ exit \in {"", "INVALID_CONFIG", "STARTUP_HEALTH_CHECK_FAILED", "unstructured"}
  /\ readOnly \in BOOLEAN
  /\ client \in Plugins \cup {"none", "direct-api"}
  /\ registered \subseteq OnCallTools
  /\ SelectionTypeOK

(* The precedence table of the selection: for each outcome of the two      *)
(* finished probes and each preference, the plugin chosen or the refusal.  *)
PrecedenceTable ==
  {<<"unset", "up", "up", "oncall-app">>, <<"unset", "up", "down", "oncall-app">>,
   <<"unset", "down", "up", "irm">>, <<"unset", "down", "down", "ONCALL_PLUGIN_MISSING">>,
   <<"oncall-app", "up", "up", "oncall-app">>, <<"oncall-app", "up", "down", "oncall-app">>,
   <<"oncall-app", "down", "up", "INVALID_INPUT">>,
   <<"oncall-app", "down", "down", "INVALID_INPUT">>,
   <<"irm", "up", "up", "irm">>, <<"irm", "down", "up", "irm">>,
   <<"irm", "up", "down", "INVALID_INPUT">>, <<"irm", "down", "down", "INVALID_INPUT">>}

(* Whichever probe finishes first, and whatever the other one is doing     *)
(* then, the selection is the one the table gives for the results the two  *)
(* probes end with (probeBoth's WaitGroup, selectPlugin).                  *)
SelectionFollowsTable ==
  LET is(p) == IF result[p] = "installed" THEN "up" ELSE "down"
  IN discovery \in {"selected", "failed"} =>
       <<pref, is("oncall-app"), is("irm"),
         IF discovery = "selected" THEN plugin ELSE refusal>> \in PrecedenceTable

(* The server lists tools only when it was configured completely, and in   *)
(* plugin mode only for a plugin whose own probe found it (Validate,       *)
(* NewClientWithOptions).                                                  *)
ServesOnlyWhatWasFound ==
  main = "serving" =>
    /\ client # "none"
    /\ client = "direct-api" => settings.direct = "both"
    /\ client # "direct-api" =>
         /\ settings.direct = "neither" /\ settings.token # "missing"
         /\ settings.grafanaURL = "https"
         /\ client \in hosted /\ result[client] = "installed"

(* Asked for by the flag, or by the environment without a flag, read-only  *)
(* mode leaves exactly the read tools to list; asked for by neither,       *)
(* nothing is missing (main.go, RegisterTool, AddOnCallTools).             *)
ReadOnlyIsHonoured ==
  main = "serving" =>
    /\ settings.roFlag = "true" \/ (settings.roFlag = "absent" /\ settings.roEnv = "true")
         => registered = ReadTools
    /\ settings.roFlag # "true" /\ settings.roEnv # "true" => registered = OnCallTools

(* Grafana is asked for its plugins only in plugin mode, over https, with  *)
(* a token, and for a preference that names a plugin or none: a setting    *)
(* that is wrong by itself stops the process before its token goes out     *)
(* (Validate and ParsePluginPreference before NewClientWithOptions).       *)
ProbesAreConfigured ==
  (\E p \in Plugins : probe[p] # "idle") =>
    /\ settings.direct = "neither"
    /\ settings.grafanaURL = "https" /\ settings.token = "set"
    /\ RawPreference(settings) \in {"", "oncall-app", " IRM "}

(* Once the client is built, its plugin and its base URL never change,     *)
(* whatever becomes of the probes and of Grafana.                          *)
SelectionIsFinal ==
  [][discovery = "selected" => UNCHANGED <<plugin, baseURL, result, onCallURL>>]_vars

(* Startup ends: the server serves or the process exits, even when Grafana *)
(* never answers a probe.                                                  *)
StartupEnds == <>(main \in {"serving", "exited"})

==============================================================================
