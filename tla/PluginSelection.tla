--------------------------- MODULE PluginSelection ---------------------------
(***************************************************************************)
(* Plugin discovery at startup (internal/oncall/plugin.go).  SelectAnd-    *)
(* Resolve starts one goroutine per supported plugin; each asks Grafana    *)
(* for the plugin's settings and stores a probeResult; when both are done, *)
(* the precedence rule picks a plugin and the OnCall base URL.             *)
(*                                                                         *)
(*   a goroutine:      idle --> out --> wrote --> done                     *)
(*   SelectAndResolve: idle --> probing --> selected | failed              *)
(*                                                                         *)
(* Mutant... definitions are faulty variants the model does not use.       *)
(***************************************************************************)
EXTENDS Naturals

VARIABLES
  pref,         \* the parsed PluginPreference
  hosted,       \* the plugins Grafana hosts
  probe,        \* [Plugins -> ProbePhases]  the two goroutines
  result,       \* [Plugins -> Results]      the probeResults
  onCallURL,    \* probeResult.onCallURL of the IRM probe
  discovery,    \* where SelectAndResolve is
  plugin,       \* the Plugin it returned
  baseURL,      \* the base URL it returned
  refusal       \* the code of the *Error it returned

probeVars == <<probe, result, onCallURL>>
outcomeVars == <<discovery, plugin, baseURL, refusal>>
selectionVars == <<pref, hosted, probeVars, outcomeVars>>

Plugins == {"oncall-app", "irm"}
Preferences == Plugins \cup {"unset"}
ProbePhases == {"idle", "out", "wrote", "done"}

(* A probeResult: the zero value, installed (200), not installed (404), or *)
(* not installed with an err (another status, a timeout, no connection).   *)
Results == {"zero", "installed", "absent", "error"}

(* URLs by what irmBaseURL looks at: is there one, does its path end in    *)
(* /api/v1, and how many slashes follow.                                   *)
NoURL == [host |-> "", versioned |-> FALSE, slashes |-> 0]
RawURLs == {NoURL} \cup [host : {"irm"}, versioned : BOOLEAN, slashes : 0..2]

-----------------------------------------------------------------------------
legacyBaseURL == [host |-> "grafana", versioned |-> TRUE, slashes |-> 1]

(* Trailing slashes go, /api/v1 is added unless it is there, and so is one *)
(* slash.  No URL stays no URL.                                            *)
irmBaseURL(raw) ==
  IF raw = NoURL THEN NoURL ELSE [host |-> "irm", versioned |-> TRUE, slashes |-> 1]

(* selectPlugin: the preference if it names a plugin, else the legacy      *)
(* plugin if it is up, else the other one.                                 *)
MutantChosen(p, up) == IF p \in up THEN {p} ELSE up
Chosen(p, up) ==
  IF p # "unset" THEN up \cap {p}
  ELSE IF "oncall-app" \in up THEN {"oncall-app"}
  ELSE up

RefusalCode(p) == IF p = "unset" THEN "ONCALL_PLUGIN_MISSING" ELSE "INVALID_INPUT"

Up == {p \in Plugins : result[p] = "installed"}

-----------------------------------------------------------------------------
SelectionInit ==
  /\ pref \in Preferences
  /\ hosted \in SUBSET Plugins
  /\ probe = [p \in Plugins |-> "idle"]
  /\ result = [p \in Plugins |-> "zero"]
  /\ onCallURL = NoURL
  /\ discovery = "idle"
  /\ plugin = "none"
  /\ baseURL = NoURL
  /\ refusal = ""

(* probeBoth starts the two goroutines.                                    *)
ProbeBoth ==
  /\ discovery = "idle"
  /\ discovery' = "probing"
  /\ probe' = [p \in Plugins |-> "out"]
  /\ UNCHANGED <<pref, hosted, result, onCallURL, plugin, baseURL, refusal>>

(* probeOne returns r and its goroutine stores it under the mutex.         *)
Store(p, r) ==
  /\ probe[p] = "out"
  /\ probe' = [probe EXCEPT ![p] = "wrote"]
  /\ result' = [result EXCEPT ![p] = r]
  /\ UNCHANGED <<pref, hosted, outcomeVars>>

(* Grafana answers 200: the IRM probe reads jsonData.onCallApiUrl; a body  *)
(* that does not decode, or without the field, leaves it empty.            *)
ProbeFinds(p) ==
  /\ p \in hosted
  /\ Store(p, "installed")
  /\ IF p = "irm" THEN onCallURL' \in RawURLs ELSE UNCHANGED onCallURL

(* Grafana answers 404.                                                    *)
ProbeMisses(p) ==
  /\ p \notin hosted
  /\ Store(p, "absent")
  /\ UNCHANGED onCallURL

(* Grafana answers anything else, or the connection fails.                 *)
ProbeErrs(p) == Store(p, "error") /\ UNCHANGED onCallURL

(* pluginProbeTimeout, both on the request context and on the http.Client. *)
ProbeTimesOut(p) == Store(p, "error") /\ UNCHANGED onCallURL

(* The goroutine has logged what there is to log and calls wg.Done.        *)
MutantProbeDone(p) ==
  /\ probe[p] = "wrote"
  /\ result[p] # "error"
  /\ probe' = [probe EXCEPT ![p] = "done"]
  /\ UNCHANGED <<pref, hosted, result, onCallURL, outcomeVars>>
ProbeDone(p) ==
  /\ probe[p] = "wrote"
  /\ probe' = [probe EXCEPT ![p] = "done"]
  /\ UNCHANGED <<pref, hosted, result, onCallURL, outcomeVars>>

(* wg.Wait returns once both goroutines are done.                          *)
MutantJoined == \E p \in Plugins : probe[p] = "done"
Joined == \A p \in Plugins : probe[p] = "done"

SelectPlugin ==
  /\ discovery = "probing"
  /\ Joined
  /\ \E p \in Chosen(pref, Up) :
       /\ plugin' = p
       /\ baseURL' = IF p = "irm" THEN irmBaseURL(onCallURL) ELSE legacyBaseURL
  /\ discovery' = "selected"
  /\ UNCHANGED <<pref, hosted, probeVars, refusal>>

SelectNone ==
  /\ discovery = "probing"
  /\ Joined
  /\ Chosen(pref, Up) = {}
  /\ discovery' = "failed"
  /\ refusal' = RefusalCode(pref)
  /\ UNCHANGED <<pref, hosted, probeVars, plugin, baseURL>>

Goroutine(p) == ProbeTimesOut(p) \/ ProbeDone(p)

SelectionStep ==
  \/ SelectPlugin
  \/ SelectNone
  \/ \E p \in Plugins :
       \/ ProbeFinds(p) \/ ProbeMisses(p) \/ ProbeErrs(p) \/ ProbeTimesOut(p)
       \/ ProbeDone(p)

SelectionTypeOK ==
  /\ pref \in Preferences
  /\ hosted \in SUBSET Plugins
  /\ probe \in [Plugins -> ProbePhases]
  /\ result \in [Plugins -> Results]
  /\ onCallURL \in RawURLs
  /\ discovery \in {"idle", "probing", "selected", "failed"}
  /\ plugin \in Plugins \cup {"none"}
  /\ baseURL \in RawURLs \cup {legacyBaseURL}
  /\ refusal \in {"", "ONCALL_PLUGIN_MISSING", "INVALID_INPUT"}

==============================================================================
