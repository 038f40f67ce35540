----------------------------- MODULE Startup_proofs -----------------------------
(***************************************************************************)
(* Proofs about Startup: what the process selects, registers and serves in *)
(* every interleaving of main with the two probes.                         *)
(***************************************************************************)
EXTENDS Startup, TLAPS

(* The probes start with the discovery and are done when it is over; only  *)
(* a probe of a plugin that is hosted finds it.                            *)
ProbeInv ==
  /\ discovery = "idle" => probe = [p \in Plugins |-> "idle"]
  /\ discovery \in {"selected", "failed"} => \A p \in Plugins : probe[p] = "done"
  /\ \A p \in Plugins : result[p] = "installed" => p \in hosted

(* What was selected was found, and is what the table says.                *)
ChoiceInv ==
  /\ discovery = "selected" => plugin \in Plugins /\ result[plugin] = "installed"
  /\ SelectionFollowsTable

(* How far main has come says what it has checked and built.               *)
MainInv ==
  /\ main \in {"load", "wire"} => discovery = "idle"
  /\ exit = "INVALID_CONFIG" => main = "exited" /\ discovery = "idle"
  /\ main \in {"wire", "client", "tools", "transport", "serving"} => Valid(settings)
  /\ main \notin {"load", "exited"} => (readOnly <=> OnCallReadOnly(settings))
  /\ main \in {"tools", "transport", "serving"} => client # "none"
  /\ discovery # "idle" => ~UsesDirectOnCallAPI(settings) /\ Valid(settings)
  /\ main = "client" \/ discovery # "idle" =>
       UsesDirectOnCallAPI(settings) \/ ParsePluginPreference(RawPreference(settings)) # {}
  /\ main \in {"transport", "serving"} =>
       registered = {t \in OnCallTools : ShouldRegisterTool(readOnly, t)}

ClientInv ==
  /\ client = "direct-api" => UsesDirectOnCallAPI(settings)
  /\ client \in Plugins => discovery = "selected" /\ client = plugin

IInv == TypeOK /\ ProbeInv /\ ChoiceInv /\ MainInv /\ ClientInv

-----------------------------------------------------------------------------
(***************************************************************************)
(* The pure parts.                                                         *)
(***************************************************************************)

(* The gate lets exactly the read tools through in read-only mode, and all *)
(* tools otherwise.                                                        *)
LEMMA Gate ==
  ASSUME NEW enabled \in BOOLEAN
  PROVE  {t \in OnCallTools : ShouldRegisterTool(enabled, t)} =
           IF enabled THEN ReadTools ELSE OnCallTools
<1>1. WriteTools = writeToolNames
  BY DEF WriteTools, writeToolNames
<1>2. \A t \in ReadTools : t \notin WriteTools
  BY DEF ReadTools, WriteTools
<1>. QED
  BY <1>1, <1>2, Zenon DEF OnCallTools, ShouldRegisterTool, IsWriteTool

(* What is chosen is up.                                                   *)
LEMMA ChosenIsUp == Chosen(pref, Up) \subseteq Up /\ Up \subseteq Plugins
  BY DEF Chosen, Up, Plugins

(* The base URLs are normal ones.                                          *)
LEMMA URLTypes ==
  ASSUME NEW raw \in RawURLs
  PROVE  irmBaseURL(raw) \in RawURLs
  BY DEF irmBaseURL, RawURLs

(* The selection of SelectPlugin and the refusal of SelectNone are in the  *)
(* table.                                                                  *)
LEMMA SelectionInTable ==
  ASSUME pref \in Preferences, result \in [Plugins -> Results]
  PROVE  LET is(p) == IF result[p] = "installed" THEN "up" ELSE "down"
         IN /\ \A c \in Chosen(pref, Up) :
                 <<pref, is("oncall-app"), is("irm"), c>> \in PrecedenceTable
            /\ Chosen(pref, Up) = {} =>
                 <<pref, is("oncall-app"), is("irm"), RefusalCode(pref)>> \in PrecedenceTable
<1>1. Plugins = {"oncall-app", "irm"}
  BY DEF Plugins
<1>2. pref \in {"oncall-app", "irm", "unset"}
  BY DEF Preferences, Plugins
<1>3. CASE result["oncall-app"] = "installed" /\ result["irm"] = "installed"
  <2>1. Up = {"oncall-app", "irm"}
    BY <1>1, <1>3 DEF Up
  <2>. QED
    BY <1>2, <1>3, <2>1 DEF Chosen, PrecedenceTable, RefusalCode
<1>4. CASE result["oncall-app"] = "installed" /\ result["irm"] # "installed"
  <2>1. Up = {"oncall-app"}
    BY <1>1, <1>4 DEF Up
  <2>. QED
    BY <1>2, <1>4, <2>1 DEF Chosen, PrecedenceTable, RefusalCode
<1>5. CASE result["oncall-app"] # "installed" /\ result["irm"] = "installed"
  <2>1. Up = {"irm"}
    BY <1>1, <1>5 DEF Up
  <2>. QED
    BY <1>2, <1>5, <2>1 DEF Chosen, PrecedenceTable, RefusalCode
<1>6. CASE result["oncall-app"] # "installed" /\ result["irm"] # "installed"
  <2>1. Up = {}
    BY <1>1, <1>6 DEF Up
  <2>. QED
    BY <1>2, <1>6, <2>1 DEF Chosen, PrecedenceTable, RefusalCode
<1>. QED
  BY <1>3, <1>4, <1>5, <1>6

-----------------------------------------------------------------------------
(* The process starts with nothing decided.                                *)
LEMMA InitInv == Init => IInv
<1> SUFFICES ASSUME Init PROVE IInv
  OBVIOUS
<1>1. TypeOK
  BY DEF Init, SelectionInit, TypeOK, SelectionTypeOK, ProbePhases, Results, RawURLs,
         Preferences, OnCallTools
<1>2. ProbeInv
  BY DEF Init, SelectionInit, ProbeInv
<1>3. ChoiceInv
  BY DEF Init, SelectionInit, ChoiceInv, SelectionFollowsTable
<1>4. MainInv
  BY DEF Init, SelectionInit, MainInv
<1>5. ClientInv
  BY DEF Init, ClientInv, Plugins
<1>. QED
  BY <1>1, <1>2, <1>3, <1>4, <1>5 DEF IInv

(* main before the discovery: the configuration and the preference.        *)
LEMMA ConfigInv ==
  IInv /\ UNCHANGED settings /\ (LoadConfig \/ ParsePreference) => IInv'
<1> SUFFICES ASSUME IInv, UNCHANGED settings, LoadConfig \/ ParsePreference PROVE IInv'
  OBVIOUS
<1>1. CASE LoadConfig
  <2>1. readOnly' \in BOOLEAN
    BY <1>1, Zenon DEF LoadConfig, OnCallReadOnly, ParseBoolEnv
  <2>2. TypeOK'
    BY <1>1, <2>1 DEF LoadConfig, Exit, IInv, TypeOK, SelectionTypeOK, selectionVars,
                      probeVars, outcomeVars
  <2>3. UNCHANGED <<client, registered, pref, hosted, probe, result, onCallURL, discovery,
                    plugin, baseURL, refusal>>
    BY <1>1 DEF LoadConfig, selectionVars, probeVars, outcomeVars
  <2>4. ProbeInv' /\ ChoiceInv' /\ ClientInv'
    BY <2>3 DEF IInv, ProbeInv, ChoiceInv, SelectionFollowsTable, ClientInv,
                UsesDirectOnCallAPI
  <2>5. readOnly' <=> OnCallReadOnly(settings)'
    BY <1>1, Zenon DEF LoadConfig
  <2>6. /\ discovery = "idle" /\ main = "load"
        /\ \/ main' = "wire" /\ exit' = exit /\ Valid(settings)
           \/ main' = "exited"
    BY <1>1 DEF LoadConfig, Exit, IInv, MainInv
  <2>7. /\ Valid(settings)' <=> Valid(settings)
        /\ ParsePluginPreference(RawPreference(settings))' =
             ParsePluginPreference(RawPreference(settings))
        /\ UsesDirectOnCallAPI(settings)' <=> UsesDirectOnCallAPI(settings)
    BY Zenon
  <2>8. MainInv'
    BY <2>3, <2>5, <2>6, <2>7 DEF IInv, MainInv
  <2>. QED
    BY <2>2, <2>4, <2>8 DEF IInv
<1>2. CASE ParsePreference
  <2>1. /\ UNCHANGED <<readOnly, client, registered, hosted, probe, result, onCallURL,
                       discovery, plugin, baseURL, refusal>>
        /\ main = "wire"
        /\ discovery = "idle"
    BY <1>2 DEF ParsePreference, probeVars, outcomeVars, IInv, MainInv
  <2>2. \/ main' = "client" /\ exit' = exit
        \/ main' = "exited" /\ exit' = "INVALID_CONFIG"
    BY <1>2 DEF ParsePreference, Exit
  <2>8. main' = "client" =>
          UsesDirectOnCallAPI(settings) \/ ParsePluginPreference(RawPreference(settings)) # {}
    BY <1>2, Zenon DEF ParsePreference, Exit
  <2>3. pref' \in Preferences
    BY <1>2 DEF ParsePreference, ParsePluginPreference, Preferences, IInv, TypeOK, SelectionTypeOK
  <2>4. TypeOK'
    BY <2>1, <2>2, <2>3 DEF IInv, TypeOK, SelectionTypeOK
  <2>5. ProbeInv' /\ ChoiceInv' /\ ClientInv'
    BY <2>1 DEF IInv, ProbeInv, ChoiceInv, SelectionFollowsTable, ClientInv,
                UsesDirectOnCallAPI
  <2>6. /\ Valid(settings)' <=> Valid(settings)
        /\ ParsePluginPreference(RawPreference(settings))' =
             ParsePluginPreference(RawPreference(settings))
        /\ UsesDirectOnCallAPI(settings)' <=> UsesDirectOnCallAPI(settings)
        /\ OnCallReadOnly(settings)' <=> OnCallReadOnly(settings)
    BY Zenon
  <2>7. MainInv'
    BY <2>1, <2>2, <2>6, <2>8 DEF IInv, MainInv
  <2>. QED
    BY <2>4, <2>5, <2>7 DEF IInv
<1>. QED
  BY <1>1, <1>2

(* main once the plugin is selected, or without a discovery: the client,   *)
(* the tools, the transport and the end of Serve.                          *)
LEMMA MainStepsInv ==
  ASSUME IInv, UNCHANGED settings,
         \/ DirectClient \/ PluginClient \/ ClientFails \/ AddOnCallTools
         \/ ParseTransport \/ ServeReturns \/ Settled
  PROVE  IInv'
<1>1. UNCHANGED <<readOnly, pref, hosted, probe, result, onCallURL, discovery, plugin,
                  baseURL, refusal>>
  BY DEF DirectClient, PluginClient, ClientFails, AddOnCallTools, ParseTransport,
         ServeReturns, Settled, mainVars, selectionVars, probeVars, outcomeVars
<1>2. ProbeInv' /\ ChoiceInv'
  BY <1>1 DEF IInv, ProbeInv, ChoiceInv, SelectionFollowsTable
<1>3. SelectionTypeOK' /\ settings' \in Settings /\ readOnly' \in BOOLEAN
  BY <1>1, Zenon DEF IInv, TypeOK, SelectionTypeOK
<1>4. /\ Valid(settings)' <=> Valid(settings)
      /\ ParsePluginPreference(RawPreference(settings))' =
           ParsePluginPreference(RawPreference(settings))
      /\ UsesDirectOnCallAPI(settings)' <=> UsesDirectOnCallAPI(settings)
      /\ OnCallReadOnly(settings)' <=> OnCallReadOnly(settings)
  BY Zenon
<1>5. CASE DirectClient
  <2>1. /\ client' = "direct-api" /\ main = "client" /\ main' = "tools"
        /\ UNCHANGED <<exit, registered>>
        /\ UsesDirectOnCallAPI(settings)
    BY <1>5 DEF DirectClient
  <2>2. TypeOK'
    BY <1>3, <2>1 DEF IInv, TypeOK
  <2>3. MainInv'
    BY <1>1, <1>4, <2>1 DEF IInv, MainInv
  <2>4. ClientInv'
    BY <1>4, <2>1 DEF ClientInv, Plugins
  <2>. QED
    BY <1>2, <2>2, <2>3, <2>4 DEF IInv
<1>6. CASE PluginClient
  <2>1. /\ client' = plugin /\ main = "client" /\ main' = "tools"
        /\ UNCHANGED <<exit, registered>>
        /\ discovery = "selected"
        /\ plugin \in Plugins
    BY <1>6 DEF PluginClient, IInv, ChoiceInv
  <2>2. TypeOK'
    BY <1>3, <2>1 DEF IInv, TypeOK
  <2>3. plugin # "none" /\ plugin # "direct-api"
    BY <2>1 DEF Plugins
  <2>4. MainInv'
    BY <1>1, <1>4, <2>1, <2>3 DEF IInv, MainInv
  <2>5. ClientInv'
    BY <1>1, <2>1, <2>3 DEF ClientInv
  <2>. QED
    BY <1>2, <2>2, <2>4, <2>5 DEF IInv
<1>7. CASE ClientFails
  <2>1. /\ main' = "exited" /\ exit' = "STARTUP_HEALTH_CHECK_FAILED"
        /\ UNCHANGED <<client, registered>>
    BY <1>7 DEF ClientFails, Exit
  <2>2. TypeOK'
    BY <1>3, <2>1 DEF IInv, TypeOK
  <2>3. MainInv'
    BY <1>1, <1>4, <2>1 DEF IInv, MainInv
  <2>4. ClientInv'
    BY <1>1, <1>4, <2>1 DEF IInv, ClientInv
  <2>. QED
    BY <1>2, <2>2, <2>3, <2>4 DEF IInv
<1>8. CASE AddOnCallTools
  <2>1. /\ registered' = {t \in OnCallTools : ShouldRegisterTool(readOnly, t)}
        /\ main = "tools" /\ main' = "transport"
        /\ UNCHANGED <<exit, client>>
    BY <1>8 DEF AddOnCallTools
  <2>2. registered' \subseteq OnCallTools
    BY <2>1, Zenon
  <2>3. TypeOK'
    BY <1>3, <2>1, <2>2 DEF IInv, TypeOK
  <2>4. registered' = {t \in OnCallTools : ShouldRegisterTool(readOnly, t)}'
    BY <1>1, <2>1, Zenon
  <2>5. MainInv'
    BY <1>1, <1>4, <2>1, <2>4 DEF IInv, MainInv
  <2>6. ClientInv'
    BY <1>1, <1>4, <2>1 DEF IInv, ClientInv
  <2>. QED
    BY <1>2, <2>3, <2>5, <2>6 DEF IInv
<1>9. CASE ParseTransport \/ ServeReturns
  <2>1. /\ main \in {"transport", "serving"}
        /\ \/ main' = "serving" /\ exit' = exit
           \/ main' = "exited" /\ exit' \in {"", "unstructured"}
        /\ UNCHANGED <<client, registered>>
    BY <1>9 DEF ParseTransport, ServeReturns, Exit
  <2>2. TypeOK'
    BY <1>3, <2>1 DEF IInv, TypeOK
  <2>3. {t \in OnCallTools : ShouldRegisterTool(readOnly, t)}' =
          {t \in OnCallTools : ShouldRegisterTool(readOnly, t)}
    BY <1>1, Zenon
  <2>4. MainInv'
    BY <1>1, <1>4, <2>1, <2>3 DEF IInv, MainInv
  <2>5. ClientInv'
    BY <1>1, <1>4, <2>1 DEF IInv, ClientInv
  <2>. QED
    BY <1>2, <2>2, <2>4, <2>5 DEF IInv
<1>10. CASE Settled
  <2>1. UNCHANGED <<main, exit, client, registered>>
    BY <1>10 DEF Settled, mainVars
  <2>2. TypeOK'
    BY <1>3, <2>1 DEF IInv, TypeOK
  <2>3. {t \in OnCallTools : ShouldRegisterTool(readOnly, t)}' =
          {t \in OnCallTools : ShouldRegisterTool(readOnly, t)}
    BY <1>1, Zenon
  <2>4. MainInv'
    BY <1>1, <1>4, <2>1, <2>3 DEF IInv, MainInv
  <2>5. ClientInv'
    BY <1>1, <1>4, <2>1 DEF IInv, ClientInv
  <2>. QED
    BY <1>2, <2>2, <2>4, <2>5 DEF IInv
<1>. QED
  BY <1>5, <1>6, <1>7, <1>8, <1>9, <1>10

(* The discovery: its start, the two goroutines, the selection.            *)
LEMMA DiscoveryInv ==
  ASSUME IInv, UNCHANGED settings, Discover \/ DiscoveryStep
  PROVE  IInv'
<1>1. UNCHANGED <<main, exit, readOnly, client, registered>>
  BY DEF Discover, DiscoveryStep, mainVars
<1>2. /\ Valid(settings)' <=> Valid(settings)
      /\ ParsePluginPreference(RawPreference(settings))' =
           ParsePluginPreference(RawPreference(settings))
      /\ UsesDirectOnCallAPI(settings)' <=> UsesDirectOnCallAPI(settings)
      /\ OnCallReadOnly(settings)' <=> OnCallReadOnly(settings)
      /\ {t \in OnCallTools : ShouldRegisterTool(readOnly, t)}' =
           {t \in OnCallTools : ShouldRegisterTool(readOnly, t)}
  BY <1>1, Zenon
<1>3. ASSUME SelectionTypeOK'
      PROVE  TypeOK'
  BY <1>1, <1>3 DEF IInv, TypeOK
<1>4. /\ pref \in Preferences /\ hosted \in SUBSET Plugins
      /\ probe \in [Plugins -> ProbePhases] /\ result \in [Plugins -> Results]
  BY DEF IInv, TypeOK, SelectionTypeOK
<1>5. CASE Discover
  <2>1. /\ main = "client" /\ ~UsesDirectOnCallAPI(settings)
        /\ discovery = "idle" /\ discovery' = "probing"
        /\ probe' = [p \in Plugins |-> "out"]
        /\ UNCHANGED <<pref, hosted, result, onCallURL, plugin, baseURL, refusal>>
    BY <1>5 DEF Discover, ProbeBoth
  <2>2. SelectionTypeOK'
    BY <2>1 DEF IInv, TypeOK, SelectionTypeOK, ProbePhases
  <2>3. ProbeInv'
    BY <2>1 DEF IInv, ProbeInv
  <2>4. ChoiceInv'
    BY <2>1 DEF ChoiceInv, SelectionFollowsTable
  <2>5. MainInv' /\ ClientInv'
    BY <1>1, <1>2, <2>1 DEF IInv, MainInv, ClientInv
  <2>. QED
    BY <1>3, <2>2, <2>3, <2>4, <2>5 DEF IInv
<1>6. CASE SelectPlugin /\ UNCHANGED mainVars
  <2>1. PICK p \in Chosen(pref, Up) :
          /\ plugin' = p
          /\ baseURL' = IF p = "irm" THEN irmBaseURL(onCallURL) ELSE legacyBaseURL
    BY <1>6 DEF SelectPlugin
  <2>2. /\ discovery = "probing" /\ discovery' = "selected"
        /\ \A q \in Plugins : probe[q] = "done"
        /\ UNCHANGED <<pref, hosted, probe, result, onCallURL, refusal>>
    BY <1>6 DEF SelectPlugin, Joined, probeVars
  <2>3. p \in Plugins /\ result[p] = "installed"
    BY <2>1, ChosenIsUp DEF Up
  <2>4. baseURL' \in RawURLs \cup {legacyBaseURL}
    <3>1. irmBaseURL(onCallURL) \in RawURLs
      BY URLTypes DEF IInv, TypeOK, SelectionTypeOK
    <3>. QED
      BY <2>1, <3>1
  <2>5. SelectionTypeOK'
    BY <2>1, <2>2, <2>3, <2>4 DEF IInv, TypeOK, SelectionTypeOK
  <2>6. ProbeInv'
    BY <2>2 DEF IInv, ProbeInv
  <2>7. SelectionFollowsTable'
    <3>1. <<pref, IF result["oncall-app"] = "installed" THEN "up" ELSE "down",
            IF result["irm"] = "installed" THEN "up" ELSE "down", p>> \in PrecedenceTable
      BY <1>4, <2>1, SelectionInTable
    <3>. QED
      BY <2>1, <2>2, <3>1 DEF SelectionFollowsTable
  <2>8. ChoiceInv'
    BY <2>1, <2>2, <2>3, <2>7 DEF ChoiceInv
  <2>9. MainInv' /\ ClientInv'
    BY <1>1, <1>2, <2>2 DEF IInv, MainInv, ClientInv
  <2>. QED
    BY <1>3, <2>5, <2>6, <2>8, <2>9 DEF IInv
<1>7. CASE SelectNone /\ UNCHANGED mainVars
  <2>1. /\ discovery = "probing" /\ discovery' = "failed"
        /\ \A q \in Plugins : probe[q] = "done"
        /\ Chosen(pref, Up) = {}
        /\ refusal' = RefusalCode(pref)
        /\ UNCHANGED <<pref, hosted, probe, result, onCallURL, plugin, baseURL>>
    BY <1>7 DEF SelectNone, Joined, probeVars
  <2>2. SelectionTypeOK'
    BY <2>1 DEF IInv, TypeOK, SelectionTypeOK, RefusalCode
  <2>3. ProbeInv'
    BY <2>1 DEF IInv, ProbeInv
  <2>4. SelectionFollowsTable'
    <3>1. <<pref, IF result["oncall-app"] = "installed" THEN "up" ELSE "down",
            IF result["irm"] = "installed" THEN "up" ELSE "down",
            RefusalCode(pref)>> \in PrecedenceTable
      BY <1>4, <2>1, SelectionInTable
    <3>. QED
      BY <2>1, <3>1 DEF SelectionFollowsTable
  <2>5. ChoiceInv'
    BY <2>1, <2>4 DEF ChoiceInv
  <2>6. MainInv' /\ ClientInv'
    BY <1>1, <1>2, <2>1 DEF IInv, MainInv, ClientInv
  <2>. QED
    BY <1>3, <2>2, <2>3, <2>5, <2>6 DEF IInv
<1>8. ASSUME NEW p \in Plugins, UNCHANGED <<pref, hosted, discovery, plugin, baseURL, refusal>>,
             probe[p] \in {"out", "wrote"},
             NEW phase \in ProbePhases, probe' = [probe EXCEPT ![p] = phase],
             result' \in [Plugins -> Results], onCallURL' \in RawURLs,
             \A q \in Plugins : result'[q] = "installed" => q \in hosted
      PROVE  IInv'
  <2>1. discovery \notin {"idle", "selected", "failed"}
    BY <1>8 DEF IInv, ProbeInv
  <2>2. probe' \in [Plugins -> ProbePhases]
    BY <1>4, <1>8
  <2>3. SelectionTypeOK'
    BY <1>8, <2>2 DEF IInv, TypeOK, SelectionTypeOK
  <2>4. ProbeInv'
    BY <1>8, <2>1 DEF ProbeInv
  <2>5. ChoiceInv'
    BY <1>8, <2>1 DEF ChoiceInv, SelectionFollowsTable
  <2>6. MainInv' /\ ClientInv'
    BY <1>1, <1>2, <1>8 DEF IInv, MainInv, ClientInv
  <2>. QED
    BY <1>3, <2>3, <2>4, <2>5, <2>6 DEF IInv
<1>9. onCallURL \in RawURLs /\ \A q \in Plugins : result[q] = "installed" => q \in hosted
  BY DEF IInv, TypeOK, SelectionTypeOK, ProbeInv
<1>10. ASSUME NEW p \in Plugins, NEW r \in Results, Store(p, r), onCallURL' \in RawURLs,
              r = "installed" => p \in hosted
       PROVE  IInv'
  <2>1. /\ probe[p] = "out" /\ probe' = [probe EXCEPT ![p] = "wrote"]
        /\ result' = [result EXCEPT ![p] = r]
        /\ UNCHANGED <<pref, hosted, discovery, plugin, baseURL, refusal>>
    BY <1>10 DEF Store, outcomeVars
  <2>2. /\ result' \in [Plugins -> Results]
        /\ \A q \in Plugins : result'[q] = "installed" => q \in hosted
    BY <1>4, <1>9, <1>10, <2>1
  <2>3. "wrote" \in ProbePhases
    BY DEF ProbePhases
  <2>. QED
    BY <1>8, <1>10, <2>1, <2>2, <2>3
<1>11. ASSUME NEW p \in Plugins, ProbeDone(p)
       PROVE  IInv'
  <2>1. /\ probe[p] = "wrote" /\ probe' = [probe EXCEPT ![p] = "done"]
        /\ UNCHANGED <<result, onCallURL, pref, hosted, discovery, plugin, baseURL, refusal>>
    BY <1>11 DEF ProbeDone, outcomeVars
  <2>2. "done" \in ProbePhases
    BY DEF ProbePhases
  <2>. QED
    BY <1>4, <1>8, <1>9, <2>1, <2>2
<1>12. ASSUME NEW p \in Plugins,
              ProbeFinds(p) \/ ProbeMisses(p) \/ ProbeErrs(p) \/ ProbeTimesOut(p)
       PROVE  IInv'
  <2>1. PICK r \in Results : /\ Store(p, r)
                             /\ r = "installed" => p \in hosted
    BY <1>12 DEF ProbeFinds, ProbeMisses, ProbeErrs, ProbeTimesOut, Results
  <2>2. onCallURL' \in RawURLs
    BY <1>9, <1>12 DEF ProbeFinds, ProbeMisses, ProbeErrs, ProbeTimesOut
  <2>. QED
    BY <1>10, <2>1, <2>2
<1>. QED
  BY <1>5, <1>6, <1>7, <1>11, <1>12 DEF DiscoveryStep, SelectionStep

(* Every step keeps the invariant.                                         *)
LEMMA NextInv == IInv /\ [Next]_vars => IInv'
<1> SUFFICES ASSUME IInv, [Next]_vars PROVE IInv'
  OBVIOUS
<1>1. CASE UNCHANGED vars
  <2>1. UNCHANGED <<settings, main, exit, readOnly, client, registered, pref, hosted, probe,
                    result, onCallURL, discovery, plugin, baseURL, refusal>>
    BY <1>1 DEF vars, mainVars, selectionVars, probeVars, outcomeVars
  <2>2. TypeOK'
    <3>1. SelectionTypeOK' /\ settings' \in Settings /\ readOnly' \in BOOLEAN
      BY <2>1, Zenon DEF IInv, TypeOK, SelectionTypeOK
    <3>. QED
      BY <2>1, <3>1 DEF IInv, TypeOK
  <2>3. ProbeInv' /\ ChoiceInv'
    BY <2>1 DEF IInv, ProbeInv, ChoiceInv, SelectionFollowsTable
  <2>4. /\ Valid(settings)' <=> Valid(settings)
        /\ ParsePluginPreference(RawPreference(settings))' =
             ParsePluginPreference(RawPreference(settings))
        /\ UsesDirectOnCallAPI(settings)' <=> UsesDirectOnCallAPI(settings)
        /\ OnCallReadOnly(settings)' <=> OnCallReadOnly(settings)
        /\ {t \in OnCallTools : ShouldRegisterTool(readOnly, t)}' =
             {t \in OnCallTools : ShouldRegisterTool(readOnly, t)}
    BY <2>1, Zenon
  <2>5. MainInv' /\ ClientInv'
    BY <2>1, <2>4 DEF IInv, MainInv, ClientInv
  <2>. QED
    BY <2>2, <2>3, <2>5 DEF IInv
<1>2. CASE Next
  BY <1>2, ConfigInv, MainStepsInv, DiscoveryInv DEF Next, MainStep
<1>. QED
  BY <1>1, <1>2

(* The invariant holds throughout.                                         *)
THEOREM Invariance == Spec => []IInv
  BY InitInv, NextInv, PTL DEF Spec

-----------------------------------------------------------------------------
(***************************************************************************)
(* The theorems.                                                           *)
(***************************************************************************)

(* Every variable keeps its type.                                          *)
THEOREM TypeCorrect == Spec => []TypeOK
<1>1. IInv => TypeOK
  BY DEF IInv
<1>. QED
  BY Invariance, <1>1, PTL

(* In every interleaving of the two probes the selection is the table's.   *)
THEOREM FollowsTable == Spec => []SelectionFollowsTable
<1>1. IInv => SelectionFollowsTable
  BY DEF IInv, ChoiceInv
<1>. QED
  BY Invariance, <1>1, PTL

(* What is served was configured completely, and was found by its probe ... *)
LEMMA FoundIsServed == IInv => ServesOnlyWhatWasFound
<1> SUFFICES ASSUME IInv, main = "serving" PROVE
      /\ client # "none"
      /\ client = "direct-api" => settings.direct = "both"
      /\ client # "direct-api" =>
           /\ settings.direct = "neither" /\ settings.token # "missing"
           /\ settings.grafanaURL = "https"
           /\ client \in hosted /\ result[client] = "installed"
  BY DEF ServesOnlyWhatWasFound
<1>1. client # "none" /\ Valid(settings)
  BY DEF IInv, MainInv
<1>2. ASSUME client = "direct-api" PROVE settings.direct = "both"
  BY <1>1, <1>2 DEF IInv, ClientInv, Valid, UsesDirectOnCallAPI
<1>3. ASSUME client # "direct-api"
      PROVE  /\ settings.direct = "neither" /\ settings.token # "missing"
             /\ settings.grafanaURL = "https"
             /\ client \in hosted /\ result[client] = "installed"
  <2>1. client \in Plugins
    BY <1>1, <1>3 DEF IInv, TypeOK
  <2>2. discovery = "selected" /\ client = plugin
    BY <2>1 DEF IInv, ClientInv
  <2>3. ~UsesDirectOnCallAPI(settings)
    BY <2>2 DEF IInv, MainInv
  <2>4. client \in hosted /\ result[client] = "installed"
    BY <2>1, <2>2 DEF IInv, ChoiceInv, ProbeInv
  <2>. QED
    BY <1>1, <2>3, <2>4 DEF Valid, UsesDirectOnCallAPI
<1>. QED
  BY <1>1, <1>2, <1>3

(* ... and the gate decided which tools are served.                        *)
LEMMA GateDecides == IInv => ReadOnlyIsHonoured
<1> SUFFICES ASSUME IInv, main = "serving"
             PROVE  registered = IF settings.roEnv = "true" \/ settings.roFlag = "true"
                                 THEN ReadTools ELSE OnCallTools
  BY DEF ReadOnlyIsHonoured
<1>1. /\ registered = {t \in OnCallTools : ShouldRegisterTool(readOnly, t)}
      /\ readOnly <=> OnCallReadOnly(settings)
      /\ readOnly \in BOOLEAN
  BY DEF IInv, MainInv, TypeOK
<1>2. registered = IF readOnly THEN ReadTools ELSE OnCallTools
  BY <1>1, Gate
<1>3. readOnly <=> (settings.roEnv = "true" \/ settings.roFlag = "true")
  BY <1>1, Zenon DEF OnCallReadOnly, ParseBoolEnv
<1>. QED
  BY <1>2, <1>3, Zenon

(* Only a complete configuration with a preference that parses gets as far *)
(* as the probes.                                                          *)
LEMMA SoundIsProbed == IInv => ProbesAreConfigured
<1> SUFFICES ASSUME IInv, NEW p \in Plugins, probe[p] # "idle"
             PROVE  /\ settings.direct = "neither"
                    /\ settings.grafanaURL = "https" /\ settings.token = "set"
                    /\ RawPreference(settings) \in {"", "oncall-app", " IRM "}
  BY DEF ProbesAreConfigured
<1>1. discovery # "idle"
  BY DEF IInv, ProbeInv
<1>2. ~UsesDirectOnCallAPI(settings) /\ MainInv
  BY <1>1 DEF IInv, MainInv
<1>3. Valid(settings) /\ ParsePluginPreference(RawPreference(settings)) # {}
  BY <1>1, <1>2 DEF MainInv
<1>4. settings.token \in {"set", "missing"}
  BY DEF IInv, TypeOK, Settings
<1>. QED
  BY <1>2, <1>3, <1>4 DEF Valid, UsesDirectOnCallAPI, ParsePluginPreference

(* The selection is not made before both probes are over, and nothing else *)
(* writes what it was made from.                                           *)
LEMMA SelectionStands ==
  ASSUME IInv, [Next]_vars, discovery = "selected"
  PROVE  UNCHANGED <<plugin, baseURL, result, onCallURL>>
<1> SUFFICES ASSUME Next
             PROVE  UNCHANGED <<plugin, baseURL, result, onCallURL>>
  BY DEF vars, selectionVars, probeVars, outcomeVars
<1>1. \A p \in Plugins : probe[p] = "done"
  BY DEF IInv, ProbeInv
<1>2. CASE MainStep \/ ServeReturns \/ Settled
  BY <1>2 DEF MainStep, LoadConfig, ParsePreference, DirectClient, Discover, ProbeBoth,
              PluginClient, ClientFails, AddOnCallTools, ParseTransport, ServeReturns,
              Settled, selectionVars, probeVars, outcomeVars
<1>3. CASE DiscoveryStep
  BY <1>1, <1>3 DEF DiscoveryStep, SelectionStep, SelectPlugin, SelectNone, ProbeFinds,
              ProbeMisses, ProbeErrs, ProbeTimesOut, ProbeDone, Store
<1>. QED
  BY <1>2, <1>3 DEF Next

(* What main serves is what was found.                                     *)
THEOREM ServesFound == Spec => []ServesOnlyWhatWasFound
  BY FoundIsServed, Invariance, PTL

(* Read-only mode lists the read tools and nothing else.                   *)
THEOREM HonoursReadOnly == Spec => []ReadOnlyIsHonoured
  BY GateDecides, Invariance, PTL

(* Grafana is asked nothing before the settings were found to be sound.    *)
THEOREM Configured == Spec => []ProbesAreConfigured
  BY SoundIsProbed, Invariance, PTL

(* A selection stands: both probes are over when it is made, and nothing   *)
(* else writes what it was made from.                                      *)
THEOREM Final == Spec => SelectionIsFinal
<1>1. IInv /\ [Next]_vars =>
        [discovery = "selected" => UNCHANGED <<plugin, baseURL, result, onCallURL>>]_vars
  BY SelectionStands
<1>. QED
  BY Invariance, <1>1, PTL DEF Spec, SelectionIsFinal

=================================================================================
