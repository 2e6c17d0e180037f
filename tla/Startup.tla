------------------------------ MODULE Startup ------------------------------
(***************************************************************************)
(* One process and what it holds in memory of the files it started from:   *)
(* the cached settings and those the application serves, the extensions,   *)
(* the channel names, the instances, a shared asset registry, the hydrated *)
(* profiles, the tool policy and the teams. Somebody edits the files while *)
(* the process lives. A call that raises changes nothing unless an action  *)
(* says so. A behaviour makes the calls of one session only.               *)
(***************************************************************************)
EXTENDS Profiles, Teams

CONSTANTS
  Starts,       \* the files at the start, and bounds: the calls the process
                \* makes, the contents that edits give to the files
  Extensions,   \* extensions that are registered one by one
  Declared,     \* lists of declarations that load_declared is given
  ChannelNames, \* names that channel providers register
  Presets,      \* policy presets
  Overrides,    \* overrides of a preset
  ToolSets,     \* lists of tool providers
  MaxErrors,    \* bound: errors of the shared registry
  MaxInvokes    \* bound: tool invocations

\* The files of a directory, the filters of a profile and rules are lists.
IsList(s) == Len(s) \in Nat /\ DOMAIN s = 1..Len(s)

FilesAreLists(w) ==
  /\ w.assets # None => IsList(w.assets)
  /\ w.profiles # None =>
       \A p \in DOMAIN w.profiles :
         w.profiles[p].form = "mapping" => IsList(w.profiles[p].asset_filters)

ASSUME FilesAssumption ==
  \A start \in Starts : \A w \in {start.files} \cup start.edits : FilesAreLists(w)

ASSUME PoliciesAssumption ==
  \A preset \in Presets :
    /\ preset = [default |-> preset.default, rules |-> preset.rules]
    /\ IsList(preset.rules)

ASSUME OverridesAssumption ==
  \A override \in Overrides : IsList(override.rules)

VARIABLES
  ws,         \* the files
  session,    \* how this process started
  cached,     \* the slot of get_app_config
  served,     \* app.state.settings
  extensions, \* ExtensionRegistry: a name to its extension
  channels,   \* _CHANNEL_REGISTRY
  instances,  \* the last registry of instances that was loaded
  registry,   \* an AssetRegistry that the caller keeps
  awaited,    \* has asyncio_run_once run a coroutine
  view,       \* how the last hydration of a profile ended
  policy,     \* the policy with its preset and its override
  invoked     \* tool invocations behind the approval hook

fileVars == <<ws, session>>
configVars == <<cached, served, instances>>
extensionVars == <<extensions, channels>>
assetVars == <<registry, awaited, view>>
policyVars == <<policy, invoked>>
vars == <<ws, session, cached, served, instances, extensions, channels, registry, awaited,
          view, policy, invoked, agents, teams, item, reports>>

Packs == {"ea", "coding"}

Call(name) == name \in session.calls /\ UNCHANGED session

-----------------------------------------------------------------------------
(* Files and settings                                                      *)

Edit(w) ==
  /\ Call("edit") /\ w # ws
  /\ ws' = w
  /\ UNCHANGED <<configVars, extensionVars, assetVars, policyVars, teamVars>>

\* create_app without settings: get_app_config keeps its first success, and
\* what it keeps is not compared with the files again.
CreateApp ==
  /\ Call("app")
  /\ LET settings == IF cached # None THEN cached ELSE AppConfig(ws)
     IN ~Fails(settings) /\ cached' = settings /\ served' = settings
  /\ UNCHANGED <<ws, instances, extensionVars, assetVars, policyVars, teamVars>>

\* clear_app_config_cache
ClearCache ==
  /\ Call("app") /\ cached # None
  /\ cached' = None
  /\ UNCHANGED <<ws, served, instances, extensionVars, assetVars, policyVars, teamVars>>

LoadInstances ==
  /\ Call("app") /\ ~Fails(InstanceRegistry(ws, channels))
  /\ instances' = InstanceRegistry(ws, channels)
  /\ UNCHANGED <<ws, cached, served, extensionVars, assetVars, policyVars, teamVars>>

-----------------------------------------------------------------------------
(* Extensions and channels                                                 *)

RegisterChannel(name) ==
  /\ Call("app")
  /\ channels' = channels \cup {name}
  /\ UNCHANGED <<ws, configVars, extensions, assetVars, policyVars, teamVars>>

\* Mutant: an extension replaces the one of its name.
WithExtensionReplaced(known, ext) ==
  [n \in DOMAIN known \cup {ext.name} |-> IF n = ext.name THEN ext ELSE known[n]]

\* register: the first one of a name stays, also against one of the same
\* version with other capabilities.
WithExtension(known, ext) ==
  [n \in DOMAIN known \cup {ext.name} |-> IF n \in DOMAIN known THEN known[n] ELSE ext]

RegisterExtension(ext) ==
  /\ Call("extend")
  /\ extensions' = WithExtension(extensions, ext)
  /\ UNCHANGED <<ws, configVars, channels, assetVars, policyVars, teamVars>>

\* load_declared: a declaration without a factory, or whose extension refuses
\* its configuration, is reported at the end; the others are registered one by
\* one, and the first of a name stays.
LoadDeclared(declared) ==
  /\ Call("extend")
  /\ LET loads == {i \in DOMAIN declared : declared[i].factory /\ declared[i].config_valid}
         of(n) == {i \in loads : declared[i].extension.name = n}
         first(n) == CHOOSE i \in of(n) : \A j \in of(n) : i <= j
     IN extensions' =
          [n \in DOMAIN extensions \cup {declared[i].extension.name : i \in loads} |->
             IF n \in DOMAIN extensions THEN extensions[n] ELSE declared[first(n)].extension]
  /\ UNCHANGED <<ws, configVars, channels, assetVars, policyVars, teamVars>>

-----------------------------------------------------------------------------
(* Hydration                                                               *)

\* load_from_dir on the registry that the caller keeps, also if it raises.
LoadAssets ==
  /\ session.calls \cap {"hydrate", "team"} # {} /\ UNCHANGED session
  /\ Len(registry.errors) < MaxErrors
  /\ registry' = LoadFromDir(registry, ws.assets)
  /\ UNCHANGED <<ws, configVars, extensionVars, awaited, view, policyVars, teamVars>>

\* The descriptor of the profile's own file. Keys that ProfileDescriptor does
\* not have are not seen here.
HydratedDescriptorValid(p) ==
  /\ ws.profiles # None /\ p \in DOMAIN ws.profiles
  /\ LET doc == ws.profiles[p]
     IN /\ doc.form = "mapping"
        /\ ProvidersValid(doc.required_providers) /\ DescriptorValid(doc)
        /\ Strip(doc.id) = [word |-> p, style |-> "plain"]

Refused(p, why, filters) ==
  [profile |-> p, ok |-> FALSE, why |-> why, assets |-> <<>>, source |-> None, dir |-> None,
   filters |-> filters, needs |-> {}]

View(p, reg, resolved, checked) ==
  LET doc == ws.profiles[p]
  IN [profile |-> p, ok |-> TRUE, why |-> "", source |-> reg, dir |-> None,
      assets |-> IF doc.asset_filters = <<>> THEN <<>> ELSE resolved,
      filters |-> doc.asset_filters,
      needs |-> IF checked THEN Slots(doc.required_providers) ELSE {}]

\* hydrate_ea_profile and hydrate_coding_profile with the registry reg;
\* checked says that an extension registry was passed. Only the EA profile
\* checks its providers, and only it insists on an asset. An expression that
\* from_dict refuses raises out of both, if the registry has no errors.
Outcome(p, reg, checked) ==
  LET doc      == ws.profiles[p]
      filters  == doc.asset_filters
      resolved == ApplyFilters(reg, filters)
  IN IF ~HydratedDescriptorValid(p) THEN Refused(p, "profile", <<>>)
     ELSE IF ~Poisoned(reg) /\ (\E i \in DOMAIN filters : Malformed(filters[i]))
     THEN Refused(p, "filters", filters)
     ELSE IF checked /\ ~StartupValid(doc.required_providers, extensions)
     THEN Refused(p, "providers", filters)
     ELSE IF Poisoned(reg) THEN Refused(p, "assets", filters)
     ELSE IF p = "ea" /\ filters = <<>> THEN Refused(p, "no filters", filters)
     ELSE IF p = "ea" /\ resolved = <<>> THEN Refused(p, "none resolved", filters)
     ELSE View(p, reg, resolved, checked)

MayCheck(p) == IF p = "ea" THEN BOOLEAN ELSE {FALSE}

HydrateShared(p) ==
  /\ Call("hydrate")
  /\ \E checked \in MayCheck(p) : view' = Outcome(p, registry, checked)
  /\ UNCHANGED <<ws, configVars, extensionVars, registry, awaited, policyVars, teamVars>>

\* Without a registry the directory is loaded into a new one. Under a running
\* event loop both raise, and what the load raises they raise. asyncio_run_once
\* remembers the id of a coroutine that has run, an address that a later one
\* may have: then it does not run that one.
HydrateOwn(p) ==
  /\ Call("hydrate")
  /\ \E running \in BOOLEAN, skipped \in (IF p = "ea" /\ awaited THEN BOOLEAN ELSE {FALSE}),
        checked \in MayCheck(p) :
       LET reg == IF skipped THEN EmptyRegistry ELSE LoadFromDir(EmptyRegistry, ws.assets)
           loads == HydratedDescriptorValid(p) /\ (running \/ LoadRaises(ws.assets) => skipped)
           end == IF loads \/ ~HydratedDescriptorValid(p) THEN Outcome(p, reg, checked)
                  ELSE Refused(p, "raised", <<>>)
       IN /\ view' = [end EXCEPT !.dir = IF end.why = "none resolved" THEN ws.assets ELSE None]
          /\ awaited' = (awaited \/ (p = "ea" /\ loads))
  /\ UNCHANGED <<ws, configVars, extensionVars, registry, policyVars, teamVars>>

-----------------------------------------------------------------------------
(* Policy and tools                                                        *)

\* PolicyLoader.load, and the tool registry's validation of the result.
LoadPolicy(preset, override, providers) ==
  /\ Call("policy") /\ invoked = <<>>
  /\ CapabilitiesDistinct(providers)
  /\ LET merged == MergeOverrides(preset, override)
     IN /\ PolicyCovered(merged, providers)
        /\ policy' = [rules |-> merged.rules, default |-> merged.default, preset |-> preset,
                      override |-> override, capabilities |-> Capabilities(providers)]
  /\ UNCHANGED <<ws, configVars, extensionVars, assetVars, invoked, teamVars>>

\* before_invoke, then ToolRegistry.invoke if no approval is asked for. What is
\* neither allowed nor forbidden asks, also a default that is no decision. The
\* event of a request is named for the tool: a second one in the run raises.
Invoke(tool, action) ==
  /\ Call("policy") /\ policy # None /\ Len(invoked) < MaxInvokes
  /\ LET decision == DecisionOn(policy, tool, action)
         asked == \E i \in DOMAIN invoked : invoked[i].tool = tool /\ invoked[i].end = "asked"
         end == CASE decision = "auto-allow" ->
                       IF tool \in policy.capabilities THEN "ran" ELSE "unknown capability"
                  [] decision = "forbidden" -> "forbidden"
                  [] OTHER -> IF asked THEN "id taken" ELSE "asked"
     IN invoked' = Append(invoked, [tool |-> tool, action |-> action, end |-> end])
  /\ UNCHANGED <<ws, configVars, extensionVars, assetVars, policy, teamVars>>

-----------------------------------------------------------------------------
(* Teams                                                                   *)

Untouched == UNCHANGED <<ws, configVars, extensionVars, assetVars, policyVars>>

TeamCall ==
  /\ Call("team") /\ Untouched
  /\ \/ \E a \in DOMAIN Roles : RegisterAgent(a)
     \/ \E i \in DOMAIN registry.assets : RegisterTeam(registry.assets[i])

ItemCall ==
  /\ Call("team") /\ Untouched
  /\ \/ \E t \in teams, kind \in {t.input : t \in teams} : Accept(t, kind)
     \/ \E output \in UNION {OutputsOf(a) : a \in DOMAIN Roles} : HandOff(output)

ReportCall ==
  /\ Call("team") /\ Untouched
  /\ \E milestone \in HandoffMilestones :
       \/ \E statuses \in Statuses : ReportTeam(milestone, statuses)
       \/ \E a \in agents : ReportAgent(a, milestone, "running")

-----------------------------------------------------------------------------
Init ==
  /\ \E start \in Starts : ws = start.files /\ session = start
  /\ cached = None /\ served = None /\ instances = None
  /\ extensions = [n \in {} |-> None] /\ channels = {}
  /\ registry = EmptyRegistry /\ awaited = FALSE
  /\ view = None
  /\ policy = None /\ invoked = <<>>
  /\ TeamInit

Next ==
  \/ \E w \in session.edits : Edit(w)
  \/ CreateApp \/ ClearCache \/ LoadInstances \/ LoadAssets
  \/ \E name \in ChannelNames : RegisterChannel(name)
  \/ \E ext \in Extensions : RegisterExtension(ext)
  \/ \E declared \in Declared : LoadDeclared(declared)
  \/ \E p \in Packs : HydrateShared(p) \/ HydrateOwn(p)
  \/ \E preset \in Presets, override \in Overrides, providers \in ToolSets :
       LoadPolicy(preset, override, providers)
  \/ \E tool \in UNION {Capabilities(p) : p \in ToolSets}, action \in {"read", "write"} :
       Invoke(tool, action)
  \/ TeamCall \/ ItemCall \/ ReportCall

Spec == Init /\ [][Next]_vars

-----------------------------------------------------------------------------
(* Properties                                                              *)

\* What a filter asks of an asset, each operator in its own words
\* (assets/loader.py:74-78).
Qualifies(f, a) ==
  LET op == Lower(f.op).word
      selected == /\ f.tags \notin {None} => \A t \in f.tags : t \in a.tags
                  /\ f.required_providers \notin {None} =>
                       \A x \in f.required_providers : x \in a.providers
      tags == IF f.tags \in {None, {}} THEN f.tag ELSE f.tags
      providers == IF f.providers \in {None, {}} THEN f.provider ELSE f.providers
  IN \/ op = "include" /\ selected
     \/ op = "exclude" /\ ~selected
     \/ op = "by_tag" /\ tags # None /\ \A t \in tags : t \in a.tags
     \/ op = "by_required_provider" /\ providers # None /\ \E x \in providers : x \in a.providers

\* A hydrated profile shows, of a registry without errors, exactly the assets
\* that qualify under all of its filters, each id and kind once, in the order
\* of the registry (hydrate.py:125-139, ea/hydrate.py:136-163,
\* assets/loader.py:316-329). A file that a load of that registry has reported
\* keeps every later view from it; one that raised out of the load does not.
ViewIsFiltered ==
  (view # None /\ view.ok) =>
    LET source  == view.source.assets
        place(a) == CHOOSE i \in DOMAIN source : source[i] = a
    IN /\ view.source.errors = <<>>
       /\ view.filters # <<>> =>
            ToSet(view.assets) = {a \in ToSet(source) :
                                   \A i \in DOMAIN view.filters : Qualifies(view.filters[i], a)}
       /\ \A i, j \in DOMAIN view.assets :
            /\ i # j => KeyOf(view.assets[i]) # KeyOf(view.assets[j])
            /\ i < j => place(view.assets[i]) < place(view.assets[j])
       /\ view.profile = "ea" => view.assets # <<>>

\* What the EA profile was hydrated against stays registered: no later call of
\* the registry takes a provider away from it, replaces it or changes what it
\* can do (extensions/registry.py:30-39, profiles/loader.py:96-118).
ProvidersStay ==
  view # None => \A slot \in view.needs : Provides(extensions, slot)

\* An override rules on its tool alone: another tool is decided as the preset
\* decides it, up to the default, and on its own tool nothing of the preset is
\* left (policy/loader.py:139-178).
OverridesAreLocal ==
  policy # None =>
    LET base == [policy.preset EXCEPT !.default = policy.default]
    IN \A tool \in policy.capabilities, action \in {"read", "write"} :
         DecisionOn(policy, tool, action) =
           IF tool \notin ToolsOf(policy.override.rules) THEN DecisionOn(base, tool, action)
           ELSE LET rule == OverrideFor(policy.override.rules, tool)
                IN IF rule.action \in {None, action} THEN rule.decision ELSE policy.default

\* "Raises: ProfileHydrationError: When any validation or resolution fails"
\* (profiles/ea/hydrate.py:107-108): the EA profile that loads its own assets
\* and is refused because its filters resolve none has files of which they
\* resolve none.
RefusedForCause ==
  (view # None /\ view.dir # None) =>
    ApplyFilters(LoadFromDir(EmptyRegistry, view.dir), view.filters) = <<>>
=============================================================================
