------------------------------ MODULE Profiles ------------------------------
(***************************************************************************)
(* The files a process starts from: profile manifests, the instance        *)
(* manifest with its overlays, the application settings and the presets of *)
(* the tool policy; what each loader accepts of them and what it makes of  *)
(* it. A workspace is a record of all these files. A reference to a        *)
(* provider is a text whose word is its name and version.                  *)
(***************************************************************************)
EXTENDS Assets

Fails(value) == value = None

-----------------------------------------------------------------------------
(* Profile manifests                                                       *)

\* PROVIDER_REF_PATTERN allows lower case only.
RefValid(ref) == ref # None /\ ref.style \in {"plain", "padded"}

RefListValid(refs) ==
  /\ \A i \in DOMAIN refs : RefValid(refs[i])
  /\ NoDuplicates([i \in DOMAIN refs |-> Strip(refs[i])])

\* RequiredProviders. The tracer may be left out: "noop".
ProvidersValid(p) ==
  /\ p # None /\ ~p.odd
  /\ RefValid(p.model) /\ RefValid(p.memory) /\ RefValid(p.knowledge)
  /\ RefListValid(p.tool) /\ RefListValid(p.channel)
  /\ p.tracer # None => RefValid(p.tracer)

NoopTracer == [word |-> [name |-> "noop", version |-> None], style |-> "plain"]

\* iter_provider_slots with _required_capabilities_for_slot and
\* parse_provider_ref: what each slot needs of which provider.
Slots(p) ==
  LET slot(capability, ref) == [capability |-> capability, needs |-> Strip(ref).word]
  IN {slot("model", p.model), slot("memory", p.memory), slot("knowledge", p.knowledge),
      slot("tracer", IF p.tracer = None THEN NoopTracer ELSE p.tracer)}
     \cup {slot("tool", ref) : ref \in ToSet(p.tool)}
     \cup {slot("channel", ref) : ref \in ToSet(p.channel)}

\* ProfileDescriptor; "semver" says that the version is one.
DescriptorValid(doc) ==
  LET extensions == [i \in DOMAIN doc.extensions |-> Strip(doc.extensions[i])]
  IN /\ Said(doc.id) /\ Said(doc.display_name) /\ doc.semver
     /\ \A i \in DOMAIN doc.extensions : doc.extensions[i].style \in {"plain", "padded"}
     /\ extensions # <<>> /\ NoDuplicates(extensions)

\* _load_profile_descriptor. A key that the descriptor does not have is a
\* fault here, except asset_filters.
ProfileLoads(doc) ==
  /\ doc.form = "mapping" /\ ~doc.odd
  /\ ProvidersValid(doc.required_providers) /\ DescriptorValid(doc)

Descriptor(doc) == [id |-> Strip(doc.id), providers |-> doc.required_providers]

\* load_profiles: all the manifests or none. dir maps the directories under
\* profiles/ to their profile.yaml.
ProfileRegistry(dir) ==
  IF /\ dir # None
     /\ \A d \in DOMAIN dir : ProfileLoads(dir[d])
     /\ \A d, e \in DOMAIN dir : Strip(dir[d].id) = Strip(dir[e].id) => d = e
  THEN {Descriptor(dir[d]) : d \in DOMAIN dir}
  ELSE None

ProfileIds(profiles) == {p.id : p \in profiles}

\* validate_profile_startup against the extensions registered by name.
Provides(extensions, slot) ==
  /\ slot.needs.name \in DOMAIN extensions
  /\ slot.capability \in extensions[slot.needs.name].capabilities
  /\ slot.needs.version # None => extensions[slot.needs.name].version = slot.needs.version

StartupValid(providers, extensions) ==
  \A slot \in Slots(providers) : Provides(extensions, slot)

-----------------------------------------------------------------------------
(* Instances                                                               *)

\* _load_channels: known transports; once any provider has registered a
\* channel name, registered names only; no (transport, path) twice.
ChannelsValid(channels, known) ==
  /\ \A i \in DOMAIN channels :
       /\ Said(channels[i].name) /\ channels[i].transport \in {"http", "sse", "cli"}
       /\ known # {} => Strip(channels[i].name) \in known
  /\ NoDuplicates([i \in DOMAIN channels |-> <<channels[i].transport, channels[i].path>>])

\* _load_instance_config: env maps texts to texts; overrides is a mapping.
OverlayValid(overlay, known) ==
  /\ overlay # None /\ overlay.form = "mapping"
  /\ overlay.env_texts /\ overlay.overrides_mapping
  /\ ChannelsValid(overlay.channels, known)

EntryValid(entry, profiles, known) ==
  /\ ~entry.odd
  /\ Said(entry.id) /\ Said(entry.display_name) /\ Said(entry.profile_id)
  /\ Strip(entry.profile_id) \in ProfileIds(profiles)
  /\ OverlayValid(entry.overlay, known)

\* load_instances: config/instances.yaml, every instance or none.
InstanceRegistry(w, known) ==
  LET profiles == ProfileRegistry(w.profiles)
      entries  == w.manifest.instances
  IN IF /\ ~Fails(profiles)
        /\ w.manifest.form = "mapping" /\ entries # None
        /\ \A i \in DOMAIN entries : EntryValid(entries[i], profiles, known)
        /\ NoDuplicates([i \in DOMAIN entries |-> Strip(entries[i].id)])
     THEN {[id       |-> Strip(entries[i].id),
            profile  |-> Strip(entries[i].profile_id),
            channels |-> ToSet(entries[i].overlay.channels)] : i \in DOMAIN entries}
     ELSE None

-----------------------------------------------------------------------------
(* Application settings                                                    *)

\* Settings that a validator compares; the other defaults are irrelevant.
SettingDefaults ==
  [ active_instance |-> None, env |-> "development", database_url |-> "",
    tracer |-> "noop", tracer_endpoint |-> None,
    model_router |-> "fake", anthropic_api_key |-> None,
    memory_provider |-> "fake", honcho_endpoint |-> None, honcho_api_key |-> None,
    knowledge_provider |-> "filesystem", llm_wiki_endpoint |-> None,
    llm_wiki_api_key |-> None ]

\* Process environment, then .env, then app.yaml, then the class.
Sources(w) == <<w.environ, w.dotenv, w.app.settings, SettingDefaults>>

Given(w, field) == \E i \in 1..4 : field \in DOMAIN Sources(w)[i]

Setting(w, field) ==
  LET has(i) == field \in DOMAIN Sources(w)[i]
      first == CHOOSE i \in 1..4 : has(i) /\ \A j \in 1..(i - 1) : ~has(j)
  IN Sources(w)[first][field]

\* The active instance is looked for in instances.yaml under instances_path,
\* which is config/instances: not the manifest that load_instances reads.
ActiveInstanceValid(w) ==
  LET active == Setting(w, "active_instance")
  IN active # None => Said(active) /\ w.inner # None /\ Strip(active) \in w.inner

SettingsValid(w) ==
  LET set(field) == Setting(w, field)
  IN /\ Given(w, "host") /\ Given(w, "port") /\ Given(w, "active_profile")
     /\ Said(set("active_profile"))
     /\ set("env") \in {"production", "test"} => set("database_url") # ""
     /\ set("tracer") = "otel" => set("tracer_endpoint") # None
     /\ set("model_router") = "anthropic" => set("anthropic_api_key") # None
     /\ set("memory_provider") = "honcho" =>
          set("honcho_endpoint") # None /\ set("honcho_api_key") # None
     /\ set("knowledge_provider") = "llm_wiki" =>
          set("llm_wiki_endpoint") # None /\ set("llm_wiki_api_key") # None
     /\ ActiveInstanceValid(w)

\* load_app_config. Another *.yaml of the directory that does not parse is a
\* fault as well; its content is nobody's business here.
AppConfig(w) ==
  LET profiles == ProfileRegistry(w.profiles)
      profile  == Strip(Setting(w, "active_profile"))
  IN IF /\ w.app.form = "mapping" /\ w.others_parse
        /\ SettingsValid(w)
        /\ ~Fails(profiles) /\ profile \in ProfileIds(profiles)
     THEN [profile |-> profile, instance |-> Setting(w, "active_instance")]
     ELSE None

-----------------------------------------------------------------------------
(* Policy presets                                                          *)

\* SchemaRule.model_validate on a mapping; what fails is skipped.
RuleValid(rule) ==
  rule.form = "mapping" /\ rule.decision \in {"auto-allow", "approval-required", "forbidden"}

Rule(rule) == [tool |-> rule.tool, action |-> rule.action, decision |-> rule.decision]

\* override_map: the last valid rule of a tool.
OverrideFor(rules, tool) ==
  LET of == {i \in DOMAIN rules : RuleValid(rules[i]) /\ rules[i].tool = tool}
  IN Rule(rules[CHOOSE i \in of : \A j \in of : j <= i])

ToolsOf(rules) == {rules[i].tool : i \in {j \in DOMAIN rules : RuleValid(rules[j])}}

\* Mutant: a tool that the preset rules on gets the override appended.
MergeOverridesBehind(preset, override) ==
  [ default |-> IF override.default = None THEN preset.default ELSE override.default,
    rules   |-> preset.rules \o
                SetToSeq({OverrideFor(override.rules, t) : t \in ToolsOf(override.rules)}) ]

\* _merge_overrides: every rule of an overridden tool gives way to the
\* override, whatever action it was about; rules of new tools come last. The
\* default decision of an override is taken as it is.
MergeOverrides(preset, override) ==
  LET named == ToolsOf(override.rules)
      fresh == named \ {preset.rules[i].tool : i \in DOMAIN preset.rules}
  IN [ default |-> IF override.default = None THEN preset.default ELSE override.default,
       rules   |-> [i \in DOMAIN preset.rules |->
                      IF preset.rules[i].tool \in named
                      THEN OverrideFor(override.rules, preset.rules[i].tool)
                      ELSE preset.rules[i]]
                   \o SetToSeq({OverrideFor(override.rules, t) : t \in fresh}) ]

\* ApprovalHook.requirements: the first rule of the tool and the action.
DecisionOn(policy, tool, action) ==
  LET fits == {i \in DOMAIN policy.rules :
                 /\ policy.rules[i].tool = tool
                 /\ policy.rules[i].action \in {None, action}}
  IN IF fits = {} THEN policy.default
     ELSE policy.rules[CHOOSE i \in fits : \A j \in fits : i <= j].decision

\* ToolRegistry: no capability twice among the providers, and every tool of
\* the policy's rules has one (validate_against_policy).
CapabilitiesDistinct(providers) ==
  /\ \A i \in DOMAIN providers : NoDuplicates(providers[i])
  /\ \A i, j \in DOMAIN providers : i # j => ToSet(providers[i]) \cap ToSet(providers[j]) = {}

Capabilities(providers) == UNION {ToSet(providers[i]) : i \in DOMAIN providers}

PolicyCovered(policy, providers) ==
  \A i \in DOMAIN policy.rules : policy.rules[i].tool \in Capabilities(providers)
=============================================================================
