----------------------------- MODULE MCStartup -----------------------------
(* Small instances of Startup for TLC.                                     *)
EXTENDS Startup, TLC

T(word) == [word |-> word, style |-> "plain"]
Padded(word) == [word |-> word, style |-> "padded"]
Upper(word) == [word |-> word, style |-> "upper"]
BlankText == [word |-> "", style |-> "blank"]

-----------------------------------------------------------------------------
(* Asset files                                                             *)

V1 == [numeric |-> TRUE, parts |-> 1, length |-> 1]
VShort == [numeric |-> FALSE, parts |-> 1, length |-> 2]

File(id, kind, tags, providers, spec) ==
  [form |-> "mapping", id |-> id, kind |-> kind, version |-> V1, tags |-> tags,
   providers |-> providers, profile_filter |-> <<"include">>, odd |-> FALSE, spec |-> spec]

Prompt == File(T("brief"), T("prompt"), <<T("ea"), Padded("daily")>>, <<Upper("model")>>, None)
Twin   == File(Upper("brief"), Padded("prompt"), <<T("coding")>>, <<>>, None)
Widget == File(T("brief"), T("widget"), <<Upper("ea"), BlankText>>, <<T("tool")>>, None)
Agent(n) == File(T("agent"), T("agent"), <<T("ea"), T("coding")>>, <<T("tool"), T("model")>>,
                 [max_tools_per_step |-> n])
Broken == [Prompt EXCEPT !.form = "broken"]
Latin  == [Prompt EXCEPT !.form = "undecodable"]
Old    == [Prompt EXCEPT !.version = VShort]

Routine(refs) == File(T("daily"), T("routine"), <<T("ea")>>, <<>>, [documentation_refs |-> refs])

Workflow(outputs) ==
  File(T("dispatch"), T("workflow"), <<T("coding")>>, <<>>,
       [dispatcher |-> T("d"), team_ref |-> T("nobody"), pipeline_ref |-> T("nothing"),
        handoff |-> [artifact_kind |-> T("k"), label |-> T("l"), output_name |-> T("o")],
        outputs |-> outputs])

Node(id, kind) == [id |-> id, kind |-> kind, checkpoint |-> kind = "review_checkpoint"]
Pipe(start, to) ==
  File(T("pipe"), T("pipeline"), <<T("coding")>>, <<>>,
       [start |-> start, nodes |-> <<Node("n1", "team"), Node("n2", "review_checkpoint")>>,
        routes |-> <<[from |-> "n1", outcome |-> "success", to |-> "n2"],
                     [from |-> "n2", outcome |-> "success", to |-> to]>>])

-----------------------------------------------------------------------------
(* Teams                                                                   *)

MCRoles ==
  LET role(outputs) == [responsibilities |-> <<T("r")>>, constraints |-> <<T("c")>>,
                        outputs |-> outputs, opaque |-> FALSE]
  IN T("d") :> role(<<T("review"), Padded("tests")>>)
     @@ T("a") :> role(<<T("review"), T("done")>>)
     @@ T("b") :> role(<<T("done")>>)

Route(from, output, to) ==
  [from |-> T(from), output |-> T(output), to |-> Padded(to), kind |-> T("k")]

TeamFile(id, routes, fallback) ==
  File(T(id), T("team"), <<T("coding")>>, <<>>,
       [dispatcher |-> T("d"), specialists |-> <<T("a"), Padded("b")>>, routes |-> routes,
        fallback |-> fallback, input |-> T("job")])

\* A chain with a route back to the dispatcher, a circle of three, a route for
\* an output that nobody declares.
TeamFiles ==
  << TeamFile("chain", <<Route("a", "review", "b"), Route("b", "done", "d")>>, T("a")),
     TeamFile("circle", <<Route("d", "review", "a"), Route("a", "done", "b"),
                          Route("b", "done", "d")>>, None),
     TeamFile("stray", <<Route("b", "tests", "d")>>, T("b")) >>

MCStatuses ==
  { (T("d") :> "running") @@ (T("a") :> "registered") @@ (T("b") :> "registered"),
    (T("d") :> "running") @@ (T("a") :> "running") }

-----------------------------------------------------------------------------
(* Profiles and instances                                                  *)

Ref(name, version) == [word |-> [name |-> name, version |-> version], style |-> "plain"]
Providers(model) ==
  [model |-> model, memory |-> Ref("store", None), knowledge |-> Ref("store", None),
   tool |-> <<>>, channel |-> <<>>, tracer |-> Ref("store", None), odd |-> FALSE]

Filter(op) ==
  [op |-> op, tags |-> None, tag |-> None, required_providers |-> None,
   providers |-> None, provider |-> None]

Profile(id, model, filters) ==
  [form |-> "mapping", id |-> T(id), display_name |-> T("name"), semver |-> TRUE,
   extensions |-> <<T("tool"), T("skill")>>, required_providers |-> Providers(model),
   odd |-> FALSE, asset_filters |-> filters]

ByTag(t) == [Filter(T("by_tag")) EXCEPT !.tag = {T(t)}]
ExcludeTool == [Filter(Upper("exclude")) EXCEPT !.required_providers = {T("tool")}]
IncludeModel == [Filter(T("include")) EXCEPT !.required_providers = {T("model")}]
ByProvider == [Filter(T("by_required_provider")) EXCEPT !.providers = {T("tool"), T("model")}]

Dir(ea, coding) ==
  ("ea" :> Profile("ea", Ref("llm", "1"), ea)) @@ ("coding" :> Profile("coding", Ref("llm", None), coding))

Channel(name, path) == [name |-> T(name), transport |-> "http", path |-> path]
Overlay(channelsGiven) ==
  [form |-> "mapping", env_texts |-> TRUE, overrides_mapping |-> TRUE, channels |-> channelsGiven]
Entry(id, profile, overlay) ==
  [odd |-> FALSE, id |-> T(id), display_name |-> T("name"), profile_id |-> T(profile),
   overlay |-> overlay]
Manifest(entries) == [form |-> "mapping", instances |-> entries]
TwoInstances ==
  Manifest(<<Entry("marc-ea", "ea", Overlay(<<Channel("web", "a"), Channel("web", "b")>>)),
             Entry("lisa-ea", "ea", Overlay(<<>>))>>)

App(settings) == [form |-> "mapping", settings |-> settings]
Basic == ("host" :> "h") @@ ("port" :> "8000") @@ ("active_profile" :> T("ea"))
Nothing == [f \in {} |-> None]

Workspace(assets) ==
  [assets |-> assets, profiles |-> Dir(<<ByTag("ea")>>, <<ByTag("coding"), ExcludeTool>>),
   manifest |-> TwoInstances, inner |-> None, app |-> App(Basic), dotenv |-> Nothing,
   environ |-> Nothing, others_parse |-> TRUE]

Base == Workspace(<<Prompt, Widget, Agent(1), Routine(<<T("doc")>>), Workflow(<<T("o")>>),
                    Pipe("n1", None)>>)

\* Contents that differ in what the assets and the filters say ...
AssetSpaces ==
  { Base,
    Workspace(<<Prompt, Twin>>), Workspace(<<Agent(0)>>), Workspace(<<Broken, Agent(1)>>),
    Workspace(<<Old>>), Workspace(None), Workspace(<<Agent(1), Latin, Twin>>),
    Workspace(<<Routine(<<BlankText>>)>>), Workspace(<<Workflow(<<T("o"), Padded("o")>>)>>),
    Workspace(<<Pipe("n3", None)>>), Workspace(<<Pipe("n1", "n3")>>),
    Workspace(<<Twin, Agent(1)>>),
    [Base EXCEPT !.profiles = Dir(<<IncludeModel, ByProvider>>, <<>>)],
    [Base EXCEPT !.profiles = Dir(<<>>, <<[Filter(T("exclude")) EXCEPT !.tag = {T("ea")}]>>)],
    [Base EXCEPT !.profiles = Dir(<<Filter(T("by_tag"))>>, <<Filter(T("omit"))>>)],
    [Base EXCEPT !.profiles["ea"].odd = TRUE] }

\* ... and in what the profiles, the instances and the settings say.
SettingSpaces ==
  { [Base EXCEPT !.profiles["ea"].required_providers.model = None],
    [Base EXCEPT !.profiles["ea"].odd = TRUE],
    [Base EXCEPT !.profiles["coding"].id = T("ea")],
    [Base EXCEPT !.manifest = Manifest(<<Entry("marc-ea", "home", Overlay(<<>>))>>)],
    [Base EXCEPT !.manifest = Manifest(<<Entry("marc-ea", "ea", None)>>)],
    [Base EXCEPT !.app = App([Basic EXCEPT !["active_profile"] = T("home")]),
                 !.environ = "active_profile" :> T("coding")],
    [Base EXCEPT !.environ = "active_instance" :> T("marc-ea")],
    [Base EXCEPT !.environ = "active_instance" :> T("marc-ea"), !.inner = {T("marc-ea")}],
    [Base EXCEPT !.dotenv = ("env" :> "test") @@ ("database_url" :> "")],
    [Base EXCEPT !.others_parse = FALSE] }

TeamSpace == Workspace(TeamFiles)

-----------------------------------------------------------------------------
(* Extensions, policies, tools                                             *)

Ext(name, version, capabilities) ==
  [name |-> name, version |-> version, capabilities |-> capabilities]
Store == Ext("store", "1", {"memory", "knowledge", "tracer"})
MCExtensions ==
  {Store, Ext("store", "1", {}), Ext("llm", "1", {"model"}), Ext("llm", "2", {"model"})}
Decl(ext, factory, valid) == [extension |-> ext, factory |-> factory, config_valid |-> valid]
MCDeclared ==
  { <<Decl(Store, TRUE, TRUE), Decl(Ext("llm", "1", {"model"}), FALSE, TRUE)>>,
    <<Decl(Ext("llm", "2", {"model"}), TRUE, FALSE), Decl(Ext("llm", "1", {"model"}), TRUE, TRUE)>> }

Ruling(tool, action, decision) ==
  [form |-> "mapping", tool |-> tool, action |-> action, decision |-> decision]
MCPresets ==
  { [default |-> "approval-required",
     rules |-> <<Rule(Ruling("fs", "write", "forbidden")), Rule(Ruling("fs", None, "auto-allow")),
                 Rule(Ruling("shell", None, "forbidden"))>>],
    [default |-> "forbidden", rules |-> <<>>] }
Override(rules, default) == [rules |-> rules, default |-> default]
MCOverrides ==
  { Override(<<>>, None), Override(<<>>, "auto-allow"), Override(<<>>, "sometimes"),
    Override(<<Ruling("fs", "read", "approval-required")>>, None),
    Override(<<Ruling("fs", None, "auto-allow"), Ruling("fs", None, "approval-required"),
               Ruling("net", None, "sometimes")>>, None),
    Override(<<Ruling("net", "read", "auto-allow")>>, None) }
MCToolSets == {<<<<"fs", "shell">>, <<"net">>>>, <<<<"fs">>, <<"shell", "fs">>>>, <<<<"fs">>>>}

-----------------------------------------------------------------------------
MCChannelNames == {T("web"), T("desk")}

Start(files, calls, edits) == [files |-> files, calls |-> calls, edits |-> edits]
MCStarts ==
  { Start(Base, {"edit", "app"}, SettingSpaces),
    Start(Base, {"edit", "hydrate"}, AssetSpaces),
    Start(Base, {"hydrate", "extend"}, {}),
    Start(TeamSpace, {"team"}, {}),
    Start(Base, {"policy"}, {}) }
HydrateStarts == {Start(Base, {"edit", "hydrate"}, AssetSpaces)}
=============================================================================
