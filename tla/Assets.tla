------------------------------- MODULE Assets -------------------------------
(***************************************************************************)
(* Asset files, the registry they are loaded into and the filters of the   *)
(* profiles. A text is a record of its word and how it is spelled: plain,  *)
(* padded with blanks, in upper case, blank, or no string at all. A file   *)
(* is a record of the fields of asset.yaml that a validator looks at;      *)
(* "odd" stands for every fault that only the type or the shape of a field *)
(* decides: an unknown key, a wrong type, a literal that is not allowed.   *)
(***************************************************************************)
EXTENDS Naturals, Sequences, FiniteSets, SequencesExt

CONSTANT None  \* a field that is not there

-----------------------------------------------------------------------------
(* Texts                                                                   *)

IsText(t) == t.style # "number"
Said(t) == t.style \notin {"number", "blank"}

Strip(t) == IF t.style = "padded" THEN [t EXCEPT !.style = "plain"] ELSE t
Lower(t) == IF t.style \in {"padded", "upper"} THEN [t EXCEPT !.style = "plain"] ELSE t

NoDuplicates(s) == \A i, j \in DOMAIN s : s[i] = s[j] => i = j

-----------------------------------------------------------------------------
(* Fields of every kind                                                    *)

KnownKinds ==
  {"widget", "command", "prompt", "tool", "skill", "agent", "team", "pipeline",
   "workflow", "routine", "policy", "theme", "context_provider", "profile_overlay"}

\* _coerce_version pads up to three numbers to X.Y.Z; anything else passes as
\* it is. The field asks for five characters and nothing more.
VersionAccepted(v) == (v.numeric /\ v.parts <= 3) \/ v.length >= 5

CommonFieldsValid(file) ==
  /\ Said(file.id)
  /\ IsText(file.kind) /\ Lower(file.kind).word \in KnownKinds
  /\ VersionAccepted(file.version)
  /\ \A i \in DOMAIN file.tags : IsText(file.tags[i])
  /\ \A i \in DOMAIN file.providers : IsText(file.providers[i])
  /\ \A i \in DOMAIN file.profile_filter : file.profile_filter[i] \in {"include", "exclude"}
  /\ ~file.odd

-----------------------------------------------------------------------------
(* Fields of one kind                                                      *)

TeamFieldsValid(t) ==
  LET specialists == [i \in DOMAIN t.specialists |-> Strip(t.specialists[i])]
      members == {Strip(t.dispatcher)} \cup ToSet(specialists)
  IN /\ Said(t.dispatcher) /\ \A i \in DOMAIN t.specialists : Said(t.specialists[i])
     /\ specialists # <<>> /\ NoDuplicates(specialists)
     /\ Strip(t.dispatcher) \notin ToSet(specialists)
     /\ \A i \in DOMAIN t.routes :
          /\ \A part \in {"from", "output", "to", "kind"} : Said(t.routes[i][part])
          /\ Strip(t.routes[i].from) \in members /\ Strip(t.routes[i].to) \in members
     /\ t.fallback # None => Said(t.fallback) /\ Strip(t.fallback) \in ToSet(specialists)

\* A review node has a checkpoint, another node has none. Without nodes
\* nothing refers to anything and nothing is compared.
PipelineFieldsValid(p) ==
  LET ids == [i \in DOMAIN p.nodes |-> p.nodes[i].id]
  IN /\ \A i \in DOMAIN p.nodes :
          /\ p.nodes[i].kind \in {"sub_agent", "team", "review_checkpoint"}
          /\ (p.nodes[i].kind = "review_checkpoint") = p.nodes[i].checkpoint
     /\ \A i \in DOMAIN p.routes : p.routes[i].outcome \in {"success", "failure"}
     /\ p.nodes # <<>> =>
          /\ NoDuplicates(ids) /\ p.start \in ToSet(ids)
          /\ \A i \in DOMAIN p.routes :
               /\ p.routes[i].from \in ToSet(ids)
               /\ p.routes[i].to \in ToSet(ids) \cup {None}
          /\ NoDuplicates([i \in DOMAIN p.routes |-> <<p.routes[i].from, p.routes[i].outcome>>])

\* team_ref and pipeline_ref are only texts: nothing looks them up.
WorkflowFieldsValid(w) ==
  /\ Said(w.dispatcher) /\ Said(w.team_ref) /\ Said(w.pipeline_ref)
  /\ \A part \in {"artifact_kind", "label", "output_name"} : Said(w.handoff[part])
  /\ \A i \in DOMAIN w.outputs : Said(w.outputs[i])
  /\ NoDuplicates([i \in DOMAIN w.outputs |-> Strip(w.outputs[i])])

\* milestones are mappings of any content; a blank reference is refused.
RoutineFieldsValid(r) == \A i \in DOMAIN r.documentation_refs : Said(r.documentation_refs[i])

\* _asset_model_for_kind. The kinds that are not named add fields without a
\* validator of their own.
KindFieldsValid(kind, spec) ==
  CASE kind = "team"     -> TeamFieldsValid(spec)
    [] kind = "pipeline" -> PipelineFieldsValid(spec)
    [] kind = "workflow" -> WorkflowFieldsValid(spec)
    [] kind = "routine"  -> RoutineFieldsValid(spec)
    [] kind = "agent"    -> spec.max_tools_per_step >= 1
    [] OTHER -> TRUE

Valid(file) ==
  CommonFieldsValid(file) /\ KindFieldsValid(Lower(file.kind).word, file.spec)

\* What AssetMetadata.from_dict makes of a valid file. Blank tags and blank
\* providers are left out.
Metadata(file) ==
  [ id        |-> Lower(file.id),
    kind      |-> Lower(file.kind).word,
    tags      |-> {Strip(t) : t \in {x \in ToSet(file.tags) : Said(x)}},
    providers |-> {Lower(p) : p \in {x \in ToSet(file.providers) : Said(x)}},
    spec      |-> file.spec ]

-----------------------------------------------------------------------------
(* The registry                                                            *)

EmptyRegistry == [assets |-> <<>>, errors |-> <<>>]

Failed(reg, why) == [reg EXCEPT !.errors = Append(@, why)]

KeyOf(asset) == <<asset.id, asset.kind>>
Keys(reg) == {KeyOf(reg.assets[i]) : i \in DOMAIN reg.assets}

\* Mutant: a later file of the same key is registered as well.
LoadSingleTwice(reg, file) ==
  IF file.form # "mapping" THEN Failed(reg, file.form)
  ELSE IF ~Valid(file) THEN Failed(reg, "invalid")
  ELSE [reg EXCEPT !.assets = Append(@, Metadata(file))]

\* Every fault of a file is one entry here; the code lists each field.
LoadSingle(reg, file) ==
  IF file.form # "mapping" THEN Failed(reg, file.form)
  ELSE IF ~Valid(file) THEN Failed(reg, "invalid")
  ELSE IF KeyOf(Metadata(file)) \in Keys(reg) THEN Failed(reg, "duplicate")
  ELSE [reg EXCEPT !.assets = Append(@, Metadata(file))]

\* A file that is not UTF-8 raises out of the load: it leaves the assets of the
\* files before it and no error.
UndecodableIn(dir, n) == \E i \in 1..n : dir[i].form = "undecodable"

LoadNext(reg, dir, n) == IF UndecodableIn(dir, n) THEN reg ELSE LoadSingle(reg, dir[n])

\* Loading[n] is the registry with the first n files of dir.
Loading(reg, dir) ==
  LET after[n \in 0..Len(dir)] == IF n = 0 THEN reg ELSE LoadNext(after[n - 1], dir, n)
  IN after

\* dir: the asset.yaml files under a directory in path order, None if there
\* is no such directory.
LoadFromDir(reg, dir) ==
  IF dir = None THEN Failed(reg, "not a directory")
  ELSE IF dir = <<>> THEN Failed(reg, "no asset.yaml files found")
  ELSE Loading(reg, dir)[Len(dir)]

LoadRaises(dir) == dir # None /\ UndecodableIn(dir, Len(dir))

Poisoned(reg) == reg.errors # <<>>

-----------------------------------------------------------------------------
(* Filters                                                                 *)

FilterOps == {"include", "exclude", "by_tag", "by_required_provider"}

\* from_dict raises FilterError.
Malformed(f) == f.op = None \/ ~Said(f.op) \/ Lower(f.op).word \notin FilterOps

\* Keys that _match_include does not know match everything.
MatchInclude(f, asset) ==
  /\ f.tags # None => f.tags \subseteq asset.tags
  /\ f.required_providers # None => f.required_providers \subseteq asset.providers

\* "x or y": an empty first list gives way to the second.
FirstFilled(x, y) == IF x \in {None, {}} THEN y ELSE x

Matches(f, asset) ==
  LET op == Lower(f.op).word
      tags == FirstFilled(f.tags, f.tag)
      providers == FirstFilled(f.providers, f.provider)
  IN CASE op \in {"include", "exclude"} -> MatchInclude(f, asset)
       [] op = "by_tag" -> tags # None /\ tags \subseteq asset.tags
       [] op = "by_required_provider" ->
            providers # None /\ providers \cap asset.providers # {}

Selects(f, a) == Matches(f, a) # (Lower(f.op).word = "exclude")

EvaluateNext(f, kept, a) == IF Selects(f, a) THEN Append(kept, a) ELSE kept

\* Evaluating[n] is what f leaves of the first n assets.
Evaluating(f, assets) ==
  LET kept[n \in 0..Len(assets)] ==
        IF n = 0 THEN <<>> ELSE EvaluateNext(f, kept[n - 1], assets[n])
  IN kept

Evaluate(f, assets) == Evaluating(f, assets)[Len(assets)]

\* The output of each filter feeds into the next one: Filtering[n] is what the
\* first n leave.
Filtering(reg, filters) ==
  LET left[n \in 0..Len(filters)] ==
        IF n = 0 THEN reg.assets ELSE Evaluate(filters[n], left[n - 1])
  IN left

ApplyFilters(reg, filters) == Filtering(reg, filters)[Len(filters)]
=============================================================================
