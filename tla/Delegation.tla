----------------------------- MODULE Delegation -----------------------------
(***************************************************************************)
(* Work that a run delegates to child runs, and what comes back. A child   *)
(* gets a manifest derived from its parent's: by EAAHandoffHelper, by      *)
(* CodingHandoffRoutine, by DispatcherWorkflowPackager, or prepared by the *)
(* caller and validated. A child may delegate in turn. The two helpers     *)
(* record the checkpoints of the handback in memory and in the event log   *)
(* of the parent, several calls at a time; a process may restart. Every    *)
(* run that delegates has a manifest (RT-001, "exactly one effective       *)
(* workspace manifest"); a helper need not have been given it.             *)
(***************************************************************************)
EXTENDS Naturals, FiniteSets

CONSTANTS
  Runs,          \* run ids
  Root,          \* the run that all the others descend from
  Manifests,     \* manifests that the root has or a caller prepares
  Outputs,       \* names of declared outputs
  TmpPath,       \* the one writable path of a placeholder manifest
  EAHelpers,     \* EAAHandoffHelper objects
  CodingHelpers, \* CodingHandoffRoutine objects
  ParentRun,     \* ParentRun[h]: the parent_run_id of helper h
  Checkpoints,   \* VALID_CHECKPOINTS
  MaxRecords,    \* bound: records one helper object keeps
  MaxLives,      \* bound: times a helper is constructed
  MaxWork,       \* bound: runs with a manifest and handbacks, together
  None           \* no manifest, no run

Helpers == EAHelpers \cup CodingHelpers

Presets == {"yolo", "ask", "allowlist", "custom"}
Modes == {"deny", "allowlist", "profile-default"}

\* The manifests there can be: paths, hosts and secrets come from the prepared
\* ones, or from the placeholder.
ManifestRecords ==
  [paths : SUBSET ({TmpPath} \cup UNION {m.paths : m \in Manifests}), mode : Modes,
   allow : SUBSET UNION {m.allow : m \in Manifests}, preset : Presets,
   secrets : SUBSET UNION {m.secrets : m \in Manifests}, outputs : SUBSET Outputs]

ASSUME DelegationAssumption ==
  /\ Root \in Runs /\ None \notin Runs \cup ManifestRecords
  /\ EAHelpers \cap CodingHelpers = {}
  /\ ParentRun \in [Helpers -> Runs]
  /\ MaxRecords \in Nat /\ MaxLives \in Nat \ {0} /\ MaxWork \in Nat
  /\ Manifests \subseteq ManifestRecords

VARIABLES
  manifest, \* manifest[r]: the manifest of run r, None before it is delegated to
  root,     \* root[r]: the run at the top of the chain of delegations down to r
  context,  \* context[h]: has build_context stored a HandoffContext
  attached, \* attached[h]: has set_parent_manifest been called
  life,     \* life[h]: how often helper h has been constructed
  records,  \* records[h]: length of the handback records in memory
  calls,    \* handbacks between their record and their event
  log,      \* handback events stored: their id, their seq and their handback
  refused   \* handbacks whose event was refused: its id or its seq was taken

runVars == <<manifest, root>>
helperVars == <<context, attached, life>>
backVars == <<records, calls, log, refused>>
vars == <<manifest, root, context, attached, life, records, calls, log, refused>>

-----------------------------------------------------------------------------
(* Narrowing                                                               *)

\* _preset_order. Rules and default decision are not compared.
Level(preset) ==
  CASE preset = "yolo" -> 3 [] preset = "ask" -> 2 [] preset = "allowlist" -> 1
    [] preset = "custom" -> 0

\* Mutant: the order of the presets read the wrong way round.
NarrowsReversed(parent, child) ==
  /\ child.paths \subseteq parent.paths
  /\ parent.mode = "allowlist" => child.allow \subseteq parent.allow
  /\ Level(child.preset) >= Level(parent.preset)
  /\ child.secrets \subseteq parent.secrets

\* Mutant: hosts compared under deny instead of allowlist.
NarrowsHostsOfDeny(parent, child) ==
  /\ child.paths \subseteq parent.paths
  /\ parent.mode = "deny" => child.allow \subseteq parent.allow
  /\ Level(child.preset) <= Level(parent.preset)
  /\ child.secrets \subseteq parent.secrets

\* narrow_manifest raises nothing. The hosts are compared only under a parent
\* in mode allowlist.
Narrows(parent, child) ==
  /\ child.paths \subseteq parent.paths
  /\ parent.mode = "allowlist" => child.allow \subseteq parent.allow
  /\ Level(child.preset) <= Level(parent.preset)
  /\ child.secrets \subseteq parent.secrets

\* _build_placeholder_manifest: what an EA helper delegates without a parent's.
Placeholder(outs) ==
  [paths |-> {TmpPath}, mode |-> "deny", allow |-> {}, preset |-> "yolo",
   secrets |-> {}, outputs |-> outs]

\* _narrow_child_manifest of the dispatcher: the grants of the parent, of its
\* outputs those that are expected.
DispatcherChild(parent, outs) == [parent EXCEPT !.outputs = @ \cap outs]

\* _validate_expected_outputs of the coding handoff.
OutputsCovered(child, outs) == outs \subseteq child.outputs

-----------------------------------------------------------------------------
(* Delegating                                                              *)

Init ==
  /\ \E m \in Manifests : manifest = [r \in Runs |-> IF r = Root THEN m ELSE None]
  /\ root = [r \in Runs |-> IF r = Root THEN Root ELSE None]
  /\ context = [h \in Helpers |-> FALSE]
  /\ attached = [h \in Helpers |-> FALSE]
  /\ life = [h \in Helpers |-> 1]
  /\ records = [h \in Helpers |-> 0]
  /\ calls = {} /\ log = {} /\ refused = {}

Work ==
  Cardinality({r \in Runs : manifest[r] # None}) + Cardinality(calls)
  + Cardinality(log) + Cardinality(refused)

\* Run p, which has a manifest, delegates to the new run c, and c gets m.
Delegate(p, c, m) ==
  /\ manifest[p] # None /\ manifest[c] = None
  /\ Work < MaxWork
  /\ manifest' = [manifest EXCEPT ![c] = m]
  /\ root' = [root EXCEPT ![c] = root[p]]

BuildContext(h) ==
  /\ context' = [context EXCEPT ![h] = TRUE]
  /\ UNCHANGED <<runVars, attached, life, backVars>>

SetParentManifest(h) ==
  /\ manifest[ParentRun[h]] # None
  /\ attached' = [attached EXCEPT ![h] = TRUE]
  /\ UNCHANGED <<runVars, context, life, backVars>>

\* _do_make_envelope, _resolve_child_manifest: a copy of the parent's manifest,
\* which narrows its original, or a placeholder that is compared with nothing.
ResolveChildManifest(h, c, outs) ==
  LET p == ParentRun[h] IN
  /\ \/ attached[h] /\ Delegate(p, c, manifest[p])
     \/ ~attached[h] /\ Delegate(p, c, Placeholder(outs))
  /\ UNCHANGED <<helperVars, backVars>>

MakeEnvelope(h, c, outs) ==
  /\ context[h]
  /\ ResolveChildManifest(h, c, outs)

\* The context is passed, and the stored one is put back, whatever happens.
MakeEnvelopeManual(h, c, outs) == ResolveChildManifest(h, c, outs)

\* CodingHandoffRoutine.create_envelope: the child's manifest is a copy.
CreateEnvelope(h, c, outs) ==
  LET p == ParentRun[h] IN
  /\ Delegate(p, c, manifest[p])
  /\ OutputsCovered(manifest[p], outs)
  /\ UNCHANGED <<helperVars, backVars>>

\* DispatcherWorkflowPackager.package. The correlation that the caller fills in
\* and the two events made of it are left out.
Package(p, c, outs) ==
  LET child == DispatcherChild(manifest[p], outs) IN
  /\ Delegate(p, c, child)
  /\ child.outputs = outs
  /\ Narrows(manifest[p], child)
  /\ UNCHANGED <<helperVars, backVars>>

\* validate_narrowing of a manifest that the caller has constructed.
AcceptChild(p, c, m) ==
  /\ Delegate(p, c, m)
  /\ Narrows(manifest[p], m)
  /\ UNCHANGED <<helperVars, backVars>>

-----------------------------------------------------------------------------
(* Handing back                                                            *)

\* number, seq: 0 until they are known.
Call(h, checkpoint, number) ==
  [by |-> h, life |-> life[h], pos |-> records[h] + 1, checkpoint |-> checkpoint,
   number |-> number, seq |-> 0]

\* The id has the checkpoint and a number, the coding handoff a prefix of its
\* own: nothing of the run.
EventId(k) == <<k.by \in CodingHelpers, k.checkpoint, k.number>>

\* record_handback: in memory only.
RecordHandback(h) ==
  /\ records[h] < MaxRecords
  /\ records' = [records EXCEPT ![h] = @ + 1]
  /\ UNCHANGED <<runVars, helperVars, calls, log, refused>>

\* Mutant: the number is taken after the await, as in the coding handoff.
RecordHandbackAsyncLate(h, checkpoint) ==
  /\ records[h] < MaxRecords /\ Work < MaxWork
  /\ records' = [records EXCEPT ![h] = @ + 1]
  /\ calls' = calls \cup {Call(h, checkpoint, 0)}
  /\ UNCHANGED <<runVars, helperVars, log, refused>>

\* record_handback_async up to its await: the number is that of the record.
RecordHandbackAsync(h, checkpoint) ==
  /\ records[h] < MaxRecords /\ Work < MaxWork
  /\ records' = [records EXCEPT ![h] = @ + 1]
  /\ calls' = calls \cup {Call(h, checkpoint, records[h] + 1)}
  /\ UNCHANGED <<runVars, helperVars, log, refused>>

\* CodingHandoffRoutine.record_checkpoint up to its await.
RecordCheckpoint(h, checkpoint) ==
  /\ records[h] < MaxRecords /\ Work < MaxWork
  /\ records' = [records EXCEPT ![h] = @ + 1]
  /\ calls' = calls \cup {Call(h, checkpoint, 0)}
  /\ UNCHANGED <<runVars, helperVars, log, refused>>

\* record_checkpoint after latest_seq answered: the length of the list now.
NumberCheckpoint(k) ==
  /\ k.number = 0
  /\ calls' = (calls \ {k}) \cup {[k EXCEPT !.number = records[k.by]]}
  /\ UNCHANGED <<runVars, helperVars, records, log, refused>>

OfRun(r) == {e \in log : ParentRun[e.of.by] = r}

\* append(), first statement: the next seq of the parent run.
ComputeNextSeq(k) ==
  /\ k.number # 0 /\ k.seq = 0
  /\ \E max \in {0} \cup {e.seq : e \in OfRun(ParentRun[k.by])} :
       /\ \A e \in OfRun(ParentRun[k.by]) : e.seq <= max
       /\ calls' = (calls \ {k}) \cup {[k EXCEPT !.seq = max + 1]}
  /\ UNCHANGED <<runVars, helperVars, records, log, refused>>

\* What stands in the way of k's row: the same id, or the same run and seq.
SameId(k)  == {e \in log : e.id = EventId(k)}
SameSeq(k) == {e \in OfRun(ParentRun[k.by]) : e.seq = k.seq}

\* append(), second statement: the primary key and UNIQUE(run_id, seq).
AppendHandback(k) ==
  /\ k.seq # 0
  /\ calls' = calls \ {k}
  /\ \/ /\ SameId(k) \cup SameSeq(k) = {}
        /\ log' = log \cup {[id |-> EventId(k), seq |-> k.seq, of |-> k]}
        /\ UNCHANGED refused
     \/ /\ SameId(k) \cup SameSeq(k) # {}
        /\ refused' = refused \cup {k}
        /\ UNCHANGED log
  /\ UNCHANGED <<runVars, helperVars, records>>

\* append() raises for another reason (no run, a terminal run, no database, a
\* seq that an event other than a handback took); the record stays in memory.
AppendRaises(k) ==
  /\ calls' = calls \ {k}
  /\ UNCHANGED <<runVars, helperVars, records, log, refused>>

\* The process dies; the next one constructs the helper anew.
Restart(h) ==
  /\ life[h] < MaxLives
  /\ life' = [life EXCEPT ![h] = @ + 1]
  /\ records' = [records EXCEPT ![h] = 0]
  /\ context' = [context EXCEPT ![h] = FALSE]
  /\ attached' = [attached EXCEPT ![h] = FALSE]
  /\ calls' = {k \in calls : k.by # h}
  /\ UNCHANGED <<runVars, log, refused>>

Next ==
  \/ \E h \in EAHelpers :
       \/ BuildContext(h)
       \/ SetParentManifest(h)
       \/ RecordHandback(h)
       \/ \E checkpoint \in Checkpoints : RecordHandbackAsync(h, checkpoint)
       \/ \E c \in Runs, outs \in SUBSET Outputs :
            MakeEnvelope(h, c, outs) \/ MakeEnvelopeManual(h, c, outs)
  \/ \E h \in CodingHelpers :
       \/ \E checkpoint \in Checkpoints : RecordCheckpoint(h, checkpoint)
       \/ \E c \in Runs, outs \in SUBSET Outputs : CreateEnvelope(h, c, outs)
  \/ \E p, c \in Runs :
       \/ \E outs \in SUBSET Outputs : Package(p, c, outs)
       \/ \E m \in Manifests : AcceptChild(p, c, m)
  \/ \E k \in calls :
       NumberCheckpoint(k) \/ ComputeNextSeq(k) \/ AppendHandback(k) \/ AppendRaises(k)
  \/ \E h \in Helpers : Restart(h)

Spec == Init /\ [][Next]_vars

-----------------------------------------------------------------------------
(* Properties                                                              *)

TypeOK ==
  /\ DOMAIN manifest = Runs /\ DOMAIN root = Runs
  /\ \A r \in Runs :
       /\ manifest[r] \in ManifestRecords \cup {None}
       /\ root[r] \in Runs \cup {None}
       /\ manifest[r] = None <=> root[r] = None
  /\ context \in [Helpers -> BOOLEAN]
  /\ attached \in [Helpers -> BOOLEAN]
  /\ life \in [Helpers -> 1..MaxLives]
  /\ records \in [Helpers -> 0..MaxRecords]
  /\ \A k \in calls : k.by \in Helpers /\ k.pos \in 1..records[k.by] /\ k.number \in 0..MaxRecords /\ k.seq \in Nat

\* m has no path and no secret that top lacks, and no wider tool preset.
Within(m, top) ==
  /\ m.paths \subseteq top.paths
  /\ m.secrets \subseteq top.secrets
  /\ Level(m.preset) <= Level(top.preset)

(***************************************************************************)
(* Each delegation is checked against its parent alone, a prepared         *)
(* manifest may drop and regain what it likes, and an EA helper without    *)
(* the parent's manifest hands out a placeholder that is checked against   *)
(* nothing: still every run, however deep, keeps within the paths, secrets *)
(* and tool preset of the run at the top of its chain, or within those of  *)
(* a placeholder handed out below that run, which has no secret and no     *)
(* path but the temporary one. That there were no placeholder to widen     *)
(* what the top has is GrantsNeverGrow, which does not hold.               *)
(***************************************************************************)
GrantsBounded ==
  \A r \in Runs : manifest[r] # None =>
    \/ Within(manifest[r], manifest[root[r]])
    \/ \E q \in Runs, outs \in SUBSET Outputs :
         /\ manifest[q] = Placeholder(outs) /\ root[q] = root[r]
         /\ Within(manifest[r], manifest[q])

(***************************************************************************)
(* Hosts are compared under a parent in mode allowlist only, and the child *)
(* chooses its own mode. As long as everybody below top stays in that mode *)
(* nobody has a host that top lacks: hosts come back through a run in      *)
(* another mode and in no other way (narrowing.py:83-91).                  *)
(***************************************************************************)
AllowlistsKeepHosts ==
  \A top \in Runs :
    LET below == {r \in Runs : manifest[r] # None /\ root[r] = top}
    IN (\A r \in below : manifest[r].mode = "allowlist")
       => \A r \in below : manifest[r].allow \subseteq manifest[top].allow

(***************************************************************************)
(* What refuses a handback: an append to the same parent run that took its *)
(* seq between its two statements; or the id, and then it is the id of     *)
(* another helper's handback, of one from before a restart or, for a       *)
(* coding routine, of another checkpoint that it overlapped. The handbacks *)
(* of one EA helper object never have one id, whatever is in flight.       *)
(***************************************************************************)
RefusalsExplained ==
  \A k \in refused :
    \/ SameSeq(k) # {}
    \/ \E e \in SameId(k) :
         \/ e.of.by # k.by \/ e.of.life # k.life
         \/ k.by \in CodingHelpers /\ e.of.pos # k.pos

-----------------------------------------------------------------------------
(* Statements of the documents that the code does not keep                 *)

(***************************************************************************)
(* RT-001: the child manifest is a narrowing transform of the parent on    *)
(* writable_paths, tool_policy and secret_scope. _resolve_child_manifest   *)
(* of an EA helper without the parent's manifest compares its placeholder, *)
(* with preset yolo and the temporary path, with nothing.                  *)
(***************************************************************************)
GrantsNeverGrow ==
  \A r \in Runs : manifest[r] # None => Within(manifest[r], manifest[root[r]])

(***************************************************************************)
(* RT-001: the child manifest is a narrowing transform of the parent on    *)
(* network_policy. _narrow_network_policy looks at the hosts only when the *)
(* parent's mode is allowlist.                                             *)
(***************************************************************************)
HostsNeverGrow ==
  \A r \in Runs : manifest[r] # None => manifest[r].allow \subseteq manifest[root[r]].allow
=============================================================================
