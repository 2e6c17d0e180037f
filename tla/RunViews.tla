------------------------------ MODULE RunViews ------------------------------
(***************************************************************************)
(* The operator's view of a run, GET /runs/{run_id}/view: the route looks  *)
(* the run up, then VisibilityService.snapshot reads the row of the run    *)
(* and its events in statements of their own, while the verbs of           *)
(* RunControl move the run on. Pending approvals and the manifest, two     *)
(* further statements, are left out, and so is a deployment without a run  *)
(* repository or without an event repository (503).                        *)
(***************************************************************************)
EXTENDS RunControl

VARIABLE
  view \* the request in hand: the statements still to come and what the
       \* others returned

viewVars == <<state, log, call, view>>

\* "unknown" until the row is read; the records have their seqs.
NoView ==
  [run |-> None, todo |-> <<>>, state |-> "unknown", milestones |-> {}, artifacts |-> {}]

ViewInit == Init /\ view = NoView

\* Mutant: the events first, the row after them.
ReadOrderSwapped == <<"events", "row">>

ReadOrder == <<"row", "events">>

\* run.progress events and run.artifact_created events; no run.created,
\* run.resumed, run.cancelled or run.completed.
ArtifactNames == {"usage-summary"}
MilestoneNames ==
  EventNames \ (ArtifactNames \cup {"created", "resumed", "cancelled", "completed"})

\* The records made of the events of one kind.
Records(events, names) ==
  {[seq |-> i, name |-> events[i]] : i \in {j \in DOMAIN events : events[j] \in names}}

-----------------------------------------------------------------------------

\* get_run_view: 404 without the run.
GetRunView(r) ==
  /\ view.run = None
  /\ Exists(r)
  /\ view' = [NoView EXCEPT !.run = r, !.todo = ReadOrder]
  /\ UNCHANGED vars

\* snapshot, which would say "unknown" of a run that is gone; rows are never
\* deleted.
ReadRow ==
  /\ view.todo # <<>> /\ Head(view.todo) = "row"
  /\ view' = [view EXCEPT !.state = state[view.run], !.todo = Tail(@)]
  /\ UNCHANGED vars

ReadEvents ==
  /\ view.todo # <<>> /\ Head(view.todo) = "events"
  /\ view' = [view EXCEPT !.milestones = Records(log[view.run], MilestoneNames),
                          !.artifacts = Records(log[view.run], ArtifactNames),
                          !.todo = Tail(@)]
  /\ UNCHANGED vars

\* The answer is sent, or the request dies.
Close ==
  /\ view.run # None
  /\ view' = NoView
  /\ UNCHANGED vars

ViewStep == (\E r \in Runs : GetRunView(r)) \/ ReadRow \/ ReadEvents \/ Close

ViewNext == (Next /\ UNCHANGED view) \/ ViewStep

ViewSpec == ViewInit /\ [][ViewNext]_viewVars

-----------------------------------------------------------------------------
(* Properties                                                              *)

\* The milestones and artifacts that OrchestrationService.run emits before it
\* first writes state st.
ShownBefore(st) ==
  LET first == CHOOSE i \in DOMAIN Script :
                 Script[i] = Set(st) /\ \A j \in 1..(i - 1) : Script[j] # Set(st)
      before == {Script[j].what : j \in {j \in 1..(first - 1) : Script[j].do = "emit"}}
  IN before \cap (MilestoneNames \cup ArtifactNames)

(***************************************************************************)
(* The state in a finished snapshot is explained by its records, although  *)
(* the run moved on between the two statements: a run shown as planning,   *)
(* executing or completed is shown with all the milestones and artifacts   *)
(* that lead to that state.                                                *)
(***************************************************************************)
StateIsExplained ==
  view.run # None /\ view.todo = <<>> /\ view.state \in {"planning", "executing", "completed"}
  => ShownBefore(view.state) \subseteq
       {record.name : record \in view.milestones \cup view.artifacts}

=============================================================================
