------------------------------ MODULE EATasks ------------------------------
(***************************************************************************)
(* EATaskService and ApprovalEngine on one database: the tasks of a        *)
(* session, the approval each of them may ask for, and the event log of    *)
(* the run ea-{session} they share. A call of the service is a             *)
(* transaction: it reads the task, fixes the statements that are left to   *)
(* do, executes them one by one and commits. Another transaction reads     *)
(* what is committed; an UPDATE waits for the row, an append for the run   *)
(* (OneWriterPerRun of EventLog). A call that raises is rolled back.       *)
(***************************************************************************)
EXTENDS Naturals, Sequences, SequencesExt

CONSTANTS
  Tasks,     \* candidate task ids of the session: task-{session}, ...-1, ...-2
  Callers,   \* concurrent transactions
  Verbs,     \* the operations the callers use
  Decisions, \* the decisions that resolve_approval is called with
  MaxEvents, \* bound: no call begins once the log has so many events
  None       \* no task, no approval, nothing written

ASSUME DecisionsAssumption ==
  Decisions \subseteq
    {"granted", "denied_abandon", "denied_alternate", "timeout_retry", "timeout"}
ASSUME EATasksVerbsAssumption ==
  Verbs \subseteq {"create_task", "transition_task", "request_approval", "resolve_approval"}
ASSUME EATasksNoneAssumption ==
  None \notin Tasks \cup {"draft", "planning", "executing", "waiting_approval", "completed",
                          "failed", "cancelled", "pending", "granted", "denied", "timeout"}

VARIABLES
  task,     \* task[t]: tasks.state, None without a row
  approval, \* approval[t]: approvals.state of approval-{run}-{kind}-{t}
  log,      \* the events of the run in seq order: their task and what they say
  closed,   \* is runs.state terminal
  tx        \* tx[c]: the transaction of caller c

vars == <<task, approval, log, closed, tx>>

TaskStates == {"draft", "planning", "executing", "waiting_approval",
               "completed", "failed", "cancelled"}

\* transition_task: the states each state may be moved to.
Allowed(st) ==
  CASE st = "draft"            -> {"planning"}
    [] st = "planning"         -> {"executing", "cancelled"}
    [] st = "executing"        -> {"waiting_approval", "failed", "completed"}
    [] st = "waiting_approval" -> {"planning", "cancelled", "failed"}
    [] OTHER                   -> {}

\* resolve: the state of the approval that a decision leads to.
Ruling(d) ==
  CASE d = "granted" -> "granted"
    [] d \in {"denied_abandon", "denied_alternate"} -> "denied"
    [] d \in {"timeout_retry", "timeout"} -> "timeout"

\* Events whose id is made of the approval's id; the others get a fresh uuid.
FixedIds == Decisions \cup {"approval_waiting"}

-----------------------------------------------------------------------------
(* The statements of a call after its first read                           *)

Task(st)     == [do |-> "task", what |-> st]
Approval(st) == [do |-> "approval", what |-> st]
Event(name)  == [do |-> "event", what |-> name]
Pending      == [do |-> "pending", what |-> "pending"]

\* An event of task progress is called by the to_state of its payload.
TransitionSteps(st) == <<Task(st), Event(st)>>
CreateSteps         == TransitionSteps("draft")
RequestSteps ==
  <<Task("waiting_approval"), Approval("pending"), Event("approval_waiting"), Event("annotate")>>

\* terminal_transitions has the keys "denied" and "timeout", and no decision
\* is called "denied". The last write depends on the task's state as it was
\* read first.
PostState(d, seen) == IF d \in {"timeout_retry", "timeout"} THEN "failed" ELSE seen

\* Mutant: the decision is emitted and not persisted.
ResolveStepsUnsaved(d, seen) == <<Pending, Event(d)>>

ResolveSteps(d, seen) ==
  <<Pending, Approval(Ruling(d)), Event(d)>>
  \o IF PostState(d, seen) # seen THEN <<Task(PostState(d, seen))>> ELSE <<>>

-----------------------------------------------------------------------------

\* on: the task of the call; todo: the statements left; task, approval and
\* events: what the transaction wrote.
NoTx == [on |-> None, todo |-> <<>>, task |-> None, approval |-> None, events |-> <<>>]

Init ==
  /\ task = [t \in Tasks |-> None]
  /\ approval = [t \in Tasks |-> None]
  /\ log = <<>>
  /\ closed = FALSE
  /\ tx = [c \in Callers |-> NoTx]

Call(c, verb, t, steps) ==
  /\ verb \in Verbs
  /\ tx[c] = NoTx
  /\ Len(log) < MaxEvents
  /\ tx' = [tx EXCEPT ![c] = [NoTx EXCEPT !.on = t, !.todo = steps]]
  /\ UNCHANGED <<task, approval, log, closed>>

\* The id was free when the de-duplicating loop looked it up.
CreateTask(c, t) ==
  /\ task[t] = None
  /\ Call(c, "create_task", t, CreateSteps)

TransitionTask(c, t, st) ==
  /\ task[t] # None /\ st \in Allowed(task[t])
  /\ Call(c, "transition_task", t, TransitionSteps(st))

RequestApproval(c, t) ==
  /\ task[t] = "executing"
  /\ Call(c, "request_approval", t, RequestSteps)

ResolveApproval(c, t, d) ==
  /\ task[t] # None
  /\ Call(c, "resolve_approval", t, ResolveSteps(d, task[t]))

Head1(c) == Head(tx[c].todo)
AtStep(c, do) == tx[c].todo # <<>> /\ Head1(c).do = do
Others(c) == {d \in Callers \ {c} : tx[d].on = tx[c].on}

\* TaskRepositoryImpl.save: an INSERT or a blind UPDATE of the row.
SaveTask(c) ==
  /\ AtStep(c, "task")
  /\ \A d \in Others(c) : tx[d].task = None
  /\ tx' = [tx EXCEPT ![c].task = Head1(c).what, ![c].todo = Tail(@)]
  /\ UNCHANGED <<task, approval, log, closed>>

\* ApprovalRepositoryImpl.save, likewise.
SaveApproval(c) ==
  /\ AtStep(c, "approval")
  /\ \A d \in Others(c) : tx[d].approval = None
  /\ tx' = [tx EXCEPT ![c].approval = Head1(c).what, ![c].todo = Tail(@)]
  /\ UNCHANGED <<task, approval, log, closed>>

\* resolve_approval and resolve read the approval and refuse a decided one.
CheckPending(c) ==
  /\ AtStep(c, "pending")
  /\ approval[tx[c].on] = "pending"
  /\ tx' = [tx EXCEPT ![c].todo = Tail(@)]
  /\ UNCHANGED <<task, approval, log, closed>>

\* Mutant: every event has a fresh id.
IsNewAlways(c, name) == TRUE

IsNew(c, name) ==
  name \in FixedIds => ~ \E i \in DOMAIN log : log[i] = [task |-> tx[c].on, what |-> name]

\* Mutant: what append() refuses is skipped, and the call goes on.
AppendEventBestEffort(c) ==
  /\ AtStep(c, "event")
  /\ \A d \in Callers \ {c} : tx[d].events = <<>>
  /\ tx' = [tx EXCEPT ![c].events =
                         IF ~closed /\ IsNew(c, Head1(c).what)
                         THEN Append(@, Head1(c).what) ELSE @,
                      ![c].todo = Tail(@)]
  /\ UNCHANGED <<task, approval, log, closed>>

\* append(): the terminal guard, the locks of the run, the primary key.
AppendEvent(c) ==
  /\ AtStep(c, "event")
  /\ ~closed
  /\ \A d \in Callers \ {c} : tx[d].events = <<>>
  /\ IsNew(c, Head1(c).what)
  /\ tx' = [tx EXCEPT ![c].events = Append(@, Head1(c).what), ![c].todo = Tail(@)]
  /\ UNCHANGED <<task, approval, log, closed>>

Written(new, old) == IF new = None THEN old ELSE new

Commit(c) ==
  LET t == tx[c].on IN
  /\ tx[c] # NoTx /\ tx[c].todo = <<>>
  /\ task' = [task EXCEPT ![t] = Written(tx[c].task, @)]
  /\ approval' = [approval EXCEPT ![t] = Written(tx[c].approval, @)]
  /\ log' = log \o [i \in DOMAIN tx[c].events |-> [task |-> t, what |-> tx[c].events[i]]]
  /\ tx' = [tx EXCEPT ![c] = NoTx]
  /\ UNCHANGED closed

\* A refusal, an IntegrityError, a deadlock victim, a cancelled request.
Rollback(c) ==
  /\ tx[c] # NoTx
  /\ tx' = [tx EXCEPT ![c] = NoTx]
  /\ UNCHANGED <<task, approval, log, closed>>

\* Another service moves runs.state to a terminal state.
CloseRun ==
  /\ ~closed
  /\ closed' = TRUE
  /\ UNCHANGED <<task, approval, log, tx>>

Next ==
  \/ \E c \in Callers :
       \/ \E t \in Tasks :
            \/ CreateTask(c, t)
            \/ \E st \in TaskStates : TransitionTask(c, t, st)
            \/ RequestApproval(c, t)
            \/ \E d \in Decisions : ResolveApproval(c, t, d)
       \/ SaveTask(c)
       \/ SaveApproval(c)
       \/ CheckPending(c)
       \/ AppendEvent(c)
       \/ Commit(c)
       \/ Rollback(c)
  \/ CloseRun

Spec == Init /\ [][Next]_vars

-----------------------------------------------------------------------------
(* Properties                                                              *)

ApprovalStates == {"pending", "granted", "denied", "timeout"}
EventNames == TaskStates \cup FixedIds \cup {"annotate"}

Entries == [task : Tasks, what : EventNames]
Statements ==
  [do : {"task"}, what : TaskStates] \cup [do : {"approval"}, what : ApprovalStates]
  \cup [do : {"event"}, what : EventNames] \cup {Pending}
Transactions ==
  [on : Tasks \cup {None}, todo : Seq(Statements), task : TaskStates \cup {None},
   approval : ApprovalStates \cup {None}, events : Seq(EventNames)]

TypeOK ==
  /\ task \in [Tasks -> TaskStates \cup {None}]
  /\ approval \in [Tasks -> ApprovalStates \cup {None}]
  /\ log \in Seq(Entries)
  /\ closed \in BOOLEAN
  /\ tx \in [Callers -> Transactions]

\* The positions of the log at which task t is said to be one of the names.
Said(t, names) == {i \in DOMAIN log : log[i].task = t /\ log[i].what \in names}

\* The last word that the log has on task t among these names.
LastWord(t, names, word) ==
  \E i \in Said(t, names) : log[i].what = word /\ \A j \in Said(t, names) : j <= i

(***************************************************************************)
(* The approval record and run.approval_waiting come and go together: the  *)
(* event is written after the record is saved, and neither survives alone. *)
(***************************************************************************)
WaitingMatchesRecord ==
  \A t \in Tasks : approval[t] # None <=> Said(t, {"approval_waiting"}) # {}

(***************************************************************************)
(* However many resolvers found the approval pending, its state is the     *)
(* ruling of the last decision event of the log.                           *)
(***************************************************************************)
LastDecisionRules ==
  \A t \in Tasks :
    /\ Said(t, Decisions) = {} <=> approval[t] \in {None, "pending"}
    /\ \A d \in Decisions : LastWord(t, Decisions, d) => approval[t] = Ruling(d)

(***************************************************************************)
(* request() overwrites the record of an earlier request under the same    *)
(* id; the fixed id of the waiting event undoes it: a decided approval     *)
(* never becomes pending again.                                            *)
(***************************************************************************)
DecidedStaysDecided ==
  [][\A t \in Tasks : approval[t] \in ApprovalStates \ {"pending"} =>
       approval'[t] \notin {None, "pending"}]_vars

\* What the log can say of a task that moves it or ends it: granted and the
\* alternate path leave the task to a transition of the caller.
Words == TaskStates \cup {"approval_waiting", "timeout", "timeout_retry", "denied_abandon"}

(***************************************************************************)
(* The task row never drifts from the log: where the last word of the log  *)
(* on a task is a transition or an approval request, the task is in the    *)
(* state it names, although every save overwrites what another call wrote. *)
(* Of a task whose last word is a timeout or an abandoned approval nothing *)
(* is asserted here: see AbandonedTasksEnd.                                *)
(***************************************************************************)
TaskStateIsLogged ==
  \A t \in Tasks :
    /\ \A st \in TaskStates : LastWord(t, Words, st) => task[t] = st
    /\ LastWord(t, Words, "approval_waiting") => task[t] = "waiting_approval"

-----------------------------------------------------------------------------
(* Statements of the documents and tests that the code does not keep       *)

(***************************************************************************)
(* resolve() rejects a second resolution: one decision event per approval. *)
(***************************************************************************)
DecidedOnce == \A t \in Tasks : \A i, j \in Said(t, Decisions) : i = j

(***************************************************************************)
(* "Denied (abandon): task transitions to cancelled" (ea-operator-guide).  *)
(* resolve_approval looks the decision up under "denied", finds nothing    *)
(* and leaves the task waiting for an approval that is decided.            *)
(***************************************************************************)
AbandonedTasksEnd ==
  \A t \in Tasks : LastWord(t, Words, "denied_abandon") => task[t] = "cancelled"
=============================================================================
