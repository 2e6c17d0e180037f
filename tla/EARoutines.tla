----------------------------- MODULE EARoutines -----------------------------
(***************************************************************************)
(* The EA routines on top of EATaskService. EACoroutine.execute looks up   *)
(* the routine among the resolved assets of the profile and hands over to  *)
(* the scheduler, the inbox triage or the briefing. The first two drive    *)
(* one task per item through the service, call by call, and apply the      *)
(* decisions they were given; operators decide the same approvals and move *)
(* the same tasks through calls of their own. Every call is a transaction  *)
(* of EATasks.                                                             *)
(***************************************************************************)
EXTENDS EATasks

CONSTANTS
  Routine,  \* the caller that executes a routine
  Assets,   \* resolved assets of the EA profile, in order
  Requests, \* what execute is called with: asset id, items, decisions
  Blank     \* the title of an item without a subject

Operators == Callers \ {Routine}

ASSUME EARoutinesAssumption ==
  /\ Routine \in Callers
  /\ None \notin Decisions \cup {"denied_alternate"}
  /\ \A rq \in Requests :
       /\ Len(rq.items) \in Nat
       /\ \A k \in DOMAIN rq.decisions : rq.decisions[k] \in Decisions

VARIABLES
  ro,       \* the execution of the routine
  asked,    \* operators that have made their call
  briefing  \* the events that the briefing appended to its run

routineVars == <<task, approval, log, closed, tx, ro, asked, briefing>>

-----------------------------------------------------------------------------
(* Choosing the handler                                                    *)

\* resolve_routine_slices and _require_routine: the slices with that id.
RoutineAssets(id) ==
  {i \in DOMAIN Assets : Assets[i].kind = "routine" /\ Assets[i].id = id}

\* execute: the first handler that the id mentions, "" if it mentions none.
Handler(asset) ==
  CASE "briefing" \in asset.mentions  -> "briefing"
    [] "scheduler" \in asset.mentions -> "scheduler"
    [] "triage" \in asset.mentions    -> "triage"
    [] OTHER -> ""

-----------------------------------------------------------------------------
(* What a handler does with one item                                       *)

IndexKey == <<"1", "2", "3">>

\* Mutant: without an entry the scheduler grants.
DecisionForAuto(kind, title, nr, decisions) ==
  IF title \in DOMAIN decisions THEN decisions[title]
  ELSE IF kind = "scheduler" /\ IndexKey[nr] \in DOMAIN decisions
       THEN decisions[IndexKey[nr]] ELSE "granted"

\* By title; in the scheduler, failing that, by position.
DecisionFor(kind, title, nr, decisions) ==
  IF title \in DOMAIN decisions THEN decisions[title]
  ELSE IF kind = "scheduler" /\ IndexKey[nr] \in DOMAIN decisions
       THEN decisions[IndexKey[nr]] ELSE None

Move(st) == <<[verb |-> "transition_task", arg |-> st]>>
Ask      == <<[verb |-> "request_approval", arg |-> None]>>
Create   == <<[verb |-> "create_task", arg |-> None]>>
Decide(d) == IF d = None THEN <<>> ELSE <<[verb |-> "resolve_approval", arg |-> d]>>

Opening == Create \o Move("planning") \o Move("executing") \o Ask

\* EAIboxTriageHandler.run: a granted task stays where it is.
TriageSteps(d) == Opening \o Decide(d)

\* EASchedulerHandler.run.
SchedulerSteps(d) ==
  Opening \o Decide(d)
  \o CASE d = "granted" -> Move("planning") \o Move("executing") \o Move("completed")
       [] d = "denied_alternate" -> Move("planning")
       [] OTHER -> <<>>

Item == ro.rq.items[ro.nr]
Decision == DecisionFor(ro.kind, Item, ro.nr, ro.rq.decisions)
Steps == IF ro.kind = "triage" THEN TriageSteps(Decision) ELSE SchedulerSteps(Decision)

\* EABriefingHandler: the milestones of _build_result that the catalog knows,
\* then the artifact. The catalog has no plan.review: the one between the
\* draft and the ready plan is left out.
BriefingEvents ==
  <<"intake.received", "intake.accepted", "plan.drafted", "plan.ready", "artifact">>

-----------------------------------------------------------------------------

\* nr, step: the item and its next call; on: its task; outcomes: the result.
NotStarted ==
  [status |-> "idle", kind |-> "", rq |-> None, nr |-> 1, step |-> 1, on |-> None,
   outcomes |-> <<>>]

RoutineInit ==
  /\ Init
  /\ ro = NotStarted
  /\ asked = {}
  /\ briefing = <<>>

tasksUnchanged == UNCHANGED <<task, approval, log, closed, tx>>

\* EACoroutine.execute; an unknown asset, or one without a handler, raises
\* before anything has happened.
Execute(rq) ==
  /\ ro = NotStarted
  /\ RoutineAssets(rq.asset) # {}
  /\ LET asset == Assets[CHOOSE i \in RoutineAssets(rq.asset) :
                           \A j \in RoutineAssets(rq.asset) : i <= j]
     IN /\ Handler(asset) # ""
        /\ ro' = [NotStarted EXCEPT !.status = "running", !.kind = Handler(asset), !.rq = rq]
  /\ UNCHANGED <<asked, briefing>> /\ tasksUnchanged

Running(kinds) == ro.status = "running" /\ ro.kind \in kinds
AtItem == Running({"scheduler", "triage"}) /\ ro.nr <= Len(ro.rq.items)

\* A blank subject is malformed: the triage skips the item.
SkipMalformed ==
  /\ AtItem /\ ro.kind = "triage" /\ Item = Blank
  /\ ro' = [ro EXCEPT !.nr = @ + 1, !.outcomes = Append(@, [task |-> None, what |-> "malformed"])]
  /\ UNCHANGED <<asked, briefing>> /\ tasksUnchanged

InItem == AtItem /\ ~(ro.kind = "triage" /\ Item = Blank) /\ tx[Routine] = NoTx

\* The next call of the script begins.
BeginCreate ==
  /\ InItem /\ Steps[ro.step].verb = "create_task"
  /\ \E t \in Tasks : CreateTask(Routine, t) /\ ro' = [ro EXCEPT !.on = t]
  /\ UNCHANGED <<asked, briefing>>

BeginCall ==
  /\ InItem
  /\ LET s == Steps[ro.step] IN
       \/ s.verb = "transition_task" /\ TransitionTask(Routine, ro.on, s.arg)
       \/ s.verb = "request_approval" /\ RequestApproval(Routine, ro.on)
       \/ s.verb = "resolve_approval" /\ ResolveApproval(Routine, ro.on, s.arg)
  /\ UNCHANGED <<ro, asked, briefing>>

\* Mutant: the outcome is counted before the transitions that follow it.
CallCommitsEarly ==
  /\ tx[Routine] # NoTx /\ Commit(Routine)
  /\ ro' = IF Steps[ro.step].verb = "resolve_approval"
           THEN [ro EXCEPT !.nr = @ + 1, !.step = 1, !.on = None,
                   !.outcomes = Append(@, [task |-> ro.on, what |-> Decision])]
           ELSE IF ro.step = Len(Steps)
           THEN [ro EXCEPT !.nr = @ + 1, !.step = 1, !.on = None,
                   !.outcomes = Append(@, [task |-> ro.on, what |-> Decision])]
           ELSE [ro EXCEPT !.step = @ + 1]
  /\ UNCHANGED <<asked, briefing>>

\* The call returns; after the last one of an item its outcome is counted.
CallCommits ==
  /\ tx[Routine] # NoTx /\ Commit(Routine)
  /\ ro' = IF ro.step < Len(Steps) THEN [ro EXCEPT !.step = @ + 1]
           ELSE [ro EXCEPT !.nr = @ + 1, !.step = 1, !.on = None,
                   !.outcomes = Append(@, [task |-> ro.on, what |-> Decision])]
  /\ UNCHANGED <<asked, briefing>>

\* The call raises inside its transaction, or refuses the state of the task:
\* the exception ends the routine, and its result is lost.
CallRaises ==
  /\ tx[Routine] # NoTx /\ Rollback(Routine)
  /\ ro' = [ro EXCEPT !.status = "failed"]
  /\ UNCHANGED <<asked, briefing>>

CallRefused ==
  /\ InItem
  /\ LET s == Steps[ro.step] IN
       \/ s.verb = "transition_task" /\ s.arg \notin Allowed(task[ro.on])
       \/ s.verb = "request_approval" /\ task[ro.on] # "executing"
  /\ ro' = [ro EXCEPT !.status = "failed"]
  /\ UNCHANGED <<asked, briefing>> /\ tasksUnchanged

Finish ==
  /\ \/ Running({"scheduler", "triage"}) /\ ro.nr > Len(ro.rq.items)
     \/ Running({"briefing"}) /\ ro.step > Len(BriefingEvents)
  /\ ro' = [ro EXCEPT !.status = "done"]
  /\ UNCHANGED <<asked, briefing>> /\ tasksUnchanged

\* _emit_milestones and _emit_artifact: fresh ids, one append after the other;
\* one that raises ends the routine.
EmitBriefing ==
  /\ Running({"briefing"}) /\ ro.step <= Len(BriefingEvents)
  /\ \/ /\ briefing' = Append(briefing, BriefingEvents[ro.step])
        /\ ro' = [ro EXCEPT !.step = @ + 1]
     \/ /\ ro' = [ro EXCEPT !.status = "failed"]
        /\ UNCHANGED briefing
  /\ UNCHANGED asked /\ tasksUnchanged

-----------------------------------------------------------------------------
(* Operators: each makes one call                                          *)

OperatorCall(o) ==
  /\ o \notin asked
  /\ \E t \in Tasks :
       \/ \E d \in Decisions : ResolveApproval(o, t, d)
       \/ \E st \in TaskStates : TransitionTask(o, t, st)
  /\ asked' = asked \cup {o}
  /\ UNCHANGED <<ro, briefing>>

\* A statement of c's call, the routine's or an operator's.
Statement(c) ==
  /\ SaveTask(c) \/ SaveApproval(c) \/ CheckPending(c) \/ AppendEvent(c)
  /\ UNCHANGED <<ro, asked, briefing>>

OperatorEnds(o) ==
  /\ Commit(o) \/ Rollback(o)
  /\ UNCHANGED <<ro, asked, briefing>>

RunCloses == CloseRun /\ UNCHANGED <<ro, asked, briefing>>

RoutineNext ==
  \/ \E rq \in Requests : Execute(rq)
  \/ SkipMalformed
  \/ BeginCreate
  \/ BeginCall
  \/ CallCommits
  \/ CallRaises
  \/ CallRefused
  \/ Finish
  \/ EmitBriefing
  \/ \E o \in Operators : OperatorCall(o) \/ OperatorEnds(o)
  \/ \E c \in Callers : Statement(c)
  \/ RunCloses

-----------------------------------------------------------------------------
(* Fairness: coroutines are scheduled, statements that can be executed are *)
(* executed, and the database raises what cannot: a decided approval, a    *)
(* terminal run, a taken id, and the deadlock of a transaction that holds  *)
(* a task and waits for the run with one that holds the run and waits for  *)
(* the task.                                                               *)

Blocked(c) ==
  \/ AtStep(c, "task") /\ \E d \in Others(c) : tx[d].task # None
  \/ AtStep(c, "approval") /\ \E d \in Others(c) : tx[d].approval # None
  \/ AtStep(c, "event") /\ \E d \in Callers \ {c} : tx[d].events # <<>>

\* Mutant: deadlocks are not detected.
MustRaiseUndetected(c) ==
  \/ AtStep(c, "pending") /\ approval[tx[c].on] # "pending"
  \/ AtStep(c, "event") /\ (closed \/ ~IsNew(c, Head1(c).what))

MustRaise(c) ==
  \/ AtStep(c, "pending") /\ approval[tx[c].on] # "pending"
  \/ AtStep(c, "event") /\ (closed \/ ~IsNew(c, Head1(c).what))
  \/ Blocked(c) /\ \E d \in Callers \ {c} : Blocked(d)

Scheduled ==
  \/ SkipMalformed \/ BeginCreate \/ BeginCall \/ CallCommits \/ CallRefused \/ Finish
  \/ EmitBriefing
  \/ Statement(Routine)
  \/ MustRaise(Routine) /\ CallRaises

OperatorScheduled(o) ==
  \/ Statement(o)
  \/ tx[o].todo = <<>> /\ OperatorEnds(o)
  \/ MustRaise(o) /\ OperatorEnds(o)

RoutineSpec ==
  /\ RoutineInit /\ [][RoutineNext]_routineVars
  /\ WF_routineVars(Scheduled)
  /\ \A o \in Operators : WF_routineVars(OperatorScheduled(o))

-----------------------------------------------------------------------------
(* Properties                                                              *)

(***************************************************************************)
(* What a routine reports has happened: every decision it counts is in the *)
(* log, a task it reports as granted by the scheduler went on to completed *)
(* after the grant, and a briefing that is done ends in its artifact after *)
(* every milestone.                                                        *)
(***************************************************************************)
OutcomesAreLogged ==
  /\ \A i \in DOMAIN ro.outcomes :
       LET o == ro.outcomes[i] IN
       /\ o.what \in Decisions => Said(o.task, {o.what}) # {}
       /\ o.what = "granted" /\ ro.kind = "scheduler" =>
            \E a, b \in DOMAIN log :
              /\ a < b
              /\ log[a] = [task |-> o.task, what |-> "granted"]
              /\ log[b] = [task |-> o.task, what |-> "completed"]
  /\ ro.kind = "briefing" /\ ro.status = "done" => briefing = BriefingEvents

(***************************************************************************)
(* No auto-grant: where no operator has moved or decided a task, it is     *)
(* past its approval only if the decisions that the routine was given      *)
(* grant something, under its title or its position.                       *)
(***************************************************************************)
NothingGrantedUnasked ==
  \A i \in DOMAIN ro.outcomes :
    LET o == ro.outcomes[i]
        given == {ro.rq.decisions[k] : k \in DOMAIN ro.rq.decisions
                                              \cap {ro.rq.items[i], IndexKey[i]}}
    IN asked = {} /\ o.task # None =>
         /\ task[o.task] \in {"planning", "completed"} => given \cap {"granted", "denied_alternate"} # {}
         /\ given = {} => task[o.task] = "waiting_approval"

(***************************************************************************)
(* A routine comes to an end, done or failed, whatever operators do to its *)
(* tasks meanwhile: no two transactions wait for each other for ever.      *)
(***************************************************************************)
RoutineEnds == ro.status = "running" ~> ro.status \in {"done", "failed"}
=============================================================================
