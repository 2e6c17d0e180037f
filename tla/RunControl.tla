----------------------------- MODULE RunControl -----------------------------
(***************************************************************************)
(* The verbs that drive a run, as coroutines that interleave at every      *)
(* await on a repository:                                                  *)
(*   RunLifecycleService.start, .resume and .cancel                        *)
(*   OrchestrationService.run, the five phases of a run                    *)
(*   ResumeService.rehydrate_all, recovery from pending-runs.yaml          *)
(* A statement of a repository is one step and its effect is visible to    *)
(* the next step of any coroutine; the transactions around statements are  *)
(* in EventLog. append() is three statements, as there: the guard on       *)
(* runs.state, the maximum of seq and the INSERT. Every event these verbs  *)
(* write has a fixed id per run, so an event is its name, and the primary  *)
(* key refuses the name twice.                                             *)
(***************************************************************************)
EXTENDS Naturals, Sequences, SequencesExt

CONSTANTS
  Runs,         \* run identifiers; a task has one, run-{task.id}
  Callers,      \* concurrent coroutines
  Verbs,        \* the verbs they call
  PendingFiles, \* possible contents of pending-runs.yaml, sequences of Entry
  None          \* no run row; no run of a call

\* An entry of pending-runs.yaml: does its checkpoint belong to another run,
\* does its manifest hash differ from the persisted manifest's.
Entry == [run : Runs, foreign : BOOLEAN, drifted : BOOLEAN]

ASSUME PendingFilesAssumption == PendingFiles \subseteq Seq(Entry)
ASSUME VerbsAssumption ==
  Verbs \subseteq {"start", "resume", "cancel", "orchestrate", "rehydrate"}

VARIABLES
  state, \* state[r]: runs.state, None without a row
  log,   \* log[r]: the names of the events of run r in seq order
  call   \* call[c]: the verb coroutine c executes and its locals

vars == <<state, log, call>>

TerminalStates == {"completed", "failed", "cancelled"}
States ==
  {"created", "planning", "executing", "waiting_approval"} \cup TerminalStates

ASSUME NoneAssumption == None \notin Runs \cup States

-----------------------------------------------------------------------------
(* What OrchestrationService.run does, in order: emit an event or overwrite *)
(* the state. The terminal guard of _emit_progress looks at the Run that    *)
(* the last update_state returned, which is never terminal.                 *)

Emit(name) == [do |-> "emit", what |-> name]
Set(st)    == [do |-> "set", what |-> st]

\* Mutant: a phase writes the state before it emits its events.
ScriptStateFirst ==
  << Set("planning"), Emit("intake.received"), Emit("intake.accepted"),
     Emit("plan.drafted"), Emit("plan.approval_requested"), Emit("plan.ready"),
     Set("executing"), Emit("execute.tool_invoked"),
     Set("completed"), Emit("handoff.envelope_emitted"), Emit("completed") >>

Script ==
  << Emit("intake.received"), Emit("intake.accepted"), Set("planning"),
     Emit("plan.drafted"), Emit("plan.approval_requested"), Emit("plan.ready"),
     Set("planning"),
     Emit("execute.tool_invoked"), Emit("execute.artifact_emitted"),
     Emit("execute.waiting_approval"), Set("executing"),
     Emit("review.findings_recorded"), Set("planning"),
     Emit("handoff.envelope_emitted"), Emit("usage-summary"),
     Emit("completed"), Set("completed") >>

\* The steps that emit, and their events.
Emits == {i \in DOMAIN Script : Script[i].do = "emit"}
ScriptEvents == {Script[i].what : i \in Emits}

\* What run() emits before it emits e.
EmittedBefore ==
  [e \in ScriptEvents |->
     {Script[j].what : j \in {j \in Emits : \A k \in Emits : Script[k].what = e => j < k}}]

\* The events of the other verbs.
VerbEvents == {"created", "resumed", "cancelled", "resume-blocked"}

EventNames == ScriptEvents \cup VerbEvents

\* Those that end a run.
TerminalNames == {"completed", "cancelled"}

\* The event a lifecycle verb appends; rehydrate_all calls resume.
EventOf(verb) ==
  CASE verb = "start" -> "created"
    [] verb \in {"resume", "rehydrate"} -> "resumed"
    [] verb = "cancel" -> "cancelled"

-----------------------------------------------------------------------------

\* at: the await a coroutine is suspended at; step: its place in the script;
\* todo: the entries it has not recovered yet; stage: the statement of append()
\* it executes next, where it appends; base: the maximum of seq it has read.
Call(verb, r, at, step, todo) ==
  [verb |-> verb, run |-> r, at |-> at, step |-> step, todo |-> todo,
   stage |-> "guard", base |-> 0]

Idle == Call("idle", None, "idle", 0, <<>>)

Init ==
  /\ state = [r \in Runs |-> None]
  /\ log = [r \in Runs |-> <<>>]
  /\ call = [c \in Callers |-> Idle]

Exists(r)   == state[r] # None
Terminal(r) == state[r] \in TerminalStates

Return(c)      == call' = [call EXCEPT ![c] = Idle]
Suspend(c, at) == call' = [call EXCEPT ![c] = Call(@.verb, @.run, at, @.step, @.todo)]

NextStep(c) ==
  IF call[c].step = Len(Script) THEN Return(c)
  ELSE call' = [call EXCEPT ![c] = Call("orchestrate", @.run, "step", @.step + 1, <<>>)]

\* The pass of rehydrate_all goes on behind the head of its list.
NextEntry(c) ==
  call' = [call EXCEPT ![c] = Call("rehydrate", None, "entry", 0, Tail(call[c].todo))]

-----------------------------------------------------------------------------
(* RunEventRepositoryImpl.append, for every verb                           *)

\* Where a coroutine appends, and what: the event that ends start, resume and
\* cancel, or one recovery; run.progress of a blocked recovery; a step that
\* emits.
Appending(c) ==
  \/ call[c].at \in {"append", "blocked"}
  \/ call[c].at = "step" /\ Script[call[c].step].do = "emit"

EventName(c) ==
  CASE call[c].at = "append"  -> EventOf(call[c].verb)
    [] call[c].at = "blocked" -> "resume-blocked"
    [] call[c].at = "step"    -> Script[call[c].step].what

\* What a verb does when its append went through.
Appended(c) ==
  \/ call[c].at = "step" /\ NextStep(c)
  \/ call[c].at # "step" /\ call[c].verb = "rehydrate" /\ NextEntry(c)
  \/ call[c].at # "step" /\ call[c].verb # "rehydrate" /\ Return(c)

\* Mutant: a refused event of run() is logged and forgotten.
RefusedBestEffort(c) ==
  IF call[c].at = "step"
  THEN NextStep(c)
  ELSE IF call[c].at = "append" /\ call[c].verb = "rehydrate"
  THEN Suspend(c, "blocked")
  ELSE Return(c)

\* What it does when append() raises: out of start, resume, cancel and run();
\* rehydrate_all catches what resume raises and emits resume-blocked, outside
\* the try, so that this event's failure ends the pass.
Refused(c) ==
  IF call[c].at = "append" /\ call[c].verb = "rehydrate"
  THEN Suspend(c, "blocked")
  ELSE Return(c)

\* 1. The guard on runs.state.
Guard(c) ==
  /\ Appending(c)
  /\ call[c].stage = "guard"
  /\ \/ Terminal(call[c].run) /\ Refused(c)
     \/ ~Terminal(call[c].run) /\ call' = [call EXCEPT ![c].stage = "max"]
  /\ UNCHANGED <<state, log>>

\* 2. The maximum of seq. Whoever waits for a row lock here still has the
\* maximum of before it waited (EventLog).
ComputeNextSeq(c) ==
  /\ Appending(c)
  /\ call[c].stage = "max"
  /\ call' = [call EXCEPT ![c].stage = "insert", ![c].base = Len(log[call[c].run])]
  /\ UNCHANGED <<state, log>>

\* Mutant: ids that never repeat.
IsFreeUnkeyed(c) == call[c].base = Len(log[call[c].run])

\* UNIQUE(run_id, seq) and the primary key.
IsFree(c) ==
  /\ call[c].base = Len(log[call[c].run])
  /\ EventName(c) \notin ToSet(log[call[c].run])

\* 3. The INSERT.
Insert(c) ==
  /\ Appending(c)
  /\ call[c].stage = "insert"
  /\ \/ /\ IsFree(c)
        /\ log' = [log EXCEPT ![call[c].run] = Append(@, EventName(c))]
        /\ Appended(c)
     \/ /\ ~IsFree(c)
        /\ Refused(c)
        /\ UNCHANGED log
  /\ UNCHANGED state

-----------------------------------------------------------------------------
(* RunLifecycleService                                                     *)

\* start: runs.create. A run that exists is an IntegrityError.
Start(c, r) ==
  /\ call[c] = Idle
  /\ ~Exists(r)
  /\ state' = [state EXCEPT ![r] = "created"]
  /\ call' = [call EXCEPT ![c] = Call("start", r, "latest", 0, <<>>)]
  /\ UNCHANGED log

\* resume and cancel: runs.get, then the terminal check on what it returned.
\* A resume_kind outside _VALID_RESUME_KINDS is refused before any await.
Check(c, r, verb) ==
  /\ call[c] = Idle
  /\ Exists(r) /\ ~Terminal(r)
  /\ call' = [call EXCEPT ![c] = Call(verb, r, "latest", 0, <<>>)]
  /\ UNCHANGED <<state, log>>

\* latest_seq, which start asserts to be 0; append() assigns the seq anew.
LatestSeq(c) ==
  LET r == call[c].run IN
  /\ call[c].at = "latest"
  /\ IF call[c].verb = "start" /\ log[r] # <<>>
     THEN Return(c)
     ELSE Suspend(c, "append")
  /\ UNCHANGED <<state, log>>

-----------------------------------------------------------------------------
(* OrchestrationService                                                    *)

\* run(): the caller hands in a Run that it read in state created.
Orchestrate(c, r) ==
  /\ call[c] = Idle
  /\ state[r] = "created"
  /\ call' = [call EXCEPT ![c] = Call("orchestrate", r, "step", 1, <<>>)]
  /\ UNCHANGED <<state, log>>

\* _update_state: whatever the state has become in the meantime.
SetStep(c) ==
  LET this == Script[call[c].step] IN
  /\ call[c].at = "step"
  /\ this.do = "set"
  /\ state' = [state EXCEPT ![call[c].run] = this.what]
  /\ NextStep(c)
  /\ UNCHANGED log

-----------------------------------------------------------------------------
(* ResumeService                                                           *)

Rehydrate(c, file) ==
  /\ call[c] = Idle
  /\ call' = [call EXCEPT ![c] = Call("rehydrate", None, "entry", 0, file)]
  /\ UNCHANGED <<state, log>>

\* One entry of the file: a run that is unknown or terminal is skipped, a
\* foreign checkpoint or a changed manifest raises out of the whole pass.
RehydrateEntry(c) ==
  LET todo == call[c].todo IN
  /\ call[c].at = "entry"
  /\ \/ /\ todo = <<>>
        /\ Return(c)
     \/ /\ todo # <<>>
        /\ ~Exists(Head(todo).run) \/ Terminal(Head(todo).run)
        /\ call' = [call EXCEPT ![c].todo = Tail(@)]
     \/ /\ todo # <<>>
        /\ Exists(Head(todo).run) /\ ~Terminal(Head(todo).run)
        /\ IF Head(todo).foreign \/ Head(todo).drifted
           THEN Return(c)
           ELSE call' = [call EXCEPT ![c] =
                           Call("rehydrate", Head(todo).run, "check", 0, todo)]
  /\ UNCHANGED <<state, log>>

\* resume() reads the run again.
RehydrateCheck(c) ==
  /\ call[c].at = "check"
  /\ Suspend(c, IF Terminal(call[c].run) THEN "blocked" ELSE "latest")
  /\ UNCHANGED <<state, log>>

-----------------------------------------------------------------------------

\* A coroutine dies between two awaits: cancelled with its request, or with
\* the whole process. What it has written stays.
Die(c) ==
  /\ call[c] # Idle
  /\ Return(c)
  /\ UNCHANGED <<state, log>>

Begin(c) ==
  \/ \E r \in Runs :
       \/ "start" \in Verbs /\ Start(c, r)
       \/ \E verb \in Verbs \cap {"resume", "cancel"} : Check(c, r, verb)
       \/ "orchestrate" \in Verbs /\ Orchestrate(c, r)
  \/ "rehydrate" \in Verbs /\ \E file \in PendingFiles : Rehydrate(c, file)

Continue(c) ==
  \/ LatestSeq(c)
  \/ Guard(c)
  \/ ComputeNextSeq(c)
  \/ Insert(c)
  \/ SetStep(c)
  \/ RehydrateEntry(c)
  \/ RehydrateCheck(c)

Next == \E c \in Callers : Begin(c) \/ Continue(c) \/ Die(c)

Spec == Init /\ [][Next]_vars

-----------------------------------------------------------------------------
(* Properties                                                              *)

TypeOK ==
  /\ state \in [Runs -> States \cup {None}]
  /\ DOMAIN log = Runs /\ \A r \in Runs : ToSet(log[r]) \subseteq EventNames
  /\ DOMAIN call = Callers
  /\ \A c \in Callers :
       /\ call[c].verb \in Verbs \cup {"idle"}
       /\ call[c].run \in Runs \cup {None}
       /\ call[c].at \in {"idle", "latest", "append", "step", "entry", "check", "blocked"}
       /\ call[c].step \in 0..Len(Script)
       /\ ToSet(call[c].todo) \subseteq Entry
       /\ call[c].stage \in {"guard", "max", "insert"}
       /\ call[c].base \in Nat

(***************************************************************************)
(* The events of the script appear in the log in its order, none skipped   *)
(* and none twice, whoever orchestrates the run, however many try at once  *)
(* and wherever one of them dies: before each of them stand exactly those  *)
(* that run() emits before it.                                             *)
(***************************************************************************)
ScriptInOrder ==
  \A r \in Runs : \A i \in DOMAIN log[r] :
    log[r][i] \in ScriptEvents =>
      {log[r][h] : h \in 1..(i - 1)} \cap ScriptEvents = EmittedBefore[log[r][i]]

(***************************************************************************)
(* The fixed event ids fence the orchestrators of a run: no two get past   *)
(* the first event, although run() checks only the Run it was handed.      *)
(***************************************************************************)
SoleOrchestrator ==
  \A c, d \in Callers :
    /\ call[c].verb = "orchestrate" /\ call[d].verb = "orchestrate"
    /\ call[c].run = call[d].run
    /\ call[c].step > 1 /\ call[d].step > 1
    => c = d

\* The statement of append() that c executes next will refuse its event.
AboutToBeRefused(c) ==
  /\ Appending(c)
  /\ \/ call[c].stage = "guard" /\ Terminal(call[c].run)
     \/ call[c].stage = "insert" /\ ~IsFree(c)

(***************************************************************************)
(* An orchestration past its first event that is not killed fails for one  *)
(* reason only: a start, resume, cancel or recovery of the same run put an *)
(* event into the log between its MAX and its INSERT and took its seq.     *)
(* Never the state it wrote itself, never an event of its own, never       *)
(* another orchestration. Of a run with run.cancelled nothing is claimed.  *)
(***************************************************************************)
RefusedOnlyByVerbs ==
  \A c \in Callers :
    LET events == log[call[c].run]
        base == call[c].base
    IN
    call[c].at = "step" /\ call[c].step > 1 /\ AboutToBeRefused(c) =>
      \/ "cancelled" \in ToSet(events)
      \/ call[c].stage = "insert" /\ base < Len(events) /\ events[base + 1] \in VerbEvents

(***************************************************************************)
(* _do_handoff emits run.completed before it writes the state: a run in    *)
(* state completed has the event that says so, whatever was interrupted.   *)
(***************************************************************************)
CompletedIsRecorded ==
  \A r \in Runs : state[r] = "completed" => "completed" \in ToSet(log[r])

(***************************************************************************)
(* update_state overwrites without looking, yet no step moves a run out of *)
(* state completed: nobody is left who could.                              *)
(***************************************************************************)
CompletedIsFinal ==
  [][\A r \in Runs : state[r] = "completed" => state'[r] = "completed"]_vars

-----------------------------------------------------------------------------
(* Statements of the documents that the code does not keep                 *)

(***************************************************************************)
(* RT-002: no non-terminal event after completion, failure or              *)
(* cancellation. cancel() appends run.cancelled and leaves runs.state, the *)
(* only thing append() looks at.                                           *)
(***************************************************************************)
NothingAfterTerminalEvent ==
  \A r \in Runs : \A i \in 1..(Len(log[r]) - 1) : log[r][i] \notin TerminalNames

=============================================================================
