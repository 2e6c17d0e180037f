-------------------------- MODULE RunControlProofs --------------------------
(***************************************************************************)
(* For any runs, coroutines, verbs and pending-runs.yaml: the fixed event  *)
(* ids admit one orchestrator of a run, a completed run has the event that *)
(* says so, and it stays completed. The first is why the others hold:      *)
(* update_state overwrites what it finds, so everything rests on nobody    *)
(* being left who would still write.                                       *)
(***************************************************************************)
EXTENDS RunViews, SequenceTheorems, TLAPS

Places == {"idle", "latest", "append", "step", "entry", "check", "blocked"}

Stages == {"guard", "max", "insert"}

Calls ==
  [verb : Verbs \cup {"idle"}, run : Runs \cup {None}, at : Places,
   step : 0..17, todo : Seq(Entry), stage : Stages, base : Nat]

\* What the verbs may append; among them names that the script only sets.
Names ==
  {Script[i].what : i \in 1..17} \cup {"created", "resumed", "cancelled", "resume-blocked"}

Types ==
  /\ state \in [Runs -> States \cup {None}]
  /\ log \in [Runs -> Seq(Names)]
  /\ call \in [Callers -> Calls]

\* An orchestration is suspended at a step of the script, and nobody else is;
\* a recovery past the head of its list still has that head.
Placed(k) ==
  /\ k.verb = "orchestrate" <=> k.at = "step"
  /\ k.verb = "idle" <=> k.at = "idle"
  /\ k.at \notin {"idle", "entry"} => k.run \in Runs
  /\ k.at = "step" => k.step \in 1..17
  /\ k.at \in {"entry", "check", "blocked"} => k.verb = "rehydrate"
  /\ k.verb = "rehydrate" /\ k.at # "entry" => k.todo # <<>>

AllPlaced == \A c \in Callers : Placed(call[c])

\* Whoever is past the first event or before the last write has made its mark.
Marked ==
  \A c \in Callers :
    call[c].at = "step" =>
      /\ call[c].step > 1 => "intake.received" \in ToSet(log[call[c].run])
      /\ call[c].step = 17 => "completed" \in ToSet(log[call[c].run])

\* Nobody is past the first event of a completed run.
NobodyLeft ==
  \A c \in Callers :
    call[c].at = "step" /\ call[c].step > 1 => state[call[c].run] # "completed"

\* A completed run has the first event, which keeps others out.
Began == \A r \in Runs : state[r] = "completed" => "intake.received" \in ToSet(log[r])

IInv ==
  /\ Types /\ AllPlaced /\ Marked /\ NobodyLeft /\ Began
  /\ SoleOrchestrator /\ CompletedIsRecorded

\* The INSERT of append().
Append1(r, name) == log' = [log EXCEPT ![r] = Append(@, name)]

-----------------------------------------------------------------------------

\* The script has 17 steps; the first emits, the last but one is run.completed
\* and the last is the only one that writes state completed. It writes two
\* other states.
LEMMA ScriptFacts ==
  /\ Len(Script) = 17
  /\ Script[1].what = "intake.received"
  /\ Script[16].what = "completed" /\ Script[16].do # "set"
  /\ \A i \in 1..17 : Script[i].do = "set" => i > 1 /\ Script[i].what \in States
  /\ \A i \in 1..17 : Script[i].do = "set" =>
       Script[i].what \in {"planning", "executing", "completed"}
  /\ \A i \in 1..17 : Script[i].do = "set" /\ Script[i].what = "completed" => i = 17
<1>1. Len(Script) = 17 /\ Script[1] = Emit("intake.received") /\ Script[16] = Emit("completed")
  BY DEF Script
<1>7. \A name : Emit(name).what = name /\ Emit(name).do # "set"
  BY DEF Emit
<1>2. ASSUME NEW i \in 1..17, Script[i].do = "set"
      PROVE  i \in {3, 7, 11, 13, 17}
  <2>1. /\ Script[1] = Emit("intake.received") /\ Script[2] = Emit("intake.accepted")
        /\ Script[4] = Emit("plan.drafted") /\ Script[5] = Emit("plan.approval_requested")
        /\ Script[6] = Emit("plan.ready") /\ Script[8] = Emit("execute.tool_invoked")
        /\ Script[9] = Emit("execute.artifact_emitted")
        /\ Script[10] = Emit("execute.waiting_approval")
        /\ Script[12] = Emit("review.findings_recorded")
        /\ Script[14] = Emit("handoff.envelope_emitted")
        /\ Script[15] = Emit("usage-summary") /\ Script[16] = Emit("completed")
    BY DEF Script
  <2>2. \A name : Emit(name).do # "set"
    BY DEF Emit
  <2>3. i \notin {1, 2, 4, 5, 6, 8, 9, 10, 12, 14, 15, 16}
    BY <1>2, <2>1, <2>2
  <2> QED BY <2>3
<1>3. /\ Script[3] = Set("planning") /\ Script[7] = Set("planning")
      /\ Script[11] = Set("executing") /\ Script[13] = Set("planning")
      /\ Script[17] = Set("completed")
  BY DEF Script
<1>4. \A st : Set(st).what = st
  BY DEF Set
<1>5. {"planning", "executing", "completed"} \subseteq States
  BY DEF States, TerminalStates
<1>6. ASSUME NEW i \in 1..17, Script[i].do = "set"
      PROVE  /\ i > 1 /\ Script[i].what \in States
             /\ Script[i].what \in {"planning", "executing", "completed"}
             /\ Script[i].what = "completed" => i = 17
  BY <1>2, <1>3, <1>4, <1>5, <1>6
<1> QED BY <1>1, <1>6, <1>7

\* An append adds its event and loses none.
LEMMA AppendGrows ==
  ASSUME NEW S, NEW s \in Seq(S), NEW e \in S
  PROVE  /\ Append(s, e) \in Seq(S)
         /\ ToSet(Append(s, e)) = ToSet(s) \cup {e}
BY AppendProperties DEF ToSet

-----------------------------------------------------------------------------

\* A step of a coroutine that is not orchestrating, or stops to.
LEMMA OtherSteps ==
  ASSUME IInv, NEW c \in Callers, NEW k \in Calls,
         Placed(k), k.at # "step",
         call' = [call EXCEPT ![c] = k],
         state' \in [Runs -> States \cup {None}],
         \A r \in Runs : state'[r] = "completed" <=> state[r] = "completed",
         log' \in [Runs -> Seq(Names)],
         \A r \in Runs : ToSet(log[r]) \subseteq ToSet(log'[r])
  PROVE  IInv'
<1>1. Types'
  BY DEF IInv, Types
<1>2. /\ call'[c] = k
      /\ \A d \in Callers : d # c => call'[d] = call[d]
  BY DEF IInv, Types
<1>3. AllPlaced'
  BY <1>2 DEF IInv, AllPlaced, Placed
<1>4. ASSUME NEW d \in Callers, call'[d].at = "step"
      PROVE  /\ d # c /\ call'[d] = call[d] /\ call[d].at = "step"
             /\ call[d].run \in Runs
  BY <1>2, <1>4 DEF IInv, AllPlaced, Placed
<1>5. Marked'
  BY <1>4 DEF IInv, Marked
<1>6. NobodyLeft'
  BY <1>4 DEF IInv, NobodyLeft
<1>7. SoleOrchestrator'
  BY <1>3, <1>4 DEF IInv, SoleOrchestrator, AllPlaced, Placed
<1>8. CompletedIsRecorded'
  BY DEF IInv, CompletedIsRecorded
<1>9. Began'
  BY DEF IInv, Began
<1> QED BY <1>1, <1>3, <1>5, <1>6, <1>7, <1>8, <1>9 DEF IInv

\* A coroutine that returns leaves no call behind.
LEMMA IdleCall == Idle \in Calls /\ Placed(Idle) /\ Idle.at # "step"
BY EmptySeq DEF Idle, Call, Calls, Places, Stages, Placed

LEMMA InitIInv == Init => IInv
<1> SUFFICES ASSUME Init PROVE IInv
  OBVIOUS
<1>1. /\ state = [r \in Runs |-> None]
      /\ log = [r \in Runs |-> <<>>]
      /\ call = [c \in Callers |-> Idle]
  BY DEF Init
<1>2. Types
  BY <1>1, IdleCall, EmptySeq DEF Types
<1>3. \A c \in Callers : Placed(call[c]) /\ call[c].at # "step" /\ call[c].verb = "idle"
  BY <1>1, IdleCall DEF Idle, Call
<1>4. CompletedIsRecorded /\ Began
  BY <1>1, NoneAssumption DEF CompletedIsRecorded, Began, States, TerminalStates
<1> QED BY <1>2, <1>3, <1>4 DEF IInv, AllPlaced, Marked, NobodyLeft, SoleOrchestrator

-----------------------------------------------------------------------------
(* The steps that call OtherSteps                                          *)

\* A step of c that is not one of an orchestration and writes neither the
\* state nor the log, or appends the event of a verb.
LEMMA QuietStep ==
  ASSUME IInv, NEW c \in Callers, NEW k \in Calls,
         Placed(k), k.at # "step", call' = [call EXCEPT ![c] = k],
         state' = state, log' = log
  PROVE  IInv'
<1>1. Types
  BY DEF IInv
<1> QED BY <1>1, OtherSteps DEF Types

LEMMA AppendStep ==
  ASSUME IInv, NEW c \in Callers, NEW k \in Calls,
         Placed(k), k.at # "step", call' = [call EXCEPT ![c] = k],
         state' = state,
         NEW r, NEW name \in Names, Append1(r, name)
  PROVE  IInv'
<1>1. Types
  BY DEF IInv
<1>2. log' = [log EXCEPT ![r] = Append(@, name)]
  BY DEF Append1
<1>3. ASSUME NEW q \in Runs
      PROVE  log'[q] \in Seq(Names) /\ ToSet(log[q]) \subseteq ToSet(log'[q])
  <2>1. log[q] \in Seq(Names)
    BY <1>1 DEF Types
  <2>2. log'[q] = IF q = r THEN Append(log[q], name) ELSE log[q]
    BY <1>1, <1>2 DEF Types
  <2> QED BY <2>1, <2>2, AppendGrows
<1>4. log' \in [Runs -> Seq(Names)]
  BY <1>1, <1>2, <1>3 DEF Types
<1> QED BY <1>1, <1>3, <1>4, OtherSteps DEF Types

LEMMA ReturnStep ==
  ASSUME IInv, NEW c \in Callers, Return(c), state' = state, log' = log
  PROVE  IInv'
BY IdleCall, QuietStep DEF Return

LEMMA BeginStep ==
  ASSUME IInv, NEW c \in Callers, Begin(c)
  PROVE  IInv'
<1>0. Types /\ AllPlaced
  BY DEF IInv
<1>1. ASSUME NEW r \in Runs, "start" \in Verbs, Start(c, r)
      PROVE  IInv'
  <2> DEFINE k == Call("start", r, "latest", 0, <<>>)
  <2>1. k \in Calls /\ Placed(k) /\ k.at # "step"
    BY <1>1, EmptySeq DEF Call, Calls, Places, Stages, Placed
  <2>2. state' \in [Runs -> States \cup {None}]
    BY <1>0, <1>1 DEF Start, Types, States
  <2>3. \A q \in Runs : state'[q] = "completed" <=> state[q] = "completed"
    BY <1>0, <1>1, NoneAssumption DEF Start, Exists, Types, States, TerminalStates
  <2> QED BY <1>0, <1>1, <2>1, <2>2, <2>3, OtherSteps DEF Start, Types
<1>2. ASSUME NEW r \in Runs, NEW verb \in Verbs \cap {"resume", "cancel"}, Check(c, r, verb)
      PROVE  IInv'
  <2> DEFINE k == Call(verb, r, "latest", 0, <<>>)
  <2>1. k \in Calls /\ Placed(k) /\ k.at # "step"
    BY EmptySeq DEF Call, Calls, Places, Stages, Placed
  <2> QED BY <1>2, <2>1, QuietStep DEF Check
<1>3. ASSUME NEW r \in Runs, "orchestrate" \in Verbs, Orchestrate(c, r)
      PROVE  IInv'
  <2> DEFINE k == Call("orchestrate", r, "step", 1, <<>>)
  <2>1. k \in Calls /\ Placed(k) /\ k.at = "step" /\ k.step = 1 /\ k.run = r
    BY <1>3, EmptySeq DEF Call, Calls, Places, Stages, Placed
  <2>2. /\ call' = [call EXCEPT ![c] = k]
        /\ state' = state /\ log' = log
    BY <1>3 DEF Orchestrate
  <2>3. Types'
    BY <1>0, <2>1, <2>2 DEF Types
  <2>4. /\ call'[c] = k
        /\ \A d \in Callers : d # c => call'[d] = call[d]
    BY <1>0, <2>2 DEF Types
  <2> HIDE DEF k
  <2>5. AllPlaced'
    BY <1>0, <2>1, <2>4 DEF AllPlaced, Placed
  <2>6. Marked' /\ NobodyLeft'
    BY <2>1, <2>2, <2>4 DEF IInv, Marked, NobodyLeft
  <2>7. SoleOrchestrator'
    BY <2>1, <2>2, <2>4 DEF IInv, SoleOrchestrator
  <2>8. CompletedIsRecorded' /\ Began'
    BY <2>2 DEF IInv, CompletedIsRecorded, Began
  <2> QED BY <2>3, <2>5, <2>6, <2>7, <2>8 DEF IInv
<1>4. ASSUME NEW file \in PendingFiles, "rehydrate" \in Verbs, Rehydrate(c, file)
      PROVE  IInv'
  <2> DEFINE k == Call("rehydrate", None, "entry", 0, file)
  <2>1. k \in Calls /\ Placed(k) /\ k.at # "step"
    BY <1>4, PendingFilesAssumption DEF Call, Calls, Places, Stages, Placed
  <2> QED BY <1>4, <2>1, QuietStep DEF Rehydrate
<1> QED BY <1>1, <1>2, <1>3, <1>4 DEF Begin

-----------------------------------------------------------------------------
(* The steps of a coroutine that goes on                                   *)

\* Moving to another await that is none of an orchestration's.
LEMMA SuspendStep ==
  ASSUME IInv, NEW c \in Callers, NEW at \in {"append", "latest", "blocked"},
         call[c].verb \notin {"idle", "orchestrate"},
         call[c].at # "entry",
         at = "blocked" => call[c].verb = "rehydrate",
         Suspend(c, at), state' = state, log' = log
  PROVE  IInv'
<1> DEFINE k == Call(call[c].verb, call[c].run, at, call[c].step, call[c].todo)
<1>1. call[c] \in Calls /\ Placed(call[c]) /\ call \in [Callers -> Calls]
  BY DEF IInv, Types, AllPlaced
<1>2. k \in Calls /\ Placed(k) /\ k.at # "step"
  BY <1>1 DEF Call, Calls, Places, Stages, Placed
<1>3. call' = [call EXCEPT ![c] = k]
  BY <1>1 DEF Suspend
<1> QED BY <1>2, <1>3, QuietStep

\* A recovery takes up the rest of its list.
LEMMA RestOfTheList ==
  ASSUME IInv, NEW c \in Callers, call[c].verb = "rehydrate", call[c].todo # <<>>
  PROVE  LET k == Call("rehydrate", None, "entry", 0, Tail(call[c].todo))
         IN k \in Calls /\ Placed(k) /\ k.at # "step"
<1>1. call[c] \in Calls
  BY DEF IInv, Types
<1>2. Tail(call[c].todo) \in Seq(Entry)
  BY <1>1, HeadTailProperties DEF Calls
<1> QED BY <1>1, <1>2 DEF Call, Calls, Places, Stages, Placed

LEMMA LatestSeqStep ==
  ASSUME IInv, NEW c \in Callers, LatestSeq(c)
  PROVE  IInv'
<1>1. Placed(call[c])
  BY DEF IInv, AllPlaced
<1>2. CASE Return(c)
  BY <1>2, ReturnStep DEF LatestSeq
<1>3. CASE Suspend(c, "append")
  BY <1>1, <1>3, SuspendStep DEF LatestSeq, Placed
<1> QED BY <1>2, <1>3 DEF LatestSeq

\* Where a coroutine appends, its event is that of a verb unless it is at a
\* step of the script.
LEMMA VerbAppends ==
  ASSUME IInv, NEW c \in Callers, Appending(c), call[c].at # "step"
  PROVE  /\ EventName(c) \in VerbEvents /\ EventName(c) \in Names
         /\ call[c].verb \in {"start", "resume", "cancel", "rehydrate"}
         /\ call[c].verb = "rehydrate" => call[c].todo # <<>>
         /\ call[c].at = "blocked" => call[c].verb = "rehydrate"
<1>1. Placed(call[c]) /\ call[c] \in Calls /\ call[c].at \in {"append", "blocked"}
  BY DEF IInv, AllPlaced, Types, Appending
<1>2. call[c].verb \in {"start", "resume", "cancel", "rehydrate"}
  BY <1>1, VerbsAssumption DEF Placed, Calls
<1>3. EventOf(call[c].verb) \in VerbEvents
  BY <1>2 DEF EventOf, VerbEvents
<1>4. EventName(c) \in VerbEvents
  BY <1>1, <1>3 DEF EventName, VerbEvents
<1>5. VerbEvents \subseteq Names
  BY DEF VerbEvents, Names
<1> QED BY <1>1, <1>2, <1>4, <1>5 DEF Placed

LEMMA RefusedStep ==
  ASSUME IInv, NEW c \in Callers, Appending(c), Refused(c), state' = state, log' = log
  PROVE  IInv'
<1>1. CASE Return(c)
  BY <1>1, ReturnStep
<1>2. CASE call[c].at = "append" /\ call[c].verb = "rehydrate" /\ Suspend(c, "blocked")
  BY <1>2, SuspendStep
<1> QED BY <1>1, <1>2 DEF Refused

\* The next statement of append(): the coroutine stays where it is.
LEMMA StageStep ==
  ASSUME IInv, NEW c \in Callers, NEW stage \in Stages, NEW base \in Nat,
         call' = [call EXCEPT ![c] = [call[c] EXCEPT !.stage = stage, !.base = base]],
         state' = state, log' = log
  PROVE  IInv'
<1> DEFINE k == [call[c] EXCEPT !.stage = stage, !.base = base]
<1>0. /\ Types /\ Marked /\ NobodyLeft /\ Began /\ SoleOrchestrator
      /\ CompletedIsRecorded /\ AllPlaced
      /\ call[c] \in Calls /\ Placed(call[c])
  BY DEF IInv, AllPlaced, Types
<1>1. /\ k \in Calls /\ Placed(k)
      /\ k.at = call[c].at /\ k.step = call[c].step /\ k.run = call[c].run
      /\ k.verb = call[c].verb
  BY <1>0 DEF Calls, Placed
<1>2. /\ call'[c] = k
      /\ \A d \in Callers : d # c => call'[d] = call[d]
      /\ call' \in [Callers -> Calls]
  BY <1>0, <1>1 DEF Types
<1> HIDE DEF k
<1>3. \A d \in Callers :
        /\ call'[d].at = call[d].at /\ call'[d].step = call[d].step
        /\ call'[d].run = call[d].run /\ call'[d].verb = call[d].verb
  BY <1>1, <1>2
<1>4. Types' /\ AllPlaced'
  BY <1>0, <1>1, <1>2 DEF Types, AllPlaced
<1>5. Marked' /\ NobodyLeft' /\ Began' /\ CompletedIsRecorded'
  BY <1>0, <1>3 DEF Marked, NobodyLeft, Began, CompletedIsRecorded
<1>6. SoleOrchestrator'
  BY <1>0, <1>3 DEF SoleOrchestrator
<1> QED BY <1>4, <1>5, <1>6 DEF IInv

LEMMA GuardStep ==
  ASSUME IInv, NEW c \in Callers, Guard(c)
  PROVE  IInv'
<1>1. Types /\ call[c] \in Calls
  BY DEF IInv, Types
<1>2. CASE Refused(c)
  BY <1>2, RefusedStep DEF Guard
<1>3. CASE call' = [call EXCEPT ![c].stage = "max"]
  <2>1. call' = [call EXCEPT ![c] = [call[c] EXCEPT !.stage = "max", !.base = call[c].base]]
    BY <1>1, <1>3 DEF Types, Calls
  <2>2. "max" \in Stages /\ call[c].base \in Nat
    BY <1>1 DEF Stages, Calls
  <2> QED BY <2>1, <2>2, StageStep DEF Guard
<1> QED BY <1>2, <1>3 DEF Guard

LEMMA ComputeNextSeqStep ==
  ASSUME IInv, NEW c \in Callers, call[c].run \in Runs, ComputeNextSeq(c)
  PROVE  IInv'
<1>1. call \in [Callers -> Calls] /\ log[call[c].run] \in Seq(Names)
  BY DEF IInv, Types
<1>2. "insert" \in Stages /\ Len(log[call[c].run]) \in Nat
  BY <1>1 DEF Stages
<1>3. call' = [call EXCEPT ![c] =
                 [call[c] EXCEPT !.stage = "insert", !.base = Len(log[call[c].run])]]
  BY <1>1 DEF ComputeNextSeq
<1>4. state' = state /\ log' = log
  BY DEF ComputeNextSeq
<1> DEFINE base == Len(log[call[c].run])
<1> HIDE DEF base
<1>5. "insert" \in Stages /\ base \in Nat
      /\ call' = [call EXCEPT ![c] = [call[c] EXCEPT !.stage = "insert", !.base = base]]
  BY <1>2, <1>3 DEF base
<1> QED BY <1>4, <1>5, StageStep

LEMMA RehydrateSteps ==
  ASSUME IInv, NEW c \in Callers,
         RehydrateEntry(c) \/ RehydrateCheck(c)
  PROVE  IInv'
<1>0. call[c] \in Calls /\ Placed(call[c]) /\ call \in [Callers -> Calls]
  BY DEF IInv, Types, AllPlaced
<1>1. CASE RehydrateEntry(c)
  <2> DEFINE todo == call[c].todo
  <2>1. todo \in Seq(Entry) /\ call[c].at = "entry" /\ state' = state /\ log' = log
    BY <1>0, <1>1 DEF RehydrateEntry, Calls
  <2>2. CASE Return(c)
    BY <2>1, <2>2, ReturnStep
  <2>3. CASE todo # <<>> /\ call' = [call EXCEPT ![c].todo = Tail(@)]
    <3> DEFINE k == [call[c] EXCEPT !.todo = Tail(todo)]
    <3>1. Tail(todo) \in Seq(Entry)
      BY <2>1, <2>3, HeadTailProperties
    <3>2. k \in Calls /\ Placed(k) /\ k.at # "step"
      BY <1>0, <2>1, <3>1 DEF Calls, Placed
    <3>3. call' = [call EXCEPT ![c] = k]
      BY <1>0, <2>3
    <3> QED BY <2>1, <3>2, <3>3, QuietStep
  <2>4. CASE todo # <<>> /\ call' = [call EXCEPT ![c] =
                                       Call("rehydrate", Head(todo).run, "check", 0, todo)]
    <3> DEFINE k == Call("rehydrate", Head(todo).run, "check", 0, todo)
    <3>1. Head(todo) \in Entry
      BY <2>1, <2>4, HeadTailProperties
    <3>2. "rehydrate" \in Verbs \cup {"idle"}
      BY <1>0, <2>1 DEF Placed, Calls
    <3>3. k \in Calls /\ Placed(k) /\ k.at # "step"
      BY <2>1, <2>4, <3>1, <3>2 DEF Call, Calls, Places, Stages, Placed, Entry
    <3> QED BY <2>1, <2>4, <3>3, QuietStep
  <2> QED BY <1>1, <2>2, <2>3, <2>4 DEF RehydrateEntry
<1>2. CASE RehydrateCheck(c)
  BY <1>0, <1>2, SuspendStep DEF RehydrateCheck, Placed
<1> QED BY <1>1, <1>2

-----------------------------------------------------------------------------
(* The steps of an orchestration                                           *)

\* The step taken is the last, or the next one follows it.
LEMMA NextStepCases ==
  ASSUME IInv, NEW c \in Callers, call[c].at = "step", NextStep(c)
  PROVE  LET k == Call("orchestrate", call[c].run, "step", call[c].step + 1, <<>>)
         IN \/ call[c].step = 17 /\ Return(c)
            \/ /\ call[c].step \in 1..16
               /\ call' = [call EXCEPT ![c] = k]
               /\ k \in Calls /\ Placed(k) /\ k.at = "step"
               /\ k.step = call[c].step + 1 /\ k.run = call[c].run
               /\ k.stage = "guard"
<1>1. call[c] \in Calls /\ Placed(call[c]) /\ call \in [Callers -> Calls]
  BY DEF IInv, Types, AllPlaced
<1>2. call[c].step \in 1..17
  BY <1>1 DEF Placed
<1>3. CASE call[c].step = 17
  BY <1>3, ScriptFacts DEF NextStep
<1>4. CASE call[c].step # 17
  <2> DEFINE k == Call("orchestrate", call[c].run, "step", call[c].step + 1, <<>>)
  <2>1. k \in Calls /\ Placed(k) /\ k.at = "step"
        /\ k.step = call[c].step + 1 /\ k.run = call[c].run /\ k.stage = "guard"
    BY <1>1, <1>2, <1>4, EmptySeq DEF Call, Calls, Places, Stages, Placed
  <2>3. call' = [call EXCEPT ![c] = k]
    BY <1>1, <1>4, ScriptFacts DEF NextStep
  <2> HIDE DEF k
  <2>4. call[c].step \in 1..16
    BY <1>2, <1>4
  <2> QED BY <2>1, <2>3, <2>4 DEF k
<1> QED BY <1>3, <1>4

\* The INSERT of an orchestration.
LEMMA EmitStep ==
  ASSUME IInv, NEW c \in Callers, call[c].at = "step", Insert(c)
  PROVE  IInv'
<1> DEFINE r == call[c].run
           name == Script[call[c].step].what
           k == Call("orchestrate", call[c].run, "step", call[c].step + 1, <<>>)
<1>0. /\ Types /\ Marked /\ NobodyLeft /\ Began /\ SoleOrchestrator
      /\ CompletedIsRecorded /\ AllPlaced
      /\ \A d \in Callers : Placed(call[d])
      /\ r \in Runs /\ call[c].step \in 1..17 /\ call[c].at = "step" /\ state' = state
  BY DEF IInv, AllPlaced, Placed, Insert
<1>1. CASE Refused(c) /\ log' = log
  BY <1>0, <1>1, RefusedStep DEF Insert
<1>2. CASE IsFree(c) /\ Append1(r, name) /\ NextStep(c)
  <2>0. name \notin ToSet(log[r])
    BY <1>0, <1>2 DEF IsFree, EventName
  <2>1. name \in Names
    BY <1>0 DEF Names
  <2>2. log[r] \in Seq(Names) /\ log' = [log EXCEPT ![r] = Append(log[r], name)]
    BY <1>0, <1>2 DEF Types, Append1
  <2>3. /\ log'[r] \in Seq(Names)
        /\ ToSet(log'[r]) = ToSet(log[r]) \cup {name}
        /\ \A q \in Runs : q # r => log'[q] = log[q]
        /\ log' \in [Runs -> Seq(Names)]
    BY <1>0, <2>1, <2>2, AppendGrows DEF Types
  <2>4. \A q \in Runs : ToSet(log[q]) \subseteq ToSet(log'[q])
    BY <2>3
  <2>5. CASE call[c].step = 17 /\ Return(c)
    BY <1>0, <2>3, <2>4, <2>5, IdleCall, OtherSteps DEF Return, Types
  <2>6. CASE /\ call[c].step \in 1..16
             /\ call' = [call EXCEPT ![c] = k]
             /\ k \in Calls /\ Placed(k) /\ k.at = "step"
             /\ k.step = call[c].step + 1 /\ k.run = r
    <3>1. /\ call'[c] = k
          /\ \A d \in Callers : d # c => call'[d] = call[d]
          /\ call' \in [Callers -> Calls]
      BY <1>0, <2>6 DEF Types
    <3>2. Types'
      BY <1>0, <2>3, <3>1 DEF Types
    <3>3. AllPlaced'
      BY <1>0, <2>6, <3>1 DEF AllPlaced, Placed
    <3>4. "intake.received" \in ToSet(log'[r])
      <4>1. CASE call[c].step = 1
        <5>1. name = "intake.received"
          BY <4>1, ScriptFacts
        <5> QED BY <2>3, <5>1
      <4>2. CASE call[c].step # 1
        <5>1. call[c].step > 1
          BY <1>0, <4>2
        <5>2. "intake.received" \in ToSet(log[r])
          BY <1>0, <5>1 DEF Marked
        <5> QED BY <2>3, <5>2
      <4> QED BY <4>1, <4>2
    <3>5. k.step = 17 => "completed" \in ToSet(log'[r])
      <4>1. k.step = 17 => call[c].step = 16
        BY <2>6
      <4> QED BY <2>3, <4>1, ScriptFacts
    <3>6. Marked'
      <4>1. ASSUME NEW d \in Callers, call'[d].at = "step"
            PROVE  /\ call'[d].step > 1 => "intake.received" \in ToSet(log'[call'[d].run])
                   /\ call'[d].step = 17 => "completed" \in ToSet(log'[call'[d].run])
        <5>1. CASE d = c
          BY <2>6, <3>1, <3>4, <3>5, <5>1
        <5>2. CASE d # c
          BY <1>0, <2>4, <3>1, <4>1, <5>2 DEF Marked, Placed
        <5> QED BY <5>1, <5>2
      <4> QED BY <4>1 DEF Marked
    <3>7. NobodyLeft'
      <4>1. state[r] # "completed"
        <5>1. CASE call[c].step = 1
          BY <1>0, <2>0, <5>1, ScriptFacts DEF Began
        <5>2. CASE call[c].step > 1
          BY <1>0, <5>2 DEF NobodyLeft
        <5> QED BY <1>0, <5>1, <5>2
      <4> QED BY <1>0, <2>6, <3>1, <4>1 DEF NobodyLeft
    <3>8. SoleOrchestrator'
      <4>1. ASSUME NEW d \in Callers, d # c, call[d].verb = "orchestrate",
                   call[d].run = r, call[d].step > 1
            PROVE  FALSE
        <5>1. call[d].at = "step" /\ call[c].verb = "orchestrate"
          BY <1>0, <4>1 DEF Placed
        <5>2. call[c].step = 1
          BY <1>0, <4>1, <5>1 DEF SoleOrchestrator
        <5>3. "intake.received" \in ToSet(log[r])
          BY <1>0, <4>1, <5>1 DEF Marked
        <5> QED BY <2>0, <5>2, <5>3, ScriptFacts
      <4> QED BY <1>0, <2>6, <3>1, <4>1 DEF SoleOrchestrator
    <3>9. CompletedIsRecorded' /\ Began'
      BY <1>0, <2>4 DEF CompletedIsRecorded, Began
    <3> QED BY <3>2, <3>3, <3>6, <3>7, <3>8, <3>9 DEF IInv
  <2> QED BY <1>0, <1>2, <2>5, <2>6, NextStepCases
<1> QED BY <1>0, <1>1, <1>2 DEF Insert, Appended, EventName, Append1

LEMMA InsertStep ==
  ASSUME IInv, NEW c \in Callers, Insert(c)
  PROVE  IInv'
<1> DEFINE name == EventName(c)
           k == Call("rehydrate", None, "entry", 0, Tail(call[c].todo))
<1>1. CASE call[c].at = "step"
  BY <1>1, EmitStep
<1>2. CASE call[c].at # "step" /\ Refused(c) /\ log' = log
  BY <1>2, RefusedStep DEF Insert
<1>3. CASE call[c].at # "step" /\ Append1(call[c].run, name) /\ Appended(c)
  <2>1. /\ name \in Names /\ state' = state
        /\ call[c].verb = "rehydrate" => call[c].todo # <<>>
    BY <1>3, VerbAppends DEF Insert
  <2>2. CASE Return(c)
    <3>1. call' = [call EXCEPT ![c] = Idle]
      BY <2>2 DEF Return
    <3> QED BY <1>3, <2>1, <3>1, IdleCall, AppendStep
  <2>3. CASE call[c].verb = "rehydrate" /\ NextEntry(c)
    <3>1. call' = [call EXCEPT ![c] = k]
      BY <2>3 DEF NextEntry
    <3>2. k \in Calls /\ Placed(k) /\ k.at # "step"
      BY <2>1, <2>3, RestOfTheList
    <3> QED BY <1>3, <2>1, <3>1, <3>2, AppendStep
  <2> QED BY <1>3, <2>2, <2>3 DEF Appended
<1> QED BY <1>1, <1>2, <1>3 DEF Insert, Append1

\* Only the sole orchestrator past the first event writes the state, and
\* the run is not completed yet.
LEMMA SetStepFacts ==
  ASSUME IInv, NEW c \in Callers, SetStep(c)
  PROVE  LET r == call[c].run
             st == Script[call[c].step].what
         IN /\ r \in Runs /\ call[c].at = "step" /\ call[c].step \in 2..17
            /\ st \in States
            /\ st = "completed" => call[c].step = 17
            /\ call[c].step # 16
            /\ state[r] # "completed"
            /\ \A d \in Callers : d # c /\ call[d].at = "step" /\ call[d].run = r
                                  => call[d].step = 1
            /\ state' = [state EXCEPT ![r] = st]
            /\ log' = log
<1>0. /\ Types /\ Marked /\ NobodyLeft /\ SoleOrchestrator /\ AllPlaced
      /\ \A d \in Callers : Placed(call[d])
      /\ call[c].at = "step" /\ Script[call[c].step].do = "set"
      /\ state' = [state EXCEPT ![call[c].run] = Script[call[c].step].what]
      /\ log' = log
  BY DEF IInv, AllPlaced, SetStep
<1>1. call[c].run \in Runs /\ call[c].step \in 1..17
  BY <1>0 DEF Placed
<1>2. /\ call[c].step > 1 /\ call[c].step # 16
      /\ Script[call[c].step].what \in States
      /\ Script[call[c].step].what = "completed" => call[c].step = 17
  BY <1>0, <1>1, ScriptFacts
<1>3. state[call[c].run] # "completed"
  BY <1>0, <1>2 DEF NobodyLeft
<1>4. ASSUME NEW d \in Callers, d # c, call[d].at = "step", call[d].run = call[c].run
      PROVE  call[d].step = 1
  <2>1. /\ call[d].verb = "orchestrate" /\ call[c].verb = "orchestrate"
        /\ call[d].step \in 1..17
    BY <1>0, <1>4 DEF Placed
  <2> QED BY <1>0, <1>2, <1>4, <2>1 DEF SoleOrchestrator
<1> QED BY <1>0, <1>1, <1>2, <1>3, <1>4

LEMMA SetStepStep ==
  ASSUME IInv, NEW c \in Callers, SetStep(c)
  PROVE  IInv'
<1> DEFINE r == call[c].run
           st == Script[call[c].step].what
           k == Call("orchestrate", call[c].run, "step", call[c].step + 1, <<>>)
<1>0. /\ Types /\ Marked /\ NobodyLeft /\ Began /\ SoleOrchestrator
      /\ CompletedIsRecorded /\ AllPlaced
      /\ \A d \in Callers : Placed(call[d])
  BY DEF IInv, AllPlaced
<1>1. /\ r \in Runs /\ call[c].at = "step" /\ call[c].step \in 2..17
      /\ st \in States
      /\ st = "completed" => call[c].step = 17
      /\ call[c].step # 16
      /\ state[r] # "completed"
      /\ \A d \in Callers : d # c /\ call[d].at = "step" /\ call[d].run = r
                            => call[d].step = 1
      /\ state' = [state EXCEPT ![r] = st]
      /\ log' = log
  BY SetStepFacts
<1>2. NextStep(c)
  BY DEF SetStep
<1>3. /\ state' \in [Runs -> States \cup {None}] /\ state'[r] = st
      /\ \A q \in Runs : q # r => state'[q] = state[q]
  BY <1>0, <1>1 DEF Types
<1>4. CompletedIsRecorded'
  <2>1. st = "completed" => "completed" \in ToSet(log[r])
    BY <1>0, <1>1 DEF Marked
  <2> QED BY <1>0, <1>1, <1>3, <2>1 DEF CompletedIsRecorded
<1>7. Began'
  <2>1. "intake.received" \in ToSet(log[r])
    BY <1>0, <1>1 DEF Marked
  <2> QED BY <1>0, <1>1, <1>3, <2>1 DEF Began
<1>5. CASE call[c].step = 17 /\ Return(c)
  <2>1. call' = [call EXCEPT ![c] = Idle]
    BY <1>5 DEF Return
  <2>2. /\ call'[c] = Idle /\ Idle \in Calls /\ Placed(Idle) /\ Idle.at # "step"
        /\ \A d \in Callers : d # c => call'[d] = call[d]
        /\ call' \in [Callers -> Calls]
    BY <1>0, <2>1, IdleCall DEF Types
  <2>3. Types' /\ AllPlaced'
    BY <1>0, <1>1, <1>3, <2>2 DEF Types, AllPlaced
  <2>4. Marked'
    BY <1>0, <1>1, <2>2 DEF Marked
  <2>5. NobodyLeft'
    BY <1>0, <1>1, <1>3, <2>2 DEF NobodyLeft, Placed
  <2>6. SoleOrchestrator'
    BY <1>0, <2>2 DEF SoleOrchestrator, Placed
  <2> QED BY <1>4, <1>7, <2>3, <2>4, <2>5, <2>6 DEF IInv
<1>6. CASE /\ call[c].step \in 1..16
           /\ call' = [call EXCEPT ![c] = k]
           /\ k \in Calls /\ Placed(k) /\ k.at = "step"
           /\ k.step = call[c].step + 1 /\ k.run = r
  <2>1. /\ call'[c] = k
        /\ \A d \in Callers : d # c => call'[d] = call[d]
        /\ call' \in [Callers -> Calls]
    BY <1>0, <1>6 DEF Types
  <2>2. Types' /\ AllPlaced'
    BY <1>0, <1>1, <1>3, <1>6, <2>1 DEF Types, AllPlaced
  <2>3. "intake.received" \in ToSet(log[r]) /\ k.step # 17
    BY <1>0, <1>1, <1>6 DEF Marked
  <2>4. Marked'
    BY <1>0, <1>1, <1>6, <2>1, <2>3 DEF Marked
  <2>5. NobodyLeft'
    BY <1>0, <1>1, <1>3, <1>6, <2>1 DEF NobodyLeft, Placed
  <2>6. SoleOrchestrator'
    <3>1. \A d \in Callers : d # c /\ call[d].verb = "orchestrate" /\ call[d].run = r
                             => call[d].step = 1
      BY <1>0, <1>1 DEF Placed
    <3> QED BY <1>0, <1>6, <2>1, <3>1 DEF SoleOrchestrator
  <2> QED BY <1>4, <1>7, <2>2, <2>4, <2>5, <2>6 DEF IInv
<1> QED BY <1>1, <1>2, <1>5, <1>6, NextStepCases

-----------------------------------------------------------------------------

LEMMA NextIInv == IInv /\ [Next]_vars => IInv'
<1> SUFFICES ASSUME IInv, [Next]_vars PROVE IInv'
  OBVIOUS
<1>1. CASE UNCHANGED vars
  BY <1>1 DEF vars, IInv, Types, AllPlaced, Marked, NobodyLeft, Began, SoleOrchestrator,
              CompletedIsRecorded
<1>2. ASSUME NEW c \in Callers, Begin(c) \/ Continue(c) \/ Die(c)
      PROVE  IInv'
  <2>1. CASE Begin(c)
    BY <2>1, BeginStep
  <2>2. CASE LatestSeq(c)
    BY <2>2, LatestSeqStep
  <2>3. CASE Guard(c)
    BY <2>3, GuardStep
  <2>4. CASE ComputeNextSeq(c)
    <3>1. call[c].run \in Runs
      BY <2>4 DEF ComputeNextSeq, Appending, IInv, AllPlaced, Placed
    <3> QED BY <2>4, <3>1, ComputeNextSeqStep
  <2>5. CASE Insert(c)
    BY <2>5, InsertStep
  <2>6. CASE SetStep(c)
    BY <2>6, SetStepStep
  <2>7. CASE RehydrateEntry(c) \/ RehydrateCheck(c)
    BY <2>7, RehydrateSteps
  <2>8. CASE Die(c)
    BY <2>8, ReturnStep DEF Die
  <2> QED BY <1>2, <2>1, <2>2, <2>3, <2>4, <2>5, <2>6, <2>7, <2>8 DEF Continue
<1> QED BY <1>1, <1>2 DEF Next

LEMMA InductiveInvariant == Spec => []IInv
BY InitIInv, NextIInv, PTL DEF Spec

(***************************************************************************)
(* No two coroutines orchestrate one run past its first event, however     *)
(* many were handed it: the event id admits the first and refuses the      *)
(* others.                                                                 *)
(***************************************************************************)
THEOREM SoleOrchestratorHolds == Spec => []SoleOrchestrator
<1>1. IInv => SoleOrchestrator
  BY DEF IInv
<1> QED BY <1>1, InductiveInvariant, PTL

(***************************************************************************)
(* A run in state completed has its run.completed event, wherever its      *)
(* orchestration and the other verbs were interrupted.                     *)
(***************************************************************************)
THEOREM CompletedIsRecordedHolds == Spec => []CompletedIsRecorded
<1>1. IInv => CompletedIsRecorded
  BY DEF IInv
<1> QED BY <1>1, InductiveInvariant, PTL

(***************************************************************************)
(* Nothing moves a run out of state completed, although update_state       *)
(* overwrites whatever it finds.                                           *)
(***************************************************************************)
THEOREM CompletedIsFinalHolds == Spec => CompletedIsFinal
<1> DEFINE Stays == \A r \in Runs : state[r] = "completed" => state'[r] = "completed"
<1>1. ASSUME IInv, Next PROVE Stays
  <2>1. PICK c \in Callers : Begin(c) \/ Continue(c) \/ Die(c)
    BY <1>1 DEF Next
  <2>2. Types
    BY <1>1 DEF IInv
  <2>3. CASE SetStep(c)
    BY <1>1, <2>2, <2>3, SetStepFacts DEF Types
  <2>4. CASE \E r \in Runs : Start(c, r)
    BY <2>2, <2>4, NoneAssumption DEF Start, Exists, Types, States, TerminalStates
  <2>5. CASE state' = state
    BY <2>5
  <2> QED BY <2>1, <2>3, <2>4, <2>5
          DEF Begin, Continue, Die, Check, Orchestrate, Rehydrate, LatestSeq, Guard,
              ComputeNextSeq, Insert, RehydrateEntry, RehydrateCheck
<1>2. IInv /\ [Next]_vars => [Stays]_vars
  BY <1>1
<1> QED BY <1>2, InductiveInvariant, PTL DEF Spec, CompletedIsFinal

-----------------------------------------------------------------------------
(***************************************************************************)
(* The logs that the verbs write: the events of the script stand in them   *)
(* in its order. A coroutine that is at a step of the script has the steps *)
(* before it behind it in the log; with the primary key that is all that   *)
(* is needed.                                                              *)
(***************************************************************************)

\* An orchestration at a step has emitted what comes before it.
Passed ==
  \A c \in Callers : call[c].at = "step" =>
    \A j \in Emits : j < call[c].step => Script[j].what \in ToSet(log[call[c].run])

\* No run has an event twice.
Distinct ==
  \A r \in Runs : \A i, j \in DOMAIN log[r] : log[r][i] = log[r][j] => i = j

Named == \A r \in Runs : ToSet(log[r]) \subseteq EventNames

LogInv == Passed /\ ScriptInOrder /\ Distinct /\ Named

-----------------------------------------------------------------------------

\* The events of the script are twelve different ones, and none of a verb's.
LEMMA MilestoneFacts ==
  /\ Emits \subseteq 1..17
  /\ \A i \in 1..17 : i \in Emits <=> Script[i].do = "emit"
  /\ \A i, j \in Emits : Script[i].what = Script[j].what => i = j
  /\ VerbEvents \cap ScriptEvents = {}
  /\ 1 \in Emits
<1>1. /\ Script[1] = Emit("intake.received") /\ Script[2] = Emit("intake.accepted")
      /\ Script[4] = Emit("plan.drafted") /\ Script[5] = Emit("plan.approval_requested")
      /\ Script[6] = Emit("plan.ready") /\ Script[8] = Emit("execute.tool_invoked")
      /\ Script[9] = Emit("execute.artifact_emitted")
      /\ Script[10] = Emit("execute.waiting_approval")
      /\ Script[12] = Emit("review.findings_recorded")
      /\ Script[14] = Emit("handoff.envelope_emitted")
      /\ Script[15] = Emit("usage-summary") /\ Script[16] = Emit("completed")
      /\ DOMAIN Script = 1..17
  BY DEF Script
<1>2. /\ Script[3] = Set("planning") /\ Script[7] = Set("planning")
      /\ Script[11] = Set("executing") /\ Script[13] = Set("planning")
      /\ Script[17] = Set("completed")
  BY DEF Script
<1>3. \A name : Emit(name).what = name /\ Set(name).do # "emit"
  BY DEF Emit, Set
<1>4. Emits \subseteq 1..17 /\ \A i \in 1..17 : i \in Emits <=> Script[i].do = "emit"
  BY <1>1 DEF Emits
<1>5. ASSUME NEW i \in Emits PROVE i \in {1, 2, 4, 5, 6, 8, 9, 10, 12, 14, 15, 16}
  <2>1. i \notin {3, 7, 11, 13, 17}
    BY <1>2, <1>3, <1>4
  <2> QED BY <1>4, <2>1
<1>6. /\ Script[1].what = "intake.received" /\ Script[2].what = "intake.accepted"
      /\ Script[4].what = "plan.drafted" /\ Script[5].what = "plan.approval_requested"
      /\ Script[6].what = "plan.ready" /\ Script[8].what = "execute.tool_invoked"
      /\ Script[9].what = "execute.artifact_emitted"
      /\ Script[10].what = "execute.waiting_approval"
      /\ Script[12].what = "review.findings_recorded"
      /\ Script[14].what = "handoff.envelope_emitted"
      /\ Script[15].what = "usage-summary" /\ Script[16].what = "completed"
  BY <1>1, <1>3
<1>7. ASSUME NEW i \in Emits, NEW j \in Emits, Script[i].what = Script[j].what
      PROVE  i = j
  BY <1>5, <1>6, <1>7
<1>8. \A i \in Emits : Script[i].what \notin VerbEvents
  BY <1>5, <1>6 DEF VerbEvents
<1>9. 1 \in Emits
  BY <1>1, <1>4 DEF Emit
<1> QED BY <1>4, <1>7, <1>8, <1>9 DEF ScriptEvents

LEMMA EmittedBeforeFacts ==
  ASSUME NEW k \in Emits
  PROVE  /\ Script[k].what \in ScriptEvents
         /\ EmittedBefore[Script[k].what] = {Script[j].what : j \in {j \in Emits : j < k}}
<1>1. Script[k].what \in ScriptEvents
  BY DEF ScriptEvents
<1>2. {j \in Emits : \A m \in Emits : Script[m].what = Script[k].what => j < m}
        = {j \in Emits : j < k}
  BY MilestoneFacts
<1> QED BY <1>1, <1>2 DEF EmittedBefore

\* What an append does to the log of a run, position by position.
LEMMA AppendPlaces ==
  ASSUME NEW S, NEW s \in Seq(S), NEW e \in S
  PROVE  LET t == Append(s, e) IN
         /\ DOMAIN t = 1..(Len(s) + 1) /\ DOMAIN s = 1..Len(s) /\ Len(s) \in Nat
         /\ t[Len(s) + 1] = e
         /\ \A i \in 1..Len(s) : t[i] = s[i]
BY AppendProperties

-----------------------------------------------------------------------------
(* The steps                                                               *)

Appends(c, name) ==
  /\ call[c].run \in Runs
  /\ name \notin ToSet(log[call[c].run])
  /\ Append1(call[c].run, name)
  /\ \/ name \in VerbEvents
     \/ call[c].at = "step" /\ call[c].step \in Emits /\ name = Script[call[c].step].what

\* A step of a coroutine leaves the log or appends an event that its run does
\* not have: one of a verb or that of its place in the script.
LEMMA StepAppends ==
  ASSUME IInv, NEW c \in Callers, Begin(c) \/ Continue(c) \/ Die(c)
  PROVE  log' = log \/ \E name : Appends(c, name)
<1>1. /\ Placed(call[c]) /\ call[c] \in Calls
      /\ log \in [Runs -> Seq(Names)]
  BY DEF IInv, AllPlaced, Types
<1>3. CASE Insert(c) /\ IsFree(c)
  <2>0. /\ call[c].run \in Runs /\ EventName(c) \notin ToSet(log[call[c].run])
        /\ Append1(call[c].run, EventName(c)) /\ Appending(c)
    BY <1>1, <1>3 DEF Insert, IsFree, Append1, Appending, Placed
  <2>1. CASE call[c].at # "step"
    BY <2>0, <2>1, VerbAppends DEF Appends
  <2>2. CASE call[c].at = "step"
    <3>1. call[c].step \in 1..17 /\ Script[call[c].step].do = "emit"
      BY <1>1, <2>0, <2>2 DEF Appending, Placed
    <3>2. call[c].step \in Emits /\ EventName(c) = Script[call[c].step].what
      BY <2>2, <3>1, MilestoneFacts DEF EventName
    <3> QED BY <2>0, <2>2, <3>2 DEF Appends
  <2> QED BY <2>1, <2>2
<1>4. CASE Insert(c) /\ ~IsFree(c)
  BY <1>4 DEF Insert
<1>6. CASE \/ Begin(c) \/ LatestSeq(c) \/ Guard(c) \/ ComputeNextSeq(c) \/ SetStep(c)
           \/ RehydrateEntry(c) \/ RehydrateCheck(c) \/ Die(c)
  BY <1>6 DEF Begin, Start, Check, Orchestrate, Rehydrate, LatestSeq, Guard, ComputeNextSeq,
              SetStep, RehydrateEntry, RehydrateCheck, Die
<1> QED BY <1>3, <1>4, <1>6 DEF Continue

\* A step of c changes nothing of the other coroutines.
LEMMA OthersStay ==
  ASSUME IInv, NEW c \in Callers, Begin(c) \/ Continue(c) \/ Die(c),
         NEW d \in Callers, d # c
  PROVE  call'[d] = call[d]
<1>1. call \in [Callers -> Calls]
  BY DEF IInv, Types
<1>2. \E k : call' = [call EXCEPT ![c] = k]
  BY <1>1, Zenon DEF Begin, Start, Check, Orchestrate, Rehydrate, Continue, LatestSeq, Guard,
              ComputeNextSeq, Insert, Appended, Refused, SetStep, NextStep, NextEntry,
              RehydrateEntry, RehydrateCheck, Return, Suspend, Die
<1> QED BY <1>1, <1>2

\* It is still at the same step of the same run.
Stays(d) ==
  /\ call[d].at = "step" /\ call'[d].step = call[d].step /\ call'[d].run = call[d].run

\* A step of a coroutine that is at a step of the script: it leaves, goes on
\* to the next step, or executes the next statement of append().
LEMMA StepOfOrchestration ==
  ASSUME IInv, NEW c \in Callers, Continue(c) \/ Die(c), call[c].at = "step"
  PROVE  \/ Return(c) /\ call'[c].at = "idle"
         \/ /\ call[c].step \in 1..16
            /\ call'[c].run = call[c].run /\ call'[c].step = call[c].step + 1
            /\ call'[c].at = "step" /\ call'[c].stage = "guard"
            /\ \/ SetStep(c) /\ call[c].step \notin Emits /\ log' = log
               \/ /\ Insert(c) /\ call[c].step \in Emits
                  /\ Appends(c, Script[call[c].step].what)
         \/ /\ Stays(c) /\ log' = log /\ call'[c].at = "step"
            /\ \/ call'[c].stage = "max"
               \/ /\ call'[c].stage = "insert"
                  /\ call'[c].base = Len(log[call[c].run])
<1> DEFINE k == Call("orchestrate", call[c].run, "step", call[c].step + 1, <<>>)
<1>0. /\ call \in [Callers -> Calls] /\ call[c] \in Calls /\ Placed(call[c])
      /\ call[c].run \in Runs /\ call[c].step \in 1..17
  BY DEF IInv, Types, AllPlaced, Placed
<1>1. CASE Return(c)
  BY <1>0, <1>1 DEF Return, Idle, Call
<1>2. ASSUME NextStep(c), ~Return(c)
      PROVE  /\ call[c].step \in 1..16
             /\ call'[c].run = call[c].run /\ call'[c].step = call[c].step + 1
             /\ call'[c].at = "step" /\ call'[c].stage = "guard"
  <2>1. /\ call[c].step \in 1..16 /\ call' = [call EXCEPT ![c] = k]
        /\ k.at = "step" /\ k.step = call[c].step + 1 /\ k.run = call[c].run
        /\ k.stage = "guard"
    BY <1>2, NextStepCases
  <2> HIDE DEF k
  <2> QED BY <1>0, <2>1
<1>3. CASE SetStep(c)
  <2>1. call[c].step \notin Emits /\ log' = log /\ NextStep(c)
    BY <1>0, <1>3, MilestoneFacts DEF SetStep
  <2> QED BY <1>1, <1>2, <1>3, <2>1
<1>4. CASE Insert(c)
  <2>1. CASE Refused(c)
    BY <1>1, <2>1 DEF Refused
  <2>2. CASE IsFree(c) /\ Append1(call[c].run, EventName(c)) /\ Appended(c)
    <3>1. call[c].step \in Emits /\ EventName(c) = Script[call[c].step].what
      BY <1>0, <1>4, MilestoneFacts DEF Insert, Appending, EventName
    <3>2. Appends(c, Script[call[c].step].what)
      BY <1>0, <2>2, <3>1 DEF Appends, IsFree
    <3>3. NextStep(c)
      BY <2>2 DEF Appended
    <3> QED BY <1>1, <1>2, <1>4, <3>1, <3>2, <3>3
  <2> QED BY <1>4, <2>1, <2>2 DEF Insert, Append1
<1>5. CASE Guard(c)
  <2>1. CASE Refused(c)
    BY <1>1, <2>1 DEF Refused
  <2>2. CASE call' = [call EXCEPT ![c].stage = "max"]
    BY <1>0, <1>5, <2>2 DEF Guard, Stays, Calls
  <2> QED BY <1>5, <2>1, <2>2 DEF Guard
<1>6. CASE ComputeNextSeq(c)
  BY <1>0, <1>6 DEF ComputeNextSeq, Stays, Calls
<1> QED BY <1>1, <1>3, <1>4, <1>5, <1>6
        DEF Continue, Die, LatestSeq, RehydrateEntry, RehydrateCheck

\* Who was at no step is at the first, or at none.
LEMMA StepOfOthers ==
  ASSUME IInv, NEW c \in Callers, Begin(c) \/ Continue(c) \/ Die(c),
         call'[c].at = "step", call[c].at # "step" \/ Begin(c)
  PROVE  call'[c].step = 1
<1>0. call \in [Callers -> Calls] /\ Placed(call[c]) /\ call[c] \in Calls
  BY DEF IInv, Types, AllPlaced
<1>1. CASE Begin(c)
  BY <1>0, <1>1 DEF Begin, Start, Check, Orchestrate, Rehydrate, Call
<1>2. CASE Return(c)
  BY <1>0, <1>2 DEF Return, Idle, Call
<1>3. CASE \E at \in {"append", "latest", "blocked"} : Suspend(c, at)
  BY <1>0, <1>3 DEF Suspend, Call
<1>4. CASE NextEntry(c)
  BY <1>0, <1>4 DEF NextEntry, Call
<1>6. CASE LatestSeq(c) \/ RehydrateCheck(c)
  BY <1>2, <1>3, <1>6 DEF LatestSeq, RehydrateCheck
<1>7. CASE Insert(c) /\ call[c].at # "step"
  <2>1. Return(c) \/ Suspend(c, "blocked") \/ NextEntry(c)
    BY <1>7 DEF Insert, Appended, Refused
  <2> QED BY <1>2, <1>3, <1>4, <2>1
<1>8. CASE (Guard(c) \/ ComputeNextSeq(c)) /\ call[c].at # "step"
  <2>1. \/ Return(c) \/ Suspend(c, "blocked")
        \/ call' = [call EXCEPT ![c].stage = "max"]
        \/ call' = [call EXCEPT ![c].stage = "insert", ![c].base = Len(log[call[c].run])]
    BY <1>8 DEF Guard, ComputeNextSeq, Refused
  <2>2. CASE \/ call' = [call EXCEPT ![c].stage = "max"]
             \/ call' = [call EXCEPT ![c].stage = "insert", ![c].base = Len(log[call[c].run])]
    BY <1>0, <1>8, <2>2 DEF Calls
  <2> QED BY <1>2, <1>3, <2>1, <2>2
<1>9. CASE RehydrateEntry(c)
  <2>1. \/ Return(c)
        \/ call[c].at = "entry" /\ call' = [call EXCEPT ![c].todo = Tail(@)]
        \/ call' = [call EXCEPT ![c] =
                      Call("rehydrate", Head(call[c].todo).run, "check", 0, call[c].todo)]
    BY <1>9 DEF RehydrateEntry
  <2>2. CASE call[c].at = "entry" /\ call' = [call EXCEPT ![c].todo = Tail(@)]
    BY <1>0, <2>2 DEF Calls
  <2>3. CASE call' = [call EXCEPT ![c] =
                      Call("rehydrate", Head(call[c].todo).run, "check", 0, call[c].todo)]
    BY <1>0, <2>3 DEF Call
  <2> QED BY <1>2, <2>1, <2>2, <2>3
<1> QED BY <1>1, <1>2, <1>6, <1>7, <1>8, <1>9 DEF Continue, Die, SetStep

\* Whoever is at a step afterwards is new, or was there, or took the step
\* before it.
LEMMA StepAdvances ==
  ASSUME IInv, NEW c \in Callers, Begin(c) \/ Continue(c) \/ Die(c),
         NEW d \in Callers, call'[d].at = "step"
  PROVE  \/ call'[d].step = 1
         \/ Stays(d)
         \/ /\ d = c /\ call[d].at = "step" /\ call[d].step \in 1..16
            /\ call'[d].run = call[d].run /\ call'[d].step = call[d].step + 1
            /\ call[d].step \in Emits =>
                 Append1(call[d].run, Script[call[d].step].what)
<1>1. CASE d # c
  BY <1>1, OthersStay DEF Stays
<1>2. CASE d = c /\ (call[c].at # "step" \/ Begin(c))
  BY <1>2, StepOfOthers
<1>3. CASE d = c /\ call[c].at = "step" /\ ~Begin(c)
  BY <1>3, StepOfOrchestration DEF Appends
<1> QED BY <1>1, <1>2, <1>3

-----------------------------------------------------------------------------
(* The invariant of the logs                                               *)

LEMMA InitLogInv == Init => LogInv
<1> SUFFICES ASSUME Init PROVE LogInv
  OBVIOUS
<1>1. \A r \in Runs : log[r] = <<>>
  BY DEF Init
<1>2. \A c \in Callers : call[c].at # "step"
  BY DEF Init, Idle, Call
<1>3. \A r \in Runs : DOMAIN log[r] = {} /\ ToSet(log[r]) = {}
  BY <1>1 DEF ToSet
<1> QED BY <1>2, <1>3 DEF LogInv, Passed, ScriptInOrder, Distinct, Named

\* Before the event of step k there is in the log what comes before it in the
\* script, and nothing that comes after it.
LEMMA AtItsPlace ==
  ASSUME IInv, LogInv, NEW c \in Callers, call[c].at = "step", call[c].step \in Emits,
         NEW r \in Runs, call[c].run = r, Script[call[c].step].what \notin ToSet(log[r])
  PROVE  ToSet(log[r]) \cap ScriptEvents = EmittedBefore[Script[call[c].step].what]
<1> DEFINE k == call[c].step
<1>1. EmittedBefore[Script[k].what] = {Script[j].what : j \in {j \in Emits : j < k}}
  BY EmittedBeforeFacts
<1>2. ASSUME NEW j \in Emits, j < k
      PROVE  Script[j].what \in ToSet(log[r]) /\ Script[j].what \in ScriptEvents
  BY <1>2 DEF LogInv, Passed, ScriptEvents
<1>3. ASSUME NEW j \in Emits, Script[j].what \in ToSet(log[r]), ~(j < k)
      PROVE  FALSE
  <2>1. PICK i \in DOMAIN log[r] : log[r][i] = Script[j].what
    BY <1>3 DEF ToSet
  <2>2. k < j
    BY <1>3, MilestoneFacts
  <2>3. Script[k].what \in EmittedBefore[log[r][i]]
    BY <2>1, <2>2, EmittedBeforeFacts
  <2>4. \E h \in 1..(i - 1) : log[r][h] = Script[k].what
    BY <2>1, <2>3, EmittedBeforeFacts DEF LogInv, ScriptInOrder
  <2>5. log[r] \in Seq(Names)
    BY DEF IInv, Types
  <2>6. 1..(i - 1) \subseteq DOMAIN log[r]
    BY <2>1, <2>5
  <2> QED BY <2>4, <2>6 DEF ToSet
<1>4. \A e \in ScriptEvents : \E j \in Emits : e = Script[j].what
  BY DEF ScriptEvents
<1> QED BY <1>1, <1>2, <1>3, <1>4

LEMMA AppendKeepsLogs ==
  ASSUME IInv, LogInv, NEW c \in Callers, NEW name, Appends(c, name)
  PROVE  ScriptInOrder' /\ Distinct' /\ Named'
<1> DEFINE r == call[c].run
           n == Len(log[r]) + 1
<1>1. /\ r \in Runs /\ log \in [Runs -> Seq(Names)]
      /\ name \notin ToSet(log[r])
      /\ log' = [log EXCEPT ![r] = Append(log[r], name)]
  BY DEF IInv, Types, Appends, Append1
<1>2. name \in EventNames
  <2>1. CASE name \in VerbEvents
    BY <2>1 DEF VerbEvents, EventNames
  <2>2. CASE call[c].step \in Emits /\ name = Script[call[c].step].what
    BY <2>2 DEF EventNames, ScriptEvents
  <2> QED BY <2>1, <2>2 DEF Appends
<1>3. /\ log'[r] = Append(log[r], name)
      /\ \A q \in Runs : q # r => log'[q] = log[q]
  BY <1>1
<1>4. /\ DOMAIN log'[r] = 1..n /\ DOMAIN log[r] = 1..(n - 1) /\ n \in Nat /\ n > 0
      /\ log'[r][n] = name
      /\ \A i \in 1..(n - 1) : log'[r][i] = log[r][i]
  <2>1. log[r] \in Seq(Names \cup {name}) /\ name \in Names \cup {name}
    BY <1>1
  <2> QED BY <1>3, <2>1, AppendPlaces
<1>5. ToSet(log'[r]) = ToSet(log[r]) \cup {name}
  BY <1>4 DEF ToSet
<1>6. Named'
  BY <1>2, <1>3, <1>5 DEF LogInv, Named
<1>7. Distinct'
  <2>1. ASSUME NEW i \in DOMAIN log'[r], NEW j \in DOMAIN log'[r], log'[r][i] = log'[r][j]
        PROVE  i = j
    <3>1. \A h \in 1..(n - 1) : log'[r][h] # name
      BY <1>1, <1>4 DEF ToSet
    <3>2. (i = n \/ i \in 1..(n - 1)) /\ (j = n \/ j \in 1..(n - 1))
      BY <1>4
    <3>3. \A h, k \in 1..(n - 1) : log[r][h] = log[r][k] => h = k
      BY <1>1, <1>4 DEF LogInv, Distinct
    <3>4. CASE i = n \/ j = n
      BY <1>4, <2>1, <3>1, <3>2, <3>4
    <3>5. CASE i \in 1..(n - 1) /\ j \in 1..(n - 1)
      <4>1. log[r][i] = log[r][j]
        BY <1>4, <2>1, <3>5
      <4> QED BY <3>3, <3>5, <4>1, Zenon
    <3> QED BY <3>2, <3>4, <3>5
  <2> QED BY <1>3, <2>1 DEF LogInv, Distinct
<1>8. ScriptInOrder'
  <2>1. ASSUME NEW i \in 1..n, log'[r][i] \in ScriptEvents
        PROVE  {log'[r][h] : h \in 1..(i - 1)} \cap ScriptEvents = EmittedBefore[log'[r][i]]
    <3>1. {log'[r][h] : h \in 1..(i - 1)} = {log[r][h] : h \in 1..(i - 1)}
      <4>1. \A h \in 1..(i - 1) : h \in 1..(n - 1)
        BY <1>4, SMT
      <4> HIDE DEF n, r
      <4>2. \A h \in 1..(i - 1) : log'[r][h] = log[r][h]
        BY <1>4, <4>1
      <4> QED BY <4>2, Zenon
    <3>2. CASE i # n
      <4>1. i \in 1..(n - 1)
        BY <1>4, <3>2, SMT
      <4>2. i \in DOMAIN log[r] /\ log'[r][i] = log[r][i]
        BY <1>4, <4>1
      <4>3. {log[r][h] : h \in 1..(i - 1)} \cap ScriptEvents = EmittedBefore[log[r][i]]
        BY <1>1, <2>1, <4>2 DEF LogInv, ScriptInOrder
      <4> HIDE DEF n, r
      <4> QED BY <3>1, <4>2, <4>3
    <3>3. CASE i = n
      <4>1. {log[r][h] : h \in 1..(i - 1)} = ToSet(log[r])
        BY <1>4, <3>3 DEF ToSet
      <4>2. name \notin VerbEvents
        BY <1>4, <2>1, <3>3, MilestoneFacts
      <4>3. call[c].at = "step" /\ call[c].step \in Emits /\ name = Script[call[c].step].what
        BY <4>2 DEF Appends
      <4>4. ToSet(log[r]) \cap ScriptEvents = EmittedBefore[name]
        BY <1>1, <4>3, AtItsPlace
      <4> QED BY <1>4, <3>1, <3>3, <4>1, <4>4
    <3> QED BY <3>2, <3>3
  <2>2. ASSUME NEW q \in Runs, NEW i \in DOMAIN log'[q], log'[q][i] \in ScriptEvents
        PROVE  {log'[q][h] : h \in 1..(i - 1)} \cap ScriptEvents = EmittedBefore[log'[q][i]]
    <3>1. CASE q = r
      <4> HIDE DEF n, r
      <4>1. i \in 1..n /\ log'[r][i] \in ScriptEvents
        BY <1>4, <2>2, <3>1
      <4> QED BY <2>1, <3>1, <4>1, Zenon
    <3>2. CASE q # r
      BY <1>3, <2>2, <3>2 DEF LogInv, ScriptInOrder
    <3> QED BY <3>1, <3>2
  <2>3. ScriptEvents' = ScriptEvents /\ EmittedBefore' = EmittedBefore
    BY DEF ScriptEvents, EmittedBefore, Emits
  <2> QED BY <2>2, <2>3 DEF ScriptInOrder
<1> QED BY <1>6, <1>7, <1>8

\* An append loses nothing.
LEMMA LogsGrow ==
  ASSUME IInv, NEW c \in Callers, Begin(c) \/ Continue(c) \/ Die(c), NEW r \in Runs
  PROVE  ToSet(log[r]) \subseteq ToSet(log'[r])
<1>1. log \in [Runs -> Seq(Names)]
  BY DEF IInv, Types
<1>2. ASSUME NEW name, Appends(c, name)
      PROVE  ToSet(log[r]) \subseteq ToSet(log'[r])
  <2>1. log[r] \in Seq(Names \cup {name}) /\ name \in Names \cup {name}
    BY <1>1
  <2>2. log'[r] = log[r] \/ log'[r] = Append(log[r], name)
    BY <1>1, <1>2 DEF Appends, Append1
  <2>3. CASE log'[r] = log[r]
    BY <2>3
  <2>4. CASE log'[r] = Append(log[r], name)
    <3>1. ToSet(log[r]) \subseteq ToSet(Append(log[r], name))
      BY <2>1, AppendGrows
    <3> QED BY <2>4, <3>1
  <2> QED BY <2>2, <2>3, <2>4
<1> QED BY <1>2, StepAppends

LEMMA NextLogInv == IInv /\ LogInv /\ [Next]_vars => LogInv'
<1> SUFFICES ASSUME IInv, LogInv, [Next]_vars PROVE LogInv'
  OBVIOUS
<1>1. CASE UNCHANGED vars
  BY <1>1 DEF vars, LogInv, Passed, ScriptInOrder, Distinct, Named
<1>2. ASSUME NEW c \in Callers, Begin(c) \/ Continue(c) \/ Die(c)
      PROVE  LogInv'
  <2>1. ScriptInOrder' /\ Distinct' /\ Named'
    <3>1. CASE log' = log
      BY <3>1 DEF LogInv, ScriptInOrder, Distinct, Named
    <3>2. CASE \E name : Appends(c, name)
      BY <3>2, AppendKeepsLogs
    <3> QED BY <1>2, <3>1, <3>2, StepAppends
  <2>2. ASSUME NEW d \in Callers, call'[d].at = "step", NEW j \in Emits, j < call'[d].step
        PROVE  Script[j].what \in ToSet(log'[call'[d].run])
    <3>0. /\ call \in [Callers -> Calls] /\ log \in [Runs -> Seq(Names)]
          /\ \A e \in Callers : call[e].at = "step" => call[e].run \in Runs /\ call[e].step \in 1..17
      BY DEF IInv, Types, AllPlaced, Placed
    <3>1. CASE call'[d].step = 1
      BY <2>2, <3>1, MilestoneFacts
    <3>2. CASE Stays(d)
      BY <1>2, <2>2, <3>0, <3>2, LogsGrow DEF LogInv, Passed, Stays
    <3>3. CASE /\ d = c /\ call[d].at = "step" /\ call[d].step \in 1..16
               /\ call'[d].run = call[d].run /\ call'[d].step = call[d].step + 1
               /\ call[d].step \in Emits => Append1(call[d].run, Script[call[d].step].what)
      <4>1. CASE j < call[d].step
        BY <1>2, <3>0, <3>3, <4>1, LogsGrow DEF LogInv, Passed
      <4>2. CASE j = call[d].step
        <5> DEFINE name == Script[j].what
                   r == call[d].run
        <5>1. r \in Runs /\ log[r] \in Seq(Names \cup {name}) /\ name \in Names \cup {name}
          BY <3>0, <3>3
        <5>2. log'[r] = Append(log[r], name)
          BY <3>0, <3>3, <4>2, <5>1 DEF Append1
        <5> QED BY <3>3, <5>1, <5>2, AppendGrows
      <4> QED BY <2>2, <3>3, <4>1, <4>2, MilestoneFacts
    <3> QED BY <1>2, <2>2, <3>1, <3>2, <3>3, StepAdvances
  <2> QED BY <2>1, <2>2 DEF LogInv, Passed
<1> QED BY <1>1, <1>2 DEF Next

LEMMA LogsAreSound == Spec => [](IInv /\ LogInv)
<1>1. Init => IInv /\ LogInv
  BY InitIInv, InitLogInv
<1>2. IInv /\ LogInv /\ [Next]_vars => (IInv /\ LogInv)'
  BY NextIInv, NextLogInv
<1> QED BY <1>1, <1>2, PTL DEF Spec

(***************************************************************************)
(* The verbs append only the events they have and write only states; a     *)
(* coroutine is idle or at an await of its verb, at a step of the script.  *)
(***************************************************************************)
THEOREM TypeOKHolds == Spec => []TypeOK
<1>1. IInv /\ LogInv => TypeOK
  <2> SUFFICES ASSUME IInv, LogInv PROVE TypeOK
    OBVIOUS
  <2>1. \A c \in Callers : call[c] \in Calls
    BY DEF IInv, Types
  <2>2. \A c \in Callers : ToSet(call[c].todo) \subseteq Entry
    BY <2>1 DEF Calls, ToSet
  <2> QED BY <2>1, <2>2, ScriptFacts DEF TypeOK, IInv, Types, LogInv, Named, Calls, Places, Stages
<1> QED BY <1>1, LogsAreSound, PTL

(***************************************************************************)
(* The events of the script stand in the log of a run in the order of      *)
(* OrchestrationService.run, none skipped and none twice, however many     *)
(* coroutines try and wherever they die.                                   *)
(***************************************************************************)
THEOREM ScriptInOrderHolds == Spec => []ScriptInOrder
<1>1. LogInv => ScriptInOrder
  BY DEF LogInv
<1> QED BY <1>1, LogsAreSound, PTL

-----------------------------------------------------------------------------
(***************************************************************************)
(* Why an orchestration past its first event is refused an event: what it  *)
(* has still to emit is nobody else's to emit, so it is not in the log; no *)
(* verb writes a state that would close the run before it; and what        *)
(* arrives between its MAX and its INSERT is a verb's event.               *)
(***************************************************************************)

\* The events from its step on are not in the log of its run.
Ahead ==
  \A c \in Callers : call[c].at = "step" /\ call[c].step > 1 =>
    \A j \in Emits : j >= call[c].step => Script[j].what \notin ToSet(log[call[c].run])

\* A run ends by being completed.
NotEnded == \A r \in Runs : state[r] \notin {"failed", "cancelled"}

\* What is in the log behind the maximum that it has read are verbs' events.
Overtaken ==
  \A c \in Callers :
    call[c].at = "step" /\ call[c].step > 1 /\ call[c].stage = "insert" =>
      LET events == log[call[c].run] IN
      /\ call[c].base <= Len(events)
      /\ \A i \in (call[c].base + 1)..Len(events) : events[i] \in VerbEvents

\* An emission is followed by another step, or by none.
LEMMA EmitterMovesOn ==
  ASSUME IInv, NEW c \in Callers, Begin(c) \/ Continue(c) \/ Die(c),
         Stays(c), call'[c].at = "step"
  PROVE  /\ log' = log
         /\ \/ call'[c].stage = "max"
            \/ call'[c].stage = "insert" /\ call'[c].base = Len(log[call[c].run])
<1>1. ~Begin(c)
  BY DEF Stays, Begin, Start, Check, Orchestrate, Rehydrate, Idle, Call
<1>2. call'[c].step # call[c].step + 1 \/ call[c].step \notin 1..16
  BY DEF Stays
<1> QED BY <1>1, <1>2, StepOfOrchestration DEF Stays

\* What c appends is not an event that somebody past the first one has to emit.
LEMMA AppendsBehind ==
  ASSUME IInv, NEW c \in Callers, NEW name, Appends(c, name),
         NEW d \in Callers, d # c, call[d].at = "step", call[d].step > 1,
         call[d].run = call[c].run
  PROVE  name \notin ScriptEvents
<1> SUFFICES ASSUME name \in ScriptEvents PROVE FALSE
  OBVIOUS
<1>1. call[c].at = "step" /\ name = Script[call[c].step].what
  BY MilestoneFacts DEF Appends
<1>2. /\ call[c].verb = "orchestrate" /\ call[d].verb = "orchestrate"
      /\ call[c].step \in 1..17
  BY <1>1 DEF IInv, AllPlaced, Placed
<1>3. CASE call[c].step = 1
  <2>1. "intake.received" \in ToSet(log[call[c].run])
    BY DEF IInv, Marked
  <2> QED BY <1>1, <1>3, <2>1, ScriptFacts DEF Appends
<1>4. CASE call[c].step > 1
  BY <1>2, <1>4 DEF IInv, SoleOrchestrator
<1> QED BY <1>2, <1>3, <1>4

\* What an append adds to the logs.
LEMMA AppendAdds ==
  ASSUME IInv, NEW c \in Callers, NEW name, Appends(c, name), NEW r \in Runs
  PROVE  ToSet(log'[r]) = IF r = call[c].run THEN ToSet(log[r]) \cup {name} ELSE ToSet(log[r])
<1>1. log \in [Runs -> Seq(Names)] /\ log' = [log EXCEPT ![call[c].run] = Append(@, name)]
  BY DEF IInv, Types, Appends, Append1
<1>2. log[r] \in Seq(Names \cup {name}) /\ name \in Names \cup {name}
  BY <1>1
<1>3. ToSet(Append(log[r], name)) = ToSet(log[r]) \cup {name}
  BY <1>2, AppendGrows
<1> QED BY <1>1, <1>3

\* An orchestration that gets to its next step has appended what it had to.
LEMMA AdvanceAppends ==
  ASSUME IInv, NEW c \in Callers, Begin(c) \/ Continue(c) \/ Die(c),
         call[c].at = "step", call'[c].at = "step", call'[c].step = call[c].step + 1
  PROVE  IF call[c].step \in Emits THEN Appends(c, Script[call[c].step].what) ELSE log' = log
<1>1. call[c].step \in 1..17
  BY DEF IInv, AllPlaced, Placed
<1>2. ~Begin(c)
  BY DEF Begin, Start, Check, Orchestrate, Rehydrate, Idle, Call
<1>3. ~Stays(c)
  BY <1>1 DEF Stays
<1> QED BY <1>2, <1>3, StepOfOrchestration

\* Where an orchestration gets to its next step, what it has to emit after
\* this one is not in the log: it was not there, or this is the first event,
\* before which there is none of the script.
LEMMA AdvanceKeepsAhead ==
  ASSUME IInv, LogInv, Ahead, NEW c \in Callers, Begin(c) \/ Continue(c) \/ Die(c),
         call[c].at = "step", call'[c].at = "step", call'[c].step = call[c].step + 1,
         NEW j \in Emits, j > call[c].step
  PROVE  Script[j].what \notin ToSet(log'[call[c].run])
<1> DEFINE k == call[c].step
           r == call[c].run
           e == Script[j].what
<1>1. r \in Runs /\ k \in 1..17 /\ j \in 1..17 /\ e \in ScriptEvents
  BY MilestoneFacts DEF IInv, AllPlaced, Placed, ScriptEvents
<1>2. e \notin ToSet(log[r])
  <2>1. CASE k > 1
    BY <1>1, <2>1 DEF Ahead
  <2>2. CASE k = 1
    <3>1. k \in Emits
      BY <2>2, MilestoneFacts
    <3>2. Script[k].what \notin ToSet(log[r])
      <4>1. Appends(c, Script[k].what)
        BY <3>1, AdvanceAppends
      <4>2. \A name : Appends(c, name) => name \notin ToSet(log[r])
        BY DEF Appends
      <4> HIDE DEF k, r
      <4> QED BY <4>1, <4>2
    <3>3. ToSet(log[r]) \cap ScriptEvents = {Script[i].what : i \in {i \in Emits : i < k}}
      BY <1>1, <3>1, <3>2, AtItsPlace, EmittedBeforeFacts
    <3>4. \A i \in Emits : ~(i < k)
      <4>1. \A i \in 1..17 : ~(i < 1)
        OBVIOUS
      <4> QED BY <2>2, <4>1, MilestoneFacts
    <3>5. {Script[i].what : i \in {i \in Emits : i < k}} = {}
      BY <3>4
    <3> QED BY <1>1, <3>3, <3>5, Zenon
  <2> QED BY <1>1, <2>1, <2>2
<1>3. CASE k \in Emits
  <2>1. Appends(c, Script[k].what)
    BY <1>3, AdvanceAppends
  <2>2. Script[k].what # e
    BY <1>1, <1>3, MilestoneFacts
  <2>3. ToSet(log'[r]) = ToSet(log[r]) \cup {Script[k].what}
    BY <1>1, <2>1, AppendAdds
  <2> QED BY <1>2, <2>2, <2>3
<1>4. CASE k \notin Emits
  BY <1>2, <1>4, AdvanceAppends
<1> QED BY <1>3, <1>4

LEMMA NextAhead ==
  ASSUME IInv, LogInv, Ahead, NEW c \in Callers, Begin(c) \/ Continue(c) \/ Die(c)
  PROVE  Ahead'
<1> SUFFICES ASSUME NEW d \in Callers, call'[d].at = "step", call'[d].step > 1,
                    NEW j \in Emits, j >= call'[d].step
             PROVE  Script[j].what \notin ToSet(log'[call'[d].run])
  BY DEF Ahead, Emits
<1>1. Script[j].what \in ScriptEvents /\ j \in Nat
  BY MilestoneFacts DEF ScriptEvents
<1>2. \A a \in Callers : call[a] \in Calls /\ Placed(call[a])
  BY DEF IInv, Types, AllPlaced
<1>3. CASE Stays(d)
  <2> DEFINE r == call[d].run
  <2>1. /\ r \in Runs /\ Script[j].what \notin ToSet(log[r])
        /\ call[d].at = "step" /\ call[d].step > 1 /\ call'[d].run = r
    BY <1>2, <1>3 DEF Ahead, Placed, Stays
  <2>2. ASSUME NEW name, Appends(c, name), r = call[c].run
        PROVE  Script[j].what # name
    <3>1. CASE d = c
      <4>1. log' = log /\ ToSet(log'[r]) = ToSet(log[r]) \cup {name}
        BY <1>3, <2>1, <2>2, <3>1, EmitterMovesOn, AppendAdds
      <4> QED BY <2>1, <4>1
    <3>2. CASE d # c
      BY <1>1, <2>1, <2>2, <3>2, AppendsBehind
    <3> QED BY <3>1, <3>2
  <2>3. CASE \E name : Appends(c, name)
    <3>1. PICK name : Appends(c, name)
      BY <2>3
    <3>2. CASE r = call[c].run
      <4>1. ToSet(log'[r]) = ToSet(log[r]) \cup {name}
        BY <2>1, <3>1, <3>2, AppendAdds
      <4> QED BY <1>3, <2>1, <2>2, <3>1, <3>2, <4>1
    <3>3. CASE r # call[c].run
      <4>1. ToSet(log'[r]) = ToSet(log[r])
        BY <2>1, <3>1, <3>3, AppendAdds
      <4> QED BY <1>3, <2>1, <4>1
    <3> QED BY <3>2, <3>3
  <2>4. CASE log' = log
    BY <1>3, <2>1, <2>4
  <2> QED BY <2>3, <2>4, StepAppends
<1>4. CASE /\ d = c /\ call[d].at = "step" /\ call[d].step \in 1..16
           /\ call'[d].run = call[d].run /\ call'[d].step = call[d].step + 1
  <2>1. j > call[c].step
    BY <1>1, <1>4
  <2> QED BY <1>4, <2>1, AdvanceKeepsAhead
<1>5. \/ call'[d].step = 1 \/ Stays(d)
      \/ /\ d = c /\ call[d].at = "step" /\ call[d].step \in 1..16
         /\ call'[d].run = call[d].run /\ call'[d].step = call[d].step + 1
  BY StepAdvances
<1> QED BY <1>3, <1>4, <1>5

\* No verb writes failed or cancelled.
LEMMA NextNotEnded ==
  ASSUME IInv, NotEnded, NEW c \in Callers, Begin(c) \/ Continue(c) \/ Die(c)
  PROVE  NotEnded'
<1>1. state \in [Runs -> States \cup {None}]
  BY DEF IInv, Types
<1>2. CASE SetStep(c)
  <2>1. /\ Script[call[c].step].do = "set"
        /\ state' = [state EXCEPT ![call[c].run] = Script[call[c].step].what]
    BY <1>2 DEF SetStep
  <2>2. call[c].step \in 1..17
    BY <1>2, SetStepFacts
  <2>3. Script[call[c].step].what \in {"planning", "executing", "completed"}
    BY <2>1, <2>2, ScriptFacts
  <2> QED BY <1>1, <2>1, <2>3 DEF NotEnded
<1>3. CASE \E r \in Runs : Start(c, r)
  BY <1>1, <1>3 DEF Start, NotEnded
<1>4. CASE state' = state
  BY <1>4 DEF NotEnded
<1> QED BY <1>2, <1>3, <1>4
        DEF Begin, Continue, Die, Check, Orchestrate, Rehydrate, LatestSeq, Guard,
            ComputeNextSeq, Insert, RehydrateEntry, RehydrateCheck

LEMMA NextOvertaken ==
  ASSUME IInv, LogInv, Overtaken, NEW c \in Callers, Begin(c) \/ Continue(c) \/ Die(c)
  PROVE  Overtaken'
<1> SUFFICES ASSUME NEW d \in Callers, call'[d].at = "step", call'[d].step > 1,
                    call'[d].stage = "insert"
             PROVE  /\ call'[d].base <= Len(log'[call'[d].run])
                    /\ \A i \in (call'[d].base + 1)..Len(log'[call'[d].run]) :
                         log'[call'[d].run][i] \in VerbEvents
  BY DEF Overtaken
<1>1. /\ log \in [Runs -> Seq(Names)]
      /\ \A a \in Callers : call[a] \in Calls /\ Placed(call[a])
  BY DEF IInv, Types, AllPlaced
<1>2. CASE d = c
  <2>1. ~Begin(c) /\ call[c].at = "step"
    BY <1>2, StepOfOthers
  <2>2. Stays(c)
    BY <1>2, <2>1, StepOfOrchestration
  <2>3. log' = log /\ call'[c].base = Len(log[call[c].run]) /\ call'[c].run = call[c].run
    BY <1>2, <2>2, EmitterMovesOn DEF Stays
  <2>4. Len(log[call[c].run]) \in Nat
    BY <1>1, <2>1 DEF Placed
  <2> QED BY <1>2, <2>3, <2>4
<1>3. CASE d # c
  <2> DEFINE r == call[d].run
             b == call[d].base
             n == Len(log[r])
  <2>1. /\ call'[d] = call[d] /\ r \in Runs /\ b \in Nat /\ n \in Nat
        /\ log[r] \in Seq(Names)
        /\ b <= n /\ \A i \in (b + 1)..n : log[r][i] \in VerbEvents
    BY <1>1, <1>3, OthersStay DEF Overtaken, Placed, Calls
  <2>2. CASE log'[r] = log[r]
    BY <2>1, <2>2
  <2>3. ASSUME NEW name, Appends(c, name), call[c].run = r
        PROVE  /\ name \in VerbEvents
               /\ Len(log'[r]) = n + 1 /\ log'[r][n + 1] = name
               /\ \A i \in 1..n : log'[r][i] = log[r][i]
    <3>1. name \notin ScriptEvents
      BY <1>3, <2>1, <2>3, AppendsBehind
    <3>2. name \in VerbEvents
      BY <2>3, <3>1 DEF Appends, ScriptEvents
    <3>3. log[r] \in Seq(Names \cup {name}) /\ name \in Names \cup {name}
      BY <2>1
    <3>4. log'[r] = Append(log[r], name)
      BY <1>1, <2>1, <2>3 DEF Appends, Append1
    <3> QED BY <3>2, <3>3, <3>4, AppendProperties
  <2>4. CASE \E name : Appends(c, name) /\ call[c].run = r
    <3>1. PICK name : Appends(c, name) /\ call[c].run = r
      BY <2>4
    <3>2. /\ name \in VerbEvents
          /\ Len(log'[r]) = n + 1 /\ log'[r][n + 1] = name
          /\ \A i \in 1..n : log'[r][i] = log[r][i]
      BY <2>3, <3>1
    <3>0. \A i \in (b + 1)..n : log[r][i] \in VerbEvents
      BY <2>1
    <3> HIDE DEF n, b, r
    <3>3. ASSUME NEW i \in (b + 1)..(n + 1) PROVE log'[r][i] \in VerbEvents
      <4>1. b \in Nat /\ n \in Nat
        BY <2>1
      <4>2. i = n + 1 \/ (i \in (b + 1)..n /\ i \in 1..n)
        BY <4>1
      <4>3. CASE i \in (b + 1)..n /\ i \in 1..n
        <5>1. log[r][i] \in VerbEvents
          BY <3>0, <4>3
        <5>2. log'[r][i] = log[r][i]
          BY <3>2, <4>3
        <5> QED BY <5>1, <5>2
      <4> QED BY <3>2, <4>2, <4>3
    <3>4. b <= n + 1
      BY <2>1
    <3> QED BY <2>1, <3>2, <3>3, <3>4 DEF b, r
  <2>5. \/ log'[r] = log[r]
        \/ \E name : Appends(c, name) /\ call[c].run = r
    <3>1. ASSUME NEW name, Appends(c, name), call[c].run # r
          PROVE  log'[r] = log[r]
      BY <1>1, <2>1, <3>1 DEF Appends, Append1
    <3> QED BY <3>1, StepAppends
  <2> QED BY <2>2, <2>4, <2>5
<1> QED BY <1>2, <1>3

(***************************************************************************)
(* Past its first event, an orchestration of a run that is not cancelled   *)
(* is refused an event only where a verb's event took its seq              *)
(* (service.py:84-300, run_lifecycle.py:222-265, run_event_repo.py:100-124)*)
(***************************************************************************)
THEOREM RefusedOnlyByVerbsHolds == Spec => []RefusedOnlyByVerbs
<1>1. Init => Ahead /\ NotEnded /\ Overtaken
  <2> SUFFICES ASSUME Init PROVE Ahead /\ NotEnded /\ Overtaken
    OBVIOUS
  <2>1. \A c \in Callers : call[c].at = "idle"
    BY DEF Init, Idle, Call
  <2>2. \A r \in Runs : state[r] \notin States
    BY NoneAssumption DEF Init
  <2> QED BY <2>1, <2>2 DEF Ahead, NotEnded, Overtaken, States, TerminalStates
<1>2. /\ IInv /\ LogInv /\ Ahead /\ NotEnded /\ Overtaken /\ [Next]_vars
      => Ahead' /\ NotEnded' /\ Overtaken'
  <2> SUFFICES ASSUME IInv, LogInv, Ahead, NotEnded, Overtaken, [Next]_vars
               PROVE  Ahead' /\ NotEnded' /\ Overtaken'
    OBVIOUS
  <2>1. CASE UNCHANGED vars
    BY <2>1 DEF vars, Ahead, NotEnded, Overtaken, Emits
  <2>2. CASE Next
    BY <2>2, NextAhead, NextNotEnded, NextOvertaken DEF Next
  <2> QED BY <2>1, <2>2
<1>3. IInv /\ Ahead /\ NotEnded /\ Overtaken => RefusedOnlyByVerbs
  <2> SUFFICES ASSUME IInv, Ahead, NotEnded, Overtaken,
                      NEW c \in Callers, call[c].at = "step", call[c].step > 1,
                      AboutToBeRefused(c)
               PROVE  LET events == log[call[c].run]
                          base == call[c].base
                      IN /\ call[c].stage = "insert" /\ base < Len(events)
                         /\ events[base + 1] \in VerbEvents
    BY DEF RefusedOnlyByVerbs
  <2> DEFINE events == log[call[c].run]
             base == call[c].base
  <2>1. /\ call[c].run \in Runs /\ call[c].step \in 1..17 /\ base \in Nat
        /\ events \in Seq(Names)
    BY DEF IInv, Types, AllPlaced, Placed, Calls
  <2>2. call[c].step \in Emits
    BY <2>1, MilestoneFacts DEF AboutToBeRefused, Appending
  <2>3. EventName(c) \notin ToSet(events)
    BY <2>1, <2>2 DEF Ahead, EventName
  <2>4. ~Terminal(call[c].run)
    BY <2>1 DEF IInv, NobodyLeft, NotEnded, Terminal, TerminalStates
  <2>5. call[c].stage = "insert" /\ base # Len(events)
    BY <2>3, <2>4 DEF AboutToBeRefused, IsFree
  <2>6. base <= Len(events) /\ \A i \in (base + 1)..Len(events) : events[i] \in VerbEvents
    BY <2>5 DEF Overtaken
  <2>7. Len(events) \in Nat
    BY <2>1
  <2> HIDE DEF events, base
  <2>8. base < Len(events) /\ base + 1 \in (base + 1)..Len(events)
    BY <2>1, <2>5, <2>6, <2>7
  <2>9. events[base + 1] \in VerbEvents
    BY <2>6, <2>8
  <2> QED BY <2>5, <2>8, <2>9 DEF events, base
<1> QED BY <1>1, <1>2, <1>3, LogsAreSound, PTL DEF Spec

-----------------------------------------------------------------------------
(***************************************************************************)
(* What an operator is shown. The row is read first and the events after   *)
(* it, and the logs only grow: whatever had been emitted when the state    *)
(* was written is in the log that the records are made of.                 *)
(***************************************************************************)

Explained == {"planning", "executing", "completed"}

\* Every state in Explained was written behind what the script emits before.
WrittenBehind ==
  \A r \in Runs : state[r] \in Explained => ShownBefore(state[r]) \subseteq ToSet(log[r])

\* The same of the state that a request has read, and in the end of what it
\* shows.
ViewPlaced ==
  /\ view = [run |-> view.run, todo |-> view.todo, state |-> view.state,
             milestones |-> view.milestones, artifacts |-> view.artifacts]
  /\ view.run = None => view.todo = <<>>
  /\ view.run # None =>
       /\ view.run \in Runs
       /\ view.todo \in {ReadOrder, <<"events">>, <<>>}
       /\ view.todo # ReadOrder /\ view.state \in Explained =>
            ShownBefore(view.state) \subseteq ToSet(log[view.run])
       /\ view.todo = <<>> /\ view.state \in Explained =>
            ShownBefore(view.state) \subseteq
              {record.name : record \in view.milestones \cup view.artifacts}

ViewInv == WrittenBehind /\ ViewPlaced

LEMMA SetPlaces ==
  ASSUME NEW k \in 1..17, Script[k].do = "set"
  PROVE  Script[k] = Set(Script[k].what)
<1>1. /\ Script[1] = Emit("intake.received") /\ Script[2] = Emit("intake.accepted")
      /\ Script[4] = Emit("plan.drafted") /\ Script[5] = Emit("plan.approval_requested")
      /\ Script[6] = Emit("plan.ready") /\ Script[8] = Emit("execute.tool_invoked")
      /\ Script[9] = Emit("execute.artifact_emitted")
      /\ Script[10] = Emit("execute.waiting_approval")
      /\ Script[12] = Emit("review.findings_recorded")
      /\ Script[14] = Emit("handoff.envelope_emitted")
      /\ Script[15] = Emit("usage-summary") /\ Script[16] = Emit("completed")
  BY DEF Script
<1>2. /\ Script[3] = Set("planning") /\ Script[7] = Set("planning")
      /\ Script[11] = Set("executing") /\ Script[13] = Set("planning")
      /\ Script[17] = Set("completed")
  BY DEF Script
<1>3. \A name : Emit(name).do # "set" /\ Set(name).what = name
  BY DEF Emit, Set
<1>4. k \in {3, 7, 11, 13, 17}
  <2>1. k \notin {1, 2, 4, 5, 6, 8, 9, 10, 12, 14, 15, 16}
    BY <1>1, <1>3
  <2> QED BY <2>1
<1> QED BY <1>2, <1>3, <1>4

\* What leads to a state is emitted before each step that writes it.
LEMMA ShownBeforeFacts ==
  ASSUME NEW k \in 1..17, Script[k].what \in Explained, Script[k].do = "set"
  PROVE  ShownBefore(Script[k].what) \subseteq
           {Script[j].what : j \in {j \in Emits : j < k}} \cap (MilestoneNames \cup ArtifactNames)
<1> DEFINE st == Script[k].what
           P(i) == Script[i] = Set(st) /\ \A j \in 1..(i - 1) : Script[j] # Set(st)
           first == CHOOSE i \in DOMAIN Script : P(i)
<1>1. DOMAIN Script = 1..17 /\ Script[k] = Set(st)
  BY SetPlaces, MilestoneFacts DEF Script
<1>2. \E i \in 1..17 : P(i)
  <2>1. /\ Script[3] = Set("planning") /\ Script[11] = Set("executing")
        /\ Script[17] = Set("completed")
    BY DEF Script
  <2>2. \A j \in 1..2 : Script[j] # Set("planning")
    BY DEF Script, Emit, Set
  <2>3. \A j \in 1..10 : Script[j] # Set("executing")
    BY DEF Script, Emit, Set
  <2>4. \A j \in 1..16 : Script[j] # Set("completed")
    BY DEF Script, Emit, Set
  <2>5. st = "planning" => P(3)
    BY <2>1, <2>2
  <2>6. st = "executing" => P(11)
    BY <2>1, <2>3
  <2>7. st = "completed" => P(17)
    BY <2>1, <2>4
  <2> QED BY <2>5, <2>6, <2>7 DEF Explained
<1>3. first \in 1..17 /\ P(first)
  <2> HIDE DEF P
  <2> QED BY <1>1, <1>2
<1> HIDE DEF first
<1>4. first <= k
  BY <1>1, <1>3
<1>5. \A j \in 1..(first - 1) : Script[j].do = "emit" => j \in Emits /\ j < k
  BY <1>1, <1>3, <1>4, MilestoneFacts
<1>6. ShownBefore(st) =
        {Script[j].what : j \in {j \in 1..(first - 1) : Script[j].do = "emit"}}
          \cap (MilestoneNames \cup ArtifactNames)
  BY DEF ShownBefore, first
<1> HIDE DEF P
<1> QED BY <1>5, <1>6

LEMMA NextWrittenBehind ==
  ASSUME IInv, LogInv, WrittenBehind, NEW c \in Callers, Begin(c) \/ Continue(c) \/ Die(c)
  PROVE  WrittenBehind'
<1>0. Types /\ AllPlaced /\ Passed
  BY DEF IInv, LogInv
<1>1. ASSUME NEW r \in Runs, state'[r] = state[r], state'[r] \in Explained
      PROVE  ShownBefore(state'[r]) \subseteq ToSet(log'[r])
  BY <1>1, LogsGrow DEF WrittenBehind
<1>2. CASE state' = state
  BY <1>1, <1>2 DEF WrittenBehind
<1>3. CASE \E r \in Runs : Start(c, r)
  <2>1. PICK r \in Runs : state' = [state EXCEPT ![r] = "created"]
    BY <1>3 DEF Start
  <2>2. state'[r] = "created" /\ \A q \in Runs : q # r => state'[q] = state[q]
    BY <1>0, <2>1 DEF Types
  <2> QED BY <1>1, <2>2 DEF WrittenBehind, Explained
<1>4. CASE SetStep(c)
  <2> DEFINE k == call[c].step
             run == call[c].run
             st == Script[k].what
  <2>1. /\ run \in Runs /\ state' = [state EXCEPT ![run] = st]
        /\ log' = log /\ Script[k].do = "set" /\ call[c].at = "step"
    BY <1>4, SetStepFacts DEF SetStep
  <2>0. k \in 1..17
    BY <1>0, <2>1 DEF AllPlaced, Placed
  <2>2. state'[run] = st /\ \A q \in Runs : q # run => state'[q] = state[q]
    BY <1>0, <2>1 DEF Types
  <2>3. {Script[j].what : j \in {j \in Emits : j < k}} \subseteq ToSet(log'[run])
    BY <1>0, <2>1 DEF Passed
  <2>4. st \in Explained => ShownBefore(st) \subseteq ToSet(log'[run])
    <3> HIDE DEF k, run
    <3> QED BY <2>0, <2>1, <2>3, ShownBeforeFacts
  <2> HIDE DEF st, run
  <2> QED BY <1>1, <2>2, <2>4 DEF WrittenBehind
<1> QED BY <1>2, <1>3, <1>4
        DEF Begin, Continue, Die, Check, Orchestrate, Rehydrate, LatestSeq, Guard,
            ComputeNextSeq, Insert, RehydrateEntry, RehydrateCheck

\* A request in hand stays right when a verb moves the run on.
LEMMA VerbKeepsView ==
  ASSUME IInv, ViewPlaced, UNCHANGED view,
         NEW c \in Callers, Begin(c) \/ Continue(c) \/ Die(c)
  PROVE  ViewPlaced'
BY LogsGrow DEF ViewPlaced

\* The records of both kinds show all of the log that is not a verb's.
LEMMA RecordsShow ==
  ASSUME NEW events, NEW name \in ToSet(events),
         name \in MilestoneNames \cup ArtifactNames
  PROVE  \E record \in Records(events, MilestoneNames) \cup Records(events, ArtifactNames) :
           record.name = name
<1>1. PICK i \in DOMAIN events : events[i] = name
  BY DEF ToSet
<1>2. [seq |-> i, name |-> events[i]].name = name
  BY <1>1
<1> QED BY <1>1, <1>2 DEF Records

LEMMA ViewStepKeepsView ==
  ASSUME WrittenBehind, ViewPlaced, ViewStep
  PROVE  ViewPlaced'
<1>0. Head(ReadOrder) = "row" /\ Tail(ReadOrder) = <<"events">> /\ ReadOrder # <<>>
      /\ ReadOrder # <<"events">> /\ Head(<<"events">>) = "events"
      /\ Tail(<<"events">>) = <<>> /\ <<"events">> # <<>>
  BY DEF ReadOrder
<1>1. state' = state /\ log' = log
  BY DEF ViewStep, GetRunView, ReadRow, ReadEvents, Close, vars
<1>2. ASSUME NEW r \in Runs, GetRunView(r)
      PROVE  ViewPlaced'
  <2>1. /\ view'.run = r /\ view'.todo = ReadOrder
        /\ view' = [run |-> view'.run, todo |-> view'.todo, state |-> view'.state,
                    milestones |-> view'.milestones, artifacts |-> view'.artifacts]
    BY <1>2 DEF GetRunView, NoView
  <2>2. r # None
    BY NoneAssumption
  <2> QED BY <1>0, <1>2, <2>1, <2>2 DEF ViewPlaced
<1>3. CASE Close
  BY <1>3 DEF Close, NoView, ViewPlaced
<1>4. CASE ReadRow
  <2>1. view.todo = ReadOrder /\ view.run # None
    BY <1>0, <1>4 DEF ReadRow, ViewPlaced
  <2>2. /\ view'.run = view.run /\ view'.todo = <<"events">>
        /\ view'.state = state[view.run]
        /\ view' = [run |-> view'.run, todo |-> view'.todo, state |-> view'.state,
                    milestones |-> view'.milestones, artifacts |-> view'.artifacts]
    BY <1>0, <1>4, <2>1 DEF ReadRow, ViewPlaced
  <2> QED BY <1>0, <1>1, <2>1, <2>2 DEF ViewPlaced, WrittenBehind
<1>5. CASE ReadEvents
  <2> DEFINE events == log[view.run]
             shown == Records(events, MilestoneNames) \cup Records(events, ArtifactNames)
  <2>1. view.todo = <<"events">> /\ view.run # None
    BY <1>0, <1>5 DEF ReadEvents, ViewPlaced
  <2>2. /\ view'.run = view.run /\ view'.todo = <<>> /\ view'.state = view.state
        /\ view'.milestones = Records(events, MilestoneNames)
        /\ view'.artifacts = Records(events, ArtifactNames)
        /\ view' = [run |-> view'.run, todo |-> view'.todo, state |-> view'.state,
                    milestones |-> view'.milestones, artifacts |-> view'.artifacts]
    BY <1>0, <1>5, <2>1 DEF ReadEvents, ViewPlaced
  <2>3. ASSUME view.state \in Explained
        PROVE  ShownBefore(view.state) \subseteq {record.name : record \in shown}
    <3>1. ShownBefore(view.state) \subseteq ToSet(events)
      BY <1>0, <2>1, <2>3 DEF ViewPlaced
    <3>2. ShownBefore(view.state) \subseteq MilestoneNames \cup ArtifactNames
      BY DEF ShownBefore
    <3> HIDE DEF events
    <3> QED BY <3>1, <3>2, RecordsShow
  <2> HIDE DEF shown, events
  <2>4. view'.milestones \cup view'.artifacts = shown
    BY <2>2 DEF shown
  <2> QED BY <1>0, <1>1, <2>1, <2>2, <2>3, <2>4 DEF ViewPlaced
<1> QED BY <1>2, <1>3, <1>4, <1>5 DEF ViewStep

\* The request reads rows and events and writes neither.
LEMMA ViewStepIsStep == [ViewNext]_viewVars => [Next]_vars
BY DEF ViewNext, Next, ViewStep, GetRunView, ReadRow, ReadEvents, Close, viewVars, vars

LEMMA NextViewInv ==
  IInv /\ LogInv /\ ViewInv /\ [ViewNext]_viewVars => IInv' /\ LogInv' /\ ViewInv'
<1> SUFFICES ASSUME IInv, LogInv, ViewInv, [ViewNext]_viewVars
             PROVE  IInv' /\ LogInv' /\ ViewInv'
  OBVIOUS
<1>1. [Next]_vars
  BY ViewStepIsStep
<1>2. IInv' /\ LogInv'
  BY <1>1, NextIInv, NextLogInv
<1>0. WrittenBehind /\ ViewPlaced
  BY DEF ViewInv
<1>3. CASE UNCHANGED viewVars
  <2>1. state' = state /\ log' = log /\ view' = view
    BY <1>3 DEF viewVars
  <2>2. WrittenBehind'
    BY <1>0, <2>1 DEF WrittenBehind
  <2>3. ViewPlaced'
    BY <1>0, <2>1 DEF ViewPlaced
  <2> QED BY <1>2, <2>2, <2>3 DEF ViewInv
<1>4. ASSUME NEW c \in Callers, Begin(c) \/ Continue(c) \/ Die(c), UNCHANGED view
      PROVE  ViewInv'
  BY <1>4, NextWrittenBehind, VerbKeepsView DEF ViewInv
<1>5. CASE ViewStep
  <2>0. state' = state /\ log' = log
    BY <1>5 DEF ViewStep, GetRunView, ReadRow, ReadEvents, Close, vars
  <2>1. WrittenBehind'
    BY <1>0, <2>0 DEF WrittenBehind
  <2> QED BY <1>0, <1>2, <1>5, <2>1, ViewStepKeepsView DEF ViewInv
<1> QED BY <1>2, <1>3, <1>4, <1>5 DEF ViewNext, Next

(***************************************************************************)
(* However the verbs and an operator's requests interleave, a run that is  *)
(* shown as planning, executing or completed is shown with the milestones  *)
(* and artifacts that the script emits before it writes that state.        *)
(***************************************************************************)
THEOREM StateIsExplainedHolds == ViewSpec => []StateIsExplained
<1>1. ViewInit => IInv /\ LogInv /\ ViewInv
  <2>1. ASSUME ViewInit
        PROVE  WrittenBehind /\ ViewPlaced
    <3>1. WrittenBehind
      BY <2>1, NoneAssumption DEF ViewInit, Init, WrittenBehind, Explained, States, TerminalStates
    <3>2. ViewPlaced
      BY <2>1 DEF ViewInit, ViewPlaced, NoView
    <3> QED BY <3>1, <3>2
  <2> QED BY <2>1, InitIInv, InitLogInv DEF ViewInit, ViewInv
<1>2. ViewInv => StateIsExplained
  BY DEF ViewInv, ViewPlaced, StateIsExplained, Explained
<1>3. ViewSpec => ViewInit /\ [][ViewNext]_viewVars
  BY DEF ViewSpec
<1> QED BY <1>1, <1>2, <1>3, NextViewInv, PTL
=============================================================================
