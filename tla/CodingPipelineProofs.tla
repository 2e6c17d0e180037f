------------------------ MODULE CodingPipelineProofs ------------------------
(***************************************************************************)
(* The orchestration of a coding run: its pipeline, and its till-done      *)
(* loop, which share nothing. For any pipeline, policy, findings and       *)
(* outcomes, however often its checkpoints are reviewed and it is executed:*)
(* the log explains the outcomes and the approvals, and an execution with  *)
(* a result has visited no node twice. The last is why an induction is     *)
(* needed: where a node comes again, so does everything behind it, and     *)
(* there is no end.                                                        *)
(***************************************************************************)
EXTENDS CodingPipeline, TillDone, SequenceTheorems, FiniteSetTheorems, TLAPS

Visits == [node : Nodes, outcome : Outcomes]
Statuses == {"idle", "running", "completed", "aborted", "raised"}

Types ==
  /\ TypeOK
  /\ engine \in [limit : Nat, at : Nodes \cup {None}, visited : Seq(Visits), status : Statuses]
  /\ engine.status # "idle" => pipeline # None
  /\ engine.status = "idle" => engine.visited = <<>>

-----------------------------------------------------------------------------
(* The least number                                                        *)

\* Intervals from 0 are finite sets, and those are well-founded.
LEMMA LeastNumber ==
  ASSUME NEW T, T \subseteq Nat, T # {}
  PROVE  \E m \in T : \A n \in T : m <= n
<1> DEFINE R == StrictSubsetOrdering(Nat)
           F == FiniteSubsetsOf(Nat)
           Intervals == {0..n : n \in T}
<1>1. IsWellFoundedOn(R, F)
  BY FS_StrictSubsetOrderingWellFounded
<1>2. Intervals \subseteq F /\ Intervals # {}
  <2>1. ASSUME NEW n \in T PROVE 0..n \in F
    <3>1. n \in Int /\ 0 \in Int
      OBVIOUS
    <3>2. IsFiniteSet(0..n)
      BY <3>1, FS_Interval
    <3>3. 0..n \in SUBSET Nat
      OBVIOUS
    <3> QED BY <3>2, <3>3 DEF FiniteSubsetsOf
  <2>2. Intervals # {}
    OBVIOUS
  <2> HIDE DEF F
  <2> QED BY <2>1, <2>2
<1>3. PICK m \in T : \A y \in Intervals : <<y, 0..m>> \notin R
  <2> HIDE DEF R, F
  <2>1. \E x \in Intervals : \A y \in Intervals : ~ (<<y, x>> \in R)
    <3> HIDE DEF Intervals
    <3> QED BY <1>1, <1>2, WFMin
  <2> QED BY <2>1
<1>4. ASSUME NEW n \in T, n < m PROVE FALSE
  <2>1. 0..n \subseteq 0..m /\ 0..n \in SUBSET Nat /\ 0..m \in SUBSET Nat
    BY <1>4
  <2>2. m \in 0..m /\ m \notin 0..n
    BY <1>4
  <2>3. <<0..n, 0..m>> \in R
    BY <2>1, <2>2 DEF StrictSubsetOrdering
  <2> QED BY <1>3, <2>3
<1> QED BY <1>4

-----------------------------------------------------------------------------
(* The events of a review                                                  *)

LEMMA Concatenation ==
  ASSUME NEW S, NEW s \in Seq(S), NEW t \in Seq(S)
  PROVE  /\ s \o t \in Seq(S) /\ Len(s \o t) = Len(s) + Len(t)
         /\ \A i \in 1..Len(s) : (s \o t)[i] = s[i]
         /\ \A k \in 1..Len(t) : (s \o t)[Len(s) + k] = t[k]
         /\ \A i \in 1..Len(s \o t) :
              \/ i \in 1..Len(s) /\ (s \o t)[i] = s[i]
              \/ \E k \in 1..Len(t) : i = Len(s) + k /\ (s \o t)[i] = t[k]
<1>1. /\ s \o t \in Seq(S) /\ Len(s \o t) = Len(s) + Len(t)
      /\ \A i \in 1..Len(s) + Len(t) :
           (s \o t)[i] = IF i <= Len(s) THEN s[i] ELSE t[i - Len(s)]
  BY ConcatProperties
<1>2. \A i \in 1..Len(s) : (s \o t)[i] = s[i]
  BY <1>1
<1>3. \A k \in 1..Len(t) : (s \o t)[Len(s) + k] = t[k]
  BY <1>1
<1>4. ASSUME NEW i \in 1..Len(s \o t), i \notin 1..Len(s)
      PROVE  \E k \in 1..Len(t) : i = Len(s) + k /\ (s \o t)[i] = t[k]
  <2>1. i - Len(s) \in 1..Len(t) /\ i = Len(s) + (i - Len(s))
    BY <1>1, <1>4
  <2> QED BY <1>1, <1>4, <2>1
<1> QED BY <1>1, <1>2, <1>3, <1>4

LEMMA GateFacts ==
  ASSUME NEW findings
  PROVE  /\ Gate(findings) \in {"continue", "branch", "abort"} \ {None}
         /\ Gate(findings) = "continue" <=> findings = {}
BY PipelineAssumption DEF Gate

\* The sequences of finding events of one review of n.
Reported(n, findings) ==
  {s \in Seq(Events) : \A i \in 1..Len(s) :
     s[i].node = n /\ s[i].gate = Gate(findings) /\ s[i].what # "approval_waiting"}

LEMMA ReportedJoin ==
  ASSUME NEW n, NEW findings, NEW s \in Reported(n, findings), NEW t \in Reported(n, findings)
  PROVE  /\ s \o t \in Reported(n, findings)
         /\ Len(s \o t) = Len(s) + Len(t) /\ Len(s) \in Nat /\ Len(t) \in Nat
<1>1. s \in Seq(Events) /\ t \in Seq(Events)
  BY DEF Reported
<1>2. \A i \in 1..Len(s \o t) :
        \/ (s \o t)[i] \in {s[k] : k \in 1..Len(s)}
        \/ (s \o t)[i] \in {t[k] : k \in 1..Len(t)}
  BY <1>1, Concatenation
<1>3. /\ s \o t \in Seq(Events) /\ Len(s \o t) = Len(s) + Len(t)
      /\ Len(s) \in Nat /\ Len(t) \in Nat
  BY <1>1, Concatenation
<1> DEFINE Good(e) == e.node = n /\ e.gate = Gate(findings) /\ e.what # "approval_waiting"
<1>4. (\A i \in 1..Len(s) : Good(s[i])) /\ (\A i \in 1..Len(t) : Good(t[i]))
  BY DEF Reported
<1>5. \A i \in 1..Len(s \o t) : Good((s \o t)[i])
  <2> HIDE DEF Good
  <2> QED BY <1>2, <1>4
<1>6. s \o t \in Reported(n, findings)
  BY <1>3, <1>5 DEF Reported
<1> QED BY <1>3, <1>6

LEMMA ReviewEvents ==
  ASSUME NEW n \in Checkpoints, NEW findings \in SUBSET Detected
  PROVE  /\ FindingEvents(n, findings) \in Reported(n, findings)
         /\ Len(FindingEvents(n, findings)) \in Nat \ {0}
         /\ findings = {} => ApprovalRequest(n, findings) = <<>>
         /\ findings # {} => ApprovalRequest(n, findings) = <<Waiting(n)>>
<1> DEFINE Of(f) == IF f \in findings THEN <<Finding(n, f, Gate(findings))>> ELSE <<>>
           a == Of("prompt_injection")
           b == Of("approval_boundary_misuse")
           c == Of("malformed_memory_knowledge")
           d == Of(Destructive)
<1>1. ASSUME NEW f \in Detectors \cup {"none"}
      PROVE  <<Finding(n, f, Gate(findings))>> \in Reported(n, findings)
  <2>1. Finding(n, f, Gate(findings)) \in Events
    BY GateFacts DEF Finding, Events
  <2>2. f # "approval_waiting"
    BY DEF Detectors, Destructive
  <2> DEFINE e == Finding(n, f, Gate(findings))
  <2>3. e.node = n /\ e.gate = Gate(findings) /\ e.what # "approval_waiting"
    BY <2>2 DEF Finding
  <2> HIDE DEF e
  <2>4. e \in Events
    BY <2>1 DEF e
  <2>5. <<e>> \in Reported(n, findings)
    BY <2>3, <2>4 DEF Reported
  <2> QED BY <2>5 DEF e
<1>2. <<>> \in Reported(n, findings)
  BY DEF Reported
<1>3. \A f \in Detectors : /\ Of(f) \in Reported(n, findings) /\ Len(Of(f)) \in Nat
                           /\ f \in findings => Len(Of(f)) = 1
  BY <1>1, <1>2
<1>4. CASE findings = {}
  BY <1>1, <1>4 DEF FindingEvents, ApprovalRequest, Gate
<1>5. CASE findings # {}
  <2>1. FindingEvents(n, findings) = a \o b \o c \o d
    BY <1>5 DEF FindingEvents
  <2>2. /\ a \in Reported(n, findings) /\ b \in Reported(n, findings)
        /\ c \in Reported(n, findings) /\ d \in Reported(n, findings)
        /\ Len(a) \in Nat /\ Len(b) \in Nat /\ Len(c) \in Nat /\ Len(d) \in Nat
    BY <1>3 DEF Detectors
  <2>3. Len(a) = 1 \/ Len(b) = 1 \/ Len(c) = 1 \/ Len(d) = 1
    <3>1. PICK f \in findings : f \in Detectors
      BY <1>5, PipelineAssumption
    <3> QED BY <1>3, <3>1 DEF Detectors
  <2>4. /\ a \o b \o c \o d \in Reported(n, findings)
        /\ Len(a \o b \o c \o d) = Len(a) + Len(b) + Len(c) + Len(d)
    <3> HIDE DEF a, b, c, d
    <3>1. a \o b \in Reported(n, findings) /\ Len(a \o b) = Len(a) + Len(b)
      BY <2>2, ReportedJoin
    <3>2. /\ (a \o b) \o c \in Reported(n, findings)
          /\ Len((a \o b) \o c) = Len(a \o b) + Len(c)
      BY <2>2, <3>1, ReportedJoin
    <3>3. /\ ((a \o b) \o c) \o d \in Reported(n, findings)
          /\ Len(((a \o b) \o c) \o d) = Len((a \o b) \o c) + Len(d)
      BY <2>2, <3>2, ReportedJoin
    <3> QED BY <3>1, <3>2, <3>3
  <2> HIDE DEF a, b, c, d
  <2>5. Len(a) + Len(b) + Len(c) + Len(d) \in Nat \ {0}
    BY <2>2, <2>3
  <2>6. findings # {} => ApprovalRequest(n, findings) = <<Waiting(n)>>
    BY DEF ApprovalRequest
  <2> QED BY <1>5, <2>1, <2>4, <2>5, <2>6
<1> QED BY <1>4, <1>5

-----------------------------------------------------------------------------
(* Types                                                                   *)

LEMMA InitTypes == Init => Types
<1> SUFFICES ASSUME Init PROVE Types
  OBVIOUS
<1>1. log = <<>> /\ engine.visited = <<>> /\ Len(engine.visited) = 0 /\ engine.limit = 0
  BY DEF Init, Idle
<1> QED BY <1>1, PipelineAssumption DEF Init, Idle, Types, TypeOK, Running, Visits, Statuses

\* What a review does to the log.
LEMMA ReviewedLog ==
  ASSUME NEW n \in Checkpoints, NEW findings \in SUBSET Detected,
         log \in Seq(Events), Review(n, findings)
  PROVE  /\ log' \in Seq(Events)
         /\ Len(log) \in Nat /\ Len(log') \in Nat /\ Len(log') > Len(log)
         /\ \A i \in 1..Len(log) : log'[i] = log[i]
         /\ log'[Len(log')].node = n /\ log'[Len(log')].gate = Gate(findings)
         /\ \A i \in 1..Len(log') : i > Len(log) =>
              /\ log'[i].node = n
              /\ log'[i].gate \in {Gate(findings), None}
              /\ log'[i].what = "approval_waiting" => findings # {}
              /\ log'[i].gate = None => i = Len(log) + 1
         /\ findings # {} =>
              /\ log'[Len(log) + 1] = Waiting(n)
              /\ \A j \in 1..Len(log) : log[j].what # "approval_waiting"
<1> DEFINE asked == ApprovalRequest(n, findings)
           found == FindingEvents(n, findings)
           events == asked \o found
<1>1. log' = log \o events /\ MayAppend(events)
  BY DEF Review
<1>2. found \in Seq(Events) /\ Len(found) \in Nat \ {0}
  BY ReviewEvents DEF Reported
<1>3. \A k \in 1..Len(found) : /\ found[k].node = n /\ found[k].gate = Gate(findings)
                               /\ found[k].what # "approval_waiting"
  BY ReviewEvents DEF Reported
<1>4. CASE findings = {}
  <2>1. asked = <<>>
    BY <1>4, ReviewEvents
  <2>2. events = found
    <3> HIDE DEF asked, found
    <3> QED BY <1>2, <2>1
  <2> HIDE DEF events, found
  <2>3. log' = log \o found
    BY <1>1, <2>2
  <2>4. Len(log') = Len(log) + Len(found) /\ log' \in Seq(Events) /\ Len(log) \in Nat
    BY <1>2, <2>3, Concatenation
  <2>5. /\ \A i \in 1..Len(log) : log'[i] = log[i]
        /\ \A k \in 1..Len(found) : log'[Len(log) + k] = found[k]
        /\ \A i \in 1..Len(log') :
             i > Len(log) => \E k \in 1..Len(found) : i = Len(log) + k /\ log'[i] = found[k]
    <3> HIDE DEF events, found
    <3>1. log \in Seq(Events) /\ found \in Seq(Events)
      BY <1>2
    <3>2. /\ \A i \in 1..Len(log) : (log \o found)[i] = log[i]
          /\ \A k \in 1..Len(found) : (log \o found)[Len(log) + k] = found[k]
          /\ \A i \in 1..Len(log \o found) :
              \/ i \in 1..Len(log) /\ (log \o found)[i] = log[i]
              \/ \E k \in 1..Len(found) : i = Len(log) + k /\ (log \o found)[i] = found[k]
      BY <3>1, Concatenation
    <3>3. \A i \in 1..Len(log') : i > Len(log) => i \notin 1..Len(log)
      BY <2>4
    <3> QED BY <2>3, <3>2, <3>3
  <2>6. log'[Len(log')] = found[Len(found)]
    BY <1>2, <2>4, <2>5
  <2>7. Len(found) \in 1..Len(found) /\ Gate(findings) # None
    BY <1>2, GateFacts
  <2>8. \A i \in 1..Len(log') : i > Len(log) =>
          /\ log'[i].node = n /\ log'[i].gate = Gate(findings)
          /\ log'[i].what # "approval_waiting"
    <3> SUFFICES ASSUME NEW i \in 1..Len(log'), i > Len(log)
                 PROVE  /\ log'[i].node = n /\ log'[i].gate = Gate(findings)
                        /\ log'[i].what # "approval_waiting"
      OBVIOUS
    <3>1. PICK k \in 1..Len(found) : log'[i] = found[k]
      BY <2>5
    <3> HIDE DEF found
    <3>2. /\ found[k].node = n /\ found[k].gate = Gate(findings)
          /\ found[k].what # "approval_waiting"
      BY <1>3
    <3> QED BY <3>1, <3>2
  <2>9. Len(log') \in Nat /\ Len(log') > Len(log)
    BY <1>2, <2>4
  <2> QED BY <1>3, <1>4, <2>4, <2>5, <2>6, <2>7, <2>8, <2>9
<1>5. CASE findings # {}
  <2>1. asked = <<Waiting(n)>>
    BY <1>5, ReviewEvents
  <2>2. Waiting(n) \in Events /\ Waiting(n).node = n /\ Waiting(n).gate = None
        /\ Waiting(n).what = "approval_waiting"
    BY DEF Waiting, Events
  <2>3. asked \in Seq(Events) /\ Len(asked) = 1 /\ asked[1] = Waiting(n)
    BY <2>1, <2>2
  <2> HIDE DEF asked, found
  <2>4. /\ events \in Seq(Events) /\ Len(events) = 1 + Len(found)
        /\ events[1] = Waiting(n)
        /\ \A k \in 1..Len(found) : events[1 + k] = found[k]
        /\ \A i \in 1..Len(events) :
             i = 1 \/ \E k \in 1..Len(found) : i = 1 + k /\ events[i] = found[k]
    <3>1. 1 \in 1..Len(asked) /\ \A i \in 1..Len(asked) : i = 1
      BY <2>3
    <3>2. /\ events \in Seq(Events) /\ Len(events) = Len(asked) + Len(found)
          /\ \A i \in 1..Len(asked) : events[i] = asked[i]
          /\ \A k \in 1..Len(found) : events[Len(asked) + k] = found[k]
          /\ \A i \in 1..Len(events) :
               \/ i \in 1..Len(asked) /\ events[i] = asked[i]
               \/ \E k \in 1..Len(found) : i = Len(asked) + k /\ events[i] = found[k]
      <4> HIDE DEF events
      <4>1. asked \in Seq(Events) /\ found \in Seq(Events)
        BY <1>2, <2>3
      <4>2. /\ asked \o found \in Seq(Events) /\ Len(asked \o found) = Len(asked) + Len(found)
            /\ \A i \in 1..Len(asked) : (asked \o found)[i] = asked[i]
            /\ \A k \in 1..Len(found) : (asked \o found)[Len(asked) + k] = found[k]
            /\ \A i \in 1..Len(asked \o found) :
                 \/ i \in 1..Len(asked) /\ (asked \o found)[i] = asked[i]
                 \/ \E k \in 1..Len(found) :
                      i = Len(asked) + k /\ (asked \o found)[i] = found[k]
        BY <4>1, Concatenation
      <4> QED BY <4>2 DEF events
    <3> HIDE DEF events
    <3> QED BY <2>3, <3>1, <3>2
  <2> HIDE DEF events
  <2>5. Len(log') = Len(log) + Len(events) /\ log' \in Seq(Events) /\ Len(log) \in Nat
    <3>1. log \in Seq(Events) /\ events \in Seq(Events)
      BY <2>4
    <3>2. log \o events \in Seq(Events) /\ Len(log \o events) = Len(log) + Len(events)
      BY <3>1, Concatenation
    <3> QED BY <1>1, <3>1, <3>2
  <2>6. /\ \A i \in 1..Len(log) : log'[i] = log[i]
        /\ \A k \in 1..Len(events) : log'[Len(log) + k] = events[k]
        /\ \A i \in 1..Len(log') :
             i > Len(log) => \E k \in 1..Len(events) : i = Len(log) + k /\ log'[i] = events[k]
    BY <1>1, <2>4, <2>5, Concatenation
  <2>7. log'[Len(log')] = found[Len(found)]
    <3>1. events[Len(events)] = found[Len(found)] /\ Len(events) \in 1..Len(events)
      BY <1>2, <2>4
    <3> QED BY <1>2, <2>5, <2>6, <2>4, <3>1
  <2>8. log'[Len(log) + 1] = Waiting(n)
    <3>1. 1 \in 1..Len(events)
      BY <1>2, <2>4
    <3> QED BY <2>4, <2>6, <3>1
  <2>9. \A j \in 1..Len(log) : log[j].what # "approval_waiting"
    <3>1. 1 \in DOMAIN events /\ events[1].what = "approval_waiting"
      BY <1>2, <2>2, <2>4
    <3> QED BY <1>1, <3>1 DEF MayAppend
  <2>10. ASSUME NEW i \in 1..Len(log'), i > Len(log)
         PROVE  /\ log'[i].node = n
                /\ log'[i].gate \in {Gate(findings), None}
                /\ log'[i].gate = None => i = Len(log) + 1
    <3>1. PICK k \in 1..Len(events) : i = Len(log) + k /\ log'[i] = events[k]
      BY <2>6, <2>10
    <3>2. CASE k = 1
      BY <2>2, <2>4, <3>1, <3>2
    <3>3. CASE k # 1
      <4>1. PICK m \in 1..Len(found) : events[k] = found[m]
        BY <2>4, <3>3
      <4> QED BY <1>3, <3>1, <4>1, GateFacts
    <3> QED BY <3>2, <3>3
  <2> QED BY <1>2, <1>3, <1>5, <2>4, <2>5, <2>6, <2>7, <2>8, <2>9, <2>10
<1> QED BY <1>4, <1>5

-----------------------------------------------------------------------------
(* The invariants                                                          *)

\* Some route leaves v.node for v.outcome and goes to n.
Leads(v, n) ==
  \E r \in pipeline.routes : r.from = v.node /\ r.outcome = v.outcome /\ r.to = n

\* Outcomes do not change while the engine runs: a node has had one outcome.
OneOutcome ==
  /\ \A i, j \in 1..Len(engine.visited) :
       engine.visited[i].node = engine.visited[j].node =>
         engine.visited[i].outcome = engine.visited[j].outcome
  /\ Running => \A i \in 1..Len(engine.visited) :
       engine.visited[i].outcome = outcomes[engine.visited[i].node]

\* Each visit leads to the next, and the last one to where the engine is.
Linked ==
  /\ \A i \in 1..Len(engine.visited) : i + 1 <= Len(engine.visited) =>
       Leads(engine.visited[i], engine.visited[i + 1].node)
  /\ engine.status \in {"running", "completed", "aborted"} /\ Len(engine.visited) > 0 =>
       Leads(engine.visited[Len(engine.visited)], engine.at)
  /\ engine.status \in {"completed", "aborted"} =>
       engine.at = None /\ Len(engine.visited) > 0

RouteInv == Types /\ OneOutcome /\ Linked /\ CompletedEndsInSuccess

GateInv == Types /\ OutcomeMatchesLog /\ BlockedBehindApproval

LEMMA InitInvariants == Init => RouteInv /\ GateInv
<1> SUFFICES ASSUME Init PROVE RouteInv /\ GateInv
  OBVIOUS
<1>1. Types
  BY InitTypes
<1>2. log = <<>> /\ Len(log) = 0 /\ engine.visited = <<>> /\ Len(engine.visited) = 0
      /\ engine.status = "idle"
  BY DEF Init, Idle
<1>3. OneOutcome /\ Linked /\ CompletedEndsInSuccess
  BY <1>2 DEF OneOutcome, Linked, CompletedEndsInSuccess, Running
<1>4. DOMAIN log = {}
  BY <1>2
<1>5. \A n \in Checkpoints : outcomes[n] = None
  BY PipelineAssumption DEF Init
<1>6. OutcomeMatchesLog /\ BlockedBehindApproval
  BY <1>4, <1>5 DEF OutcomeMatchesLog, BlockedBehindApproval
<1> QED BY <1>1, <1>3, <1>6 DEF RouteInv, GateInv

LEMMA ConstructKeeps ==
  ASSUME RouteInv, GateInv, Construct
  PROVE  RouteInv' /\ GateInv'
<1>1. engine.status = "idle" /\ engine.visited = <<>> /\ Len(engine.visited) = 0
  BY DEF Construct, RouteInv, Types
<1>2. UNCHANGED <<policy, outcomes, log, engine>> /\ Valid(pipeline')
  BY DEF Construct
<1>3. Valid(pipeline') => Valid(pipeline)'
  BY DEF Valid
<1>4. pipeline' # None
  BY PipelineAssumption DEF Construct
<1>5. Types'
  <2>1. Valid(pipeline)'
    BY <1>2, <1>3
  <2> QED BY <1>1, <1>2, <1>4, <2>1 DEF RouteInv, Types, TypeOK, Running
<1> QED BY <1>1, <1>2, <1>5
     DEF RouteInv, GateInv, OneOutcome, Linked, CompletedEndsInSuccess, OutcomeMatchesLog,
         BlockedBehindApproval, Running

LEMMA SupplyKeeps ==
  ASSUME RouteInv, GateInv, NEW n \in Nodes \ Checkpoints, NEW o \in Outcomes, Supply(n, o)
  PROVE  RouteInv' /\ GateInv'
<1>1. UNCHANGED <<pipeline, policy, log, engine>> /\ ~Running /\ ~Running'
  BY DEF Supply, Running
<1>2. outcomes' = [outcomes EXCEPT ![n] = o]
  BY DEF Supply
<1>3. outcomes' \in [Nodes -> Outcomes \cup {None}]
  BY <1>2 DEF RouteInv, Types, TypeOK
<1>4. Types'
  BY <1>1, <1>3 DEF RouteInv, Types, TypeOK, Valid
<1>5. \A m \in Checkpoints : outcomes'[m] = outcomes[m]
  BY <1>2, PipelineAssumption DEF RouteInv, Types, TypeOK
<1>6. OutcomeMatchesLog' /\ BlockedBehindApproval'
  BY <1>1, <1>5 DEF GateInv, OutcomeMatchesLog, BlockedBehindApproval, Waiting
<1>7. OneOutcome' /\ Linked' /\ CompletedEndsInSuccess'
  BY <1>1 DEF RouteInv, OneOutcome, Linked, Leads, CompletedEndsInSuccess
<1> QED BY <1>4, <1>6, <1>7 DEF RouteInv, GateInv

LEMMA ReviewKeeps ==
  ASSUME RouteInv, GateInv, NEW n \in Checkpoints, NEW findings \in SUBSET Detected,
         Review(n, findings)
  PROVE  RouteInv' /\ GateInv'
<1>1. UNCHANGED <<pipeline, policy, engine>> /\ ~Running /\ ~Running'
  BY DEF Review, Running
<1>2. outcomes' = [outcomes EXCEPT ![n] = GateOutcome(findings)]
  BY DEF Review
<1>3. /\ outcomes' \in [Nodes -> Outcomes \cup {None}]
      /\ outcomes'[n] = GateOutcome(findings)
      /\ \A m \in Checkpoints : m # n => outcomes'[m] = outcomes[m]
  BY <1>2, PipelineAssumption DEF RouteInv, Types, TypeOK, GateOutcome, Outcomes
<1>4. log \in Seq(Events)
  BY DEF RouteInv, Types, TypeOK
<1>5. /\ log' \in Seq(Events)
      /\ Len(log) \in Nat /\ Len(log') \in Nat /\ Len(log') > Len(log)
      /\ \A i \in 1..Len(log) : log'[i] = log[i]
      /\ log'[Len(log')].node = n /\ log'[Len(log')].gate = Gate(findings)
      /\ \A i \in 1..Len(log') : i > Len(log) =>
           /\ log'[i].node = n
           /\ log'[i].gate \in {Gate(findings), None}
           /\ log'[i].what = "approval_waiting" => findings # {}
           /\ log'[i].gate = None => i = Len(log) + 1
      /\ findings # {} =>
           /\ log'[Len(log) + 1] = Waiting(n)
           /\ \A j \in 1..Len(log) : log[j].what # "approval_waiting"
  BY <1>4, ReviewedLog
<1>6. DOMAIN log = 1..Len(log) /\ DOMAIN log' = 1..Len(log')
  BY <1>4, <1>5
<1>7. Types'
  BY <1>1, <1>3, <1>5 DEF RouteInv, Types, TypeOK, Valid
<1>8. OneOutcome' /\ Linked' /\ CompletedEndsInSuccess'
  BY <1>1 DEF RouteInv, OneOutcome, Linked, Leads, CompletedEndsInSuccess
<1>9. OutcomeMatchesLog'
  <2> SUFFICES ASSUME NEW m \in Checkpoints
               PROVE  LET said == {i \in 1..Len(log') : log'[i].node = m /\ log'[i].gate # None}
                      IN  /\ outcomes'[m] # None <=> said # {}
                          /\ \A i \in said : (\A j \in said : j <= i) =>
                               outcomes'[m] = IF log'[i].gate = "continue"
                                              THEN "success" ELSE "failure"
    BY <1>6 DEF OutcomeMatchesLog
  <2> DEFINE said == {i \in 1..Len(log') : log'[i].node = m /\ log'[i].gate # None}
             before == {i \in 1..Len(log) : log[i].node = m /\ log[i].gate # None}
  <2>1. CASE m = n
    <3>1. Len(log') \in said
      BY <1>5, <2>1, GateFacts
    <3>2. outcomes'[m] = IF log'[Len(log')].gate = "continue" THEN "success" ELSE "failure"
      BY <1>3, <1>5, <2>1 DEF GateOutcome
    <3>3. outcomes'[m] # None
      BY <3>2, PipelineAssumption DEF Outcomes
    <3>4. \A i \in said : i \in 1..Len(log')
      OBVIOUS
    <3> HIDE DEF said
    <3>5. \A i \in said : (\A j \in said : j <= i) => i = Len(log')
      BY <1>5, <3>1, <3>4
    <3>6. \A i \in said : (\A j \in said : j <= i) =>
            outcomes'[m] = IF log'[i].gate = "continue" THEN "success" ELSE "failure"
      BY <3>2, <3>5
    <3> QED BY <3>1, <3>3, <3>6 DEF said
  <2>2. CASE m # n
    <3>1. \A i \in said : i <= Len(log)
      BY <1>5, <2>2
    <3>2. said = before
      BY <1>5, <3>1
    <3>3. /\ outcomes[m] # None <=> before # {}
          /\ \A i \in before : (\A j \in before : j <= i) =>
               outcomes[m] = IF log[i].gate = "continue" THEN "success" ELSE "failure"
      BY <1>6 DEF GateInv, OutcomeMatchesLog
    <3>4. \A i \in before : log'[i] = log[i]
      BY <1>5
    <3>5. outcomes'[m] = outcomes[m]
      BY <1>3, <2>2
    <3> HIDE DEF said, before
    <3>6. /\ outcomes'[m] # None <=> said # {}
          /\ \A i \in said : (\A j \in said : j <= i) =>
               outcomes'[m] = IF log'[i].gate = "continue" THEN "success" ELSE "failure"
      BY <3>2, <3>3, <3>4, <3>5
    <3> QED BY <3>6 DEF said
  <2> QED BY <2>1, <2>2
<1>10. BlockedBehindApproval'
  <2> SUFFICES ASSUME NEW i \in 1..Len(log'), log'[i].gate \in {"branch", "abort"}
               PROVE  /\ \E j \in 1..(i - 1) : log'[j] = Waiting(log'[i].node)
                      /\ \A j \in 1..Len(log') :
                           log'[j].what = "approval_waiting" => log'[j].node = log'[i].node
    BY <1>6 DEF BlockedBehindApproval, Waiting
  <2>1. CASE i <= Len(log)
    <3>1. i \in 1..Len(log) /\ log'[i] = log[i]
      BY <1>5, <2>1
    <3>2. /\ \E j \in 1..(i - 1) : log[j] = Waiting(log[i].node)
          /\ \A j \in 1..Len(log) :
               log[j].what = "approval_waiting" => log[j].node = log[i].node
      BY <1>6, <3>1 DEF GateInv, BlockedBehindApproval
    <3>3. PICK j \in 1..(i - 1) : log[j] = Waiting(log[i].node)
      BY <3>2
    <3>4. j \in 1..Len(log) /\ log[j].what = "approval_waiting"
      BY <1>5, <3>1, <3>3 DEF Waiting
    <3>5. findings = {}
      BY <1>5, <3>4
    <3>6. \A k \in 1..Len(log') : k > Len(log) => log'[k].what # "approval_waiting"
      BY <1>5, <3>5
    <3>7. \A k \in 1..Len(log') : k > Len(log) \/ k \in 1..Len(log)
      BY <1>5
    <3>8. log'[j] = Waiting(log'[i].node)
      BY <1>5, <3>1, <3>3, <3>4
    <3> QED BY <1>5, <3>1, <3>2, <3>6, <3>7, <3>8
  <2>2. CASE i > Len(log)
    <3>1. log'[i].gate = Gate(findings) /\ log'[i].node = n /\ log'[i].gate # None
      BY <1>5, <2>2, PipelineAssumption
    <3>2. findings # {}
      BY <3>1, GateFacts
    <3>3. i # Len(log) + 1
      BY <1>5, <3>1, <3>2 DEF Waiting
    <3>4. Len(log) + 1 \in 1..(i - 1)
      BY <1>5, <2>2, <3>3
    <3>5. \A k \in 1..Len(log') : log'[k].what = "approval_waiting" => log'[k].node = n
      BY <1>5, <3>2
    <3> QED BY <1>5, <3>1, <3>2, <3>4, <3>5
  <2> QED BY <1>5, <2>1, <2>2
<1> QED BY <1>7, <1>8, <1>9, <1>10 DEF RouteInv, GateInv

LEMMA ExecuteKeeps ==
  ASSUME RouteInv, GateInv, NEW max \in MaxSteps, Execute(max)
  PROVE  RouteInv' /\ GateInv'
<1>1. UNCHANGED <<pipeline, policy, outcomes, log>> /\ pipeline # None
  BY DEF Execute
<1>2. /\ engine'.visited = <<>> /\ Len(engine'.visited) = 0
      /\ engine'.at = pipeline.start /\ engine'.status \in {"running", "raised"}
  BY DEF Execute
<1>3. pipeline.start \in Nodes
  BY <1>1 DEF RouteInv, Types, TypeOK, Valid
<1>4. engine' \in [limit : Nat, at : Nodes \cup {None}, visited : Seq(Visits), status : Statuses]
  <2>1. 2 * Cardinality(Nodes) \in Nat
    BY PipelineAssumption, FS_CardinalityType
  <2>2. (IF max = None THEN 2 * Cardinality(Nodes) ELSE max) \in Nat
    BY <2>1, PipelineAssumption
  <2>3. <<>> \in Seq(Visits)
    OBVIOUS
  <2> QED BY <1>3, <2>2, <2>3 DEF Execute, Statuses
<1>5. Types'
  BY <1>1, <1>2, <1>3, <1>4, PipelineAssumption
     DEF RouteInv, Types, TypeOK, Valid, Running, Visits
<1>6. OneOutcome' /\ Linked' /\ CompletedEndsInSuccess'
  BY <1>2 DEF OneOutcome, Linked, CompletedEndsInSuccess
<1>7. OutcomeMatchesLog' /\ BlockedBehindApproval'
  BY <1>1 DEF GateInv, OutcomeMatchesLog, BlockedBehindApproval, Waiting
<1> QED BY <1>5, <1>6, <1>7 DEF RouteInv, GateInv

\* Where the engine gives up, the visits stay and the status says so.
LEMMA RaiseKeeps ==
  ASSUME RouteInv, GateInv, Stop \/ Miss
  PROVE  RouteInv' /\ GateInv'
<1>1. UNCHANGED <<pipeline, policy, outcomes, log>> /\ Running
  BY DEF Stop, Miss
<1>2. engine' = [engine EXCEPT !.status = "raised", !.at = None]
  BY DEF Stop, Miss
<1>3. engine \in [limit : Nat, at : Nodes \cup {None}, visited : Seq(Visits), status : Statuses]
  BY DEF RouteInv, Types
<1>4. /\ engine' \in [limit : Nat, at : Nodes \cup {None}, visited : Seq(Visits),
                      status : Statuses]
      /\ engine'.visited = engine.visited /\ engine'.status = "raised" /\ engine'.at = None
      /\ engine'.limit = engine.limit
  BY <1>2, <1>3 DEF Statuses
<1>5. Types'
  BY <1>1, <1>4 DEF RouteInv, Types, TypeOK, Valid, Running, Visits
<1>6. OneOutcome' /\ Linked' /\ CompletedEndsInSuccess'
  BY <1>1, <1>4 DEF RouteInv, OneOutcome, Linked, Leads, CompletedEndsInSuccess, Running
<1>7. OutcomeMatchesLog' /\ BlockedBehindApproval'
  BY <1>1 DEF GateInv, OutcomeMatchesLog, BlockedBehindApproval, Waiting
<1> QED BY <1>5, <1>6, <1>7 DEF RouteInv, GateInv

LEMMA VisitKeeps ==
  ASSUME RouteInv, GateInv, Visit
  PROVE  RouteInv' /\ GateInv'
<1> DEFINE at == engine.at
           o == outcomes[engine.at]
           new == [node |-> at, outcome |-> o]
           L == Len(engine.visited)
<1>1. UNCHANGED <<pipeline, policy, outcomes, log>> /\ Running /\ o # None /\ L < engine.limit
  BY DEF Visit
<1>2. PICK r \in RoutesFor(at, o) :
        engine' = [engine EXCEPT !.visited = Append(@, new), !.at = r.to,
                                 !.status = StatusAfter(o, r.to)]
  BY DEF Visit
<1>3. engine \in [limit : Nat, at : Nodes \cup {None}, visited : Seq(Visits), status : Statuses]
  BY DEF RouteInv, Types
<1>4. at \in Nodes /\ o \in Outcomes
  BY <1>1, <1>3 DEF RouteInv, Types, TypeOK
<1>5. new \in Visits /\ new.node = at /\ new.outcome = o
  BY <1>4 DEF Visits
<1>6. pipeline # None
  BY <1>1 DEF RouteInv, Types, Running
<1>7. r \in pipeline.routes /\ r.from = at /\ r.outcome = o /\ r.to \in Nodes \cup {None}
  BY <1>6 DEF RoutesFor, RouteInv, Types, TypeOK, Valid
<1>8. StatusAfter(o, r.to) \in {"running", "completed", "aborted"}
  BY DEF StatusAfter
<1>9. /\ engine' = [limit |-> engine.limit, at |-> r.to, visited |-> Append(engine.visited, new),
                    status |-> StatusAfter(o, r.to)]
  BY <1>2, <1>3
<1> DEFINE visited == engine'.visited
<1>10. /\ visited \in Seq(Visits) /\ L \in Nat /\ Len(visited) = L + 1
       /\ visited[L + 1] = new
       /\ \A i \in 1..L : visited[i] = engine.visited[i]
       /\ Last(visited) = new
  <2>1. visited = Append(engine.visited, new)
    BY <1>9
  <2>2. engine.visited \in Seq(Visits)
    BY <1>3
  <2> HIDE DEF visited, new
  <2> QED BY <1>5, <2>1, <2>2 DEF Last
<1>11. /\ engine' \in [limit : Nat, at : Nodes \cup {None}, visited : Seq(Visits),
                       status : Statuses]
       /\ engine'.at = r.to /\ engine'.status = StatusAfter(o, r.to)
       /\ engine'.limit = engine.limit
  <2>1. visited = Append(engine.visited, new)
    BY <1>9
  <2> HIDE DEF new
  <2> QED BY <1>3, <1>7, <1>8, <1>9, <1>10, <2>1 DEF Statuses
<1> HIDE DEF new, L, visited
<1>12. Types'
  <2>1. Running' => engine'.at # None
    BY <1>11 DEF Running, StatusAfter
  <2>2. engine'.status # "idle"
    BY <1>8, <1>11
  <2>3. Len(visited) <= engine'.limit
    BY <1>1, <1>3, <1>10, <1>11
  <2>4. visited \in Seq([node : Nodes, outcome : Outcomes]) /\ engine'.status \in Statuses
    BY <1>10, <1>11 DEF Visits
  <2> QED BY <1>1, <1>6, <1>11, <2>1, <2>2, <2>3, <2>4
          DEF RouteInv, Types, TypeOK, Valid, Statuses, visited
<1>13. OneOutcome'
  <2>1. \A i \in 1..L : engine.visited[i].outcome = outcomes[engine.visited[i].node]
    BY <1>1 DEF RouteInv, OneOutcome, L
  <2>2. \A i \in 1..Len(visited) : visited[i].outcome = outcomes[visited[i].node]
    <3>1. \A i \in 1..Len(visited) : i \in 1..L \/ i = L + 1
      BY <1>10
    <3> QED BY <1>5, <1>10, <2>1, <3>1
  <2> QED BY <1>1, <2>2 DEF OneOutcome, visited
<1>14. Linked'
  <2>1. \A i \in 1..L : i + 1 <= L => Leads(engine.visited[i], engine.visited[i + 1].node)
    BY DEF RouteInv, Linked, L
  <2>2. L > 0 => Leads(engine.visited[L], at)
    BY <1>1 DEF RouteInv, Linked, Running, L
  <2>3. Leads(new, r.to)
    BY <1>5, <1>7 DEF Leads
  <2>4. \A i \in 1..Len(visited) : i + 1 <= Len(visited) =>
          Leads(visited[i], visited[i + 1].node)
    <3> SUFFICES ASSUME NEW i \in 1..Len(visited), i + 1 <= Len(visited)
                 PROVE  Leads(visited[i], visited[i + 1].node)
      OBVIOUS
    <3>1. CASE i + 1 <= L
      <4>1. i \in 1..L /\ i + 1 \in 1..L
        BY <1>10, <3>1
      <4>2. visited[i] = engine.visited[i] /\ visited[i + 1] = engine.visited[i + 1]
        BY <1>10, <4>1
      <4> QED BY <2>1, <3>1, <4>1, <4>2
    <3>2. CASE i = L
      BY <1>5, <1>10, <2>2, <3>2
    <3> QED BY <1>10, <3>1, <3>2
  <2>5. Leads(visited[Len(visited)], engine'.at) /\ Len(visited) > 0
    BY <1>10, <1>11, <2>3
  <2>6. engine'.status \in {"completed", "aborted"} => engine'.at = None
    BY <1>11 DEF StatusAfter
  <2> QED BY <1>1, <2>4, <2>5, <2>6 DEF Linked, Leads, visited
<1>15. CompletedEndsInSuccess'
  <2>1. Last(visited).outcome = o
    BY <1>5, <1>10
  <2>2. /\ StatusAfter(o, r.to) = "completed" => o = "success"
        /\ StatusAfter(o, r.to) = "aborted" => o = "failure"
    BY <1>4 DEF StatusAfter, Outcomes
  <2> HIDE DEF o
  <2> QED BY <1>11, <2>1, <2>2 DEF CompletedEndsInSuccess, visited
<1>16. OutcomeMatchesLog' /\ BlockedBehindApproval'
  BY <1>1 DEF GateInv, OutcomeMatchesLog, BlockedBehindApproval, Waiting
<1> QED BY <1>12, <1>13, <1>14, <1>15, <1>16 DEF RouteInv, GateInv

LEMMA Invariants == Spec => [](RouteInv /\ GateInv)
<1>1. Init => RouteInv /\ GateInv
  BY InitInvariants
<1>2. RouteInv /\ GateInv /\ [Next]_vars => RouteInv' /\ GateInv'
  <2> SUFFICES ASSUME RouteInv, GateInv, [Next]_vars
               PROVE  RouteInv' /\ GateInv'
    OBVIOUS
  <2>1. CASE Construct
    BY <2>1, ConstructKeeps
  <2>2. CASE \E n \in Checkpoints, findings \in SUBSET Detected : Review(n, findings)
    BY <2>2, ReviewKeeps
  <2>3. CASE \E n \in Nodes \ Checkpoints, o \in Outcomes : Supply(n, o)
    BY <2>3, SupplyKeeps
  <2>4. CASE \E max \in MaxSteps : Execute(max)
    BY <2>4, ExecuteKeeps
  <2>5. CASE Stop \/ Miss
    BY <2>5, RaiseKeeps
  <2>6. CASE Visit
    BY <2>6, VisitKeeps
  <2>7. CASE UNCHANGED vars
    <3>1. /\ pipeline' = pipeline /\ policy' = policy /\ outcomes' = outcomes
          /\ log' = log /\ engine' = engine
      BY <2>7 DEF vars
    <3>2. Types'
      BY <3>1 DEF RouteInv, Types, TypeOK, Valid, Running
    <3>3. OneOutcome' /\ Linked' /\ CompletedEndsInSuccess'
      BY <3>1 DEF RouteInv, OneOutcome, Running, Linked, Leads, CompletedEndsInSuccess
    <3>4. OutcomeMatchesLog' /\ BlockedBehindApproval'
      BY <3>1 DEF GateInv, OutcomeMatchesLog, BlockedBehindApproval, Waiting
    <3> QED BY <3>2, <3>3, <3>4 DEF RouteInv, GateInv
  <2> QED BY <2>1, <2>2, <2>3, <2>4, <2>5, <2>6, <2>7 DEF Next, Step
<1> QED BY <1>1, <1>2, PTL DEF Spec

-----------------------------------------------------------------------------
(* The theorems                                                            *)

(***************************************************************************)
(* Every state is of its type: the engine stands on a node while it runs   *)
(* and has not visited more nodes than its step limit allows.              *)
(***************************************************************************)
THEOREM TypeOKHolds == Spec => []TypeOK
<1>1. RouteInv => TypeOK
  BY DEF RouteInv, Types
<1> QED BY <1>1, Invariants, PTL

(***************************************************************************)
(* However often a checkpoint was reviewed, the outcome that the engine is *)
(* given for it is what its last review event says                         *)
(* (adversarial_review.py, review: emit, then record the outcome).         *)
(***************************************************************************)
THEOREM OutcomeMatchesLogHolds == Spec => []OutcomeMatchesLog
<1>1. GateInv => OutcomeMatchesLog
  BY DEF GateInv
<1> QED BY <1>1, Invariants, PTL

(***************************************************************************)
(* A finding that blocks is in the log only behind the approval request of *)
(* its own review, and a run has one such review, because the approval of  *)
(* a run has one id (_request_approval).                                   *)
(***************************************************************************)
THEOREM BlockedBehindApprovalHolds == Spec => []BlockedBehindApproval
<1>1. GateInv => BlockedBehindApproval
  BY DEF GateInv
<1> QED BY <1>1, Invariants, PTL

(***************************************************************************)
(* A pipeline completes only after a success of its last node, and aborts  *)
(* only after a failure (PipelineEngine.execute).                          *)
(***************************************************************************)
THEOREM CompletedEndsInSuccessHolds == Spec => []CompletedEndsInSuccess
<1>1. RouteInv => CompletedEndsInSuccess
  BY DEF RouteInv
<1> QED BY <1>1, Invariants, PTL

\* What a visit leads to is determined: a node has one route per outcome.
LEMMA OneWayOn ==
  ASSUME Valid(pipeline), NEW v, NEW w, NEW x, NEW y,
         v.node = w.node, v.outcome = w.outcome, Leads(v, x), Leads(w, y)
  PROVE  x = y
BY DEF Leads, Valid

LEMMA RouteIsSimple == RouteInv => FinishedRouteIsSimple
<1> SUFFICES ASSUME RouteInv, engine.status \in {"completed", "aborted"}
             PROVE  \A i, j \in DOMAIN engine.visited :
                      engine.visited[i].node = engine.visited[j].node => i = j
  BY DEF FinishedRouteIsSimple
<1> DEFINE visited == engine.visited
           L == Len(visited)
           Again(i, j) == i < j /\ visited[i].node = visited[j].node
           Rest == {d \in Nat : \E i, j \in 1..L : Again(i, j) /\ d = L - j}
<1>1. visited \in Seq(Visits) /\ L \in Nat /\ DOMAIN visited = 1..L
  BY DEF RouteInv, Types
<1>2. Valid(pipeline) /\ engine.at = None
  <2>1. pipeline # None
    BY DEF RouteInv, Types
  <2> QED BY <2>1 DEF RouteInv, Types, TypeOK, Linked
<1>3. /\ \A i \in 1..L : i + 1 <= L => Leads(visited[i], visited[i + 1].node)
      /\ L > 0 => Leads(visited[L], None)
  BY <1>2 DEF RouteInv, Linked
<1>4. \A i, j \in 1..L : visited[i].node = visited[j].node =>
        visited[i].outcome = visited[j].outcome
  BY DEF RouteInv, OneOutcome
<1>5. \A i \in 1..L : visited[i].node \in Nodes
  <2> HIDE DEF visited
  <2>1. \A i \in 1..L : visited[i] \in Visits
    BY <1>1
  <2> QED BY <2>1 DEF Visits
<1> HIDE DEF visited, L
<1>6. ASSUME Rest # {} PROVE FALSE
  <2>1. PICK d \in Rest : \A e \in Rest : d <= e
    BY <1>6, LeastNumber
  <2>2. PICK i \in 1..L, j \in 1..L : Again(i, j) /\ d = L - j
    BY <2>1
  <2>3. i + 1 \in 1..L /\ i + 1 <= L
    BY <1>1, <2>2
  <2>4. visited[i].node = visited[j].node /\ visited[i].outcome = visited[j].outcome
    BY <1>4, <2>2
  <2>5. Leads(visited[i], visited[i + 1].node)
    BY <1>3, <2>3
  <2>6. CASE j = L
    <3>1. Leads(visited[j], None)
      BY <1>1, <1>3, <2>6
    <3>2. visited[i + 1].node = None
      BY <1>2, <2>4, <2>5, <3>1, OneWayOn
    <3> QED BY <1>5, <2>3, <3>2, PipelineAssumption
  <2>7. CASE j # L
    <3>1. j + 1 \in 1..L /\ j + 1 <= L /\ L - (j + 1) \in Nat
      BY <1>1, <2>7
    <3>2. Leads(visited[j], visited[j + 1].node)
      BY <1>3, <3>1
    <3>3. visited[i + 1].node = visited[j + 1].node
      BY <1>2, <2>4, <2>5, <3>2, OneWayOn
    <3>4. i + 1 < j + 1
      BY <2>2
    <3>5. L - (j + 1) \in Rest
      BY <2>3, <3>1, <3>3, <3>4
    <3>6. L - (j + 1) < d
      BY <1>1, <2>2
    <3>7. d <= L - (j + 1) /\ d \in Nat
      BY <2>1, <3>5
    <3> HIDE DEF Rest, Again
    <3> QED BY <3>1, <3>6, <3>7
  <2> QED BY <2>6, <2>7
<1>7. ASSUME NEW i \in 1..L, NEW j \in 1..L, Again(i, j) PROVE FALSE
  <2>1. L - j \in Nat
    BY <1>1
  <2>2. L - j \in Rest
    BY <1>7, <2>1
  <2> QED BY <1>6, <2>2
<1> QED BY <1>1, <1>7 DEF visited

(***************************************************************************)
(* An execution that ends with a result has visited no node twice: with    *)
(* fixed outcomes and one route per outcome, a repeated visit repeats what *)
(* came after it, up to the end, and the end is not a node                 *)
(* (PipelineEngine.execute, Pipeline.__post_init__).                       *)
(***************************************************************************)
THEOREM FinishedRouteIsSimpleHolds == Spec => []FinishedRouteIsSimple
BY Invariants, RouteIsSimple, PTL

-----------------------------------------------------------------------------
(* The till-done loop                                                      *)

(***************************************************************************)
(* For any limit and any results of the iterations. The events of a        *)
(* revision are found by their places in the stream, which only grows: the *)
(* invariant says what the places that are there tell of the results.      *)
(***************************************************************************)

Ends == {"terminal", "loop_escalated"}

Emissions == [iteration : Nat, what : Catalog]

\* What an iteration before the last one puts into the stream: the events of a
\* revision in their order, if there was one, and the end where it was done.
Tells(names, r) ==
  /\ names \in Seq(Catalog)
  /\ \A name \in RevisionEvents :
       /\ r.plan_revised <=> \E k \in 1..Len(names) : names[k] = name
       /\ \A j, k \in 1..Len(names) : names[j] = name /\ names[k] = name => j = k
  /\ \A j, k \in 1..Len(names) :
       names[j] = "revision_cataloged" /\ names[k] = "plan_revision_artifact" => j < k
  /\ \A k \in 1..Len(names) :
       names[k] \in Ends <=> Done(r) /\ k = Len(names)
  /\ Done(r) => Len(names) > 0 /\ names[Len(names)] = "terminal"

Opening == <<"iteration_started", "drafted", "approval_requested", "ready", "changes_applied">>

\* r is s and behind it t.
IsJoin(S, r, s, t) ==
  /\ r \in Seq(S) /\ Len(r) = Len(s) + Len(t) /\ Len(s) \in Nat /\ Len(t) \in Nat
  /\ \A k \in 1..Len(s) : r[k] = s[k]
  /\ \A k \in 1..Len(t) : r[Len(s) + k] = t[k]
  /\ \A i \in 1..Len(r) : i \in 1..Len(s) \/ \E k \in 1..Len(t) : i = Len(s) + k

LEMMA JoinIs ==
  ASSUME NEW S, NEW s \in Seq(S), NEW t \in Seq(S)
  PROVE  IsJoin(S, s \o t, s, t)
BY Concatenation DEF IsJoin

LEMMA OpeningIsList == Opening \in Seq(Catalog) /\ Len(Opening) = 5
BY DEF Opening, Catalog

LEMMA WorkTells ==
  ASSUME NEW r \in Results
  PROVE  Tells(Work(r), r)
<1> DEFINE names == Work(r)
           revised == <<"revision_cataloged", "plan_revised", "plan_revision_artifact", "ready">>
           done == <<"iteration_complete", "terminal">>
<1>1. CASE r.plan_revised
  <2>1. names = Opening \o revised \o <<>> /\ ~Done(r)
    BY <1>1 DEF Work, Verdict, Done, Opening
  <2>2. revised \in Seq(Catalog) /\ <<>> \in Seq(Catalog) /\ Len(revised) = 4
    BY DEF Catalog
  <2> HIDE DEF names, revised
  <2>3. /\ names \in Seq(Catalog) /\ Len(names) = 9
        /\ \A k \in 1..5 : names[k] = Opening[k]
        /\ \A k \in 1..4 : names[5 + k] = revised[k]
    <3>1. IsJoin(Catalog, Opening \o revised, Opening, revised)
      BY <2>2, OpeningIsList, JoinIs, Zenon
    <3>2. names = Opening \o revised
      BY <2>1, <2>2, <3>1, ConcatEmptySeq, Zenon DEF IsJoin
    <3>3. IsJoin(Catalog, names, Opening, revised)
      BY <3>1, <3>2, Zenon
    <3> QED BY <2>2, <3>3, OpeningIsList DEF IsJoin
  <2>4. /\ names[1] = "iteration_started" /\ names[2] = "drafted"
        /\ names[3] = "approval_requested" /\ names[4] = "ready" /\ names[5] = "changes_applied"
        /\ names[5 + 1] = "revision_cataloged" /\ names[5 + 2] = "plan_revised"
        /\ names[5 + 3] = "plan_revision_artifact" /\ names[5 + 4] = "ready"
    BY <2>3 DEF Opening, revised
  <2>5. \A k \in 1..9 : k = 1 \/ k = 2 \/ k = 3 \/ k = 4 \/ k = 5 \/ k = 6 \/ k = 7 \/ k = 8 \/ k = 9
    OBVIOUS
  <2>6. \A name \in RevisionEvents :
          /\ r.plan_revised <=> \E k \in 1..Len(names) : names[k] = name
          /\ \A j, k \in 1..Len(names) : names[j] = name /\ names[k] = name => j = k
    BY <1>1, <2>3, <2>4, <2>5 DEF RevisionEvents
  <2>7. \A j, k \in 1..Len(names) :
          names[j] = "revision_cataloged" /\ names[k] = "plan_revision_artifact" => j < k
    BY <2>3, <2>4, <2>5
  <2>8. /\ \A k \in 1..Len(names) : names[k] \in Ends <=> Done(r) /\ k = Len(names)
        /\ Done(r) => Len(names) > 0 /\ names[Len(names)] = "terminal"
    <3>1. \A k \in 1..9 : names[k] \notin Ends
      <4> SUFFICES ASSUME NEW k \in 1..9 PROVE names[k] \notin {"loop_escalated", "terminal"}
        BY DEF Ends
      <4> QED BY <2>4, <2>5
    <3> QED BY <2>1, <2>3, <3>1
  <2>9. Tells(names, r)
    BY <2>3, <2>6, <2>7, <2>8 DEF Tells
  <2> QED BY <2>9 DEF names
<1>2. CASE ~r.plan_revised /\ r.check_passed
  <2>1. names = Opening \o <<"check_passed">> \o done /\ Done(r)
    BY <1>2 DEF Work, Verdict, Done, Opening
  <2>2. <<"check_passed">> \in Seq(Catalog) /\ done \in Seq(Catalog) /\ Len(done) = 2
    BY DEF Catalog
  <2> HIDE DEF names, done
  <2>3. /\ names \in Seq(Catalog) /\ Len(names) = 8
        /\ \A k \in 1..5 : names[k] = Opening[k]
        /\ \A k \in 1..1 : names[5 + k] = <<"check_passed">>[k]
        /\ \A k \in 1..2 : names[5 + 1 + k] = done[k]
    <3> DEFINE v == <<"check_passed">>
               begin == Opening \o v
    <3>1. Len(v) = 1 /\ v \in Seq(Catalog) /\ names = begin \o done
      BY <2>1, <2>2
    <3> HIDE DEF v
    <3>2. IsJoin(Catalog, begin, Opening, v)
      BY <3>1, OpeningIsList, JoinIs, Zenon
    <3> HIDE DEF begin
    <3>3. IsJoin(Catalog, begin \o done, begin, done)
      <4>1. begin \in Seq(Catalog)
        BY <3>2 DEF IsJoin
      <4> QED BY <2>2, <4>1, JoinIs, Zenon
    <3>4. IsJoin(Catalog, names, begin, done)
      BY <3>1, <3>3, Zenon
    <3>5. names \in Seq(Catalog) /\ Len(names) = 8 /\ Len(begin) = 6
      BY <2>2, <3>1, <3>2, <3>4, OpeningIsList DEF IsJoin
    <3>6. \A k \in 1..5 : names[k] = Opening[k]
      BY <3>2, <3>4, <3>5, OpeningIsList DEF IsJoin
    <3>7. \A k \in 1..1 : names[5 + k] = v[k]
      BY <3>1, <3>2, <3>4, <3>5, OpeningIsList DEF IsJoin
    <3>8. \A k \in 1..2 : names[5 + 1 + k] = done[k]
      BY <2>2, <3>4, <3>5 DEF IsJoin
    <3> QED BY <3>5, <3>6, <3>7, <3>8 DEF v
  <2>4. /\ names[1] = "iteration_started" /\ names[2] = "drafted"
        /\ names[3] = "approval_requested" /\ names[4] = "ready" /\ names[5] = "changes_applied"
        /\ names[5 + 1] = "check_passed"
        /\ names[5 + 1 + 1] = "iteration_complete" /\ names[5 + 1 + 2] = "terminal"
    BY <2>3 DEF Opening, done
  <2>5. \A k \in 1..8 : k = 1 \/ k = 2 \/ k = 3 \/ k = 4 \/ k = 5 \/ k = 6 \/ k = 7 \/ k = 8
    OBVIOUS
  <2>6. \A name \in RevisionEvents :
          /\ r.plan_revised <=> \E k \in 1..Len(names) : names[k] = name
          /\ \A j, k \in 1..Len(names) : names[j] = name /\ names[k] = name => j = k
    BY <1>2, <2>3, <2>4, <2>5 DEF RevisionEvents
  <2>7. \A j, k \in 1..Len(names) :
          names[j] = "revision_cataloged" /\ names[k] = "plan_revision_artifact" => j < k
    BY <2>3, <2>4, <2>5
  <2>8. /\ \A k \in 1..Len(names) : names[k] \in Ends <=> Done(r) /\ k = Len(names)
        /\ Done(r) => Len(names) > 0 /\ names[Len(names)] = "terminal"
    BY <2>1, <2>3, <2>4, <2>5, SMTT(60) DEF Ends
  <2>9. Tells(names, r)
    BY <2>3, <2>6, <2>7, <2>8 DEF Tells
  <2> QED BY <2>9 DEF names
<1>3. CASE ~r.plan_revised /\ ~r.check_passed
  <2>1. names = Opening \o <<"iteration_complete">> \o <<>> /\ ~Done(r)
    BY <1>3 DEF Work, Verdict, Done, Opening
  <2>2. <<"iteration_complete">> \in Seq(Catalog) /\ <<>> \in Seq(Catalog)
    BY DEF Catalog
  <2> HIDE DEF names
  <2>3. /\ names \in Seq(Catalog) /\ Len(names) = 6
        /\ \A k \in 1..5 : names[k] = Opening[k]
        /\ \A k \in 1..1 : names[5 + k] = <<"iteration_complete">>[k]
    <3> DEFINE v == <<"iteration_complete">>
    <3>1. Len(v) = 1 /\ v \in Seq(Catalog) /\ names = Opening \o v \o <<>>
      BY <2>1, <2>2
    <3> HIDE DEF v
    <3>2. IsJoin(Catalog, Opening \o v, Opening, v)
      BY <3>1, OpeningIsList, JoinIs, Zenon
    <3>3. names = Opening \o v
      BY <3>1, <3>2, ConcatEmptySeq, Zenon DEF IsJoin
    <3>4. IsJoin(Catalog, names, Opening, v)
      BY <3>2, <3>3, Zenon
    <3>5. /\ names \in Seq(Catalog) /\ Len(names) = 6
          /\ \A k \in 1..5 : names[k] = Opening[k]
          /\ \A k \in 1..1 : names[5 + k] = v[k]
      BY <3>1, <3>4, OpeningIsList DEF IsJoin
    <3> QED BY <3>5 DEF v
  <2>4. /\ names[1] = "iteration_started" /\ names[2] = "drafted"
        /\ names[3] = "approval_requested" /\ names[4] = "ready" /\ names[5] = "changes_applied"
        /\ names[5 + 1] = "iteration_complete"
    BY <2>3 DEF Opening
  <2>5. \A k \in 1..6 : k = 1 \/ k = 2 \/ k = 3 \/ k = 4 \/ k = 5 \/ k = 6
    OBVIOUS
  <2>6. \A name \in RevisionEvents :
          /\ r.plan_revised <=> \E k \in 1..Len(names) : names[k] = name
          /\ \A j, k \in 1..Len(names) : names[j] = name /\ names[k] = name => j = k
    BY <1>3, <2>3, <2>4, <2>5 DEF RevisionEvents
  <2>7. \A j, k \in 1..Len(names) :
          names[j] = "revision_cataloged" /\ names[k] = "plan_revision_artifact" => j < k
    BY <2>3, <2>4, <2>5
  <2>8. /\ \A k \in 1..Len(names) : names[k] \in Ends <=> Done(r) /\ k = Len(names)
        /\ Done(r) => Len(names) > 0 /\ names[Len(names)] = "terminal"
    BY <2>1, <2>3, <2>4, <2>5, SMTT(60) DEF Ends
  <2>9. Tells(names, r)
    BY <2>3, <2>6, <2>7, <2>8 DEF Tells
  <2> QED BY <2>9 DEF names
<1> QED BY <1>1, <1>2, <1>3 DEF Results

-----------------------------------------------------------------------------
(* The loop                                                                *)

Revised(c, rs, i) == i < c.max_iterations /\ rs[i].plan_revised

\* An event of a revision stands in the stream for the iterations that revised
\* the plan and for no others, in their order.
Shown(name) ==
  /\ \A n \in 1..Len(stream) : stream[n].what = name =>
       stream[n].iteration \in 1..Len(results) /\ Revised(config, results, stream[n].iteration)
  /\ \A i \in 1..Len(results) : Revised(config, results, i) =>
       \E n \in 1..Len(stream) : stream[n].what = name /\ stream[n].iteration = i
  /\ \A m, n \in 1..Len(stream) :
       stream[m].what = name /\ stream[n].what = name /\ m < n =>
         stream[m].iteration < stream[n].iteration

Catalogued ==
  \A m, n \in 1..Len(stream) :
    /\ stream[m].what = "revision_cataloged" /\ stream[n].what = "plan_revision_artifact"
    /\ stream[m].iteration = stream[n].iteration
    => m < n

LoopTypes ==
  /\ config \in [max_iterations : Int, check_failure_max : Nat]
  /\ results \in Seq(Results) /\ stream \in Seq(Emissions)
  /\ outcome \in {NoOutcome, "completed", "escalated"}
  /\ \A n \in 1..Len(stream) : stream[n].iteration <= Len(results)

\* A loop that goes on has said nothing final, and no iteration was done.
Going ==
  outcome = NoOutcome =>
    /\ \A n \in 1..Len(stream) : stream[n].what \notin Ends
    /\ \A i \in 1..Len(results) : i < config.max_iterations /\ ~Done(results[i])

\* A loop that has returned completed if an iteration before the last one allowed
\* was done, and its verdict is the last word of the stream.
InTime ==
  outcome # NoOutcome =>
    /\ (outcome = "completed") <=>
         \E i \in DOMAIN results : i < config.max_iterations /\ Done(results[i])
    /\ {n \in DOMAIN stream : stream[n].what \in {"terminal", "loop_escalated"}} = {Len(stream)}
    /\ stream[Len(stream)] =
         [iteration |-> iteration,
          what |-> IF outcome = "completed" THEN "terminal" ELSE "loop_escalated"]
    /\ \A i \in DOMAIN results : i < iteration => ~Done(results[i])

RevisionInv == (\A name \in RevisionEvents : Shown(name)) /\ Catalogued

LoopInv == LoopTypes /\ Going /\ InTime /\ RevisionInv

\* The stream after an iteration.
LEMMA Emitted ==
  ASSUME stream \in Seq(Emissions), NEW i \in Nat, NEW names \in Seq(Catalog), Emit(i, names)
  PROVE  /\ stream' \in Seq(Emissions)
         /\ Len(stream) \in Nat /\ Len(names) \in Nat
         /\ Len(stream') = Len(stream) + Len(names)
         /\ \A n \in 1..Len(stream) : stream'[n] = stream[n]
         /\ \A k \in 1..Len(names) :
              stream'[Len(stream) + k] = [iteration |-> i, what |-> names[k]]
         /\ \A n \in 1..Len(stream') :
              \/ n \in 1..Len(stream)
              \/ \E k \in 1..Len(names) : n = Len(stream) + k
<1> DEFINE block == [k \in DOMAIN names |-> [iteration |-> i, what |-> names[k]]]
<1>1. DOMAIN names = 1..Len(names) /\ Len(names) \in Nat /\ Len(stream) \in Nat
  OBVIOUS
<1>2. \A k \in 1..Len(names) : [iteration |-> i, what |-> names[k]] \in Emissions
  BY <1>1 DEF Emissions
<1>3. block \in Seq(Emissions) /\ Len(block) = Len(names)
  <2>1. block \in [1..Len(names) -> Emissions]
    BY <1>1, <1>2
  <2> QED BY <1>1, <2>1
<1>4. \A k \in 1..Len(names) : block[k] = [iteration |-> i, what |-> names[k]]
  BY <1>1
<1>5. stream' = stream \o block
  BY DEF Emit
<1> HIDE DEF block
<1>6. IsJoin(Emissions, stream \o block, stream, block)
  BY <1>3, JoinIs, Zenon
<1>7. IsJoin(Emissions, stream', stream, block)
  BY <1>5, <1>6, Zenon
<1> QED BY <1>1, <1>3, <1>4, <1>7 DEF IsJoin

\* Another result in the list of results.
LEMMA Obtained ==
  ASSUME results \in Seq(Results), NEW r \in Results, results' = Append(results, r)
  PROVE  /\ results' \in Seq(Results)
         /\ Len(results) \in Nat /\ Len(results') = Len(results) + 1
         /\ \A i \in 1..Len(results) : results'[i] = results[i]
         /\ results'[Len(results) + 1] = r
BY AppendProperties

\* An iteration before the last one: what is added tells of a revision or of the
\* end as its result does, under its own number.
LEMMA IterateKeeps ==
  ASSUME LoopInv, NEW r \in Results, Iterate(r)
  PROVE  LoopInv'
<1> DEFINE names == Work(r)
           base == Len(stream)
           last == Len(results) + 1
<1>1. /\ outcome = NoOutcome /\ results' = Append(results, r) /\ config' = config
      /\ ~(last >= config.max_iterations) /\ Emit(last, names)
      /\ outcome' = IF Done(r) THEN "completed" ELSE NoOutcome
  BY DEF Iterate, Obtain, IsLast, iteration
<1>2. /\ results \in Seq(Results) /\ stream \in Seq(Emissions) /\ config.max_iterations \in Int
      /\ Len(results) \in Nat
  BY DEF LoopInv, LoopTypes
<1>3. Tells(names, r)
  BY WorkTells
<1> HIDE DEF names
<1>4. /\ results' \in Seq(Results) /\ Len(results') = last
      /\ \A i \in 1..Len(results) : results'[i] = results[i]
      /\ results'[last] = r
  BY <1>1, <1>2, Obtained
<1>5. /\ stream' \in Seq(Emissions) /\ base \in Nat /\ Len(names) \in Nat
      /\ Len(stream') = base + Len(names)
      /\ \A n \in 1..base : stream'[n] = stream[n]
      /\ \A k \in 1..Len(names) : stream'[base + k] = [iteration |-> last, what |-> names[k]]
      /\ \A n \in 1..Len(stream') : n \in 1..base \/ \E k \in 1..Len(names) : n = base + k
  BY <1>1, <1>2, <1>3, Emitted DEF Tells
<1> HIDE DEF base
<1>6. \A n \in 1..base : stream[n].iteration \in Nat /\ stream[n].iteration < last
  <2> SUFFICES ASSUME NEW n \in 1..base
               PROVE  stream[n].iteration \in Nat /\ stream[n].iteration < last
    OBVIOUS
  <2>1. stream[n] \in Emissions
    BY <1>2 DEF base
  <2>2. stream[n].iteration \in Nat
    BY <2>1 DEF Emissions
  <2>3. stream[n].iteration <= Len(results)
    BY DEF LoopInv, LoopTypes, base
  <2> QED BY <1>2, <2>2, <2>3
<1>7. \A n \in 1..Len(stream') :
        \/ /\ n \in 1..base /\ stream'[n] = stream[n]
           /\ stream'[n].iteration \in Nat /\ stream'[n].iteration < last
        \/ \E k \in 1..Len(names) : /\ n = base + k /\ stream'[n].iteration = last
                                    /\ stream'[n].what = names[k]
  <2> SUFFICES ASSUME NEW n \in 1..Len(stream'), n \notin 1..base
               PROVE  \E k \in 1..Len(names) : /\ n = base + k /\ stream'[n].iteration = last
                                               /\ stream'[n].what = names[k]
    BY <1>5, <1>6
  <2>1. PICK k \in 1..Len(names) : n = base + k
    BY <1>5
  <2>2. stream'[n] = [iteration |-> last, what |-> names[k]]
    BY <1>5, <2>1
  <2> QED BY <2>1, <2>2
<1>8. Revised(config', results', last) <=> r.plan_revised
  BY <1>1, <1>2, <1>4 DEF Revised
<1>9. LoopTypes'
  <2>1. \A n \in 1..Len(stream') : stream'[n].iteration <= Len(results')
    BY <1>2, <1>4, <1>7
  <2> QED BY <1>1, <1>4, <1>5, <2>1 DEF LoopInv, LoopTypes
<1>10. \A i \in 1..Len(results) : Revised(config', results', i) <=> Revised(config, results, i)
  BY <1>1, <1>4 DEF Revised
<1>11. ASSUME NEW name \in RevisionEvents PROVE Shown(name)'
  <2>1. Shown(name)
    BY DEF LoopInv, RevisionInv
  <2>2. ASSUME NEW n \in 1..Len(stream'), stream'[n].what = name
        PROVE  /\ stream'[n].iteration \in 1..Len(results')
               /\ Revised(config', results', stream'[n].iteration)
    <3>1. CASE n \in 1..base /\ stream'[n] = stream[n]
      <4>1. /\ stream[n].iteration \in 1..Len(results)
            /\ Revised(config, results, stream[n].iteration)
        BY <2>1, <2>2, <3>1 DEF Shown, base
      <4> QED BY <1>2, <1>4, <1>10, <3>1, <4>1
    <3>2. CASE \E k \in 1..Len(names) : /\ n = base + k /\ stream'[n].iteration = last
                                        /\ stream'[n].what = names[k]
      <4>1. r.plan_revised
        BY <1>3, <2>2, <3>2 DEF Tells
      <4> QED BY <1>2, <1>4, <1>8, <3>2, <4>1
    <3> QED BY <1>7, <3>1, <3>2
  <2>3. ASSUME NEW i \in 1..Len(results'), Revised(config', results', i)
        PROVE  \E n \in 1..Len(stream') : stream'[n].what = name /\ stream'[n].iteration = i
    <3>1. CASE i \in 1..Len(results)
      <4>1. PICK n \in 1..base : stream[n].what = name /\ stream[n].iteration = i
        BY <1>10, <2>1, <2>3, <3>1 DEF Shown, base
      <4> QED BY <1>5, <4>1
    <3>2. CASE i = last
      <4>1. PICK k \in 1..Len(names) : names[k] = name
        BY <1>3, <1>8, <2>3, <3>2 DEF Tells
      <4>2. base + k \in 1..Len(stream')
        BY <1>5
      <4>3. stream'[base + k] = [iteration |-> last, what |-> names[k]]
        BY <1>5
      <4> QED BY <3>2, <4>1, <4>2, <4>3
    <3> QED BY <1>2, <1>4, <3>1, <3>2
  <2>4. ASSUME NEW m \in 1..Len(stream'), NEW n \in 1..Len(stream'),
               stream'[m].what = name, stream'[n].what = name, m < n
        PROVE  stream'[m].iteration < stream'[n].iteration
    <3>1. CASE n \in 1..base
      <4>1. m \in 1..base
        BY <1>5, <2>4, <3>1
      <4> QED BY <1>5, <2>1, <2>4, <3>1, <4>1 DEF Shown, base
    <3>2. CASE n \notin 1..base
      <4>1. PICK k \in 1..Len(names) :
              n = base + k /\ stream'[n].iteration = last /\ stream'[n].what = names[k]
        BY <1>7, <3>2
      <4>2. CASE m \in 1..base
        BY <1>5, <1>6, <4>1, <4>2
      <4>3. CASE m \notin 1..base
        <5>1. PICK j \in 1..Len(names) : m = base + j /\ stream'[m].what = names[j]
          BY <1>7, <4>3
        <5>2. j = k
          BY <1>3, <2>4, <4>1, <5>1 DEF Tells
        <5> QED BY <1>5, <2>4, <4>1, <5>1, <5>2
      <4> QED BY <4>2, <4>3
    <3> QED BY <3>1, <3>2
  <2> QED
    <3>1. Shown(name)' <=>
            /\ \A n \in 1..Len(stream') : stream'[n].what = name =>
                 /\ stream'[n].iteration \in 1..Len(results')
                 /\ Revised(config', results', stream'[n].iteration)
            /\ \A i \in 1..Len(results') : Revised(config', results', i) =>
                 \E n \in 1..Len(stream') : stream'[n].what = name /\ stream'[n].iteration = i
            /\ \A m, n \in 1..Len(stream') :
                 stream'[m].what = name /\ stream'[n].what = name /\ m < n =>
                   stream'[m].iteration < stream'[n].iteration
      BY DEF Shown
    <3> QED BY <2>2, <2>3, <2>4, <3>1
<1>12. Catalogued'
  <2> SUFFICES ASSUME NEW m \in 1..Len(stream'), NEW n \in 1..Len(stream'),
                      stream'[m].what = "revision_cataloged",
                      stream'[n].what = "plan_revision_artifact",
                      stream'[m].iteration = stream'[n].iteration
               PROVE  m < n
    BY DEF Catalogued
  <2>1. CASE m \in 1..base /\ n \in 1..base
    BY <1>5, <2>1 DEF LoopInv, RevisionInv, Catalogued, base
  <2>2. CASE m \in 1..base /\ n \notin 1..base
    BY <1>5, <2>2
  <2>3. CASE m \notin 1..base /\ n \in 1..base
    BY <1>5, <1>6, <1>7, <2>3
  <2>4. CASE m \notin 1..base /\ n \notin 1..base
    <3>1. PICK j \in 1..Len(names), k \in 1..Len(names) :
            m = base + j /\ n = base + k /\ stream'[m].what = names[j] /\ stream'[n].what = names[k]
      BY <1>7, <2>4
    <3>2. j < k
      BY <1>3, <3>1 DEF Tells
    <3> QED BY <1>5, <3>1, <3>2
  <2> QED BY <2>1, <2>2, <2>3, <2>4
<1>13. Going /\ \A n \in 1..base : stream[n].what \notin Ends
  BY <1>1 DEF LoopInv, Going, base
<1>14. \A n \in 1..Len(stream') : stream'[n].what \in Ends <=> Done(r) /\ n = Len(stream')
  <2> SUFFICES ASSUME NEW n \in 1..Len(stream')
               PROVE  stream'[n].what \in Ends <=> Done(r) /\ n = Len(stream')
    OBVIOUS
  <2>1. CASE n \in 1..base
    <3>1. stream'[n].what \notin Ends
      BY <1>5, <1>13, <2>1
    <3>2. Done(r) => n # Len(stream')
      BY <1>3, <1>5, <2>1 DEF Tells
    <3> QED BY <3>1, <3>2
  <2>2. CASE n \notin 1..base
    <3>1. PICK k \in 1..Len(names) : n = base + k /\ stream'[n].what = names[k]
      BY <1>7, <2>2
    <3>2. names[k] \in Ends <=> Done(r) /\ k = Len(names)
      BY <1>3 DEF Tells
    <3>3. n = Len(stream') <=> k = Len(names)
      BY <1>5, <3>1
    <3> QED BY <3>1, <3>2, <3>3
  <2> QED BY <2>1, <2>2
<1>15. Going'
  <2> SUFFICES ASSUME outcome' = NoOutcome PROVE Going'
    BY DEF Going
  <2>1. ~Done(r)
    BY <1>1, NoOutcomeAssumption
  <2>2. \A n \in 1..Len(stream') : stream'[n].what \notin Ends
    BY <1>14, <2>1
  <2>3. \A i \in 1..Len(results') : i < config'.max_iterations /\ ~Done(results'[i])
    BY <1>1, <1>2, <1>4, <1>13, <2>1 DEF Going
  <2> QED BY <2>2, <2>3 DEF Going
<1>16. InTime'
  <2> SUFFICES ASSUME outcome' # NoOutcome PROVE InTime'
    BY DEF InTime
  <2>1. outcome' = "completed" /\ Done(r)
    BY <1>1
  <2>2. DOMAIN results' = 1..last /\ DOMAIN stream' = 1..Len(stream')
    BY <1>4, <1>5
  <2>3. \E i \in DOMAIN results' : i < config'.max_iterations /\ Done(results'[i])
    BY <1>1, <1>2, <1>4, <2>1, <2>2
  <2>4. Len(stream') \in 1..Len(stream') /\ Len(names) \in 1..Len(names)
    BY <1>3, <1>5, <2>1 DEF Tells
  <2>5. {n \in DOMAIN stream' : stream'[n].what \in {"terminal", "loop_escalated"}} = {Len(stream')}
    BY <1>14, <2>1, <2>2, <2>4 DEF Ends
  <2>6. stream'[Len(stream')] = [iteration |-> last, what |-> "terminal"]
    BY <1>3, <1>5, <2>1, <2>4 DEF Tells
  <2>7. \A i \in DOMAIN results' : i < last => ~Done(results'[i])
    BY <1>1, <1>2, <1>4, <1>13, <2>2 DEF Going
  <2> QED BY <1>4, <2>1, <2>3, <2>5, <2>6, <2>7 DEF InTime, iteration
<1> QED BY <1>9, <1>11, <1>12, <1>15, <1>16 DEF LoopInv, RevisionInv

\* What is said when the loop gives up.
LastWords == {<<"loop_escalated">>, <<"iteration_started", "loop_escalated">>}

\* The loop gives up, with a result of the last iteration that nobody looks at,
\* or with none.
LEMMA EscalateKeeps ==
  ASSUME LoopInv, outcome = NoOutcome, config' = config, outcome' = "escalated",
         results' = results \/ \E r \in Results : results' = Append(results, r),
         Len(results') >= config.max_iterations,
         NEW names \in LastWords, Emit(Len(results'), names)
  PROVE  LoopInv'
<1> DEFINE base == Len(stream)
<1>1. /\ results \in Seq(Results) /\ stream \in Seq(Emissions) /\ config.max_iterations \in Int
      /\ Len(results) \in Nat
  BY DEF LoopInv, LoopTypes
<1>2. /\ names \in Seq(Catalog) /\ Len(names) \in {1, 2} /\ names[Len(names)] = "loop_escalated"
      /\ \A k \in 1..Len(names) : names[k] \notin RevisionEvents
      /\ \A k \in 1..Len(names) : names[k] \in Ends => k = Len(names)
  <2>1. CASE names = <<"loop_escalated">>
    <3>1. names \in Seq(Catalog) /\ Len(names) = 1 /\ names[1] = "loop_escalated"
      BY <2>1 DEF Catalog
    <3> QED BY <3>1 DEF RevisionEvents, Ends
  <2>2. CASE names = <<"iteration_started", "loop_escalated">>
    <3>1. /\ names \in Seq(Catalog) /\ Len(names) = 2
          /\ names[1] = "iteration_started" /\ names[2] = "loop_escalated"
      BY <2>2 DEF Catalog
    <3> QED BY <3>1 DEF RevisionEvents, Ends
  <2> QED BY <2>1, <2>2 DEF LastWords
<1>3. /\ results' \in Seq(Results) /\ Len(results') \in {Len(results), Len(results) + 1}
      /\ \A i \in 1..Len(results) : results'[i] = results[i]
  <2>1. CASE results' = results
    BY <1>1, <2>1
  <2>2. CASE \E r \in Results : results' = Append(results, r)
    BY <1>1, <2>2, Obtained
  <2> QED BY <2>1, <2>2
<1>4. /\ stream' \in Seq(Emissions) /\ base \in Nat
      /\ Len(stream') = base + Len(names)
      /\ \A n \in 1..base : stream'[n] = stream[n]
      /\ \A k \in 1..Len(names) :
           stream'[base + k] = [iteration |-> Len(results'), what |-> names[k]]
      /\ \A n \in 1..Len(stream') : n \in 1..base \/ \E k \in 1..Len(names) : n = base + k
  <2>1. Len(results') \in Nat
    BY <1>1, <1>3
  <2> QED BY <1>1, <1>2, <2>1, Emitted
<1> HIDE DEF base
<1>5. \A n \in 1..base : stream[n].iteration <= Len(results) /\ stream[n].what \notin Ends
  BY DEF LoopInv, LoopTypes, Going, base
<1>6. ASSUME NEW n \in 1..Len(stream'), n \notin 1..base
      PROVE  /\ stream'[n].iteration = Len(results')
             /\ stream'[n].what \notin RevisionEvents
             /\ stream'[n].what \in Ends => n = Len(stream')
  <2>1. PICK k \in 1..Len(names) : n = base + k
    BY <1>4, <1>6
  <2>2. stream'[n] = [iteration |-> Len(results'), what |-> names[k]]
    BY <1>4, <2>1
  <2>3. names[k] \in Ends => n = Len(stream')
    BY <1>2, <1>4, <2>1
  <2> QED BY <1>2, <2>2, <2>3
<1>7. LoopTypes'
  <2>1. \A n \in 1..Len(stream') : stream'[n].iteration <= Len(results')
    <3> SUFFICES ASSUME NEW n \in 1..Len(stream') PROVE stream'[n].iteration <= Len(results')
      OBVIOUS
    <3>1. CASE n \in 1..base
      <4>1. stream[n] \in Emissions
        BY <1>1, <3>1 DEF base
      <4> QED BY <1>1, <1>3, <1>4, <1>5, <3>1, <4>1 DEF Emissions
    <3>2. CASE n \notin 1..base
      BY <1>1, <1>3, <1>6, <3>2
    <3> QED BY <3>1, <3>2
  <2> QED BY <1>3, <1>4, <2>1 DEF LoopInv, LoopTypes
<1>8. \A i \in 1..Len(results) : Revised(config', results', i) <=> Revised(config, results, i)
  BY <1>3 DEF Revised
<1>9. \A i \in 1..Len(results') : Revised(config', results', i) => i \in 1..Len(results)
  <2> SUFFICES ASSUME NEW i \in 1..Len(results'), i < config.max_iterations, i \notin 1..Len(results)
               PROVE  FALSE
    BY DEF Revised
  <2>1. i = Len(results')
    BY <1>1, <1>3
  <2> QED BY <1>1, <1>3, <2>1
<1>10. ASSUME NEW name \in RevisionEvents PROVE Shown(name)'
  <2>1. Shown(name)
    BY DEF LoopInv, RevisionInv
  <2>2. \A n \in 1..Len(stream') : stream'[n].what = name => n \in 1..base
    BY <1>6
  <2>3. \A n \in 1..Len(stream') : stream'[n].what = name =>
          /\ stream'[n].iteration \in 1..Len(results')
          /\ Revised(config', results', stream'[n].iteration)
    <3> SUFFICES ASSUME NEW n \in 1..Len(stream'), stream'[n].what = name
                 PROVE  /\ stream'[n].iteration \in 1..Len(results')
                        /\ Revised(config', results', stream'[n].iteration)
      OBVIOUS
    <3>1. n \in 1..base /\ stream'[n] = stream[n]
      BY <1>4, <2>2
    <3>2. /\ stream[n].iteration \in 1..Len(results)
          /\ Revised(config, results, stream[n].iteration)
      BY <2>1, <3>1 DEF Shown, base
    <3> QED BY <1>1, <1>3, <1>8, <3>1, <3>2
  <2>4. ASSUME NEW i \in 1..Len(results'), Revised(config', results', i)
        PROVE  \E n \in 1..Len(stream') : stream'[n].what = name /\ stream'[n].iteration = i
    <3>1. i \in 1..Len(results) /\ Revised(config, results, i)
      BY <1>8, <1>9, <2>4
    <3>2. PICK n \in 1..base : stream[n].what = name /\ stream[n].iteration = i
      BY <2>1, <3>1 DEF Shown, base
    <3>3. n \in 1..Len(stream') /\ stream'[n] = stream[n]
      BY <1>2, <1>4
    <3> QED BY <3>2, <3>3
  <2>5. ASSUME NEW m \in 1..Len(stream'), NEW n \in 1..Len(stream'),
               stream'[m].what = name, stream'[n].what = name, m < n
        PROVE  stream'[m].iteration < stream'[n].iteration
    <3>1. /\ m \in 1..base /\ n \in 1..base
          /\ stream'[m] = stream[m] /\ stream'[n] = stream[n]
      BY <1>4, <2>2, <2>5
    <3> QED BY <2>1, <2>5, <3>1 DEF Shown, base
  <2> QED
    <3>1. Shown(name)' <=>
            /\ \A n \in 1..Len(stream') : stream'[n].what = name =>
                 /\ stream'[n].iteration \in 1..Len(results')
                 /\ Revised(config', results', stream'[n].iteration)
            /\ \A i \in 1..Len(results') : Revised(config', results', i) =>
                 \E n \in 1..Len(stream') : stream'[n].what = name /\ stream'[n].iteration = i
            /\ \A m, n \in 1..Len(stream') :
                 stream'[m].what = name /\ stream'[n].what = name /\ m < n =>
                   stream'[m].iteration < stream'[n].iteration
      BY DEF Shown
    <3> QED BY <2>3, <2>4, <2>5, <3>1
<1>11. Catalogued'
  <2> SUFFICES ASSUME NEW m \in 1..Len(stream'), NEW n \in 1..Len(stream'),
                      stream'[m].what = "revision_cataloged",
                      stream'[n].what = "plan_revision_artifact",
                      stream'[m].iteration = stream'[n].iteration
               PROVE  m < n
    BY DEF Catalogued
  <2>1. m \in 1..base /\ n \in 1..base
    BY <1>6 DEF RevisionEvents
  <2> QED BY <1>4, <2>1 DEF LoopInv, RevisionInv, Catalogued, base
<1>12. Going'
  BY NoOutcomeAssumption DEF Going
<1>13. InTime'
  <2>1. DOMAIN results' = 1..Len(results') /\ DOMAIN stream' = 1..Len(stream')
    BY <1>3, <1>4
  <2>2. \A i \in 1..Len(results) : i < config.max_iterations /\ ~Done(results[i])
    BY DEF LoopInv, Going
  <2>3. \A i \in 1..Len(results') : i < Len(results') => i \in 1..Len(results)
    BY <1>1, <1>3
  <2>4. \A i \in 1..Len(results') : i < Len(results') => ~Done(results'[i])
    BY <1>3, <2>2, <2>3
  <2>5. ~ \E i \in 1..Len(results') : i < config'.max_iterations /\ Done(results'[i])
    <3> SUFFICES ASSUME NEW i \in 1..Len(results'), i < config.max_iterations, Done(results'[i])
                 PROVE  FALSE
      OBVIOUS
    <3>1. i < Len(results')
      BY <1>1, <1>3
    <3> QED BY <2>4, <3>1
  <2>6. /\ Len(stream') \in 1..Len(stream')
        /\ stream'[Len(stream')] = [iteration |-> Len(results'), what |-> "loop_escalated"]
    <3>1. Len(names) \in 1..Len(names)
      <4>1. CASE Len(names) = 1
        BY <4>1
      <4>2. CASE Len(names) = 2
        BY <4>2
      <4> QED BY <1>2, <4>1, <4>2
    <3> QED BY <1>2, <1>4, <3>1
  <2>7. \A n \in 1..Len(stream') : stream'[n].what \in Ends => n = Len(stream')
    <3> SUFFICES ASSUME NEW n \in 1..Len(stream'), stream'[n].what \in Ends
                 PROVE  n = Len(stream')
      OBVIOUS
    <3>1. n \notin 1..base
      BY <1>4, <1>5
    <3> QED BY <1>6, <3>1
  <2>8. {n \in DOMAIN stream' : stream'[n].what \in {"terminal", "loop_escalated"}} = {Len(stream')}
    <3>1. stream'[Len(stream')].what = "loop_escalated"
      BY <2>6
    <3>2. \A n \in 1..Len(stream') :
            stream'[n].what \in {"terminal", "loop_escalated"} <=> n = Len(stream')
      BY <2>7, <3>1 DEF Ends
    <3> QED BY <2>1, <2>6, <3>2
  <2> QED BY <2>1, <2>4, <2>5, <2>6, <2>8 DEF InTime, iteration
<1> QED BY <1>7, <1>10, <1>11, <1>12, <1>13 DEF LoopInv, RevisionInv

LEMMA LoopStarts == LoopInit => LoopInv
<1> SUFFICES ASSUME LoopInit PROVE LoopInv
  OBVIOUS
<1>1. /\ results = <<>> /\ stream = <<>> /\ Len(results) = 0 /\ Len(stream) = 0
      /\ outcome = NoOutcome
  BY DEF LoopInit
<1>2. LoopTypes
  BY <1>1, ConfigsAssumption DEF LoopInit, LoopTypes
<1>3. Going /\ InTime /\ Catalogued
  BY <1>1 DEF Going, InTime, Catalogued
<1>4. \A name \in RevisionEvents : Shown(name)
  BY <1>1 DEF Shown
<1> QED BY <1>2, <1>3, <1>4 DEF LoopInv, RevisionInv

LEMMA LoopKeeps == LoopInv /\ [LoopNext]_loopVars => LoopInv'
<1> SUFFICES ASSUME LoopInv, [LoopNext]_loopVars PROVE LoopInv'
  OBVIOUS
<1>1. ASSUME NEW r \in Results, LastIteration(r) PROVE LoopInv'
  <2> DEFINE names == <<"iteration_started", "loop_escalated">>
  <2>1. /\ outcome = NoOutcome /\ config' = config /\ outcome' = "escalated"
        /\ results' = Append(results, r) /\ iteration + 1 >= config.max_iterations
        /\ Emit(iteration + 1, names)
    BY <1>1 DEF LastIteration, Obtain, IsLast
  <2>2. Len(results') = iteration + 1
    BY <2>1, Obtained DEF LoopInv, LoopTypes, iteration
  <2>3. names \in LastWords
    BY DEF LastWords
  <2> HIDE DEF names
  <2> QED BY <2>1, <2>2, <2>3, EscalateKeeps
<1>2. CASE Exhausted
  <2> DEFINE names == <<"loop_escalated">>
  <2>1. /\ outcome = NoOutcome /\ config' = config /\ outcome' = "escalated"
        /\ results' = results /\ iteration >= config.max_iterations /\ Emit(iteration, names)
    BY <1>2 DEF Exhausted
  <2>2. names \in LastWords /\ Len(results') = iteration
    BY <2>1 DEF LastWords, iteration
  <2> HIDE DEF names
  <2> QED BY <2>1, <2>2, EscalateKeeps
<1>3. CASE UNCHANGED loopVars
  <2>1. /\ config' = config /\ results' = results /\ stream' = stream
        /\ outcome' = outcome /\ failures' = failures
    BY <1>3 DEF loopVars
  <2>2. iteration' = iteration
    BY <2>1 DEF iteration
  <2>3. LoopTypes' /\ Going' /\ InTime'
    BY <2>1, <2>2 DEF LoopInv, LoopTypes, Going, InTime
  <2>4. RevisionInv'
    BY <2>1, <2>2 DEF LoopInv, RevisionInv, Shown, Catalogued
  <2> QED BY <2>3, <2>4 DEF LoopInv
<1> QED BY <1>1, <1>2, <1>3, IterateKeeps DEF LoopNext

\* The loop keeps its config, and counts no more failures than iterations.
Counted == config \in Configs /\ failures \in 0..Len(results)

LEMMA NextCounted == LoopTypes /\ Counted /\ [LoopNext]_loopVars => Counted'
<1> SUFFICES ASSUME LoopTypes, Counted, [LoopNext]_loopVars PROVE Counted'
  OBVIOUS
<1>0. results \in Seq(Results) /\ Len(results) \in Nat
  BY DEF LoopTypes
<1>1. ASSUME NEW r \in Results, Obtain(r), config' = config,
             failures' \in {failures, failures + 1}
      PROVE  Counted'
  <2>1. Len(results') = Len(results) + 1
    BY <1>0, <1>1 DEF Obtain
  <2> QED BY <1>0, <1>1, <2>1 DEF Counted
<1>2. CASE Exhausted \/ UNCHANGED loopVars
  BY <1>2 DEF Exhausted, loopVars, Counted
<1>3. ASSUME NEW r \in Results, LastIteration(r) \/ Iterate(r)
      PROVE  Counted'
  BY <1>1, <1>3 DEF LastIteration, Iterate
<1> QED BY <1>2, <1>3 DEF LoopNext

\* Every event that run_till_done emits is in the milestone catalog, so that
\* _emit_progress does not raise out of an iteration (tilldone.py:231-300).
THEOREM LoopTypeOKHolds == LoopSpec => []LoopTypeOK
<1>1. LoopInit => Counted
  BY DEF LoopInit, Counted
<1>2. LoopInv /\ Counted => LoopTypeOK
  <2> SUFFICES ASSUME LoopInv, Counted PROVE LoopTypeOK
    OBVIOUS
  <2>1. LoopTypes
    BY DEF LoopInv
  <2>2. \A n \in 1..Len(stream) : stream[n] \in Emissions
    BY <2>1 DEF LoopTypes
  <2>3. DOMAIN stream = 1..Len(stream) /\ Len(results) \in Nat
    BY <2>1 DEF LoopTypes
  <2> QED BY <2>1, <2>2, <2>3 DEF LoopTypeOK, LoopTypes, Counted, Emissions
<1>3. LoopInv => LoopTypes
  BY DEF LoopInv
<1> QED BY <1>1, <1>2, <1>3, NextCounted, LoopStarts, LoopKeeps, PTL DEF LoopSpec

\* No more iterations than are allowed, and none left where the loop escalated.
Limited ==
  /\ Len(results) > 0 => Len(results) <= config.max_iterations
  /\ outcome = "escalated" => Len(results) >= config.max_iterations

LEMMA NextLimited == LoopTypes /\ Limited /\ [LoopNext]_loopVars => Limited'
<1> SUFFICES ASSUME LoopTypes, Limited, [LoopNext]_loopVars PROVE Limited'
  OBVIOUS
<1>0. /\ results \in Seq(Results) /\ Len(results) \in Nat /\ config.max_iterations \in Int
      /\ NoOutcome # "escalated"
  BY NoOutcomeAssumption DEF LoopTypes
<1>1. ASSUME NEW r \in Results, Obtain(r), config' = config,
             outcome' = "escalated" => IsLast(iteration + 1)
      PROVE  Limited'
  <2>1. Len(results') = Len(results) + 1
    BY <1>0, <1>1 DEF Obtain
  <2>2. Len(results) < config.max_iterations
    BY <1>1 DEF Obtain, iteration
  <2> QED BY <1>0, <1>1, <2>1, <2>2 DEF Limited, IsLast, iteration
<1>2. CASE Exhausted
  BY <1>0, <1>2 DEF Exhausted, Limited, iteration
<1>3. ASSUME NEW r \in Results, LastIteration(r)
      PROVE  Limited'
  BY <1>1, <1>3 DEF LastIteration
<1>4. ASSUME NEW r \in Results, Iterate(r)
      PROVE  Limited'
  <2>1. outcome' # "escalated"
    BY <1>0, <1>4 DEF Iterate
  <2> QED BY <1>1, <1>4, <2>1 DEF Iterate
<1>5. CASE UNCHANGED loopVars
  BY <1>5 DEF loopVars, Limited
<1> QED BY <1>2, <1>3, <1>4, <1>5 DEF LoopNext

LEMMA LoopLimited == LoopSpec => [](LoopInv /\ Limited)
<1>1. LoopInit => Limited
  BY NoOutcomeAssumption DEF LoopInit, Limited
<1>2. LoopInv => LoopTypes
  BY DEF LoopInv
<1> QED BY <1>1, <1>2, NextLimited, LoopStarts, LoopKeeps, PTL DEF LoopSpec

\* run_till_done completes only on a pass that did not revise the plan, goes on
\* only without one and escalates only at its limits, and says so once, as the
\* last event of the stream (tilldone.py:231-300).
THEOREM VerdictHasCauseHolds == LoopSpec => []VerdictHasCause
<1>1. LoopInv /\ Limited => VerdictHasCause
  <2> SUFFICES ASSUME LoopInv, Limited PROVE VerdictHasCause
    OBVIOUS
  <2>1. /\ results \in Seq(Results) /\ Len(results) \in Nat /\ DOMAIN results = 1..Len(results)
        /\ InTime /\ Going /\ iteration = Len(results)
    BY DEF LoopInv, LoopTypes, iteration
  <2>2. \A i \in DOMAIN results : i < iteration => ~Done(results[i])
    BY <2>1 DEF InTime, Going
  <2>3. ASSUME outcome = "completed"
        PROVE  iteration > 0 /\ Done(results[iteration])
    <3>1. outcome # NoOutcome
      BY <2>3, NoOutcomeAssumption
    <3>2. PICK i \in DOMAIN results : Done(results[i])
      BY <2>1, <2>3, <3>1 DEF InTime
    <3>3. i = iteration
      BY <2>1, <2>2, <3>2
    <3> QED BY <2>1, <3>2, <3>3
  <2>4. outcome = "escalated" => iteration >= config.max_iterations
    BY <2>1 DEF Limited
  <2>5. outcome # NoOutcome =>
          /\ {n \in DOMAIN stream : stream[n].what \in {"terminal", "loop_escalated"}} = {Len(stream)}
          /\ stream[Len(stream)] =
               [iteration |-> iteration,
                what |-> IF outcome = "completed" THEN "terminal" ELSE "loop_escalated"]
    BY <2>1 DEF InTime
  <2> QED BY <2>2, <2>3, <2>4, <2>5, Zenon DEF VerdictHasCause
<1> QED BY LoopLimited, <1>1, PTL

\* Each iteration that revised the plan and was followed by another, and none
\* that did not, has its events of the revision in the stream, in order
\* (tilldone.py:267-288).
THEOREM RevisionsAreShownHolds == LoopSpec => []RevisionsAreShown
<1>1. LoopInv /\ Limited => RevisionsAreShown
  <2> SUFFICES ASSUME LoopInv, Limited PROVE RevisionsAreShown
    OBVIOUS
  <2>1. /\ DOMAIN results = 1..Len(results) /\ DOMAIN stream = 1..Len(stream)
        /\ Len(results) \in Nat /\ config.max_iterations \in Int /\ iteration = Len(results)
    BY DEF LoopInv, LoopTypes, iteration
  <2> DEFINE Of(name) == {n \in DOMAIN stream : stream[n].what = name}
  <2>2. ASSUME NEW name \in RevisionEvents
        PROVE  /\ ShownBy(name) \subseteq Revisions
               /\ {i \in Revisions : i < iteration} \subseteq ShownBy(name)
               /\ \A m, n \in Of(name) : m < n => stream[m].iteration < stream[n].iteration
    <3>1. Shown(name)
      BY DEF LoopInv, RevisionInv
    <3>2. ShownBy(name) \subseteq Revisions
      BY <2>1, <3>1 DEF Shown, Revised, ShownBy, Revisions
    <3>3. {i \in Revisions : i < iteration} \subseteq ShownBy(name)
      <4> SUFFICES ASSUME NEW i \in Revisions, i < iteration PROVE i \in ShownBy(name)
        OBVIOUS
      <4>1. i \in 1..Len(results) /\ results[i].plan_revised
        BY <2>1 DEF Revisions
      <4>2. Revised(config, results, i)
        BY <2>1, <4>1 DEF Revised, Limited
      <4>3. PICK n \in 1..Len(stream) : stream[n].what = name /\ stream[n].iteration = i
        BY <3>1, <4>1, <4>2 DEF Shown
      <4> QED BY <2>1, <4>3 DEF ShownBy
    <3>4. \A m, n \in Of(name) : m < n => stream[m].iteration < stream[n].iteration
      BY <2>1, <3>1 DEF Shown
    <3> QED BY <3>2, <3>3, <3>4
  <2>3. \A m \in Of("revision_cataloged"), n \in Of("plan_revision_artifact") :
          stream[m].iteration = stream[n].iteration => m < n
    BY <2>1 DEF LoopInv, RevisionInv, Catalogued
  <2> QED BY <2>2, <2>3 DEF RevisionsAreShown
<1> QED BY LoopLimited, <1>1, PTL
=============================================================================
