--------------------------- MODULE EATasksProofs ---------------------------
(***************************************************************************)
(* For any number of tasks, of concurrent transactions and of events: the  *)
(* approval records, the task rows and the log of the run agree, although  *)
(* the service reads before it locks and its saves overwrite.              *)
(***************************************************************************)
EXTENDS EARoutines, SequenceTheorems, TLAPS

Waiting == "approval_waiting"
Timeouts == {"timeout", "timeout_retry"}

\* A transaction x that writes these rows and events once its statements
\* todo are done.
At(x, todo, row, record, events) ==
  x.todo = todo /\ x.task = row /\ x.approval = record /\ x.events = events

\* Where a call of create_task or transition_task to st can be.
MovingTo(x, st) ==
  \/ At(x, <<Task(st), Event(st)>>, None, None, <<>>)
  \/ At(x, <<Event(st)>>, st, None, <<>>)
  \/ At(x, <<>>, st, None, <<st>>)

\* Where a call of request_approval can be.
Asking(x) ==
  LET row == "waiting_approval" IN
  \/ At(x, RequestSteps, None, None, <<>>)
  \/ At(x, <<Approval("pending"), Event(Waiting), Event("annotate")>>, row, None, <<>>)
  \/ At(x, <<Event(Waiting), Event("annotate")>>, row, "pending", <<>>)
  \/ At(x, <<Event("annotate")>>, row, "pending", <<Waiting>>)
  \/ At(x, <<>>, row, "pending", <<Waiting, "annotate">>)

\* Where a call of resolve_approval with d that leaves the task alone can be.
DecidingOn(x, d) ==
  \/ At(x, <<Pending, Approval(Ruling(d)), Event(d)>>, None, None, <<>>)
  \/ At(x, <<Approval(Ruling(d)), Event(d)>>, None, None, <<>>)
  \/ At(x, <<Event(d)>>, None, Ruling(d), <<>>)
  \/ At(x, <<>>, None, Ruling(d), <<d>>)

\* Where one that fails the task can be.
TimingOutOn(x, d) ==
  \/ At(x, <<Pending, Approval(Ruling(d)), Event(d), Task("failed")>>, None, None, <<>>)
  \/ At(x, <<Approval(Ruling(d)), Event(d), Task("failed")>>, None, None, <<>>)
  \/ At(x, <<Event(d), Task("failed")>>, None, Ruling(d), <<>>)
  \/ At(x, <<Task("failed")>>, None, Ruling(d), <<d>>)
  \/ At(x, <<>>, "failed", Ruling(d), <<d>>)

Moving(x)    == \E st \in TaskStates : MovingTo(x, st)
Deciding(x)  == \E d \in Decisions : DecidingOn(x, d)
TimingOut(x) == \E d \in Decisions \cap Timeouts : TimingOutOn(x, d)

Busy(x) == x.on \in Tasks /\ (Moving(x) \/ Asking(x) \/ Deciding(x) \/ TimingOut(x))

Placed == \A c \in Callers : tx[c] = NoTx \/ Busy(tx[c])

\* Past its check of the record, a call decides an approval that exists.
RecordExists ==
  \A c \in Callers :
    \/ tx[c].approval \notin {None, "pending"}
    \/ tx[c].todo # <<>> /\ Head1(c).do = "approval" /\ Head1(c).what # "pending"
    => approval[tx[c].on] # None

\* One transaction at a time holds events of the run, and those of a fixed id
\* are not in the log.
AreNew(c) ==
  tx[c].events # <<>> =>
    /\ \A d \in Callers \ {c} : tx[d].events = <<>>
    /\ \A i \in DOMAIN tx[c].events : tx[c].events[i] \in FixedIds =>
         Said(tx[c].on, {tx[c].events[i]}) = {}

EventsAreNew == \A c \in Callers : AreNew(c)

\* The inductive invariant.
IInv ==
  /\ TypeOK
  /\ Placed
  /\ RecordExists
  /\ EventsAreNew
  /\ WaitingMatchesRecord
  /\ LastDecisionRules
  /\ TaskStateIsLogged

-----------------------------------------------------------------------------
(* Constants                                                               *)

LEMMA RulingFacts ==
  ASSUME NEW d \in Decisions
  PROVE  /\ Ruling(d) \in {"granted", "denied", "timeout"}
         /\ d \in EventNames /\ d \in FixedIds /\ d \notin TaskStates \cup {Waiting, "annotate"}
         /\ Ruling(d) \in ApprovalStates \ {"pending"} /\ Ruling(d) # None
<1>1. d \in {"granted", "denied_abandon", "denied_alternate", "timeout_retry", "timeout"}
  BY DecisionsAssumption
<1>2. Ruling(d) \in {"granted", "denied", "timeout"}
  BY <1>1 DEF Ruling
<1>3. d \in FixedIds /\ d \in EventNames
  BY DEF FixedIds, EventNames
<1>4. d \notin TaskStates \cup {Waiting, "annotate"}
  BY <1>1 DEF TaskStates, Waiting
<1>5. Ruling(d) \in ApprovalStates \ {"pending"} /\ Ruling(d) # None
  BY <1>2, EATasksNoneAssumption DEF ApprovalStates
<1> QED BY <1>2, <1>3, <1>4, <1>5

LEMMA NoneFacts ==
  /\ None \notin TaskStates /\ None \notin ApprovalStates /\ None \notin Tasks
  /\ "pending" \in ApprovalStates /\ "waiting_approval" \in TaskStates
  /\ "failed" \in TaskStates /\ "draft" \in TaskStates
  /\ Waiting \in EventNames /\ "annotate" \in EventNames /\ Waiting \notin TaskStates
  /\ Waiting \in FixedIds
BY EATasksNoneAssumption DEF TaskStates, ApprovalStates, EventNames, FixedIds, Waiting

-----------------------------------------------------------------------------
(* The log                                                                 *)

LEMMA Concatenation ==
  ASSUME NEW S, NEW s \in Seq(S), NEW t \in Seq(S)
  PROVE  /\ s \o t \in Seq(S)
         /\ DOMAIN (s \o t) = 1..(Len(s) + Len(t))
         /\ \A i \in DOMAIN s : i \in 1..(Len(s) + Len(t)) /\ (s \o t)[i] = s[i]
         /\ \A k \in DOMAIN t :
              Len(s) + k \in 1..(Len(s) + Len(t)) /\ (s \o t)[Len(s) + k] = t[k]
         /\ \A i \in DOMAIN s, k \in DOMAIN t : i < Len(s) + k
BY ConcatProperties

\* The events of a transaction on task t are at the end of the log.
Adds(t, events) == log' = log \o [i \in DOMAIN events |-> [task |-> t, what |-> events[i]]]

\* What a commit adds to what the log says.
LEMMA SaidAfter ==
  ASSUME TypeOK, NEW t \in Tasks, NEW events \in Seq(EventNames), Adds(t, events)
  PROVE  /\ log' \in Seq(Entries)
         /\ \A i \in DOMAIN log : i \in DOMAIN log' /\ log'[i] = log[i]
         /\ \A k \in DOMAIN events :
              /\ Len(log) + k \in DOMAIN log'
              /\ log'[Len(log) + k] = [task |-> t, what |-> events[k]]
         /\ \A i \in DOMAIN log' : i \in DOMAIN log \/ \E k \in DOMAIN events : i = Len(log) + k
         /\ \A i \in DOMAIN log : \A k \in DOMAIN events : i < Len(log) + k
<1> DEFINE new == [i \in DOMAIN events |-> [task |-> t, what |-> events[i]]]
<1>1. log \in Seq(Entries) /\ Len(log) \in Nat /\ DOMAIN log = 1..Len(log)
  BY DEF TypeOK
<1>2. Len(events) \in Nat /\ DOMAIN events = 1..Len(events)
  OBVIOUS
<1>3. \A i \in DOMAIN events : events[i] \in EventNames
  OBVIOUS
<1>4. /\ new \in Seq(Entries) /\ Len(new) = Len(events) /\ DOMAIN new = 1..Len(events)
      /\ \A i \in DOMAIN events : new[i] = [task |-> t, what |-> events[i]]
  <2>1. \A i \in DOMAIN events : [task |-> t, what |-> events[i]] \in Entries
    BY <1>3 DEF Entries
  <2>2. new \in [1..Len(events) -> Entries]
    BY <1>2, <2>1
  <2>3. \A i \in DOMAIN events : new[i] = [task |-> t, what |-> events[i]]
    OBVIOUS
  <2> HIDE DEF new
  <2> QED BY <1>2, <2>2, <2>3
<1> HIDE DEF new
<1>5. log' = log \o new
  BY DEF new, Adds
<1>6. /\ log' \in Seq(Entries)
      /\ DOMAIN log' = 1..(Len(log) + Len(events))
      /\ \A i \in DOMAIN log : i \in DOMAIN log' /\ log'[i] = log[i]
      /\ \A k \in DOMAIN new : Len(log) + k \in DOMAIN log' /\ log'[Len(log) + k] = new[k]
      /\ \A i \in DOMAIN log, k \in DOMAIN new : i < Len(log) + k
  <2>1. /\ log \o new \in Seq(Entries)
        /\ DOMAIN (log \o new) = 1..(Len(log) + Len(new))
        /\ \A i \in DOMAIN log : i \in 1..(Len(log) + Len(new)) /\ (log \o new)[i] = log[i]
        /\ \A k \in DOMAIN new :
             Len(log) + k \in 1..(Len(log) + Len(new)) /\ (log \o new)[Len(log) + k] = new[k]
        /\ \A i \in DOMAIN log, k \in DOMAIN new : i < Len(log) + k
    BY <1>1, <1>4, Concatenation
  <2>2. Len(new) = Len(events)
    BY <1>4
  <2> QED BY <1>5, <2>1, <2>2
<1>10. \A i \in DOMAIN log' : i \in DOMAIN log \/ \E k \in DOMAIN events : i = Len(log) + k
  <2> TAKE i \in DOMAIN log'
  <2>1. CASE i <= Len(log)
    BY <1>1, <1>6, <2>1
  <2>2. CASE i > Len(log)
    <3>1. i - Len(log) \in DOMAIN events /\ i = Len(log) + (i - Len(log))
      BY <1>1, <1>2, <1>6, <2>2
    <3> QED BY <3>1
  <2> QED BY <1>1, <1>6, <2>1, <2>2
<1> QED BY <1>2, <1>4, <1>6, <1>10

\* The last word on a task that the commit does not speak of stays.
LEMMA WordsStay ==
  ASSUME TypeOK, NEW t \in Tasks, NEW events \in Seq(EventNames), Adds(t, events),
         NEW q \in Tasks, NEW names,
         q = t => \A k \in DOMAIN events : events[k] \notin names
  PROVE  /\ Said(q, names)' = Said(q, names)
         /\ \A word : LastWord(q, names, word)' <=> LastWord(q, names, word)
<1>1. /\ \A i \in DOMAIN log : i \in DOMAIN log' /\ log'[i] = log[i]
      /\ \A k \in DOMAIN events : log'[Len(log) + k] = [task |-> t, what |-> events[k]]
      /\ \A i \in DOMAIN log' : i \in DOMAIN log \/ \E k \in DOMAIN events : i = Len(log) + k
  BY SaidAfter
<1>2. Said(q, names) \subseteq Said(q, names)'
  BY <1>1 DEF Said
<1>3. ASSUME NEW i \in Said(q, names)' PROVE i \in Said(q, names)
  <2>1. i \in DOMAIN log' /\ log'[i].task = q /\ log'[i].what \in names
    BY <1>3 DEF Said
  <2>2. ASSUME NEW k \in DOMAIN events, i = Len(log) + k PROVE FALSE
    <3>1. log'[i] = [task |-> t, what |-> events[k]]
      BY <1>1, <2>2
    <3> QED BY <2>1, <3>1
  <2> QED BY <1>1, <2>1, <2>2 DEF Said
<1>4. Said(q, names)' = Said(q, names)
  BY <1>2, <1>3
<1>5. \A i \in Said(q, names) : log'[i] = log[i]
  BY <1>1 DEF Said
<1>6. ASSUME NEW word PROVE LastWord(q, names, word)' <=> LastWord(q, names, word)
  BY <1>4, <1>5 DEF LastWord
<1> QED BY <1>4, <1>6

\* Its own word becomes the last one.
LEMMA WordIsLast ==
  ASSUME TypeOK, NEW t \in Tasks, NEW events \in Seq(EventNames), Adds(t, events),
         NEW names, NEW k \in DOMAIN events, events[k] \in names,
         \A h \in DOMAIN events : events[h] \in names => h = k
  PROVE  /\ Said(t, names)' # {}
         /\ \A word : LastWord(t, names, word)' => word = events[k]
<1> DEFINE n == Len(log) + k
<1>0. /\ \A i \in DOMAIN log : i \in DOMAIN log' /\ log'[i] = log[i]
      /\ \A h \in DOMAIN events : /\ Len(log) + h \in DOMAIN log'
                                 /\ log'[Len(log) + h] = [task |-> t, what |-> events[h]]
      /\ \A i \in DOMAIN log' : i \in DOMAIN log \/ \E h \in DOMAIN events : i = Len(log) + h
  BY SaidAfter
<1>1. n \in Said(t, names)' /\ log'[n].what = events[k]
  <2>1. n \in DOMAIN log' /\ log'[n] = [task |-> t, what |-> events[k]]
    BY <1>0
  <2> QED BY <2>1 DEF Said
<1>2. ASSUME NEW i \in Said(t, names)', i \notin DOMAIN log PROVE i = n
  <2>1. i \in DOMAIN log' /\ log'[i].what \in names
    BY <1>2 DEF Said
  <2>2. PICK h \in DOMAIN events : i = Len(log) + h
    BY <1>0, <1>2, <2>1
  <2>3. log'[i] = [task |-> t, what |-> events[h]]
    BY <1>0, <2>2
  <2>4. h = k
    BY <2>1, <2>3
  <2> QED BY <2>2, <2>4
<1>3. \A i \in DOMAIN log : i < n /\ i \in Nat
  <2>1. DOMAIN log \subseteq Nat
    BY DEF TypeOK
  <2> QED BY <2>1, SaidAfter
<1>4. n \in Nat
  BY DEF TypeOK
<1> HIDE DEF n
<1>5. ASSUME NEW word, LastWord(t, names, word)' PROVE word = events[k]
  <2>1. PICK i \in Said(t, names)' : log'[i].what = word /\ \A j \in Said(t, names)' : j <= i
    BY <1>5 DEF LastWord
  <2>2. n <= i
    BY <1>1, <2>1
  <2>3. i = n
    BY <1>2, <1>3, <1>4, <2>2
  <2> QED BY <1>1, <2>1, <2>3
<1> QED BY <1>1, <1>5

-----------------------------------------------------------------------------
(* The statements                                                          *)

LEMMA AppendAdds ==
  ASSUME NEW S, NEW s \in Seq(S), NEW e \in S
  PROVE  \A i \in DOMAIN Append(s, e) :
           Append(s, e)[i] = e \/ (i \in DOMAIN s /\ Append(s, e)[i] = s[i])
<1> DEFINE t == Append(s, e)
           n == Len(s)
<1>1. n \in Nat /\ DOMAIN s = 1..n /\ DOMAIN t = 1..(n + 1) /\ t[n + 1] = e
      /\ \A i \in 1..n : t[i] = s[i]
  BY AppendProperties
<1> HIDE DEF t, n
<1>2. \A i \in DOMAIN t : i = n + 1 \/ i \in 1..n
  BY <1>1
<1>3. ASSUME NEW i \in DOMAIN t PROVE t[i] = e \/ (i \in DOMAIN s /\ t[i] = s[i])
  <2>1. CASE i = n + 1
    <3>1. t[i] = t[n + 1]
      BY <2>1, Zenon
    <3>2. t[n + 1] = e
      BY <1>1, Zenon
    <3> QED BY <3>1, <3>2, Zenon
  <2>2. CASE i \in 1..n
    BY <1>1, <2>2, Zenon
  <2> QED BY <1>2, <2>1, <2>2
<1> QED BY <1>3 DEF t

LEMMA AppendToOne == \A a, b : Append(<<a>>, b) = <<a, b>>
<1> TAKE a, b
<1> DEFINE s == Append(<<a>>, b)
           t == <<a, b>>
<1>1. <<a>> \in Seq({a, b}) /\ b \in {a, b} /\ Len(<<a>>) = 1 /\ <<a>>[1] = a
  OBVIOUS
<1>2. s \in Seq({a, b}) /\ Len(s) = 2 /\ s[1] = a /\ s[2] = b
  BY <1>1, AppendProperties
<1>3. t \in Seq({a, b}) /\ Len(t) = 2 /\ t[1] = a /\ t[2] = b
  OBVIOUS
<1> HIDE DEF s, t
<1>4. \A i \in 1..2 : s[i] = t[i]
  BY <1>2, <1>3
<1>5. s = t
  BY <1>2, <1>3, <1>4, SeqEqual
<1> QED BY <1>5 DEF s, t

LEMMA JoinOne == \A a, b, c, d : <<a, b, c>> \o <<d>> = <<a, b, c, d>>
<1> TAKE a, b, c, d
<1> DEFINE S == {a, b, c, d}
           s == <<a, b, c>> \o <<d>>
           t == <<a, b, c, d>>
<1>1. <<a, b, c>> \in Seq(S) /\ <<d>> \in Seq(S) /\ Len(<<a, b, c>>) = 3 /\ Len(<<d>>) = 1
  OBVIOUS
<1>2. /\ s \in Seq(S) /\ Len(s) = 4
      /\ \A i \in 1..4 : s[i] = IF i <= 3 THEN <<a, b, c>>[i] ELSE <<d>>[i - 3]
  BY <1>1, ConcatProperties
<1>3. s[1] = a /\ s[2] = b /\ s[3] = c /\ s[4] = d
  BY <1>2
<1>4. t \in Seq(S) /\ Len(t) = 4 /\ t[1] = a /\ t[2] = b /\ t[3] = c /\ t[4] = d
  OBVIOUS
<1> HIDE DEF s, t
<1>5. \A i \in 1..4 : s[i] = t[i]
  BY <1>3, <1>4
<1>6. s = t
  BY <1>2, <1>4, <1>5, SeqEqual
<1> QED BY <1>6 DEF s, t

LEMMA Lists ==
  /\ \A a : Head(<<a>>) = a /\ Tail(<<a>>) = <<>>
  /\ \A a, b : Head(<<a, b>>) = a /\ Tail(<<a, b>>) = <<b>>
  /\ \A a, b, c : Head(<<a, b, c>>) = a /\ Tail(<<a, b, c>>) = <<b, c>>
  /\ \A a, b, c, d : Head(<<a, b, c, d>>) = a /\ Tail(<<a, b, c, d>>) = <<b, c, d>>
  /\ \A a : Append(<<>>, a) = <<a>>
  /\ \A a, b : Append(<<a>>, b) = <<a, b>>
<1>1. \A a : Head(<<a>>) = a /\ Tail(<<a>>) = <<>> /\ Append(<<>>, a) = <<a>>
  OBVIOUS
<1>2. \A a, b : Head(<<a, b>>) = a /\ Tail(<<a, b>>) = <<b>>
  OBVIOUS
<1>3. \A a, b, c : Head(<<a, b, c>>) = a /\ Tail(<<a, b, c>>) = <<b, c>>
  OBVIOUS
<1>4. \A a, b, c, d : Head(<<a, b, c, d>>) = a /\ Tail(<<a, b, c, d>>) = <<b, c, d>>
  OBVIOUS
<1> QED BY <1>1, <1>2, <1>3, <1>4, AppendToOne

LEMMA Kinds ==
  /\ \A st : Task(st).do = "task" /\ Task(st).what = st
  /\ \A st : Approval(st).do = "approval" /\ Approval(st).what = st
  /\ \A name : Event(name).do = "event" /\ Event(name).what = name
  /\ Pending.do = "pending"
BY DEF Task, Approval, Event, Pending

\* A transaction after its next statement.
Effect(x) ==
  LET step == Head(x.todo) IN
  [x EXCEPT !.todo = Tail(@),
            !.task = IF step.do = "task" THEN step.what ELSE @,
            !.approval = IF step.do = "approval" THEN step.what ELSE @,
            !.events = IF step.do = "event" THEN Append(@, step.what) ELSE @]

\* The statement at the head of the list decides what is next.
LEMMA AfterTask ==
  ASSUME NEW x \in Transactions, NEW todo, NEW row, NEW record, NEW events, NEW st,
         At(x, todo, row, record, events), Head(todo) = Task(st)
  PROVE  At(Effect(x), Tail(todo), st, record, events)
BY Kinds DEF Effect, Transactions, At

LEMMA AfterApproval ==
  ASSUME NEW x \in Transactions, NEW todo, NEW row, NEW record, NEW events, NEW st,
         At(x, todo, row, record, events), Head(todo) = Approval(st)
  PROVE  At(Effect(x), Tail(todo), row, st, events)
BY Kinds DEF Effect, Transactions, At

LEMMA AfterEvent ==
  ASSUME NEW x \in Transactions, NEW todo, NEW row, NEW record, NEW events, NEW name,
         At(x, todo, row, record, events), Head(todo) = Event(name)
  PROVE  At(Effect(x), Tail(todo), row, record, Append(events, name))
BY Kinds DEF Effect, Transactions, At

LEMMA AfterPending ==
  ASSUME NEW x \in Transactions, NEW todo, NEW row, NEW record, NEW events,
         At(x, todo, row, record, events), Head(todo) = Pending
  PROVE  At(Effect(x), Tail(todo), row, record, events)
BY Kinds DEF Effect, Transactions, At

\* The next statement is not the save of a decision, or follows its check.
NextIsChecked(x) ==
  Effect(x).todo # <<>> /\ Head(Effect(x).todo).do = "approval"
    => Head(Effect(x).todo).what = "pending" \/ Head(x.todo).do = "pending"

LEMMA MovingAdvances ==
  ASSUME NEW x \in Transactions, NEW st, MovingTo(x, st), x.todo # <<>>
  PROVE  MovingTo(Effect(x), st) /\ NextIsChecked(x)
<1> DEFINE y == Effect(x)
<1>1. \/ At(x, <<Task(st), Event(st)>>, None, None, <<>>)
      \/ At(x, <<Event(st)>>, st, None, <<>>)
  BY DEF MovingTo, At
<1> HIDE DEF y
<1>2. CASE At(x, <<Task(st), Event(st)>>, None, None, <<>>)
  <2> DEFINE todo == <<Task(st), Event(st)>>
  <2>1. /\ Head(todo) = Task(st)
        /\ Tail(todo) = <<Event(st)>>
    BY Lists
  <2>2. At(x, todo, None, None, <<>>)
    BY <1>2
  <2> HIDE DEF todo
  <2>3. At(y, <<Event(st)>>, st, None, <<>>)
    BY <2>1, <2>2, AfterTask DEF y
  <2>4. Head(y.todo).do # "approval"
    BY <2>3, Lists, Kinds DEF At
  <2> QED BY <2>3, <2>4 DEF MovingTo, NextIsChecked, y
<1>3. CASE At(x, <<Event(st)>>, st, None, <<>>)
  <2> DEFINE todo == <<Event(st)>>
  <2>1. /\ Head(todo) = Event(st)
        /\ Tail(todo) = <<>>
        /\ Append(<<>>, st) = <<st>>
    BY Lists
  <2>2. At(x, todo, st, None, <<>>)
    BY <1>3
  <2> HIDE DEF todo
  <2>3. At(y, <<>>, st, None, <<st>>)
    BY <2>1, <2>2, AfterEvent DEF y
  <2>4. y.todo = <<>>
    BY <2>3 DEF At
  <2> QED BY <2>3, <2>4 DEF MovingTo, NextIsChecked, y
<1> QED BY <1>1, <1>2, <1>3

LEMMA AskingAdvances ==
  ASSUME NEW x \in Transactions, Asking(x), x.todo # <<>>
  PROVE  Asking(Effect(x)) /\ NextIsChecked(x)
<1> DEFINE y == Effect(x)
           row == "waiting_approval"
<1>1. \/ At(x, RequestSteps, None, None, <<>>)
      \/ At(x, <<Approval("pending"), Event(Waiting), Event("annotate")>>, row, None, <<>>)
      \/ At(x, <<Event(Waiting), Event("annotate")>>, row, "pending", <<>>)
      \/ At(x, <<Event("annotate")>>, row, "pending", <<Waiting>>)
  BY DEF Asking, At
<1> HIDE DEF y, row
<1>2. CASE At(x, RequestSteps, None, None, <<>>)
  <2> DEFINE todo == RequestSteps
  <2>1. /\ Head(todo) = Task(row)
        /\ Tail(todo) = <<Approval("pending"), Event(Waiting), Event("annotate")>>
    BY Lists DEF RequestSteps, Waiting, row
  <2>2. At(x, todo, None, None, <<>>)
    BY <1>2
  <2> HIDE DEF todo
  <2>3. At(y, <<Approval("pending"), Event(Waiting), Event("annotate")>>, row, None, <<>>)
    BY <2>1, <2>2, AfterTask DEF y
  <2>4. Head(y.todo).what = "pending"
    BY <2>3, Lists, Kinds DEF At
  <2> QED BY <2>3, <2>4 DEF Asking, NextIsChecked, y, row
<1>3. CASE At(x, <<Approval("pending"), Event(Waiting), Event("annotate")>>, row, None, <<>>)
  <2> DEFINE todo == <<Approval("pending"), Event(Waiting), Event("annotate")>>
  <2>1. /\ Head(todo) = Approval("pending")
        /\ Tail(todo) = <<Event(Waiting), Event("annotate")>>
    BY Lists
  <2>2. At(x, todo, row, None, <<>>)
    BY <1>3
  <2> HIDE DEF todo
  <2>3. At(y, <<Event(Waiting), Event("annotate")>>, row, "pending", <<>>)
    BY <2>1, <2>2, AfterApproval DEF y
  <2>4. Head(y.todo).do # "approval"
    BY <2>3, Lists, Kinds DEF At
  <2> QED BY <2>3, <2>4 DEF Asking, NextIsChecked, y, row
<1>4. CASE At(x, <<Event(Waiting), Event("annotate")>>, row, "pending", <<>>)
  <2> DEFINE todo == <<Event(Waiting), Event("annotate")>>
  <2>1. /\ Head(todo) = Event(Waiting)
        /\ Tail(todo) = <<Event("annotate")>>
        /\ Append(<<>>, Waiting) = <<Waiting>>
    BY Lists
  <2>2. At(x, todo, row, "pending", <<>>)
    BY <1>4
  <2> HIDE DEF todo
  <2>3. At(y, <<Event("annotate")>>, row, "pending", <<Waiting>>)
    BY <2>1, <2>2, AfterEvent DEF y
  <2>4. Head(y.todo).do # "approval"
    BY <2>3, Lists, Kinds DEF At
  <2> QED BY <2>3, <2>4 DEF Asking, NextIsChecked, y, row
<1>5. CASE At(x, <<Event("annotate")>>, row, "pending", <<Waiting>>)
  <2> DEFINE todo == <<Event("annotate")>>
  <2>1. /\ Head(todo) = Event("annotate")
        /\ Tail(todo) = <<>>
        /\ Append(<<Waiting>>, "annotate") = <<Waiting, "annotate">>
    BY Lists
  <2>2. At(x, todo, row, "pending", <<Waiting>>)
    BY <1>5
  <2> HIDE DEF todo
  <2>3. At(y, <<>>, row, "pending", <<Waiting, "annotate">>)
    BY <2>1, <2>2, AfterEvent DEF y
  <2>4. y.todo = <<>>
    BY <2>3 DEF At
  <2> QED BY <2>3, <2>4 DEF Asking, NextIsChecked, y, row
<1> QED BY <1>1, <1>2, <1>3, <1>4, <1>5

LEMMA DecidingAdvances ==
  ASSUME NEW x \in Transactions, NEW d, DecidingOn(x, d), x.todo # <<>>
  PROVE  DecidingOn(Effect(x), d) /\ NextIsChecked(x)
<1> DEFINE y == Effect(x)
<1>1. \/ At(x, <<Pending, Approval(Ruling(d)), Event(d)>>, None, None, <<>>)
      \/ At(x, <<Approval(Ruling(d)), Event(d)>>, None, None, <<>>)
      \/ At(x, <<Event(d)>>, None, Ruling(d), <<>>)
  BY DEF DecidingOn, At
<1> HIDE DEF y
<1>2. CASE At(x, <<Pending, Approval(Ruling(d)), Event(d)>>, None, None, <<>>)
  <2> DEFINE todo == <<Pending, Approval(Ruling(d)), Event(d)>>
  <2>1. /\ Head(todo) = Pending
        /\ Tail(todo) = <<Approval(Ruling(d)), Event(d)>>
    BY Lists
  <2>2. At(x, todo, None, None, <<>>)
    BY <1>2
  <2> HIDE DEF todo
  <2>3. At(y, <<Approval(Ruling(d)), Event(d)>>, None, None, <<>>)
    BY <2>1, <2>2, AfterPending DEF y
  <2>4. Head(x.todo).do = "pending"
    BY <2>1, <2>2, Kinds DEF At
  <2> QED BY <2>3, <2>4 DEF DecidingOn, NextIsChecked, y
<1>3. CASE At(x, <<Approval(Ruling(d)), Event(d)>>, None, None, <<>>)
  <2> DEFINE todo == <<Approval(Ruling(d)), Event(d)>>
  <2>1. /\ Head(todo) = Approval(Ruling(d))
        /\ Tail(todo) = <<Event(d)>>
    BY Lists
  <2>2. At(x, todo, None, None, <<>>)
    BY <1>3
  <2> HIDE DEF todo
  <2>3. At(y, <<Event(d)>>, None, Ruling(d), <<>>)
    BY <2>1, <2>2, AfterApproval DEF y
  <2>4. Head(y.todo).do # "approval"
    BY <2>3, Lists, Kinds DEF At
  <2> QED BY <2>3, <2>4 DEF DecidingOn, NextIsChecked, y
<1>4. CASE At(x, <<Event(d)>>, None, Ruling(d), <<>>)
  <2> DEFINE todo == <<Event(d)>>
  <2>1. /\ Head(todo) = Event(d)
        /\ Tail(todo) = <<>>
        /\ Append(<<>>, d) = <<d>>
    BY Lists
  <2>2. At(x, todo, None, Ruling(d), <<>>)
    BY <1>4
  <2> HIDE DEF todo
  <2>3. At(y, <<>>, None, Ruling(d), <<d>>)
    BY <2>1, <2>2, AfterEvent DEF y
  <2>4. y.todo = <<>>
    BY <2>3 DEF At
  <2> QED BY <2>3, <2>4 DEF DecidingOn, NextIsChecked, y
<1> QED BY <1>1, <1>2, <1>3, <1>4

LEMMA TimingOutAdvances ==
  ASSUME NEW x \in Transactions, NEW d, TimingOutOn(x, d), x.todo # <<>>
  PROVE  TimingOutOn(Effect(x), d) /\ NextIsChecked(x)
<1> DEFINE y == Effect(x)
<1>1. \/ At(x, <<Pending, Approval(Ruling(d)), Event(d), Task("failed")>>, None, None, <<>>)
      \/ At(x, <<Approval(Ruling(d)), Event(d), Task("failed")>>, None, None, <<>>)
      \/ At(x, <<Event(d), Task("failed")>>, None, Ruling(d), <<>>)
      \/ At(x, <<Task("failed")>>, None, Ruling(d), <<d>>)
  BY DEF TimingOutOn, At
<1> HIDE DEF y
<1>2. CASE At(x, <<Pending, Approval(Ruling(d)), Event(d), Task("failed")>>, None, None, <<>>)
  <2> DEFINE todo == <<Pending, Approval(Ruling(d)), Event(d), Task("failed")>>
  <2>1. /\ Head(todo) = Pending
        /\ Tail(todo) = <<Approval(Ruling(d)), Event(d), Task("failed")>>
    BY Lists
  <2>2. At(x, todo, None, None, <<>>)
    BY <1>2
  <2> HIDE DEF todo
  <2>3. At(y, <<Approval(Ruling(d)), Event(d), Task("failed")>>, None, None, <<>>)
    BY <2>1, <2>2, AfterPending DEF y
  <2>4. Head(x.todo).do = "pending"
    BY <2>1, <2>2, Kinds DEF At
  <2> QED BY <2>3, <2>4 DEF TimingOutOn, NextIsChecked, y
<1>3. CASE At(x, <<Approval(Ruling(d)), Event(d), Task("failed")>>, None, None, <<>>)
  <2> DEFINE todo == <<Approval(Ruling(d)), Event(d), Task("failed")>>
  <2>1. /\ Head(todo) = Approval(Ruling(d))
        /\ Tail(todo) = <<Event(d), Task("failed")>>
    BY Lists
  <2>2. At(x, todo, None, None, <<>>)
    BY <1>3
  <2> HIDE DEF todo
  <2>3. At(y, <<Event(d), Task("failed")>>, None, Ruling(d), <<>>)
    BY <2>1, <2>2, AfterApproval DEF y
  <2>4. Head(y.todo).do # "approval"
    BY <2>3, Lists, Kinds DEF At
  <2> QED BY <2>3, <2>4 DEF TimingOutOn, NextIsChecked, y
<1>4. CASE At(x, <<Event(d), Task("failed")>>, None, Ruling(d), <<>>)
  <2> DEFINE todo == <<Event(d), Task("failed")>>
  <2>1. /\ Head(todo) = Event(d)
        /\ Tail(todo) = <<Task("failed")>>
        /\ Append(<<>>, d) = <<d>>
    BY Lists
  <2>2. At(x, todo, None, Ruling(d), <<>>)
    BY <1>4
  <2> HIDE DEF todo
  <2>3. At(y, <<Task("failed")>>, None, Ruling(d), <<d>>)
    BY <2>1, <2>2, AfterEvent DEF y
  <2>4. Head(y.todo).do # "approval"
    BY <2>3, Lists, Kinds DEF At
  <2> QED BY <2>3, <2>4 DEF TimingOutOn, NextIsChecked, y
<1>5. CASE At(x, <<Task("failed")>>, None, Ruling(d), <<d>>)
  <2> DEFINE todo == <<Task("failed")>>
  <2>1. /\ Head(todo) = Task("failed")
        /\ Tail(todo) = <<>>
    BY Lists
  <2>2. At(x, todo, None, Ruling(d), <<d>>)
    BY <1>5
  <2> HIDE DEF todo
  <2>3. At(y, <<>>, "failed", Ruling(d), <<d>>)
    BY <2>1, <2>2, AfterTask DEF y
  <2>4. y.todo = <<>>
    BY <2>3 DEF At
  <2> QED BY <2>3, <2>4 DEF TimingOutOn, NextIsChecked, y
<1> QED BY <1>1, <1>2, <1>3, <1>4, <1>5

LEMMA BusyAdvances ==
  ASSUME NEW x \in Transactions, Busy(x), x.todo # <<>>
  PROVE  Busy(Effect(x)) /\ NextIsChecked(x)
<1>1. Effect(x).on = x.on
  BY DEF Effect, Transactions
<1>2. CASE Moving(x)
  BY <1>1, <1>2, MovingAdvances DEF Moving, Busy
<1>3. CASE Asking(x)
  BY <1>1, <1>3, AskingAdvances DEF Busy
<1>4. CASE Deciding(x)
  BY <1>1, <1>4, DecidingAdvances DEF Deciding, Busy
<1>5. CASE TimingOut(x)
  BY <1>1, <1>5, TimingOutAdvances DEF TimingOut, Busy
<1> QED BY <1>2, <1>3, <1>4, <1>5 DEF Busy

-----------------------------------------------------------------------------
(* The steps                                                               *)

\* The statements of a call.
Act(c) == SaveTask(c) \/ SaveApproval(c) \/ CheckPending(c) \/ AppendEvent(c)

Same == UNCHANGED <<task, approval, log>>

LEMMA EffectTypes ==
  ASSUME NEW x \in Transactions, Busy(x), x.todo # <<>>
  PROVE  Effect(x) \in Transactions
<1>1. /\ Head(x.todo) \in Statements /\ Tail(x.todo) \in Seq(Statements)
  BY DEF Transactions
<1>2. /\ Head(x.todo).do = "task" => Head(x.todo).what \in TaskStates
      /\ Head(x.todo).do = "approval" => Head(x.todo).what \in ApprovalStates
      /\ Head(x.todo).do = "event" => Head(x.todo).what \in EventNames
  BY <1>1 DEF Statements, Pending
<1> DEFINE step == Head(x.todo)
<1>3. step.do = "event" => Append(x.events, step.what) \in Seq(EventNames)
  BY <1>2 DEF Transactions
<1> QED BY <1>1, <1>2, <1>3 DEF Effect, Transactions

LEMMA ActIsEffect ==
  ASSUME TypeOK, Placed, NEW c \in Callers, Act(c)
  PROVE  /\ Busy(tx[c]) /\ tx[c].todo # <<>> /\ tx[c] \in Transactions
         /\ tx' = [tx EXCEPT ![c] = Effect(tx[c])]
         /\ Same
<1>1. tx \in [Callers -> Transactions] /\ tx[c] \in Transactions /\ tx[c].todo # <<>>
  BY DEF TypeOK, Act, SaveTask, SaveApproval, CheckPending, AppendEvent, AtStep
<1>2. Busy(tx[c])
  BY <1>1 DEF Placed, NoTx
<1>3. tx' = [tx EXCEPT ![c] = Effect(tx[c])]
  BY <1>1 DEF Act, SaveTask, SaveApproval, CheckPending, AppendEvent, AtStep, Head1, Effect,
              Transactions
<1>4. Same
  BY DEF Act, SaveTask, SaveApproval, CheckPending, AppendEvent, Same
<1> QED BY <1>1, <1>2, <1>3, <1>4

\* Where the statements of a call begin.
Fresh(x) ==
  /\ x \in Transactions /\ Busy(x) /\ x.approval = None /\ x.events = <<>>
  /\ Head(x.todo).do # "approval"

\* What resolve_approval is to do.
Deciders(d) ==
  {<<Pending, Approval(Ruling(d)), Event(d)>>}
  \cup IF d \in Timeouts THEN {<<Pending, Approval(Ruling(d)), Event(d), Task("failed")>>} ELSE {}

Begun(t, steps) == [NoTx EXCEPT !.on = t, !.todo = steps]

LEMMA BegunFacts ==
  ASSUME NEW t \in Tasks, NEW steps \in Seq(Statements)
  PROVE  /\ Begun(t, steps) \in Transactions /\ Begun(t, steps).on = t
         /\ At(Begun(t, steps), steps, None, None, <<>>)
<1>1. /\ NoTx \in Transactions /\ NoTx.task = None /\ NoTx.approval = None
      /\ NoTx.events = <<>>
  <2>1. <<>> \in Seq(EventNames) /\ <<>> \in Seq(Statements)
    OBVIOUS
  <2> QED BY <2>1 DEF NoTx, Transactions
<1>2. Begun(t, steps) \in Transactions
  BY <1>1 DEF Begun, Transactions
<1>3. /\ Begun(t, steps).on = t /\ Begun(t, steps).todo = steps
      /\ Begun(t, steps).task = NoTx.task /\ Begun(t, steps).approval = NoTx.approval
      /\ Begun(t, steps).events = NoTx.events
  BY <1>1 DEF Begun, Transactions
<1> QED BY <1>1, <1>2, <1>3 DEF At

LEMMA MoveIsFresh ==
  ASSUME NEW t \in Tasks, NEW st \in TaskStates
  PROVE  Fresh(Begun(t, TransitionSteps(st)))
<1> DEFINE x == Begun(t, TransitionSteps(st))
<1>1. Task(st) \in Statements /\ Event(st) \in Statements
  BY DEF Task, Event, Statements, EventNames
<1>2. TransitionSteps(st) \in Seq(Statements) /\ Head(TransitionSteps(st)) = Task(st)
  BY <1>1 DEF TransitionSteps
<1>3. x \in Transactions /\ x.on = t /\ At(x, TransitionSteps(st), None, None, <<>>)
  BY <1>2, BegunFacts
<1> HIDE DEF x
<1>4. Moving(x)
  BY <1>3 DEF Moving, MovingTo, TransitionSteps
<1>5. x.approval = None /\ x.events = <<>> /\ Head(x.todo).do # "approval"
  BY <1>2, <1>3, Kinds DEF At
<1> QED BY <1>3, <1>4, <1>5 DEF Fresh, Busy, x

LEMMA AskIsFresh ==
  ASSUME NEW t \in Tasks
  PROVE  Fresh(Begun(t, RequestSteps))
<1> DEFINE x == Begun(t, RequestSteps)
<1>1. /\ Task("waiting_approval") \in Statements /\ Approval("pending") \in Statements
      /\ Event("approval_waiting") \in Statements /\ Event("annotate") \in Statements
  BY NoneFacts DEF Task, Approval, Event, Statements, Waiting
<1>2. RequestSteps \in Seq(Statements) /\ Head(RequestSteps) = Task("waiting_approval")
  BY <1>1 DEF RequestSteps
<1>3. x \in Transactions /\ x.on = t /\ At(x, RequestSteps, None, None, <<>>)
  BY <1>2, BegunFacts
<1> HIDE DEF x
<1>4. Asking(x)
  BY <1>3 DEF Asking
<1>5. x.approval = None /\ x.events = <<>> /\ Head(x.todo).do # "approval"
  BY <1>2, <1>3, Kinds DEF At
<1> QED BY <1>3, <1>4, <1>5 DEF Fresh, Busy, x

LEMMA DecideIsFresh ==
  ASSUME NEW t \in Tasks, NEW d \in Decisions, NEW steps \in Deciders(d)
  PROVE  Fresh(Begun(t, steps))
<1> DEFINE x == Begun(t, steps)
<1>1. /\ Pending \in Statements /\ Approval(Ruling(d)) \in Statements
      /\ Event(d) \in Statements /\ Task("failed") \in Statements
  BY NoneFacts, RulingFacts DEF Task, Approval, Event, Statements
<1>2. \/ steps = <<Pending, Approval(Ruling(d)), Event(d)>>
      \/ steps = <<Pending, Approval(Ruling(d)), Event(d), Task("failed")>> /\ d \in Timeouts
  BY DEF Deciders
<1>3. steps \in Seq(Statements) /\ Head(steps) = Pending
  <2>1. CASE steps = <<Pending, Approval(Ruling(d)), Event(d)>>
    BY <1>1, <2>1
  <2>2. CASE steps = <<Pending, Approval(Ruling(d)), Event(d), Task("failed")>>
    BY <1>1, <2>2
  <2> QED BY <1>2, <2>1, <2>2
<1>4. x \in Transactions /\ x.on = t /\ At(x, steps, None, None, <<>>)
  BY <1>3, BegunFacts
<1> HIDE DEF x
<1>5. Deciding(x) \/ TimingOut(x)
  BY <1>2, <1>4 DEF Deciding, DecidingOn, TimingOut, TimingOutOn
<1>6. x.approval = None /\ x.events = <<>> /\ Head(x.todo).do # "approval"
  BY <1>3, <1>4, Kinds DEF At
<1> QED BY <1>4, <1>5, <1>6 DEF Fresh, Busy, x

LEMMA ResolveStepsFacts ==
  ASSUME NEW d \in Decisions, NEW seen
  PROVE  ResolveSteps(d, seen) \in Deciders(d)
<1> DEFINE rule == <<Pending, Approval(Ruling(d)), Event(d)>>
<1>1. CASE d \in Timeouts /\ seen # "failed"
  <2>1. PostState(d, seen) = "failed"
    BY <1>1 DEF PostState, Timeouts
  <2>2. ResolveSteps(d, seen) = rule \o <<Task("failed")>>
    BY <1>1, <2>1 DEF ResolveSteps
  <2> QED BY <1>1, <2>2, JoinOne DEF Deciders
<1>2. CASE ~(d \in Timeouts /\ seen # "failed")
  <2>1. PostState(d, seen) = seen
    BY <1>2 DEF PostState, Timeouts
  <2>2. ResolveSteps(d, seen) = rule \o <<>>
    BY <2>1 DEF ResolveSteps
  <2>3. rule \o <<>> = rule
    <3>1. rule \in Seq({Pending, Approval(Ruling(d)), Event(d)})
      OBVIOUS
    <3> HIDE DEF rule
    <3> QED BY <3>1, ConcatEmptySeq
  <2> QED BY <2>2, <2>3 DEF Deciders
<1> QED BY <1>1, <1>2

\* A call begins.
Begin(c) ==
  \E t \in Tasks :
    \/ CreateTask(c, t)
    \/ \E st \in TaskStates : TransitionTask(c, t, st)
    \/ RequestApproval(c, t)
    \/ \E d \in Decisions : ResolveApproval(c, t, d)

LEMMA BeginIsFresh ==
  ASSUME TypeOK, NEW c \in Callers, Begin(c)
  PROVE  /\ Same /\ closed' = closed
         /\ \E x : Fresh(x) /\ tx' = [tx EXCEPT ![c] = x]
<1>1. ASSUME NEW t \in Tasks, NEW verb, NEW steps, Call(c, verb, t, steps)
      PROVE  Same /\ closed' = closed /\ tx' = [tx EXCEPT ![c] = Begun(t, steps)]
  BY <1>1 DEF Call, Same, Begun
<1>2. PICK t \in Tasks :
        \/ CreateTask(c, t)
        \/ \E st \in TaskStates : TransitionTask(c, t, st)
        \/ RequestApproval(c, t)
        \/ \E d \in Decisions : ResolveApproval(c, t, d)
  BY DEF Begin
<1>3. CASE CreateTask(c, t)
  BY <1>1, <1>3, MoveIsFresh, NoneFacts DEF CreateTask, CreateSteps
<1>4. ASSUME NEW st \in TaskStates, TransitionTask(c, t, st)
      PROVE  \E x : Fresh(x) /\ Same /\ closed' = closed /\ tx' = [tx EXCEPT ![c] = x]
  BY <1>1, <1>4, MoveIsFresh DEF TransitionTask
<1>5. CASE RequestApproval(c, t)
  BY <1>1, <1>5, AskIsFresh DEF RequestApproval
<1>6. ASSUME NEW d \in Decisions, ResolveApproval(c, t, d)
      PROVE  \E x : Fresh(x) /\ Same /\ closed' = closed /\ tx' = [tx EXCEPT ![c] = x]
  BY <1>1, <1>6, DecideIsFresh, ResolveStepsFacts DEF ResolveApproval
<1> QED BY <1>2, <1>3, <1>4, <1>5, <1>6

-----------------------------------------------------------------------------
(* The invariant                                                           *)

LEMMA InitIInv == Init => IInv
<1> SUFFICES ASSUME Init PROVE IInv
  OBVIOUS
<1>1. /\ NoTx \in Transactions /\ NoTx.approval = None /\ NoTx.events = <<>> /\ NoTx.todo = <<>>
  <2>1. <<>> \in Seq(EventNames) /\ <<>> \in Seq(Statements)
    OBVIOUS
  <2> QED BY <2>1 DEF NoTx, Transactions
<1>2. \A c \in Callers : tx[c] = NoTx
  BY DEF Init
<1>3. TypeOK
  <2>1. log \in Seq(Entries)
    BY DEF Init
  <2> HIDE DEF NoTx
  <2> QED BY <1>1, <2>1 DEF Init, TypeOK
<1>4. \A t, names : Said(t, names) = {} /\ \A word : ~LastWord(t, names, word)
  <2>1. DOMAIN log = {}
    BY DEF Init
  <2> QED BY <2>1 DEF Said, LastWord
<1>5. \A t \in Tasks : approval[t] = None
  BY DEF Init
<1> QED BY <1>1, <1>2, <1>3, <1>4, <1>5
        DEF IInv, Placed, RecordExists, EventsAreNew, AreNew, WaitingMatchesRecord,
            LastDecisionRules, TaskStateIsLogged

\* What the transaction of c must satisfy for the invariant.
Decent(x) ==
  /\ x \in Transactions /\ (x = NoTx \/ Busy(x))
  /\ \/ x.approval \notin {None, "pending"}
     \/ x.todo # <<>> /\ Head(x.todo).do = "approval" /\ Head(x.todo).what # "pending"
     => approval[x.on] # None

NewEvents(c, x) ==
  x.events # <<>> =>
    /\ \A d \in Callers \ {c} : tx[d].events = <<>>
    /\ \A i \in DOMAIN x.events : x.events[i] \in FixedIds => Said(x.on, {x.events[i]}) = {}

LEMMA SameKeepsIInv ==
  ASSUME IInv, NEW c \in Callers, NEW x, Decent(x), NewEvents(c, x),
         tx' = [tx EXCEPT ![c] = x], Same, closed' \in BOOLEAN
  PROVE  IInv'
<1>1. /\ tx'[c] = x /\ \A d \in Callers \ {c} : tx'[d] = tx[d]
      /\ log' = log /\ approval' = approval /\ task' = task
  BY DEF IInv, TypeOK, Same
<1>2. TypeOK'
  BY <1>1 DEF IInv, TypeOK, Decent
<1>3. Placed'
  BY <1>1 DEF IInv, Placed, Decent
<1>4. RecordExists'
  BY <1>1 DEF IInv, RecordExists, Decent, Head1
<1>5. \A q, names : Said(q, names)' = Said(q, names)
  BY <1>1 DEF Said
<1>6. EventsAreNew'
  <2> SUFFICES ASSUME NEW d \in Callers PROVE AreNew(d)'
    BY DEF EventsAreNew
  <2>1. CASE d = c
    BY <1>1, <2>1 DEF NewEvents, AreNew, Said
  <2>2. CASE d # c /\ tx[d].events # <<>>
    <3>1. AreNew(d)
      BY DEF IInv, EventsAreNew
    <3>2. x.events = <<>>
      BY <2>2 DEF NewEvents
    <3> QED BY <1>1, <2>2, <3>1, <3>2 DEF AreNew, Said
  <2>3. CASE d # c /\ tx[d].events = <<>>
    BY <1>1, <2>3 DEF AreNew
  <2> QED BY <2>1, <2>2, <2>3
<1>7. WaitingMatchesRecord'
  BY <1>1, <1>5 DEF IInv, WaitingMatchesRecord
<1>8. LastDecisionRules'
  BY <1>1 DEF IInv, LastDecisionRules, LastWord, Said
<1>9. TaskStateIsLogged'
  BY <1>1 DEF IInv, TaskStateIsLogged, LastWord, Said
<1> QED BY <1>2, <1>3, <1>4, <1>6, <1>7, <1>8, <1>9 DEF IInv

LEMMA BeginKeepsIInv ==
  ASSUME IInv, NEW c \in Callers, Begin(c)
  PROVE  IInv'
<1>1. PICK x : /\ Same /\ closed' = closed
               /\ Fresh(x) /\ tx' = [tx EXCEPT ![c] = x]
  BY BeginIsFresh DEF IInv
<1>2. Decent(x) /\ NewEvents(c, x)
  BY <1>1 DEF Fresh, Decent, NewEvents
<1> QED BY <1>1, <1>2, SameKeepsIInv DEF IInv, TypeOK

LEMMA ActKeepsIInv ==
  ASSUME IInv, NEW c \in Callers, Act(c)
  PROVE  IInv'
<1> DEFINE old == tx[c]
           x == Effect(tx[c])
<1>1. /\ Busy(old) /\ old.todo # <<>> /\ old \in Transactions
      /\ tx' = [tx EXCEPT ![c] = x] /\ Same
  BY ActIsEffect DEF IInv
<1>2. /\ x \in Transactions /\ Busy(x) /\ NextIsChecked(old)
  BY <1>1, EffectTypes, BusyAdvances
<1>3. /\ x.on = old.on /\ x.todo = Tail(old.todo)
      /\ x.approval = IF Head(old.todo).do = "approval" THEN Head(old.todo).what ELSE old.approval
      /\ x.events = IF Head(old.todo).do = "event" THEN Append(old.events, Head(old.todo).what)
                    ELSE old.events
  BY <1>1 DEF Effect, Transactions
<1>4. Head(old.todo).do = "pending" => approval[old.on] # None
  BY <1>1, NoneFacts DEF Act, SaveTask, SaveApproval, CheckPending, AppendEvent, AtStep, Head1
<1> HIDE DEF old, x
<1>5. x.approval \notin {None, "pending"} => approval[x.on] # None
  BY <1>1, <1>3 DEF IInv, RecordExists, Head1, old
<1>6. Decent(x)
  <2>1. x.todo # <<>> /\ Head(x.todo).do = "approval" /\ Head(x.todo).what # "pending"
          => approval[x.on] # None
    BY <1>2, <1>3, <1>4 DEF NextIsChecked, x, old
  <2> QED BY <1>2, <1>5, <2>1 DEF Decent
<1>7. NewEvents(c, x)
  <2>1. CASE Head(old.todo).do = "event"
    <3>1. AppendEvent(c)
      BY <2>1 DEF Act, SaveTask, SaveApproval, CheckPending, AtStep, Head1, old
    <3> DEFINE name == Head(old.todo).what
    <3>2. \A d \in Callers \ {c} : tx[d].events = <<>>
      BY <3>1 DEF AppendEvent
    <3>3. name \in FixedIds => Said(x.on, {name}) = {}
      <4>1. name \in FixedIds =>
              ~ \E i \in DOMAIN log : log[i] = [task |-> x.on, what |-> name]
        BY <1>3, <3>1 DEF AppendEvent, IsNew, Head1, old
      <4>2. \A i \in DOMAIN log : log[i] = [task |-> log[i].task, what |-> log[i].what]
        <5>1. \A i \in DOMAIN log : log[i] \in Entries
          BY DEF IInv, TypeOK
        <5> QED BY <5>1 DEF Entries
      <4> QED BY <4>1, <4>2 DEF Said
    <3>4. ASSUME NEW i \in DOMAIN x.events
          PROVE  x.events[i] = name \/ (i \in DOMAIN old.events /\ x.events[i] = old.events[i])
      <4> DEFINE new == Append(old.events, name)
      <4>1. x.events = new
        BY <1>3, <2>1
      <4>2. old.events \in Seq(EventNames \cup {name}) /\ name \in EventNames \cup {name}
        BY <1>1 DEF Transactions
      <4> HIDE DEF name
      <4>3. \A h \in DOMAIN new :
              new[h] = name \/ (h \in DOMAIN old.events /\ new[h] = old.events[h])
        BY <4>2, AppendAdds
      <4> HIDE DEF new
      <4>4. i \in DOMAIN new
        BY <3>4, <4>1, Zenon
      <4>5. new[i] = name \/ (i \in DOMAIN old.events /\ new[i] = old.events[i])
        BY <4>3, <4>4, Zenon
      <4> QED BY <4>1, <4>5, Zenon
    <3>5. \A i \in DOMAIN old.events : old.events[i] \in FixedIds =>
            Said(x.on, {old.events[i]}) = {}
      <4>1. CASE old.events = <<>>
        BY <4>1
      <4>2. CASE old.events # <<>>
        BY <1>3, <4>2 DEF IInv, EventsAreNew, AreNew, old
      <4> QED BY <4>1, <4>2
    <3> HIDE DEF name
    <3> QED BY <3>2, <3>3, <3>4, <3>5 DEF NewEvents
  <2>2. CASE Head(old.todo).do # "event"
    BY <1>3, <2>2 DEF NewEvents, IInv, EventsAreNew, AreNew, old
  <2> QED BY <2>1, <2>2
<1>8. closed' = closed
  BY DEF Act, SaveTask, SaveApproval, CheckPending, AppendEvent
<1> QED BY <1>1, <1>6, <1>7, <1>8, SameKeepsIInv DEF IInv, TypeOK

LEMMA RollbackKeepsIInv ==
  ASSUME IInv, NEW c \in Callers, Rollback(c)
  PROVE  IInv'
<1>1. /\ NoTx \in Transactions /\ NoTx.approval = None /\ NoTx.events = <<>> /\ NoTx.todo = <<>>
  <2>1. <<>> \in Seq(EventNames) /\ <<>> \in Seq(Statements)
    OBVIOUS
  <2> QED BY <2>1 DEF NoTx, Transactions
<1>2. Decent(NoTx) /\ NewEvents(c, NoTx)
  BY <1>1 DEF Decent, NewEvents
<1>3. tx' = [tx EXCEPT ![c] = NoTx] /\ Same /\ closed' \in BOOLEAN
  BY DEF Rollback, Same, IInv, TypeOK
<1> QED BY <1>2, <1>3, SameKeepsIInv

\* What a transaction writes when it commits.
MoveWritten(x) ==
  \E st \in TaskStates : x.task = st /\ x.approval = None /\ x.events = <<st>>

AskWritten(x) ==
  /\ x.task = "waiting_approval" /\ x.approval = "pending"
  /\ x.events = <<Waiting, "annotate">>

RulingWritten(x) ==
  \E d \in Decisions :
    /\ x.approval = Ruling(d) /\ x.events = <<d>>
    /\ x.task = None \/ (x.task = "failed" /\ d \in Timeouts)

LEMMA WrittenAtCommit ==
  ASSUME NEW x, Busy(x), x.todo = <<>>
  PROVE  MoveWritten(x) \/ AskWritten(x) \/ RulingWritten(x)
<1>1. \A a : <<a>> # <<>>
  OBVIOUS
<1>2. \A a, b : <<a, b>> # <<>>
  OBVIOUS
<1>3. \A a, b, c : <<a, b, c>> # <<>>
  OBVIOUS
<1>4. \A a, b, c, d : <<a, b, c, d>> # <<>>
  OBVIOUS
<1>5. CASE Moving(x)
  BY <1>1, <1>2, <1>5 DEF Moving, MovingTo, At, MoveWritten
<1>6. CASE Asking(x)
  BY <1>1, <1>2, <1>3, <1>4, <1>6 DEF Asking, At, AskWritten, RequestSteps
<1>7. CASE Deciding(x)
  <2>1. PICK d \in Decisions : At(x, <<>>, None, Ruling(d), <<d>>)
    BY <1>1, <1>2, <1>3, <1>7 DEF Deciding, DecidingOn, At
  <2>2. x.approval = Ruling(d) /\ x.events = <<d>> /\ x.task = None
    BY <2>1 DEF At
  <2> QED BY <2>2, Zenon DEF RulingWritten
<1>8. CASE TimingOut(x)
  <2>1. PICK d \in Decisions \cap Timeouts : At(x, <<>>, "failed", Ruling(d), <<d>>)
    BY <1>1, <1>2, <1>3, <1>4, <1>8 DEF TimingOut, TimingOutOn, At
  <2> QED BY <2>1 DEF At, RulingWritten
<1> QED BY <1>5, <1>6, <1>7, <1>8 DEF Busy

\* What is known of the transaction that commits.
LEMMA CommitFacts ==
  ASSUME IInv, NEW c \in Callers, Commit(c)
  PROVE  LET x == tx[c] IN
         /\ x \in Transactions /\ x.on \in Tasks /\ x.todo = <<>>
         /\ MoveWritten(x) \/ AskWritten(x) \/ RulingWritten(x)
         /\ x.events \in Seq(EventNames) /\ Adds(x.on, x.events)
         /\ task' = [task EXCEPT ![x.on] = Written(x.task, @)]
         /\ approval' = [approval EXCEPT ![x.on] = Written(x.approval, @)]
         /\ tx' = [tx EXCEPT ![c] = NoTx] /\ closed' = closed
         /\ \A d \in Callers \ {c} : tx[d].events = <<>>
         /\ RulingWritten(x) => approval[x.on] # None
         /\ AskWritten(x) => approval[x.on] = None
<1> DEFINE x == tx[c]
<1>1. /\ x \in Transactions /\ x # NoTx /\ x.todo = <<>>
      /\ task' = [task EXCEPT ![x.on] = Written(x.task, @)]
      /\ approval' = [approval EXCEPT ![x.on] = Written(x.approval, @)]
      /\ tx' = [tx EXCEPT ![c] = NoTx] /\ closed' = closed
  BY DEF IInv, TypeOK, Commit
<1>2. Adds(x.on, x.events)
  BY DEF Commit, Adds
<1>3. x.events \in Seq(EventNames)
  BY <1>1 DEF Transactions
<1>4. Busy(x) /\ x.on \in Tasks
  BY <1>1 DEF IInv, Placed, Busy
<1>5. MoveWritten(x) \/ AskWritten(x) \/ RulingWritten(x)
  BY <1>1, <1>4, WrittenAtCommit
<1>6. x.events # <<>>
  <2>1. \A a, b : <<a>> # <<>> /\ <<a, b>> # <<>>
    OBVIOUS
  <2> HIDE DEF x
  <2> QED BY <1>5, <2>1 DEF MoveWritten, AskWritten, RulingWritten
<1>7. AreNew(c)
  BY DEF IInv, EventsAreNew
<1>8. \A d \in Callers \ {c} : tx[d].events = <<>>
  BY <1>6, <1>7 DEF AreNew
<1>9. RulingWritten(x) => approval[x.on] # None
  <2>1. RulingWritten(x) => x.approval \notin {None, "pending"}
    BY RulingFacts DEF RulingWritten
  <2> QED BY <2>1 DEF IInv, RecordExists
<1>10. AskWritten(x) => approval[x.on] = None
  <2> SUFFICES ASSUME AskWritten(x) PROVE approval[x.on] = None
    OBVIOUS
  <2>1. 1 \in DOMAIN x.events /\ x.events[1] = Waiting
    BY DEF AskWritten
  <2>2. Said(x.on, {Waiting}) = {}
    BY <1>6, <1>7, <2>1, NoneFacts DEF AreNew
  <2> QED BY <1>4, <2>2 DEF IInv, WaitingMatchesRecord, Waiting
<1> QED BY <1>1, <1>2, <1>3, <1>4, <1>5, <1>8, <1>9, <1>10

\* What a commit on another task, or of other words, leaves as it was.
LEMMA CommitKeepsTypes ==
  ASSUME IInv, NEW c \in Callers, Commit(c)
  PROVE  TypeOK' /\ Placed' /\ RecordExists' /\ EventsAreNew'
<1> DEFINE x == tx[c]
<1>1. /\ x \in Transactions /\ x.on \in Tasks
      /\ x.events \in Seq(EventNames) /\ Adds(x.on, x.events)
      /\ task' = [task EXCEPT ![x.on] = Written(x.task, @)]
      /\ approval' = [approval EXCEPT ![x.on] = Written(x.approval, @)]
      /\ tx' = [tx EXCEPT ![c] = NoTx] /\ closed' = closed
      /\ \A d \in Callers \ {c} : tx[d].events = <<>>
  BY CommitFacts
<1>2. /\ NoTx \in Transactions /\ NoTx.approval = None /\ NoTx.events = <<>> /\ NoTx.todo = <<>>
  <2>1. <<>> \in Seq(EventNames) /\ <<>> \in Seq(Statements)
    OBVIOUS
  <2> QED BY <2>1 DEF NoTx, Transactions
<1>3. log' \in Seq(Entries)
  BY <1>1, SaidAfter DEF IInv
<1>4. /\ Written(x.task, task[x.on]) \in TaskStates \cup {None}
      /\ Written(x.approval, approval[x.on]) \in ApprovalStates \cup {None}
      /\ approval[x.on] # None => Written(x.approval, approval[x.on]) # None
  BY <1>1 DEF IInv, TypeOK, Written, Transactions
<1>5. tx'[c] = NoTx /\ \A d \in Callers \ {c} : tx'[d] = tx[d]
  BY <1>1 DEF IInv, TypeOK
<1> HIDE DEF x
<1>6. TypeOK'
  <2> HIDE DEF NoTx
  <2> QED BY <1>1, <1>2, <1>3, <1>4 DEF IInv, TypeOK
<1>7. Placed'
  BY <1>5 DEF IInv, Placed
<1>8. \A t \in Tasks : approval[t] # None => approval'[t] # None
  BY <1>1, <1>4 DEF IInv, TypeOK
<1>9. RecordExists'
  <2> SUFFICES ASSUME NEW d \in Callers,
                      \/ tx'[d].approval \notin {None, "pending"}
                      \/ /\ tx'[d].todo # <<>> /\ Head(tx'[d].todo).do = "approval"
                         /\ Head(tx'[d].todo).what # "pending"
               PROVE  approval'[tx'[d].on] # None
    BY DEF RecordExists, Head1
  <2>1. d # c
    BY <1>2, <1>5
  <2>2. tx'[d] = tx[d]
    BY <1>5, <2>1
  <2>3. tx[d] = NoTx \/ Busy(tx[d])
    BY DEF IInv, Placed
  <2>4. Busy(tx[d])
    BY <1>2, <2>2, <2>3
  <2>5. approval[tx[d].on] # None
    BY <2>2 DEF IInv, RecordExists, Head1
  <2> QED BY <1>8, <2>2, <2>4, <2>5 DEF Busy
<1>10. EventsAreNew'
  BY <1>1, <1>2, <1>5 DEF EventsAreNew, AreNew
<1> QED BY <1>6, <1>7, <1>9, <1>10

\* The three properties of one task.
WaitingOf(t) == approval[t] # None <=> Said(t, {Waiting}) # {}

DecisionOf(t) ==
  /\ Said(t, Decisions) = {} <=> approval[t] \in {None, "pending"}
  /\ \A d \in Decisions : LastWord(t, Decisions, d) => approval[t] = Ruling(d)

StateOf(t) ==
  /\ \A st \in TaskStates : LastWord(t, Words, st) => task[t] = st
  /\ LastWord(t, Words, Waiting) => task[t] = "waiting_approval"

AllOf(t) == WaitingOf(t) /\ DecisionOf(t) /\ StateOf(t)

LEMMA OneByOne ==
  WaitingMatchesRecord /\ LastDecisionRules /\ TaskStateIsLogged <=> \A t \in Tasks : AllOf(t)
BY DEF WaitingMatchesRecord, LastDecisionRules, TaskStateIsLogged, AllOf, WaitingOf, DecisionOf,
       StateOf, Waiting

\* What nothing speaks of stays true of a row that is not written.
LEMMA WaitingStays ==
  ASSUME NEW t \in Tasks, WaitingOf(t), Said(t, {Waiting})' = Said(t, {Waiting}),
         approval[t] # None <=> approval'[t] # None
  PROVE  WaitingOf(t)'
BY DEF WaitingOf

LEMMA DecisionStays ==
  ASSUME NEW t \in Tasks, DecisionOf(t), Said(t, Decisions)' = Said(t, Decisions),
         \A word : LastWord(t, Decisions, word)' <=> LastWord(t, Decisions, word),
         approval'[t] = approval[t]
  PROVE  DecisionOf(t)'
BY DEF DecisionOf

LEMMA StateStays ==
  ASSUME NEW t \in Tasks, StateOf(t),
         \A word : LastWord(t, Words, word)' <=> LastWord(t, Words, word),
         task'[t] = task[t]
  PROVE  StateOf(t)'
BY DEF StateOf

\* The words of the events.
LEMMA WordFacts ==
  /\ \A st \in TaskStates : st \notin {Waiting} /\ st \notin Decisions /\ st \in Words
  /\ Waiting \in Words /\ Waiting \notin Decisions /\ Waiting \notin TaskStates
  /\ "annotate" \notin Words \cup Decisions \cup {Waiting}
  /\ \A d \in Decisions : d \notin {Waiting} /\ d \notin TaskStates
  /\ \A d \in Decisions : d \in Words <=> d \in Timeouts \cup {"denied_abandon"}
<1>1. Decisions \subseteq
        {"granted", "denied_abandon", "denied_alternate", "timeout_retry", "timeout"}
  BY DecisionsAssumption
<1>2. TaskStates = {"draft", "planning", "executing", "waiting_approval", "completed",
                    "failed", "cancelled"}
  BY DEF TaskStates
<1>3. Words = TaskStates \cup {"approval_waiting", "timeout", "timeout_retry", "denied_abandon"}
  BY DEF Words
<1> QED BY <1>1, <1>2, <1>3 DEF Waiting, Timeouts

\* A commit that moves the task.
LEMMA MoveKeepsAll ==
  ASSUME TypeOK, NEW t \in Tasks, NEW st \in TaskStates, Adds(t, <<st>>), AllOf(t),
         task'[t] = st, approval'[t] = approval[t]
  PROVE  AllOf(t)'
<1> DEFINE events == <<st>>
<1>1. /\ events \in Seq(EventNames) /\ DOMAIN events = {1} /\ events[1] = st
  <2>1. st \in EventNames
    BY DEF EventNames
  <2> QED BY <2>1
<1>2. Adds(t, events)
  OBVIOUS
<1> HIDE DEF events
<1>3. WaitingOf(t)'
  <2>1. Said(t, {Waiting})' = Said(t, {Waiting})
    BY <1>1, <1>2, WordFacts, WordsStay
  <2> QED BY <2>1, WaitingStays DEF AllOf
<1>4. DecisionOf(t)'
  <2>1. /\ Said(t, Decisions)' = Said(t, Decisions)
        /\ \A word : LastWord(t, Decisions, word)' <=> LastWord(t, Decisions, word)
    BY <1>1, <1>2, WordFacts, WordsStay
  <2> QED BY <2>1, DecisionStays DEF AllOf
<1>5. StateOf(t)'
  <2>1. \A word : LastWord(t, Words, word)' => word = st
    BY <1>1, <1>2, WordFacts, WordIsLast
  <2> QED BY <2>1, WordFacts DEF StateOf
<1> QED BY <1>3, <1>4, <1>5 DEF AllOf

\* A commit that asks for an approval: there was no record, so no decision.
LEMMA AskKeepsAll ==
  ASSUME TypeOK, NEW t \in Tasks, Adds(t, <<Waiting, "annotate">>), AllOf(t),
         task'[t] = "waiting_approval", approval[t] = None, approval'[t] = "pending"
  PROVE  AllOf(t)'
<1> DEFINE events == <<Waiting, "annotate">>
<1>1. /\ events \in Seq(EventNames) /\ DOMAIN events = {1, 2}
      /\ events[1] = Waiting /\ events[2] = "annotate"
  BY NoneFacts
<1>2. Adds(t, events)
  OBVIOUS
<1> HIDE DEF events
<1>3. WaitingOf(t)'
  <2>1. Said(t, {Waiting})' # {}
    BY <1>1, <1>2, WordFacts, WordIsLast
  <2> QED BY <2>1, NoneFacts DEF WaitingOf
<1>4. DecisionOf(t)'
  <2>1. Said(t, Decisions)' = Said(t, Decisions)
    BY <1>1, <1>2, WordFacts, WordsStay
  <2>2. Said(t, Decisions)' = {}
    BY <2>1 DEF AllOf, DecisionOf
  <2>3. \A word : ~LastWord(t, Decisions, word)'
    BY <2>2 DEF LastWord
  <2> QED BY <2>2, <2>3 DEF DecisionOf
<1>5. StateOf(t)'
  <2>1. \A word : LastWord(t, Words, word)' => word = Waiting
    BY <1>1, <1>2, WordFacts, WordIsLast
  <2> QED BY <2>1, WordFacts DEF StateOf
<1> QED BY <1>3, <1>4, <1>5 DEF AllOf

\* A commit that decides: the last decision is the one it has just saved.
LEMMA RulingKeepsAll ==
  ASSUME TypeOK, NEW t \in Tasks, NEW d \in Decisions, Adds(t, <<d>>), AllOf(t),
         task'[t] = task[t] \/ d \in Timeouts,
         approval[t] # None, approval'[t] = Ruling(d)
  PROVE  AllOf(t)'
<1> DEFINE events == <<d>>
<1>1. events \in Seq(EventNames) /\ DOMAIN events = {1} /\ events[1] = d
  BY RulingFacts
<1>2. Adds(t, events)
  OBVIOUS
<1> HIDE DEF events
<1>3. WaitingOf(t)'
  <2>1. Said(t, {Waiting})' = Said(t, {Waiting})
    BY <1>1, <1>2, WordFacts, WordsStay
  <2> QED BY <2>1, RulingFacts, WaitingStays DEF AllOf
<1>4. DecisionOf(t)'
  <2>1. Said(t, Decisions)' # {} /\ \A word : LastWord(t, Decisions, word)' => word = d
    BY <1>1, <1>2, WordIsLast
  <2>2. approval'[t] \notin {None, "pending"}
    BY RulingFacts
  <2> QED BY <2>1, <2>2 DEF DecisionOf
<1>5. CASE d \in Words
  <2>1. \A word : LastWord(t, Words, word)' => word = d
    BY <1>1, <1>2, <1>5, WordFacts, WordIsLast
  <2>2. StateOf(t)'
    BY <2>1, WordFacts DEF StateOf
  <2> QED BY <1>3, <1>4, <2>2 DEF AllOf
<1>6. CASE d \notin Words
  <2>1. \A word : LastWord(t, Words, word)' <=> LastWord(t, Words, word)
    BY <1>1, <1>2, <1>6, WordFacts, WordsStay
  <2>2. task'[t] = task[t]
    BY <1>6, WordFacts
  <2>3. StateOf(t)'
    BY <2>1, <2>2, StateStays DEF AllOf
  <2> QED BY <1>3, <1>4, <2>3 DEF AllOf
<1> QED BY <1>5, <1>6

LEMMA CommitKeepsIInv ==
  ASSUME IInv, NEW c \in Callers, Commit(c)
  PROVE  IInv'
<1> DEFINE x == tx[c]
<1>0. PICK t : t = x.on
  OBVIOUS
<1>1. /\ x \in Transactions /\ t \in Tasks /\ x.events \in Seq(EventNames) /\ Adds(t, x.events)
      /\ task' = [task EXCEPT ![t] = Written(x.task, @)]
      /\ approval' = [approval EXCEPT ![t] = Written(x.approval, @)]
      /\ MoveWritten(x) \/ AskWritten(x) \/ RulingWritten(x)
      /\ RulingWritten(x) => approval[t] # None
      /\ AskWritten(x) => approval[t] = None
  BY <1>0, CommitFacts
<1>2. TypeOK /\ \A q \in Tasks : AllOf(q)
  BY OneByOne DEF IInv
<1> HIDE DEF x
<1>3. /\ task'[t] = IF x.task = None THEN task[t] ELSE x.task
      /\ approval'[t] = IF x.approval = None THEN approval[t] ELSE x.approval
      /\ \A q \in Tasks \ {t} : task'[q] = task[q] /\ approval'[q] = approval[q]
  BY <1>1, <1>2 DEF TypeOK, Written
<1>4. AllOf(t)'
  <2>1. CASE MoveWritten(x)
    <3>1. PICK st \in TaskStates : x.task = st /\ x.approval = None /\ x.events = <<st>>
      BY <2>1 DEF MoveWritten
    <3>2. task'[t] = st /\ approval'[t] = approval[t] /\ Adds(t, <<st>>)
      BY <1>1, <1>3, <3>1, NoneFacts
    <3> QED BY <1>1, <1>2, <3>2, MoveKeepsAll
  <2>2. CASE AskWritten(x)
    <3>1. task'[t] = "waiting_approval" /\ approval'[t] = "pending"
      BY <1>3, <2>2, NoneFacts DEF AskWritten
    <3>2. Adds(t, <<Waiting, "annotate">>)
      BY <1>1, <2>2 DEF AskWritten
    <3> QED BY <1>1, <1>2, <2>2, <3>1, <3>2, AskKeepsAll
  <2>3. CASE RulingWritten(x)
    <3>1. PICK d \in Decisions :
            /\ x.approval = Ruling(d) /\ x.events = <<d>>
            /\ x.task = None \/ (x.task = "failed" /\ d \in Timeouts)
      BY <2>3 DEF RulingWritten
    <3>2. approval'[t] = Ruling(d)
      BY <1>3, <3>1, RulingFacts
    <3>3. task'[t] = task[t] \/ d \in Timeouts
      BY <1>3, <3>1
    <3>4. Adds(t, <<d>>)
      BY <1>1, <3>1
    <3> QED BY <1>1, <1>2, <2>3, <3>2, <3>3, <3>4, RulingKeepsAll
  <2> QED BY <1>1, <2>1, <2>2, <2>3
<1>5. ASSUME NEW q \in Tasks, q # t PROVE AllOf(q)'
  <2>1. ASSUME NEW names
        PROVE  /\ Said(q, names)' = Said(q, names)
               /\ \A word : LastWord(q, names, word)' <=> LastWord(q, names, word)
    BY <1>1, <1>2, <1>5, WordsStay
  <2>2. task'[q] = task[q] /\ approval'[q] = approval[q]
    BY <1>3, <1>5
  <2>3. WaitingOf(q)'
    BY <1>2, <2>1, <2>2, WaitingStays DEF AllOf
  <2>4. DecisionOf(q)'
    BY <1>2, <2>1, <2>2, DecisionStays DEF AllOf
  <2>5. StateOf(q)'
    BY <1>2, <2>1, <2>2, StateStays DEF AllOf
  <2> QED BY <2>3, <2>4, <2>5 DEF AllOf
<1>6. \A q \in Tasks : AllOf(q)'
  BY <1>4, <1>5
<1>7. (WaitingMatchesRecord /\ LastDecisionRules /\ TaskStateIsLogged)'
  BY <1>6 DEF WaitingMatchesRecord, LastDecisionRules, TaskStateIsLogged, AllOf, WaitingOf,
              DecisionOf, StateOf, Waiting
<1> QED BY <1>7, CommitKeepsTypes DEF IInv

\* Steps that touch nothing the invariant speaks of.
LEMMA OthersKeepIInv ==
  ASSUME IInv, UNCHANGED <<task, approval, log, tx>>, closed' \in BOOLEAN
  PROVE  IInv'
BY DEF IInv, TypeOK, Placed, RecordExists, Head1, EventsAreNew, AreNew, WaitingMatchesRecord,
       LastDecisionRules, TaskStateIsLogged, LastWord, Said

LEMMA NextIInv == IInv /\ [Next]_vars => IInv'
<1> SUFFICES ASSUME IInv, [Next]_vars PROVE IInv'
  OBVIOUS
<1>1. CASE \E c \in Callers : Begin(c) \/ Act(c) \/ Commit(c) \/ Rollback(c)
  <2>1. PICK c \in Callers : Begin(c) \/ Act(c) \/ Commit(c) \/ Rollback(c)
    BY <1>1
  <2> QED BY <2>1, BeginKeepsIInv, ActKeepsIInv, CommitKeepsIInv, RollbackKeepsIInv
<1>2. CASE CloseRun
  BY <1>2, OthersKeepIInv DEF CloseRun
<1>3. CASE UNCHANGED vars
  BY <1>3, OthersKeepIInv DEF vars, IInv, TypeOK
<1>4. Next => \/ \E c \in Callers : Begin(c) \/ Act(c) \/ Commit(c) \/ Rollback(c)
              \/ CloseRun
  BY DEF Next, Begin, Act
<1> QED BY <1>1, <1>2, <1>3, <1>4

\* Every statement, commit, rollback and closing of the run preserves IInv.
THEOREM Invariance == Spec => []IInv
BY InitIInv, NextIInv, PTL DEF Spec

-----------------------------------------------------------------------------
(* The theorems                                                            *)

(***************************************************************************)
(* Tasks, approvals and transactions have the states that the code knows,  *)
(* and the log the events that it emits.                                   *)
(***************************************************************************)
THEOREM TypeOKHolds == Spec => []TypeOK
<1>1. IInv => TypeOK
  BY DEF IInv
<1> QED BY <1>1, Invariance, PTL

(***************************************************************************)
(* ApprovalEngine.request saves the record and emits run.approval_waiting, *)
(* and neither survives alone: a task has an approval record if and only   *)
(* if the log has its waiting event.                                       *)
(***************************************************************************)
THEOREM WaitingMatchesRecordHolds == Spec => []WaitingMatchesRecord
<1>1. IInv => WaitingMatchesRecord
  BY DEF IInv
<1> QED BY <1>1, Invariance, PTL

(***************************************************************************)
(* ApprovalEngine.resolve reads the record before it locks anything. The   *)
(* record is nevertheless the ruling of the last decision of the log, and  *)
(* undecided while the log has none.                                       *)
(***************************************************************************)
THEOREM LastDecisionRulesHolds == Spec => []LastDecisionRules
<1>1. IInv => LastDecisionRules
  BY DEF IInv
<1> QED BY <1>1, Invariance, PTL

(***************************************************************************)
(* EATaskService saves a task without looking at what another transaction  *)
(* made of it. The row is nevertheless in the state that the last word of  *)
(* the log on the task names.                                              *)
(***************************************************************************)
THEOREM TaskStateIsLoggedHolds == Spec => []TaskStateIsLogged
<1>1. IInv => TaskStateIsLogged
  BY DEF IInv
<1> QED BY <1>1, Invariance, PTL

(***************************************************************************)
(* ApprovalEngine.request overwrites the record of an earlier request: no  *)
(* step makes a decided approval pending, or removes it.                   *)
(***************************************************************************)
THEOREM DecidedStaysDecidedHolds == Spec => DecidedStaysDecided
<1> DEFINE Decided(t) == approval[t] \in ApprovalStates \ {"pending"}
           Kept == \A t \in Tasks : Decided(t) => approval'[t] \notin {None, "pending"}
<1>1. ASSUME IInv, [Next]_vars PROVE [Kept]_vars
  <2>1. CASE approval' = approval
    BY <2>1, NoneFacts
  <2>2. ASSUME NEW c \in Callers, Commit(c) PROVE Kept
    <3> SUFFICES ASSUME NEW t \in Tasks, Decided(t) PROVE approval'[t] \notin {None, "pending"}
      OBVIOUS
    <3> DEFINE x == tx[c]
    <3>1. /\ x.on \in Tasks /\ approval' = [approval EXCEPT ![x.on] = Written(x.approval, @)]
          /\ MoveWritten(x) \/ AskWritten(x) \/ RulingWritten(x)
          /\ AskWritten(x) => approval[x.on] = None
      BY <1>1, <2>2, CommitFacts
    <3>2. approval \in [Tasks -> ApprovalStates \cup {None}] /\ approval[t] \notin {None, "pending"}
      BY <1>1, NoneFacts DEF IInv, TypeOK
    <3> HIDE DEF x
    <3>3. CASE t # x.on
      BY <3>1, <3>2, <3>3
    <3>4. CASE t = x.on /\ MoveWritten(x)
      BY <3>1, <3>2, <3>4 DEF MoveWritten, Written
    <3>5. CASE t = x.on /\ AskWritten(x)
      BY <3>1, <3>2, <3>5
    <3>6. CASE t = x.on /\ RulingWritten(x)
      <4>1. x.approval \notin {None, "pending"}
        BY <3>6, RulingFacts DEF RulingWritten
      <4> QED BY <3>1, <3>2, <3>6, <4>1 DEF Written
    <3> QED BY <3>1, <3>3, <3>4, <3>5, <3>6
  <2>3. approval' = approval \/ \E c \in Callers : Commit(c)
    BY <1>1 DEF Next, vars, Call, CreateTask, TransitionTask, RequestApproval, ResolveApproval,
                SaveTask, SaveApproval, CheckPending, AppendEvent, Rollback, CloseRun
  <2> QED BY <2>1, <2>2, <2>3
<1>2. DecidedStaysDecided <=> [][Kept]_vars
  BY PTL DEF DecidedStaysDecided
<1> QED BY <1>1, <1>2, Invariance, PTL DEF Spec

-----------------------------------------------------------------------------
(***************************************************************************)
(* For any assets, requests, items and operators: a routine is a sequence  *)
(* of calls of EATaskService, what it reports is in the log, and nothing   *)
(* is granted that was not asked for.                                      *)
(***************************************************************************)

Calls ==
  [verb : {"create_task", "transition_task", "request_approval", "resolve_approval"},
   arg : TaskStates \cup Decisions \cup {None}]

Answers == Decisions \cup {None}

Creates == [verb |-> "create_task", arg |-> None]
Moves(st) == [verb |-> "transition_task", arg |-> st]
Asks == [verb |-> "request_approval", arg |-> None]
Resolves(d) == [verb |-> "resolve_approval", arg |-> d]

-----------------------------------------------------------------------------
(* The scripts                                                             *)

LEMMA CallTypes ==
  /\ Creates \in Calls /\ Asks \in Calls
  /\ \A st \in TaskStates : Moves(st) \in Calls
  /\ \A d \in Decisions : Resolves(d) \in Calls
  /\ Create = <<Creates>> /\ Ask = <<Asks>>
  /\ \A st : Move(st) = <<Moves(st)>>
  /\ \A d \in Decisions : Decide(d) = <<Resolves(d)>>
  /\ Decide(None) = <<>>
  /\ "planning" \in TaskStates /\ "executing" \in TaskStates /\ "completed" \in TaskStates
BY EARoutinesAssumption
   DEF Creates, Asks, Moves, Resolves, Calls, TaskStates, Create, Ask, Move, Decide

\* One more call.
LEMMA JoinedOne ==
  ASSUME NEW s \in Seq(Calls), NEW call \in Calls
  PROVE  s \o <<call>> = Append(s, call)
<1> DEFINE t == <<call>>
           u == Append(s, call)
<1>1. t \in Seq(Calls) /\ Len(t) = 1 /\ t[1] = call
  OBVIOUS
<1>2. /\ u \in Seq(Calls) /\ Len(u) = Len(s) + 1 /\ u[Len(s) + 1] = call
      /\ \A i \in 1..Len(s) : u[i] = s[i]
  BY AppendProperties
<1> HIDE DEF t, u
<1>3. /\ s \o t \in Seq(Calls) /\ Len(s \o t) = Len(s) + Len(t)
      /\ \A i \in 1..Len(s) + Len(t) :
           (s \o t)[i] = IF i <= Len(s) THEN s[i] ELSE t[i - Len(s)]
  BY <1>1, ConcatProperties
<1>4. ASSUME NEW i \in 1..Len(u) PROVE (s \o t)[i] = u[i]
  <2>1. CASE i = Len(s) + 1
    BY <1>1, <1>2, <1>3, <2>1
  <2>2. CASE i # Len(s) + 1
    BY <1>1, <1>2, <1>3, <2>2
  <2> QED BY <2>1, <2>2
<1>5. s \o t = u
  BY <1>1, <1>2, <1>3, <1>4, SeqEqual
<1> QED BY <1>5 DEF t, u

\* A call behind others.
LEMMA Longer ==
  ASSUME NEW s \in Seq(Calls), NEW call \in Calls, NEW t, t = Append(s, call)
  PROVE  /\ t \in Seq(Calls) /\ Len(t) = Len(s) + 1 /\ t[Len(s) + 1] = call
         /\ \A i \in 1..Len(s) : t[i] = s[i]
BY AppendProperties

LEMMA CallFacts ==
  /\ Creates \in Calls /\ Asks \in Calls
  /\ Moves("planning") \in Calls /\ Moves("executing") \in Calls
  /\ Moves("completed") \in Calls
BY CallTypes

LEMMA OpeningFacts ==
  /\ Opening \in Seq(Calls) /\ Len(Opening) = 4
  /\ Opening[1] = Creates /\ Opening[2] = Moves("planning")
  /\ Opening[3] = Moves("executing") /\ Opening[4] = Asks
<1> DEFINE a == <<Creates>>
           b == Append(a, Moves("planning"))
           c == Append(b, Moves("executing"))
           e == Append(c, Asks)
<1>1. a \in Seq(Calls) /\ Len(a) = 1 /\ a[1] = Creates
  BY CallFacts
<1>2. Opening = a \o <<Moves("planning")>> \o <<Moves("executing")>> \o <<Asks>>
  BY CallTypes DEF Opening
<1> HIDE DEF a
<1>3. /\ b \in Seq(Calls) /\ Len(b) = 2 /\ b[1] = Creates /\ b[2] = Moves("planning")
      /\ a \o <<Moves("planning")>> = b
  <2>1. a \o <<Moves("planning")>> = b
    BY <1>1, CallFacts, JoinedOne
  <2>2. /\ b \in Seq(Calls) /\ Len(b) = Len(a) + 1 /\ b[Len(a) + 1] = Moves("planning")
        /\ \A i \in 1..Len(a) : b[i] = a[i]
    <3>1. a \in Seq(Calls) /\ Moves("planning") \in Calls
      BY <1>1, CallFacts
    <3> HIDE DEF b
    <3>2. b = Append(a, Moves("planning"))
      BY DEF b
    <3> QED BY <3>1, <3>2, Longer
  <2> HIDE DEF b
  <2> QED BY <1>1, <2>1, <2>2
<1> HIDE DEF b
<1>4. /\ c \in Seq(Calls) /\ Len(c) = 3 /\ c[1] = Creates /\ c[2] = Moves("planning")
      /\ c[3] = Moves("executing") /\ b \o <<Moves("executing")>> = c
  BY <1>3, CallFacts, JoinedOne
<1> HIDE DEF c
<1>5. /\ e \in Seq(Calls) /\ Len(e) = 4 /\ e[1] = Creates /\ e[2] = Moves("planning")
      /\ e[3] = Moves("executing") /\ e[4] = Asks /\ c \o <<Asks>> = e
  BY <1>4, CallFacts, JoinedOne
<1> HIDE DEF e
<1>6. Opening = e
  BY <1>2, <1>3, <1>4, <1>5
<1> QED BY <1>5, <1>6

\* The first calls of a script with the answer d: those of the opening, then
\* the answer.
Starts(s, d) ==
  /\ s \in Seq(Calls) /\ Len(s) \in Nat /\ Len(s) >= 4
  /\ s[1] = Creates /\ s[2] = Moves("planning") /\ s[3] = Moves("executing") /\ s[4] = Asks
  /\ d = None => Len(s) = 4
  /\ d # None => Len(s) >= 5 /\ s[5] = Resolves(d)

LEMMA TriageScript ==
  ASSUME NEW d \in Answers
  PROVE  /\ Starts(TriageSteps(d), d) /\ Len(TriageSteps(d)) <= 5
         /\ d # None => Len(TriageSteps(d)) = 5
<1>1. CASE d = None
  <2>1. TriageSteps(d) = Opening \o <<>>
    BY <1>1, CallTypes DEF TriageSteps
  <2>2. Opening \o <<>> = Opening
    <3>1. Opening \in Seq(Calls)
      BY OpeningFacts
    <3> QED BY <3>1, ConcatEmptySeq
  <2>3. Starts(Opening, d) /\ Len(Opening) <= 5
    BY <1>1, OpeningFacts DEF Starts
  <2> QED BY <1>1, <2>1, <2>2, <2>3
<1>2. CASE d # None
  <2>1. d \in Decisions /\ Resolves(d) \in Calls
    BY <1>2, CallTypes DEF Answers
  <2>2. TriageSteps(d) = Opening \o <<Resolves(d)>>
    BY <2>1, CallTypes DEF TriageSteps
  <2> DEFINE s == Append(Opening, Resolves(d))
  <2>3. Opening \o <<Resolves(d)>> = s
    BY <2>1, OpeningFacts, JoinedOne
  <2>4. /\ s \in Seq(Calls) /\ Len(s) = 5 /\ s[5] = Resolves(d)
        /\ \A i \in 1..4 : s[i] = Opening[i]
    <3>1. Opening \in Seq(Calls) /\ Len(Opening) = 4
      BY OpeningFacts
    <3>2. PICK o \in Seq(Calls) : o = Opening
      BY <3>1
    <3>3. PICK call \in Calls : call = Resolves(d)
      BY <2>1
    <3>4. s = Append(o, call)
      BY <3>2, <3>3
    <3> HIDE DEF s
    <3>5. /\ s \in Seq(Calls) /\ Len(s) = Len(o) + 1 /\ s[Len(o) + 1] = call
          /\ \A i \in 1..Len(o) : s[i] = o[i]
      BY <3>4, AppendProperties
    <3>6. Len(o) = 4
      BY <3>1, <3>2
    <3>7. s \in Seq(Calls) /\ Len(s) = 5 /\ s[5] = call /\ \A i \in 1..4 : s[i] = o[i]
      BY <3>5, <3>6
    <3> QED BY <3>2, <3>3, <3>7
  <2> HIDE DEF s
  <2>5. Starts(s, d)
    <3>1. s[1] = Opening[1] /\ s[2] = Opening[2] /\ s[3] = Opening[3] /\ s[4] = Opening[4]
      BY <2>4
    <3> QED BY <1>2, <2>4, <3>1, OpeningFacts DEF Starts
  <2>6. Len(s) <= 5
    BY <2>4
  <2>7. TriageSteps(d) = s
    BY <2>2, <2>3
  <2> QED BY <2>4, <2>5, <2>6, <2>7
<1> QED BY <1>1, <1>2

\* Joining two sequences to a third, at once or one by one.
LEMMA Regrouped ==
  ASSUME NEW s \in Seq(Calls), NEW t \in Seq(Calls), NEW u \in Seq(Calls)
  PROVE  \A st, tu : st = s \o t /\ tu = t \o u => s \o tu = st \o u
<1>1. (s \o t) \o u = s \o (t \o u)
  BY ConcatAssociative
<1> QED BY <1>1, Zenon

\* What the scheduler does about the answer.
Rest(d) ==
  CASE d = "granted" -> Move("planning") \o Move("executing") \o Move("completed")
    [] d = "denied_alternate" -> Move("planning")
    [] OTHER -> <<>>

LEMMA SchedulerScript ==
  ASSUME NEW d \in Answers
  PROVE  LET s == SchedulerSteps(d) IN
         /\ Starts(s, d)
         /\ d = "granted" => /\ Len(s) = 8 /\ s[6] = Moves("planning")
                             /\ s[7] = Moves("executing") /\ s[8] = Moves("completed")
         /\ d = "denied_alternate" => Len(s) = 6 /\ s[6] = Moves("planning")
         /\ d \notin {None, "granted", "denied_alternate"} => Len(s) = 5
<1> DEFINE t == TriageSteps(d)
           a == Append(t, Moves("planning"))
           b == Append(a, Moves("executing"))
           c == Append(b, Moves("completed"))
<1>1. SchedulerSteps(d) = t \o Rest(d)
  BY DEF SchedulerSteps, Rest, TriageSteps
<1>2. Starts(t, d) /\ Len(t) <= 5 /\ (d # None => Len(t) = 5) /\ t \in Seq(Calls)
  BY TriageScript DEF Starts
<1>3. None \notin {"granted", "denied_alternate"}
  BY EATasksNoneAssumption, EARoutinesAssumption
<1> HIDE DEF t
<1>4. a \in Seq(Calls) /\ Len(a) = Len(t) + 1 /\ a[Len(t) + 1] = Moves("planning")
      /\ (\A i \in 1..Len(t) : a[i] = t[i]) /\ t \o <<Moves("planning")>> = a
  BY <1>2, CallFacts, JoinedOne
<1> HIDE DEF a
<1>5. CASE d = "granted"
  <2>1. Rest(d) = <<Moves("planning")>> \o <<Moves("executing")>> \o <<Moves("completed")>>
    BY <1>5, CallTypes DEF Rest
  <2>2. /\ <<Moves("planning")>> \in Seq(Calls) /\ <<Moves("executing")>> \in Seq(Calls)
        /\ <<Moves("completed")>> \in Seq(Calls)
        /\ <<Moves("planning")>> \o <<Moves("executing")>> \in Seq(Calls)
    BY CallFacts, JoinedOne, AppendProperties
  <2> DEFINE x == <<Moves("planning")>>
             y == <<Moves("executing")>>
             z == <<Moves("completed")>>
  <2>3. Len(t) = 5
    BY <1>2, <1>3, <1>5
  <2>4. b \in Seq(Calls) /\ Len(b) = 7 /\ b[7] = Moves("executing")
        /\ (\A i \in 1..6 : b[i] = a[i]) /\ a \o y = b
    BY <1>4, <2>3, CallFacts, JoinedOne
  <2> HIDE DEF b
  <2>5. c \in Seq(Calls) /\ Len(c) = 8 /\ c[8] = Moves("completed")
        /\ (\A i \in 1..7 : c[i] = b[i]) /\ b \o z = c
    BY <2>4, CallFacts, JoinedOne
  <2> HIDE DEF c
  <2>6. SchedulerSteps(d) = c
    <3> DEFINE xy == x \o y
    <3>1. /\ x \in Seq(Calls) /\ y \in Seq(Calls) /\ z \in Seq(Calls) /\ t \in Seq(Calls)
          /\ xy \in Seq(Calls)
      BY <1>2, <2>2
    <3>2. t \o x = a /\ a \o y = b /\ b \o z = c /\ xy \o z = Rest(d)
      BY <1>4, <2>1, <2>4, <2>5
    <3>3. xy = x \o y
      OBVIOUS
    <3> HIDE DEF x, y, z, xy
    <3>4. \A p, q : p = t \o x /\ q = x \o y => t \o q = p \o y
      BY <3>1, Regrouped, ZenonT(60)
    <3>5. \A p, q : p = t \o xy /\ q = xy \o z => t \o q = p \o z
      BY <3>1, Regrouped, ZenonT(60)
    <3>6. t \o xy = b
      BY <3>2, <3>3, <3>4, Zenon
    <3>7. t \o Rest(d) = b \o z
      BY <3>2, <3>5, <3>6, Zenon
    <3> QED BY <1>1, <3>2, <3>7, Zenon
  <2>7. \A i \in 1..5 : c[i] = t[i]
    BY <1>4, <2>3, <2>4, <2>5
  <2>8. c[6] = Moves("planning") /\ c[7] = Moves("executing")
    BY <1>4, <2>3, <2>4, <2>5
  <2>9. Starts(c, d)
    BY <1>2, <2>3, <2>5, <2>7 DEF Starts
  <2> QED BY <1>5, <2>5, <2>6, <2>8, <2>9
<1>6. CASE d = "denied_alternate"
  <2>1. Len(t) = 5
    BY <1>2, <1>3, <1>6
  <2>2. SchedulerSteps(d) = a
    BY <1>1, <1>4, <1>6, CallTypes DEF Rest
  <2>3. Starts(a, d)
    <3>1. a[1] = t[1] /\ a[2] = t[2] /\ a[3] = t[3] /\ a[4] = t[4] /\ a[5] = t[5]
      BY <1>4, <2>1
    <3> QED BY <1>2, <1>4, <2>1, <3>1 DEF Starts
  <2>4. Len(a) = 6 /\ a[6] = Moves("planning")
    BY <1>4, <2>1
  <2> QED BY <1>6, <2>2, <2>3, <2>4
<1>7. CASE d \notin {"granted", "denied_alternate"}
  <2>1. Rest(d) = <<>>
    BY <1>7 DEF Rest
  <2>2. t \o <<>> = t
    BY <1>2, ConcatEmptySeq
  <2> QED BY <1>1, <1>2, <1>7, <2>1, <2>2
<1> QED BY <1>5, <1>6, <1>7

-----------------------------------------------------------------------------
(* The invariant of the routine                                            *)

Outcomes == [task : Tasks \cup {None}, what : Answers \cup {"malformed"}]
Executions ==
  [status : {"idle", "running", "done", "failed"},
   kind : {"", "scheduler", "triage", "briefing"},
   rq : Requests \cup {None}, nr : Nat \ {0}, step : Nat \ {0}, on : Tasks \cup {None},
   outcomes : Seq(Outcomes)]

RoutineTypes ==
  /\ ro \in Executions
  /\ ro.status = "idle" => ro = NotStarted
  /\ ro.status # "idle" => ro.rq \in Requests
  /\ Len(ro.outcomes) = ro.nr - 1

\* The routine is at an item that it handles.
Handling == AtItem /\ ~(ro.kind = "triage" /\ Item = Blank)

\* The transaction x is in this call of the script.
InCall(x, call) ==
  /\ call = Creates => MovingTo(x, "draft")
  /\ \A st \in TaskStates : call = Moves(st) => MovingTo(x, st)
  /\ call = Asks => Asking(x)
  /\ \A d \in Decisions :
       call = Resolves(d) => DecidingOn(x, d) \/ (d \in Timeouts /\ TimingOutOn(x, d))

\* A transaction of the routine is the next call of its script.
Calling ==
  tx[Routine] # NoTx =>
    /\ Handling /\ ro.on \in Tasks /\ tx[Routine].on = ro.on
    /\ InCall(tx[Routine], Steps[ro.step])

\* In the middle of a script, its task exists; a decision that was made is in
\* the log, and where nobody else has called, the task waits for it.
OnCourse ==
  /\ Handling => ro.step <= Len(Steps)
  /\ Running({"scheduler", "triage"}) /\ ro.step > 1 =>
       /\ Handling /\ ro.on \in Tasks /\ task[ro.on] # None
       /\ ro.step > 5 => Said(ro.on, {Decision}) # {}
       /\ ro.step = 5 /\ asked = {} => task[ro.on] = "waiting_approval"

Unasked == \A o \in Operators : o \notin asked => tx[o] = NoTx

\* The grant of t is in the log, and its completion behind it.
Completed(t) ==
  \E a, b \in DOMAIN log :
    /\ a < b
    /\ log[a] = [task |-> t, what |-> "granted"]
    /\ log[b] = [task |-> t, what |-> "completed"]

\* What is true of the outcome o of the i-th item.
Told(o, i) ==
  /\ o.task \in Tasks /\ o.task # ro.on /\ task[o.task] # None
  /\ o.what = DecisionFor(ro.kind, ro.rq.items[i], i, ro.rq.decisions)
  /\ o.what \in Decisions => Said(o.task, {o.what}) # {}
  /\ o.what = "granted" /\ ro.kind = "scheduler" => Completed(o.task)
  /\ asked = {} /\ o.what \notin {"granted", "denied_alternate"} =>
       task[o.task] \in {"waiting_approval", "failed"}
  /\ asked = {} /\ o.what = None => task[o.task] = "waiting_approval"

Skipped == [task |-> None, what |-> "malformed"]

Reported ==
  \A i \in DOMAIN ro.outcomes : \A o \in Outcomes :
    o = ro.outcomes[i] => o = Skipped \/ Told(o, i)

Milestones == {"intake.received", "intake.accepted", "plan.drafted", "plan.ready", "artifact"}

\* The briefing has the events before the next one.
Briefed ==
  ro.kind \in {"", "briefing"} =>
    /\ briefing \in Seq(Milestones) /\ Len(briefing) = ro.step - 1
    /\ ro.step <= 6
    /\ \A i \in 1..Len(briefing) : briefing[i] = BriefingEvents[i]
    /\ ro.status = "done" => ro.step = 6

RoutineInv == RoutineTypes /\ Calling /\ OnCourse /\ Unasked /\ Reported /\ Briefed

-----------------------------------------------------------------------------
(* The script of an item                                                   *)

LEMMA DecisionType ==
  ASSUME NEW rq \in Requests, NEW kind, NEW title, NEW nr
  PROVE  DecisionFor(kind, title, nr, rq.decisions) \in Answers
BY EARoutinesAssumption DEF DecisionFor, Answers

LEMMA DecisionInAnswers ==
  ASSUME RoutineTypes, Handling
  PROVE  Decision \in Answers /\ ro.kind \in {"scheduler", "triage"} /\ ro.rq \in Requests
BY DecisionType DEF RoutineTypes, Handling, AtItem, Running, Decision

\* The k-th call of the script, and what the last one says of the decision.
LEMMA ScriptCalls ==
  ASSUME RoutineTypes, Handling, NEW k \in Nat, k >= 1, k <= Len(Steps)
  PROVE  /\ Len(Steps) \in Nat /\ Len(Steps) >= 4 /\ Decision \in Answers
         /\ k = 1 => Steps[k] = Creates
         /\ k \in {2, 3} \/ k > 5 => \E st \in TaskStates : Steps[k] = Moves(st)
         /\ k = 4 => Steps[k] = Asks
         /\ k = 5 => Decision \in Decisions /\ Steps[k] = Resolves(Decision)
         /\ k = Len(Steps) =>
              /\ Decision = None <=> k = 4
              /\ Decision \notin {"granted", "denied_alternate"} => k <= 5
              /\ ro.kind = "scheduler" /\ Decision = "granted" =>
                   k = 8 /\ Steps[k] = Moves("completed")
<1> DEFINE d == Decision
           s == Steps
<1>1. d \in Answers /\ ro.kind \in {"scheduler", "triage"}
  BY DecisionInAnswers
<1>2. CASE ro.kind = "triage"
  <2>1. s = TriageSteps(d)
    BY <1>2 DEF Steps
  <2>2. Starts(s, d) /\ Len(s) <= 5 /\ (d # None => Len(s) = 5)
    BY <1>1, <2>1, TriageScript
  <2> HIDE DEF s, d
  <2>3. /\ Len(s) \in Nat /\ Len(s) >= 4
        /\ s[1] = Creates /\ s[2] = Moves("planning") /\ s[3] = Moves("executing")
        /\ s[4] = Asks /\ (d = None => Len(s) = 4) /\ (d # None => s[5] = Resolves(d))
    BY <2>2 DEF Starts
  <2>4. d # None => d \in Decisions
    BY <1>1 DEF Answers
  <2>5. PICK n \in Nat : n = Len(s)
    BY <2>3
  <2>6. (d = None => n = 4) /\ (d # None => n = 5)
    BY <2>2, <2>3, <2>5
  <2>7. k <= n
    BY <2>5 DEF s
  <2>8. k <= 5 /\ (k = 5 => d # None) /\ (k = n => (d = None <=> k = 4))
    BY <2>6, <2>7
  <2> QED BY <1>1, <1>2, <2>3, <2>4, <2>5, <2>8, CallTypes DEF s, d
<1>3. CASE ro.kind = "scheduler"
  <2>1. s = SchedulerSteps(d)
    BY <1>3 DEF Steps
  <2>2. /\ Starts(s, d)
        /\ d = "granted" => /\ Len(s) = 8 /\ s[6] = Moves("planning")
                            /\ s[7] = Moves("executing") /\ s[8] = Moves("completed")
        /\ d = "denied_alternate" => Len(s) = 6 /\ s[6] = Moves("planning")
        /\ d \notin {None, "granted", "denied_alternate"} => Len(s) = 5
    BY <1>1, <2>1, SchedulerScript
  <2> HIDE DEF s, d
  <2>3. /\ Len(s) \in Nat /\ Len(s) >= 4
        /\ s[1] = Creates /\ s[2] = Moves("planning") /\ s[3] = Moves("executing")
        /\ s[4] = Asks /\ (d = None => Len(s) = 4) /\ (d # None => s[5] = Resolves(d))
    BY <2>2 DEF Starts
  <2>4. d # None => d \in Decisions
    BY <1>1 DEF Answers
  <2>5. PICK n \in Nat : n = Len(s)
    BY <2>3
  <2>6. /\ d = None => n = 4
        /\ d = "granted" => n = 8
        /\ d = "denied_alternate" => n = 6
        /\ d \notin {None, "granted", "denied_alternate"} => n = 5
        /\ None \notin {"granted", "denied_alternate"}
    BY <2>2, <2>3, <2>5, EATasksNoneAssumption, EARoutinesAssumption
  <2>7. k <= n
    BY <2>5 DEF s
  <2>8. /\ k = 5 => d # None
        /\ k > 5 => d \in {"granted", "denied_alternate"}
        /\ k > 5 => k = 6 \/ (d = "granted" /\ (k = 7 \/ k = 8))
        /\ k = n => /\ d = None <=> k = 4
                    /\ d \notin {"granted", "denied_alternate"} => k <= 5
                    /\ d = "granted" => k = 8
    BY <2>6, <2>7
  <2>9. k > 5 => \E st \in TaskStates : s[k] = Moves(st)
    BY <2>2, <2>8, CallTypes
  <2>10. k \in {2, 3} => \E st \in TaskStates : s[k] = Moves(st)
    BY <2>3, CallTypes
  <2>11. d = "granted" => s[8] = Moves("completed")
    BY <2>2
  <2> QED BY <1>1, <1>3, <2>3, <2>4, <2>5, <2>8, <2>9, <2>10, <2>11 DEF s, d
<1> QED BY <1>1, <1>2, <1>3

\* Calls of different kinds are different.
LEMMA CallsDiffer ==
  /\ \A st : Moves(st).verb = "transition_task" /\ Moves(st).arg = st
  /\ \A d : Resolves(d).verb = "resolve_approval" /\ Resolves(d).arg = d
  /\ Creates.verb = "create_task" /\ Asks.verb = "request_approval"
BY DEF Moves, Resolves, Creates, Asks

\* What a new transaction for this call starts with.
LEMMA StartsInCall ==
  ASSUME NEW t \in Tasks, NEW call
  PROVE  /\ call = Creates => InCall(Begun(t, CreateSteps), call)
         /\ \A st \in TaskStates :
              call = Moves(st) => InCall(Begun(t, TransitionSteps(st)), call)
         /\ call = Asks => InCall(Begun(t, RequestSteps), call)
         /\ \A d \in Decisions : \A seen :
              call = Resolves(d) => InCall(Begun(t, ResolveSteps(d, seen)), call)
<1>1. ASSUME NEW st \in TaskStates PROVE MovingTo(Begun(t, TransitionSteps(st)), st)
  <2>1. Task(st) \in Statements /\ Event(st) \in Statements
    BY DEF Task, Event, Statements, EventNames
  <2>2. TransitionSteps(st) \in Seq(Statements)
    BY <2>1 DEF TransitionSteps
  <2> QED BY <2>2, BegunFacts DEF MovingTo, TransitionSteps
<1>2. Asking(Begun(t, RequestSteps))
  <2>1. /\ Task("waiting_approval") \in Statements /\ Approval("pending") \in Statements
        /\ Event("approval_waiting") \in Statements /\ Event("annotate") \in Statements
    BY NoneFacts DEF Task, Approval, Event, Statements, Waiting
  <2>2. RequestSteps \in Seq(Statements)
    BY <2>1 DEF RequestSteps
  <2> QED BY <2>2, BegunFacts DEF Asking
<1>3. ASSUME NEW d \in Decisions, NEW seen
      PROVE  LET x == Begun(t, ResolveSteps(d, seen)) IN
             DecidingOn(x, d) \/ (d \in Timeouts /\ TimingOutOn(x, d))
  <2> DEFINE steps == ResolveSteps(d, seen)
  <2>1. steps \in Deciders(d)
    BY ResolveStepsFacts
  <2> HIDE DEF steps
  <2>2. \/ steps = <<Pending, Approval(Ruling(d)), Event(d)>>
        \/ steps = <<Pending, Approval(Ruling(d)), Event(d), Task("failed")>> /\ d \in Timeouts
    BY <2>1 DEF Deciders
  <2>3. /\ Pending \in Statements /\ Approval(Ruling(d)) \in Statements
        /\ Event(d) \in Statements /\ Task("failed") \in Statements
    BY NoneFacts, RulingFacts DEF Task, Approval, Event, Statements
  <2>4. steps \in Seq(Statements)
    <3>1. CASE steps = <<Pending, Approval(Ruling(d)), Event(d)>>
      BY <2>3, <3>1
    <3>2. CASE steps = <<Pending, Approval(Ruling(d)), Event(d), Task("failed")>>
      BY <2>3, <3>2
    <3> QED BY <2>2, <3>1, <3>2
  <2>5. At(Begun(t, steps), steps, None, None, <<>>)
    BY <2>4, BegunFacts
  <2>6. LET x == Begun(t, steps) IN DecidingOn(x, d) \/ (d \in Timeouts /\ TimingOutOn(x, d))
    BY <2>2, <2>5 DEF DecidingOn, TimingOutOn
  <2> QED BY <2>6 DEF steps
<1>4. "draft" \in TaskStates
  BY NoneFacts
<1> QED BY <1>1, <1>2, <1>3, <1>4, CallsDiffer DEF InCall, CreateSteps

\* A statement of the call keeps it in the call.
LEMMA InCallAdvances ==
  ASSUME NEW x \in Transactions, NEW call, InCall(x, call), x.todo # <<>>
  PROVE  InCall(Effect(x), call)
BY MovingAdvances, AskingAdvances, DecidingAdvances, TimingOutAdvances DEF InCall

LEMMA BegunOn ==
  ASSUME NEW t, NEW steps
  PROVE  Begun(t, steps).on = t
BY DEF Begun, NoTx

-----------------------------------------------------------------------------
(* A routine is calls of the service                                       *)

LEMMA StepFacts ==
  ASSUME RoutineTypes
  PROVE  /\ ro.step \in Nat /\ ro.step >= 1 /\ ro.nr \in Nat /\ ro.nr >= 1
         /\ ro.outcomes \in Seq(Outcomes)
<1>1. ro.step \in Nat \ {0} /\ ro.nr \in Nat \ {0} /\ ro.outcomes \in Seq(Outcomes)
  BY DEF RoutineTypes, Executions
<1>2. \A n \in Nat \ {0} : n \in Nat /\ n >= 1
  OBVIOUS
<1> QED BY <1>1, <1>2

LEMMA BeginCreateFacts ==
  ASSUME RoutineTypes, OnCourse, BeginCreate
  PROVE  /\ Begin(Routine) /\ Handling /\ ro.step = 1 /\ tx[Routine] = NoTx
         /\ \E t \in Tasks :
              /\ task[t] = None /\ ro' = [ro EXCEPT !.on = t]
              /\ tx' = [tx EXCEPT ![Routine] = Begun(t, CreateSteps)]
              /\ Begun(t, CreateSteps).on = t
              /\ InCall(Begun(t, CreateSteps), Steps[1])
         /\ Same /\ UNCHANGED <<closed, asked, briefing>>
<1>1. Handling /\ tx[Routine] = NoTx /\ Steps[ro.step].verb = "create_task"
  BY DEF BeginCreate, InItem, Handling
<1>2. ro.step \in Nat /\ ro.step >= 1 /\ ro.step <= Len(Steps)
  BY <1>1, StepFacts DEF OnCourse
<1>3. /\ ro.step = 1 => Steps[ro.step] = Creates
      /\ ro.step \in {2, 3} \/ ro.step > 5 => \E st \in TaskStates : Steps[ro.step] = Moves(st)
      /\ ro.step = 4 => Steps[ro.step] = Asks
      /\ ro.step = 5 => Decision \in Decisions /\ Steps[ro.step] = Resolves(Decision)
  BY <1>1, <1>2, ScriptCalls
<1>4. ro.step = 1
  <2>1. ro.step = 1 \/ ro.step \in {2, 3} \/ ro.step = 4 \/ ro.step = 5 \/ ro.step > 5
    BY <1>2
  <2> QED BY <1>1, <1>3, <2>1, CallsDiffer
<1>5. PICK t \in Tasks : CreateTask(Routine, t) /\ ro' = [ro EXCEPT !.on = t]
  BY DEF BeginCreate
<1>6. /\ Begin(Routine) /\ task[t] = None /\ Same /\ closed' = closed
      /\ tx' = [tx EXCEPT ![Routine] = Begun(t, CreateSteps)]
  BY <1>5 DEF Begin, CreateTask, Call, Begun, Same
<1>7. Begun(t, CreateSteps).on = t
  BY <1>5, NoneFacts, BegunOn DEF CreateSteps
<1>8. InCall(Begun(t, CreateSteps), Steps[1])
  BY <1>3, <1>4, StartsInCall
<1> QED BY <1>1, <1>4, <1>5, <1>6, <1>7, <1>8 DEF BeginCreate

LEMMA BeginCallFacts ==
  ASSUME RoutineTypes, OnCourse, BeginCall
  PROVE  /\ Begin(Routine) /\ Handling /\ ro.on \in Tasks /\ tx[Routine] = NoTx
         /\ \E x : /\ x.on = ro.on /\ InCall(x, Steps[ro.step])
                   /\ tx' = [tx EXCEPT ![Routine] = x]
         /\ Same /\ UNCHANGED <<closed, ro, asked, briefing>>
<1> DEFINE s == Steps[ro.step]
<1>1. /\ Handling /\ tx[Routine] = NoTx
      /\ \/ s.verb = "transition_task" /\ TransitionTask(Routine, ro.on, s.arg)
         \/ s.verb = "request_approval" /\ RequestApproval(Routine, ro.on)
         \/ s.verb = "resolve_approval" /\ ResolveApproval(Routine, ro.on, s.arg)
      /\ UNCHANGED <<ro, asked, briefing>>
  BY DEF BeginCall, InItem, Handling
<1>2. ro.step \in Nat /\ ro.step >= 1 /\ ro.step <= Len(Steps)
  BY <1>1, StepFacts DEF OnCourse
<1>3. /\ ro.step = 1 => s = Creates
      /\ ro.step \in {2, 3} \/ ro.step > 5 => \E st \in TaskStates : s = Moves(st)
      /\ ro.step = 4 => s = Asks
      /\ ro.step = 5 => Decision \in Decisions /\ s = Resolves(Decision)
  BY <1>1, <1>2, ScriptCalls
<1> HIDE DEF s
<1>4. ro.step # 1 /\ ro.step > 1
  BY <1>1, <1>2, <1>3, CallsDiffer
<1>5. ro.on \in Tasks
  BY <1>1, <1>4 DEF OnCourse, Handling, AtItem
<1>6. \/ \E st \in TaskStates : s = Moves(st) /\ TransitionTask(Routine, ro.on, st)
      \/ s = Asks /\ RequestApproval(Routine, ro.on)
      \/ \E d \in Decisions : s = Resolves(d) /\ ResolveApproval(Routine, ro.on, d)
  <2>1. \/ \E st \in TaskStates : s = Moves(st)
        \/ s = Asks
        \/ \E d \in Decisions : s = Resolves(d)
    <3>1. ro.step \in {2, 3} \/ ro.step = 4 \/ ro.step = 5 \/ ro.step > 5
      BY <1>2, <1>4
    <3> QED BY <1>3, <3>1
  <2> QED BY <1>1, <2>1, CallsDiffer
<1>7. ASSUME NEW steps, NEW verb, Call(Routine, verb, ro.on, steps)
      PROVE  /\ tx' = [tx EXCEPT ![Routine] = Begun(ro.on, steps)]
             /\ Same /\ closed' = closed
  BY <1>7 DEF Call, Begun, Same
<1>8. ASSUME NEW st \in TaskStates, s = Moves(st), TransitionTask(Routine, ro.on, st)
      PROVE  /\ \E x : x.on = ro.on /\ InCall(x, s) /\ tx' = [tx EXCEPT ![Routine] = x]
             /\ Same /\ closed' = closed /\ Begin(Routine)
  <2> DEFINE x == Begun(ro.on, TransitionSteps(st))
  <2>1. tx' = [tx EXCEPT ![Routine] = x] /\ Same /\ closed' = closed
    BY <1>7, <1>8 DEF TransitionTask
  <2>2. x.on = ro.on /\ InCall(x, s)
    BY <1>5, <1>8, StartsInCall, BegunOn
  <2> QED BY <1>5, <1>8, <2>1, <2>2 DEF Begin
<1>9. ASSUME s = Asks, RequestApproval(Routine, ro.on)
      PROVE  /\ \E x : x.on = ro.on /\ InCall(x, s) /\ tx' = [tx EXCEPT ![Routine] = x]
             /\ Same /\ closed' = closed /\ Begin(Routine)
  <2> DEFINE x == Begun(ro.on, RequestSteps)
  <2>1. tx' = [tx EXCEPT ![Routine] = x] /\ Same /\ closed' = closed
    BY <1>7, <1>9 DEF RequestApproval
  <2>2. x.on = ro.on /\ InCall(x, s)
    BY <1>5, <1>9, StartsInCall, BegunOn
  <2> QED BY <1>5, <1>9, <2>1, <2>2 DEF Begin
<1>10. ASSUME NEW d \in Decisions, s = Resolves(d), ResolveApproval(Routine, ro.on, d)
       PROVE  /\ \E x : x.on = ro.on /\ InCall(x, s) /\ tx' = [tx EXCEPT ![Routine] = x]
              /\ Same /\ closed' = closed /\ Begin(Routine)
  <2> DEFINE x == Begun(ro.on, ResolveSteps(d, task[ro.on]))
  <2>1. tx' = [tx EXCEPT ![Routine] = x] /\ Same /\ closed' = closed
    BY <1>7, <1>10 DEF ResolveApproval
  <2>2. x.on = ro.on /\ InCall(x, s)
    BY <1>5, <1>10, StartsInCall, BegunOn
  <2> QED BY <1>5, <1>10, <2>1, <2>2 DEF Begin
<1> QED BY <1>1, <1>5, <1>6, <1>8, <1>9, <1>10 DEF s

\* The steps that leave the service alone.
Aside ==
  \/ \E rq \in Requests : Execute(rq)
  \/ SkipMalformed \/ CallRefused \/ Finish \/ EmitBriefing

LEMMA AsideLeavesTasks == Aside => UNCHANGED vars /\ UNCHANGED asked
BY DEF Aside, Execute, SkipMalformed, CallRefused, Finish, EmitBriefing, tasksUnchanged, vars

LEMMA OperatorBegins ==
  ASSUME NEW o \in Operators, OperatorCall(o)
  PROVE  Begin(o) /\ o \in Callers /\ UNCHANGED <<ro, briefing>> /\ asked' = asked \cup {o}
BY DEF OperatorCall, Begin, Operators

\* Every kind of step, as one of the service and of the routine.
LEMMA StepKinds ==
  ASSUME [RoutineNext]_routineVars
  PROVE  \/ Aside
         \/ BeginCreate
         \/ BeginCall
         \/ CallCommits
         \/ CallRaises
         \/ \E o \in Operators : OperatorCall(o)
         \/ \E o \in Operators : (Commit(o) \/ Rollback(o)) /\ UNCHANGED <<ro, asked, briefing>>
         \/ \E c \in Callers : Act(c) /\ UNCHANGED <<ro, asked, briefing>>
         \/ (CloseRun \/ UNCHANGED vars) /\ UNCHANGED <<ro, asked, briefing>>
BY DEF RoutineNext, Aside, OperatorEnds, Statement, Act, RunCloses, routineVars, vars

LEMMA NextCases ==
  ASSUME NEW c \in Callers
  PROVE  /\ Begin(c) => Next
         /\ Act(c) => Next
         /\ Commit(c) => Next
         /\ Rollback(c) => Next
BY DEF Begin, Act, Next

LEMMA StepImplements ==
  ASSUME RoutineTypes, OnCourse, [RoutineNext]_routineVars
  PROVE  [Next]_vars
<1>1. Routine \in Callers /\ Operators \subseteq Callers
  BY EARoutinesAssumption DEF Operators
<1>2. CASE Aside
  BY <1>2, AsideLeavesTasks
<1>3. CASE BeginCreate
  BY <1>1, <1>3, BeginCreateFacts, NextCases
<1>4. CASE BeginCall
  BY <1>1, <1>4, BeginCallFacts, NextCases
<1>5. CASE CallCommits
  BY <1>1, <1>5, NextCases DEF CallCommits
<1>6. CASE CallRaises
  BY <1>1, <1>6, NextCases DEF CallRaises
<1>7. ASSUME NEW o \in Operators, OperatorCall(o) PROVE Next
  BY <1>7, OperatorBegins, NextCases
<1>8. ASSUME NEW o \in Operators, Commit(o) \/ Rollback(o) PROVE Next
  BY <1>1, <1>8, NextCases
<1>9. ASSUME NEW c \in Callers, Act(c) PROVE Next
  BY <1>9, NextCases
<1>10. CASE CloseRun
  BY <1>10 DEF Next
<1> QED BY <1>2, <1>3, <1>4, <1>5, <1>6, <1>7, <1>8, <1>9, <1>10, StepKinds

-----------------------------------------------------------------------------
(* What a step of the service leaves true                                  *)

\* Rows stay, and the log only grows.
Kept ==
  /\ \A t \in Tasks : task[t] # None => task'[t] # None
  /\ \A i \in DOMAIN log : i \in DOMAIN log' /\ log'[i] = log[i]

LEMMA SameIsKept == Same => Kept
BY DEF Same, Kept

\* A transaction that commits.
LEMMA CommitEffects ==
  ASSUME IInv, NEW c \in Callers, Commit(c)
  PROVE  LET x == tx[c] IN
         /\ Kept
         /\ x.on \in Tasks /\ x.todo = <<>>
         /\ \A t \in Tasks : t # x.on => task'[t] = task[t]
         /\ task'[x.on] = Written(x.task, task[x.on])
         /\ \A k \in DOMAIN x.events :
              /\ Len(log) + k \in DOMAIN log'
              /\ log'[Len(log) + k] = [task |-> x.on, what |-> x.events[k]]
              /\ \A i \in DOMAIN log : i < Len(log) + k
         /\ tx' = [tx EXCEPT ![c] = NoTx]
<1> DEFINE x == tx[c]
<1>1. /\ x \in Transactions /\ x.on \in Tasks /\ x.todo = <<>>
      /\ x.events \in Seq(EventNames) /\ Adds(x.on, x.events)
      /\ task' = [task EXCEPT ![x.on] = Written(x.task, @)]
      /\ tx' = [tx EXCEPT ![c] = NoTx]
  BY CommitFacts
<1>2. TypeOK /\ task \in [Tasks -> TaskStates \cup {None}]
  BY DEF IInv, TypeOK
<1> HIDE DEF x
<1>3. /\ \A i \in DOMAIN log : i \in DOMAIN log' /\ log'[i] = log[i]
      /\ \A k \in DOMAIN x.events :
           /\ Len(log) + k \in DOMAIN log'
           /\ log'[Len(log) + k] = [task |-> x.on, what |-> x.events[k]]
      /\ \A i \in DOMAIN log : \A k \in DOMAIN x.events : i < Len(log) + k
  BY <1>1, <1>2, SaidAfter
<1>4. /\ \A t \in Tasks : t # x.on => task'[t] = task[t]
      /\ task'[x.on] = Written(x.task, task[x.on])
  BY <1>1, <1>2
<1>5. \A t \in Tasks : task[t] # None => task'[t] # None
  BY <1>4 DEF Written
<1> QED BY <1>1, <1>3, <1>4, <1>5 DEF Kept, x

LEMMA StepKeeps ==
  ASSUME IInv, [Next]_vars
  PROVE  Kept
<1>1. ASSUME NEW c \in Callers, Begin(c) PROVE Same
  BY <1>1 DEF Begin, CreateTask, TransitionTask, RequestApproval, ResolveApproval, Call, Same
<1>2. ASSUME NEW c \in Callers, Act(c) PROVE Same
  BY <1>2 DEF Act, SaveTask, SaveApproval, CheckPending, AppendEvent, Same
<1>3. ASSUME NEW c \in Callers, Rollback(c) PROVE Same
  BY <1>3 DEF Rollback, Same
<1>4. CloseRun \/ UNCHANGED vars => Same
  BY DEF CloseRun, vars, Same
<1>5. ASSUME NEW c \in Callers, Commit(c) PROVE Kept
  BY <1>5, CommitEffects
<1>6. \/ \E c \in Callers : Begin(c) \/ Act(c) \/ Commit(c) \/ Rollback(c)
      \/ CloseRun \/ UNCHANGED vars
  BY DEF Next, Begin, Act
<1> QED BY <1>1, <1>2, <1>3, <1>4, <1>5, <1>6, SameIsKept

LEMMA SaidStays ==
  ASSUME Kept
  PROVE  /\ \A t, names : Said(t, names) # {} => Said(t, names)' # {}
         /\ \A t : Completed(t) => Completed(t)'
BY DEF Kept, Said, Completed

\* What a call of the routine writes when it commits.
LEMMA CallWritten ==
  ASSUME NEW x, NEW call, InCall(x, call), x.todo = <<>>
  PROVE  /\ call = Creates => x.task = "draft"
         /\ \A st \in TaskStates : call = Moves(st) => x.task = st /\ x.events = <<st>>
         /\ call = Asks => x.task = "waiting_approval"
         /\ \A d \in Decisions :
              call = Resolves(d) => x.events = <<d>> /\ x.task \in {None, "failed"}
<1>1. \A a : <<a>> # <<>>
  OBVIOUS
<1>2. \A a, b : <<a, b>> # <<>>
  OBVIOUS
<1>3. \A a, b, c : <<a, b, c>> # <<>>
  OBVIOUS
<1>4. \A a, b, c, d : <<a, b, c, d>> # <<>>
  OBVIOUS
<1>5. \A st : MovingTo(x, st) => x.task = st /\ x.events = <<st>>
  BY <1>1, <1>2 DEF MovingTo, At
<1>6. Asking(x) => x.task = "waiting_approval"
  BY <1>1, <1>2, <1>3, <1>4 DEF Asking, At, RequestSteps
<1>7. \A d : DecidingOn(x, d) => x.events = <<d>> /\ x.task = None
  BY <1>1, <1>2, <1>3 DEF DecidingOn, At
<1>8. \A d : TimingOutOn(x, d) => x.events = <<d>> /\ x.task = "failed"
  BY <1>1, <1>2, <1>3, <1>4 DEF TimingOutOn, At
<1> QED BY <1>5, <1>6, <1>7, <1>8 DEF InCall

\* A call of the routine commits.
LEMMA RoutineCommits ==
  ASSUME IInv, RoutineInv, CallCommits
  PROVE  /\ Handling /\ ro.on \in Tasks /\ Kept /\ UNCHANGED <<asked, briefing>>
         /\ ro.step \in Nat /\ ro.step >= 1 /\ ro.step <= Len(Steps) /\ Len(Steps) \in Nat
         /\ Decision \in Answers
         /\ tx' = [tx EXCEPT ![Routine] = NoTx]
         /\ \A t \in Tasks : t # ro.on => task'[t] = task[t]
         /\ task'[ro.on] # None
         /\ ro.step = 4 => task'[ro.on] = "waiting_approval"
         /\ ro.step = 5 =>
              /\ \A t, d : t = ro.on /\ d = Decision => Said(t, {d})' # {}
              /\ asked = {} => task'[ro.on] \in {"waiting_approval", "failed"}
         /\ ro.step = Len(Steps) =>
              /\ Decision = None <=> ro.step = 4
              /\ Decision \notin {"granted", "denied_alternate"} => ro.step <= 5
              /\ ro.kind = "scheduler" /\ Decision = "granted" =>
                   ro.step > 5 /\ \A t : t = ro.on => Completed(t)'
<1> DEFINE x == tx[Routine]
           call == Steps[ro.step]
<1>1. x # NoTx /\ Commit(Routine) /\ Routine \in Callers /\ UNCHANGED <<asked, briefing>>
  BY EARoutinesAssumption DEF CallCommits
<1>2. Handling /\ ro.on \in Tasks /\ x.on = ro.on /\ InCall(x, call)
  BY <1>1 DEF RoutineInv, Calling
<1>3. ro.step \in Nat /\ ro.step >= 1 /\ ro.step <= Len(Steps)
  BY <1>2, StepFacts DEF RoutineInv, OnCourse
<1>4. /\ Len(Steps) \in Nat /\ Decision \in Answers
      /\ ro.step = 1 => call = Creates
      /\ ro.step \in {2, 3} \/ ro.step > 5 => \E st \in TaskStates : call = Moves(st)
      /\ ro.step = 4 => call = Asks
      /\ ro.step = 5 => Decision \in Decisions /\ call = Resolves(Decision)
      /\ ro.step = Len(Steps) =>
           /\ Decision = None <=> ro.step = 4
           /\ Decision \notin {"granted", "denied_alternate"} => ro.step <= 5
           /\ ro.kind = "scheduler" /\ Decision = "granted" =>
                ro.step = 8 /\ call = Moves("completed")
  BY <1>2, <1>3, ScriptCalls DEF RoutineInv
<1>5. /\ Kept /\ x.todo = <<>>
      /\ \A t \in Tasks : t # ro.on => task'[t] = task[t]
      /\ task'[ro.on] = Written(x.task, task[ro.on])
      /\ \A k \in DOMAIN x.events :
           /\ Len(log) + k \in DOMAIN log'
           /\ log'[Len(log) + k] = [task |-> ro.on, what |-> x.events[k]]
           /\ \A i \in DOMAIN log : i < Len(log) + k
      /\ tx' = [tx EXCEPT ![Routine] = NoTx]
  BY <1>1, <1>2, CommitEffects
<1> HIDE DEF x, call
<1>6. /\ call = Creates => x.task = "draft"
      /\ \A st \in TaskStates : call = Moves(st) => x.task = st /\ x.events = <<st>>
      /\ call = Asks => x.task = "waiting_approval"
      /\ \A d \in Decisions :
           call = Resolves(d) => x.events = <<d>> /\ x.task \in {None, "failed"}
  BY <1>2, <1>5, CallWritten
<1>7. ro.step > 1 => task[ro.on] # None
  BY <1>2 DEF RoutineInv, OnCourse, Handling, AtItem
<1>8. task'[ro.on] # None
  <2>1. ro.step = 1 => task'[ro.on] = "draft"
    BY <1>4, <1>5, <1>6, NoneFacts DEF Written
  <2>2. ro.step > 1 => task'[ro.on] # None
    BY <1>5, <1>7 DEF Written
  <2> QED BY <1>3, <2>1, <2>2, NoneFacts
<1>9. ro.step = 4 => task'[ro.on] = "waiting_approval"
  BY <1>4, <1>5, <1>6, NoneFacts DEF Written
<1>10. ASSUME NEW name, x.events = <<name>>
       PROVE  /\ \E i \in DOMAIN log' :
                   /\ log'[i] = [task |-> ro.on, what |-> name]
                   /\ \A h \in DOMAIN log : h < i
  <2>1. 1 \in DOMAIN x.events /\ x.events[1] = name
    BY <1>10
  <2> QED BY <1>5, <2>1
<1>11. ASSUME ro.step = 5
       PROVE  /\ \A t, d : t = ro.on /\ d = Decision => Said(t, {d})' # {}
              /\ asked = {} => task'[ro.on] \in {"waiting_approval", "failed"}
  <2>1. x.events = <<Decision>> /\ x.task \in {None, "failed"}
    BY <1>4, <1>6, <1>11
  <2>2. \E i \in DOMAIN log' : log'[i] = [task |-> ro.on, what |-> Decision]
    BY <1>10, <2>1
  <2>3. \A t, d : t = ro.on /\ d = Decision => Said(t, {d})' # {}
    BY <2>2 DEF Said
  <2>4. asked = {} => task[ro.on] = "waiting_approval"
    BY <1>2, <1>11 DEF RoutineInv, OnCourse, Handling, AtItem
  <2> QED BY <1>5, <2>1, <2>3, <2>4 DEF Written
<1>12. ASSUME ro.step = Len(Steps), ro.kind = "scheduler", Decision = "granted"
       PROVE  \A t : t = ro.on => Completed(t)'
  <2>1. ro.step = 8 /\ call = Moves("completed")
    BY <1>4, <1>12
  <2>2. x.events = <<"completed">>
    BY <1>6, <2>1, CallTypes
  <2>3. Said(ro.on, {Decision}) # {}
    <3>1. ro.step > 5 /\ ro.step > 1
      BY <1>3, <2>1
    <3> QED BY <1>2, <3>1 DEF RoutineInv, OnCourse, Handling, AtItem
  <2>4. PICK a \in DOMAIN log : log[a].task = ro.on /\ log[a].what = "granted"
    BY <1>12, <2>3 DEF Said
  <2>5. log[a] = [task |-> ro.on, what |-> "granted"]
    <3>1. log[a] \in Entries
      BY DEF IInv, TypeOK
    <3> QED BY <2>4, <3>1 DEF Entries
  <2>6. a \in DOMAIN log' /\ log'[a] = [task |-> ro.on, what |-> "granted"]
    BY <1>5, <2>5 DEF Kept
  <2>7. PICK b \in DOMAIN log' :
          log'[b] = [task |-> ro.on, what |-> "completed"] /\ a < b
    BY <1>10, <2>2
  <2> QED BY <2>6, <2>7 DEF Completed
<1>13. ro.step = Len(Steps) /\ ro.kind = "scheduler" /\ Decision = "granted" => ro.step > 5
  <2>1. ro.step = 8 => ro.step > 5
    BY <1>3
  <2> QED BY <1>4, <2>1
<1> QED BY <1>1, <1>2, <1>3, <1>4, <1>5, <1>8, <1>9, <1>11, <1>12, <1>13

-----------------------------------------------------------------------------
(* The invariant of the routine is kept                                    *)

\* The next execution, as the record of its fields.
LEMMA ExecuteFacts ==
  ASSUME NEW rq \in Requests, Execute(rq)
  PROVE  \E k \in {"briefing", "scheduler", "triage"} :
           ro' = [status |-> "running", kind |-> k, rq |-> rq, nr |-> 1, step |-> 1,
                  on |-> None, outcomes |-> <<>>]
<1>1. \A asset : Handler(asset) \in {"briefing", "scheduler", "triage", ""}
  BY DEF Handler
<1>2. PICK k : k # "" /\ k \in {"briefing", "scheduler", "triage", ""}
                /\ ro' = [NotStarted EXCEPT !.status = "running", !.kind = k, !.rq = rq]
  BY <1>1 DEF Execute
<1> QED BY <1>2 DEF NotStarted

LEMMA AppendFacts ==
  ASSUME NEW S, NEW s \in Seq(S), NEW o \in S
  PROVE  /\ Append(s, o) \in Seq(S) /\ Len(Append(s, o)) = Len(s) + 1
         /\ \A i \in DOMAIN Append(s, o) :
              \/ i \in DOMAIN s /\ Append(s, o)[i] = s[i]
              \/ i = Len(s) + 1 /\ Append(s, o)[i] = o
BY AppendProperties

LEMMA TypesKept ==
  ASSUME IInv, RoutineInv, [RoutineNext]_routineVars
  PROVE  RoutineTypes'
<1>1. /\ ro \in Executions /\ (ro.status = "idle" => ro = NotStarted)
      /\ ro.status # "idle" => ro.rq \in Requests
      /\ Len(ro.outcomes) = ro.nr - 1
      /\ ro.step \in Nat /\ ro.nr \in Nat /\ ro.outcomes \in Seq(Outcomes)
  BY StepFacts DEF RoutineInv, RoutineTypes
<1>2. \A n \in Nat : n + 1 \in Nat \ {0}
  OBVIOUS
<1>3. ASSUME NEW rq \in Requests, Execute(rq) PROVE RoutineTypes'
  <2>1. PICK k \in {"briefing", "scheduler", "triage"} :
           ro' = [status |-> "running", kind |-> k, rq |-> rq, nr |-> 1, step |-> 1,
                  on |-> None, outcomes |-> <<>>]
    BY <1>3, ExecuteFacts
  <2>2. <<>> \in Seq(Outcomes) /\ Len(<<>>) = 1 - 1 /\ 1 \in Nat \ {0}
    OBVIOUS
  <2>3. ro' \in Executions
    BY <2>1, <2>2 DEF Executions
  <2>4. ro'.status = "running" /\ ro'.rq = rq /\ Len(ro'.outcomes) = ro'.nr - 1
    BY <2>1, <2>2
  <2> QED BY <2>3, <2>4 DEF RoutineTypes
<1>4. CASE ro' = ro
  BY <1>1, <1>4 DEF RoutineTypes
<1>5. ASSUME NEW st \in {"running", "done", "failed"}, ro.status = "running",
             ro' = [ro EXCEPT !.status = st]
      PROVE  RoutineTypes'
  BY <1>1, <1>5 DEF RoutineTypes, Executions
<1>6. ASSUME ro.status = "running", ro' = [ro EXCEPT !.step = @ + 1] PROVE RoutineTypes'
  BY <1>1, <1>2, <1>6 DEF RoutineTypes, Executions
<1>7. ASSUME NEW t \in Tasks, ro.status = "running", ro' = [ro EXCEPT !.on = t]
      PROVE  RoutineTypes'
  BY <1>1, <1>7 DEF RoutineTypes, Executions
<1>8. ASSUME NEW o \in Outcomes, NEW on \in Tasks \cup {None}, NEW step \in Nat \ {0},
             ro.status = "running",
             ro' = [ro EXCEPT !.nr = @ + 1, !.step = step, !.on = on,
                      !.outcomes = Append(@, o)]
      PROVE  RoutineTypes'
  <2>1. Append(ro.outcomes, o) \in Seq(Outcomes) /\ Len(Append(ro.outcomes, o)) = ro.nr
    BY <1>1, AppendFacts
  <2>2. ro.nr + 1 \in Nat \ {0}
    BY <1>1, <1>2
  <2> DEFINE all == Append(ro.outcomes, o)
             nr == ro.nr + 1
  <2>3. ro' = [ro EXCEPT !.nr = nr, !.step = step, !.on = on, !.outcomes = all]
    BY <1>8
  <2>6. Len(all) = nr - 1
    BY <1>1, <2>1
  <2> HIDE DEF all, nr
  <2>4. ro' \in Executions /\ ro'.nr = nr /\ ro'.outcomes = all
    <3>1. all \in Seq(Outcomes) /\ nr \in Nat \ {0}
      BY <2>1, <2>2 DEF all, nr
    <3> QED BY <1>1, <1>8, <2>3, <3>1 DEF Executions
  <2>5. ro'.status = "running" /\ ro'.rq = ro.rq
    BY <1>1, <1>8, <2>3 DEF Executions
  <2> QED BY <1>1, <1>8, <2>4, <2>5, <2>6 DEF RoutineTypes
<1>9. CASE SkipMalformed
  <2>1. Skipped \in Outcomes /\ ro.status = "running"
    BY <1>9 DEF Skipped, Outcomes, SkipMalformed, AtItem, Running
  <2>2. ro' = [ro EXCEPT !.nr = @ + 1, !.step = ro.step, !.on = ro.on,
                 !.outcomes = Append(@, Skipped)]
    BY <1>1, <1>9 DEF SkipMalformed, Skipped, Executions
  <2>3. ro.on \in Tasks \cup {None} /\ ro.step \in Nat \ {0}
    BY <1>1 DEF Executions
  <2> QED BY <1>8, <2>1, <2>2, <2>3
<1>10. CASE CallRefused
  BY <1>5, <1>10 DEF CallRefused, InItem, AtItem, Running
<1>11. CASE Finish
  BY <1>5, <1>11 DEF Finish, Running
<1>12. CASE EmitBriefing
  BY <1>5, <1>6, <1>12 DEF EmitBriefing, Running
<1>13. CASE BeginCreate
  BY <1>7, <1>13 DEF BeginCreate, InItem, AtItem, Running
<1>14. CASE CallCommits
  <2>1. Handling /\ ro.on \in Tasks /\ Decision \in Answers
    BY <1>14, RoutineCommits
  <2>2. ro.status = "running"
    BY <2>1 DEF Handling, AtItem, Running
  <2> DEFINE o == [task |-> ro.on, what |-> Decision]
  <2>3. o \in Outcomes
    BY <2>1 DEF Outcomes
  <2>4. \/ ro' = [ro EXCEPT !.step = @ + 1]
        \/ ro' = [ro EXCEPT !.nr = @ + 1, !.step = 1, !.on = None,
                    !.outcomes = Append(@, o)]
    BY <1>14 DEF CallCommits
  <2> HIDE DEF o
  <2>5. None \in Tasks \cup {None} /\ 1 \in Nat \ {0}
    OBVIOUS
  <2> QED BY <1>6, <1>8, <2>2, <2>3, <2>4, <2>5
<1>15. CASE CallRaises
  <2>1. Handling
    BY <1>15 DEF CallRaises, RoutineInv, Calling
  <2> QED BY <1>5, <1>15, <2>1 DEF CallRaises, Handling, AtItem, Running
<1>16. BeginCall \/ (\E o \in Operators : OperatorCall(o)) => ro' = ro
  BY DEF BeginCall, OperatorCall
<1> QED BY <1>3, <1>4, <1>9, <1>10, <1>11, <1>12, <1>13, <1>14, <1>15, <1>16, StepKinds
        DEF Aside

\* Transactions of the others.
LEMMA UnaskedKept ==
  ASSUME IInv, RoutineInv, [RoutineNext]_routineVars
  PROVE  Unasked' /\ asked \subseteq asked'
<1>1. /\ tx \in [Callers -> Transactions] /\ Routine \in Callers
      /\ Unasked /\ Operators \subseteq Callers /\ Routine \notin Operators
  BY EARoutinesAssumption DEF RoutineInv, IInv, TypeOK, Operators
<1>2. ASSUME NEW x, tx' = [tx EXCEPT ![Routine] = x], asked' = asked
      PROVE  Unasked' /\ asked \subseteq asked'
  BY <1>1, <1>2 DEF Unasked
<1>3. ASSUME UNCHANGED <<tx, asked>> PROVE Unasked' /\ asked \subseteq asked'
  BY <1>1, <1>3 DEF Unasked
<1>4. CASE Aside
  BY <1>3, <1>4, AsideLeavesTasks DEF vars
<1>5. CASE BeginCreate
  BY <1>2, <1>5, BeginCreateFacts DEF RoutineInv
<1>6. CASE BeginCall
  BY <1>2, <1>6, BeginCallFacts DEF RoutineInv
<1>7. CASE CallCommits
  BY <1>2, <1>7, RoutineCommits
<1>8. CASE CallRaises
  BY <1>2, <1>8 DEF CallRaises, Rollback
<1>9. ASSUME NEW o \in Operators, OperatorCall(o) PROVE Unasked' /\ asked \subseteq asked'
  <2>1. asked' = asked \cup {o} /\ Begin(o) /\ o \in Callers
    BY <1>9, OperatorBegins
  <2>2. \E x : tx' = [tx EXCEPT ![o] = x]
    BY <2>1, BeginIsFresh DEF IInv
  <2> QED BY <1>1, <2>1, <2>2 DEF Unasked
<1>10. ASSUME NEW o \in Operators, Commit(o) \/ Rollback(o), asked' = asked
       PROVE  Unasked' /\ asked \subseteq asked'
  <2>1. tx' = [tx EXCEPT ![o] = NoTx]
    BY <1>10 DEF Commit, Rollback
  <2> QED BY <1>1, <1>10, <2>1 DEF Unasked
<1>11. ASSUME NEW c \in Callers, Act(c), asked' = asked PROVE Unasked' /\ asked \subseteq asked'
  <2>1. tx[c].todo # <<>> /\ tx' = [tx EXCEPT ![c] = Effect(tx[c])]
    BY <1>11, ActIsEffect DEF IInv
  <2>2. tx[c] # NoTx
    BY <2>1 DEF NoTx
  <2> QED BY <1>1, <1>11, <2>1, <2>2 DEF Unasked
<1>12. CASE (CloseRun \/ UNCHANGED vars) /\ UNCHANGED <<ro, asked, briefing>>
  BY <1>3, <1>12 DEF CloseRun, vars
<1> QED BY <1>4, <1>5, <1>6, <1>7, <1>8, <1>9, <1>10, <1>11, <1>12, StepKinds

\* The same item has the same script.
LEMMA SameItem ==
  ASSUME ro'.status = ro.status, ro'.kind = ro.kind, ro'.rq = ro.rq, ro'.nr = ro.nr
  PROVE  /\ Handling' <=> Handling
         /\ Steps' = Steps /\ Decision' = Decision
BY DEF Handling, AtItem, Running, Item, Steps, Decision

LEMMA LongEnough ==
  ASSUME RoutineTypes', Handling'
  PROVE  Len(Steps') \in Nat /\ 1 <= Len(Steps')
<1> DEFINE d == Decision'
<1>1. ro'.rq \in Requests
  BY DEF RoutineTypes, Handling, AtItem, Running
<1>2. d \in Answers
  BY <1>1, DecisionType DEF Decision
<1>3. Steps' = IF ro'.kind = "triage" THEN TriageSteps(d) ELSE SchedulerSteps(d)
  BY DEF Steps
<1> HIDE DEF d
<1>4. Starts(TriageSteps(d), d) /\ Starts(SchedulerSteps(d), d)
  BY <1>2, TriageScript, SchedulerScript
<1>5. \A s : Starts(s, d) => Len(s) \in Nat /\ 1 <= Len(s)
  BY DEF Starts
<1> QED BY <1>3, <1>4, <1>5

\* While the routine has no call open, or its execution stays the same.
LEMMA CallingKept ==
  ASSUME IInv, RoutineInv, [RoutineNext]_routineVars
  PROVE  Calling'
<1>1. /\ tx \in [Callers -> Transactions] /\ Routine \in Callers
      /\ Calling /\ RoutineTypes /\ OnCourse /\ Operators = Callers \ {Routine}
  BY EARoutinesAssumption DEF RoutineInv, IInv, TypeOK, Operators
<1>2. CASE tx'[Routine] = NoTx
  BY <1>2 DEF Calling
<1>3. ASSUME ro' = ro, tx'[Routine] = tx[Routine] PROVE Calling'
  <2>1. (Handling' <=> Handling) /\ Steps' = Steps
    BY <1>3, SameItem
  <2> QED BY <1>1, <1>3, <2>1 DEF Calling
<1>4. ASSUME ro' = ro, NEW x, x.on = ro.on, ro.on \in Tasks, Handling,
             InCall(x, Steps[ro.step]), tx' = [tx EXCEPT ![Routine] = x]
      PROVE  Calling'
  <2>1. (Handling' <=> Handling) /\ Steps' = Steps
    BY <1>4, SameItem
  <2>2. tx'[Routine] = x
    BY <1>1, <1>4
  <2> QED BY <1>4, <2>1, <2>2 DEF Calling
<1>5. CASE Aside
  <2>1. tx' = tx
    BY <1>5, AsideLeavesTasks DEF vars
  <2>2. ~Handling \/ tx[Routine] = NoTx
    <3>1. ASSUME NEW rq \in Requests, Execute(rq) PROVE ~Handling
      BY <3>1 DEF Execute, NotStarted, Handling, AtItem, Running
    <3>2. CASE SkipMalformed
      BY <3>2 DEF SkipMalformed, Handling
    <3>3. CASE CallRefused
      BY <3>3 DEF CallRefused, InItem
    <3>4. CASE Finish
      <4> SUFFICES ASSUME Handling PROVE FALSE
        OBVIOUS
      <4>1. ro.rq \in Requests /\ ro.nr \in Nat
        BY <1>1, DecisionInAnswers, StepFacts
      <4>2. Len(ro.rq.items) \in Nat
        BY <4>1, EARoutinesAssumption
      <4> QED BY <3>4, <4>1, <4>2 DEF Finish, Handling, AtItem, Running
    <3>5. CASE EmitBriefing
      BY <3>5 DEF EmitBriefing, Handling, AtItem, Running
    <3> QED BY <1>5, <3>1, <3>2, <3>3, <3>4, <3>5 DEF Aside
  <2> QED BY <1>1, <1>2, <2>1, <2>2 DEF Calling
<1>6. CASE BeginCreate
  <2>1. PICK t \in Tasks :
          /\ ro' = [ro EXCEPT !.on = t] /\ tx' = [tx EXCEPT ![Routine] = Begun(t, CreateSteps)]
          /\ Begun(t, CreateSteps).on = t /\ InCall(Begun(t, CreateSteps), Steps[1])
    BY <1>1, <1>6, BeginCreateFacts
  <2>2. Handling /\ ro.step = 1
    BY <1>1, <1>6, BeginCreateFacts
  <2>3. /\ ro'.status = ro.status /\ ro'.kind = ro.kind /\ ro'.rq = ro.rq /\ ro'.nr = ro.nr
        /\ ro'.step = 1 /\ ro'.on = t
    BY <1>1, <2>1, <2>2 DEF RoutineTypes, Executions
  <2>4. Handling' /\ Steps' = Steps
    BY <2>2, <2>3, SameItem
  <2>5. tx'[Routine] = Begun(t, CreateSteps)
    BY <1>1, <2>1
  <2> QED BY <2>1, <2>3, <2>4, <2>5 DEF Calling
<1>7. CASE BeginCall
  <2>1. PICK x : /\ x.on = ro.on /\ InCall(x, Steps[ro.step])
                 /\ tx' = [tx EXCEPT ![Routine] = x]
    BY <1>1, <1>7, BeginCallFacts
  <2>2. Handling /\ ro.on \in Tasks /\ ro' = ro
    BY <1>1, <1>7, BeginCallFacts
  <2> QED BY <1>4, <2>1, <2>2
<1>8. CASE CallCommits \/ CallRaises
  BY <1>1, <1>2, <1>8 DEF CallCommits, CallRaises, Commit, Rollback
<1>9. ASSUME NEW o \in Operators, OperatorCall(o) PROVE Calling'
  <2>1. Begin(o) /\ ro' = ro /\ o \in Callers /\ o # Routine
    BY <1>1, <1>9, OperatorBegins
  <2>2. \E x : tx' = [tx EXCEPT ![o] = x]
    BY <2>1, BeginIsFresh DEF IInv
  <2> QED BY <1>1, <1>3, <2>1, <2>2
<1>10. ASSUME NEW o \in Operators, Commit(o) \/ Rollback(o), ro' = ro PROVE Calling'
  <2>1. tx' = [tx EXCEPT ![o] = NoTx] /\ o # Routine
    BY <1>1, <1>10 DEF Commit, Rollback
  <2> QED BY <1>1, <1>3, <1>10, <2>1
<1>11. ASSUME NEW c \in Callers, Act(c), ro' = ro PROVE Calling'
  <2>1. /\ Busy(tx[c]) /\ tx[c].todo # <<>> /\ tx[c] \in Transactions
        /\ tx' = [tx EXCEPT ![c] = Effect(tx[c])]
    BY <1>11, ActIsEffect DEF IInv
  <2>2. CASE c = Routine
    <3> DEFINE x == tx[Routine]
    <3>1. x # NoTx
      BY <2>1, <2>2 DEF NoTx
    <3>2. Handling /\ ro.on \in Tasks /\ x.on = ro.on /\ InCall(x, Steps[ro.step])
      BY <1>1, <3>1 DEF Calling
    <3>3. InCall(Effect(x), Steps[ro.step])
      BY <2>1, <2>2, <3>2, InCallAdvances
    <3>4. Effect(x).on = ro.on
      BY <2>1, <2>2, <3>2 DEF Effect, Transactions
    <3> QED BY <1>4, <1>11, <2>1, <2>2, <3>2, <3>3, <3>4
  <2>3. CASE c # Routine
    BY <1>1, <1>3, <1>11, <2>1, <2>3
  <2> QED BY <2>2, <2>3
<1>12. ASSUME CloseRun \/ UNCHANGED vars, ro' = ro PROVE Calling'
  BY <1>3, <1>12 DEF CloseRun, vars
<1> QED BY <1>5, <1>6, <1>7, <1>8, <1>9, <1>10, <1>11, <1>12, StepKinds

\* Where no operator has called, only the routine moves tasks.
LEMMA NobodyElse ==
  ASSUME IInv, RoutineInv, [RoutineNext]_routineVars, asked' = {}
  PROVE  asked = {} /\ (CallCommits \/ task' = task)
<1>1. asked = {}
  BY UnaskedKept
<1>2. ASSUME NEW o \in Operators, Commit(o) \/ Rollback(o) PROVE FALSE
  BY <1>1, <1>2 DEF RoutineInv, Unasked, Commit, Rollback
<1>3. ASSUME NEW c \in Callers, Act(c) PROVE task' = task
  BY <1>3, ActIsEffect DEF IInv, Same
<1>4. CASE Aside
  BY <1>1, <1>4, AsideLeavesTasks DEF vars
<1>5. CASE BeginCreate \/ BeginCall
  BY <1>1, <1>5, BeginCreateFacts, BeginCallFacts DEF RoutineInv, Same
<1>6. CASE CallRaises \/ CloseRun \/ UNCHANGED vars
  BY <1>1, <1>6 DEF CallRaises, Rollback, CloseRun, vars
<1>7. ASSUME NEW o \in Operators, OperatorCall(o) PROVE FALSE
  BY <1>7, OperatorBegins
<1> QED BY <1>1, <1>2, <1>3, <1>4, <1>5, <1>6, <1>7, StepKinds

LEMMA StepIsKept ==
  ASSUME IInv, RoutineInv, [RoutineNext]_routineVars
  PROVE  Kept
BY StepImplements, StepKeeps DEF RoutineInv

LEMMA OnCourseKept ==
  ASSUME IInv, RoutineInv, [RoutineNext]_routineVars
  PROVE  OnCourse'
<1>1. /\ OnCourse /\ RoutineTypes /\ RoutineTypes' /\ Kept /\ ro \in Executions
      /\ ro.step \in Nat /\ ro.step >= 1
  BY TypesKept, StepIsKept, StepFacts DEF RoutineInv, RoutineTypes
<1>2. ASSUME ro'.step = 1 PROVE OnCourse'
  <2>1. Handling' => ro'.step <= Len(Steps')
    BY <1>1, <1>2, LongEnough
  <2>2. ~(ro'.step > 1)
    BY <1>2
  <2> QED BY <2>1, <2>2 DEF OnCourse
<1>3. ASSUME ro'.status # "running" \/ ro'.kind \notin {"scheduler", "triage"} PROVE OnCourse'
  BY <1>3 DEF OnCourse, Handling, AtItem, Running
<1>4. ASSUME ro' = ro, ~CallCommits PROVE OnCourse'
  <2>1. (Handling' <=> Handling) /\ Steps' = Steps /\ Decision' = Decision
    BY <1>4, SameItem
  <2>2. Handling' => ro'.step <= Len(Steps')
    BY <1>1, <1>4, <2>1 DEF OnCourse
  <2>3. ASSUME Running({"scheduler", "triage"})', ro'.step > 1
        PROVE  /\ Handling' /\ ro'.on \in Tasks /\ task'[ro'.on] # None
               /\ ro'.step > 5 => Said(ro.on, {Decision})' # {}
               /\ ro'.step = 5 /\ asked' = {} => task'[ro'.on] = "waiting_approval"
    <3>1. Running({"scheduler", "triage"}) /\ ro.step > 1
      BY <1>4, <2>3 DEF Running
    <3>2. /\ Handling /\ ro.on \in Tasks /\ task[ro.on] # None
          /\ ro.step > 5 => Said(ro.on, {Decision}) # {}
          /\ ro.step = 5 /\ asked = {} => task[ro.on] = "waiting_approval"
      BY <1>1, <3>1 DEF OnCourse
    <3>3. task'[ro.on] # None
      BY <1>1, <3>2 DEF Kept
    <3>4. ro.step > 5 => Said(ro.on, {Decision})' # {}
      <4> DEFINE on == ro.on
                 d == Decision
      <4>1. on' = on /\ d' = d
        BY <1>4, <2>1
      <4>2. Said(on, {d}) # {} => \E i \in DOMAIN log' : log'[i].task = on /\ log'[i].what = d
        BY <1>1 DEF Said, Kept
      <4>3. (\E i \in DOMAIN log' : log'[i].task = on /\ log'[i].what = d) =>
              Said(on, {d})' # {}
        BY <4>1 DEF Said
      <4> QED BY <3>2, <4>2, <4>3
    <3>5. ro.step = 5 /\ asked' = {} => task'[ro.on] = "waiting_approval"
      BY <1>4, <3>2, NobodyElse
    <3> QED BY <1>4, <2>1, <3>2, <3>3, <3>4, <3>5
  <2> QED BY <2>2, <2>3 DEF OnCourse
<1>5. ASSUME NEW rq \in Requests, Execute(rq) PROVE OnCourse'
  BY <1>2, <1>5, ExecuteFacts
<1>6. CASE SkipMalformed
  <2>1. Running({"scheduler", "triage"}) /\ ~Handling
    BY <1>6 DEF SkipMalformed, Handling, AtItem
  <2>2. ro.step = 1
    BY <1>1, <2>1 DEF OnCourse
  <2>3. ro'.step = ro.step
    BY <1>1, <1>6 DEF SkipMalformed, Executions
  <2> QED BY <1>2, <2>2, <2>3
<1>7. ASSUME NEW st, ro' = [ro EXCEPT !.status = st], st # "running" PROVE OnCourse'
  BY <1>1, <1>3, <1>7 DEF Executions
<1>8. CASE CallRefused \/ Finish \/ CallRaises
  BY <1>7, <1>8 DEF CallRefused, Finish, CallRaises
<1>9. CASE EmitBriefing
  <2>1. ro.kind = "briefing"
    BY <1>9 DEF EmitBriefing, Running
  <2>2. ro'.kind = ro.kind
    BY <1>1, <1>9 DEF EmitBriefing, Executions
  <2> QED BY <1>3, <2>1, <2>2
<1>10. CASE BeginCreate
  <2>1. ro.step = 1 /\ \E t \in Tasks : ro' = [ro EXCEPT !.on = t]
    BY <1>1, <1>10, BeginCreateFacts
  <2>2. ro'.step = 1
    BY <1>1, <2>1 DEF Executions
  <2> QED BY <1>2, <2>2
<1>11. CASE CallCommits /\ ro.step < Len(Steps)
  <2>1. /\ Handling /\ ro.on \in Tasks /\ Len(Steps) \in Nat /\ UNCHANGED asked
        /\ task'[ro.on] # None
        /\ ro.step = 4 => task'[ro.on] = "waiting_approval"
        /\ ro.step = 5 => \A t, d : t = ro.on /\ d = Decision => Said(t, {d})' # {}
    BY <1>11, RoutineCommits
  <2>2. ro' = [ro EXCEPT !.step = @ + 1]
    BY <1>11 DEF CallCommits
  <2>3. /\ ro'.status = ro.status /\ ro'.kind = ro.kind /\ ro'.rq = ro.rq /\ ro'.nr = ro.nr
        /\ ro'.step = ro.step + 1 /\ ro'.on = ro.on
    BY <1>1, <2>2 DEF Executions
  <2>4. Handling' /\ Steps' = Steps /\ Decision' = Decision
    BY <2>1, <2>3, SameItem
  <2>5. ro'.step <= Len(Steps')
    BY <1>1, <1>11, <2>1, <2>3, <2>4
  <2>6. ro'.step > 5 => Said(ro.on, {Decision})' # {}
    <3>1. ro'.step > 5 => ro.step = 5 \/ ro.step > 5
      BY <1>1, <2>3
    <3> DEFINE on == ro.on
               d == Decision
               There == \E i \in DOMAIN log' : log'[i].task = on /\ log'[i].what = d
    <3>2. on' = on /\ d' = d
      BY <2>3, <2>4
    <3>3. There => Said(on, {d})' # {}
      BY <3>2 DEF Said
    <3>4. ro.step = 5 => There
      <4>1. \A t, e : t = on /\ e = d =>
              (Said(t, {e})' # {} => \E i \in DOMAIN log' : log'[i].task = t /\ log'[i].what = e)
        BY DEF Said
      <4> QED BY <2>1, <4>1
    <3>5. ro.step > 5 => There
      <4>1. ro.step > 5 => Said(on, {d}) # {}
        <5>1. ro.step > 5 => ro.step > 1
          BY <1>1
        <5> QED BY <1>1, <2>1, <5>1 DEF OnCourse, Handling, AtItem
      <4>2. Said(on, {d}) # {} => There
        BY <1>1 DEF Said, Kept
      <4> QED BY <4>1, <4>2
    <3> QED BY <3>1, <3>3, <3>4, <3>5
  <2>7. ro'.step = 5 => ro.step = 4
    BY <1>1, <2>3
  <2> QED BY <2>1, <2>3, <2>4, <2>5, <2>6, <2>7 DEF OnCourse
<1>12. CASE CallCommits /\ ~(ro.step < Len(Steps))
  <2>1. ro' = [ro EXCEPT !.nr = @ + 1, !.step = 1, !.on = None,
                 !.outcomes = Append(@, [task |-> ro.on, what |-> Decision])]
    BY <1>12 DEF CallCommits
  <2>2. ro'.step = 1
    BY <1>1, <2>1 DEF Executions
  <2> QED BY <1>2, <2>2
<1>13. BeginCall \/ (\E o \in Operators : OperatorCall(o)) => ro' = ro
  BY DEF BeginCall, OperatorCall
<1> QED BY <1>4, <1>5, <1>6, <1>8, <1>9, <1>10, <1>11, <1>12, <1>13, StepKinds DEF Aside

\* What is told of an outcome stays true.
LEMMA ToldStays ==
  ASSUME IInv, RoutineInv, [RoutineNext]_routineVars,
         NEW o, NEW i, Told(o, i),
         ro'.kind = ro.kind, ro'.rq = ro.rq, ro'.on # o.task
  PROVE  Told(o, i)'
<1>1. Kept
  BY StepIsKept
<1>2. task'[o.task] # None
  BY <1>1 DEF Told, Kept
<1>3. o.what \in Decisions => Said(o.task, {o.what})' # {}
  BY <1>1, SaidStays DEF Told
<1>4. Completed(o.task) => Completed(o.task)'
  BY <1>1, SaidStays
<1>5. asked' = {} => asked = {} /\ task'[o.task] = task[o.task]
  <2> SUFFICES ASSUME asked' = {} PROVE asked = {} /\ task'[o.task] = task[o.task]
    OBVIOUS
  <2>1. asked = {} /\ (CallCommits \/ task' = task)
    BY NobodyElse
  <2>2. CASE CallCommits
    <3>1. \A t \in Tasks : t # ro.on => task'[t] = task[t]
      BY <2>2, RoutineCommits
    <3> QED BY <2>1, <3>1 DEF Told
  <2> QED BY <2>1, <2>2
<1>6. o.what = DecisionFor(ro'.kind, ro'.rq.items[i], i, ro'.rq.decisions)
  BY DEF Told
<1> QED BY <1>2, <1>3, <1>4, <1>5, <1>6 DEF Told

LEMMA ReportedKept ==
  ASSUME IInv, RoutineInv, [RoutineNext]_routineVars
  PROVE  Reported'
<1>1. /\ RoutineTypes /\ ro \in Executions /\ Reported /\ ro.outcomes \in Seq(Outcomes)
      /\ Len(ro.outcomes) = ro.nr - 1 /\ ro.nr \in Nat
  BY StepFacts DEF RoutineInv, RoutineTypes
<1>2. ASSUME ro'.outcomes = ro.outcomes, ro'.kind = ro.kind, ro'.rq = ro.rq,
             \A o, i : Told(o, i) => ro'.on # o.task
      PROVE  Reported'
  <2> SUFFICES ASSUME NEW i \in DOMAIN ro.outcomes, NEW o \in Outcomes, o = ro.outcomes[i],
                      o # Skipped
               PROVE  Told(o, i)'
    BY <1>2 DEF Reported
  <2>1. Told(o, i)
    BY <1>1 DEF Reported
  <2> QED BY <1>2, <2>1, ToldStays
<1>3. ASSUME NEW new \in Outcomes, ro'.outcomes = Append(ro.outcomes, new),
             ro'.kind = ro.kind, ro'.rq = ro.rq,
             \A o, i : Told(o, i) => ro'.on # o.task,
             new = Skipped \/ \A n : n = ro.nr => Told(new, n)'
      PROVE  Reported'
  <2>1. \A i \in DOMAIN ro'.outcomes :
          \/ i \in DOMAIN ro.outcomes /\ ro'.outcomes[i] = ro.outcomes[i]
          \/ i = Len(ro.outcomes) + 1 /\ ro'.outcomes[i] = new
    BY <1>1, <1>3, AppendFacts
  <2> SUFFICES ASSUME NEW i \in DOMAIN ro'.outcomes, NEW o \in Outcomes, o = ro'.outcomes[i],
                      o # Skipped
               PROVE  Told(o, i)'
    BY DEF Reported
  <2>2. CASE i \in DOMAIN ro.outcomes /\ ro'.outcomes[i] = ro.outcomes[i]
    <3>1. Told(o, i)
      BY <1>1, <2>2 DEF Reported
    <3> QED BY <1>3, <3>1, ToldStays
  <2>3. CASE i = Len(ro.outcomes) + 1 /\ ro'.outcomes[i] = new
    <3>1. i = ro.nr /\ o = new
      BY <1>1, <2>3
    <3>2. \A n : n = ro.nr => Told(new, n)'
      BY <1>3, <2>3
    <3> QED BY <3>1, <3>2
  <2> QED BY <2>1, <2>2, <2>3
<1>4. \A o, i : Told(o, i) => ro.on # o.task
  BY DEF Told
<1>5. CASE ro' = ro
  BY <1>2, <1>4, <1>5
<1>6. ASSUME NEW rq \in Requests, Execute(rq) PROVE Reported'
  <2>1. ro'.outcomes = <<>>
    BY <1>6, ExecuteFacts
  <2> QED BY <2>1 DEF Reported
<1>7. ASSUME NEW st, ro' = [ro EXCEPT !.status = st] PROVE Reported'
  <2>1. ro'.outcomes = ro.outcomes /\ ro'.kind = ro.kind /\ ro'.rq = ro.rq /\ ro'.on = ro.on
    BY <1>1, <1>7 DEF Executions
  <2> QED BY <1>2, <1>4, <2>1
<1>8. CASE CallRefused \/ Finish \/ CallRaises
  BY <1>7, <1>8 DEF CallRefused, Finish, CallRaises
<1>9. ASSUME ro' = [ro EXCEPT !.step = @ + 1] PROVE Reported'
  <2>1. ro'.outcomes = ro.outcomes /\ ro'.kind = ro.kind /\ ro'.rq = ro.rq /\ ro'.on = ro.on
    BY <1>1, <1>9 DEF Executions
  <2> QED BY <1>2, <1>4, <2>1
<1>10. CASE EmitBriefing
  BY <1>7, <1>9, <1>10 DEF EmitBriefing
<1>11. CASE BeginCreate
  <2>1. PICK t \in Tasks : task[t] = None /\ ro' = [ro EXCEPT !.on = t]
    BY <1>1, <1>11, BeginCreateFacts DEF RoutineInv
  <2>2. ro'.outcomes = ro.outcomes /\ ro'.kind = ro.kind /\ ro'.rq = ro.rq /\ ro'.on = t
    BY <1>1, <2>1 DEF Executions
  <2>3. \A o, i : Told(o, i) => ro'.on # o.task
    BY <2>1, <2>2 DEF Told
  <2> QED BY <1>2, <2>2, <2>3
<1>12. CASE SkipMalformed
  <2>1. ro' = [ro EXCEPT !.nr = @ + 1, !.outcomes = Append(@, Skipped)]
    BY <1>12 DEF SkipMalformed, Skipped
  <2>2. /\ ro'.outcomes = Append(ro.outcomes, Skipped)
        /\ ro'.kind = ro.kind /\ ro'.rq = ro.rq /\ ro'.on = ro.on
    BY <1>1, <2>1 DEF Executions
  <2>3. Skipped \in Outcomes
    BY DEF Skipped, Outcomes
  <2> QED BY <1>3, <1>4, <2>2, <2>3
<1>13. CASE CallCommits /\ ro.step < Len(Steps)
  BY <1>9, <1>13 DEF CallCommits
<1>14. CASE CallCommits /\ ~(ro.step < Len(Steps))
  <2>2. /\ Handling /\ ro.on \in Tasks /\ Decision \in Answers /\ UNCHANGED asked
        /\ ro.step \in Nat /\ ro.step >= 1 /\ ro.step <= Len(Steps) /\ Len(Steps) \in Nat
        /\ task'[ro.on] # None
        /\ ro.step = 4 => task'[ro.on] = "waiting_approval"
        /\ ro.step = 5 =>
             /\ \A t, d : t = ro.on /\ d = Decision => Said(t, {d})' # {}
             /\ asked = {} => task'[ro.on] \in {"waiting_approval", "failed"}
        /\ ro.step = Len(Steps) =>
             /\ Decision = None <=> ro.step = 4
             /\ Decision \notin {"granted", "denied_alternate"} => ro.step <= 5
             /\ ro.kind = "scheduler" /\ Decision = "granted" =>
                  ro.step > 5 /\ \A t : t = ro.on => Completed(t)'
    BY <1>14, RoutineCommits
  <2>3. PICK new \in Outcomes : new = [task |-> ro.on, what |-> Decision]
    BY <2>2 DEF Outcomes
  <2>1. ro' = [ro EXCEPT !.nr = @ + 1, !.step = 1, !.on = None, !.outcomes = Append(@, new)]
    BY <1>14, <2>3 DEF CallCommits
  <2>4. /\ ro'.outcomes = Append(ro.outcomes, new)
        /\ ro'.kind = ro.kind /\ ro'.rq = ro.rq /\ ro'.on = None
    BY <1>1, <2>1 DEF Executions
  <2>5. \A o, i : Told(o, i) => ro'.on # o.task
    BY <2>4, NoneFacts DEF Told
  <2>6. ro.step = Len(Steps)
    BY <1>14, <2>2
  <2>7. ro.step = 4 \/ ro.step = 5 \/ ro.step > 5
    <3>1. Len(Steps) >= 4
      BY <1>1, <2>2, ScriptCalls
    <3>2. PICK k \in Nat : k = Len(Steps)
      BY <2>2
    <3>3. k = 4 \/ k = 5 \/ k > 5
      BY <3>1, <3>2
    <3> QED BY <2>6, <3>2, <3>3
  <2>8. ASSUME NEW o, NEW n, o = new, n = ro.nr PROVE Told(o, n)'
    <3>1. o.task = ro.on /\ o.what = Decision
      BY <2>3, <2>8
    <3>2. o.what = DecisionFor(ro'.kind, ro'.rq.items[n], n, ro'.rq.decisions)
      BY <2>4, <2>8, <3>1 DEF Decision, Item
    <3>3. o.task \in Tasks /\ o.task # ro'.on /\ task'[o.task] # None
      BY <2>2, <2>4, <3>1, NoneFacts
    <3>4. o.what \in Decisions => Said(o.task, {o.what})' # {}
      <4>1. o.what \in Decisions => ro.step # 4
        BY <2>2, <2>6, <3>1, EARoutinesAssumption
      <4>2. ro.step > 5 => Said(o.task, {o.what})' # {}
        <5>1. ro.step > 5 => ro.step > 1
          BY <2>2
        <5>2. ro.step > 5 => Said(o.task, {o.what}) # {}
          BY <2>2, <3>1, <5>1 DEF RoutineInv, OnCourse, Handling, AtItem
        <5> QED BY <5>2, StepIsKept, SaidStays
      <4>3. ro.step = 5 => Said(o.task, {o.what})' # {}
        BY <2>2, <3>1
      <4> QED BY <2>7, <4>1, <4>2, <4>3
    <3>5. o.what = "granted" /\ ro'.kind = "scheduler" => Completed(o.task)'
      BY <2>2, <2>4, <2>6, <3>1
    <3>6. asked' = {} /\ o.what \notin {"granted", "denied_alternate"} =>
            task'[o.task] \in {"waiting_approval", "failed"}
      <4>1. ro.step <= 5 => ~(ro.step > 5)
        BY <2>2
      <4> QED BY <2>2, <2>6, <2>7, <3>1, <4>1
    <3>7. asked' = {} /\ o.what = None => task'[o.task] = "waiting_approval"
      BY <2>2, <2>6, <3>1
    <3> QED BY <3>2, <3>3, <3>4, <3>5, <3>6, <3>7 DEF Told
  <2>9. \A n : n = ro.nr => Told(new, n)'
    BY <2>8
  <2> QED BY <1>3, <2>3, <2>4, <2>5, <2>9
<1>15. BeginCall \/ (\E o \in Operators : OperatorCall(o)) => ro' = ro
  BY DEF BeginCall, OperatorCall
<1> QED BY <1>5, <1>6, <1>8, <1>10, <1>11, <1>12, <1>13, <1>14, <1>15, StepKinds DEF Aside

LEMMA BriefedKept ==
  ASSUME IInv, RoutineInv, [RoutineNext]_routineVars
  PROVE  Briefed'
<1>1. /\ RoutineTypes /\ ro \in Executions /\ Briefed /\ ro.step \in Nat
      /\ ro.status = "idle" => ro = NotStarted
  BY StepFacts DEF RoutineInv, RoutineTypes
<1>2. /\ Len(BriefingEvents) = 5
      /\ \A n \in Nat : n >= 1 /\ n <= 5 => BriefingEvents[n] \in Milestones
  <2>1. /\ BriefingEvents[1] \in Milestones /\ BriefingEvents[2] \in Milestones
        /\ BriefingEvents[3] \in Milestones /\ BriefingEvents[4] \in Milestones
        /\ BriefingEvents[5] \in Milestones
    BY DEF BriefingEvents, Milestones
  <2>3. Len(BriefingEvents) = 5
    BY DEF BriefingEvents, Milestones
  <2>2. \A n \in Nat : n >= 1 /\ n <= 5 => n = 1 \/ n = 2 \/ n = 3 \/ n = 4 \/ n = 5
    OBVIOUS
  <2> QED BY <2>1, <2>2, <2>3
<1>3. ASSUME UNCHANGED <<ro, briefing>> PROVE Briefed'
  BY <1>1, <1>3 DEF Briefed
<1>4. ASSUME ro'.kind \notin {"", "briefing"} PROVE Briefed'
  BY <1>4 DEF Briefed
<1>5. ASSUME NEW st, ro' = [ro EXCEPT !.status = st], st = "done" => ro.step = 6,
             briefing' = briefing
      PROVE  Briefed'
  <2>1. ro'.kind = ro.kind /\ ro'.step = ro.step /\ ro'.status = st
    BY <1>1, <1>5 DEF Executions
  <2> QED BY <1>1, <1>5, <2>1 DEF Briefed
<1>6. ASSUME NEW rq \in Requests, Execute(rq) PROVE Briefed'
  <2>1. ro = NotStarted /\ briefing' = briefing
    BY <1>6 DEF Execute
  <2>2. briefing \in Seq(Milestones) /\ Len(briefing) = 0
    <3>1. ro.kind = ""
      BY <2>1 DEF NotStarted
    <3>2. ro.step = 1
      BY <2>1 DEF NotStarted
    <3>3. briefing \in Seq(Milestones) /\ Len(briefing) = ro.step - 1
      BY <1>1, <3>1 DEF Briefed
    <3> QED BY <3>2, <3>3
  <2>3. ro'.step = 1 /\ ro'.status = "running"
    BY <1>6, ExecuteFacts
  <2>4. Len(briefing) = ro'.step - 1 /\ ro'.step <= 6 /\ \A i \in 1..Len(briefing) : FALSE
    BY <2>2, <2>3
  <2> QED BY <2>1, <2>2, <2>3, <2>4 DEF Briefed
<1>7. ASSUME Handling, ro'.kind = ro.kind PROVE Briefed'
  BY <1>4, <1>7 DEF Handling, AtItem, Running
<1>8. CASE SkipMalformed
  <2>1. ro.kind = "triage"
    BY <1>8 DEF SkipMalformed
  <2>2. ro'.kind = ro.kind
    BY <1>1, <1>8 DEF SkipMalformed, Executions
  <2> QED BY <1>4, <2>1, <2>2
<1>9. CASE CallRefused \/ CallRaises
  BY <1>5, <1>9 DEF CallRefused, CallRaises
<1>10. CASE Finish
  <2>1. CASE Running({"scheduler", "triage"})
    <3>1. ro'.kind = ro.kind
      BY <1>1, <1>10 DEF Finish, Executions
    <3> QED BY <1>4, <2>1, <3>1 DEF Running
  <2>2. CASE Running({"briefing"}) /\ ro.step > Len(BriefingEvents)
    <3>1. ro.step > 5
      BY <1>2, <2>2
    <3>2. ro.step <= 6
      BY <1>1, <2>2 DEF Briefed, Running
    <3>3. ro.step = 6
      BY <1>1, <3>1, <3>2
    <3> QED BY <1>5, <1>10, <3>3 DEF Finish
  <2> QED BY <1>10, <2>1, <2>2 DEF Finish
<1>11. CASE EmitBriefing
  <2>1. /\ ro.kind = "briefing" /\ ro.status = "running" /\ ro.step <= 5
        /\ \/ /\ briefing' = Append(briefing, BriefingEvents[ro.step])
              /\ ro' = [ro EXCEPT !.step = @ + 1]
           \/ ro' = [ro EXCEPT !.status = "failed"] /\ briefing' = briefing
    BY <1>2, <1>11 DEF EmitBriefing, Running
  <2>2. CASE /\ briefing' = Append(briefing, BriefingEvents[ro.step])
             /\ ro' = [ro EXCEPT !.step = @ + 1]
    <3>1. /\ briefing \in Seq(Milestones) /\ Len(briefing) = ro.step - 1
          /\ \A i \in 1..Len(briefing) : briefing[i] = BriefingEvents[i]
      BY <1>1, <2>1 DEF Briefed
    <3>2. BriefingEvents[ro.step] \in Milestones
      BY <1>1, <1>2, <2>1, StepFacts
    <3> DEFINE event == BriefingEvents[ro.step]
               all == Append(briefing, event)
    <3>3. /\ all \in Seq(Milestones) /\ Len(all) = Len(briefing) + 1
          /\ all[Len(briefing) + 1] = event
          /\ \A i \in 1..Len(briefing) : all[i] = briefing[i]
      BY <3>1, <3>2, AppendProperties
    <3> HIDE DEF all
    <3>4. ro'.step = ro.step + 1 /\ ro'.status = "running" /\ briefing' = all
      BY <1>1, <2>1, <2>2 DEF Executions, all
    <3>5. Len(all) = ro.step /\ all[ro.step] = BriefingEvents[ro.step]
      BY <1>1, <3>1, <3>3
    <3>6. \A i \in 1..Len(all) : all[i] = BriefingEvents[i]
      <4> SUFFICES ASSUME NEW i \in 1..Len(all) PROVE all[i] = BriefingEvents[i]
        OBVIOUS
      <4>1. i = ro.step \/ i \in 1..Len(briefing)
        BY <1>1, <3>1, <3>5
      <4> QED BY <3>1, <3>3, <3>5, <4>1
    <3>7. Len(all) = ro'.step - 1 /\ ro'.step <= 6
      BY <1>1, <2>1, <3>4, <3>5
    <3> QED BY <3>3, <3>4, <3>6, <3>7 DEF Briefed
  <2>3. CASE ro' = [ro EXCEPT !.status = "failed"] /\ briefing' = briefing
    BY <1>5, <2>3
  <2> QED BY <2>1, <2>2, <2>3
<1>12. CASE BeginCreate
  <2>1. Handling /\ \E t \in Tasks : ro' = [ro EXCEPT !.on = t]
    BY <1>1, <1>12, BeginCreateFacts DEF RoutineInv
  <2>2. ro'.kind = ro.kind
    BY <1>1, <2>1 DEF Executions
  <2> QED BY <1>7, <2>1, <2>2
<1>13. CASE CallCommits
  <2>1. Handling
    BY <1>13, RoutineCommits
  <2>2. ro'.kind = ro.kind
    BY <1>1, <1>13 DEF CallCommits, Executions
  <2> QED BY <1>7, <2>1, <2>2
<1>14. BeginCall \/ (\E o \in Operators : OperatorCall(o)) => UNCHANGED <<ro, briefing>>
  BY DEF BeginCall, OperatorCall
<1> QED BY <1>3, <1>6, <1>8, <1>9, <1>10, <1>11, <1>12, <1>13, <1>14, StepKinds DEF Aside

LEMMA InitRoutineInv == RoutineInit => IInv /\ RoutineInv
<1> SUFFICES ASSUME RoutineInit PROVE IInv /\ RoutineInv
  OBVIOUS
<1>1. IInv
  BY InitIInv DEF RoutineInit
<1>2. /\ ro = NotStarted /\ asked = {} /\ briefing = <<>> /\ \A c \in Callers : tx[c] = NoTx
  BY DEF RoutineInit, Init
<1>3. /\ ro.status = "idle" /\ ro.nr = 1 /\ ro.step = 1 /\ ro.outcomes = <<>>
  BY <1>2 DEF NotStarted
<1>4. /\ <<>> \in Seq(Outcomes) /\ Len(<<>>) = 1 - 1 /\ 1 \in Nat \ {0}
      /\ <<>> \in Seq(Milestones)
  OBVIOUS
<1>5. RoutineTypes
  <2>1. ro \in Executions
    BY <1>2, <1>4 DEF NotStarted, Executions
  <2>2. Len(ro.outcomes) = ro.nr - 1
    BY <1>3, <1>4
  <2> QED BY <1>2, <1>3, <2>1, <2>2 DEF RoutineTypes
<1>6. Calling
  BY <1>2, EARoutinesAssumption DEF Calling
<1>7. OnCourse
  BY <1>3 DEF OnCourse, Handling, AtItem, Running
<1>8. Unasked
  BY <1>2 DEF Unasked, Operators
<1>9. Reported
  BY <1>3 DEF Reported
<1>10. Briefed
  <2>1. Len(briefing) = ro.step - 1 /\ ro.step <= 6 /\ ro.status # "done"
    BY <1>2, <1>3
  <2>2. \A i \in 1..Len(briefing) : FALSE
    BY <1>2
  <2>3. briefing \in Seq(Milestones)
    BY <1>2, <1>4
  <2> QED BY <2>1, <2>2, <2>3 DEF Briefed
<1> QED BY <1>1, <1>5, <1>6, <1>7, <1>8, <1>9, <1>10 DEF RoutineInv

LEMMA NextRoutineInv ==
  IInv /\ RoutineInv /\ [RoutineNext]_routineVars => (IInv /\ RoutineInv)' /\ [Next]_vars
<1> SUFFICES ASSUME IInv, RoutineInv, [RoutineNext]_routineVars
             PROVE  IInv' /\ RoutineInv' /\ [Next]_vars
  OBVIOUS
<1>1. [Next]_vars
  BY StepImplements DEF RoutineInv
<1>2. IInv'
  BY <1>1, NextIInv
<1> QED BY <1>1, <1>2, TypesKept, CallingKept, OnCourseKept, UnaskedKept, ReportedKept,
           BriefedKept
        DEF RoutineInv

LEMMA RoutineInvariance == RoutineSpec => [](IInv /\ RoutineInv) /\ [][Next]_vars
<1> DEFINE Inv == IInv /\ RoutineInv
<1>1. RoutineInit => Inv
  BY InitRoutineInv
<1>2. Inv /\ [RoutineNext]_routineVars => Inv' /\ [Next]_vars
  BY NextRoutineInv
<1> HIDE DEF Inv
<1>3. RoutineInit /\ [][RoutineNext]_routineVars => []Inv /\ [][Next]_vars
  BY <1>1, <1>2, PTL
<1> QED BY <1>3, PTL DEF RoutineSpec, Inv

-----------------------------------------------------------------------------
(* The theorems                                                            *)

(***************************************************************************)
(* What EASchedulerHandler and EAIboxTriageHandler count as an outcome is  *)
(* in the log: the decision, and for a grant of the scheduler the          *)
(* completion behind it; a briefing that is done has all its events.       *)
(***************************************************************************)
THEOREM OutcomesAreLoggedHolds == RoutineSpec => []OutcomesAreLogged
<1>1. IInv /\ RoutineInv => OutcomesAreLogged
  <2> SUFFICES ASSUME RoutineInv PROVE OutcomesAreLogged
    OBVIOUS
  <2>1. /\ Reported /\ Briefed /\ ro.outcomes \in Seq(Outcomes) /\ ro.step \in Nat
    BY StepFacts DEF RoutineInv
  <2>2. ASSUME NEW i \in DOMAIN ro.outcomes, NEW o \in Outcomes, o = ro.outcomes[i]
        PROVE  /\ o.what \in Decisions => Said(o.task, {o.what}) # {}
               /\ o.what = "granted" /\ ro.kind = "scheduler" => Completed(o.task)
    <3>1. CASE Told(o, i)
      BY <3>1 DEF Told
    <3>2. CASE o = Skipped
      <4>1. "malformed" \notin Decisions
        BY DecisionsAssumption
      <4> QED BY <3>2, <4>1 DEF Skipped
    <3> QED BY <2>1, <2>2, <3>1, <3>2 DEF Reported
  <2>3. ro.kind = "briefing" /\ ro.status = "done" => briefing = BriefingEvents
    <3> SUFFICES ASSUME ro.kind = "briefing", ro.status = "done"
                 PROVE  briefing = BriefingEvents
      OBVIOUS
    <3>1. /\ briefing \in Seq(Milestones) /\ Len(briefing) = ro.step - 1 /\ ro.step = 6
          /\ \A i \in 1..Len(briefing) : briefing[i] = BriefingEvents[i]
      BY <2>1 DEF Briefed
    <3>2. Len(briefing) = 5
      BY <3>1
    <3>3. BriefingEvents \in Seq(Milestones) /\ Len(BriefingEvents) = 5
      BY DEF BriefingEvents, Milestones
    <3> QED BY <3>1, <3>2, <3>3, SeqEqual
  <2>4. \A i \in DOMAIN ro.outcomes : ro.outcomes[i] \in Outcomes
    BY <2>1
  <2> QED BY <2>2, <2>3, <2>4 DEF OutcomesAreLogged, Completed
<1> QED BY <1>1, RoutineInvariance, PTL

(***************************************************************************)
(* EACoroutine never auto-grants: where no operator has called, a task of  *)
(* an outcome is past its approval only if the request grants something    *)
(* under its title or position, and waits where it says nothing.           *)
(***************************************************************************)
THEOREM NothingGrantedUnaskedHolds == RoutineSpec => []NothingGrantedUnasked
<1>1. IInv /\ RoutineInv => NothingGrantedUnasked
  <2> SUFFICES ASSUME RoutineInv, NEW i \in DOMAIN ro.outcomes,
                      asked = {}, ro.outcomes[i].task # None
               PROVE  LET o == ro.outcomes[i]
                          given == {ro.rq.decisions[k] : k \in DOMAIN ro.rq.decisions
                                                                \cap {ro.rq.items[i], IndexKey[i]}}
                      IN /\ task[o.task] \in {"planning", "completed"} =>
                              given \cap {"granted", "denied_alternate"} # {}
                         /\ given = {} => task[o.task] = "waiting_approval"
    BY DEF NothingGrantedUnasked
  <2> DEFINE given == {ro.rq.decisions[k] : k \in DOMAIN ro.rq.decisions
                                                    \cap {ro.rq.items[i], IndexKey[i]}}
  <2>1. PICK o \in Outcomes : o = ro.outcomes[i]
    BY StepFacts DEF RoutineInv
  <2>2. Told(o, i)
    BY <2>1 DEF RoutineInv, Reported, Skipped
  <2>3. o.what = None \/ o.what \in given
    BY <2>2 DEF Told, DecisionFor
  <2> HIDE DEF given
  <2>4. /\ o.what \notin {"granted", "denied_alternate"} =>
             task[o.task] \in {"waiting_approval", "failed"}
        /\ o.what = None => task[o.task] = "waiting_approval"
    BY <2>2 DEF Told
  <2>5. None \notin {"granted", "denied_alternate"}
    BY EATasksNoneAssumption, EARoutinesAssumption
  <2>6. /\ task[o.task] \in {"planning", "completed"} =>
             given \cap {"granted", "denied_alternate"} # {}
        /\ given = {} => task[o.task] = "waiting_approval"
    BY <2>3, <2>4, <2>5
  <2> QED BY <2>1, <2>6 DEF given
<1> QED BY <1>1, RoutineInvariance, PTL
=============================================================================
