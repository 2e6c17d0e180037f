------------------------------ MODULE EventLog ------------------------------
(***************************************************************************)
(* RunEventRepositoryImpl over PostgreSQL at READ COMMITTED: concurrent    *)
(* database sessions append RT-002 events to run_events and overwrite      *)
(* runs.state; readers follow a run with list(since_seq).                  *)
(*                                                                         *)
(* append() is four statements, and every one of them sees the database as *)
(* it is when that statement starts:                                       *)
(*   GetRunState     SELECT the run's state, refuse a terminal one         *)
(*   ComputeNextSeq  MAX(seq) over SELECT ... FOR UPDATE: its snapshot      *)
(*   LockRows        the same statement, once the row locks are granted     *)
(*   Insert          INSERT under the primary key and UNIQUE(run_id, seq)   *)
(* A row is visible to other sessions when its transaction commits. Any     *)
(* transaction may be rolled back at any point: by its caller, by an error, *)
(* as a deadlock victim, or because its process died.                       *)
(***************************************************************************)
EXTENDS Integers

CONSTANTS
  Runs,            \* run identifiers
  EventIds,        \* event identifiers
  Sessions,        \* database sessions, each with at most one transaction
  Readers,         \* clients that follow runs by polling list(since_seq)
  States,          \* values of runs.state
  Created,         \* the state of a new run
  TerminalStates,  \* those that _TERMINAL_STATES names
  None             \* no row in runs, no uncommitted update, no append

ASSUME StatesAssumption ==
  /\ TerminalStates \subseteq States
  /\ Created \in States
  /\ None \notin States

VARIABLES
  run_events,  \* the committed rows of run_events
  runs,        \* runs[r]: the committed state of run r, None without a row
  pc,          \* pc[s]: the statement session s executes next
  req,         \* req[s]: the event whose append is in progress in s, or None
  base,        \* base[s]: MAX(seq) as that append's FOR UPDATE read it
  locks,       \* locks[s]: the runs whose event rows s holds FOR UPDATE
  pending,     \* pending[s]: the rows s inserted and has not committed
  updates,     \* updates[s][r]: the state s wrote to runs, uncommitted
  cursor,      \* cursor[c][r]: the last seq that reader c was given for r
  delivered    \* delivered[c]: every row that reader c was given

sessionVars == <<pc, req, base, locks, pending, updates>>
readerVars  == <<cursor, delivered>>
vars        == <<run_events, runs, sessionVars, readerVars>>

Row == [id : EventIds, run : Runs, seq : Nat \ {0}]

\* Mutant: a dirty read of what other sessions have not committed.
VisibleDirty(s) == run_events \cup UNION {pending[t] : t \in Sessions}

\* A statement of session s sees the committed rows and the rows of its own.
Visible(s) == run_events \cup pending[s]

OfRun(rows, r) == {row \in rows : row.run = r}

\* The state of run r as session s reads it.
StateSeen(s, r) == IF updates[s][r] = None THEN runs[r] ELSE updates[s][r]

\* The one value of COALESCE(MAX(seq), 0) over the rows, as a set.
MaxSeq(rows) ==
  {n \in {0} \cup {row.seq : row \in rows} : \A row \in rows : row.seq <= n}

\* Mutants: one of the two constraints is missing.
CollideById(a, b)  == a.id = b.id
CollideBySeq(a, b) == a.run = b.run /\ a.seq = b.seq

\* Two rows that the primary key or UNIQUE(run_id, seq) keeps apart.
Collide(a, b) == a.id = b.id \/ (a.run = b.run /\ a.seq = b.seq)

NoUpdates == [r \in Runs |-> None]

\* append() returns or raises: its locals are gone.
EndAppend(s) ==
  /\ req' = [req EXCEPT ![s] = None]
  /\ base' = [base EXCEPT ![s] = 0]

Init ==
  /\ run_events = {}
  /\ runs = [r \in Runs |-> None]
  /\ pc = [s \in Sessions |-> "idle"]
  /\ req = [s \in Sessions |-> None]
  /\ base = [s \in Sessions |-> 0]
  /\ locks = [s \in Sessions |-> {}]
  /\ pending = [s \in Sessions |-> {}]
  /\ updates = [s \in Sessions |-> NoUpdates]
  /\ cursor = [c \in Readers |-> [r \in Runs |-> 0]]
  /\ delivered = [c \in Readers |-> {}]

-----------------------------------------------------------------------------
(* append()                                                                *)

\* The terminal-state guard. A run without a row has no state to refuse, and
\* a refusal (TerminalRunStateError) changes nothing.
GetRunState(s, id, r) ==
  /\ pc[s] = "idle"
  /\ StateSeen(s, r) \notin TerminalStates
  /\ req' = [req EXCEPT ![s] = [id |-> id, run |-> r]]
  /\ pc' = [pc EXCEPT ![s] = "max"]
  /\ UNCHANGED <<run_events, runs, base, locks, pending, updates, readerVars>>

\* The snapshot of the FOR UPDATE statement.
ComputeNextSeq(s) ==
  /\ pc[s] = "max"
  /\ \E n \in MaxSeq(OfRun(Visible(s), req[s].run)) :
       base' = [base EXCEPT ![s] = n]
  /\ pc' = [pc EXCEPT ![s] = "lock"]
  /\ UNCHANGED <<run_events, runs, req, locks, pending, updates, readerVars>>

\* FOR UPDATE waits for the sessions that hold the rows of its snapshot, and
\* the maximum stays the one of that snapshot. An empty snapshot locks nothing.
LockRows(s) ==
  /\ pc[s] = "lock"
  /\ \/ /\ base[s] = 0
        /\ UNCHANGED locks
     \/ /\ base[s] > 0
        /\ \A t \in Sessions \ {s} : req[s].run \notin locks[t]
        /\ locks' = [locks EXCEPT ![s] = @ \cup {req[s].run}]
  /\ pc' = [pc EXCEPT ![s] = "insert"]
  /\ UNCHANGED <<run_events, runs, req, base, pending, updates, readerVars>>

\* The row append() inserts: the caller's seq is overridden.
NewRow(s) == [id |-> req[s].id, run |-> req[s].run, seq |-> base[s] + 1]

\* Mutant: an INSERT that waits for nobody.
NoWait(s) == TRUE

\* An INSERT waits for the transaction that holds an uncommitted duplicate.
NoPendingDuplicate(s) ==
  \A t \in Sessions \ {s} : \A row \in pending[t] : ~Collide(row, NewRow(s))

InsertOk(s) ==
  /\ pc[s] = "insert"
  /\ NoPendingDuplicate(s)
  /\ \A row \in Visible(s) : ~Collide(row, NewRow(s))
  /\ pending' = [pending EXCEPT ![s] = @ \cup {NewRow(s)}]
  /\ pc' = [pc EXCEPT ![s] = "idle"]
  /\ EndAppend(s)
  /\ UNCHANGED <<run_events, runs, locks, updates, readerVars>>

\* IntegrityError: the transaction can only be rolled back.
InsertFails(s) ==
  /\ pc[s] = "insert"
  /\ NoPendingDuplicate(s)
  /\ \E row \in Visible(s) : Collide(row, NewRow(s))
  /\ pc' = [pc EXCEPT ![s] = "failed"]
  /\ EndAppend(s)
  /\ UNCHANGED <<run_events, runs, locks, pending, updates, readerVars>>

-----------------------------------------------------------------------------
(* The run row: RunRepositoryImpl.create() and update_state()              *)

NoOtherWriter(s, r) == \A t \in Sessions \ {s} : updates[t][r] = None

\* create() inserts the row; a row that exists fails the transaction.
CreateRun(s, r) ==
  /\ pc[s] = "idle"
  /\ NoOtherWriter(s, r)
  /\ IF StateSeen(s, r) = None
     THEN /\ updates' = [updates EXCEPT ![s][r] = Created]
          /\ UNCHANGED pc
     ELSE /\ pc' = [pc EXCEPT ![s] = "failed"]
          /\ UNCHANGED updates
  /\ UNCHANGED <<run_events, runs, req, base, locks, pending, readerVars>>

\* update_state() overwrites whatever state the row has.
UpdateState(s, r, st) ==
  /\ pc[s] = "idle"
  /\ NoOtherWriter(s, r)
  /\ StateSeen(s, r) # None
  /\ updates' = [updates EXCEPT ![s][r] = st]
  /\ UNCHANGED <<run_events, runs, pc, req, base, locks, pending, readerVars>>

-----------------------------------------------------------------------------
(* The end of a transaction                                                *)

Release(s) ==
  /\ pc' = [pc EXCEPT ![s] = "idle"]
  /\ locks' = [locks EXCEPT ![s] = {}]
  /\ pending' = [pending EXCEPT ![s] = {}]
  /\ updates' = [updates EXCEPT ![s] = NoUpdates]
  /\ EndAppend(s)
  /\ UNCHANGED readerVars

Commit(s) ==
  /\ pc[s] = "idle"
  /\ run_events' = run_events \cup pending[s]
  /\ runs' = [r \in Runs |-> StateSeen(s, r)]
  /\ Release(s)

Rollback(s) ==
  /\ Release(s)
  /\ UNCHANGED <<run_events, runs>>

-----------------------------------------------------------------------------
(* A reader: list(since_seq = cursor, limit), ordered by seq. Whatever the *)
(* limit, the result is the rows up to some seq that has one.              *)

List(c, r) ==
  \E last \in OfRun(run_events, r) :
    /\ last.seq > cursor[c][r]
    /\ delivered' = [delivered EXCEPT ![c] = @ \cup
         {row \in OfRun(run_events, r) :
            row.seq > cursor[c][r] /\ row.seq <= last.seq}]
    /\ cursor' = [cursor EXCEPT ![c][r] = last.seq]
    /\ UNCHANGED <<run_events, runs, sessionVars>>

-----------------------------------------------------------------------------

Next ==
  \/ \E s \in Sessions :
       \/ \E id \in EventIds, r \in Runs : GetRunState(s, id, r)
       \/ ComputeNextSeq(s)
       \/ LockRows(s)
       \/ InsertOk(s)
       \/ InsertFails(s)
       \/ \E r \in Runs : CreateRun(s, r)
       \/ \E r \in Runs, st \in States : UpdateState(s, r, st)
       \/ Commit(s)
       \/ Rollback(s)
  \/ \E c \in Readers, r \in Runs : List(c, r)

Spec == Init /\ [][Next]_vars

-----------------------------------------------------------------------------
(* Properties                                                              *)

TypeOK ==
  /\ run_events \subseteq Row
  /\ runs \in [Runs -> States \cup {None}]
  /\ pc \in [Sessions -> {"idle", "max", "lock", "insert", "failed"}]
  /\ req \in [Sessions -> [id : EventIds, run : Runs] \cup {None}]
  /\ \A s \in Sessions : pc[s] \in {"max", "lock", "insert"} =>
       req[s] \in [id : EventIds, run : Runs]
  /\ base \in [Sessions -> Nat]
  /\ locks \in [Sessions -> SUBSET Runs]
  /\ pending \in [Sessions -> SUBSET Row]
  /\ updates \in [Sessions -> [Runs -> States \cup {None}]]
  /\ cursor \in [Readers -> [Runs -> Nat]]
  /\ delivered \in [Readers -> SUBSET Row]

\* Below every row of a run there is a row for every smaller seq.
NoGaps(rows) ==
  \A row \in rows : \A k \in 1..row.seq :
    \E other \in rows : other.run = row.run /\ other.seq = k

\* No seq of a run is assigned twice.
NoDuplicates(rows) ==
  \A a, b \in rows : a.run = b.run /\ a.seq = b.seq => a = b

(***************************************************************************)
(* However the appends of concurrent transactions interleave, commit and   *)
(* roll back, the committed events of a run are numbered 1, 2, ... without *)
(* a gap and without a duplicate (_compute_next_seq and the constraint     *)
(* uq_run_events_run_id_seq).                                              *)
(***************************************************************************)
SeqContiguous == NoGaps(run_events) /\ NoDuplicates(run_events)

(***************************************************************************)
(* Appends to one run are serialised from the INSERT to the end of the     *)
(* transaction: no two transactions hold uncommitted events of one run.    *)
(***************************************************************************)
OneWriterPerRun ==
  \A s, t \in Sessions : s # t =>
    \A a \in pending[s], b \in pending[t] : a.run # b.run

(***************************************************************************)
(* A reader that polls list(since_seq = the last seq it was given) never   *)
(* misses an event: nothing becomes visible behind its cursor, although    *)
(* seq is assigned before the commit that makes it visible.                *)
(***************************************************************************)
ReaderMissesNothing ==
  \A c \in Readers : \A row \in run_events :
    row.seq <= cursor[c][row.run] => row \in delivered[c]

(***************************************************************************)
(* The committed rows are an append-only log: each commit extends the logs *)
(* of the runs it wrote, and no id enters twice (the primary key).         *)
(***************************************************************************)
EventAt(r, n) == CHOOSE row \in run_events : row.run = r /\ row.seq = n

Log == INSTANCE RunLog WITH
         log <- [r \in Runs |-> [n \in {row.seq : row \in OfRun(run_events, r)} |->
                                   EventAt(r, n).id]]

ImplementsRunLog == Log!Spec

(***************************************************************************)
(* What the repository's header says of terminal runs: once a run is in a  *)
(* terminal state, its log does not grow. The guard reads the state in one *)
(* statement and inserts in another.                                       *)
(***************************************************************************)
TerminalRunsFrozen ==
  [][\A r \in Runs : runs[r] \in TerminalStates =>
       OfRun(run_events', r) = OfRun(run_events, r)]_vars
=============================================================================
