--------------------------- MODULE EventLogProofs ---------------------------
(***************************************************************************)
(* For any sets of runs, sessions, event ids and readers: the committed    *)
(* events of a run are numbered without gaps or duplicates, appends to a   *)
(* run are serialised, and a reader that polls misses nothing.             *)
(***************************************************************************)
EXTENDS EventLog, SequenceTheorems, TLAPS

Contiguous(rows) == NoGaps(rows) /\ NoDuplicates(rows)

\* What each session sees, its own uncommitted rows included, is contiguous.
VisibleContiguous == \A s \in Sessions : Contiguous(Visible(s))

\* A row is committed or uncommitted, not both.
PendingIsNew == \A s \in Sessions : pending[s] \cap run_events = {}

\* The maximum an append has read is still the seq of a row that it sees.
BaseIsVisible ==
  \A s \in Sessions : pc[s] \in {"lock", "insert"} =>
    \/ base[s] = 0
    \/ \E row \in Visible(s) : row.run = req[s].run /\ row.seq = base[s]

\* A cursor that has moved stands on a committed row.
CursorIsCommitted ==
  \A c \in Readers : \A r \in Runs :
    \/ cursor[c][r] = 0
    \/ \E row \in run_events : row.run = r /\ row.seq = cursor[c][r]

\* The inductive invariant.
IInv ==
  /\ TypeOK
  /\ SeqContiguous
  /\ VisibleContiguous
  /\ OneWriterPerRun
  /\ PendingIsNew
  /\ BaseIsVisible
  /\ CursorIsCommitted
  /\ ReaderMissesNothing

-----------------------------------------------------------------------------
(* Sets of rows                                                            *)

\* Two contiguous extensions of the same rows that extend different runs are
\* contiguous together.
LEMMA ContiguousUnion ==
  ASSUME NEW C, NEW P, NEW Q,
         Contiguous(C \cup P), Contiguous(C \cup Q),
         \A a \in P, b \in Q : a.run # b.run
  PROVE  Contiguous((C \cup P) \cup Q)
<1>1. NoGaps((C \cup P) \cup Q)
  BY DEF Contiguous, NoGaps
<1>2. NoDuplicates((C \cup P) \cup Q)
  BY DEF Contiguous, NoDuplicates
<1>3. QED
  BY <1>1, <1>2 DEF Contiguous

\* A row one above an existing row, or with seq 1, keeps contiguity if no row
\* of the run has its seq.
LEMMA ContiguousAdd ==
  ASSUME NEW rows, rows \subseteq Row, Contiguous(rows),
         NEW new \in Row,
         \/ new.seq = 1
         \/ \E row \in rows : row.run = new.run /\ row.seq = new.seq - 1,
         \A row \in rows : row.run = new.run => row.seq # new.seq
  PROVE  Contiguous(rows \cup {new})
<1>1. NoDuplicates(rows \cup {new})
  BY DEF Contiguous, NoDuplicates
<1>2. NoGaps(rows \cup {new})
  <2> SUFFICES ASSUME NEW row \in rows \cup {new}, NEW k \in 1..row.seq
               PROVE  \E other \in rows \cup {new} :
                        other.run = row.run /\ other.seq = k
    BY DEF NoGaps
  <2>1. CASE row \in rows
    BY <2>1 DEF Contiguous, NoGaps
  <2>2. CASE row = new /\ k = new.seq
    BY <2>2
  <2>3. CASE row = new /\ k # new.seq
    <3>1. new.seq \in Nat \ {0}
      BY DEF Row
    <3>2. PICK below \in rows : below.run = new.run /\ below.seq = new.seq - 1
      BY <2>3, <3>1
    <3>3. k \in 1..below.seq
      BY <2>3, <3>1, <3>2
    <3>4. QED
      BY <2>3, <3>2, <3>3 DEF Contiguous, NoGaps
  <2>4. QED
    BY <2>1, <2>2, <2>3
<1>3. QED
  BY <1>1, <1>2 DEF Contiguous

-----------------------------------------------------------------------------
(* Type correctness                                                        *)

\* The variables keep their types through every statement and every end of a
\* transaction.
THEOREM TypeCorrect == Spec => []TypeOK
<1>1. Init => TypeOK
  BY DEF Init, TypeOK, NoUpdates
<1>2. TypeOK /\ [Next]_vars => TypeOK'
  <2> SUFFICES ASSUME TypeOK, [Next]_vars
               PROVE  TypeOK'
    OBVIOUS
  <2> USE DEF TypeOK
  <2>1. ASSUME NEW s \in Sessions, NEW id \in EventIds, NEW r \in Runs,
               GetRunState(s, id, r)
        PROVE  TypeOK'
    BY <2>1 DEF GetRunState, readerVars
  <2>2. ASSUME NEW s \in Sessions, ComputeNextSeq(s)
        PROVE  TypeOK'
    <3>1. base' \in [Sessions -> Nat]
      BY <2>2 DEF ComputeNextSeq, MaxSeq, OfRun, Visible, Row
    <3>2. QED
      BY <2>2, <3>1 DEF ComputeNextSeq, readerVars
  <2>3. ASSUME NEW s \in Sessions, LockRows(s)
        PROVE  TypeOK'
    BY <2>3 DEF LockRows, readerVars
  <2>4. ASSUME NEW s \in Sessions, InsertOk(s)
        PROVE  TypeOK'
    <3>1. NewRow(s) \in Row
      BY <2>4 DEF InsertOk, NewRow, Row
    <3>2. QED
      BY <2>4, <3>1 DEF InsertOk, EndAppend, readerVars
  <2>5. ASSUME NEW s \in Sessions, InsertFails(s)
        PROVE  TypeOK'
    BY <2>5 DEF InsertFails, EndAppend, readerVars
  <2>6. ASSUME NEW s \in Sessions, NEW r \in Runs, CreateRun(s, r)
        PROVE  TypeOK'
    <3>1. updates' \in [Sessions -> [Runs -> States \cup {None}]]
      <4>1. \/ UNCHANGED updates
            \/ updates' = [updates EXCEPT ![s][r] = Created]
        BY <2>6 DEF CreateRun
      <4>2. Created \in States
        BY StatesAssumption
      <4>3. [updates EXCEPT ![s][r] = Created] \in [Sessions -> [Runs -> States \cup {None}]]
        BY <4>2
      <4>4. QED
        BY <4>1, <4>3
    <3>2. pc' \in [Sessions -> {"idle", "max", "lock", "insert", "failed"}]
      BY <2>6 DEF CreateRun
    <3>3. UNCHANGED <<run_events, runs, req, base, locks, pending, cursor, delivered>>
      BY <2>6 DEF CreateRun, readerVars
    <3>4. pc'[s] \in {"max", "lock", "insert"} => FALSE
      BY <2>6 DEF CreateRun
    <3>5. \A t \in Sessions : pc'[t] \in {"max", "lock", "insert"} => pc'[t] = pc[t]
      BY <2>6, <3>4 DEF CreateRun
    <3>6. QED
      BY <3>1, <3>2, <3>3, <3>5
  <2>7. ASSUME NEW s \in Sessions, NEW r \in Runs, NEW st \in States,
               UpdateState(s, r, st)
        PROVE  TypeOK'
    BY <2>7 DEF UpdateState, readerVars
  <2>8. ASSUME NEW s \in Sessions, Commit(s)
        PROVE  TypeOK'
    BY <2>8 DEF Commit, Release, EndAppend, NoUpdates, StateSeen, readerVars
  <2>9. ASSUME NEW s \in Sessions, Rollback(s)
        PROVE  TypeOK'
    BY <2>9 DEF Rollback, Release, EndAppend, NoUpdates, readerVars
  <2>10. ASSUME NEW c \in Readers, NEW r \in Runs, List(c, r)
         PROVE  TypeOK'
    <3>1. PICK last \in OfRun(run_events, r) :
            /\ delivered' = [delivered EXCEPT ![c] = @ \cup
                 {row \in OfRun(run_events, r) :
                    row.seq > cursor[c][r] /\ row.seq <= last.seq}]
            /\ cursor' = [cursor EXCEPT ![c][r] = last.seq]
      BY <2>10 DEF List
    <3>2. last.seq \in Nat /\ OfRun(run_events, r) \subseteq Row
      BY DEF OfRun, Row
    <3>3. QED
      BY <2>10, <3>1, <3>2 DEF List, sessionVars
  <2>11. CASE UNCHANGED vars
    BY <2>11 DEF vars, sessionVars, readerVars
  <2>12. QED
    BY <2>1, <2>2, <2>3, <2>4, <2>5, <2>6, <2>7, <2>8, <2>9, <2>10, <2>11
       DEF Next
<1>3. QED
  BY <1>1, <1>2, PTL DEF Spec

-----------------------------------------------------------------------------
(* The inductive invariant                                                 *)

\* Nothing in IInv depends on the state of a run, and a step that leaves the
\* rows, the cursors and every append in progress alone preserves it.
LEMMA IInvFrame ==
  ASSUME IInv, TypeOK',
         UNCHANGED <<run_events, pending, cursor, delivered>>,
         \A s \in Sessions : pc'[s] \in {"lock", "insert"} =>
           /\ pc[s] \in {"lock", "insert"}
           /\ base'[s] = base[s] /\ req'[s] = req[s]
  PROVE  IInv'
<1>1. \A s \in Sessions : Visible(s)' = Visible(s)
  BY DEF Visible
<1>2. VisibleContiguous' /\ SeqContiguous' /\ PendingIsNew' /\ OneWriterPerRun'
  BY <1>1 DEF IInv, VisibleContiguous, SeqContiguous, PendingIsNew, OneWriterPerRun
<1>3. BaseIsVisible'
  BY <1>1 DEF IInv, BaseIsVisible
<1>4. CursorIsCommitted' /\ ReaderMissesNothing'
  BY DEF IInv, CursorIsCommitted, ReaderMissesNothing
<1>5. QED
  BY <1>2, <1>3, <1>4 DEF IInv

\* The maximum read by the FOR UPDATE statement is the seq of a visible row.
LEMMA ComputeNextSeqKeepsIInv ==
  ASSUME IInv, TypeOK', NEW s \in Sessions, ComputeNextSeq(s)
  PROVE  IInv'
<1>1. UNCHANGED <<run_events, pending, cursor, delivered, req>>
  BY DEF ComputeNextSeq, readerVars
<1>2. \A t \in Sessions : Visible(t)' = Visible(t)
  BY <1>1 DEF Visible
<1>3. PICK n \in MaxSeq(OfRun(Visible(s), req[s].run)) :
        base' = [base EXCEPT ![s] = n]
  BY DEF ComputeNextSeq
<1>4. n = 0 \/ \E row \in Visible(s) : row.run = req[s].run /\ row.seq = n
  BY <1>3 DEF MaxSeq, OfRun
<1>5. base'[s] = n /\ \A t \in Sessions \ {s} : base'[t] = base[t] /\ pc'[t] = pc[t]
  BY <1>3 DEF IInv, TypeOK, ComputeNextSeq
<1>6. BaseIsVisible'
  <2> SUFFICES ASSUME NEW t \in Sessions, pc'[t] \in {"lock", "insert"}
               PROVE  \/ base'[t] = 0
                      \/ \E row \in Visible(t)' : row.run = req'[t].run /\ row.seq = base'[t]
    BY DEF BaseIsVisible
  <2>1. CASE t = s
    BY <1>1, <1>2, <1>4, <1>5, <2>1
  <2>2. CASE t # s
    BY <1>1, <1>2, <1>5, <2>2 DEF IInv, BaseIsVisible
  <2>3. QED
    BY <2>1, <2>2
<1>7. VisibleContiguous' /\ SeqContiguous' /\ PendingIsNew' /\ OneWriterPerRun'
  BY <1>1, <1>2 DEF IInv, VisibleContiguous, SeqContiguous, PendingIsNew, OneWriterPerRun
<1>8. CursorIsCommitted' /\ ReaderMissesNothing'
  BY <1>1 DEF IInv, CursorIsCommitted, ReaderMissesNothing
<1>9. QED
  BY <1>6, <1>7, <1>8 DEF IInv

\* The INSERT keeps the session's view contiguous, and no other session has an
\* uncommitted row of the run: its rows would start with the seq of the new one.
LEMMA InsertOkKeepsIInv ==
  ASSUME IInv, TypeOK', NEW s \in Sessions, InsertOk(s)
  PROVE  IInv'
<1> DEFINE new == NewRow(s)
<1>1. new \in Row /\ new.run = req[s].run /\ new.seq = base[s] + 1 /\ base[s] \in Nat
  BY DEF InsertOk, NewRow, Row, IInv, TypeOK
<1>2. /\ pending' = [pending EXCEPT ![s] = @ \cup {new}]
      /\ UNCHANGED <<run_events, cursor, delivered>>
      /\ pc' = [pc EXCEPT ![s] = "idle"]
      /\ req' = [req EXCEPT ![s] = None]
      /\ base' = [base EXCEPT ![s] = 0]
  BY DEF InsertOk, EndAppend, readerVars
<1>3. \A row \in Visible(s) : row.run = new.run => row.seq # new.seq
  BY DEF InsertOk, Collide
<1>4. \A t \in Sessions \ {s} : \A row \in pending[t] : row.run = new.run => row.seq # new.seq
  BY DEF InsertOk, NoPendingDuplicate, Collide
<1>5. base[s] = 0 \/ \E row \in Visible(s) : row.run = new.run /\ row.seq = base[s]
  BY <1>1 DEF IInv, BaseIsVisible, InsertOk
<1>6. Visible(s)' = Visible(s) \cup {new} /\ pending'[s] = pending[s] \cup {new}
  BY <1>2 DEF Visible, IInv, TypeOK
<1>7. \A t \in Sessions \ {s} : pending'[t] = pending[t] /\ Visible(t)' = Visible(t)
  BY <1>2 DEF Visible, IInv, TypeOK
<1>8. \A t \in Sessions : Visible(t) \subseteq Row
  BY DEF Visible, IInv, TypeOK
<1>9. Contiguous(Visible(s) \cup {new})
  <2>1. \/ new.seq = 1
        \/ \E row \in Visible(s) : row.run = new.run /\ row.seq = new.seq - 1
    BY <1>1, <1>5
  <2>2. QED
    BY <1>1, <1>3, <1>8, <2>1, ContiguousAdd DEF IInv, VisibleContiguous
<1>10. ASSUME NEW t \in Sessions \ {s}, NEW b \in pending[t]
       PROVE  b.run # new.run
  <2> SUFFICES ASSUME b.run = new.run
               PROVE  FALSE
    OBVIOUS
  <2>1. b \in Visible(t) /\ b \in Row /\ b \notin run_events
    BY <1>8 DEF Visible, IInv, PendingIsNew
  <2>2. CASE b.seq >= new.seq
    <3>1. new.seq \in 1..b.seq
      BY <1>1, <2>1, <2>2 DEF Row
    <3>2. PICK other \in Visible(t) : other.run = new.run /\ other.seq = new.seq
      BY <2>1, <3>1 DEF IInv, VisibleContiguous, Contiguous, NoGaps
    <3>3. QED
      BY <1>3, <1>4, <3>2 DEF Visible
  <2>3. CASE b.seq < new.seq
    <3>1. b.seq \in 1..base[s] /\ base[s] # 0
      BY <1>1, <2>1, <2>3 DEF Row
    <3>2. PICK below \in Visible(s) : below.run = new.run /\ below.seq = base[s]
      BY <1>5, <3>1
    <3>3. PICK twin \in Visible(s) : twin.run = new.run /\ twin.seq = b.seq
      BY <3>1, <3>2 DEF IInv, VisibleContiguous, Contiguous, NoGaps
    <3>4. CASE twin \in run_events
      BY <2>1, <3>3, <3>4 DEF IInv, VisibleContiguous, Contiguous, NoDuplicates, Visible
    <3>5. CASE twin \in pending[s]
      BY <3>3, <3>5 DEF IInv, OneWriterPerRun
    <3>6. QED
      BY <3>4, <3>5 DEF Visible
  <2>4. QED
    BY <1>1, <2>1, <2>2, <2>3 DEF Row
<1>11. VisibleContiguous'
  <2> SUFFICES ASSUME NEW t \in Sessions
               PROVE  Contiguous(Visible(t)')
    BY DEF VisibleContiguous, Contiguous, NoGaps, NoDuplicates
  <2>1. CASE t = s
    BY <1>6, <1>9, <2>1
  <2>2. CASE t # s
    BY <1>7, <2>2 DEF IInv, VisibleContiguous
  <2>3. QED
    BY <2>1, <2>2
<1>12. OneWriterPerRun'
  BY <1>6, <1>7, <1>10 DEF IInv, OneWriterPerRun
<1>13. PendingIsNew'
  BY <1>2, <1>3, <1>6, <1>7 DEF IInv, PendingIsNew, Visible
<1>14. BaseIsVisible'
  <2> SUFFICES ASSUME NEW t \in Sessions, pc'[t] \in {"lock", "insert"}
               PROVE  \/ base'[t] = 0
                      \/ \E row \in Visible(t)' : row.run = req'[t].run /\ row.seq = base'[t]
    BY DEF BaseIsVisible
  <2>1. t # s
    BY <1>2 DEF IInv, TypeOK
  <2>2. base'[t] = base[t] /\ req'[t] = req[t] /\ pc'[t] = pc[t]
    BY <1>2, <2>1 DEF IInv, TypeOK
  <2>3. QED
    BY <1>7, <2>1, <2>2 DEF IInv, BaseIsVisible
<1>15. SeqContiguous' /\ CursorIsCommitted' /\ ReaderMissesNothing'
  BY <1>2 DEF IInv, SeqContiguous, CursorIsCommitted, ReaderMissesNothing
<1>16. QED
  BY <1>11, <1>12, <1>13, <1>14, <1>15 DEF IInv

\* A session that ends its transaction has no append in progress and no
\* uncommitted rows; the appends of the others go on.
LEMMA ReleaseFrees ==
  ASSUME TypeOK, NEW s \in Sessions, Release(s)
  PROVE  /\ pending'[s] = {}
         /\ pc'[s] = "idle"
         /\ \A t \in Sessions \ {s} :
              /\ pending'[t] = pending[t] /\ pc'[t] = pc[t]
              /\ base'[t] = base[t] /\ req'[t] = req[t]
         /\ UNCHANGED <<cursor, delivered>>
  BY DEF Release, EndAppend, TypeOK, readerVars

\* A commit turns the view of its session into the committed rows. The rows
\* that become visible are of runs no other session has uncommitted rows of,
\* and they lie above every cursor.
LEMMA CommitKeepsIInv ==
  ASSUME IInv, TypeOK', NEW s \in Sessions, Commit(s)
  PROVE  IInv'
<1>1. run_events' = Visible(s) /\ Release(s) /\ TypeOK
  BY DEF Commit, Visible, IInv
<1>2. /\ pending'[s] = {}
      /\ pc'[s] = "idle"
      /\ \A t \in Sessions \ {s} :
           /\ pending'[t] = pending[t] /\ pc'[t] = pc[t]
           /\ base'[t] = base[t] /\ req'[t] = req[t]
      /\ UNCHANGED <<cursor, delivered>>
  BY <1>1, ReleaseFrees
<1>3. \A t \in Sessions \ {s} : Visible(t)' = Visible(s) \cup pending[t]
  BY <1>1, <1>2 DEF Visible
<1>4. Visible(s)' = Visible(s)
  BY <1>1, <1>2 DEF Visible
<1>5. SeqContiguous'
  BY <1>1 DEF IInv, VisibleContiguous, Contiguous, SeqContiguous
<1>6. VisibleContiguous'
  <2> SUFFICES ASSUME NEW t \in Sessions
               PROVE  Contiguous(Visible(t)')
    BY DEF VisibleContiguous, Contiguous, NoGaps, NoDuplicates
  <2>1. CASE t = s
    BY <1>4, <2>1 DEF IInv, VisibleContiguous
  <2>2. CASE t # s
    <3>1. Contiguous((run_events \cup pending[s]) \cup pending[t])
      BY <2>2, ContiguousUnion DEF IInv, VisibleContiguous, Visible, OneWriterPerRun
    <3>2. QED
      BY <1>3, <2>2, <3>1 DEF Visible
  <2>3. QED
    BY <2>1, <2>2
<1>7. OneWriterPerRun'
  BY <1>2 DEF IInv, OneWriterPerRun
<1>8. PendingIsNew'
  <2> SUFFICES ASSUME NEW t \in Sessions, NEW row \in pending'[t], row \in run_events'
               PROVE  FALSE
    BY DEF PendingIsNew
  <2>1. t # s /\ row \in pending[t]
    BY <1>2
  <2>2. row \in run_events \/ row \in pending[s]
    BY <1>1 DEF Visible
  <2>3. QED
    BY <2>1, <2>2 DEF IInv, PendingIsNew, OneWriterPerRun
<1>9. BaseIsVisible'
  <2> SUFFICES ASSUME NEW t \in Sessions, pc'[t] \in {"lock", "insert"}
               PROVE  \/ base'[t] = 0
                      \/ \E row \in Visible(t)' : row.run = req'[t].run /\ row.seq = base'[t]
    BY DEF BaseIsVisible
  <2>1. t # s
    BY <1>2
  <2>2. Visible(t) \subseteq Visible(t)'
    BY <1>3, <2>1 DEF Visible
  <2>3. QED
    BY <1>2, <2>1, <2>2 DEF IInv, BaseIsVisible
<1>10. CursorIsCommitted'
  BY <1>1, <1>2 DEF IInv, CursorIsCommitted, Visible
<1>11. ReaderMissesNothing'
  <2> SUFFICES ASSUME NEW c \in Readers, NEW row \in Visible(s),
                      row.seq <= cursor[c][row.run]
               PROVE  row \in delivered[c]
    BY <1>1, <1>2 DEF ReaderMissesNothing
  <2>1. row \in Row /\ cursor[c][row.run] \in Nat
    BY DEF IInv, TypeOK, Visible, Row
  <2>2. cursor[c][row.run] # 0
    BY <2>1 DEF Row
  <2>3. PICK at \in run_events : at.run = row.run /\ at.seq = cursor[c][row.run]
    BY <2>1, <2>2 DEF IInv, CursorIsCommitted, Row
  <2>4. row.seq \in 1..at.seq
    BY <2>1, <2>3 DEF Row
  <2>5. PICK twin \in run_events : twin.run = row.run /\ twin.seq = row.seq
    BY <2>3, <2>4 DEF IInv, SeqContiguous, NoGaps
  <2>6. twin = row
    BY <2>5 DEF IInv, VisibleContiguous, Contiguous, NoDuplicates, Visible
  <2>7. QED
    BY <2>5, <2>6 DEF IInv, ReaderMissesNothing
<1>12. QED
  BY <1>5, <1>6, <1>7, <1>8, <1>9, <1>10, <1>11 DEF IInv

\* A rollback leaves the session with the committed rows.
LEMMA RollbackKeepsIInv ==
  ASSUME IInv, TypeOK', NEW s \in Sessions, Rollback(s)
  PROVE  IInv'
<1>1. /\ pending'[s] = {}
      /\ pc'[s] = "idle"
      /\ \A t \in Sessions \ {s} :
           /\ pending'[t] = pending[t] /\ pc'[t] = pc[t]
           /\ base'[t] = base[t] /\ req'[t] = req[t]
      /\ UNCHANGED <<run_events, cursor, delivered>>
  BY ReleaseFrees DEF Rollback, IInv
<1>2. \A t \in Sessions \ {s} : Visible(t)' = Visible(t)
  BY <1>1 DEF Visible
<1>3. Visible(s)' = run_events
  BY <1>1 DEF Visible
<1>4. VisibleContiguous'
  <2> SUFFICES ASSUME NEW t \in Sessions
               PROVE  Contiguous(Visible(t)')
    BY DEF VisibleContiguous, Contiguous, NoGaps, NoDuplicates
  <2>1. QED
    BY <1>2, <1>3 DEF IInv, VisibleContiguous, SeqContiguous, Contiguous
<1>5. BaseIsVisible'
  BY <1>1, <1>2 DEF IInv, BaseIsVisible
<1>6. OneWriterPerRun' /\ PendingIsNew'
  BY <1>1 DEF IInv, OneWriterPerRun, PendingIsNew
<1>7. SeqContiguous' /\ CursorIsCommitted' /\ ReaderMissesNothing'
  BY <1>1 DEF IInv, SeqContiguous, CursorIsCommitted, ReaderMissesNothing
<1>8. QED
  BY <1>4, <1>5, <1>6, <1>7 DEF IInv

\* A reader is given every committed row between its old and its new cursor.
LEMMA ListKeepsIInv ==
  ASSUME IInv, TypeOK', NEW c \in Readers, NEW r \in Runs, List(c, r)
  PROVE  IInv'
<1>1. PICK last \in OfRun(run_events, r) :
        /\ delivered' = [delivered EXCEPT ![c] = @ \cup
             {row \in OfRun(run_events, r) :
                row.seq > cursor[c][r] /\ row.seq <= last.seq}]
        /\ cursor' = [cursor EXCEPT ![c][r] = last.seq]
  BY DEF List
<1>2. UNCHANGED <<run_events, pc, req, base, pending>>
  BY DEF List, sessionVars
<1>3. \A s \in Sessions : Visible(s)' = Visible(s)
  BY <1>2 DEF Visible
<1>4. CursorIsCommitted'
  BY <1>1, <1>2 DEF IInv, TypeOK, CursorIsCommitted, OfRun
<1>5. ReaderMissesNothing'
  <2> SUFFICES ASSUME NEW d \in Readers, NEW row \in run_events,
                      row.seq <= cursor'[d][row.run]
               PROVE  row \in delivered'[d]
    BY <1>2 DEF ReaderMissesNothing
  <2>1. row \in Row /\ cursor[d][row.run] \in Nat
    BY DEF IInv, TypeOK, Row
  <2>2. CASE row.seq <= cursor[d][row.run]
    <3>1. row \in delivered[d]
      BY <2>2 DEF IInv, ReaderMissesNothing
    <3>2. QED
      BY <1>1, <3>1 DEF IInv, TypeOK
  <2>3. CASE row.seq > cursor[d][row.run]
    <3>1. d = c /\ row.run = r /\ cursor'[d][row.run] = last.seq
      BY <1>1, <2>1, <2>3 DEF IInv, TypeOK, Row
    <3>2. QED
      BY <1>1, <2>3, <3>1 DEF IInv, TypeOK, OfRun
  <2>4. QED
    BY <2>1, <2>2, <2>3 DEF Row
<1>6. VisibleContiguous' /\ SeqContiguous' /\ PendingIsNew' /\ OneWriterPerRun' /\ BaseIsVisible'
  BY <1>2, <1>3 DEF IInv, VisibleContiguous, SeqContiguous, PendingIsNew,
                    OneWriterPerRun, BaseIsVisible
<1>7. QED
  BY <1>4, <1>5, <1>6 DEF IInv

-----------------------------------------------------------------------------

\* Every statement, commit, rollback and read preserves the invariant above.
THEOREM Inductive == Spec => []IInv
<1>1. Init => IInv
  <2> SUFFICES ASSUME Init
               PROVE  IInv
    OBVIOUS
  <2>1. TypeOK
    BY DEF Init, TypeOK, NoUpdates
  <2>2. run_events = {} /\ \A s \in Sessions : pending[s] = {} /\ pc[s] = "idle"
    BY DEF Init
  <2>3. \A s \in Sessions : Visible(s) = {}
    BY <2>2 DEF Visible
  <2>4. VisibleContiguous /\ SeqContiguous /\ OneWriterPerRun /\ PendingIsNew
    BY <2>2, <2>3 DEF VisibleContiguous, SeqContiguous, OneWriterPerRun,
                      PendingIsNew, Contiguous, NoGaps, NoDuplicates
  <2>5. BaseIsVisible /\ ReaderMissesNothing
    BY <2>2 DEF BaseIsVisible, ReaderMissesNothing
  <2>6. CursorIsCommitted
    BY DEF Init, CursorIsCommitted
  <2>7. QED
    BY <2>1, <2>4, <2>5, <2>6 DEF IInv
<1>2. IInv /\ TypeOK' /\ [Next]_vars => IInv'
  <2> SUFFICES ASSUME IInv, TypeOK', [Next]_vars
               PROVE  IInv'
    OBVIOUS
  <2>1. ASSUME NEW s \in Sessions, NEW id \in EventIds, NEW r \in Runs,
               GetRunState(s, id, r)
        PROVE  IInv'
    <3>1. \A t \in Sessions : pc'[t] \in {"lock", "insert"} => t # s
      BY <2>1 DEF GetRunState, IInv, TypeOK
    <3>2. QED
      BY <2>1, <3>1, IInvFrame DEF GetRunState, readerVars, IInv, TypeOK
  <2>2. ASSUME NEW s \in Sessions, ComputeNextSeq(s)
        PROVE  IInv'
    BY <2>2, ComputeNextSeqKeepsIInv
  <2>3. ASSUME NEW s \in Sessions, LockRows(s)
        PROVE  IInv'
    BY <2>3, IInvFrame DEF LockRows, readerVars, IInv, TypeOK
  <2>4. ASSUME NEW s \in Sessions, InsertOk(s)
        PROVE  IInv'
    BY <2>4, InsertOkKeepsIInv
  <2>5. ASSUME NEW s \in Sessions, InsertFails(s)
        PROVE  IInv'
    <3>1. \A t \in Sessions : pc'[t] \in {"lock", "insert"} => t # s
      BY <2>5 DEF InsertFails, IInv, TypeOK
    <3>2. QED
      BY <2>5, <3>1, IInvFrame DEF InsertFails, EndAppend, readerVars, IInv, TypeOK
  <2>6. ASSUME NEW s \in Sessions, NEW r \in Runs, CreateRun(s, r)
        PROVE  IInv'
    <3>1. UNCHANGED <<run_events, pending, cursor, delivered, base, req>>
      BY <2>6 DEF CreateRun, readerVars
    <3>2. \A t \in Sessions : pc'[t] \in {"lock", "insert"} => pc'[t] = pc[t]
      BY <2>6 DEF CreateRun, IInv, TypeOK
    <3>3. QED
      BY <3>1, <3>2, IInvFrame
  <2>7. ASSUME NEW s \in Sessions, NEW r \in Runs, NEW st \in States,
               UpdateState(s, r, st)
        PROVE  IInv'
    BY <2>7, IInvFrame DEF UpdateState, readerVars
  <2>8. ASSUME NEW s \in Sessions, Commit(s)
        PROVE  IInv'
    BY <2>8, CommitKeepsIInv
  <2>9. ASSUME NEW s \in Sessions, Rollback(s)
        PROVE  IInv'
    BY <2>9, RollbackKeepsIInv
  <2>10. ASSUME NEW c \in Readers, NEW r \in Runs, List(c, r)
         PROVE  IInv'
    BY <2>10, ListKeepsIInv
  <2>11. CASE UNCHANGED vars
    BY <2>11, IInvFrame DEF vars, sessionVars, readerVars
  <2>12. QED
    BY <2>1, <2>2, <2>3, <2>4, <2>5, <2>6, <2>7, <2>8, <2>9, <2>10, <2>11
       DEF Next
<1>3. QED
  BY <1>1, <1>2, TypeCorrect, PTL DEF Spec

\* The committed events of a run carry the seqs 1, 2, ... without a gap and
\* without a duplicate, whatever append()s race, commit and roll back.
THEOREM SeqIsContiguous == Spec => []SeqContiguous
<1>1. IInv => SeqContiguous
  BY DEF IInv
<1>2. QED
  BY <1>1, Inductive, PTL

\* No two transactions have uncommitted events of the same run.
THEOREM AppendsAreSerialised == Spec => []OneWriterPerRun
<1>1. IInv => OneWriterPerRun
  BY DEF IInv
<1>2. QED
  BY <1>1, Inductive, PTL

\* A client that polls list(since_seq) is given every committed event up to
\* its cursor.
THEOREM ReadersMissNothing == Spec => []ReaderMissesNothing
<1>1. IInv => ReaderMissesNothing
  BY DEF IInv
<1>2. QED
  BY <1>1, Inductive, PTL

-----------------------------------------------------------------------------
(***************************************************************************)
(* The tables of EventLog implement the logs of RunLog: the committed rows *)
(* of a run are a sequence that commits extend, and no event is in two     *)
(* places.                                                                 *)
(***************************************************************************)

Seqs(rows, r) == {row.seq : row \in OfRun(rows, r)}

\* The rows of every run are numbered up to some n.
Counted(rows) == \A r \in Runs : \E n \in Nat : Seqs(rows, r) = 1..n

\* The primary key.
Keyed(rows) == \A a, b \in rows : a.id = b.id => a = b

\* Uncommitted rows of two sessions do not share an id either.
KeysApart ==
  \A s, t \in Sessions : s # t => \A a \in pending[s], b \in pending[t] : a.id # b.id

\* What is inductive together with IInv.
LInv ==
  /\ Counted(run_events) /\ Keyed(run_events)
  /\ \A s \in Sessions : Counted(Visible(s)) /\ Keyed(Visible(s))
  /\ KeysApart

-----------------------------------------------------------------------------
(* Sets of rows                                                            *)

LEMMA SeqsAdd ==
  ASSUME NEW rows, NEW new, NEW r
  PROVE  /\ new.run = r => Seqs(rows \cup {new}, r) = Seqs(rows, r) \cup {new.seq}
         /\ new.run # r => Seqs(rows \cup {new}, r) = Seqs(rows, r)
BY DEF Seqs, OfRun

\* A row that follows the ones a session sees counts on.
LEMMA CountedAdd ==
  ASSUME NEW rows, Counted(rows), NEW new, NEW top \in Nat, new.seq = top + 1,
         top = 0 \/ \E row \in rows : row.run = new.run /\ row.seq = top,
         \A row \in rows : row.run = new.run => row.seq # new.seq
  PROVE  Counted(rows \cup {new})
<1> SUFFICES ASSUME NEW r \in Runs PROVE \E n \in Nat : Seqs(rows \cup {new}, r) = 1..n
  BY DEF Counted
<1>1. PICK n \in Nat : Seqs(rows, r) = 1..n
  BY DEF Counted
<1>2. CASE new.run # r
  <2>1. Seqs(rows \cup {new}, r) = Seqs(rows, r)
    BY <1>2 DEF Seqs, OfRun
  <2> QED BY <1>1, <2>1
<1>3. CASE new.run = r
  <2>1. top = 0 \/ top \in 1..n
    BY <1>1, <1>3 DEF Seqs, OfRun
  <2>2. top + 1 \notin 1..n
    BY <1>1, <1>3 DEF Seqs, OfRun
  <2>3. top = n
    BY <2>1, <2>2
  <2>4. (1..n) \cup {n + 1} = 1..(n + 1)
    OBVIOUS
  <2>5. Seqs(rows \cup {new}, r) = 1..(n + 1)
    <3>1. Seqs(rows \cup {new}, r) = Seqs(rows, r) \cup {new.seq}
      BY <1>3 DEF Seqs, OfRun
    <3>2. new.seq = n + 1
      BY <2>3
    <3> QED BY <1>1, <2>4, <3>1, <3>2
  <2> QED BY <2>5
<1> QED BY <1>2, <1>3

\* Two extensions of the same rows that extend different runs.
LEMMA CountedUnion ==
  ASSUME NEW C, NEW P, NEW Q, Counted(C \cup P), Counted(C \cup Q),
         \A a \in P, b \in Q : a.run # b.run
  PROVE  Counted((C \cup P) \cup Q)
<1> SUFFICES ASSUME NEW r \in Runs PROVE \E n \in Nat : Seqs((C \cup P) \cup Q, r) = 1..n
  BY DEF Counted
<1>1. CASE \E b \in Q : b.run = r
  <2>1. \A a \in P : a.run # r
    BY <1>1
  <2>2. OfRun((C \cup P) \cup Q, r) = OfRun(C \cup Q, r)
    BY <2>1 DEF OfRun
  <2> QED BY <2>2 DEF Counted, Seqs
<1>2. CASE ~ \E b \in Q : b.run = r
  <2>1. OfRun((C \cup P) \cup Q, r) = OfRun(C \cup P, r)
    BY <1>2 DEF OfRun
  <2> QED BY <2>1 DEF Counted, Seqs
<1> QED BY <1>1, <1>2

-----------------------------------------------------------------------------
(* The invariant                                                           *)

LEMMA InitLInv == Init => LInv
<1> SUFFICES ASSUME Init PROVE LInv
  OBVIOUS
<1>1. run_events = {} /\ \A s \in Sessions : pending[s] = {} /\ Visible(s) = {}
  BY DEF Init, Visible
<1>2. Counted({}) /\ Keyed({})
  <2>1. \A r : Seqs({}, r) = 1..0
    BY DEF Seqs, OfRun
  <2> QED BY <2>1 DEF Counted, Keyed
<1> QED BY <1>1, <1>2 DEF LInv, KeysApart

LEMMA QuietKeepsLInv ==
  ASSUME LInv, UNCHANGED <<run_events, pending>>
  PROVE  LInv'
<1>1. \A s \in Sessions : Visible(s)' = Visible(s)
  BY DEF Visible
<1> QED BY <1>1 DEF LInv, KeysApart

LEMMA InsertKeepsLInv ==
  ASSUME IInv, LInv, NEW s \in Sessions, InsertOk(s)
  PROVE  LInv'
<1> DEFINE new == NewRow(s)
<1>1. new.seq = base[s] + 1 /\ base[s] \in Nat /\ new.run = req[s].run
  BY DEF InsertOk, NewRow, IInv, TypeOK
<1>2. pending' = [pending EXCEPT ![s] = @ \cup {new}] /\ run_events' = run_events
  BY DEF InsertOk
<1>3. base[s] = 0 \/ \E row \in Visible(s) : row.run = new.run /\ row.seq = base[s]
  BY <1>1 DEF IInv, BaseIsVisible, InsertOk
<1>4. /\ \A row \in Visible(s) : row.id # new.id /\ (row.run = new.run => row.seq # new.seq)
      /\ \A t \in Sessions \ {s} : \A row \in pending[t] : row.id # new.id
  BY DEF InsertOk, NoPendingDuplicate, Collide
<1> HIDE DEF new
<1>5. /\ pending'[s] = pending[s] \cup {new} /\ Visible(s)' = Visible(s) \cup {new}
      /\ \A t \in Sessions \ {s} : pending'[t] = pending[t] /\ Visible(t)' = Visible(t)
  BY <1>2 DEF Visible, IInv, TypeOK
<1>6. Counted(Visible(s) \cup {new})
  BY <1>1, <1>3, <1>4, CountedAdd DEF LInv
<1>7. Keyed(Visible(s) \cup {new})
  BY <1>4 DEF LInv, Keyed
<1>8. KeysApart'
  BY <1>4, <1>5 DEF LInv, KeysApart
<1> QED BY <1>2, <1>5, <1>6, <1>7, <1>8 DEF LInv

LEMMA CommitKeepsLInv ==
  ASSUME IInv, LInv, NEW s \in Sessions, Commit(s)
  PROVE  LInv'
<1>1. run_events' = Visible(s) /\ Release(s) /\ TypeOK
  BY DEF Commit, Visible, IInv
<1>2. pending'[s] = {} /\ \A t \in Sessions \ {s} : pending'[t] = pending[t]
  BY <1>1, ReleaseFrees
<1>3. Visible(s)' = Visible(s)
  BY <1>1, <1>2 DEF Visible
<1>4. ASSUME NEW t \in Sessions, t # s
      PROVE  Counted(Visible(t)') /\ Keyed(Visible(t)')
  <2>1. Visible(t)' = (run_events \cup pending[s]) \cup pending[t]
    BY <1>1, <1>2, <1>4 DEF Visible
  <2>2. /\ Counted(run_events \cup pending[s]) /\ Keyed(run_events \cup pending[s])
        /\ Counted(run_events \cup pending[t]) /\ Keyed(run_events \cup pending[t])
    BY DEF LInv, Visible
  <2>3. \A a \in pending[s], b \in pending[t] : a.run # b.run /\ a.id # b.id
    BY <1>4 DEF LInv, KeysApart, IInv, OneWriterPerRun
  <2>4. Counted((run_events \cup pending[s]) \cup pending[t])
    BY <2>2, <2>3, CountedUnion
  <2>5. Keyed((run_events \cup pending[s]) \cup pending[t])
    BY <2>2, <2>3 DEF Keyed
  <2> QED BY <2>1, <2>4, <2>5
<1>5. KeysApart'
  BY <1>2 DEF LInv, KeysApart
<1>6. Counted(Visible(s)) /\ Keyed(Visible(s))
  BY DEF LInv
<1>7. \A t \in Sessions : (Counted(Visible(t)) /\ Keyed(Visible(t)))'
  BY <1>3, <1>4, <1>6 DEF Counted, Keyed
<1> QED BY <1>1, <1>5, <1>6, <1>7 DEF LInv

LEMMA RollbackKeepsLInv ==
  ASSUME IInv, LInv, NEW s \in Sessions, Rollback(s)
  PROVE  LInv'
<1>1. /\ pending'[s] = {} /\ run_events' = run_events
      /\ \A t \in Sessions \ {s} : pending'[t] = pending[t]
  BY ReleaseFrees DEF Rollback, IInv
<1>2. Visible(s)' = run_events /\ \A t \in Sessions \ {s} : Visible(t)' = Visible(t)
  BY <1>1 DEF Visible
<1> QED BY <1>1, <1>2 DEF LInv, KeysApart

\* The rows move in two steps only.
LEMMA RowsMove ==
  ASSUME [Next]_vars
  PROVE  \/ UNCHANGED <<run_events, pending>>
         \/ \E s \in Sessions : InsertOk(s) \/ Commit(s) \/ Rollback(s)
BY DEF Next, vars, sessionVars, readerVars, GetRunState, ComputeNextSeq, LockRows, InsertFails,
       CreateRun, UpdateState, List

LEMMA NextLInv == IInv /\ LInv /\ [Next]_vars => LInv'
BY RowsMove, QuietKeepsLInv, InsertKeepsLInv, CommitKeepsLInv, RollbackKeepsLInv

LEMMA RowsAreSound == Spec => [](IInv /\ LInv)
BY InitLInv, NextLInv, Inductive, PTL DEF Spec

-----------------------------------------------------------------------------
(* The refinement                                                          *)

\* The rows of a run as RunLog sees them.
LogOf(rows, r) ==
  [n \in Seqs(rows, r) |-> (CHOOSE row \in rows : row.run = r /\ row.seq = n).id]

Sound(rows) == rows \subseteq Row /\ Counted(rows) /\ Keyed(rows) /\ NoDuplicates(rows)

LEMMA Places ==
  ASSUME NEW rows, Sound(rows), NEW r \in Runs
  PROVE  \E n \in Nat :
           /\ LogOf(rows, r) \in Seq(EventIds) /\ Len(LogOf(rows, r)) = n
           /\ DOMAIN LogOf(rows, r) = 1..n
           /\ \A i \in 1..n : \E row \in rows : row.run = r /\ row.seq = i
           /\ \A row \in rows : row.run = r =>
                row.seq \in 1..n /\ LogOf(rows, r)[row.seq] = row.id
<1>1. PICK n \in Nat : Seqs(rows, r) = 1..n
  BY DEF Sound, Counted
<1>2. \A i \in 1..n : \E row \in rows : row.run = r /\ row.seq = i
  BY <1>1 DEF Seqs, OfRun
<1>3. ASSUME NEW row \in rows, row.run = r
      PROVE  row.seq \in 1..n /\ LogOf(rows, r)[row.seq] = row.id
  <2>1. row.seq \in Seqs(rows, r)
    BY <1>3 DEF Seqs, OfRun
  <2>2. row = CHOOSE other \in rows : other.run = r /\ other.seq = row.seq
    BY <1>3 DEF Sound, NoDuplicates
  <2> QED BY <1>1, <2>1, <2>2 DEF LogOf
<1>4. \A i \in 1..n : LogOf(rows, r)[i] \in EventIds
  <2> TAKE i \in 1..n
  <2>1. PICK row \in rows : row.run = r /\ row.seq = i
    BY <1>2
  <2>2. row.id \in EventIds
    BY DEF Sound, Row
  <2> QED BY <1>3, <2>1, <2>2
<1>5. LogOf(rows, r) \in [1..n -> EventIds]
  BY <1>1, <1>4 DEF LogOf
<1> QED BY <1>2, <1>3, <1>5

\* Two sequences that agree on the positions of the first.
LEMMA PrefixByPlaces ==
  ASSUME NEW S, NEW s \in Seq(S), NEW t \in Seq(S),
         Len(s) <= Len(t), \A i \in 1..Len(s) : s[i] = t[i]
  PROVE  Log!IsPrefix(s, t)
<1> DEFINE a == SubSeq(s, 1, Len(s))
           b == SubSeq(t, 1, Len(s))
<1>1. Len(s) \in Nat /\ 1 \in Int
  OBVIOUS
<1>2. \A i \in 1..Len(s) : s[i] \in S /\ t[i] \in S
  OBVIOUS
<1>3. /\ a \in Seq(S) /\ Len(a) = Len(s)
      /\ \A i \in 1..Len(s) : a[i] = s[i]
  BY <1>1, <1>2, SubSeqProperties
<1>4. /\ b \in Seq(S) /\ Len(b) = Len(s)
      /\ \A i \in 1..Len(s) : b[i] = t[i]
  BY <1>1, <1>2, SubSeqProperties
<1>5. a = b
  <2> HIDE DEF a, b
  <2> QED BY <1>3, <1>4, SeqEqual
<1> QED BY <1>5 DEF Log!IsPrefix

\* More rows, a longer log.
LEMMA MoreRows ==
  ASSUME NEW rows, NEW more, Sound(rows), Sound(more), rows \subseteq more, NEW r \in Runs
  PROVE  Log!IsPrefix(LogOf(rows, r), LogOf(more, r))
<1> DEFINE s == LogOf(rows, r)
           t == LogOf(more, r)
<1>1. PICK n \in Nat :
        /\ s \in Seq(EventIds) /\ Len(s) = n
        /\ \A i \in 1..n : \E row \in rows : row.run = r /\ row.seq = i
        /\ \A row \in rows : row.run = r => s[row.seq] = row.id
  BY Places
<1>2. PICK m \in Nat :
        /\ t \in Seq(EventIds) /\ Len(t) = m
        /\ \A row \in more : row.run = r => row.seq \in 1..m /\ t[row.seq] = row.id
  BY Places
<1> HIDE DEF s, t
<1>3. \A i \in 1..n : i \in 1..m /\ s[i] = t[i]
  <2> TAKE i \in 1..n
  <2>1. PICK row \in rows : row.run = r /\ row.seq = i
    BY <1>1
  <2> QED BY <1>1, <1>2, <2>1
<1>4. n <= m
  BY <1>3
<1>5. Log!IsPrefix(s, t)
  BY <1>1, <1>2, <1>3, <1>4, PrefixByPlaces
<1> QED BY <1>5 DEF s, t

\* The log as ImplementsRunLog writes it.
Logs == [r \in Runs |-> LogOf(run_events, r)]

\* A step of RunLog from the logs l to the logs m.
ExtendsTo(l, m) ==
  /\ \A r \in Runs : Log!IsPrefix(l[r], m[r])
  /\ DOMAIN m = Runs
  /\ \A r, q \in Runs : \A i \in DOMAIN m[r], j \in DOMAIN m[q] :
       m[r][i] = m[q][j] => r = q /\ i = j
  /\ Log!Recorded(m) \subseteq EventIds

LEMMA SameLog ==
  [r \in Runs |-> [n \in {row.seq : row \in OfRun(run_events, r)} |-> EventAt(r, n).id]] = Logs
BY DEF Logs, LogOf, Seqs, EventAt

(***************************************************************************)
(* RunEventRepositoryImpl.append, whatever transactions it runs in and     *)
(* however they end, keeps the promise of RunLog: what is committed is one *)
(* sequence of events per run, a commit extends it, and no event id enters *)
(* twice.                                                                  *)
(***************************************************************************)
THEOREM EventLogImplementsRunLog == Spec => ImplementsRunLog
<1> DEFINE M == [r \in Runs |-> [n \in {row.seq : row \in OfRun(run_events, r)} |->
                                   EventAt(r, n).id]]
<1>1. Init => Log!Init
  <2> SUFFICES ASSUME Init PROVE M = [r \in Runs |-> <<>>]
    BY DEF Log!Init
  <2>1. ASSUME NEW r \in Runs PROVE LogOf(run_events, r) = <<>>
    <3>1. Seqs(run_events, r) = {}
      BY DEF Init, OfRun, Seqs
    <3> QED BY <3>1 DEF LogOf
  <2>2. Logs = [r \in Runs |-> <<>>]
    BY <2>1 DEF Logs
  <2> QED BY <2>2, SameLog
<1>2. IInv /\ LInv /\ [Next]_vars /\ IInv' /\ LInv' => [Log!Extend]_M
  <2> SUFFICES ASSUME IInv, LInv, [Next]_vars, IInv', LInv'
      PROVE  [Log!Extend]_M
    OBVIOUS
  <2>1. M = Logs
    BY SameLog
  <2>2. M' = Logs'
    BY DEF Logs, LogOf, Seqs, EventAt, OfRun
  <2> HIDE DEF M
  <2>3. CASE run_events' = run_events
    <3>1. Logs' = Logs
      BY <2>3 DEF Logs
    <3> QED BY <2>1, <2>2, <3>1
  <2>4. ASSUME NEW s \in Sessions, Commit(s)
        PROVE  ExtendsTo(Logs, Logs')
    <3>1. run_events \subseteq run_events'
      BY <2>4 DEF Commit
    <3>2. Sound(run_events) /\ Sound(run_events')
      BY DEF IInv, TypeOK, SeqContiguous, LInv, Sound
    <3>3. /\ DOMAIN Logs' = Runs
          /\ \A r \in Runs : Logs[r] = LogOf(run_events, r) /\ Logs'[r] = LogOf(run_events', r)
      BY DEF Logs
    <3>4. \A r \in Runs : Log!IsPrefix(Logs[r], Logs'[r])
      BY <3>1, <3>2, <3>3, MoreRows
    <3>5. ASSUME NEW r \in Runs, NEW i \in DOMAIN Logs'[r]
          PROVE  \E row \in run_events' : row.run = r /\ row.seq = i /\ Logs'[r][i] = row.id
      <4> DEFINE a == LogOf(run_events', r)
      <4>1. PICK n \in Nat :
              /\ DOMAIN a = 1..n
              /\ \A k \in 1..n : \E row \in run_events' : row.run = r /\ row.seq = k
              /\ \A row \in run_events' : row.run = r => a[row.seq] = row.id
        BY <3>2, Places
      <4>2. Logs'[r] = a
        BY <3>3
      <4> HIDE DEF a
      <4> QED BY <3>5, <4>1, <4>2
    <3>6. ASSUME NEW r \in Runs, NEW q \in Runs, NEW i \in DOMAIN Logs'[r],
                 NEW j \in DOMAIN Logs'[q], Logs'[r][i] = Logs'[q][j]
          PROVE  r = q /\ i = j
      <4>1. PICK a \in run_events' : a.run = r /\ a.seq = i /\ Logs'[r][i] = a.id
        BY <3>5
      <4>2. PICK b \in run_events' : b.run = q /\ b.seq = j /\ Logs'[q][j] = b.id
        BY <3>5
      <4>3. a = b
        BY <3>2, <3>6, <4>1, <4>2 DEF Sound, Keyed
      <4> QED BY <4>1, <4>2, <4>3
    <3>7. Log!Recorded(Logs') \subseteq EventIds
      <4>1. ASSUME NEW r \in Runs, NEW i \in DOMAIN Logs'[r] PROVE Logs'[r][i] \in EventIds
        <5>1. PICK a \in run_events' : Logs'[r][i] = a.id
          BY <3>5
        <5> QED BY <3>2, <5>1 DEF Sound, Row
      <4> QED BY <4>1 DEF Log!Recorded, Log!ToSet
    <3> QED BY <3>3, <3>4, <3>6, <3>7 DEF ExtendsTo
  <2>5. run_events' = run_events \/ \E s \in Sessions : Commit(s)
    BY DEF Next, vars, sessionVars, readerVars, GetRunState, ComputeNextSeq, LockRows, InsertOk,
           InsertFails, CreateRun, UpdateState, Rollback, List
  <2>6. ASSUME NEW s \in Sessions, Commit(s) PROVE Log!Extend
    <3>1. ExtendsTo(M, M')
      BY <2>1, <2>2, <2>4, <2>6
    <3> QED BY <3>1 DEF Log!Extend, ExtendsTo, M
  <2> QED BY <2>3, <2>5, <2>6
<1> QED BY <1>1, <1>2, RowsAreSound, PTL DEF Spec, ImplementsRunLog, Log!Spec
=============================================================================
