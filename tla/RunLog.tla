------------------------------- MODULE RunLog -------------------------------
(***************************************************************************)
(* What the RT-002 run event log promises its readers and its callers,     *)
(* whatever the database does underneath: every run has one sequence of    *)
(* events, the event with seq n is its n-th element, a committed           *)
(* transaction adds a batch of events at the tails of the runs it wrote,   *)
(* and nothing that was ever committed moves, changes or disappears.       *)
(***************************************************************************)
EXTENDS Naturals, Sequences, SequencesExt

CONSTANTS
  Runs,      \* run identifiers
  EventIds   \* event identifiers, the primary key of run_events

VARIABLE log \* log[r][n] is the id of the event of run r whose seq is n

\* The identifiers some run's log already holds.
Recorded(l) == UNION {ToSet(l[r]) : r \in Runs}

Init == log = [r \in Runs |-> <<>>]

(***************************************************************************)
(* One committed transaction: the log of every run keeps what it had as a  *)
(* prefix, and no event id occurs twice anywhere in the new log.           *)
(***************************************************************************)
Extend ==
  /\ \A r \in Runs : IsPrefix(log[r], log'[r])
  /\ DOMAIN log' = Runs
  /\ \A r, q \in Runs : \A i \in DOMAIN log'[r], j \in DOMAIN log'[q] :
       log'[r][i] = log'[q][j] => r = q /\ i = j
  /\ Recorded(log') \subseteq EventIds

Spec == Init /\ [][Extend]_log
=============================================================================
