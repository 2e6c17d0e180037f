----------------------------- MODULE SseStream -----------------------------
(***************************************************************************)
(* GET /runs/{run_id}/events: clients follow the log of one run over SSE,  *)
(* lose the connection and come back with last_seen_seq. The server side   *)
(* of a connection is the generator _build_stream, suspended at its awaits *)
(* and yields: it replays the log, then waits on an in-process event that  *)
(* _publish sets, and reads the log again when it wakes.                   *)
(***************************************************************************)
EXTENDS Integers, Sequences, FiniteSetsExt, SequencesExt

CONSTANTS
  Clients, \* clients of the endpoint, each with at most one connection
  MaxSeq   \* bound: the length of the log

ASSUME MaxSeqAssumption == MaxSeq \in Nat

VARIABLES
  log,       \* log[n]: the type of the event with seq n
  published, \* the length of the log when _publish was last called
  conn,      \* conn[c]: the generator that serves client c
  received,  \* received[c]: every seq client c was ever sent
  lastId     \* lastId[c]: the seq of the last frame client c was sent

vars == <<log, published, conn, received, lastId>>

EventTypes == {"run.progress", "run.completed"}

\* What _terminal_states of the router holds: names of states.
TerminalStates == {"completed", "failed", "cancelled"}

\* at: the point the generator is suspended at; since: last_seen_seq;
\* batch: the seqs it has listed and not sent; sent: the frames it sent;
\* subscribed: is its subscriber registered; set: is the event it awaits set.
Closed ==
  [at |-> "closed", since |-> 0, batch |-> {}, sent |-> <<>>,
   subscribed |-> FALSE, set |-> FALSE]

Init ==
  /\ log = <<>>
  /\ published = 0
  /\ conn = [c \in Clients |-> Closed]
  /\ received = [c \in Clients |-> {}]
  /\ lastId = [c \in Clients |-> 0]

-----------------------------------------------------------------------------
(* The rest of the process                                                 *)

AppendEvent(type) ==
  /\ Len(log) < MaxSeq
  /\ log' = Append(log, type)
  /\ UNCHANGED <<published, conn, received, lastId>>

\* _publish sets the event of every registered subscriber, awaited or not.
Publish ==
  /\ published < Len(log)
  /\ published' = Len(log)
  /\ conn' = [c \in Clients |-> [conn[c] EXCEPT !.set = @ \/ conn[c].subscribed]]
  /\ UNCHANGED <<log, received, lastId>>

-----------------------------------------------------------------------------
(* run_events_stream and _build_stream                                     *)

\* last_seen_seq beyond the log is a 400.
Connect(c) ==
  /\ conn[c] = Closed
  /\ lastId[c] <= Len(log)
  /\ conn' = [conn EXCEPT ![c] = [Closed EXCEPT !.at = "replay", !.since = lastId[c]]]
  /\ UNCHANGED <<log, published, received, lastId>>

\* The seqs above the cutoff that this connection has not sent.
Unsent(c, cutoff) == ((cutoff + 1)..Len(log)) \ ToSet(conn[c].sent)

List(c, at, cutoff) ==
  /\ conn[c].at = at
  /\ conn' = [conn EXCEPT ![c].at = "send", ![c].batch = Unsent(c, cutoff)]
  /\ UNCHANGED <<log, published, received, lastId>>

Replay(c) == List(c, "replay", conn[c].since)

\* Mutant: the tail starts where the log ended when it was woken last.
CutoffPublished(c) == published - 1

\* A connection that has sent nothing starts over.
Cutoff(c) ==
  IF conn[c].sent = <<>> THEN 0
  ELSE Max({conn[c].since} \cup ToSet(conn[c].sent))

Requery(c) == List(c, "requery", Cutoff(c))

\* Generator x after the frame with seq n.
Advanced(x, n) == [x EXCEPT !.batch = @ \ {n}, !.sent = Append(@, n)]

\* One frame, in ascending order of seq. The type of an event is compared with
\* the names of states.
Send(c) ==
  /\ conn[c].at = "send"
  /\ conn[c].batch # {}
  /\ LET n == Min(conn[c].batch) IN
     /\ received' = [received EXCEPT ![c] = @ \cup {n}]
     /\ lastId' = [lastId EXCEPT ![c] = n]
     /\ conn' = [conn EXCEPT ![c] =
                   IF log[n] \in TerminalStates THEN Closed
                   ELSE Advanced(conn[c], n)]
  /\ UNCHANGED <<log, published>>

\* The batch is sent: subscribe, unless subscribed, and await a new event.
\* Whatever set the old one is forgotten.
Await(c) ==
  /\ conn[c].at = "send"
  /\ conn[c].batch = {}
  /\ conn' = [conn EXCEPT ![c].at = "wait", ![c].subscribed = TRUE, ![c].set = FALSE]
  /\ UNCHANGED <<log, published, received, lastId>>

Wake(c) ==
  /\ conn[c].at = "wait"
  /\ conn[c].set
  /\ conn' = [conn EXCEPT ![c].at = "requery"]
  /\ UNCHANGED <<log, published, received, lastId>>

\* The client goes away, or an exception is swallowed: _unsubscribe.
Disconnect(c) ==
  /\ conn[c] # Closed
  /\ conn' = [conn EXCEPT ![c] = Closed]
  /\ UNCHANGED <<log, published, received, lastId>>

Serve(c) == Replay(c) \/ Requery(c) \/ Send(c) \/ Await(c) \/ Wake(c)

Next ==
  \/ \E type \in EventTypes : AppendEvent(type)
  \/ Publish
  \/ \E c \in Clients : Connect(c) \/ Serve(c) \/ Disconnect(c)

Spec == Init /\ [][Next]_vars

\* The event loop resumes a generator that can go on. Nothing is assumed of
\* _publish: no code of the repository calls it.
FairSpec == Spec /\ \A c \in Clients : WF_vars(Serve(c))

-----------------------------------------------------------------------------
(* Properties                                                              *)

Connections ==
  [at : {"closed", "replay", "send", "wait", "requery"}, since : Nat, batch : SUBSET Nat,
   sent : Seq(Nat), subscribed : BOOLEAN, set : BOOLEAN]

TypeOK ==
  /\ log \in Seq(EventTypes) /\ Len(log) <= MaxSeq
  /\ published \in 0..Len(log)
  /\ received \in [Clients -> SUBSET (1..MaxSeq)]
  /\ lastId \in [Clients -> 0..MaxSeq]
  /\ conn \in [Clients -> Connections]
  /\ \A c \in Clients :
       /\ conn[c].since \in 0..Len(log)
       /\ conn[c].batch \cup ToSet(conn[c].sent) \subseteq 1..Len(log)
       /\ conn[c].set => conn[c].subscribed

(***************************************************************************)
(* RT-002 replay: the frames of a connection are consecutive, although the *)
(* log grows while they are sent.                                          *)
(***************************************************************************)
FramesConsecutive ==
  \A c \in Clients : \A i \in 1..(Len(conn[c].sent) - 1) :
    conn[c].sent[i + 1] = conn[c].sent[i] + 1

(***************************************************************************)
(* A client that reconnects with the last id it saw has no hole in what it *)
(* has received, over any number of lost connections.                      *)
(***************************************************************************)
NoHoleAfterReconnect ==
  \A c \in Clients : \E n \in 0..MaxSeq : received[c] = 1..n

(***************************************************************************)
(* A stream that is woken catches up: once the event that it awaits is set,*)
(* all that had been published by then reaches the client if the connection*)
(* lives, what was published behind its back included (while it replayed   *)
(* or sent a batch), however the log grows meanwhile.                      *)
(***************************************************************************)
WokenCatchesUp ==
  \A c \in Clients : \A n \in 1..MaxSeq :
    conn[c].at = "wait" /\ conn[c].set /\ n <= published
      ~> n \in received[c] \/ conn[c] = Closed

-----------------------------------------------------------------------------
(* Statements of the documents that the code does not keep                 *)

(***************************************************************************)
(* The endpoint tails new events (run_events.py:52): what is published     *)
(* while a connection lives reaches its client. It does not: what is       *)
(* published between the replay and the subscription, or while a batch is  *)
(* sent, sets no event that the stream will await.                         *)
(***************************************************************************)
EveryEventArrives ==
  \A c \in Clients : \A n \in 1..MaxSeq :
    conn[c] # Closed /\ n <= published ~> n \in received[c] \/ conn[c] = Closed
=============================================================================
