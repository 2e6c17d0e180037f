-------------------------- MODULE SseStreamProofs --------------------------
(***************************************************************************)
(* For any number of clients and any log: the frames of a connection are   *)
(* consecutive, and reconnecting leaves no hole in what a client received, *)
(* although a connection that has sent nothing starts over when it wakes.  *)
(***************************************************************************)
EXTENDS SseStream, SequenceTheorems, TLAPS

\* The frames that connection x has sent, the last of them with seq last.
Frames(x, last) ==
  /\ \A i \in 1..(Len(x.sent) - 1) : x.sent[i + 1] = x.sent[i] + 1
  /\ \A i \in 1..Len(x.sent) : x.sent[i] <= last
  /\ x.sent # <<>> => x.sent[Len(x.sent)] = last

\* It is sending what it listed, from p + 1 to k: never beyond what the client
\* has next, right behind the last frame, and up to where the client was.
Sending(x, last, m, len) ==
  \E p, k \in 0..len :
    /\ x.batch = (p + 1)..k /\ x.since <= k
    /\ p <= m
    /\ x.sent # <<>> => p = last

\* The client of x has got everything up to some m.
Follows(x, got, last, len) ==
  \E m \in 0..len :
    /\ got = 1..m /\ last \in 0..m /\ x.since \in 0..m
    /\ Frames(x, last)
    /\ x.at = "replay" => x.sent = <<>>
    /\ x.at = "send" => Sending(x, last, m, len)
    /\ x.at # "send" /\ x.sent # <<>> => x.since <= last

AllFollow == \A c \in Clients : Follows(conn[c], received[c], lastId[c], Len(log))

Types ==
  /\ log \in Seq(EventTypes) /\ Len(log) <= MaxSeq
  /\ conn \in [Clients -> Connections]
  /\ received \in [Clients -> SUBSET Nat]
  /\ lastId \in [Clients -> Nat]

\* The inductive invariant.
IInv == Types /\ AllFollow

-----------------------------------------------------------------------------

LEMMA ClosedFacts ==
  /\ Closed \in Connections /\ Closed.at = "closed" /\ Closed.since = 0
  /\ Closed.sent = <<>> /\ Closed.batch = {}
<1>1. <<>> \in Seq(Nat)
  OBVIOUS
<1> QED BY <1>1 DEF Closed, Connections

\* A connection at its start, or at its end.
LEMMA EmptyFollows ==
  ASSUME NEW x, x.sent = <<>>, x.at \in {"closed", "replay"},
         NEW len \in Nat, NEW m \in 0..len, NEW last \in 0..m, x.since \in 0..m
  PROVE  Follows(x, 1..m, last, len)
<1>1. Len(<<>>) = 0
  OBVIOUS
<1>2. Frames(x, last)
  BY <1>1 DEF Frames
<1> QED BY <1>2 DEF Follows

\* What a client has, is not disturbed by a log that grows.
LEMMA FollowsStays ==
  ASSUME NEW x, NEW y, NEW got, NEW last, NEW len \in Nat, NEW more \in Nat, len <= more,
         Follows(x, got, last, len),
         y.at = x.at, y.since = x.since, y.batch = x.batch, y.sent = x.sent
  PROVE  Follows(y, got, last, more)
<1>1. PICK m \in 0..len :
        /\ got = 1..m /\ last \in 0..m /\ x.since \in 0..m
        /\ Frames(x, last)
        /\ x.at = "replay" => x.sent = <<>>
        /\ x.at = "send" => Sending(x, last, m, len)
        /\ x.at # "send" /\ x.sent # <<>> => x.since <= last
  BY DEF Follows
<1>2. m \in 0..more
  OBVIOUS
<1>3. Frames(y, last)
  BY <1>1 DEF Frames
<1>4. y.at = "send" => Sending(y, last, m, more)
  BY <1>1 DEF Sending
<1> QED BY <1>1, <1>2, <1>3, <1>4 DEF Follows

LEMMA InitIInv == Init => IInv
<1> SUFFICES ASSUME Init PROVE IInv
  OBVIOUS
<1>1. log = <<>> /\ Len(log) = 0 /\ log \in Seq(EventTypes)
  BY DEF Init
<1>2. Types
  <2> HIDE DEF Closed
  <2> QED BY <1>1, ClosedFacts, MaxSeqAssumption DEF Init, Types
<1>3. \A c \in Clients : Follows(conn[c], received[c], lastId[c], Len(log))
  <2> TAKE c \in Clients
  <2>1. conn[c] = Closed /\ received[c] = {} /\ lastId[c] = 0
    BY DEF Init
  <2>2. received[c] = 1..0
    BY <2>1
  <2>3. Follows(Closed, 1..0, 0, 0)
    BY ClosedFacts, EmptyFollows
  <2> QED BY <1>1, <2>1, <2>2, <2>3
<1> QED BY <1>2, <1>3 DEF IInv, AllFollow

\* A step of one connection.
LEMMA OneKeepsIInv ==
  ASSUME IInv, NEW c \in Clients, NEW x \in Connections, NEW got \in SUBSET Nat, NEW last \in Nat,
         conn' = [conn EXCEPT ![c] = x], received' = [received EXCEPT ![c] = got],
         lastId' = [lastId EXCEPT ![c] = last], log' = log,
         Follows(x, got, last, Len(log))
  PROVE  IInv'
<1>1. Types'
  BY DEF IInv, Types
<1>2. /\ conn'[c] = x /\ received'[c] = got /\ lastId'[c] = last
      /\ \A d \in Clients \ {c} :
           conn'[d] = conn[d] /\ received'[d] = received[d] /\ lastId'[d] = lastId[d]
  BY DEF IInv, Types
<1>3. AllFollow'
  BY <1>2 DEF IInv, AllFollow
<1> QED BY <1>1, <1>3 DEF IInv

\* Most steps send nothing.
LEMMA SilentKeepsIInv ==
  ASSUME IInv, NEW c \in Clients, NEW x \in Connections,
         conn' = [conn EXCEPT ![c] = x], UNCHANGED <<log, received, lastId>>,
         Follows(x, received[c], lastId[c], Len(log))
  PROVE  IInv'
<1>1. received[c] \in SUBSET Nat /\ lastId[c] \in Nat
  BY DEF IInv, Types
<1>2. /\ received' = [received EXCEPT ![c] = received[c]]
      /\ lastId' = [lastId EXCEPT ![c] = lastId[c]]
  BY DEF IInv, Types
<1> QED BY <1>1, <1>2, OneKeepsIInv

\* What is known of the connection of a client.
Known(x, got, last, m, len) ==
  /\ m \in 0..len /\ got = 1..m /\ last \in 0..m /\ x.since \in 0..m
  /\ Frames(x, last)
  /\ x.at = "replay" => x.sent = <<>>
  /\ x.at = "send" => Sending(x, last, m, len)
  /\ x.at # "send" /\ x.sent # <<>> => x.since <= last

LEMMA Facts ==
  ASSUME IInv, NEW c \in Clients
  PROVE  /\ conn[c] \in Connections /\ Len(log) \in Nat
         /\ \E m : Known(conn[c], received[c], lastId[c], m, Len(log))
<1>1. conn[c] \in Connections /\ Len(log) \in Nat
  BY DEF IInv, Types
<1>2. Follows(conn[c], received[c], lastId[c], Len(log))
  BY DEF IInv, AllFollow
<1> QED BY <1>1, <1>2 DEF Follows, Known

-----------------------------------------------------------------------------
(* The steps                                                               *)

LEMMA ConnectKeepsIInv ==
  ASSUME IInv, NEW c \in Clients, Connect(c)
  PROVE  IInv'
<1> DEFINE x == [Closed EXCEPT !.at = "replay", !.since = lastId[c]]
<1>1. PICK m : Known(conn[c], received[c], lastId[c], m, Len(log))
  BY Facts
<1>2. Len(log) \in Nat /\ m \in 0..Len(log) /\ received[c] = 1..m /\ lastId[c] \in 0..m
  BY <1>1, Facts DEF Known
<1>3. x \in Connections /\ x.sent = <<>> /\ x.at = "replay" /\ x.since = lastId[c]
  <2>1. lastId[c] \in Nat
    BY <1>2
  <2>2. <<>> \in Seq(Nat)
    OBVIOUS
  <2> QED BY <2>1, <2>2 DEF Connections, Closed
<1>4. conn' = [conn EXCEPT ![c] = x] /\ UNCHANGED <<log, received, lastId>>
  BY DEF Connect
<1> HIDE DEF x
<1>5. Follows(x, received[c], lastId[c], Len(log))
  BY <1>2, <1>3, EmptyFollows
<1> QED BY <1>3, <1>4, <1>5, SilentKeepsIInv

LEMMA DisconnectKeepsIInv ==
  ASSUME IInv, NEW c \in Clients, Disconnect(c)
  PROVE  IInv'
<1>1. PICK m : Known(conn[c], received[c], lastId[c], m, Len(log))
  BY Facts
<1>2. Len(log) \in Nat /\ m \in 0..Len(log) /\ received[c] = 1..m /\ lastId[c] \in 0..m
  BY <1>1, Facts DEF Known
<1>3. Follows(Closed, received[c], lastId[c], Len(log))
  BY <1>2, ClosedFacts, EmptyFollows
<1>4. conn' = [conn EXCEPT ![c] = Closed] /\ UNCHANGED <<log, received, lastId>>
  BY DEF Disconnect
<1> QED BY <1>3, <1>4, ClosedFacts, SilentKeepsIInv

\* The cutoff of a connection that has sent something is its last frame.
LEMMA CutoffIsLast ==
  ASSUME IInv, NEW c \in Clients, conn[c].at # "send", conn[c].sent # <<>>
  PROVE  Cutoff(c) = lastId[c]
<1> DEFINE x == conn[c]
           S == {x.since} \cup ToSet(x.sent)
<1>1. PICK m : Known(x, received[c], lastId[c], m, Len(log))
  BY Facts
<1>2. x.sent \in Seq(Nat) /\ x.since \in Nat /\ lastId[c] \in Nat
  BY Facts DEF Connections, IInv, Types
<1>3. x.since <= lastId[c] /\ Frames(x, lastId[c])
  BY <1>1 DEF Known
<1> HIDE DEF x
<1>4. Len(x.sent) \in Nat /\ Len(x.sent) # 0 /\ DOMAIN x.sent = 1..Len(x.sent)
  BY <1>2, EmptySeq DEF x
<1>5. ToSet(x.sent) = {x.sent[i] : i \in 1..Len(x.sent)}
  BY <1>4 DEF ToSet
<1>6. \A n \in S : n <= lastId[c] /\ n \in Nat
  BY <1>2, <1>3, <1>5 DEF Frames
<1>7. lastId[c] \in S
  BY <1>3, <1>4, <1>5 DEF Frames, x
<1> HIDE DEF S
<1>8. Max(S) \in S /\ \A n \in S : Max(S) >= n
  BY <1>6, <1>7 DEF Max
<1>9. Max(S) = lastId[c]
  BY <1>2, <1>6, <1>7, <1>8
<1> QED BY <1>9 DEF Cutoff, S, x

\* List: from the cutoff to the end of the log.
LEMMA ListKeepsIInv ==
  ASSUME IInv, NEW c \in Clients, NEW at, NEW cutoff \in Nat, List(c, at, cutoff),
         at \in {"replay", "requery"},
         NEW m, Known(conn[c], received[c], lastId[c], m, Len(log)), cutoff <= m,
         conn[c].sent # <<>> => cutoff = lastId[c]
  PROVE  IInv'
<1> DEFINE old == conn[c]
           x == [old EXCEPT !.at = "send", !.batch = Unsent(c, cutoff)]
<1>1. old \in Connections /\ Len(log) \in Nat /\ old.at = at
  BY Facts DEF List
<1>2. /\ m \in 0..Len(log) /\ received[c] = 1..m /\ lastId[c] \in 0..m /\ old.since \in 0..m
      /\ Frames(old, lastId[c])
  BY DEF Known
<1>3. Unsent(c, cutoff) = (cutoff + 1)..Len(log)
  <2>1. CASE old.sent = <<>>
    BY <2>1 DEF Unsent, ToSet
  <2>2. CASE old.sent # <<>>
    <3>1. \A n \in ToSet(old.sent) : n <= lastId[c] /\ n \in Nat
      <4> HIDE DEF old
      <4>1. old.sent \in Seq(Nat)
        BY <1>1 DEF Connections
      <4>2. ToSet(old.sent) = {old.sent[i] : i \in 1..Len(old.sent)}
        BY <4>1 DEF ToSet
      <4> QED BY <1>2, <4>1, <4>2 DEF Frames
    <3>2. ToSet(old.sent) \cap ((cutoff + 1)..Len(log)) = {}
      BY <1>2, <2>2, <3>1
    <3> QED BY <3>2 DEF Unsent
  <2> QED BY <2>1, <2>2
<1>4. /\ x \in Connections /\ x.at = "send" /\ x.since = old.since /\ x.sent = old.sent
      /\ x.batch = (cutoff + 1)..Len(log)
  <2>1. (cutoff + 1)..Len(log) \in SUBSET Nat
    BY <1>1
  <2> HIDE DEF old
  <2> QED BY <1>1, <1>3, <2>1 DEF Connections
<1>5. conn' = [conn EXCEPT ![c] = x] /\ UNCHANGED <<log, received, lastId>>
  BY DEF List
<1> HIDE DEF x, old
<1>6. Sending(x, lastId[c], m, Len(log))
  <2>1. cutoff \in 0..Len(log) /\ Len(log) \in 0..Len(log) /\ x.since <= Len(log)
    BY <1>1, <1>2, <1>4
  <2> QED BY <1>4, <2>1 DEF Sending, old
<1>7. Frames(x, lastId[c])
  BY <1>2, <1>4 DEF Frames
<1>8. Follows(x, received[c], lastId[c], Len(log))
  BY <1>2, <1>4, <1>6, <1>7 DEF Follows
<1> QED BY <1>4, <1>5, <1>8, SilentKeepsIInv

LEMMA ReplayKeepsIInv ==
  ASSUME IInv, NEW c \in Clients, Replay(c)
  PROVE  IInv'
<1>1. PICK m : Known(conn[c], received[c], lastId[c], m, Len(log))
  BY Facts
<1>2. /\ conn[c].since \in Nat /\ conn[c].since <= m
      /\ conn[c].sent = <<>> /\ List(c, "replay", conn[c].since)
  BY <1>1, Facts DEF Known, Replay, List
<1> QED BY <1>1, <1>2, ListKeepsIInv

LEMMA RequeryKeepsIInv ==
  ASSUME IInv, NEW c \in Clients, Requery(c)
  PROVE  IInv'
<1>1. PICK m : Known(conn[c], received[c], lastId[c], m, Len(log))
  BY Facts
<1>2. conn[c].at = "requery" /\ List(c, "requery", Cutoff(c))
  BY DEF Requery, List
<1>3. conn[c].sent = <<>> => Cutoff(c) = 0
  BY DEF Cutoff
<1>4. conn[c].sent # <<>> => Cutoff(c) = lastId[c]
  BY <1>2, CutoffIsLast
<1>5. lastId[c] \in 0..m /\ m \in Nat
  BY <1>1, Facts DEF Known
<1>6. Cutoff(c) \in Nat /\ Cutoff(c) <= m
  BY <1>3, <1>4, <1>5
<1> QED BY <1>1, <1>2, <1>4, <1>6, ListKeepsIInv

LEMMA AwaitKeepsIInv ==
  ASSUME IInv, NEW c \in Clients, Await(c)
  PROVE  IInv'
<1> DEFINE old == conn[c]
           x == [old EXCEPT !.at = "wait", !.subscribed = TRUE, !.set = FALSE]
<1>1. PICK m : Known(old, received[c], lastId[c], m, Len(log))
  BY Facts
<1>2. old \in Connections /\ Len(log) \in Nat /\ old.at = "send" /\ old.batch = {}
  BY Facts DEF Await
<1>3. conn' = [conn EXCEPT ![c] = x] /\ UNCHANGED <<log, received, lastId>>
  BY DEF Await
<1> HIDE DEF old
<1>4. x \in Connections /\ x.at = "wait" /\ x.since = old.since /\ x.sent = old.sent
  BY <1>2 DEF Connections
<1> HIDE DEF x
<1>5. x.sent # <<>> => x.since <= lastId[c]
  <2>1. PICK p, k \in 0..Len(log) :
          /\ old.batch = (p + 1)..k /\ old.since <= k
          /\ old.sent # <<>> => p = lastId[c]
    BY <1>1, <1>2 DEF Known, Sending
  <2>2. k <= p
    <3>1. p \in Int /\ k \in Int
      BY <1>2
    <3>2. (p + 1)..k = {}
      BY <1>2, <2>1, Zenon
    <3> QED BY <3>1, <3>2
  <2>3. old.since \in Nat
    BY <1>2 DEF Connections
  <2> QED BY <1>2, <1>4, <2>1, <2>2, <2>3
<1>6. Frames(x, lastId[c])
  BY <1>1, <1>4 DEF Known, Frames
<1>7. Follows(x, received[c], lastId[c], Len(log))
  BY <1>1, <1>4, <1>5, <1>6 DEF Known, Follows
<1> QED BY <1>3, <1>4, <1>7, SilentKeepsIInv

LEMMA WakeKeepsIInv ==
  ASSUME IInv, NEW c \in Clients, Wake(c)
  PROVE  IInv'
<1> DEFINE old == conn[c]
           x == [old EXCEPT !.at = "requery"]
<1>1. PICK m : Known(old, received[c], lastId[c], m, Len(log))
  BY Facts
<1>2. old \in Connections /\ Len(log) \in Nat /\ old.at = "wait"
  BY Facts DEF Wake
<1>3. conn' = [conn EXCEPT ![c] = x] /\ UNCHANGED <<log, received, lastId>>
  BY DEF Wake
<1> HIDE DEF old
<1>4. x \in Connections /\ x.at = "requery" /\ x.since = old.since /\ x.sent = old.sent
  BY <1>2 DEF Connections
<1> HIDE DEF x
<1>5. Frames(x, lastId[c])
  BY <1>1, <1>4 DEF Known, Frames
<1>6. Follows(x, received[c], lastId[c], Len(log))
  BY <1>1, <1>2, <1>4, <1>5 DEF Known, Follows
<1> QED BY <1>3, <1>4, <1>6, SilentKeepsIInv

\* One more frame, right behind the last one.
LEMMA FramesGrow ==
  ASSUME NEW x, NEW y, NEW last \in Nat, NEW n \in Nat, x.sent \in Seq(Nat), Frames(x, last),
         y.sent = Append(x.sent, n), x.sent # <<>> => n = last + 1
  PROVE  Frames(y, n) /\ y.sent # <<>>
<1> DEFINE s == x.sent
           t == y.sent
           h == Len(s)
<1>1. /\ h \in Nat /\ Len(t) = h + 1 /\ t[h + 1] = n
      /\ \A i \in 1..h : t[i] = s[i] /\ s[i] \in Nat
  BY AppendProperties
<1>2. h # 0 => s # <<>> /\ s[h] = last /\ n = last + 1
  BY DEF Frames
<1>3. \A i \in 1..(h - 1) : s[i + 1] = s[i] + 1
  BY DEF Frames
<1>4. \A i \in 1..h : s[i] <= last
  BY DEF Frames
<1>5. Len(t) # 0 => t # <<>>
  OBVIOUS
<1> HIDE DEF s, t, h
<1>6. \A i \in 1..h : t[i + 1] = t[i] + 1
  <2> TAKE i \in 1..h
  <2>1. CASE i = h
    BY <1>1, <1>2, <2>1
  <2>2. CASE i < h
    BY <1>1, <1>3, <2>2
  <2> QED BY <1>1, <2>1, <2>2
<1>7. \A i \in 1..(h + 1) : t[i] <= n
  BY <1>1, <1>2, <1>4
<1>8. t # <<>> /\ t[Len(t)] = n
  BY <1>1, <1>5
<1>9. /\ \A i \in 1..(Len(t) - 1) : t[i + 1] = t[i] + 1
      /\ \A i \in 1..Len(t) : t[i] <= n
  <2>1. Len(t) = h + 1 /\ Len(t) - 1 = h
    BY <1>1
  <2> QED BY <1>6, <1>7, <2>1, Zenon
<1> QED BY <1>8, <1>9, Zenon DEF Frames, t

LEMMA SendKeepsIInv ==
  ASSUME IInv, NEW c \in Clients, Send(c)
  PROVE  IInv'
<1> DEFINE old == conn[c]
           n == Min(old.batch)
           got == received[c] \cup {n}
           x == Advanced(old, n)
<1>1. PICK m : Known(old, received[c], lastId[c], m, Len(log))
  BY Facts
<1>2. old \in Connections /\ Len(log) \in Nat /\ old.at = "send" /\ old.batch # {}
  BY Facts DEF Send
<1>3. /\ log' = log /\ received' = [received EXCEPT ![c] = got]
      /\ lastId' = [lastId EXCEPT ![c] = n]
      /\ conn' = [conn EXCEPT ![c] = x] \/ conn' = [conn EXCEPT ![c] = Closed]
  <2>1. conn' = [conn EXCEPT ![c] = IF log[n] \in TerminalStates THEN Closed ELSE x]
    BY DEF Send
  <2>2. log' = log /\ received' = [received EXCEPT ![c] = got] /\ lastId' = [lastId EXCEPT ![c] = n]
    BY DEF Send
  <2> HIDE DEF x, n, got
  <2> QED BY <2>1, <2>2
<1>4. PICK p, k \in 0..Len(log) :
        /\ old.batch = (p + 1)..k /\ old.since <= k /\ p <= m
        /\ old.sent # <<>> => p = lastId[c]
  BY <1>1, <1>2 DEF Known, Sending
<1>5. /\ m \in 0..Len(log) /\ received[c] = 1..m /\ lastId[c] \in 0..m
      /\ old.since \in 0..m /\ Frames(old, lastId[c])
  BY <1>1 DEF Known
<1> HIDE DEF old
<1>6. p < k /\ n = p + 1
  <2>1. p + 1 \in old.batch /\ \A i \in old.batch : p + 1 <= i /\ i \in Nat
    BY <1>2, <1>4
  <2>2. n \in old.batch /\ \A i \in old.batch : n <= i
    BY <2>1 DEF Min
  <2> HIDE DEF n
  <2>3. n = p + 1
    BY <1>2, <1>4, <2>1, <2>2
  <2> QED BY <1>2, <1>4, <2>1, <2>3
<1> HIDE DEF n
<1> DEFINE next == IF n <= m THEN m ELSE n
<1>7. /\ next \in 0..Len(log) /\ got = 1..next /\ n \in 0..next /\ n \in Nat
      /\ old.since \in 0..next
  BY <1>2, <1>4, <1>5, <1>6
<1> HIDE DEF next
<1>8. CASE conn' = [conn EXCEPT ![c] = x]
  <2>1. x \in Connections
    <3>1. old.batch \ {n} \in SUBSET Nat /\ Append(old.sent, n) \in Seq(Nat)
      BY <1>2, <1>7 DEF Connections
    <3> QED BY <1>2, <3>1 DEF Connections, Advanced
  <2>2. /\ x.at = "send" /\ x.since = old.since /\ x.sent = Append(old.sent, n)
        /\ x.batch = old.batch \ {n}
    BY <1>2 DEF Connections, Advanced
  <2> HIDE DEF x
  <2>3. x.batch = (n + 1)..k
    BY <1>2, <1>4, <1>6, <2>2
  <2>4. Frames(x, n) /\ x.sent # <<>>
    <3>1. old.sent \in Seq(Nat) /\ lastId[c] \in Nat
      BY <1>2, <1>5 DEF Connections
    <3>2. old.sent # <<>> => n = lastId[c] + 1
      BY <1>4, <1>6
    <3> QED BY <1>5, <1>7, <2>2, <3>1, <3>2, FramesGrow
  <2>5. Sending(x, n, next, Len(log))
    <3>1. n \in 0..Len(log) /\ n <= next
      BY <1>2, <1>4, <1>6, <1>7
    <3> QED BY <1>4, <2>2, <2>3, <3>1 DEF Sending
  <2>6. Follows(x, got, n, Len(log))
    BY <1>7, <2>2, <2>4, <2>5 DEF Follows
  <2>7. got \in SUBSET Nat
    BY <1>7
  <2> HIDE DEF got
  <2> QED BY <1>3, <1>7, <1>8, <2>1, <2>6, <2>7, OneKeepsIInv
<1>9. CASE conn' = [conn EXCEPT ![c] = Closed]
  <2>1. Follows(Closed, got, n, Len(log))
    <3>1. Closed.since \in 0..next /\ Closed.sent = <<>> /\ Closed.at \in {"closed", "replay"}
      BY <1>2, <1>7, ClosedFacts
    <3> HIDE DEF got
    <3> QED BY <1>2, <1>7, <3>1, EmptyFollows
  <2>2. got \in SUBSET Nat
    BY <1>7
  <2> HIDE DEF got
  <2> QED BY <1>3, <1>7, <1>9, <2>1, <2>2, ClosedFacts, OneKeepsIInv
<1> QED BY <1>3, <1>8, <1>9

LEMMA AppendKeepsIInv ==
  ASSUME IInv, NEW type \in EventTypes, AppendEvent(type)
  PROVE  IInv'
<1>1. /\ log \in Seq(EventTypes) /\ Len(log) < MaxSeq /\ log' = Append(log, type)
      /\ UNCHANGED <<conn, received, lastId>>
  BY DEF AppendEvent, IInv, Types
<1>2. log' \in Seq(EventTypes) /\ Len(log') = Len(log) + 1 /\ Len(log) \in Nat
  BY <1>1, AppendProperties
<1>3. Types'
  BY <1>1, <1>2, MaxSeqAssumption DEF IInv, Types
<1>4. ASSUME NEW c \in Clients PROVE Follows(conn[c], received[c], lastId[c], Len(log'))
  BY <1>2, FollowsStays DEF IInv, AllFollow
<1> QED BY <1>1, <1>3, <1>4 DEF IInv, AllFollow

LEMMA PublishKeepsIInv ==
  ASSUME IInv, Publish
  PROVE  IInv'
<1> DEFINE x(c) == [conn[c] EXCEPT !.set = @ \/ conn[c].subscribed]
<1>1. conn' = [c \in Clients |-> x(c)] /\ UNCHANGED <<log, received, lastId>>
  BY DEF Publish
<1>2. ASSUME NEW c \in Clients
      PROVE  /\ x(c) \in Connections
             /\ x(c).at = conn[c].at /\ x(c).since = conn[c].since
             /\ x(c).batch = conn[c].batch /\ x(c).sent = conn[c].sent
  <2>1. conn[c] \in Connections
    BY DEF IInv, Types
  <2> QED BY <2>1 DEF Connections
<1> HIDE DEF x
<1>3. Types'
  BY <1>1, <1>2 DEF IInv, Types
<1>4. Len(log) \in Nat /\ Len(log) <= Len(log)
  BY DEF IInv, Types
<1>5. ASSUME NEW c \in Clients PROVE Follows(x(c), received[c], lastId[c], Len(log))
  BY <1>2, <1>4, FollowsStays DEF IInv, AllFollow
<1> QED BY <1>1, <1>3, <1>5 DEF IInv, AllFollow

LEMMA NextIInv == IInv /\ [Next]_vars => IInv'
<1> SUFFICES ASSUME IInv, [Next]_vars PROVE IInv'
  OBVIOUS
<1>1. ASSUME NEW type \in EventTypes, AppendEvent(type) PROVE IInv'
  BY <1>1, AppendKeepsIInv
<1>2. CASE Publish
  BY <1>2, PublishKeepsIInv
<1>3. ASSUME NEW c \in Clients, Connect(c) \/ Serve(c) \/ Disconnect(c) PROVE IInv'
  BY <1>3, ConnectKeepsIInv, ReplayKeepsIInv, RequeryKeepsIInv, SendKeepsIInv, AwaitKeepsIInv,
     WakeKeepsIInv, DisconnectKeepsIInv DEF Serve
<1>4. CASE UNCHANGED vars
  BY <1>4 DEF vars, IInv, Types, AllFollow
<1> QED BY <1>1, <1>2, <1>3, <1>4 DEF Next

\* The inductive invariant holds.
LEMMA Invariance == Spec => []IInv
BY InitIInv, NextIInv, PTL DEF Spec

-----------------------------------------------------------------------------
(* The theorems                                                            *)

(***************************************************************************)
(* The frames that one connection of _build_stream sends are consecutive:  *)
(* the tail goes on right behind the last frame of the replay, however the *)
(* log grows in between.                                                   *)
(***************************************************************************)
THEOREM FramesAreConsecutive == Spec => []FramesConsecutive
<1>1. IInv => FramesConsecutive
  <2> SUFFICES ASSUME IInv, NEW c \in Clients PROVE Frames(conn[c], lastId[c])
    BY DEF FramesConsecutive, Frames
  <2> QED BY Facts DEF Known
<1> QED BY <1>1, Invariance, PTL

(***************************************************************************)
(* A client of run_events_stream that comes back with the id of the last   *)
(* frame it got has received the log up to some event, without a hole,     *)
(* over any number of lost connections.                                    *)
(***************************************************************************)
THEOREM ReconnectLeavesNoHole == Spec => []NoHoleAfterReconnect
<1>1. IInv => NoHoleAfterReconnect
  <2> SUFFICES ASSUME IInv, NEW c \in Clients PROVE \E n \in 0..MaxSeq : received[c] = 1..n
    BY DEF NoHoleAfterReconnect
  <2>1. PICK m : Known(conn[c], received[c], lastId[c], m, Len(log))
    BY Facts
  <2>2. Len(log) \in Nat /\ Len(log) <= MaxSeq
    BY DEF IInv, Types
  <2> QED BY <2>1, <2>2, MaxSeqAssumption DEF Known
<1> QED BY <1>1, Invariance, PTL

-----------------------------------------------------------------------------
(* The types                                                               *)

\* Nothing is published that is not in the log. A connection that is not
\* sending has nothing to send, only a subscriber's event is set, and there is
\* no seq 0.
Tidy ==
  /\ published \in 0..Len(log)
  /\ \A c \in Clients :
       /\ conn[c].at # "send" => conn[c].batch = {}
       /\ conn[c].set => conn[c].subscribed
       /\ 0 \notin ToSet(conn[c].sent)

\* A step of one connection, to x.
LEMMA OneKeepsTidy ==
  ASSUME IInv, Tidy, NEW c \in Clients, NEW x,
         conn' = [conn EXCEPT ![c] = x], UNCHANGED <<log, published>>,
         x.at # "send" => x.batch = {}, x.set => x.subscribed, 0 \notin ToSet(x.sent)
  PROVE  Tidy'
<1>1. conn'[c] = x /\ \A d \in Clients \ {c} : conn'[d] = conn[d]
  BY DEF IInv, Types
<1> QED BY <1>1 DEF Tidy

\* The event it sends next.
LEMMA NextFrame ==
  ASSUME IInv, NEW c \in Clients, Send(c)
  PROVE  Min(conn[c].batch) \in Nat \ {0}
<1> DEFINE S == conn[c].batch
<1>1. PICK m : Known(conn[c], received[c], lastId[c], m, Len(log))
  BY Facts
<1>2. S # {} /\ Len(log) \in Nat /\ conn[c].at = "send"
  BY Facts DEF Send
<1>3. PICK p, k \in 0..Len(log) : S = (p + 1)..k
  BY <1>1, <1>2 DEF Known, Sending
<1> HIDE DEF S
<1>4. p + 1 \in S /\ \A i \in S : p + 1 <= i /\ i \in Nat
  BY <1>2, <1>3
<1>5. Min(S) \in S
  BY <1>4 DEF Min
<1> QED BY <1>2, <1>3, <1>4, <1>5 DEF S

LEMMA NextTidy == IInv /\ Tidy /\ [Next]_vars => Tidy'
<1> SUFFICES ASSUME IInv, Tidy, [Next]_vars PROVE Tidy'
  OBVIOUS
<1>0. Len(log) \in Nat /\ conn \in [Clients -> Connections]
  BY DEF IInv, Types
<1>1. ASSUME NEW type \in EventTypes, AppendEvent(type) PROVE Tidy'
  <2>1. Len(log') = Len(log) + 1
    BY <1>1 DEF AppendEvent, IInv, Types
  <2> QED BY <1>0, <1>1, <2>1 DEF AppendEvent, Tidy
<1>2. CASE Publish
  <2>1. /\ published' = Len(log) /\ log' = log
        /\ \A c \in Clients : conn'[c] = [conn[c] EXCEPT !.set = @ \/ conn[c].subscribed]
    BY <1>2 DEF Publish
  <2>2. ASSUME NEW c \in Clients
        PROVE  /\ conn'[c].at = conn[c].at /\ conn'[c].batch = conn[c].batch
               /\ conn'[c].subscribed = conn[c].subscribed /\ conn'[c].sent = conn[c].sent
               /\ conn'[c].set => conn[c].set \/ conn[c].subscribed
    <3> DEFINE old == conn[c]
               x == [old EXCEPT !.set = @ \/ old.subscribed]
    <3>1. old \in Connections /\ conn'[c] = x
      BY <1>0, <2>1
    <3> HIDE DEF old
    <3>2. /\ x.at = old.at /\ x.batch = old.batch /\ x.subscribed = old.subscribed
          /\ x.sent = old.sent /\ x.set <=> (old.set \/ old.subscribed)
      BY <3>1, Zenon DEF Connections
    <3> QED BY <3>1, <3>2 DEF old
  <2> QED BY <1>0, <2>1, <2>2 DEF Tidy
<1>3. ASSUME NEW c \in Clients, Connect(c) \/ Serve(c) \/ Disconnect(c) PROVE Tidy'
  <2>0. conn[c] \in Connections
    BY <1>0
  <2>1. /\ Closed.batch = {} /\ Closed.set = FALSE
        /\ ToSet(Closed.sent) = {}
    BY ClosedFacts DEF Closed, ToSet
  <2>2. CASE Connect(c)
    <3> DEFINE x == [Closed EXCEPT !.at = "replay", !.since = lastId[c]]
    <3>1. x.batch = {} /\ x.set = FALSE /\ x.sent = Closed.sent
      BY DEF Closed
    <3> HIDE DEF x
    <3> QED BY <2>1, <2>2, <3>1, OneKeepsTidy DEF Connect, x
  <2>3. ASSUME NEW at, NEW cutoff, List(c, at, cutoff) PROVE Tidy'
    <3> DEFINE x == [conn[c] EXCEPT !.at = "send", !.batch = Unsent(c, cutoff)]
    <3>1. /\ x.at = "send" /\ x.set = conn[c].set /\ x.subscribed = conn[c].subscribed
          /\ x.sent = conn[c].sent
      BY <2>0 DEF Connections
    <3>2. conn' = [conn EXCEPT ![c] = x] /\ UNCHANGED <<log, published>>
      BY <2>3 DEF List
    <3> HIDE DEF x
    <3> QED BY <3>1, <3>2, OneKeepsTidy DEF Tidy
  <2>4. CASE Send(c)
    <3> DEFINE n == Min(conn[c].batch)
               x == Advanced(conn[c], n)
    <3>0. n \in Nat \ {0} /\ conn[c].sent \in Seq(Nat) /\ 0 \notin ToSet(conn[c].sent)
      BY <2>0, <2>4, NextFrame DEF Connections, Tidy
    <3>1. /\ x.at = "send" /\ x.set = conn[c].set /\ x.subscribed = conn[c].subscribed
          /\ x.sent = Append(conn[c].sent, n)
      BY <2>0, <2>4 DEF Send, Advanced, Connections
    <3>3. 0 \notin ToSet(x.sent)
      <4> HIDE DEF n, x
      <4> QED BY <3>0, <3>1, AppendProperties DEF ToSet
    <3>2. /\ conn' = [conn EXCEPT ![c] = x] \/ conn' = [conn EXCEPT ![c] = Closed]
          /\ UNCHANGED <<log, published>>
      <4>1. conn' = [conn EXCEPT ![c] = IF log[n] \in TerminalStates THEN Closed ELSE x]
        BY <2>4 DEF Send
      <4>2. UNCHANGED <<log, published>>
        BY <2>4 DEF Send
      <4> HIDE DEF x, n
      <4> QED BY <4>1, <4>2
    <3> HIDE DEF x
    <3> QED BY <2>1, <3>1, <3>2, <3>3, OneKeepsTidy DEF Tidy
  <2>5. CASE Await(c)
    <3> DEFINE x == [conn[c] EXCEPT !.at = "wait", !.subscribed = TRUE, !.set = FALSE]
    <3>1. x.batch = conn[c].batch /\ x.set = FALSE /\ x.sent = conn[c].sent
      BY <2>0 DEF Connections
    <3>2. conn[c].batch = {} /\ conn' = [conn EXCEPT ![c] = x] /\ UNCHANGED <<log, published>>
      BY <2>5 DEF Await
    <3> HIDE DEF x
    <3> QED BY <3>1, <3>2, OneKeepsTidy DEF Tidy
  <2>6. CASE Wake(c)
    <3> DEFINE x == [conn[c] EXCEPT !.at = "requery"]
    <3>1. /\ x.batch = conn[c].batch /\ x.set = conn[c].set
          /\ x.subscribed = conn[c].subscribed /\ x.sent = conn[c].sent
      BY <2>0 DEF Connections
    <3>2. conn[c].at = "wait" /\ conn' = [conn EXCEPT ![c] = x] /\ UNCHANGED <<log, published>>
      BY <2>6 DEF Wake
    <3> HIDE DEF x
    <3> QED BY <3>1, <3>2, OneKeepsTidy DEF Tidy
  <2>7. CASE Disconnect(c)
    BY <2>1, <2>7, OneKeepsTidy DEF Disconnect
  <2> QED BY <1>3, <2>2, <2>3, <2>4, <2>5, <2>6, <2>7 DEF Serve, Replay, Requery
<1>4. CASE UNCHANGED vars
  BY <1>4 DEF vars, Tidy
<1> QED BY <1>1, <1>2, <1>3, <1>4 DEF Next

(***************************************************************************)
(* What a generator has listed or sent is in the log, a client is told of  *)
(* no event beyond it, and nothing wakes a generator that never subscribed.*)
(***************************************************************************)
THEOREM TypeOKHolds == Spec => []TypeOK
<1>1. Init => Tidy
  BY DEF Init, Tidy, Closed, ToSet
<1>2. IInv /\ Tidy => TypeOK
  <2> SUFFICES ASSUME IInv, Tidy PROVE TypeOK
    OBVIOUS
  <2>1. Types /\ Len(log) \in Nat /\ Len(log) <= MaxSeq
    BY DEF IInv, Types
  <2>2. ASSUME NEW c \in Clients
        PROVE  /\ received[c] \subseteq 1..MaxSeq /\ lastId[c] \in 0..MaxSeq
               /\ conn[c].since \in 0..Len(log)
               /\ conn[c].batch \subseteq 1..Len(log)
               /\ ToSet(conn[c].sent) \subseteq 1..Len(log)
    <3>1. PICK m : Known(conn[c], received[c], lastId[c], m, Len(log))
      BY Facts
    <3>2. /\ m \in 0..Len(log) /\ received[c] = 1..m /\ lastId[c] \in 0..m
          /\ conn[c].since \in 0..m /\ Frames(conn[c], lastId[c])
      BY <3>1 DEF Known
    <3>3. conn[c].batch \subseteq 1..Len(log)
      <4>1. CASE conn[c].at = "send"
        <5>1. PICK p, k \in 0..Len(log) : conn[c].batch = (p + 1)..k
          BY <3>1, <4>1 DEF Known, Sending
        <5> QED BY <2>1, <5>1
      <4>2. CASE conn[c].at # "send"
        BY <4>2 DEF Tidy
      <4> QED BY <4>1, <4>2
    <3>4. ToSet(conn[c].sent) \subseteq 1..Len(log)
      <4>1. conn[c].sent \in Seq(Nat) /\ 0 \notin ToSet(conn[c].sent)
        BY DEF IInv, Types, Connections, Tidy
      <4>2. \A n \in ToSet(conn[c].sent) : n \in Nat /\ n <= lastId[c] /\ n # 0
        <5>1. \A i \in 1..Len(conn[c].sent) : conn[c].sent[i] <= lastId[c] /\ conn[c].sent[i] \in Nat
          BY <3>2, <4>1 DEF Frames
        <5>2. ToSet(conn[c].sent) = {conn[c].sent[i] : i \in 1..Len(conn[c].sent)}
          BY <4>1 DEF ToSet
        <5> QED BY <4>1, <5>1, <5>2
      <4> QED BY <2>1, <3>2, <4>2
    <3> QED BY <2>1, <3>2, <3>3, <3>4, MaxSeqAssumption
  <2> QED BY <2>1, <2>2 DEF TypeOK, Types, Tidy
<1> QED BY <1>1, <1>2, NextTidy, Invariance, PTL DEF Spec
=============================================================================
