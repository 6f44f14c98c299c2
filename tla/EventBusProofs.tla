---------------------------- MODULE EventBusProofs ----------------------------
(***************************************************************************)
(* Facts about the event bus, for every number of streams and every queue  *)
(* size: what a push, a step of a stream and a publication preserve.  The  *)
(* theorems they lead to are in EvolutionProofs.                           *)
(***************************************************************************)
EXTENDS EventBus, TLAPS

Fields == {"status", "best", "accepted"}

----------------------------------------------------------------------------
\* Queues.

\* q holds the newest of the n events published so far.
Newest(q, n) ==
    /\ Len(q) <= QueueSize /\ Len(q) <= n
    /\ \A k \in 1..Len(q) : q[k].seq = n - Len(q) + k

\* A push adds the event at the end and drops the oldest of a full queue.
LEMMA PushFacts ==
    ASSUME NEW q \in Seq(Event), Len(q) <= QueueSize, NEW e \in Event
    PROVE  /\ Push(q, e) \in Seq(Event)
           /\ Len(q) < QueueSize => Push(q, e) = Append(q, e) /\ Len(Push(q, e)) = Len(q) + 1
           /\ Len(q) = QueueSize => Len(Push(q, e)) = Len(q)
           /\ Push(q, e)[Len(Push(q, e))] = e
           /\ \A k \in 1..Len(Push(q, e)) - 1 :
                 Push(q, e)[k] = q[k + Len(q) + 1 - Len(Push(q, e))]
<1>1. CASE Len(q) < QueueSize
  BY <1>1, BusAssumption DEF Push
<1>2. CASE Len(q) >= QueueSize
  <2>1. Len(q) = QueueSize /\ q # <<>>
    BY <1>2, BusAssumption
  <2>2. /\ Tail(q) \in Seq(Event) /\ Len(Tail(q)) = Len(q) - 1
        /\ \A k \in 1..Len(q) - 1 : Tail(q)[k] = q[k + 1]
    BY <2>1
  <2>3. Push(q, e) = Append(Tail(q), e)
    BY <1>2, <2>1, BusAssumption DEF Push
  <2>4. Len(Push(q, e)) = Len(q)
    BY <2>2, <2>3
  <2> QED BY <2>1, <2>2, <2>3, <2>4, BusAssumption
<1> QED BY <1>1, <1>2, BusAssumption

LEMMA StampType ==
    ASSUME NEW p \in View, NEW n \in Nat
    PROVE  Stamp(p, n) \in Event /\ Stamp(p, n).seq = n /\ Stamp(p, n).says = p
BY DEF Stamp, Event

LEMMA PushNewest ==
    ASSUME NEW q \in Seq(Event), NEW n \in Nat, Newest(q, n), NEW p \in View
    PROVE  /\ Newest(Push(q, Stamp(p, n + 1)), n + 1)
           /\ Push(q, Stamp(p, n + 1)) \in Seq(Event)
           /\ Len(Push(q, Stamp(p, n + 1))) <= Len(q) + 1
<1> DEFINE e == Stamp(p, n + 1)
           r == Push(q, e)
<1>1. e \in Event /\ e.seq = n + 1
  BY StampType
<1>2. /\ r \in Seq(Event)
      /\ Len(q) < QueueSize => Len(r) = Len(q) + 1
      /\ Len(q) = QueueSize => Len(r) = Len(q)
      /\ r[Len(r)] = e
      /\ \A k \in 1..Len(r) - 1 : r[k] = q[k + Len(q) + 1 - Len(r)]
  BY <1>1, PushFacts DEF Newest
<1> HIDE DEF r, e
<1>3. Len(r) \in Nat /\ Len(q) \in Nat /\ Len(r) <= QueueSize /\ Len(r) <= Len(q) + 1
  BY <1>2, BusAssumption DEF Newest
<1>4. Len(r) <= n + 1
  BY <1>3 DEF Newest
<1>5. \A k \in 1..Len(r) : r[k].seq = n + 1 - Len(r) + k
  <2> TAKE k \in 1..Len(r)
  <2>1. CASE k = Len(r)
    BY <2>1, <1>1, <1>2, <1>3
  <2>2. CASE k < Len(r)
    <3>1. k + Len(q) + 1 - Len(r) \in 1..Len(q)
      BY <2>2, <1>3
    <3>2. r[k] = q[k + Len(q) + 1 - Len(r)]
      BY <2>2, <1>2, <1>3
    <3> QED BY <3>1, <3>2, <1>3 DEF Newest
  <2> QED BY <2>1, <2>2, <1>3
<1> QED BY <1>2, <1>3, <1>4, <1>5 DEF Newest, r, e

----------------------------------------------------------------------------
\* What a client will know of a field once it has been sent everything.

\* The last event of q that mentions field f says v.
LastSays(q, f, v) ==
    \A k \in 1..Len(q) :
        (q[k].says[f] # None /\ \A j \in k + 1..Len(q) : q[j].says[f] = None) => q[k].says[f] = v
Silent(q, f) == \A k \in 1..Len(q) : q[k].says[f] = None

\* With the queue q, the event h in hand and the view it has, the client will know v.
Known(q, h, view, f, v) ==
    /\ LastSays(q, f, v)
    /\ Silent(q, f) => IF h # None /\ h.says[f] # None THEN h.says[f] = v ELSE view[f] = v

\* A further event that says v2, or that does not mention the field.
LEMMA KnownAppend ==
    ASSUME NEW q \in Seq(Event), NEW h, NEW view, NEW f \in Fields, NEW v, NEW v2,
           NEW e \in Event, Known(q, h, view, f, v),
           e.says[f] # None => v2 = e.says[f],
           e.says[f] = None => v2 = v
    PROVE  Known(Append(q, e), h, view, f, v2)
<1> DEFINE r == Append(q, e)
<1>1. /\ Len(r) = Len(q) + 1 /\ Len(q) \in Nat
      /\ r[Len(q) + 1] = e
      /\ \A k \in 1..Len(q) : r[k] = q[k]
  OBVIOUS
<1> HIDE DEF r
<1>2. LastSays(r, f, v2)
  <2> SUFFICES ASSUME NEW k \in 1..Len(r), r[k].says[f] # None,
                      \A j \in k + 1..Len(r) : r[j].says[f] = None
               PROVE  r[k].says[f] = v2
    BY DEF LastSays
  <2>1. CASE k = Len(q) + 1
    BY <2>1, <1>1
  <2>2. CASE k \in 1..Len(q)
    <3>1. e.says[f] = None
      BY <2>2, <1>1
    <3>2. \A j \in k + 1..Len(q) : q[j].says[f] = None
      BY <2>2, <1>1
    <3> QED BY <2>2, <3>1, <3>2, <1>1 DEF Known, LastSays
  <2> QED BY <2>1, <2>2, <1>1
<1>3. Silent(r, f) => Silent(q, f) /\ e.says[f] = None
  BY <1>1 DEF Silent
<1> QED BY <1>2, <1>3 DEF Known, r

\* The oldest event passes from the queue to the hand, and from there to the client.
LEMMA KnownFetch ==
    ASSUME NEW q \in Seq(Event), q # <<>>, NEW view, NEW f \in Fields, NEW v,
           Known(q, None, view, f, v)
    PROVE  Known(Tail(q), Head(q), view, f, v)
<1> DEFINE r == Tail(q)
<1>1. /\ Len(q) \in Nat \ {0} /\ Len(r) = Len(q) - 1
      /\ \A k \in 1..Len(r) : r[k] = q[k + 1]
      /\ Head(q) = q[1]
  OBVIOUS
<1> HIDE DEF r
<1>2. LastSays(r, f, v)
  <2> SUFFICES ASSUME NEW k \in 1..Len(r), r[k].says[f] # None,
                      \A j \in k + 1..Len(r) : r[j].says[f] = None
               PROVE  r[k].says[f] = v
    BY DEF LastSays
  <2>1. \A j \in k + 2..Len(q) : q[j].says[f] = None
    <3> TAKE j \in k + 2..Len(q)
    <3>1. j - 1 \in k + 1..Len(r) /\ j - 1 \in 1..Len(r) /\ (j - 1) + 1 = j
      BY <1>1
    <3> QED BY <3>1, <1>1
  <2>2. k + 1 \in 1..Len(q) /\ r[k] = q[k + 1] /\ (k + 1) + 1 = k + 2
    BY <1>1
  <2> QED BY <2>1, <2>2 DEF Known, LastSays
<1>3. ASSUME Silent(r, f)
      PROVE  IF Head(q) # None /\ Head(q).says[f] # None THEN Head(q).says[f] = v ELSE view[f] = v
  <2>1. \A j \in 2..Len(q) : q[j].says[f] = None
    <3> TAKE j \in 2..Len(q)
    <3>1. j - 1 \in 1..Len(r) /\ (j - 1) + 1 = j
      BY <1>1
    <3> QED BY <3>1, <1>1, <1>3 DEF Silent
  <2>2. CASE q[1].says[f] = None
    <3>1. Silent(q, f)
      BY <2>1, <2>2, <1>1 DEF Silent
    <3> QED BY <3>1, <2>2, <1>1 DEF Known
  <2>3. CASE q[1].says[f] # None
    <3>1. q[1].says[f] = v
      BY <2>1, <2>3, <1>1 DEF Known, LastSays
    <3>2. q[1] \in Event /\ q[1] # None
      BY <1>1, BusAssumption
    <3> QED BY <2>3, <3>1, <3>2, <1>1
  <2> QED BY <2>2, <2>3
<1> QED BY <1>2, <1>3 DEF Known, r

LEMMA KnownForward ==
    ASSUME NEW q, NEW h \in Event, NEW view \in View, NEW f \in Fields, NEW v,
           Known(q, h, view, f, v)
    PROVE  Known(q, None, Seen(view, h.says), f, v)
<1>1. h # None /\ h.says \in View
  BY BusAssumption DEF Event
<1>2. Seen(view, h.says)[f] = Told(view[f], h.says[f])
  BY <1>1 DEF Fields, Seen, Says, View
<1> QED BY <1>1, <1>2 DEF Known, Told

----------------------------------------------------------------------------
\* A stream that was sent event number l last, and has h in hand and q to come, with n
\* published: everything is older than what comes after it.
Ordered(n, q, h, l) ==
    /\ h # None => h.seq <= n - Len(q)
    /\ h # None => l < h.seq
    /\ h = None => l < n - Len(q) + 1

LEMMA OrderedPush ==
    ASSUME NEW n \in Nat, NEW q \in Seq(Event), NEW r \in Seq(Event), NEW h \in Event \cup {None},
           NEW l \in Nat, Ordered(n, q, h, l), Len(r) <= Len(q) + 1
    PROVE  Ordered(n + 1, r, h, l)
<1>1. h # None => h.seq \in Nat
  BY DEF Event
<1>2. Len(q) \in Nat /\ Len(r) \in Nat
  OBVIOUS
<1> QED BY <1>1, <1>2 DEF Ordered

LEMMA OrderedFetch ==
    ASSUME NEW n \in Nat, NEW q \in Seq(Event), NEW l \in Nat, q # <<>>,
           Newest(q, n), Ordered(n, q, None, l)
    PROVE  Newest(Tail(q), n) /\ Ordered(n, Tail(q), Head(q), l)
<1>1. /\ Len(q) \in Nat \ {0} /\ Len(Tail(q)) = Len(q) - 1
      /\ \A k \in 1..Len(Tail(q)) : Tail(q)[k] = q[k + 1]
      /\ Head(q) = q[1] /\ Head(q) \in Event
  OBVIOUS
<1>2. Head(q).seq = n - Len(q) + 1 /\ Head(q) # None
  BY <1>1, BusAssumption DEF Newest
<1>3. Ordered(n, Tail(q), Head(q), l)
  BY <1>1, <1>2 DEF Ordered
<1>4. \A k \in 1..Len(Tail(q)) : Tail(q)[k].seq = n - Len(Tail(q)) + k
  <2> TAKE k \in 1..Len(Tail(q))
  <2>1. k + 1 \in 1..Len(q) /\ Tail(q)[k] = q[k + 1]
    BY <1>1
  <2>2. q[k + 1].seq = n - Len(q) + (k + 1)
    BY <2>1 DEF Newest
  <2> QED BY <2>1, <2>2, <1>1
<1>5. Len(Tail(q)) <= QueueSize /\ Len(Tail(q)) <= n
  BY <1>1, BusAssumption DEF Newest
<1> QED BY <1>3, <1>4, <1>5 DEF Newest

\* The invariant of the bus.  An event is in hand only while the generator waits, and a
\* connection that is not reading was sent no event: so a queue opens with nothing behind it.
BusInv ==
    /\ BusTypeOK
    /\ TornDown
    /\ \A s \in subscribed : Newest(queue[s], sequence)
    /\ \A s \in Streams :
        /\ stream[s].hand # None => stream[s].pc = "wait"
        /\ stream[s].pc \notin Reading => stream[s].last = 0
        /\ stream[s].pc = "first" => s \in subscribed
        /\ Ordered(sequence, queue[s], stream[s].hand, stream[s].last)

LEMMA BusInvInit == BusInit => BusInv
<1> SUFFICES ASSUME BusInit PROVE BusInv
  OBVIOUS
<1>1. Nothing \in View /\ Fresh \in Stream
  BY BusAssumption DEF Nothing, Says, View, Fresh, Stream, Phases
<1>2. BusTypeOK
  BY <1>1 DEF BusInit, BusTypeOK
<1> QED BY <1>2 DEF BusInit, BusInv, TornDown, Ordered, Fresh, Reading

LEMMA BusInvInOrder == BusInv => InOrder
BY DEF BusInv, BusTypeOK, InOrder, Newest, Ordered

\* Types, as facts about one stream.
LEMMA StreamType ==
    ASSUME BusTypeOK, NEW s \in Streams
    PROVE  /\ stream[s].pc \in Phases /\ stream[s].hand \in Event \cup {None}
           /\ stream[s].view \in View /\ stream[s].last \in Nat
           /\ stream[s].gone \in BOOLEAN /\ stream[s].lost \in BOOLEAN
           /\ queue[s] \in Seq(Event) /\ sequence \in Nat
BY DEF BusTypeOK, Stream

\* Losing an event changes nothing else of a stream.
LEMMA LoseFacts ==
    ASSUME BusTypeOK, NEW n \in Nat, Lose(n)
    PROVE  /\ stream' \in [Streams -> Stream]
           /\ \A s \in Streams :
                /\ stream'[s].pc = stream[s].pc /\ stream'[s].hand = stream[s].hand
                /\ stream'[s].view = stream[s].view /\ stream'[s].last = stream[s].last
                /\ stream'[s].gone = stream[s].gone
                /\ ~stream'[s].lost => ~stream[s].lost /\ ~PassesBy(s, n)
<1>1. \A s \in Streams : PassesBy(s, n) \in BOOLEAN
  BY DEF PassesBy
<1>2. stream' = [s \in Streams |-> [stream[s] EXCEPT !.lost = @ \/ PassesBy(s, n)]]
  BY DEF Lose
<1> QED BY <1>1, <1>2 DEF BusTypeOK, Stream

LEMMA PublishInv ==
    ASSUME BusInv, NEW p \in View, Publish(p)
    PROVE  BusInv'
<1>1. /\ sequence \in Nat /\ subscribed \subseteq Streams /\ queue \in [Streams -> Seq(Event)]
      /\ BusTypeOK /\ sequence' = sequence + 1 /\ subscribed' = subscribed
  BY DEF BusInv, BusTypeOK, Publish
<1>2. /\ queue' \in [Streams -> Seq(Event)]
      /\ \A s \in subscribed : /\ Newest(queue'[s], sequence + 1)
                               /\ Len(queue'[s]) <= Len(queue[s]) + 1
      /\ \A s \in Streams \ subscribed : queue'[s] = queue[s]
  BY <1>1, PushNewest DEF BusInv, Publish
<1>3. /\ stream' \in [Streams -> Stream]
      /\ \A s \in Streams :
            /\ stream'[s].pc = stream[s].pc /\ stream'[s].hand = stream[s].hand
            /\ stream'[s].view = stream[s].view /\ stream'[s].last = stream[s].last
  BY <1>1, LoseFacts DEF Publish
<1>4. BusTypeOK'
  BY <1>1, <1>2, <1>3 DEF BusTypeOK
<1>5. TornDown'
  BY <1>1, <1>2, <1>3 DEF BusInv, TornDown
<1>6. \A s \in Streams : Ordered(sequence + 1, queue'[s], stream[s].hand, stream[s].last)
  <2> TAKE s \in Streams
  <2>1. Len(queue'[s]) <= Len(queue[s]) + 1
    BY <1>1, <1>2
  <2> QED BY <1>1, <1>2, <2>1, StreamType, OrderedPush DEF BusInv
<1> QED BY <1>1, <1>2, <1>3, <1>4, <1>5, <1>6 DEF BusInv

LEMMA PublishBothInv ==
    ASSUME BusInv, NEW p1 \in View, NEW p2 \in View, PublishBoth(p1, p2)
    PROVE  BusInv'
<1>1. /\ sequence \in Nat /\ subscribed \subseteq Streams /\ queue \in [Streams -> Seq(Event)]
      /\ BusTypeOK /\ sequence' = sequence + 2 /\ subscribed' = subscribed
  BY DEF BusInv, BusTypeOK, PublishBoth
<1> DEFINE mid(s) == IF s \in subscribed THEN Push(queue[s], Stamp(p1, sequence + 1)) ELSE queue[s]
<1>2. \A s \in Streams : /\ mid(s) \in Seq(Event)
                         /\ s \in subscribed => Newest(mid(s), sequence + 1)
                         /\ Len(mid(s)) <= Len(queue[s]) + 1
  BY <1>1, PushNewest DEF BusInv
<1>3. /\ \A s \in subscribed : queue'[s] = Push(mid(s), Stamp(p2, (sequence + 1) + 1))
      /\ \A s \in Streams \ subscribed : queue'[s] = mid(s)
      /\ queue' = [s \in Streams |-> queue'[s]]
  BY <1>1 DEF PublishBoth
<1> HIDE DEF mid
<1>4. /\ \A s \in Streams : queue'[s] \in Seq(Event) /\ Len(queue'[s]) <= Len(mid(s)) + 1
      /\ \A s \in subscribed : Newest(queue'[s], sequence + 2)
  <2>1. ASSUME NEW s \in subscribed
        PROVE  /\ queue'[s] \in Seq(Event) /\ Len(queue'[s]) <= Len(mid(s)) + 1
               /\ Newest(queue'[s], (sequence + 1) + 1)
    <3>1. /\ sequence + 1 \in Nat /\ mid(s) \in Seq(Event) /\ Newest(mid(s), sequence + 1)
          /\ queue'[s] = Push(mid(s), Stamp(p2, (sequence + 1) + 1))
      BY <1>1, <1>2, <1>3
    <3> QED BY <3>1, PushNewest
  <2> QED BY <2>1, <1>1, <1>2, <1>3
<1>5. /\ stream' \in [Streams -> Stream]
      /\ \A s \in Streams :
            /\ stream'[s].pc = stream[s].pc /\ stream'[s].hand = stream[s].hand
            /\ stream'[s].view = stream[s].view /\ stream'[s].last = stream[s].last
  BY <1>1, LoseFacts DEF PublishBoth
<1>6. BusTypeOK'
  BY <1>1, <1>3, <1>4, <1>5 DEF BusTypeOK
<1>7. TornDown'
  BY <1>1, <1>2, <1>3, <1>5 DEF BusInv, TornDown, mid
<1>8. \A s \in Streams : Ordered(sequence + 2, queue'[s], stream[s].hand, stream[s].last)
  <2> TAKE s \in Streams
  <2>1. Ordered(sequence + 1, mid(s), stream[s].hand, stream[s].last)
    BY <1>1, <1>2, StreamType, OrderedPush DEF BusInv
  <2>2. Ordered((sequence + 1) + 1, queue'[s], stream[s].hand, stream[s].last)
    <3>1. /\ sequence + 1 \in Nat /\ mid(s) \in Seq(Event) /\ queue'[s] \in Seq(Event)
          /\ stream[s].hand \in Event \cup {None} /\ stream[s].last \in Nat
          /\ Len(queue'[s]) <= Len(mid(s)) + 1
      BY <1>1, <1>2, <1>4, StreamType
    <3> QED BY <3>1, <2>1, OrderedPush
  <2> QED BY <2>2, <1>1
<1> QED BY <1>1, <1>4, <1>5, <1>6, <1>7, <1>8 DEF BusInv

----------------------------------------------------------------------------
\* The steps of a connection.
LEMMA ConnectInv ==
    ASSUME BusInv, NEW s \in Streams, NEW v \in View, Connect(s, v)
    PROVE  BusInv'
<1>1. BusTypeOK /\ stream \in [Streams -> Stream]
  BY DEF BusInv, BusTypeOK
<1>2. /\ stream' = [stream EXCEPT ![s].pc = "routed", ![s].view = v]
      /\ stream[s].pc = "off" /\ UNCHANGED <<sequence, subscribed, queue>>
  BY DEF Connect
<1>3. /\ stream' \in [Streams -> Stream]
      /\ \A t \in Streams : /\ stream'[t].hand = stream[t].hand /\ stream'[t].last = stream[t].last
                            /\ stream'[t].pc = IF t = s THEN "routed" ELSE stream[t].pc
  BY <1>1, <1>2 DEF Stream, Phases
<1> QED BY <1>2, <1>3 DEF BusInv, BusTypeOK, TornDown, Reading

LEMMA StreamStepInv ==
    ASSUME BusInv, NEW s \in Streams, StreamStep(s)
    PROVE  BusInv'
<1>1. /\ BusTypeOK /\ stream \in [Streams -> Stream] /\ queue \in [Streams -> Seq(Event)]
      /\ sequence \in Nat /\ subscribed \subseteq Streams
  BY DEF BusInv, BusTypeOK
<1>2. /\ stream[s] \in Stream /\ stream[s].hand \in Event \cup {None} /\ stream[s].view \in View
      /\ stream[s].last \in Nat /\ queue[s] \in Seq(Event) /\ stream[s].pc \in Phases
  BY <1>1, StreamType
<1>3. Fresh \in Stream /\ \A pc \in Phases : [Fresh EXCEPT !.pc = pc] \in Stream
  BY BusAssumption DEF Fresh, Stream, Phases, Nothing, Says, View
<1>4. CASE Open(s)
  <2>1. /\ stream' = [stream EXCEPT ![s].pc = "first"] /\ stream[s].pc = "routed"
        /\ subscribed' = subscribed \cup {s} /\ queue' = [queue EXCEPT ![s] = <<>>]
        /\ sequence' = sequence
    BY <1>4 DEF Open
  <2>2. /\ stream' \in [Streams -> Stream]
        /\ \A t \in Streams :
              /\ stream'[t].hand = stream[t].hand /\ stream'[t].last = stream[t].last
              /\ stream'[t].pc = IF t = s THEN "first" ELSE stream[t].pc
    BY <1>1, <2>1 DEF Stream, Phases
  <2>3. s \notin subscribed /\ queue[s] = <<>>
    BY <2>1 DEF BusInv, TornDown, Reading
  <2>4. queue' = queue
    BY <1>1, <2>1, <2>3
  <2>5. Newest(<<>>, sequence)
    BY <1>1, BusAssumption DEF Newest
  <2>6. BusTypeOK'
    BY <1>1, <2>1, <2>2, <2>4 DEF BusTypeOK
  <2>7. TornDown'
    BY <2>1, <2>2, <2>3, <2>4 DEF BusInv, TornDown, Reading
  <2> QED BY <2>1, <2>2, <2>3, <2>4, <2>5, <2>6, <2>7 DEF BusInv, Reading
<1>5. CASE Taken(s)
  <2>1. /\ stream' = [stream EXCEPT ![s].pc = "wait"] /\ stream[s].pc \in {"first", "sending"}
        /\ UNCHANGED <<sequence, subscribed, queue>>
    BY <1>5 DEF Taken
  <2>2. /\ stream' \in [Streams -> Stream]
        /\ \A t \in Streams :
              /\ stream'[t].hand = stream[t].hand /\ stream'[t].last = stream[t].last
              /\ stream'[t].pc = IF t = s THEN "wait" ELSE stream[t].pc
    BY <1>1, <2>1 DEF Stream, Phases
  <2> QED BY <2>1, <2>2 DEF BusInv, BusTypeOK, TornDown, Reading
<1>6. CASE Fetch(s)
  <2>1. /\ stream' = [stream EXCEPT ![s].hand = Head(queue[s])]
        /\ queue' = [queue EXCEPT ![s] = Tail(@)]
        /\ stream[s].pc = "wait" /\ stream[s].hand = None /\ queue[s] # <<>>
        /\ UNCHANGED <<sequence, subscribed>>
    BY <1>6 DEF Fetch
  <2>2. Head(queue[s]) \in Event /\ Tail(queue[s]) \in Seq(Event)
    BY <1>2, <2>1
  <2>3. /\ stream' \in [Streams -> Stream] /\ queue' \in [Streams -> Seq(Event)]
        /\ \A t \in Streams :
              /\ stream'[t].pc = stream[t].pc /\ stream'[t].last = stream[t].last
              /\ stream'[t].hand = IF t = s THEN Head(queue[s]) ELSE stream[t].hand
              /\ queue'[t] = IF t = s THEN Tail(queue[s]) ELSE queue[t]
    BY <1>1, <2>1, <2>2 DEF Stream
  <2>4. s \in subscribed
    BY <2>1 DEF BusInv, TornDown, Reading
  <2>5. /\ Newest(Tail(queue[s]), sequence)
        /\ Ordered(sequence, Tail(queue[s]), Head(queue[s]), stream[s].last)
    <3>1. Newest(queue[s], sequence) /\ Ordered(sequence, queue[s], None, stream[s].last)
      BY <2>1, <2>4 DEF BusInv
    <3> QED BY <3>1, <1>1, <1>2, <2>1, OrderedFetch
  <2>6. BusTypeOK'
    BY <1>1, <2>1, <2>3 DEF BusTypeOK
  <2>7. TornDown'
    BY <2>1, <2>3, <2>4 DEF BusInv, TornDown
  <2> QED BY <2>1, <2>3, <2>4, <2>5, <2>6, <2>7 DEF BusInv
<1>7. CASE Forward(s)
  <2>1. /\ stream' = [stream EXCEPT ![s].pc = "sending", ![s].hand = None,
                                    ![s].view = Seen(@, stream[s].hand.says),
                                    ![s].last = stream[s].hand.seq]
        /\ stream[s].pc = "wait" /\ stream[s].hand # None
        /\ UNCHANGED <<sequence, subscribed, queue>>
    BY <1>7 DEF Forward
  <2>2. /\ stream[s].hand.seq \in Nat /\ Seen(stream[s].view, stream[s].hand.says) \in View
    BY <1>2, <2>1 DEF Event, View, Seen, Told, Says
  <2>3. /\ stream' \in [Streams -> Stream]
        /\ \A t \in Streams :
              /\ stream'[t].pc = IF t = s THEN "sending" ELSE stream[t].pc
              /\ stream'[t].last = IF t = s THEN stream[s].hand.seq ELSE stream[t].last
              /\ stream'[t].hand = IF t = s THEN None ELSE stream[t].hand
    BY <1>1, <2>1, <2>2 DEF Stream, Phases
  <2>4. Ordered(sequence, queue[s], None, stream[s].hand.seq)
    <3>1. Ordered(sequence, queue[s], stream[s].hand, stream[s].last)
      BY DEF BusInv
    <3>2. Len(queue[s]) \in Nat
      BY <1>2
    <3> QED BY <3>1, <3>2, <1>1, <2>1, <2>2 DEF Ordered
  <2>5. BusTypeOK'
    BY <1>1, <2>1, <2>3 DEF BusTypeOK
  <2>6. TornDown'
    BY <1>1, <2>1, <2>3 DEF BusInv, TornDown, Reading
  <2> QED BY <2>1, <2>3, <2>4, <2>5, <2>6 DEF BusInv, Reading
<1>8. CASE Close(s)
  <2>1. /\ stream' = [stream EXCEPT ![s] = [Fresh EXCEPT !.pc = "closed"]]
        /\ subscribed' = subscribed \ {s} /\ queue' = [queue EXCEPT ![s] = <<>>]
        /\ sequence' = sequence
    BY <1>8 DEF Close, Ended
  <2>2. /\ stream' \in [Streams -> Stream] /\ queue' \in [Streams -> Seq(Event)]
        /\ \A t \in Streams \ {s} : stream'[t] = stream[t] /\ queue'[t] = queue[t]
        /\ stream'[s].pc = "closed" /\ stream'[s].hand = None /\ stream'[s].last = 0
        /\ queue'[s] = <<>>
    BY <1>1, <1>3, <2>1 DEF Fresh, Phases
  <2>3. Ordered(sequence, <<>>, None, 0)
    BY <1>1 DEF Ordered
  <2>4. BusTypeOK'
    BY <1>1, <2>1, <2>2 DEF BusTypeOK
  <2>5. TornDown'
    BY <2>1, <2>2 DEF BusInv, TornDown, Reading
  <2> QED BY <2>1, <2>2, <2>3, <2>4, <2>5 DEF BusInv
<1>9. CASE Abandon(s)
  <2>1. /\ stream' = [stream EXCEPT ![s] = [Fresh EXCEPT !.pc = "abandoned"]]
        /\ stream[s].pc \in {"routed", "first"}
        /\ UNCHANGED <<sequence, subscribed, queue>>
    BY <1>9 DEF Abandon, Ended
  <2>2. /\ stream' \in [Streams -> Stream]
        /\ \A t \in Streams \ {s} : stream'[t] = stream[t]
        /\ stream'[s].pc = "abandoned" /\ stream'[s].hand = None /\ stream'[s].last = 0
    BY <1>1, <1>3, <2>1 DEF Fresh, Phases
  <2>3. stream[s].hand = None /\ stream[s].last = 0
    BY <2>1 DEF BusInv, Reading
  <2>4. BusTypeOK'
    BY <1>1, <2>1, <2>2 DEF BusTypeOK
  <2>5. TornDown'
    BY <2>1, <2>2 DEF BusInv, TornDown, Reading
  <2> QED BY <2>1, <2>2, <2>3, <2>4, <2>5 DEF BusInv
<1>10. CASE ClientLeaves(s)
  <2>1. /\ stream' = [stream EXCEPT ![s].gone = TRUE] /\ UNCHANGED <<sequence, subscribed, queue>>
    BY <1>10 DEF ClientLeaves
  <2>2. /\ stream' \in [Streams -> Stream]
        /\ \A t \in Streams :
              /\ stream'[t].hand = stream[t].hand /\ stream'[t].last = stream[t].last
              /\ stream'[t].pc = stream[t].pc
    BY <1>1, <2>1 DEF Stream
  <2> QED BY <2>1, <2>2 DEF BusInv, BusTypeOK, TornDown
<1> QED BY <1>4, <1>5, <1>6, <1>7, <1>8, <1>9, <1>10 DEF StreamStep, Generator

----------------------------------------------------------------------------
\* What the clients that have missed nothing will know.
Follows(s) == stream[s].pc \in {"routed", "first"} \cup Reading /\ ~stream[s].lost
Knows(s, f, v) == Known(queue[s], stream[s].hand, stream[s].view, f, v)

\* A step of a connection changes nothing of it.
LEMMA StreamStepKnows ==
    ASSUME BusInv, NEW s \in Streams, StreamStep(s),
           NEW t \in Streams, NEW f \in Fields, NEW v, Follows(t) => Knows(t, f, v), Follows(t)'
    PROVE  Known(queue'[t], stream'[t].hand, stream'[t].view, f, v)
<1>1. /\ BusTypeOK /\ stream \in [Streams -> Stream] /\ queue \in [Streams -> Seq(Event)]
  BY DEF BusInv, BusTypeOK
<1>2. /\ stream[s].hand \in Event \cup {None} /\ stream[s].view \in View /\ queue[s] \in Seq(Event)
  BY <1>1, StreamType
<1>3. ASSUME UNCHANGED queue,
             \A r \in Streams : /\ stream'[r].hand = stream[r].hand /\ stream'[r].view = stream[r].view
                                /\ stream'[r].lost = stream[r].lost,
             Follows(t)
      PROVE  Known(queue'[t], stream'[t].hand, stream'[t].view, f, v)
  BY <1>3 DEF Knows
<1>4. CASE Open(s)
  <2>1. /\ stream' = [stream EXCEPT ![s].pc = "first"] /\ stream[s].pc = "routed"
        /\ queue' = [queue EXCEPT ![s] = <<>>]
    BY <1>4 DEF Open
  <2>2. \A r \in Streams : /\ stream'[r].hand = stream[r].hand /\ stream'[r].view = stream[r].view
                           /\ stream'[r].lost = stream[r].lost
                           /\ stream'[r].pc = IF r = s THEN "first" ELSE stream[r].pc
    BY <1>1, <2>1 DEF Stream
  <2>3. queue[s] = <<>>
    BY <2>1 DEF BusInv, TornDown, Reading
  <2>4. queue' = queue
    BY <1>1, <2>1, <2>3
  <2>5. Follows(t)
    BY <2>1, <2>2 DEF Follows
  <2> QED BY <1>3, <2>2, <2>4, <2>5
<1>5. CASE Taken(s)
  <2>1. /\ stream' = [stream EXCEPT ![s].pc = "wait"] /\ stream[s].pc \in {"first", "sending"}
        /\ UNCHANGED queue
    BY <1>5 DEF Taken
  <2>2. \A r \in Streams : /\ stream'[r].hand = stream[r].hand /\ stream'[r].view = stream[r].view
                           /\ stream'[r].lost = stream[r].lost
                           /\ stream'[r].pc = IF r = s THEN "wait" ELSE stream[r].pc
    BY <1>1, <2>1 DEF Stream
  <2>3. Follows(t)
    BY <2>1, <2>2 DEF Follows, Reading
  <2> QED BY <1>3, <2>1, <2>2, <2>3
<1>6. CASE Fetch(s)
  <2>1. /\ stream' = [stream EXCEPT ![s].hand = Head(queue[s])]
        /\ queue' = [queue EXCEPT ![s] = Tail(@)]
        /\ stream[s].hand = None /\ queue[s] # <<>>
    BY <1>6 DEF Fetch
  <2>2. \A r \in Streams :
           /\ stream'[r].pc = stream[r].pc /\ stream'[r].lost = stream[r].lost
           /\ stream'[r].view = stream[r].view
           /\ stream'[r].hand = IF r = s THEN Head(queue[s]) ELSE stream[r].hand
           /\ queue'[r] = IF r = s THEN Tail(queue[s]) ELSE queue[r]
    BY <1>1, <2>1 DEF Stream
  <2>3. Knows(t, f, v)
    BY <2>2 DEF Follows
  <2>4. CASE t # s
    BY <2>2, <2>3, <2>4 DEF Knows
  <2>5. CASE t = s
    <3>1. Known(queue[s], None, stream[s].view, f, v)
      BY <2>1, <2>3, <2>5 DEF Knows
    <3>2. Known(Tail(queue[s]), Head(queue[s]), stream[s].view, f, v)
      BY <3>1, <1>2, <2>1, KnownFetch
    <3> QED BY <3>2, <2>2, <2>5
  <2> QED BY <2>4, <2>5
<1>7. CASE Forward(s)
  <2>1. /\ stream' = [stream EXCEPT ![s].pc = "sending", ![s].hand = None,
                                    ![s].view = Seen(@, stream[s].hand.says),
                                    ![s].last = stream[s].hand.seq]
        /\ stream[s].pc = "wait" /\ stream[s].hand # None /\ UNCHANGED queue
    BY <1>7 DEF Forward
  <2>2. \A r \in Streams :
           /\ stream'[r].pc = IF r = s THEN "sending" ELSE stream[r].pc
           /\ stream'[r].lost = stream[r].lost
           /\ stream'[r].view = IF r = s THEN Seen(stream[s].view, stream[s].hand.says)
                                         ELSE stream[r].view
           /\ stream'[r].hand = IF r = s THEN None ELSE stream[r].hand
    BY <1>1, <2>1 DEF Stream
  <2>3. Knows(t, f, v)
    BY <2>1, <2>2 DEF Follows, Reading
  <2>4. CASE t # s
    BY <2>1, <2>2, <2>3, <2>4 DEF Knows
  <2>5. CASE t = s
    <3>1. Known(queue[s], None, Seen(stream[s].view, stream[s].hand.says), f, v)
      BY <1>2, <2>1, <2>3, <2>5, KnownForward DEF Knows
    <3> QED BY <3>1, <2>1, <2>2, <2>5
  <2> QED BY <2>4, <2>5
<1>8. CASE Close(s) \/ Abandon(s)
  <2>1. /\ \E pc \in Over : stream' = [stream EXCEPT ![s] = [Fresh EXCEPT !.pc = pc]]
        /\ queue' = queue \/ queue' = [queue EXCEPT ![s] = <<>>]
    BY <1>8 DEF Close, Abandon, Ended, Over
  <2>2. stream'[s].pc \in Over /\ \A r \in Streams \ {s} : stream'[r] = stream[r] /\ queue'[r] = queue[r]
    BY <1>1, <2>1 DEF Fresh
  <2>3. t # s
    BY <2>2 DEF Follows, Over, Reading
  <2> QED BY <2>2, <2>3 DEF Follows, Knows
<1>9. CASE ClientLeaves(s)
  <2>1. stream' = [stream EXCEPT ![s].gone = TRUE] /\ UNCHANGED queue
    BY <1>9 DEF ClientLeaves
  <2>2. \A r \in Streams : /\ stream'[r].hand = stream[r].hand /\ stream'[r].view = stream[r].view
                           /\ stream'[r].lost = stream[r].lost /\ stream'[r].pc = stream[r].pc
    BY <1>1, <2>1 DEF Stream
  <2>3. Follows(t)
    BY <2>2 DEF Follows
  <2> QED BY <1>3, <2>1, <2>2, <2>3
<1> QED BY <1>4, <1>5, <1>6, <1>7, <1>8, <1>9 DEF StreamStep, Generator

\* A queue with room takes an event as it is.
LEMMA PushRoom ==
    ASSUME NEW q \in Seq(Event), NEW e \in Event, Len(q) + 1 <= QueueSize
    PROVE  Push(q, e) = Append(q, e)
BY BusAssumption DEF Push

\* A publication that mentions a field changes it, for all who follow, to what it says.
LEMMA PublishKnows ==
    ASSUME BusInv, NEW p \in View, Publish(p),
           NEW t \in Streams, NEW f \in Fields, NEW v, NEW v2,
           p[f] # None => v2 = p[f], p[f] = None => v2 = v,
           Follows(t) => Knows(t, f, v), Follows(t)'
    PROVE  Known(queue'[t], stream'[t].hand, stream'[t].view, f, v2)
<1>1. /\ BusTypeOK /\ queue[t] \in Seq(Event) /\ sequence \in Nat
      /\ queue'[t] = IF t \in subscribed THEN Push(queue[t], Stamp(p, sequence + 1)) ELSE queue[t]
  BY DEF BusInv, BusTypeOK, Publish
<1>2. /\ stream'[t].pc = stream[t].pc /\ stream'[t].hand = stream[t].hand
      /\ stream'[t].view = stream[t].view /\ ~stream[t].lost /\ ~PassesBy(t, 1)
  BY <1>1, LoseFacts DEF Publish, Follows
<1>3. Knows(t, f, v)
  BY <1>2 DEF Follows
<1>4. t \in subscribed /\ Len(queue[t]) + 1 <= QueueSize
  <2>1. stream[t].pc \in {"first"} \cup Reading
    BY <1>2 DEF Follows, PassesBy
  <2>2. t \in subscribed
    BY <2>1 DEF BusInv, TornDown
  <2> QED BY <1>1, <1>2, <2>2, BusAssumption DEF PassesBy
<1>5. Stamp(p, sequence + 1) \in Event /\ Stamp(p, sequence + 1).says = p
  BY <1>1, StampType
<1>6. queue'[t] = Append(queue[t], Stamp(p, sequence + 1))
  BY <1>1, <1>4, <1>5, PushRoom
<1>7. Known(Append(queue[t], Stamp(p, sequence + 1)), stream[t].hand, stream[t].view, f, v2)
  BY <1>1, <1>3, <1>5, KnownAppend DEF Knows
<1> QED BY <1>2, <1>6, <1>7

LEMMA PublishBothKnows ==
    ASSUME BusInv, NEW p1 \in View, NEW p2 \in View, PublishBoth(p1, p2),
           NEW t \in Streams, NEW f \in Fields, NEW v, NEW v2,
           p2[f] # None => v2 = p2[f],
           p2[f] = None /\ p1[f] # None => v2 = p1[f],
           p2[f] = None /\ p1[f] = None => v2 = v,
           Follows(t) => Knows(t, f, v), Follows(t)'
    PROVE  Known(queue'[t], stream'[t].hand, stream'[t].view, f, v2)
<1> DEFINE e1 == Stamp(p1, sequence + 1)
           e2 == Stamp(p2, sequence + 2)
           w == IF p1[f] # None THEN p1[f] ELSE v
<1>1. /\ BusTypeOK /\ queue[t] \in Seq(Event) /\ sequence \in Nat
      /\ queue'[t] = IF t \in subscribed THEN Push(Push(queue[t], e1), e2) ELSE queue[t]
  BY DEF BusInv, BusTypeOK, PublishBoth
<1>2. /\ stream'[t].pc = stream[t].pc /\ stream'[t].hand = stream[t].hand
      /\ stream'[t].view = stream[t].view /\ ~stream[t].lost /\ ~PassesBy(t, 2)
  BY <1>1, LoseFacts DEF PublishBoth, Follows
<1>3. Knows(t, f, v)
  BY <1>2 DEF Follows
<1>4. t \in subscribed /\ Len(queue[t]) + 2 <= QueueSize
  <2>1. stream[t].pc \in {"first"} \cup Reading
    BY <1>2 DEF Follows, PassesBy
  <2>2. t \in subscribed
    BY <2>1 DEF BusInv, TornDown
  <2> QED BY <1>1, <1>2, <2>2, BusAssumption DEF PassesBy
<1>5. /\ sequence + 1 \in Nat /\ sequence + 2 \in Nat
      /\ e1 \in Event /\ e1.says = p1 /\ e2 \in Event /\ e2.says = p2
  BY <1>1, StampType
<1> HIDE DEF e1, e2
<1>6. Push(queue[t], e1) = Append(queue[t], e1)
  BY <1>1, <1>4, <1>5, PushRoom, BusAssumption
<1>7. Append(queue[t], e1) \in Seq(Event) /\ Len(Append(queue[t], e1)) = Len(queue[t]) + 1
  BY <1>1, <1>5
<1>8. queue'[t] = Append(Append(queue[t], e1), e2)
  <2>1. Len(Append(queue[t], e1)) + 1 <= QueueSize
    BY <1>1, <1>4, <1>7, BusAssumption
  <2>2. Push(Append(queue[t], e1), e2) = Append(Append(queue[t], e1), e2)
    BY <1>5, <1>7, <2>1, PushRoom
  <2> QED BY <1>1, <1>4, <1>6, <2>2
<1>9. Known(Append(queue[t], e1), stream[t].hand, stream[t].view, f, w)
  BY <1>1, <1>3, <1>5, KnownAppend DEF Knows
<1>10. Known(Append(Append(queue[t], e1), e2), stream[t].hand, stream[t].view, f, v2)
  BY <1>5, <1>7, <1>9, KnownAppend
<1> QED BY <1>2, <1>8, <1>10

\* A connection starts with the snapshot.
LEMMA ConnectKnows ==
    ASSUME BusInv, NEW s \in Streams, NEW p \in View, Connect(s, p),
           NEW t \in Streams, NEW f \in Fields, NEW v, t = s => v = p[f],
           Follows(t) => Knows(t, f, v), Follows(t)'
    PROVE  Known(queue'[t], stream'[t].hand, stream'[t].view, f, v)
<1>1. /\ stream \in [Streams -> Stream] /\ queue' = queue
      /\ stream' = [stream EXCEPT ![s].pc = "routed", ![s].view = p] /\ stream[s].pc = "off"
  BY DEF BusInv, BusTypeOK, Connect
<1>2. CASE t # s
  <2>1. stream'[t] = stream[t]
    BY <1>1, <1>2
  <2> QED BY <1>1, <2>1 DEF Follows, Knows
<1>3. CASE t = s
  <2>1. stream'[s].view = p /\ stream'[s].hand = stream[s].hand
    BY <1>1 DEF Stream
  <2>2. stream[s].hand = None /\ queue[s] = <<>>
    BY <1>1 DEF BusInv, TornDown, Reading
  <2>3. Known(<<>>, None, p, f, p[f])
    BY DEF Known, LastSays, Silent
  <2> QED BY <1>1, <1>3, <2>1, <2>2, <2>3
<1> QED BY <1>2, <1>3

\* Once everything is sent, the client does know it.
LEMMA KnownSent ==
    ASSUME BusInv, NEW s \in Streams, Pending(s) = <<>>, NEW f \in Fields, NEW v, Knows(s, f, v)
    PROVE  stream[s].view[f] = v
<1>1. stream[s].hand \in Event \cup {None} /\ queue[s] \in Seq(Event)
  BY StreamType DEF BusInv
<1>2. stream[s].hand = None
  <2> SUFFICES ASSUME stream[s].hand # None PROVE FALSE
    OBVIOUS
  <2>1. Pending(s) = <<stream[s].hand>> \o queue[s]
    BY DEF Pending
  <2>2. <<stream[s].hand>> \in Seq(Event)
    BY <1>1
  <2>3. Len(Pending(s)) = 1 + Len(queue[s])
    BY <1>1, <2>1, <2>2
  <2> QED BY <1>1, <2>3
<1>3. queue[s] = <<>>
  <2>1. Pending(s) = <<>> \o queue[s]
    BY <1>2 DEF Pending
  <2>2. <<>> \o queue[s] = queue[s]
    BY <1>1
  <2> QED BY <2>1, <2>2
<1> QED BY <1>2, <1>3 DEF Knows, Known, Silent

=============================================================================
