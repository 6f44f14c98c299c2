------------------------------- MODULE EventBus -------------------------------
(***************************************************************************)
(* The in-process event bus of one evolution                               *)
(* (services/evolution_event_bus.py) and the SSE connections that read it  *)
(* (stream_evolution_events and build_sse_generator of                     *)
(* api/routes/evolutions.py).                                              *)
(*                                                                         *)
(* Every subscriber has a bounded queue, and publishing to a full one      *)
(* drops its oldest event.  publish never loses the event loop, so the     *)
(* events a handler publishes between two awaits are published in one      *)
(* step.  An SSE connection loses it in the route (before its generator    *)
(* starts), at every yield, and while it waits for its queue.              *)
(***************************************************************************)
EXTENDS Naturals, Sequences

CONSTANTS
    Streams,    \* SSE connections
    QueueSize,  \* DEFAULT_QUEUE_SIZE
    Statuses,   \* what the status of the evolution can be
    Named,      \* the individuals an event can name, None included
    None

VARIABLES
    sequence,   \* _sequences of the evolution
    subscribed, \* the streams whose queue is in _subscribers
    queue,      \* the queue of each
    stream      \* the generator of each, and its client

bus == <<sequence, subscribed, queue, stream>>

\* What an event says of the record; None where its payload does not mention a field.
View == [status : Statuses \cup {None}, best : Named, accepted : Named]
Event == [seq : Nat, says : View]
Says(status, best, accepted) == [status |-> status, best |-> best, accepted |-> accepted]
Nothing == Says(None, None, None)

ASSUME BusAssumption ==
    /\ QueueSize \in Nat \ {0}
    /\ None \in Named
    /\ None \notin Statuses \cup Event

\* Where a generator is: the route has read the snapshot ("routed"), it has subscribed and
\* yields the snapshot ("first"), it waits for its queue or for the heartbeat ("wait"), it
\* yields an event ("sending"), its finally block has run ("closed"), or it ended without
\* one ("abandoned").
Phases == {"off", "routed", "first", "wait", "sending", "closed", "abandoned"}
Over == {"closed", "abandoned"}
Reading == {"wait", "sending"} \* inside the try statement

Stream == [pc : Phases,
           hand : Event \cup {None}, \* the result of anext_task
           view : View,              \* what the client has made of the frames it was sent
           last : Nat,               \* the sequence number of the newest of them
           gone : BOOLEAN,           \* the client has disconnected
           lost : BOOLEAN]           \* history: it has missed an event

BusTypeOK ==
    /\ sequence \in Nat
    /\ subscribed \subseteq Streams
    /\ queue \in [Streams -> Seq(Event)]
    /\ stream \in [Streams -> Stream]

Fresh == [pc |-> "off", hand |-> None, view |-> Nothing, last |-> 0, gone |-> FALSE, lost |-> FALSE]

BusInit ==
    /\ sequence = 0
    /\ subscribed = {}
    /\ queue = [s \in Streams |-> <<>>]
    /\ stream = [s \in Streams |-> Fresh]

\* Mutant of Push: a full queue takes no more.
PushDropsNewest(q, e) == IF Len(q) < QueueSize THEN Append(q, e) ELSE q

\* put_nowait, after a get_nowait when the queue is full.
Push(q, e) == Append(IF Len(q) < QueueSize THEN q ELSE Tail(q), e)

\* publish, once for one event and twice for two that one stretch of a handler publishes.
Stamp(p, n) == [seq |-> n, says |-> p]
PassesBy(s, n) == \/ stream[s].pc = "routed"
                  \/ s \in subscribed /\ Len(queue[s]) + n > QueueSize
Lose(n) == stream' = [s \in Streams |-> [stream[s] EXCEPT !.lost = @ \/ PassesBy(s, n)]]

Publish(p) ==
    /\ sequence' = sequence + 1
    /\ queue' = [s \in Streams |->
                   IF s \in subscribed THEN Push(queue[s], Stamp(p, sequence + 1)) ELSE queue[s]]
    /\ Lose(1)
    /\ UNCHANGED subscribed

PublishBoth(p1, p2) ==
    /\ sequence' = sequence + 2
    /\ queue' = [s \in Streams |->
                   IF s \in subscribed
                   THEN Push(Push(queue[s], Stamp(p1, sequence + 1)), Stamp(p2, sequence + 2))
                   ELSE queue[s]]
    /\ Lose(2)
    /\ UNCHANGED subscribed

----------------------------------------------------------------------------
\* The route reads the record; the generator has not run yet.
Connect(s, snapshot) ==
    /\ stream[s].pc = "off"
    /\ stream' = [stream EXCEPT ![s].pc = "routed", ![s].view = snapshot]
    /\ UNCHANGED <<sequence, subscribed, queue>>

\* Its first step subscribes and yields the snapshot.
Open(s) ==
    /\ stream[s].pc = "routed"
    /\ stream' = [stream EXCEPT ![s].pc = "first"]
    /\ subscribed' = subscribed \cup {s}
    /\ queue' = [queue EXCEPT ![s] = <<>>]
    /\ UNCHANGED sequence

\* The client has taken a frame: the loop goes round and asks the queue for the next event.
Taken(s) ==
    /\ stream[s].pc \in {"first", "sending"}
    /\ ~stream[s].gone
    /\ stream' = [stream EXCEPT ![s].pc = "wait"]
    /\ UNCHANGED <<sequence, subscribed, queue>>

\* anext_task gets an event; the generator runs later.
Fetch(s) ==
    /\ stream[s].pc = "wait" /\ stream[s].hand = None
    /\ queue[s] # <<>>
    /\ stream' = [stream EXCEPT ![s].hand = Head(queue[s])]
    /\ queue' = [queue EXCEPT ![s] = Tail(@)]
    /\ UNCHANGED <<sequence, subscribed>>

\* What a client makes of an event, given what it knew.
Told(old, new) == IF new = None THEN old ELSE new
Seen(view, p) == Says(Told(view.status, p.status), Told(view.best, p.best),
                      Told(view.accepted, p.accepted))

Forward(s) ==
    /\ stream[s].pc = "wait" /\ stream[s].hand # None
    /\ stream' = [stream EXCEPT ![s].pc = "sending", ![s].hand = None,
                                ![s].view = Seen(@, stream[s].hand.says),
                                ![s].last = stream[s].hand.seq]
    /\ UNCHANGED <<sequence, subscribed, queue>>

ClientLeaves(s) ==
    /\ stream[s].pc \notin Over \cup {"off"} /\ ~stream[s].gone
    /\ stream' = [stream EXCEPT ![s].gone = TRUE]
    /\ UNCHANGED <<sequence, subscribed, queue>>

\* is_disconnected, or the generator is cancelled or closed where it is.  Its locals and, with
\* aclose, its queue are gone.
Ended(s, pc) == stream' = [stream EXCEPT ![s] = [Fresh EXCEPT !.pc = pc]]

\* Mutant of Close: the subscription is not closed.
CloseKeepsQueue(s) ==
    /\ stream[s].gone /\ stream[s].pc \in Reading
    /\ Ended(s, "closed")
    /\ UNCHANGED <<sequence, subscribed, queue>>

Close(s) ==
    /\ stream[s].gone /\ stream[s].pc \in Reading
    /\ Ended(s, "closed")
    /\ subscribed' = subscribed \ {s}
    /\ queue' = [queue EXCEPT ![s] = <<>>]
    /\ UNCHANGED sequence

\* The same before the first event is asked for: the try statement does not enclose the
\* snapshot's yield.
Abandon(s) ==
    /\ stream[s].gone /\ stream[s].pc \in {"routed", "first"}
    /\ Ended(s, "abandoned")
    /\ UNCHANGED <<sequence, subscribed, queue>>

Generator(s) == Open(s) \/ Fetch(s) \/ Forward(s) \/ Close(s) \/ Abandon(s)
StreamStep(s) == Generator(s) \/ Taken(s) \/ ClientLeaves(s)

----------------------------------------------------------------------------
\* What a stream has been given and has yet to send, oldest first.
Pending(s) == (IF stream[s].hand = None THEN <<>> ELSE <<stream[s].hand>>) \o queue[s]

\* A subscriber's queue holds the newest events in the order they were published, whatever
\* overflowed, and what it was sent before is older: numbers never repeat or go back.
InOrder ==
    \A s \in subscribed :
        /\ Len(queue[s]) <= QueueSize
        /\ \A k \in 1..Len(queue[s]) : queue[s][k].seq = sequence - Len(queue[s]) + k
        /\ stream[s].hand # None => stream[s].hand.seq <= sequence - Len(queue[s])
        /\ stream[s].last < (IF stream[s].hand = None THEN sequence - Len(queue[s]) + 1
                                                      ELSE stream[s].hand.seq)

\* Only an open connection keeps a queue, and none that is over has one, except where the
\* client left while the snapshot was being sent: that queue is never torn down.
TornDown ==
    /\ \A s \in subscribed : stream[s].pc \in Reading \cup {"first", "abandoned"}
    /\ \A s \in Streams : stream[s].pc \in Reading => s \in subscribed
    /\ \A s \in Streams \ subscribed : queue[s] = <<>>
=============================================================================
