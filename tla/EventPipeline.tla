---------------------------- MODULE EventPipeline ----------------------------
(***************************************************************************)
(* The way of an event through the running server: a row changes, Postgres *)
(* notifies, DtoRouter publishes to RabbitMQ and a module's receiver hands *)
(* it to its handler.  Sender and receiver have connections of their own.  *)
(*                                                                         *)
(* Nothing in the server catches a promise that rejects unawaited: it ends *)
(* the process, as does every throw below that reaches no catch.           *)
(***************************************************************************)
EXTENDS RabbitReceiver, Sequences, SequencesExt

CONSTANT About   \* the subscription each event is for; bound: there are no others

ASSUME AboutAssumption == About \in Seq(Subs)

Events == DOMAIN About

VARIABLES listening,  \* the LISTENs of PgNotifyEventSubscriber are in place
          sender,     \* the sender's connection and channel
          happened,   \* events so far: 1..happened, in their order
          asserting,  \* calls of sendEvent that await assertExchange
          wire,       \* published, and not yet at the exchange
          queues,     \* queues[c][s]: what the consumer of s on channel c has yet to get
          started,    \* history: the events _onEvent began on channel c for s
          handling,   \* the handlers that run, with their channel
          unrouted,   \* history: events for which the exchange had no queue
          promised    \* history: happened while all was sound, and nothing broke since

pipeVars == <<listening, sender, happened, asserting, wire, queues, started, handling,
              unrouted, promised>>
allVars == <<vars, pipeVars>>

NoEvents == [c \in Conns |-> [s \in Subs |-> <<>>]]

PipeTypeOK == /\ listening \in BOOLEAN /\ sender \in {"up", "dead", "away"}
              /\ happened \in 0..Len(About)
              /\ asserting \in Seq(Events) /\ wire \in Seq(Events)
              /\ queues \in [Conns -> [Subs -> Seq(Events)]]
              /\ started \in [Conns -> [Subs -> Seq(Events)]]
              /\ handling \subseteq Conns \X Events
              /\ unrouted \cup promised \subseteq 1..happened
              /\ Alive /\ asserting # <<>> => sender = "up"

PipeInit == /\ listening = TRUE /\ sender = "up" /\ happened = 0
            /\ asserting = <<>> /\ wire = <<>>
            /\ queues = NoEvents /\ started = NoEvents /\ handling = {}
            /\ unrouted = {} /\ promised = {}

\* The process ends, and everything else stays as it is.
Exits == /\ boot' = "exited"
         /\ UNCHANGED <<conn, chan, last, consumers, current, reconnect, todo,
                        redeclaring, pending, subscribed, subscribing, aborted, stopped>>

ReceiverRests == UNCHANGED <<vars>>

\* A receiver is sound while it consumes and nothing is under way that will break it: an
\* old connection that still closes will reset the current one.
Sound(s) == /\ listening /\ sender = "up"
            /\ Consuming(s) /\ Usable(current) /\ ~Repairing(s)
            /\ \A c \in Conns : conn[c] # "closing"
-----------------------------------------------------------------------------
(* The router *)

\* Mutant: while an event is on its way to the exchange further ones are ignored.
SendUnlessBusy(e) ==
    IF sender = "up"
    THEN asserting' = (IF asserting = <<>> THEN <<e>> ELSE asserting) /\ ReceiverRests
    ELSE UNCHANGED <<asserting, faults>> /\ Exits

\* sendEvent up to its await: without a channel, or on a closed one, it throws.
Send(e) == IF sender = "up"
           THEN asserting' = Append(asserting, e) /\ ReceiverRests
           ELSE UNCHANGED <<asserting, faults>> /\ Exits

\* A row changes.  Without the LISTENs nobody notices.
EventHappens ==
    /\ Alive /\ happened < Len(About)
    /\ happened' = happened + 1
    /\ promised' = promised \cup (IF Sound(About[happened']) THEN {happened'} ELSE {})
    /\ IF listening THEN Send(happened') ELSE UNCHANGED asserting /\ ReceiverRests
    /\ UNCHANGED <<listening, sender, wire, queues, started, handling, unrouted>>

\* Mutant: the publishes do not keep the order of the calls.
PublishAny ==
    /\ Alive
    /\ \E i \in DOMAIN asserting : /\ asserting' = RemoveAt(asserting, i)
                                   /\ wire' = Append(wire, asserting[i])
    /\ ReceiverRests
    /\ UNCHANGED <<listening, sender, happened, queues, started, handling, unrouted,
                   promised>>

\* The exchange is there: the event is published on the channel of the moment.
Publish ==
    /\ Alive /\ asserting # <<>>
    /\ asserting' = Tail(asserting)
    /\ wire' = Append(wire, Head(asserting))
    /\ ReceiverRests
    /\ UNCHANGED <<listening, sender, happened, queues, started, handling, unrouted,
                   promised>>

\* Mutant: calls that await the exchange survive its channel.
SenderLosesQuietly(now) ==
    /\ Alive /\ sender \in {"up", "dead"} \ {now} /\ Fault
    /\ sender' = now
    /\ wire' = <<>>
    /\ promised' = {}
    /\ UNCHANGED <<conn, chan, last, consumers, current, reconnect, todo, redeclaring,
                   pending, subscribed, subscribing, boot, aborted, stopped>>
    /\ UNCHANGED <<listening, happened, asserting, queues, started, handling, unrouted>>

\* The sender's channel goes: what is on the wire is lost, and the calls that await the
\* exchange reject.  It reconnects when the connection goes, and not when the channel does.
SenderLoses(now) ==
    /\ Alive /\ sender \in {"up", "dead"} \ {now} /\ Fault
    /\ sender' = now
    /\ wire' = <<>>
    /\ IF asserting = <<>> THEN UNCHANGED boot ELSE boot' = "exited"
    /\ promised' = {}
    /\ UNCHANGED <<conn, chan, last, consumers, current, reconnect, todo, redeclaring,
                   pending, subscribed, subscribing, aborted, stopped>>
    /\ UNCHANGED <<listening, happened, asserting, queues, started, handling, unrouted>>

SenderReconnects ==
    /\ Alive /\ sender = "away"
    /\ sender' = "up"
    /\ ReceiverRests
    /\ UNCHANGED <<listening, happened, asserting, wire, queues, started, handling,
                   unrouted, promised>>

\* The connection to Postgres ends.  DtoRouter's handleDisconnect does nothing.
ListenEnds ==
    /\ Alive /\ listening /\ Fault
    /\ listening' = FALSE
    /\ promised' = {}
    /\ UNCHANGED <<conn, chan, last, consumers, current, reconnect, todo, redeclaring,
                   pending, subscribed, subscribing, boot, aborted, stopped>>
    /\ UNCHANGED <<sender, happened, asserting, wire, queues, started, handling, unrouted>>
-----------------------------------------------------------------------------
(* The broker and the receiver *)

\* The headers exchange copies an event to every queue bound for its type.
Arrives ==
    /\ Alive /\ wire # <<>>
    /\ LET e == Head(wire)
           s == About[e]
       IN  /\ queues' = [c \in Conns |->
                           [queues[c] EXCEPT ![s] = @ \o [i \in 1..consumers[c][s] |-> e]]]
           /\ unrouted' = IF \A c \in Conns : consumers[c][s] = 0
                          THEN unrouted \cup {e} ELSE unrouted
    /\ wire' = Tail(wire)
    /\ ReceiverRests
    /\ UNCHANGED <<listening, sender, happened, asserting, started, handling, promised>>

\* _onEvent begins: it waits for no other.
Deliver(c, s) ==
    /\ Alive /\ Usable(c) /\ queues[c][s] # <<>>
    /\ queues' = [queues EXCEPT ![c][s] = Tail(@)]
    /\ started' = [started EXCEPT ![c][s] = Append(@, Head(queues[c][s]))]
    /\ handling' = handling \cup {<<c, Head(queues[c][s])>>}
    /\ ReceiverRests
    /\ UNCHANGED <<listening, sender, happened, asserting, wire, unrouted, promised>>

\* The handler is done, with an error or without; ack throws on a channel that has gone.
HandlerEnds(c, e) ==
    /\ Alive /\ <<c, e>> \in handling
    /\ handling' = handling \ {<<c, e>>}
    /\ IF Usable(c) THEN ReceiverRests ELSE Exits /\ UNCHANGED faults
    /\ UNCHANGED <<listening, sender, happened, asserting, wire, queues, started, unrouted,
                   promised>>

\* What the receiver does, with the queues: each goes with its consumer.
WithQueues ==
    /\ queues' = [c \in Conns |-> [s \in Subs |->
                    IF consumers'[c][s] = 0 THEN <<>> ELSE queues[c][s]]]
    /\ promised' = IF faults' = faults THEN promised ELSE {}
    /\ UNCHANGED <<listening, sender, happened, asserting, wire, started, handling,
                   unrouted>>

ReceiverStep == Next /\ WithQueues
Repair == Own /\ WithQueues
-----------------------------------------------------------------------------
PipeNext == \/ ReceiverStep
            \/ EventHappens \/ Publish \/ Arrives
            \/ \E now \in {"away", "dead"} : SenderLoses(now)
            \/ SenderReconnects \/ ListenEnds
            \/ \E c \in Conns, s \in Subs : Deliver(c, s)
            \/ \E c \in Conns, e \in Events : HandlerEnds(c, e)

PipeSpec == Init /\ PipeInit /\ [][PipeNext]_allVars

\* RabbitReceiver's assumption, and the same for the sender: the broker answers in the
\* end, and delivers what its queues hold.  That handlers end is not assumed.
PipeFairness == /\ WF_allVars(Repair)
                /\ WF_allVars(Publish) /\ WF_allVars(SenderReconnects)
                /\ WF_allVars(Arrives)
                /\ \A c \in Conns : WF_allVars(\E s \in Subs : Deliver(c, s))
-----------------------------------------------------------------------------
(* Properties *)

\* The handlers of one subscription begin in the order the rows changed, and never twice
\* for one event, on every channel: reconnects, redeclares and events that overlap keep it.
InOrderOnce ==
    \A c \in Conns, s \in Subs : \A i, j \in DOMAIN started[c][s] :
        i < j => started[c][s][i] < started[c][s][j]

\* The inductive invariant: events keep their order all the way.  What handlers have begun is
\* older than what waits for them, that than what is on the wire, that than what awaits the
\* exchange, and that than what is yet to happen.
Rising(events) == \A i, j \in DOMAIN events : i < j => events[i] < events[j]
Before(older, newer) == \A i \in DOMAIN older, j \in DOMAIN newer : older[i] < newer[j]
OnTheWay(events) == Rising(events) /\ Before(events, <<happened + 1>>)
InTheirOrder ==
    /\ OnTheWay(asserting) /\ OnTheWay(wire) /\ Before(wire, asserting)
    /\ \A c \in Conns, s \in Subs :
         /\ OnTheWay(queues[c][s]) /\ Before(queues[c][s], wire) /\ Before(queues[c][s], asserting)
         /\ OnTheWay(started[c][s]) /\ Before(started[c][s], queues[c][s])
         /\ Before(started[c][s], wire) /\ Before(started[c][s], asserting)

\* Events are handled so, and a call awaits the exchange only on a sender that is up: no call
\* publishes on a channel that has come after its own.
PipeIInv == PipeTypeOK /\ InTheirOrder /\ InOrderOnce

\* The exchange drops an event for want of a queue only while the receiver is at work to
\* restore the subscription, or was shut down.
DroppedOnlyInRepair ==
    [][\A e \in unrouted' \ unrouted : Repairing(About[e]) \/ stopped]_allVars

\* An event that happens while everything is sound reaches its handler, unless something
\* breaks before, or a handler that outlived its channel ends the process.
Handled(e) == \E c \in Conns : \E i \in DOMAIN started[c][About[e]] : started[c][About[e]][i] = e
SoundEventsAreHandled ==
    \A e \in Events : e \in promised ~> (Handled(e) \/ e \notin promised \/ ~Alive)
=============================================================================
