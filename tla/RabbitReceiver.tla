--------------------------- MODULE RabbitReceiver ---------------------------
(***************************************************************************)
(* RabbitMqDtoReceiver: how the receiver of one module keeps its           *)
(* subscriptions through lost connections, closed channels and consumers   *)
(* that the broker cancels.  Every connection carries one channel, so both *)
(* have the connection's number.                                           *)
(*                                                                         *)
(* JavaScript runs an event handler to its first await without being       *)
(* interrupted: that is one step here.  What amqplib does when a channel   *)
(* or connection closes (every pending call rejects, the channel emits     *)
(* 'close' before the connection does) is what the receiver's test mirrors.*)
(***************************************************************************)
EXTENDS Naturals, FiniteSets

CONSTANTS Subs,       \* the module's event handlers, one subscription each
          MaxConns,   \* bound: connections ever made
          MaxFaults,  \* bound: things the broker or the network breaks
          Booted      \* the module has finished subscribing

ASSUME BoundsAssumption == /\ MaxConns \in Nat \ {0} /\ MaxFaults \in Nat
                           /\ Booted \in BOOLEAN

Conns == 1..MaxConns

VARIABLES conn,        \* conn[c]: the connection's state; the latest is number last
          chan,        \* chan[c]: its channel's state
          last,        \* connections made so far
          consumers,   \* consumers[c][s]: consumers of subscription s on channel c
          current,     \* this._channel (and _channelModel), 0 while undefined
          reconnect,   \* where _handleDisconnect is; _reconnecting unless "idle"
          todo,        \* what its _resubscribeAll still has to declare on channel last
          redeclaring, \* redeclaring[c]: cancelled consumers being declared again
          pending,     \* calls of _forceReconnect(c) that are scheduled, and why
          subscribed,  \* this._subscriptions
          subscribing, \* the subscribe call under way, with its channel
          boot,        \* initHandlers of the module
          aborted,     \* the signal of the current abort controller
          stopped,     \* history: shutdown was called
          faults

vars == <<conn, chan, last, consumers, current, reconnect, todo, redeclaring, pending,
          subscribed, subscribing, boot, aborted, stopped, faults>>

Reasons == {"channel closed", "redeclare failed", "restore failed"}
Calls == Conns \X Reasons

TypeOK == /\ conn \in [Conns -> {"none", "open", "closing", "closed"}]
          /\ chan \in [Conns -> {"none", "open", "closed"}]
          /\ last \in Conns
          /\ consumers \in [Conns -> [Subs -> Nat]]
          /\ current \in 0..MaxConns
          /\ reconnect \in {"idle", "connecting", "opening", "restoring"}
          /\ todo \in SUBSET Subs
          /\ redeclaring \in [Conns -> SUBSET Subs]
          /\ pending \in SUBSET Calls
          /\ subscribed \in SUBSET Subs
          /\ subscribing \in SUBSET (Subs \X Conns)
          /\ boot \in {"subscribing", "up", "exited"}
          /\ aborted \in BOOLEAN /\ stopped \in BOOLEAN
          /\ faults \in 0..MaxFaults

NoConsumers == [s \in Subs |-> 0]

\* After init(): connected, no subscription yet; or, Booted, all of them.
Init == /\ conn = [c \in Conns |-> IF c = 1 THEN "open" ELSE "none"]
        /\ chan = [c \in Conns |-> IF c = 1 THEN "open" ELSE "none"]
        /\ last = 1
        /\ consumers = [c \in Conns |-> [s \in Subs |-> IF c = 1 /\ Booted THEN 1 ELSE 0]]
        /\ current = 1
        /\ reconnect = "idle" /\ todo = {}
        /\ redeclaring = [c \in Conns |-> {}]
        /\ pending = {}
        /\ subscribed = (IF Booted THEN Subs ELSE {})
        /\ subscribing = {}
        /\ boot = (IF Booted THEN "up" ELSE "subscribing")
        /\ aborted = FALSE /\ stopped = FALSE /\ faults = 0

Alive == boot # "exited"
Usable(c) == conn[c] = "open" /\ chan[c] = "open"
Fault == faults < MaxFaults /\ faults' = faults + 1
AddConsumer(c, s) == consumers' = [consumers EXCEPT ![c][s] = @ + 1]
-----------------------------------------------------------------------------
(* initHandlers: one awaited subscribe after the other *)

\* Mutant: subscribe waits for the channel.
BeginSubscribeWaiting(s) ==
    /\ boot = "subscribing" /\ subscribing = {} /\ s \notin subscribed /\ current # 0
    /\ subscribing' = {<<s, current>>}
    /\ UNCHANGED <<conn, chan, last, consumers, current, reconnect, todo, redeclaring,
                   pending, subscribed, boot, aborted, stopped, faults>>

\* Without a channel, or on a closed one, it throws, and the process exits.
BeginSubscribe(s) ==
    /\ boot = "subscribing" /\ subscribing = {} /\ s \notin subscribed
    /\ IF current = 0 \/ ~Usable(current)
       THEN boot' = "exited" /\ UNCHANGED subscribing
       ELSE subscribing' = {<<s, current>>} /\ UNCHANGED boot
    /\ UNCHANGED <<conn, chan, last, consumers, current, reconnect, todo, redeclaring,
                   pending, subscribed, aborted, stopped, faults>>

\* A _resubscribeAll under way iterates over the array that grows here.
Subscribed(s, c) ==
    /\ Alive /\ <<s, c>> \in subscribing /\ Usable(c)
    /\ AddConsumer(c, s)
    /\ subscribed' = subscribed \cup {s}
    /\ todo' = IF reconnect = "restoring" THEN todo \cup {s} ELSE todo
    /\ subscribing' = {}
    /\ boot' = IF subscribed' = Subs THEN "up" ELSE boot
    /\ UNCHANGED <<conn, chan, last, current, reconnect, redeclaring, pending, aborted,
                   stopped, faults>>
-----------------------------------------------------------------------------
(* What breaks *)

\* The close listener and the declares that reject when channel c goes.
LossCalls(c) ==
    {<<c, "channel closed">>}
    \cup (IF redeclaring[c] # {} THEN {<<c, "redeclare failed">>} ELSE {})
    \cup (IF reconnect = "restoring" /\ c = last THEN {<<c, "restore failed">>} ELSE {})

ChannelGoes(c) ==
    /\ chan' = [chan EXCEPT ![c] = "closed"]
    /\ consumers' = [consumers EXCEPT ![c] = NoConsumers]
    /\ redeclaring' = [redeclaring EXCEPT ![c] = {}]
    /\ pending' = IF chan[c] = "open" THEN pending \cup LossCalls(c) ELSE pending
    /\ boot' = IF \E s \in Subs : <<s, c>> \in subscribing THEN "exited" ELSE boot

\* The broker closes the channel: a refused declare, a protocol error.
ChannelCloses(c) ==
    /\ Alive /\ Usable(c) /\ Fault
    /\ ChannelGoes(c)
    /\ reconnect' = IF reconnect = "restoring" /\ c = last THEN "idle" ELSE reconnect
    /\ UNCHANGED <<conn, last, current, todo, subscribed, subscribing, aborted, stopped>>

\* _handleDisconnect up to its first await; a second one is skipped while one runs.
Disconnect == /\ current' = 0
              /\ reconnect' = "connecting"
              /\ aborted' = FALSE

HandleDisconnect ==
    IF reconnect = "idle" THEN Disconnect ELSE UNCHANGED <<current, reconnect, aborted>>

\* Connection c is gone: dropped by the network or the broker, or our close() is done.
\* Its listeners know no connection: any connection's close is handled as the current
\* one's.  Before the channel is open there are no listeners, but createChannel rejects.
ConnectionCloses(c) ==
    /\ Alive
    /\ \/ conn[c] = "open" /\ Fault
       \/ conn[c] = "closing" /\ UNCHANGED faults
    /\ conn' = [conn EXCEPT ![c] = "closed"]
    /\ ChannelGoes(c)
    /\ \/ reconnect = "idle" /\ Disconnect
       \/ /\ reconnect = "opening" /\ c = last
          /\ reconnect' = "connecting" /\ UNCHANGED <<current, aborted>>
       \/ /\ reconnect = "restoring" /\ c = last
          /\ reconnect' = "idle" /\ UNCHANGED <<current, aborted>>
       \/ /\ reconnect = "connecting" \/ (reconnect # "idle" /\ c # last)
          /\ UNCHANGED <<current, reconnect, aborted>>
    /\ UNCHANGED <<last, todo, subscribed, subscribing, stopped>>

\* Mutant: a consumer the broker cancels is not declared again.
CancelUnnoticed(c, s) ==
    /\ Alive /\ Usable(c) /\ Fault
    /\ consumers[c][s] > 0 /\ s \notin redeclaring[c]
    /\ consumers' = [consumers EXCEPT ![c][s] = @ - 1]
    /\ UNCHANGED <<conn, chan, last, current, reconnect, todo, redeclaring, pending,
                   subscribed, subscribing, boot, aborted, stopped>>

\* Mutant: every subscription is replayed on the channel, not the cancelled one alone.
CancelReplaysAll(c, s) ==
    /\ Alive /\ Usable(c) /\ Fault
    /\ consumers[c][s] > 0 /\ s \notin redeclaring[c]
    /\ consumers' = [consumers EXCEPT ![c][s] = @ - 1]
    /\ redeclaring' = IF c = current
                      THEN [redeclaring EXCEPT ![c] = subscribed]
                      ELSE redeclaring
    /\ UNCHANGED <<conn, chan, last, current, reconnect, todo, pending, subscribed,
                   subscribing, boot, aborted, stopped>>

\* The queue is deleted: _onConsumerCancelled, which looks at the current channel only.
ConsumerCancelled(c, s) ==
    /\ Alive /\ Usable(c) /\ Fault
    /\ consumers[c][s] > 0 /\ s \notin redeclaring[c]
    /\ consumers' = [consumers EXCEPT ![c][s] = @ - 1]
    /\ redeclaring' = IF c = current
                      THEN [redeclaring EXCEPT ![c] = @ \cup {s}]
                      ELSE redeclaring
    /\ UNCHANGED <<conn, chan, last, current, reconnect, todo, pending, subscribed,
                   subscribing, boot, aborted, stopped>>
-----------------------------------------------------------------------------
(* What repairs *)

Redeclared(c, s) ==
    /\ Alive /\ Usable(c) /\ s \in redeclaring[c]
    /\ AddConsumer(c, s)
    /\ redeclaring' = [redeclaring EXCEPT ![c] = @ \ {s}]
    /\ UNCHANGED <<conn, chan, last, current, reconnect, todo, pending, subscribed,
                   subscribing, boot, aborted, stopped, faults>>

\* Mutant: close() that rejects is taken for a close that works.
ForceReconnectHopefully(c, why) ==
    /\ Alive /\ <<c, why>> \in pending
    /\ pending' = pending \ {<<c, why>>}
    /\ IF c = current /\ conn[c] = "open"
       THEN /\ conn' = [conn EXCEPT ![c] = "closing"]
            /\ consumers' = [consumers EXCEPT ![c] = NoConsumers]
       ELSE UNCHANGED <<conn, consumers>>
    /\ UNCHANGED <<chan, last, current, reconnect, todo, redeclaring, subscribed,
                   subscribing, boot, aborted, stopped, faults>>

\* _forceReconnect of a channel that was superseded does nothing.  close() of an open
\* connection begins the handshake, after which its frames are ignored; of a connection
\* already closing or closed it rejects, which is handled as a disconnect.
ForceReconnect(c, why) ==
    /\ Alive /\ <<c, why>> \in pending
    /\ pending' = pending \ {<<c, why>>}
    /\ IF c = current /\ conn[c] = "open"
       THEN /\ conn' = [conn EXCEPT ![c] = "closing"]
            /\ consumers' = [consumers EXCEPT ![c] = NoConsumers]
       ELSE UNCHANGED <<conn, consumers>>
    /\ IF c = current /\ conn[c] # "open"
       THEN HandleDisconnect
       ELSE UNCHANGED <<current, reconnect, aborted>>
    /\ UNCHANGED <<chan, last, todo, redeclaring, subscribed, subscribing, boot, stopped,
                   faults>>

\* _connectWithRetry: an attempt succeeds (one that fails is repeated after a delay).
Connect ==
    /\ Alive /\ reconnect = "connecting" /\ ~aborted /\ last < MaxConns
    /\ last' = last + 1
    /\ conn' = [conn EXCEPT ![last'] = "open"]
    /\ reconnect' = "opening"
    /\ UNCHANGED <<chan, consumers, current, todo, redeclaring, pending, subscribed,
                   subscribing, boot, aborted, stopped, faults>>

\* The signal is looked at between two attempts: the reconnect gives up.
AbortConnect ==
    /\ Alive /\ reconnect = "connecting" /\ aborted
    /\ reconnect' = "idle"
    /\ UNCHANGED <<conn, chan, last, consumers, current, todo, redeclaring, pending,
                   subscribed, subscribing, boot, aborted, stopped, faults>>

\* The channel is open, its listeners set, and _resubscribeAll begins.
OpenChannel ==
    /\ Alive /\ reconnect = "opening"
    /\ chan' = [chan EXCEPT ![last] = "open"]
    /\ current' = last
    /\ todo' = subscribed
    /\ reconnect' = IF subscribed = {} THEN "idle" ELSE "restoring"
    /\ UNCHANGED <<conn, last, consumers, redeclaring, pending, subscribed, subscribing,
                   boot, aborted, stopped, faults>>

\* _resubscribeAll declares one subscription; after the last one the reconnect is over.
Restore(s) ==
    /\ Alive /\ reconnect = "restoring" /\ s \in todo
    /\ AddConsumer(last, s)
    /\ todo' = todo \ {s}
    /\ reconnect' = IF todo' = {} THEN "idle" ELSE "restoring"
    /\ UNCHANGED <<conn, chan, last, current, redeclaring, pending, subscribed,
                   subscribing, boot, aborted, stopped, faults>>

Shutdown ==
    /\ Alive /\ ~stopped
    /\ stopped' = TRUE /\ aborted' = TRUE
    /\ UNCHANGED <<conn, chan, last, consumers, current, reconnect, todo, redeclaring,
                   pending, subscribed, subscribing, boot, faults>>
-----------------------------------------------------------------------------
Own == \/ \E s \in Subs : BeginSubscribe(s) \/ Restore(s)
       \/ \E s \in Subs, c \in Conns : Subscribed(s, c) \/ Redeclared(c, s)
       \/ \E c \in Conns, why \in Reasons : ForceReconnect(c, why)
       \/ Connect \/ AbortConnect \/ OpenChannel
       \/ \E c \in Conns : conn[c] = "closing" /\ ConnectionCloses(c)

Next == \/ Own
        \/ \E c \in Conns : ChannelCloses(c) \/ ConnectionCloses(c)
        \/ \E c \in Conns, s \in Subs : ConsumerCancelled(c, s)
        \/ Shutdown

Spec == Init /\ [][Next]_vars

\* The event loop runs what is scheduled and the broker is reachable in the end: an
\* attempt to connect, a declare, a close handshake or a timer eventually ends.
FairSpec == Spec /\ WF_vars(Own)
-----------------------------------------------------------------------------
(* Properties *)

\* The receiver consumes s, or something it has under way will make it.
Consuming(s) == current # 0 /\ consumers[current][s] > 0
Repairing(s) == \/ reconnect # "idle"
                \/ current # 0 /\ \/ s \in redeclaring[current]
                                  \/ conn[current] = "closing"
                                  \/ \E why \in Reasons : <<current, why>> \in pending

\* No subscription is lost for good: whenever it has no consumer, a reconnect, a
\* redeclare or a scheduled call is there to restore it, whatever events were skipped.
NeverDeaf == Alive /\ ~stopped => \A s \in subscribed : Consuming(s) \/ Repairing(s)

\* Replays and redeclares never overlap: a channel has one consumer per subscription.
\* The receiver's test counts them: "expect(newChannel.consumers.size).toBe(2)".  A module
\* that boots through a reconnect may break it: _resubscribeAll's loop meets what subscribe
\* appends and has already declared.
OneConsumerPerChannel == \A c \in Conns, s \in Subs : consumers[c][s] <= 1

\* Once nothing breaks any more, every subscription is consumed, for good.
Recovers == <>[](~Alive \/ stopped \/ \A s \in subscribed : Consuming(s))

\* A module that cannot subscribe fails at once: it never hangs in initHandlers.
BootEnds == <>(boot # "subscribing")

\* Comment on _forceReconnect: "Closes the current connection so that {@link
\* _handleDisconnect} reconnects and re-subscribes everything".  A connection that still
\* delivers events is the receiver's current one.
\* It does not hold (README, section 6), and no configuration lists it.
NoForgottenConsumers ==
    \A c \in Conns : (\E s \in Subs : consumers[c][s] > 0) => c = current
-----------------------------------------------------------------------------
(* The inductive invariant of RabbitReceiverProofs, for a booted module *)

BootedForGood == boot = "up" /\ subscribed = Subs /\ subscribing = {}

\* The current channel is the latest; a reconnect past OpenChannel works on it.
CurrentIsLatest == /\ current \in {0, last}
                   /\ reconnect \in {"connecting", "opening"} => current = 0
                   /\ reconnect = "restoring" => current = last /\ chan[last] = "open"
                   /\ reconnect = "opening" => chan[last] = "none"
                   /\ \A c \in Conns : c > last => conn[c] = "none" /\ chan[c] = "none"

\* Nothing consumes or is being declared on a channel that is not open, and only a
\* channel that closed has calls scheduled or a connection that closes.
ClosedChannelsAreSilent ==
    /\ \A c \in Conns : chan[c] # "open" => consumers[c] = NoConsumers /\ redeclaring[c] = {}
    /\ \A c \in Conns, why \in Reasons : <<c, why>> \in pending => chan[c] = "closed"
    /\ \A c \in Conns : conn[c] \in {"closing", "closed"} => chan[c] = "closed"

\* Each subscription of a channel is consumed or being declared, not both.
DeclaredOnce ==
    /\ OneConsumerPerChannel
    /\ \A c \in Conns, s \in Subs : s \in redeclaring[c] => consumers[c][s] = 0
    /\ reconnect = "restoring" =>
         \A s \in todo : consumers[last][s] = 0 /\ s \notin redeclaring[last]

\* Either the current channel has or gets every consumer, or it is about to be replaced.
Covered ==
    /\ aborted => stopped
    /\ reconnect = "idle" /\ current = 0 => stopped
    /\ reconnect = "restoring" =>
         \A s \in Subs : s \in todo \cup redeclaring[last] \/ consumers[last][s] > 0
    /\ reconnect = "idle" /\ current # 0 =>
         \/ conn[current] = "closing"
         \/ \E why \in Reasons : <<current, why>> \in pending
         \/ \A s \in Subs : s \in redeclaring[current] \/ consumers[current][s] > 0

IInv == /\ TypeOK /\ BootedForGood /\ CurrentIsLatest /\ ClosedChannelsAreSilent
        /\ DeclaredOnce /\ Covered
=============================================================================
