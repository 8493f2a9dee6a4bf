------------------------ MODULE RabbitReceiverProofs ------------------------
(***************************************************************************)
(* What TLAPS proves of RabbitReceiver for every set of subscriptions and  *)
(* every number of connections and faults, and of EventPipeline for any    *)
(* events as well.                                                         *)
(***************************************************************************)
EXTENDS EventPipeline, SequenceTheorems, TLAPS

USE DEF Conns

-----------------------------------------------------------------------------
(* Type correctness *)

LEMMA Zero == 0 \in 0..MaxConns /\ 1 \in 0..MaxConns /\ 1 \in Conns /\ 0 \in 0..MaxFaults
  BY BoundsAssumption

LEMMA InitType == Init => TypeOK
<1> SUFFICES ASSUME Init PROVE TypeOK
  OBVIOUS
<1> USE Zero DEF Init
<1>1. /\ conn \in [Conns -> {"none", "open", "closing", "closed"}]
      /\ chan \in [Conns -> {"none", "open", "closed"}]
      /\ redeclaring \in [Conns -> SUBSET Subs]
  OBVIOUS
<1>2. consumers \in [Conns -> [Subs -> Nat]]
  OBVIOUS
<1>3. subscribed \in SUBSET Subs /\ boot \in {"subscribing", "up", "exited"}
  OBVIOUS
<1> QED BY <1>1, <1>2, <1>3 DEF TypeOK, Calls

LEMMA LossCallsType ==
  ASSUME NEW c \in Conns PROVE LossCalls(c) \subseteq Calls
<1>1. <<c, "channel closed">> \in Calls /\ <<c, "redeclare failed">> \in Calls
      /\ <<c, "restore failed">> \in Calls
  BY DEF Calls, Reasons
<1> QED BY <1>1 DEF LossCalls

LEMMA NoConsumersType == NoConsumers \in [Subs -> Nat]
  BY DEF NoConsumers

LEMMA AddType ==
  ASSUME TypeOK, NEW c \in Conns, NEW s \in Subs, AddConsumer(c, s)
  PROVE  consumers' \in [Conns -> [Subs -> Nat]]
<1>1. [consumers[c] EXCEPT ![s] = @ + 1] \in [Subs -> Nat]
  BY DEF TypeOK
<1> QED BY <1>1 DEF TypeOK, AddConsumer

LEMMA ChannelGoesType ==
  ASSUME TypeOK, NEW c \in Conns, ChannelGoes(c)
  PROVE  /\ chan' \in [Conns -> {"none", "open", "closed"}]
         /\ consumers' \in [Conns -> [Subs -> Nat]]
         /\ redeclaring' \in [Conns -> SUBSET Subs]
         /\ pending' \in SUBSET Calls
         /\ boot' \in {"subscribing", "up", "exited"}
<1>1. pending' \in SUBSET Calls
  BY LossCallsType DEF ChannelGoes, TypeOK
<1> QED BY <1>1, NoConsumersType DEF ChannelGoes, TypeOK

LEMMA FaultType == TypeOK /\ Fault => faults' \in 0..MaxFaults
  BY BoundsAssumption DEF TypeOK, Fault

LEMMA SubscriptionStepType ==
  ASSUME TypeOK, NEW c \in Conns, NEW s \in Subs,
         \/ BeginSubscribe(s) \/ Subscribed(s, c) \/ Restore(s)
         \/ Redeclared(c, s) \/ ConsumerCancelled(c, s)
  PROVE  TypeOK'
<1>1. CASE BeginSubscribe(s)
  BY <1>1, BoundsAssumption DEF BeginSubscribe, Usable, TypeOK
<1>2. CASE Subscribed(s, c)
  <2>1. consumers' \in [Conns -> [Subs -> Nat]]
    BY <1>2, AddType DEF Subscribed
  <2> QED BY <1>2, <2>1 DEF Subscribed, TypeOK
<1>3. CASE Restore(s)
  <2>1. last \in Conns
    BY DEF TypeOK
  <2>2. consumers' \in [Conns -> [Subs -> Nat]]
    BY <1>3, <2>1, AddType DEF Restore
  <2> QED BY <1>3, <2>2 DEF Restore, TypeOK
<1>4. CASE Redeclared(c, s)
  <2>1. consumers' \in [Conns -> [Subs -> Nat]]
    BY <1>4, AddType DEF Redeclared
  <2> QED BY <1>4, <2>1 DEF Redeclared, TypeOK
<1>5. CASE ConsumerCancelled(c, s)
  <2>1. consumers[c][s] - 1 \in Nat
    BY <1>5 DEF ConsumerCancelled, TypeOK
  <2>2. [consumers[c] EXCEPT ![s] = @ - 1] \in [Subs -> Nat]
    BY <2>1 DEF TypeOK
  <2>3. consumers' \in [Conns -> [Subs -> Nat]]
    BY <1>5, <2>2 DEF ConsumerCancelled, TypeOK
  <2> QED BY ZenonT(30), <1>5, <2>3, FaultType DEF ConsumerCancelled, TypeOK
<1> QED BY <1>1, <1>2, <1>3, <1>4, <1>5

LEMMA ForceType ==
  ASSUME TypeOK, NEW c \in Conns, NEW why \in Reasons, ForceReconnect(c, why)
  PROVE  TypeOK'
<1>1. /\ conn' \in [Conns -> {"none", "open", "closing", "closed"}]
      /\ consumers' \in [Conns -> [Subs -> Nat]]
  BY ZenonT(30), NoConsumersType DEF ForceReconnect, TypeOK
<1>2. /\ current' \in 0..MaxConns
      /\ reconnect' \in {"idle", "connecting", "opening", "restoring"}
      /\ aborted' \in BOOLEAN
  BY Zero DEF ForceReconnect, HandleDisconnect, Disconnect, TypeOK
<1> QED BY <1>1, <1>2 DEF ForceReconnect, TypeOK

LEMMA ReconnectStepType ==
  ASSUME TypeOK, Connect \/ AbortConnect \/ OpenChannel \/ Shutdown
  PROVE  TypeOK'
<1>1. CASE Connect
  BY <1>1, BoundsAssumption DEF Connect, TypeOK
<1>2. CASE AbortConnect \/ Shutdown
  BY <1>2 DEF AbortConnect, Shutdown, TypeOK
<1>3. CASE OpenChannel
  BY <1>3 DEF OpenChannel, TypeOK
<1> QED BY <1>1, <1>2, <1>3

LEMMA LossType ==
  ASSUME TypeOK, NEW c \in Conns, ChannelCloses(c) \/ ConnectionCloses(c)
  PROVE  TypeOK'
<1>1. ChannelGoes(c)
  BY DEF ChannelCloses, ConnectionCloses
<1>2. /\ chan' \in [Conns -> {"none", "open", "closed"}]
      /\ consumers' \in [Conns -> [Subs -> Nat]]
      /\ redeclaring' \in [Conns -> SUBSET Subs]
      /\ pending' \in SUBSET Calls
      /\ boot' \in {"subscribing", "up", "exited"}
  BY <1>1, ChannelGoesType
<1>3. faults' \in 0..MaxFaults
  BY FaultType DEF ChannelCloses, ConnectionCloses, TypeOK
<1>4. conn' \in [Conns -> {"none", "open", "closing", "closed"}]
  BY DEF ChannelCloses, ConnectionCloses, TypeOK
<1>5. /\ current' \in 0..MaxConns
      /\ reconnect' \in {"idle", "connecting", "opening", "restoring"}
      /\ aborted' \in BOOLEAN
  BY Zero DEF ChannelCloses, ConnectionCloses, Disconnect, TypeOK
<1> QED BY <1>2, <1>3, <1>4, <1>5 DEF ChannelCloses, ConnectionCloses, TypeOK

\* The steps one by one, as the lemmas take them.
LEMMA StepCases ==
  ASSUME Next
  PROVE  \/ \E c \in Conns : ChannelCloses(c) \/ ConnectionCloses(c)
         \/ \E c \in Conns, why \in Reasons : ForceReconnect(c, why)
         \/ \E s \in Subs : BeginSubscribe(s) \/ Restore(s)
         \/ \E c \in Conns, s \in Subs :
               Subscribed(s, c) \/ Redeclared(c, s) \/ ConsumerCancelled(c, s)
         \/ Connect \/ AbortConnect \/ OpenChannel \/ Shutdown
  BY DEF Next, Own

LEMMA NextType == TypeOK /\ [Next]_vars => TypeOK'
<1> SUFFICES ASSUME TypeOK, [Next]_vars PROVE TypeOK'
  OBVIOUS
<1>1. CASE UNCHANGED vars
  BY <1>1 DEF vars, TypeOK
<1>2. CASE Next
  BY <1>2, StepCases, LossType, ForceType, SubscriptionStepType, ReconnectStepType, Zero
<1> QED BY <1>1, <1>2

\* Every variable of a receiver keeps its type, booting or booted.
THEOREM ReceiverTypeCorrect == Spec => []TypeOK
  BY InitType, NextType, PTL DEF Spec
-----------------------------------------------------------------------------
(* The inductive invariant, step by step *)

Rest == BootedForGood /\ CurrentIsLatest /\ ClosedChannelsAreSilent /\ DeclaredOnce /\ Covered

LEMMA InitRest ==
  ASSUME Booted, Init PROVE Rest
<1> USE Zero DEF Init
<1>1. BootedForGood /\ CurrentIsLatest
  BY DEF BootedForGood, CurrentIsLatest
<1>2. ClosedChannelsAreSilent
  BY DEF ClosedChannelsAreSilent, NoConsumers
<1>3. DeclaredOnce /\ Covered
  BY DEF DeclaredOnce, OneConsumerPerChannel, Covered
<1> QED BY <1>1, <1>2, <1>3 DEF Rest

\* What a lost channel changes, function by function.
LEMMA Loss ==
  ASSUME TypeOK, Rest, NEW c \in Conns, ChannelGoes(c)
  PROVE  /\ chan'[c] = "closed" /\ consumers'[c] = NoConsumers /\ redeclaring'[c] = {}
         /\ \A d \in Conns : d # c => /\ chan'[d] = chan[d]
                                      /\ consumers'[d] = consumers[d]
                                      /\ redeclaring'[d] = redeclaring[d]
         /\ \A d \in Conns, why \in Reasons :
               <<d, why>> \in pending' => <<d, why>> \in pending \/ d = c
         /\ \A d \in Conns, why \in Reasons : <<d, why>> \in pending => <<d, why>> \in pending'
         /\ chan[c] = "open" => <<c, "channel closed">> \in pending'
         /\ boot' = boot
<1>1. \A d, why : <<d, why>> \in LossCalls(c) => d = c
  BY DEF LossCalls
<1>2. <<c, "channel closed">> \in LossCalls(c)
  BY DEF LossCalls
<1>3. subscribing = {}
  BY DEF Rest, BootedForGood
<1>4. /\ chan'[c] = "closed" /\ consumers'[c] = NoConsumers /\ redeclaring'[c] = {}
      /\ \A d \in Conns : d # c => /\ chan'[d] = chan[d]
                                   /\ consumers'[d] = consumers[d]
                                   /\ redeclaring'[d] = redeclaring[d]
  BY DEF ChannelGoes, TypeOK
<1> QED BY <1>1, <1>2, <1>3, <1>4 DEF ChannelGoes

\* The same subscription by subscription: consumers go, none comes.
LEMMA LossPoints ==
  ASSUME TypeOK, Rest, NEW c \in Conns, ChannelGoes(c), NEW d \in Conns, NEW s \in Subs
  PROVE  /\ consumers'[d][s] = 0 \/ consumers'[d][s] = consumers[d][s]
         /\ s \in redeclaring'[d] => s \in redeclaring[d] /\ d # c
         /\ d # c => /\ consumers'[d][s] = consumers[d][s]
                     /\ s \in redeclaring[d] => s \in redeclaring'[d]
<1>1. NoConsumers[s] = 0
  BY DEF NoConsumers
<1>2. CASE d = c
  BY <1>1, <1>2, Loss
<1>3. CASE d # c
  BY <1>3, Loss
<1> QED BY <1>2, <1>3

LEMMA LossDeclared ==
  ASSUME TypeOK, Rest, NEW c \in Conns, ChannelGoes(c), last' = last, todo' = todo,
         reconnect' = "restoring" => reconnect = "restoring" /\ c # last
  PROVE  DeclaredOnce'
<1>1. last \in Conns /\ todo \subseteq Subs
  BY DEF TypeOK
<1>2. ASSUME NEW d \in Conns, NEW s \in Subs
      PROVE  /\ consumers'[d][s] <= 1
             /\ s \in redeclaring'[d] => consumers'[d][s] = 0
  <2>1. consumers[d][s] <= 1 /\ (s \in redeclaring[d] => consumers[d][s] = 0)
    BY DEF Rest, DeclaredOnce, OneConsumerPerChannel
  <2>2. consumers'[d][s] = 0 \/ consumers'[d][s] = consumers[d][s]
    BY LossPoints
  <2>3. s \in redeclaring'[d] => s \in redeclaring[d]
    BY LossPoints
  <2>4. consumers'[d][s] <= 1
    <3>1. CASE consumers'[d][s] = 0
      BY <3>1
    <3>2. CASE consumers'[d][s] = consumers[d][s]
      BY <3>2, <2>1
    <3> QED BY <3>1, <3>2, <2>2
  <2> QED BY <2>1, <2>2, <2>3, <2>4
<1>3. ASSUME reconnect' = "restoring", NEW s \in todo
      PROVE  consumers'[last][s] = 0 /\ s \notin redeclaring'[last]
  <2>1. s \in Subs /\ reconnect = "restoring" /\ c # last
    BY <1>1, <1>3
  <2>2. consumers[last][s] = 0 /\ s \notin redeclaring[last]
    BY <1>3, <2>1 DEF Rest, DeclaredOnce
  <2>3. consumers'[last][s] = consumers[last][s] /\ (s \in redeclaring'[last] => s \in redeclaring[last])
    BY <1>1, <2>1, LossPoints
  <2> QED BY <2>2, <2>3
<1>4. OneConsumerPerChannel'
  BY <1>2 DEF OneConsumerPerChannel
<1> QED BY <1>2, <1>3, <1>4 DEF DeclaredOnce

\* A channel that is not the current one may go: the current one stays covered.
LEMMA LossElsewhere ==
  ASSUME TypeOK, Rest, NEW c \in Conns, ChannelGoes(c), c # last,
         UNCHANGED <<last, todo, current, reconnect, aborted, stopped>>,
         conn'[last] = conn[last]
  PROVE  Covered'
<1>1. last \in Conns /\ current \in {0, last}
  BY DEF TypeOK, Rest, CurrentIsLatest
<1>2. (aborted => stopped) /\ (reconnect = "idle" /\ current = 0 => stopped)
  BY DEF Rest, Covered
<1>3. ASSUME NEW s \in Subs, s \in redeclaring[last] \/ consumers[last][s] > 0
      PROVE  s \in redeclaring'[last] \/ consumers'[last][s] > 0
  BY <1>1, <1>3, LossPoints
<1>4. ASSUME reconnect = "restoring", NEW s \in Subs
      PROVE  s \in todo \cup redeclaring'[last] \/ consumers'[last][s] > 0
  <2>1. s \in todo \cup redeclaring[last] \/ consumers[last][s] > 0
    BY <1>4 DEF Rest, Covered
  <2> QED BY <2>1, <1>3
<1>5. ASSUME reconnect = "idle", current # 0
      PROVE  \/ conn'[current] = "closing"
             \/ \E why \in Reasons : <<current, why>> \in pending'
             \/ \A s \in Subs : s \in redeclaring'[current] \/ consumers'[current][s] > 0
  <2>1. current = last
    BY <1>1, <1>5
  <2>2. \/ conn[last] = "closing"
        \/ \E why \in Reasons : <<last, why>> \in pending
        \/ \A s \in Subs : s \in redeclaring[last] \/ consumers[last][s] > 0
    BY <1>5, <2>1 DEF Rest, Covered
  <2>3. CASE conn[last] = "closing"
    BY <2>1, <2>3
  <2>4. CASE \E why \in Reasons : <<last, why>> \in pending
    BY <2>1, <2>4, <1>1, Loss
  <2>5. CASE \A s \in Subs : s \in redeclaring[last] \/ consumers[last][s] > 0
    BY <2>1, <2>5, <1>3
  <2> QED BY <2>2, <2>3, <2>4, <2>5
<1> QED BY <1>2, <1>4, <1>5 DEF Covered

LEMMA ChannelClosesRest ==
  ASSUME TypeOK, Rest, NEW c \in Conns, ChannelCloses(c)
  PROVE  Rest'
<1>1. ChannelGoes(c) /\ chan[c] = "open" /\ conn[c] = "open"
  BY DEF ChannelCloses, Usable
<1>2. UNCHANGED <<conn, last, current, todo, subscribed, subscribing, aborted, stopped>>
  BY DEF ChannelCloses
<1>3. /\ reconnect = "restoring" /\ c = last => reconnect' = "idle"
      /\ ~(reconnect = "restoring" /\ c = last) => reconnect' = reconnect
  BY DEF ChannelCloses
<1>4. last \in Conns /\ "channel closed" \in Reasons
  BY DEF TypeOK, Reasons
<1>5. BootedForGood'
  BY Loss, <1>1, <1>2 DEF Rest, BootedForGood
<1>6. CurrentIsLatest'
  BY ZenonT(30), Loss, <1>1, <1>2, <1>3, <1>4 DEF Rest, CurrentIsLatest
<1>7. ClosedChannelsAreSilent'
  <2>1. \A d \in Conns : chan[d] # "open" => consumers[d] = NoConsumers /\ redeclaring[d] = {}
    BY DEF Rest, ClosedChannelsAreSilent
  <2>2. \A d \in Conns, why \in Reasons : <<d, why>> \in pending => chan[d] = "closed"
    BY DEF Rest, ClosedChannelsAreSilent
  <2>3. \A d \in Conns : conn[d] \in {"closing", "closed"} => chan[d] = "closed"
    BY DEF Rest, ClosedChannelsAreSilent
  <2>4. /\ chan'[c] = "closed" /\ consumers'[c] = NoConsumers /\ redeclaring'[c] = {}
        /\ \A d \in Conns : d # c => /\ chan'[d] = chan[d]
                                     /\ consumers'[d] = consumers[d]
                                     /\ redeclaring'[d] = redeclaring[d]
        /\ \A d \in Conns, why \in Reasons :
              <<d, why>> \in pending' => <<d, why>> \in pending \/ d = c
    BY <1>1, Loss
  <2> QED BY <1>2, <2>1, <2>2, <2>3, <2>4 DEF ClosedChannelsAreSilent
<1>8. DeclaredOnce'
  BY LossDeclared, <1>1, <1>2, <1>3
<1>9. Covered'
  <2>1. CASE c = last
    <3>1. <<last, "channel closed">> \in pending'
      BY <1>1, <2>1, Loss
    <3>2. reconnect' # "restoring"
      BY <1>3, <2>1
    <3>3. current \in {0, last}
      BY DEF Rest, CurrentIsLatest
    <3>4. reconnect' = "idle" /\ current = 0 => stopped
      BY <1>3 DEF Rest, Covered, CurrentIsLatest
    <3> QED BY <3>1, <3>2, <3>3, <3>4, <1>2, <1>4 DEF Rest, Covered
  <2>2. CASE c # last
    BY <1>1, <1>2, <1>3, <2>2, LossElsewhere
  <2> QED BY <2>1, <2>2
<1> QED BY <1>5, <1>6, <1>7, <1>8, <1>9 DEF Rest

LEMMA ConnectionClosesRest ==
  ASSUME TypeOK, Rest, NEW c \in Conns, ConnectionCloses(c)
  PROVE  Rest'
<1>1. ChannelGoes(c) /\ conn[c] \in {"open", "closing"} /\ conn'[c] = "closed"
  BY DEF ConnectionCloses, TypeOK
<1>2. UNCHANGED <<last, todo, subscribed, subscribing, stopped>>
  BY DEF ConnectionCloses
<1>3. \A d \in Conns : d # c => conn'[d] = conn[d]
  BY DEF ConnectionCloses, TypeOK
<1>4. last \in Conns /\ "channel closed" \in Reasons
  BY DEF TypeOK, Reasons
<1>5. BootedForGood'
  BY Loss, <1>1, <1>2 DEF Rest, BootedForGood
<1> DEFINE NoneBeyond == \A d \in Conns : d > last => conn'[d] = "none" /\ chan'[d] = "none"
<1>11. NoneBeyond
  <2> SUFFICES ASSUME NEW d \in Conns, d > last PROVE conn'[d] = "none" /\ chan'[d] = "none"
    OBVIOUS
  <2>1. conn[d] = "none" /\ chan[d] = "none"
    BY DEF Rest, CurrentIsLatest
  <2>2. d # c
    BY <1>1, <2>1
  <2> QED BY <1>1, <1>3, <2>1, <2>2, Loss
<1> HIDE DEF NoneBeyond
<1>6. ClosedChannelsAreSilent'
  BY ZenonT(30), Loss, <1>1, <1>2, <1>3 DEF Rest, ClosedChannelsAreSilent
<1>7. CASE reconnect = "idle"
  <2>1. current' = 0 /\ reconnect' = "connecting" /\ aborted' = FALSE
    BY <1>7 DEF ConnectionCloses, Disconnect
  <2>2. CurrentIsLatest'
    BY <1>2, <1>11, <2>1 DEF CurrentIsLatest, NoneBeyond
  <2>3. DeclaredOnce'
    BY <1>1, <1>2, <2>1, LossDeclared
  <2>4. Covered'
    BY <2>1 DEF Covered
  <2> QED BY <1>5, <1>6, <2>2, <2>3, <2>4 DEF Rest
<1>8. CASE reconnect = "opening" /\ c = last
  <2>1. reconnect' = "connecting" /\ UNCHANGED <<current, aborted>>
    BY <1>8 DEF ConnectionCloses
  <2>2. CurrentIsLatest'
    BY <1>2, <1>8, <1>11, <2>1 DEF Rest, CurrentIsLatest, NoneBeyond
  <2>3. DeclaredOnce'
    BY <1>1, <1>2, <2>1, LossDeclared
  <2>4. Covered'
    BY <1>2, <2>1 DEF Rest, Covered
  <2> QED BY <1>5, <1>6, <2>2, <2>3, <2>4 DEF Rest
<1>9. CASE reconnect = "restoring" /\ c = last
  <2>1. reconnect' = "idle" /\ UNCHANGED <<current, aborted>>
    BY <1>9 DEF ConnectionCloses
  <2>2. current = last /\ chan[c] = "open"
    BY <1>9 DEF Rest, CurrentIsLatest
  <2>3. CurrentIsLatest'
    BY <1>2, <1>11, <2>1, <2>2 DEF CurrentIsLatest, NoneBeyond
  <2>4. DeclaredOnce'
    BY <1>1, <1>2, <2>1, LossDeclared
  <2>5. Covered'
    <3>1. <<current, "channel closed">> \in pending'
      BY <1>1, <1>9, <2>2, Loss
    <3>2. current # 0
      <4>1. last \in Conns /\ current = last
        BY <1>4, <2>2
      <4> QED BY <4>1, BoundsAssumption
    <3> QED BY <1>2, <1>4, <2>1, <3>1, <3>2 DEF Rest, Covered
  <2> QED BY <1>5, <1>6, <2>3, <2>4, <2>5 DEF Rest
<1>10. CASE reconnect = "connecting" \/ (reconnect # "idle" /\ c # last)
  <2>1. UNCHANGED <<current, reconnect, aborted>>
    BY <1>10 DEF ConnectionCloses
  <2>2. CurrentIsLatest'
    <3>1. c # last => chan'[last] = chan[last]
      BY <1>1, <1>4, Loss
    <3> QED BY <1>2, <1>10, <1>11, <2>1, <3>1 DEF Rest, CurrentIsLatest, NoneBeyond
  <2>3. DeclaredOnce'
    BY <1>1, <1>2, <1>10, <2>1, LossDeclared
  <2>4. Covered'
    <3>1. CASE reconnect = "connecting"
      BY <1>2, <2>1, <3>1 DEF Rest, Covered
    <3>2. CASE c # last
      BY <1>1, <1>2, <1>3, <1>4, <2>1, <3>2, LossElsewhere
    <3> QED BY <1>10, <3>1, <3>2
  <2> QED BY <1>5, <1>6, <2>2, <2>3, <2>4 DEF Rest
<1> QED BY <1>7, <1>8, <1>9, <1>10 DEF ConnectionCloses

LEMMA ForceReconnectRest ==
  ASSUME TypeOK, Rest, NEW c \in Conns, NEW why \in Reasons, ForceReconnect(c, why)
  PROVE  Rest'
<1>1. /\ UNCHANGED <<chan, last, todo, redeclaring, subscribed, subscribing, boot, stopped>>
      /\ <<c, why>> \in pending /\ pending' = pending \ {<<c, why>>}
  BY DEF ForceReconnect
<1>2. chan[c] = "closed" /\ consumers[c] = NoConsumers
  BY <1>1 DEF Rest, ClosedChannelsAreSilent
<1>3. consumers' = consumers
  BY <1>2 DEF ForceReconnect, TypeOK
<1>4. c = current => reconnect = "idle" /\ c = last
  BY <1>2, BoundsAssumption DEF Rest, CurrentIsLatest, TypeOK
<1>5. BootedForGood'
  BY <1>1 DEF Rest, BootedForGood
<1>6. CASE c = current /\ conn[c] = "open"
  <2>1. UNCHANGED <<current, reconnect, aborted>> /\ conn' = [conn EXCEPT ![c] = "closing"]
    BY <1>6 DEF ForceReconnect
  <2>2. conn'[c] = "closing" /\ \A d \in Conns : d # c => conn'[d] = conn[d]
    BY <2>1 DEF TypeOK
  <2>3. CurrentIsLatest'
    BY <1>1, <1>4, <1>6, <2>1, <2>2, BoundsAssumption DEF Rest, CurrentIsLatest, TypeOK
  <2>4. ClosedChannelsAreSilent'
    BY <1>1, <1>2, <1>3, <2>2 DEF Rest, ClosedChannelsAreSilent
  <2>5. DeclaredOnce'
    BY <1>1, <1>3, <2>1 DEF Rest, DeclaredOnce, OneConsumerPerChannel
  <2>6. Covered'
    BY <1>1, <1>4, <1>6, <2>1, <2>2 DEF Rest, Covered
  <2> QED BY <1>5, <2>3, <2>4, <2>5, <2>6 DEF Rest
<1>7. CASE c = current /\ conn[c] # "open"
  <2>1. current' = 0 /\ reconnect' = "connecting" /\ aborted' = FALSE /\ conn' = conn
    BY <1>4, <1>7 DEF ForceReconnect, HandleDisconnect, Disconnect
  <2>2. CurrentIsLatest'
    BY <1>1, <2>1 DEF Rest, CurrentIsLatest
  <2>3. ClosedChannelsAreSilent'
    BY <1>1, <1>3, <2>1 DEF Rest, ClosedChannelsAreSilent
  <2>4. DeclaredOnce'
    BY <1>1, <1>3, <2>1 DEF Rest, DeclaredOnce, OneConsumerPerChannel
  <2>5. Covered'
    BY <2>1 DEF Covered
  <2> QED BY <1>5, <2>2, <2>3, <2>4, <2>5 DEF Rest
<1>8. CASE c # current
  <2>1. UNCHANGED <<conn, current, reconnect, aborted>>
    BY <1>8 DEF ForceReconnect
  <2>2. CurrentIsLatest'
    BY <1>1, <2>1 DEF Rest, CurrentIsLatest
  <2>3. ClosedChannelsAreSilent'
    BY <1>1, <1>3, <2>1 DEF Rest, ClosedChannelsAreSilent
  <2>4. DeclaredOnce'
    BY <1>1, <1>3, <2>1 DEF Rest, DeclaredOnce, OneConsumerPerChannel
  <2>5. \A w \in Reasons : <<current, w>> \in pending => <<current, w>> \in pending'
    BY <1>1, <1>8
  <2>6. Covered'
    BY <1>1, <1>3, <2>1, <2>5 DEF Rest, Covered
  <2> QED BY <1>5, <2>2, <2>3, <2>4, <2>6 DEF Rest
<1> QED BY <1>6, <1>7, <1>8

\* What a new consumer changes, subscription by subscription.
LEMMA AddPoints ==
  ASSUME TypeOK, NEW c \in Conns, NEW s \in Subs, AddConsumer(c, s)
  PROVE  /\ consumers'[c][s] = consumers[c][s] + 1
         /\ \A d \in Conns : d # c => consumers'[d] = consumers[d]
         /\ \A d \in Conns, r \in Subs : d # c \/ r # s => consumers'[d][r] = consumers[d][r]
         /\ \A d \in Conns, r \in Subs : consumers[d][r] > 0 => consumers'[d][r] > 0
<1>1. /\ consumers'[c][s] = consumers[c][s] + 1
      /\ \A d \in Conns : d # c => consumers'[d] = consumers[d]
      /\ \A r \in Subs : r # s => consumers'[c][r] = consumers[c][r]
  BY DEF AddConsumer, TypeOK
<1>2. \A d \in Conns, r \in Subs : consumers[d][r] \in Nat
  BY DEF TypeOK
<1> QED BY <1>1, <1>2

\* A consumer that takes the place of a declare in progress.
LEMMA AddDeclared ==
  ASSUME TypeOK, Rest, NEW c \in Conns, NEW s \in Subs, AddConsumer(c, s), last' = last,
         consumers[c][s] = 0, s \notin redeclaring'[c],
         \A d \in Conns : redeclaring'[d] \subseteq redeclaring[d],
         reconnect' = "restoring" => /\ reconnect = "restoring"
                                     /\ todo' \subseteq todo
                                     /\ c = last => s \notin todo'
  PROVE  DeclaredOnce'
<1>1. last \in Conns /\ todo \subseteq Subs
  BY DEF TypeOK
<1>2. ASSUME NEW d \in Conns, NEW r \in Subs
      PROVE  /\ consumers'[d][r] <= 1
             /\ r \in redeclaring'[d] => consumers'[d][r] = 0
  <2>1. CASE d = c /\ r = s
    BY <2>1, AddPoints
  <2>2. CASE d # c \/ r # s
    <3>1. consumers'[d][r] = consumers[d][r] /\ (r \in redeclaring'[d] => r \in redeclaring[d])
      BY <2>2, AddPoints
    <3> QED BY <3>1 DEF Rest, DeclaredOnce, OneConsumerPerChannel
  <2> QED BY <2>1, <2>2
<1>3. ASSUME reconnect' = "restoring", NEW r \in todo'
      PROVE  consumers'[last][r] = 0 /\ r \notin redeclaring'[last]
  <2>1. r \in todo /\ r \in Subs /\ reconnect = "restoring" /\ (c # last \/ r # s)
    BY <1>1, <1>3
  <2>2. consumers[last][r] = 0 /\ r \notin redeclaring[last]
    BY <2>1 DEF Rest, DeclaredOnce
  <2> QED BY <1>1, <2>1, <2>2, AddPoints
<1>4. OneConsumerPerChannel'
  BY <1>2 DEF OneConsumerPerChannel
<1> QED BY <1>2, <1>3, <1>4 DEF DeclaredOnce

LEMMA RedeclaredRest ==
  ASSUME TypeOK, Rest, NEW c \in Conns, NEW s \in Subs, Redeclared(c, s)
  PROVE  Rest'
<1>1. /\ UNCHANGED <<conn, chan, last, current, reconnect, todo, pending, subscribed,
                     subscribing, boot, aborted, stopped>>
      /\ AddConsumer(c, s) /\ chan[c] = "open" /\ s \in redeclaring[c]
  BY DEF Redeclared, Usable
<1>2. /\ redeclaring'[c] = redeclaring[c] \ {s}
      /\ \A d \in Conns : d # c => redeclaring'[d] = redeclaring[d]
  BY DEF Redeclared, TypeOK
<1>3. last \in Conns
  BY DEF TypeOK
<1>4. consumers[c][s] = 0 /\ (reconnect = "restoring" /\ c = last => s \notin todo)
  BY <1>1 DEF Rest, DeclaredOnce
<1>5. consumers'[c][s] = 1
  BY <1>1, <1>4, AddPoints
<1>6. BootedForGood' /\ CurrentIsLatest'
  BY <1>1 DEF Rest, BootedForGood, CurrentIsLatest
<1>7. ClosedChannelsAreSilent'
  BY <1>1, <1>2, AddPoints DEF Rest, ClosedChannelsAreSilent
<1>8. DeclaredOnce'
  BY <1>1, <1>2, <1>4, AddDeclared
<1>9. \A d \in Conns, r \in Subs :
         r \in redeclaring[d] \/ consumers[d][r] > 0 => r \in redeclaring'[d] \/ consumers'[d][r] > 0
  BY <1>1, <1>2, <1>5, AddPoints
<1>10. current = 0 \/ current = last
  BY DEF Rest, CurrentIsLatest
<1>11. Covered'
  BY <1>1, <1>3, <1>9, <1>10 DEF Rest, Covered
<1> QED BY <1>6, <1>7, <1>8, <1>11 DEF Rest

LEMMA ConsumerCancelledRest ==
  ASSUME TypeOK, Rest, NEW c \in Conns, NEW s \in Subs, ConsumerCancelled(c, s)
  PROVE  Rest'
<1>1. /\ UNCHANGED <<conn, chan, last, current, reconnect, todo, pending, subscribed,
                     subscribing, boot, aborted, stopped>>
      /\ chan[c] = "open" /\ consumers[c][s] > 0
  BY DEF ConsumerCancelled, Usable
<1>2. last \in Conns /\ todo \subseteq Subs /\ consumers[c][s] \in Nat
  BY DEF TypeOK
<1>3. consumers[c][s] = 1 /\ (reconnect = "restoring" /\ c = last => s \notin todo)
  BY <1>1, <1>2 DEF Rest, DeclaredOnce, OneConsumerPerChannel
<1>4. /\ consumers'[c][s] = 0
      /\ \A d \in Conns : d # c => consumers'[d] = consumers[d]
      /\ \A d \in Conns, r \in Subs : d # c \/ r # s => consumers'[d][r] = consumers[d][r]
  <2>1. consumers' = [consumers EXCEPT ![c] = [consumers[c] EXCEPT ![s] = consumers[c][s] - 1]]
    BY DEF ConsumerCancelled
  <2>2. /\ consumers'[c] = [consumers[c] EXCEPT ![s] = consumers[c][s] - 1]
        /\ \A d \in Conns : d # c => consumers'[d] = consumers[d]
    BY <2>1 DEF TypeOK
  <2>3. consumers'[c][s] = consumers[c][s] - 1 /\ \A r \in Subs : r # s => consumers'[c][r] = consumers[c][r]
    BY <2>2 DEF TypeOK
  <2>4. consumers'[c][s] = 0
    BY <1>3, <2>3
  <2>5. ASSUME NEW d \in Conns, NEW r \in Subs, d # c \/ r # s
        PROVE  consumers'[d][r] = consumers[d][r]
    BY <2>2, <2>3, <2>5
  <2> QED BY <2>2, <2>4, <2>5
<1>5. /\ \A d \in Conns : d # c => redeclaring'[d] = redeclaring[d]
      /\ \A r \in Subs : r # s => (r \in redeclaring'[c] <=> r \in redeclaring[c])
      /\ c = current => s \in redeclaring'[c]
  BY DEF ConsumerCancelled, TypeOK
<1>6. current = 0 \/ current = last
  BY DEF Rest, CurrentIsLatest
<1>7. BootedForGood' /\ CurrentIsLatest'
  BY <1>1 DEF Rest, BootedForGood, CurrentIsLatest
<1>8. ClosedChannelsAreSilent'
  BY <1>1, <1>4, <1>5 DEF Rest, ClosedChannelsAreSilent
<1>9. DeclaredOnce'
  <2>1. ASSUME NEW d \in Conns, NEW r \in Subs
        PROVE  /\ consumers'[d][r] <= 1
               /\ r \in redeclaring'[d] => consumers'[d][r] = 0
    <3>1. CASE d = c /\ r = s
      BY <1>4, <3>1
    <3>2. CASE d # c \/ r # s
      <4>1. consumers'[d][r] = consumers[d][r] /\ (r \in redeclaring'[d] => r \in redeclaring[d])
        BY <1>4, <1>5, <3>2
      <4> QED BY <4>1 DEF Rest, DeclaredOnce, OneConsumerPerChannel
    <3> QED BY <3>1, <3>2
  <2>2. ASSUME reconnect = "restoring", NEW r \in todo
        PROVE  consumers'[last][r] = 0 /\ r \notin redeclaring'[last]
    <3>1. r \in Subs /\ (last # c \/ r # s)
      BY <1>2, <1>3, <2>2
    <3>2. consumers[last][r] = 0 /\ r \notin redeclaring[last]
      BY <2>2 DEF Rest, DeclaredOnce
    <3> QED BY <1>2, <1>4, <1>5, <3>1, <3>2
  <2>3. OneConsumerPerChannel'
    BY <2>1 DEF OneConsumerPerChannel
  <2> QED BY <1>1, <2>1, <2>2, <2>3 DEF DeclaredOnce
<1>10. ASSUME current = last, NEW r \in Subs, r \in redeclaring[last] \/ consumers[last][r] > 0
       PROVE  r \in redeclaring'[last] \/ consumers'[last][r] > 0
  <2>1. CASE last = c /\ r = s
    BY <1>5, <1>10, <2>1
  <2>2. CASE last # c \/ r # s
    BY <1>2, <1>4, <1>5, <1>10, <2>2
  <2> QED BY <2>1, <2>2
<1>11. Covered'
  <2>1. ASSUME reconnect = "restoring", NEW r \in Subs
        PROVE  r \in todo \cup redeclaring'[last] \/ consumers'[last][r] > 0
    <3>1. current = last /\ (r \in todo \cup redeclaring[last] \/ consumers[last][r] > 0)
      BY <2>1 DEF Rest, Covered, CurrentIsLatest
    <3> QED BY <1>10, <3>1
  <2>2. ASSUME reconnect = "idle", current # 0,
               \A r \in Subs : r \in redeclaring[current] \/ consumers[current][r] > 0
        PROVE  \A r \in Subs : r \in redeclaring'[current] \/ consumers'[current][r] > 0
    BY <1>6, <1>10, <2>2
  <2> QED BY <1>1, <2>1, <2>2 DEF Rest, Covered
<1> QED BY <1>7, <1>8, <1>9, <1>11 DEF Rest

LEMMA RestoreRest ==
  ASSUME TypeOK, Rest, NEW s \in Subs, Restore(s)
  PROVE  Rest'
<1>1. /\ UNCHANGED <<conn, chan, last, current, redeclaring, pending, subscribed,
                     subscribing, boot, aborted, stopped>>
      /\ AddConsumer(last, s) /\ reconnect = "restoring" /\ s \in todo
      /\ todo' = todo \ {s}
      /\ reconnect' = IF todo' = {} THEN "idle" ELSE "restoring"
  BY DEF Restore
<1>2. last \in Conns
  BY DEF TypeOK
<1>3. current = last /\ chan[last] = "open"
  BY <1>1 DEF Rest, CurrentIsLatest
<1>4. consumers[last][s] = 0 /\ s \notin redeclaring[last]
  BY <1>1 DEF Rest, DeclaredOnce
<1>5. consumers'[last][s] = 1
  BY <1>1, <1>2, <1>4, AddPoints
<1>6. BootedForGood' /\ CurrentIsLatest'
  BY <1>1, <1>3 DEF Rest, BootedForGood, CurrentIsLatest
<1>7. ClosedChannelsAreSilent'
  BY <1>1, <1>2, <1>3, AddPoints DEF Rest, ClosedChannelsAreSilent
<1>8. DeclaredOnce'
  BY <1>1, <1>2, <1>4, AddDeclared
<1>9. \A r \in Subs : r \in todo' \cup redeclaring[last] \/ consumers'[last][r] > 0
  <2> SUFFICES ASSUME NEW r \in Subs PROVE r \in todo' \cup redeclaring[last] \/ consumers'[last][r] > 0
    OBVIOUS
  <2>1. r \in todo \cup redeclaring[last] \/ consumers[last][r] > 0
    BY <1>1 DEF Rest, Covered
  <2>2. CASE r = s
    BY <1>5, <2>2
  <2>3. CASE r # s
    BY <1>1, <1>2, <2>1, <2>3, AddPoints
  <2> QED BY <2>2, <2>3
<1>10. current # 0
  BY <1>2, <1>3, BoundsAssumption
<1>11. Covered'
  BY <1>1, <1>3, <1>9, <1>10 DEF Rest, Covered
<1> QED BY <1>6, <1>7, <1>8, <1>11 DEF Rest

LEMMA ReconnectStepRest ==
  ASSUME TypeOK, Rest, Connect \/ AbortConnect \/ OpenChannel \/ Shutdown
  PROVE  Rest'
<1>1. last \in Conns
  BY DEF TypeOK
<1>2. CASE Connect
  <2>1. /\ UNCHANGED <<chan, consumers, current, redeclaring, pending, subscribed,
                       subscribing, boot, aborted, stopped>>
        /\ reconnect = "connecting" /\ reconnect' = "opening" /\ last' = last + 1
        /\ last' \in Conns
    BY <1>1, <1>2, BoundsAssumption DEF Connect
  <2>2. /\ conn'[last'] = "open"
        /\ \A d \in Conns : d # last' => conn'[d] = conn[d]
    BY <1>2, <2>1 DEF Connect, TypeOK
  <2>3. current = 0 /\ chan[last'] = "none"
    BY <1>1, <2>1, BoundsAssumption DEF Rest, CurrentIsLatest
  <2>4. \A d \in Conns : d > last' => d > last
    BY <1>1, <2>1, BoundsAssumption
  <2>5. \A d \in Conns : d > last' => conn'[d] = "none" /\ chan[d] = "none"
    BY <1>1, <2>1, <2>2, <2>4, BoundsAssumption DEF Rest, CurrentIsLatest
  <2>6. CurrentIsLatest'
    BY <2>1, <2>3, <2>5 DEF CurrentIsLatest
  <2>7. BootedForGood'
    BY <2>1 DEF Rest, BootedForGood
  <2>8. ClosedChannelsAreSilent'
    BY <2>1, <2>2 DEF Rest, ClosedChannelsAreSilent
  <2>9. DeclaredOnce' /\ Covered'
    BY <2>1 DEF Rest, DeclaredOnce, OneConsumerPerChannel, Covered
  <2> QED BY <2>6, <2>7, <2>8, <2>9 DEF Rest
<1>3. CASE AbortConnect
  <2>1. /\ UNCHANGED <<conn, chan, last, consumers, current, todo, redeclaring, pending,
                       subscribed, subscribing, boot, aborted, stopped>>
        /\ reconnect = "connecting" /\ reconnect' = "idle" /\ aborted
    BY <1>3 DEF AbortConnect
  <2>2. BootedForGood' /\ CurrentIsLatest' /\ ClosedChannelsAreSilent'
    BY <2>1 DEF Rest, BootedForGood, CurrentIsLatest, ClosedChannelsAreSilent
  <2>3. DeclaredOnce'
    BY <2>1 DEF Rest, DeclaredOnce, OneConsumerPerChannel
  <2>4. current = 0 /\ stopped
    BY <2>1 DEF Rest, CurrentIsLatest, Covered
  <2>5. Covered'
    BY <2>1, <2>4 DEF Covered
  <2> QED BY <2>2, <2>3, <2>5 DEF Rest
<1>4. CASE OpenChannel
  <2>1. /\ UNCHANGED <<conn, last, consumers, redeclaring, pending, subscribed, subscribing,
                       boot, aborted, stopped>>
        /\ reconnect = "opening" /\ current' = last /\ todo' = Subs
        /\ reconnect' = IF Subs = {} THEN "idle" ELSE "restoring"
    BY <1>4 DEF OpenChannel, Rest, BootedForGood
  <2>2. chan'[last] = "open" /\ \A d \in Conns : d # last => chan'[d] = chan[d]
    BY <1>1, <1>4 DEF OpenChannel, TypeOK
  <2>3. chan[last] = "none"
    BY <2>1 DEF Rest, CurrentIsLatest
  <2>4. consumers[last] = NoConsumers /\ redeclaring[last] = {}
    BY <1>1, <2>3 DEF Rest, ClosedChannelsAreSilent
  <2>5. BootedForGood'
    BY <2>1 DEF Rest, BootedForGood
  <2>6. CurrentIsLatest'
    <3>1. \A d \in Conns : d > last => conn[d] = "none" /\ chan'[d] = "none"
      BY <1>1, <2>2, BoundsAssumption DEF Rest, CurrentIsLatest
    <3> QED BY <2>1, <2>2, <3>1 DEF CurrentIsLatest
  <2>7. ClosedChannelsAreSilent'
    BY <2>1, <2>2, <2>3 DEF Rest, ClosedChannelsAreSilent
  <2>8. DeclaredOnce'
    <3>1. \A s \in Subs : consumers[last][s] = 0 /\ s \notin redeclaring[last]
      BY <2>4 DEF NoConsumers
    <3> QED BY <2>1, <3>1 DEF Rest, DeclaredOnce, OneConsumerPerChannel
  <2>9. Covered'
    <3>1. current' # 0
      BY <1>1, <2>1, BoundsAssumption
    <3> QED BY <2>1, <3>1 DEF Rest, Covered
  <2> QED BY <2>5, <2>6, <2>7, <2>8, <2>9 DEF Rest
<1>5. CASE Shutdown
  <2>1. /\ UNCHANGED <<conn, chan, last, consumers, current, reconnect, todo, redeclaring,
                       pending, subscribed, subscribing, boot>>
        /\ stopped' = TRUE
    BY <1>5 DEF Shutdown
  <2>2. BootedForGood' /\ CurrentIsLatest' /\ ClosedChannelsAreSilent'
    BY <2>1 DEF Rest, BootedForGood, CurrentIsLatest, ClosedChannelsAreSilent
  <2>3. DeclaredOnce' /\ Covered'
    BY <2>1 DEF Rest, DeclaredOnce, OneConsumerPerChannel, Covered
  <2> QED BY <2>2, <2>3 DEF Rest
<1> QED BY <1>2, <1>3, <1>4, <1>5

LEMMA NextRest == TypeOK /\ Rest /\ [Next]_vars => Rest'
<1> SUFFICES ASSUME TypeOK, Rest, [Next]_vars PROVE Rest'
  OBVIOUS
<1>1. CASE UNCHANGED vars
  <2>1. BootedForGood' /\ CurrentIsLatest' /\ ClosedChannelsAreSilent'
    BY <1>1 DEF vars, Rest, BootedForGood, CurrentIsLatest, ClosedChannelsAreSilent
  <2>2. DeclaredOnce' /\ Covered'
    BY <1>1 DEF vars, Rest, DeclaredOnce, OneConsumerPerChannel, Covered
  <2> QED BY <2>1, <2>2 DEF Rest
<1>2. ASSUME NEW s \in Subs, BeginSubscribe(s) PROVE FALSE
  BY <1>2 DEF BeginSubscribe, Rest, BootedForGood
<1>3. ASSUME NEW c \in Conns, NEW s \in Subs, Subscribed(s, c) PROVE FALSE
  BY <1>3 DEF Subscribed, Rest, BootedForGood
<1>4. CASE Next
  BY <1>2, <1>3, <1>4, StepCases, ChannelClosesRest, ConnectionClosesRest, ForceReconnectRest,
     RedeclaredRest, ConsumerCancelledRest, RestoreRest, ReconnectStepRest
<1> QED BY <1>1, <1>4
-----------------------------------------------------------------------------
(* What it gives a booted module *)

\* The inductive invariant that the runs check holds of every booted module.
THEOREM ReceiverInvariant == ASSUME Booted PROVE Spec => []IInv
<1>1. Init => TypeOK /\ Rest
  BY InitType, InitRest
<1>2. TypeOK /\ Rest /\ [Next]_vars => (TypeOK /\ Rest)'
  BY NextType, NextRest
<1>3. TypeOK /\ Rest => IInv
  BY DEF Rest, IInv
<1> QED BY <1>1, <1>2, <1>3, PTL DEF Spec

LEMMA CoveredIsNotDeaf == TypeOK /\ IInv => NeverDeaf
<1> SUFFICES ASSUME IInv, ~stopped, reconnect = "idle", NEW s \in Subs
             PROVE  Consuming(s) \/ Repairing(s)
  BY DEF NeverDeaf, Repairing, IInv, BootedForGood
<1>1. current # 0
  BY DEF IInv, Covered
<1>2. \/ conn[current] = "closing"
      \/ \E why \in Reasons : <<current, why>> \in pending
      \/ s \in redeclaring[current] \/ consumers[current][s] > 0
  BY <1>1 DEF IInv, Covered
<1> QED BY <1>1, <1>2 DEF Consuming, Repairing

\* A booted receiver that is not shut down never loses a subscription for good: whatever
\* close events _handleDisconnect skips, a subscription without a consumer always has a
\* reconnect, a redeclare or a scheduled _forceReconnect that will restore it.
THEOREM NeverDeafOnceBooted == ASSUME Booted PROVE Spec => []NeverDeaf
<1>1. IInv => NeverDeaf
  BY CoveredIsNotDeaf DEF IInv
<1> QED BY <1>1, ReceiverInvariant, PTL

\* Once booted, _resubscribeAll and _onConsumerCancelled never declare a subscription
\* twice on one channel.
THEOREM OneConsumerOnceBooted == ASSUME Booted PROVE Spec => []OneConsumerPerChannel
<1>1. IInv => OneConsumerPerChannel
  BY DEF IInv, DeclaredOnce
<1> QED BY <1>1, ReceiverInvariant, PTL
-----------------------------------------------------------------------------
(* Sequences of events *)

LEMMA EventsAreNumbers ==
  /\ Events = 1..Len(About) /\ Len(About) \in Nat
  /\ \A e \in Events : About[e] \in Subs /\ e \in Nat
BY AboutAssumption DEF Events

LEMMA BeforeOne ==
  ASSUME NEW n PROVE \A a : (Before(a, <<n>>) <=> \A i \in DOMAIN a : a[i] < n)
                            /\ (Before(<<n>>, a) <=> \A i \in DOMAIN a : n < a[i])
BY DEF Before

LEMMA AppendEvent ==
  ASSUME NEW a \in Seq(Events), NEW e \in Events
  PROVE  /\ Append(a, e) \in Seq(Events) /\ DOMAIN a = 1..Len(a) /\ Len(a) \in Nat
         /\ DOMAIN Append(a, e) = 1..(Len(a) + 1)
         /\ \A i \in DOMAIN a : Append(a, e)[i] = a[i] /\ a[i] \in Nat
         /\ Append(a, e)[Len(a) + 1] = e /\ e \in Nat
BY EventsAreNumbers

LEMMA TailEvents ==
  ASSUME NEW a \in Seq(Events), a # <<>>
  PROVE  /\ Tail(a) \in Seq(Events) /\ Head(a) \in Events /\ Head(a) = a[1] /\ 1 \in DOMAIN a
         /\ DOMAIN Tail(a) \subseteq Nat
         /\ \A i \in DOMAIN Tail(a) : i + 1 \in DOMAIN a /\ Tail(a)[i] = a[i + 1] /\ 1 < i + 1
BY EventsAreNumbers

LEMMA Appended ==
  ASSUME NEW a \in Seq(Events), NEW e \in Events
  PROVE  /\ Rising(a) /\ Before(a, <<e>>) => Rising(Append(a, e))
         /\ \A b : /\ Before(a, b) /\ Before(<<e>>, b) => Before(Append(a, e), b)
                   /\ Before(b, a) /\ Before(b, <<e>>) => Before(b, Append(a, e))
<1>1. \A i \in DOMAIN Append(a, e) :
        \/ i \in DOMAIN a /\ Append(a, e)[i] = a[i] /\ i \in Nat /\ i <= Len(a)
        \/ i = Len(a) + 1 /\ Append(a, e)[i] = e
  BY AppendEvent
<1>2. ASSUME Rising(a), Before(a, <<e>>) PROVE Rising(Append(a, e))
  <2>1. \A i \in DOMAIN a : a[i] < e
    BY <1>2, BeforeOne
  <2>2. Len(a) \in Nat
    OBVIOUS
  <2> QED BY <1>1, <1>2, <2>1, <2>2 DEF Rising
<1>3. ASSUME NEW b PROVE /\ Before(a, b) /\ Before(<<e>>, b) => Before(Append(a, e), b)
                         /\ Before(b, a) /\ Before(b, <<e>>) => Before(b, Append(a, e))
  BY <1>1, BeforeOne DEF Before
<1> QED BY <1>2, <1>3

LEMMA Tailed ==
  ASSUME NEW a \in Seq(Events), a # <<>>
  PROVE  /\ Rising(a) => Rising(Tail(a)) /\ Before(<<Head(a)>>, Tail(a))
         /\ \A b : /\ Before(a, b) => Before(Tail(a), b) /\ Before(<<Head(a)>>, b)
                   /\ Before(b, a) => Before(b, Tail(a)) /\ Before(b, <<Head(a)>>)
<1>1. ASSUME Rising(a) PROVE Rising(Tail(a)) /\ Before(<<Head(a)>>, Tail(a))
  <2>1. \A i, j \in DOMAIN Tail(a) : i < j => i + 1 < j + 1
    BY TailEvents
  <2>2. Rising(Tail(a))
    BY <1>1, <2>1, TailEvents DEF Rising
  <2>3. \A i \in DOMAIN Tail(a) : Head(a) < Tail(a)[i]
    BY <1>1, TailEvents DEF Rising
  <2> QED BY <2>2, <2>3, BeforeOne
<1>2. ASSUME NEW b PROVE /\ Before(a, b) => Before(Tail(a), b) /\ Before(<<Head(a)>>, b)
                         /\ Before(b, a) => Before(b, Tail(a)) /\ Before(b, <<Head(a)>>)
  BY TailEvents, BeforeOne DEF Before
<1> QED BY <1>1, <1>2

\* An event copied to a queue once, or not at all.
LEMMA Copies ==
  ASSUME NEW q \in Seq(Events), NEW e \in Events
  PROVE  q \o [i \in 1..0 |-> e] = q /\ q \o [i \in 1..1 |-> e] = Append(q, e)
<1>1. [i \in 1..0 |-> e] = <<>> /\ [i \in 1..1 |-> e] = <<e>>
  OBVIOUS
<1> QED BY <1>1

LEMMA NoneBefore == \A b : Rising(<<>>) /\ Before(<<>>, b) /\ Before(b, <<>>)
BY DEF Rising, Before
-----------------------------------------------------------------------------
(* The order of events, as each step changes it *)

Order(h, a, w) == /\ Rising(a) /\ Before(a, <<h + 1>>) /\ Rising(w) /\ Before(w, <<h + 1>>)
                  /\ Before(w, a)
Chain(h, a, w, q, t) ==
    /\ Rising(q) /\ Before(q, <<h + 1>>) /\ Before(q, w) /\ Before(q, a)
    /\ Rising(t) /\ Before(t, <<h + 1>>) /\ Before(t, q) /\ Before(t, w) /\ Before(t, a)

LEMMA OrderIs ==
  /\ InTheirOrder <=>
       /\ Order(happened, asserting, wire)
       /\ \A c \in Conns, s \in Subs : Chain(happened, asserting, wire, queues[c][s], started[c][s])
  /\ InTheirOrder' <=>
       /\ Order(happened', asserting', wire')
       /\ \A c \in Conns, s \in Subs :
            Chain(happened', asserting', wire', queues'[c][s], started'[c][s])
BY DEF InTheirOrder, OnTheWay, Order, Chain

LEMMA Later ==
  ASSUME NEW h \in Nat, NEW x \in Seq(Events), Before(x, <<h + 1>>)
  PROVE  Before(x, <<h + 1 + 1>>)
<1>1. \A i \in DOMAIN x : x[i] \in Nat /\ x[i] < h + 1
  BY EventsAreNumbers, BeforeOne
<1>2. \A i \in DOMAIN x : x[i] < h + 1 + 1
  BY <1>1
<1> QED BY <1>2, BeforeOne

LEMMA HappensOrder ==
  ASSUME NEW h \in Nat, NEW a \in Seq(Events), NEW w \in Seq(Events), h + 1 \in Events, Order(h, a, w)
  PROVE  /\ Order(h + 1, a, w) /\ Order(h + 1, Append(a, h + 1), w)
         /\ \A q, t \in Seq(Events) : Chain(h, a, w, q, t) =>
              Chain(h + 1, a, w, q, t) /\ Chain(h + 1, Append(a, h + 1), w, q, t)
<1>1. Before(<<h + 1>>, <<h + 1 + 1>>)
  BY DEF Before
<1>2. Order(h + 1, a, w)
  BY Later DEF Order
<1>3. Order(h + 1, Append(a, h + 1), w)
  BY <1>1, <1>2, Appended DEF Order
<1>4. ASSUME NEW q \in Seq(Events), NEW t \in Seq(Events), Chain(h, a, w, q, t)
      PROVE  Chain(h + 1, a, w, q, t) /\ Chain(h + 1, Append(a, h + 1), w, q, t)
  <2>1. Chain(h + 1, a, w, q, t)
    BY <1>4, Later DEF Chain
  <2>2. Before(q, Append(a, h + 1)) /\ Before(t, Append(a, h + 1))
    BY <1>4, Appended DEF Chain
  <2> QED BY <2>1, <2>2 DEF Chain
<1> QED BY <1>2, <1>3, <1>4

LEMMA PublishOrder ==
  ASSUME NEW h, NEW a \in Seq(Events), NEW w \in Seq(Events), a # <<>>, Order(h, a, w)
  PROVE  /\ Order(h, Tail(a), Append(w, Head(a)))
         /\ \A q, t \in Seq(Events) : Chain(h, a, w, q, t) => Chain(h, Tail(a), Append(w, Head(a)), q, t)
<1>1. /\ Head(a) \in Events /\ Rising(Tail(a)) /\ Before(<<Head(a)>>, Tail(a))
      /\ Before(Tail(a), <<h + 1>>) /\ Before(<<Head(a)>>, <<h + 1>>)
      /\ Before(w, Tail(a)) /\ Before(w, <<Head(a)>>)
  BY Tailed, TailEvents DEF Order
<1>2. Order(h, Tail(a), Append(w, Head(a)))
  BY <1>1, Appended DEF Order
<1>3. ASSUME NEW q \in Seq(Events), NEW t \in Seq(Events), Chain(h, a, w, q, t)
      PROVE  Chain(h, Tail(a), Append(w, Head(a)), q, t)
  <2>1. /\ Before(q, Tail(a)) /\ Before(q, <<Head(a)>>) /\ Before(t, Tail(a)) /\ Before(t, <<Head(a)>>)
    BY <1>3, Tailed DEF Chain
  <2>2. Before(q, Append(w, Head(a))) /\ Before(t, Append(w, Head(a)))
    BY <1>1, <1>3, <2>1, Appended DEF Chain
  <2> QED BY <1>3, <2>1, <2>2 DEF Chain
<1> QED BY <1>2, <1>3

LEMMA ArriveOrder ==
  ASSUME NEW h, NEW a \in Seq(Events), NEW w \in Seq(Events), w # <<>>, Order(h, a, w)
  PROVE  /\ Order(h, a, Tail(w))
         /\ \A q, t \in Seq(Events) : Chain(h, a, w, q, t) =>
              Chain(h, a, Tail(w), q, t) /\ Chain(h, a, Tail(w), Append(q, Head(w)), t)
<1>1. /\ Head(w) \in Events /\ Rising(Tail(w)) /\ Before(<<Head(w)>>, Tail(w))
      /\ Before(Tail(w), <<h + 1>>) /\ Before(<<Head(w)>>, <<h + 1>>)
      /\ Before(Tail(w), a) /\ Before(<<Head(w)>>, a)
  BY Tailed, TailEvents DEF Order
<1>2. ASSUME NEW q \in Seq(Events), NEW t \in Seq(Events), Chain(h, a, w, q, t)
      PROVE  Chain(h, a, Tail(w), q, t) /\ Chain(h, a, Tail(w), Append(q, Head(w)), t)
  <2>1. /\ Before(q, Tail(w)) /\ Before(q, <<Head(w)>>) /\ Before(t, Tail(w)) /\ Before(t, <<Head(w)>>)
    BY <1>2, Tailed DEF Chain
  <2>2. Chain(h, a, Tail(w), q, t)
    BY <1>2, <2>1 DEF Chain
  <2>3. /\ Rising(Append(q, Head(w))) /\ Before(Append(q, Head(w)), <<h + 1>>)
        /\ Before(Append(q, Head(w)), Tail(w)) /\ Before(Append(q, Head(w)), a)
    BY <1>1, <1>2, <2>1, Appended DEF Chain
  <2>4. Before(t, Append(q, Head(w)))
    BY <1>1, <1>2, <2>1, Appended DEF Chain
  <2> QED BY <2>2, <2>3, <2>4 DEF Chain
<1> QED BY <1>1, <1>2 DEF Order

LEMMA DeliverOrder ==
  ASSUME NEW h, NEW a, NEW w, NEW q \in Seq(Events), NEW t \in Seq(Events), q # <<>>, Chain(h, a, w, q, t)
  PROVE  Chain(h, a, w, Tail(q), Append(t, Head(q)))
<1>1. /\ Head(q) \in Events /\ Rising(Tail(q)) /\ Before(<<Head(q)>>, Tail(q))
      /\ Before(Tail(q), <<h + 1>>) /\ Before(<<Head(q)>>, <<h + 1>>)
      /\ Before(Tail(q), a) /\ Before(<<Head(q)>>, a) /\ Before(Tail(q), w) /\ Before(<<Head(q)>>, w)
      /\ Before(t, Tail(q)) /\ Before(t, <<Head(q)>>)
  BY Tailed, TailEvents DEF Chain
<1>2. /\ Rising(Append(t, Head(q))) /\ Before(Append(t, Head(q)), <<h + 1>>)
      /\ Before(Append(t, Head(q)), Tail(q)) /\ Before(Append(t, Head(q)), w)
      /\ Before(Append(t, Head(q)), a)
  BY <1>1, Appended DEF Chain
<1> QED BY <1>1, <1>2 DEF Chain

LEMMA LossOrder ==
  /\ \A h, a, w : Order(h, a, w) => Order(h, a, <<>>)
  /\ \A h, a, w, q, t : Chain(h, a, w, q, t) => Chain(h, a, <<>>, q, t) /\ Chain(h, a, w, <<>>, t)
BY NoneBefore DEF Order, Chain
-----------------------------------------------------------------------------
(* The pipeline, action by action *)

PipeInv == PipeTypeOK /\ InTheirOrder /\ TypeOK /\ (Alive => Rest)

\* A process that has exited does nothing any more.
LEMMA OnlyAlive == PipeNext => Alive
BY DEF PipeNext, ReceiverStep, Next, Own, BeginSubscribe, Subscribed, Restore, Redeclared,
       ForceReconnect, Connect, AbortConnect, OpenChannel, ConnectionCloses, ChannelCloses,
       ConsumerCancelled, Shutdown, EventHappens, Publish, Arrives, SenderLoses, SenderReconnects,
       ListenEnds, Deliver, HandlerEnds, Alive

LEMMA RestingIsSound ==
  ASSUME PipeInv, ReceiverRests PROVE TypeOK' /\ (Alive' => Rest') /\ (Alive' <=> Alive)
<1>1. TypeOK'
  BY NextType DEF PipeInv, ReceiverRests
<1>2. Alive' <=> Alive
  BY DEF ReceiverRests, vars, Alive
<1>3. Alive => Rest'
  BY NextRest DEF PipeInv, ReceiverRests
<1> QED BY <1>1, <1>2, <1>3

LEMMA ExitIsSound ==
  ASSUME PipeInv, Exits, faults' = faults PROVE TypeOK' /\ ~Alive'
BY DEF PipeInv, Exits, TypeOK, Alive

\* Only what breaks counts besides: the receiver is as it was, or the process has ended.
LEMMA FaultIsSound ==
  ASSUME PipeInv, Fault, boot' \in {boot, "exited"},
         UNCHANGED <<conn, chan, last, consumers, current, reconnect, todo, redeclaring,
                     pending, subscribed, subscribing, aborted, stopped>>
  PROVE  TypeOK' /\ (Alive' => Rest' /\ Alive)
<1>1. TypeOK'
  BY FaultType DEF PipeInv, TypeOK
<1>2. Alive' => Alive /\ boot' = boot
  BY DEF Alive
<1>3. ASSUME Alive' PROVE Rest'
  <2>1. Rest /\ boot' = boot
    BY <1>2, <1>3 DEF PipeInv
  <2>2. BootedForGood' /\ CurrentIsLatest' /\ ClosedChannelsAreSilent'
    BY <2>1 DEF Rest, BootedForGood, CurrentIsLatest, ClosedChannelsAreSilent
  <2>3. DeclaredOnce' /\ Covered'
    BY <2>1 DEF Rest, DeclaredOnce, OneConsumerPerChannel, Covered
  <2> QED BY <2>2, <2>3 DEF Rest
<1> QED BY <1>1, <1>2, <1>3

\* The queues and what handlers began, as the lemmas on their order take them.
LEMMA QueuesAreSequences ==
  ASSUME PipeInv
  PROVE  /\ \A c \in Conns, s \in Subs :
              /\ queues[c][s] \in Seq(Events) /\ started[c][s] \in Seq(Events)
              /\ Chain(happened, asserting, wire, queues[c][s], started[c][s])
         /\ Order(happened, asserting, wire)
         /\ asserting \in Seq(Events) /\ wire \in Seq(Events) /\ happened \in Nat
<1>1. /\ Order(happened, asserting, wire)
      /\ \A c \in Conns, s \in Subs :
           Chain(happened, asserting, wire, queues[c][s], started[c][s])
  BY OrderIs DEF PipeInv
<1>2. asserting \in Seq(Events) /\ wire \in Seq(Events) /\ happened \in Nat
  BY EventsAreNumbers DEF PipeInv, PipeTypeOK
<1>3. \A c \in Conns, s \in Subs : queues[c][s] \in Seq(Events) /\ started[c][s] \in Seq(Events)
  BY DEF PipeInv, PipeTypeOK
<1> QED BY <1>1, <1>2, <1>3

LEMMA ReceiverStepSound ==
  ASSUME PipeInv, ReceiverStep PROVE PipeInv'
<1>1. Next /\ WithQueues /\ Alive
  BY OnlyAlive DEF ReceiverStep, PipeNext
<1>2. TypeOK' /\ (Alive' => Rest')
  BY <1>1, NextType, NextRest DEF PipeInv
<1>3. UNCHANGED <<listening, sender, happened, asserting, wire, started, handling, unrouted>>
      /\ promised' \subseteq promised
  BY <1>1 DEF WithQueues
<1>4. \A c \in Conns, s \in Subs : queues'[c][s] \in {<<>>, queues[c][s]}
  BY <1>1 DEF WithQueues
<1>5. queues' \in [Conns -> [Subs -> Seq(Events)]]
  BY <1>1 DEF WithQueues, PipeInv, PipeTypeOK
<1>6. PipeTypeOK'
  BY <1>1, <1>3, <1>5 DEF PipeInv, PipeTypeOK
<1>7. ASSUME NEW c \in Conns, NEW s \in Subs
      PROVE  Chain(happened', asserting', wire', queues'[c][s], started'[c][s])
  BY <1>3, <1>4, QueuesAreSequences, LossOrder
<1>8. InTheirOrder'
  BY <1>3, <1>7, OrderIs, QueuesAreSequences
<1> QED BY <1>2, <1>6, <1>8 DEF PipeInv

LEMMA HappensSound ==
  ASSUME PipeInv, EventHappens PROVE PipeInv'
<1>1. /\ Alive /\ happened < Len(About) /\ happened' = happened + 1
      /\ promised' \subseteq promised \cup {happened'}
      /\ UNCHANGED <<listening, sender, wire, queues, started, handling, unrouted>>
  BY DEF EventHappens
<1>2. happened + 1 \in Events /\ happened' \in 0..Len(About) /\ 1..happened \subseteq 1..happened'
      /\ happened' \in 1..happened'
  BY <1>1, EventsAreNumbers DEF PipeInv, PipeTypeOK
<1>3. asserting' \in {asserting, Append(asserting, happened + 1)}
  BY <1>1 DEF EventHappens, Send
<1>4. TypeOK' /\ (Alive' => Rest') /\ (Alive' /\ asserting' # <<>> => sender' = "up")
  <2>1. CASE ReceiverRests /\ asserting' = asserting
    BY <1>1, <2>1, RestingIsSound DEF PipeInv, PipeTypeOK
  <2>2. CASE ReceiverRests /\ sender = "up"
    BY <1>1, <2>2, RestingIsSound
  <2>3. CASE Exits /\ faults' = faults
    BY <2>3, ExitIsSound
  <2> QED BY <1>1, <2>1, <2>2, <2>3 DEF EventHappens, Send
<1>5. asserting' \in Seq(Events)
  BY <1>2, <1>3, AppendEvent DEF PipeInv, PipeTypeOK
<1>6. PipeTypeOK'
  BY <1>1, <1>2, <1>4, <1>5 DEF PipeInv, PipeTypeOK
<1>7. Order(happened', asserting', wire')
  BY <1>1, <1>2, <1>3, HappensOrder, QueuesAreSequences
<1>8. \A c \in Conns, s \in Subs :
        Chain(happened', asserting', wire', queues'[c][s], started'[c][s])
  BY <1>1, <1>2, <1>3, HappensOrder, QueuesAreSequences
<1> QED BY <1>4, <1>6, <1>7, <1>8, OrderIs DEF PipeInv

LEMMA PublishSound ==
  ASSUME PipeInv, Publish PROVE PipeInv'
<1>1. /\ Alive /\ asserting # <<>> /\ asserting' = Tail(asserting)
      /\ wire' = Append(wire, Head(asserting)) /\ ReceiverRests
      /\ UNCHANGED <<listening, sender, happened, queues, started, handling, unrouted, promised>>
  BY DEF Publish
<1>2. TypeOK' /\ (Alive' => Rest') /\ Alive'
  BY <1>1, RestingIsSound
<1>3. asserting' \in Seq(Events) /\ wire' \in Seq(Events) /\ sender' = "up"
  BY <1>1, TailEvents, AppendEvent DEF PipeInv, PipeTypeOK
<1>4. PipeTypeOK'
  BY <1>1, <1>2, <1>3 DEF PipeInv, PipeTypeOK
<1>5. Order(happened', asserting', wire')
  BY <1>1, PublishOrder, QueuesAreSequences
<1>6. \A c \in Conns, s \in Subs :
        Chain(happened', asserting', wire', queues'[c][s], started'[c][s])
  BY <1>1, PublishOrder, QueuesAreSequences
<1> QED BY <1>2, <1>4, <1>5, <1>6, OrderIs DEF PipeInv

LEMMA SenderSound ==
  ASSUME PipeInv, SenderReconnects \/ ListenEnds \/ \E now \in {"away", "dead"} : SenderLoses(now)
  PROVE  PipeInv'
<1>1. UNCHANGED <<happened, asserting, queues, started, handling, unrouted>>
      /\ promised' \subseteq promised /\ wire' \in {wire, <<>>}
      /\ listening' \in BOOLEAN /\ sender' \in {"up", "dead", "away"}
  BY DEF SenderReconnects, ListenEnds, SenderLoses, PipeInv, PipeTypeOK
<1>2. TypeOK' /\ (Alive' => Rest') /\ (Alive' /\ asserting' # <<>> => sender' = "up")
  <2>1. CASE SenderReconnects
    BY <2>1, RestingIsSound DEF SenderReconnects
  <2>2. CASE ListenEnds
    <3>1. TypeOK' /\ (Alive' => Rest' /\ Alive)
      BY <2>2, FaultIsSound DEF ListenEnds
    <3> QED BY <2>2, <3>1 DEF ListenEnds, PipeInv, PipeTypeOK
  <2>3. ASSUME NEW now \in {"away", "dead"}, SenderLoses(now)
        PROVE  TypeOK' /\ (Alive' => Rest') /\ (Alive' /\ asserting' # <<>> => sender' = "up")
    <3>1. TypeOK' /\ (Alive' => Rest' /\ Alive)
      BY <2>3, FaultIsSound DEF SenderLoses
    <3>2. asserting' # <<>> => ~Alive'
      BY <2>3 DEF SenderLoses, Alive
    <3> QED BY <3>1, <3>2
  <2> QED BY <2>1, <2>2, <2>3
<1>3. PipeTypeOK'
  <2>1. wire' \in Seq(Events)
    <3>1. wire \in Seq(Events) /\ <<>> \in Seq(Events)
      BY QueuesAreSequences
    <3> QED BY <1>1, <3>1
  <2>2. unrouted' \cup promised' \subseteq 1..happened'
    BY <1>1 DEF PipeInv, PipeTypeOK
  <2>3. happened' \in 0..Len(About) /\ asserting' \in Seq(Events)
    BY <1>1 DEF PipeInv, PipeTypeOK
  <2>4. /\ queues' \in [Conns -> [Subs -> Seq(Events)]]
        /\ started' \in [Conns -> [Subs -> Seq(Events)]]
        /\ handling' \subseteq Conns \X Events
    BY <1>1 DEF PipeInv, PipeTypeOK
  <2> QED BY <1>1, <1>2, <2>1, <2>2, <2>3, <2>4 DEF PipeTypeOK
<1>4. Order(happened', asserting', wire')
  BY <1>1, LossOrder, QueuesAreSequences
<1>5. \A c \in Conns, s \in Subs :
        Chain(happened', asserting', wire', queues'[c][s], started'[c][s])
  BY <1>1, LossOrder, QueuesAreSequences
<1> QED BY <1>2, <1>3, <1>4, <1>5, OrderIs DEF PipeInv
\* One queue gets each event at most once: a channel has one consumer per subscription.
LEMMA ArrivesSound ==
  ASSUME PipeInv, Arrives PROVE PipeInv'
<1> DEFINE e == Head(wire)
           s == About[e]
<1>1. /\ Alive /\ wire # <<>> /\ wire' = Tail(wire) /\ ReceiverRests
      /\ UNCHANGED <<listening, sender, happened, asserting, started, handling, promised>>
      /\ unrouted' \subseteq unrouted \cup {e}
      /\ queues' = [c \in Conns |->
                      [queues[c] EXCEPT ![s] = @ \o [i \in 1..consumers[c][s] |-> e]]]
  BY DEF Arrives
<1>2. e \in Events /\ s \in Subs /\ wire' \in Seq(Events) /\ e = wire[1] /\ 1 \in DOMAIN wire
  BY <1>1, QueuesAreSequences, TailEvents, EventsAreNumbers
<1>3. e \in 1..happened
  <2>1. Before(wire, <<happened + 1>>) /\ happened \in Nat
    BY QueuesAreSequences DEF Order
  <2>2. e < happened + 1
    BY <1>2, <2>1, BeforeOne
  <2> QED BY <1>2, <2>1, <2>2, EventsAreNumbers
<1>4. ASSUME NEW c \in Conns PROVE consumers[c][s] \in 0..1
  BY <1>1, <1>2 DEF PipeInv, Rest, DeclaredOnce, OneConsumerPerChannel, TypeOK
<1>5. ASSUME NEW c \in Conns, NEW x \in Subs
      PROVE  queues'[c][x] \in {queues[c][x], Append(queues[c][x], e)}
  <2>1. queues[c] \in [Subs -> Seq(Events)]
    BY DEF PipeInv, PipeTypeOK
  <2>2. queues'[c] = [queues[c] EXCEPT ![s] = @ \o [i \in 1..consumers[c][s] |-> e]]
    BY <1>1
  <2>3. CASE x # s
    BY <2>1, <2>2, <2>3
  <2>4. CASE x = s
    <3>1. queues'[c][x] = queues[c][x] \o [i \in 1..consumers[c][s] |-> e]
      BY <2>1, <2>2, <2>4
    <3>2. consumers[c][s] = 0 \/ consumers[c][s] = 1
      BY <1>4
    <3>3. queues[c][x] \in Seq(Events)
      BY <2>1
    <3> QED BY <1>2, <3>1, <3>2, <3>3, Copies
  <2> QED BY <2>3, <2>4
<1> HIDE DEF e, s
<1>6. queues' \in [Conns -> [Subs -> Seq(Events)]]
  <2>1. ASSUME NEW c \in Conns PROVE queues'[c] \in [Subs -> Seq(Events)]
    <3>1. DOMAIN queues'[c] = Subs /\ queues'[c] = [x \in Subs |-> queues'[c][x]]
      BY <1>1 DEF PipeInv, PipeTypeOK
    <3>2. ASSUME NEW x \in Subs PROVE queues'[c][x] \in Seq(Events)
      <4>1. queues[c][x] \in Seq(Events)
        BY QueuesAreSequences
      <4>2. Append(queues[c][x], e) \in Seq(Events)
        BY <1>2, <4>1, AppendEvent
      <4> QED BY <1>5, <4>1, <4>2
    <3> QED BY <3>1, <3>2
  <2>2. queues' = [c \in Conns |-> queues'[c]]
    BY <1>1
  <2> QED BY <2>1, <2>2
<1>7. TypeOK' /\ (Alive' => Rest') /\ (Alive' <=> Alive)
  BY <1>1, RestingIsSound
<1>8. PipeTypeOK'
  <2>1. unrouted' \cup promised' \subseteq 1..happened'
    BY <1>1, <1>3 DEF PipeInv, PipeTypeOK
  <2> QED BY <1>1, <1>2, <1>6, <1>7, <2>1 DEF PipeInv, PipeTypeOK
<1>9. Order(happened', asserting', wire')
  BY <1>1, ArriveOrder, QueuesAreSequences
<1>10. ASSUME NEW c \in Conns, NEW x \in Subs
       PROVE  Chain(happened', asserting', wire', queues'[c][x], started'[c][x])
  <2>1. /\ queues[c][x] \in Seq(Events) /\ started[c][x] \in Seq(Events)
        /\ Chain(happened, asserting, wire, queues[c][x], started[c][x])
        /\ Order(happened, asserting, wire)
        /\ asserting \in Seq(Events) /\ wire \in Seq(Events)
    BY QueuesAreSequences
  <2>2. /\ Chain(happened, asserting, Tail(wire), queues[c][x], started[c][x])
        /\ Chain(happened, asserting, Tail(wire), Append(queues[c][x], e), started[c][x])
    BY <1>1, <2>1, ArriveOrder DEF e
  <2> QED BY <1>1, <1>5, <2>2
<1> QED BY <1>7, <1>8, <1>9, <1>10, OrderIs DEF PipeInv

LEMMA DeliverSound ==
  ASSUME PipeInv, NEW c \in Conns, NEW s \in Subs, Deliver(c, s) PROVE PipeInv'
<1> DEFINE e == Head(queues[c][s])
<1>1. /\ queues[c][s] # <<>> /\ ReceiverRests
      /\ UNCHANGED <<listening, sender, happened, asserting, wire, unrouted, promised>>
      /\ queues' = [queues EXCEPT ![c][s] = Tail(@)]
      /\ started' = [started EXCEPT ![c][s] = Append(@, e)]
      /\ handling' = handling \cup {<<c, e>>}
  BY DEF Deliver
<1>2. e \in Events /\ Tail(queues[c][s]) \in Seq(Events) /\ Append(started[c][s], e) \in Seq(Events)
  BY <1>1, QueuesAreSequences, TailEvents, AppendEvent
<1>3. /\ queues \in [Conns -> [Subs -> Seq(Events)]]
      /\ started \in [Conns -> [Subs -> Seq(Events)]]
  BY DEF PipeInv, PipeTypeOK
<1>4. ASSUME NEW d \in Conns, NEW x \in Subs
      PROVE  Chain(happened, asserting, wire, queues'[d][x], started'[d][x])
  <2>1. CASE d = c /\ x = s
    <3>1. queues'[d][x] = Tail(queues[c][s]) /\ started'[d][x] = Append(started[c][s], e)
      BY <1>1, <1>3, <2>1
    <3> QED BY <1>1, <3>1, QueuesAreSequences, DeliverOrder
  <2>2. CASE ~(d = c /\ x = s)
    <3>1. queues'[d][x] = queues[d][x] /\ started'[d][x] = started[d][x]
      BY <1>1, <1>3, <2>2
    <3> QED BY <3>1, QueuesAreSequences
  <2> QED BY <2>1, <2>2
<1> HIDE DEF e
<1>5. /\ queues' \in [Conns -> [Subs -> Seq(Events)]]
      /\ started' \in [Conns -> [Subs -> Seq(Events)]]
  BY <1>1, <1>2, <1>3
<1>6. TypeOK' /\ (Alive' => Rest') /\ (Alive' <=> Alive)
  BY <1>1, RestingIsSound
<1>7. PipeTypeOK'
  BY <1>1, <1>2, <1>5, <1>6 DEF PipeInv, PipeTypeOK
<1> QED BY <1>1, <1>4, <1>6, <1>7, OrderIs, QueuesAreSequences DEF PipeInv

LEMMA HandlerSound ==
  ASSUME PipeInv, NEW c \in Conns, NEW e \in Events, HandlerEnds(c, e) PROVE PipeInv'
<1>1. /\ Alive /\ handling' = handling \ {<<c, e>>}
      /\ UNCHANGED <<listening, sender, happened, asserting, wire, queues, started, unrouted,
                     promised>>
      /\ ReceiverRests \/ (Exits /\ faults' = faults)
  BY DEF HandlerEnds
<1>2. TypeOK' /\ (Alive' => Rest')
  BY <1>1, RestingIsSound, ExitIsSound
<1>3. PipeTypeOK'
  BY <1>1 DEF PipeInv, PipeTypeOK
<1> QED BY <1>1, <1>2, <1>3, OrderIs, QueuesAreSequences DEF PipeInv

LEMMA PipeStep == PipeInv /\ [PipeNext]_allVars => PipeInv'
<1>1. ASSUME PipeInv, UNCHANGED allVars PROVE PipeInv'
  <2>1. ReceiverRests /\ UNCHANGED pipeVars
    BY <1>1 DEF allVars, ReceiverRests
  <2>2. TypeOK' /\ (Alive' => Rest') /\ (Alive' <=> Alive)
    BY <1>1, <2>1, RestingIsSound
  <2>3. PipeTypeOK'
    BY <1>1, <2>1, <2>2 DEF pipeVars, PipeInv, PipeTypeOK
  <2> QED BY <1>1, <2>1, <2>2, <2>3, OrderIs DEF pipeVars, PipeInv
<1>2. ASSUME PipeInv, PipeNext PROVE PipeInv'
  BY <1>2, ReceiverStepSound, HappensSound, PublishSound, SenderSound, ArrivesSound,
     DeliverSound, HandlerSound DEF PipeNext
<1> QED BY <1>1, <1>2

LEMMA PipeStarts ==
  ASSUME Booted, Init, PipeInit PROVE PipeInv
<1>1. TypeOK /\ Rest
  BY InitType, InitRest
<1>2. <<>> \in Seq(Events) /\ 0 \in 0..Len(About)
  BY EventsAreNumbers
<1>3. queues \in [Conns -> [Subs -> Seq(Events)]] /\ started = queues
      /\ \A c \in Conns, s \in Subs : queues[c][s] = <<>>
  BY <1>2 DEF PipeInit, NoEvents
<1>4. PipeTypeOK
  BY <1>2, <1>3 DEF PipeInit, PipeTypeOK
<1>5. Order(happened, asserting, wire)
  BY NoneBefore DEF PipeInit, Order
<1>6. \A c \in Conns, s \in Subs :
        Chain(happened, asserting, wire, queues[c][s], started[c][s])
  BY <1>3, NoneBefore DEF PipeInit, Chain
<1> QED BY <1>1, <1>4, <1>5, <1>6, OrderIs DEF PipeInv

\* Behind a booted receiver events keep their order all the way from the row that changes to
\* the handler: _onEvent begins them in the order DtoRouter was told of them and never twice
\* on a channel, through reconnects, redeclares, lost senders and handlers that overlap; and
\* no sendEvent awaits the exchange on a channel that is gone while the process lives.
THEOREM EventsKeepTheirOrder == ASSUME Booted PROVE PipeSpec => []PipeIInv
<1>1. Init /\ PipeInit => PipeInv
  BY PipeStarts
<1>2. PipeInv => PipeIInv
  BY DEF PipeInv, PipeIInv, InTheirOrder, InOrderOnce, OnTheWay, Rising
<1> QED BY <1>1, <1>2, PipeStep, PTL DEF PipeSpec

\* An event leaves the exchange without a queue only while the receiver repairs the
\* subscription, or was shut down: every other moment one of its channels consumes it.
THEOREM DropsAreRepairs == ASSUME Booted PROVE PipeSpec => DroppedOnlyInRepair
<1> DEFINE Dropping == \A e \in unrouted' \ unrouted : Repairing(About[e]) \/ stopped
<1>1. Init /\ PipeInit => PipeInv
  BY PipeStarts
<1>2. ASSUME PipeInv, Arrives, NEW e \in unrouted' \ unrouted
      PROVE  Repairing(About[e]) \/ stopped
  <2>1. e = Head(wire) /\ Alive /\ wire # <<>> /\ \A c \in Conns : consumers[c][About[e]] = 0
    BY <1>2 DEF Arrives
  <2>2. About[e] \in Subs
    BY <1>2, <2>1, QueuesAreSequences, TailEvents, EventsAreNumbers
  <2>3. TypeOK /\ IInv /\ subscribed = Subs
    BY <1>2, <2>1 DEF PipeInv, Rest, IInv, BootedForGood
  <2>4. stopped \/ Consuming(About[e]) \/ Repairing(About[e])
    BY <2>1, <2>2, <2>3, CoveredIsNotDeaf DEF NeverDeaf
  <2>5. ~Consuming(About[e])
    <3>1. current # 0 => current \in Conns
      BY <2>3, BoundsAssumption DEF TypeOK
    <3> QED BY <2>1, <3>1 DEF Consuming
  <2> QED BY <2>4, <2>5
<1>3. PipeInv /\ [PipeNext]_allVars => [Dropping]_allVars
  <2> SUFFICES ASSUME PipeInv, PipeNext PROVE Dropping
    OBVIOUS
  <2>1. CASE Arrives
    BY <1>2, <2>1
  <2>2. ASSUME ~Arrives PROVE unrouted' = unrouted
    BY <2>2 DEF PipeNext, ReceiverStep, WithQueues, EventHappens, Publish, SenderLoses,
       SenderReconnects, ListenEnds, Deliver, HandlerEnds
  <2> QED BY <2>1, <2>2
<1> QED BY <1>1, <1>3, PipeStep, PTL DEF PipeSpec, DroppedOnlyInRepair
==============================================================================
