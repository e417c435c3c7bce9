-------------------------------- MODULE Acks --------------------------------
(***************************************************************************)
(* Notifications and their acknowledgements: NotificationHandler,          *)
(* PushSubscription.handleNotification, the dispatch to the application's  *)
(* listeners, and the ack queue of MessageMediator with its interval.      *)
(*                                                                         *)
(* One channel is modelled, from its registration to its removal; several  *)
(* share nothing but the queue.  The handlers of several notifications     *)
(* overlap while they decrypt.  The server (external) keeps a notification *)
(* until it is acked, whatever the code, and sends what it keeps once on   *)
(* every connection.                                                       *)
(***************************************************************************)
EXTENDS Naturals, Sequences, FiniteSets

CONSTANTS
  Version,    \* the notifications, named by their version
  MaxCloses,  \* bound on failures and closes of the connection, destroys and stops of the
              \* process, together
  MayStop     \* may the process stop and start again?

ASSUME AcksAssumption == MaxCloses \in Nat /\ MayStop \in BOOLEAN

\* What a notification carries: nothing; an encoding that is not aes128gcm, or no
\* headers; something that decrypts; something that does not.
Data == {"none", "unsupported", "valid", "corrupt"}
ClientAckCodes == {"SUCCESS", "DECRYPT_FAIL", "OTHER_FAIL"}
Update == [version : Version, code : ClientAckCodes]

VARIABLES
  websocket,     \* _websocket; null is "none", and "closed" if connect will not follow;
                 \* destroy leaves it "closing"
  subscription,  \* the subscription: not yet "none", in the map, out of the map
  listening,     \* has the application a "notification" listener on it?
  ticking,       \* is the ack interval set?
  data,          \* [Version -> Data]
  toClient,      \* notifications on their way
  decrypting,    \* [Version -> Nat], the handlers that await its decryption
  ackQueue,      \* MessageMediator.ackQueue
  toServer,      \* the ack messages on their way, each a sequence of updates
  kept,          \* the server's notifications that are not acked
  offered,       \* those it has sent on the present connection
  acked,         \* the updates the server has received
  received,      \* history: [Version -> Nat], how often it was handled
  sent,          \* history: [Version -> Nat], how many acks of it were sent
  delivered,     \* history: versions a listener received without throwing
  unattended,    \* history: versions for which nobody listened at some time from a
                 \* receipt to its dispatch
  closes         \* failures, closes, destroys and stops so far

clientVars == <<subscription, listening, ticking, decrypting, ackQueue>>
serverVars == <<data, kept, offered, acked>>
wire == <<toClient, toServer>>
ackVars ==
  <<websocket, clientVars, serverVars, wire, received, sent, delivered, unattended, closes>>

AcksTypeOK ==
  /\ websocket \in {"none", "connecting", "open", "closing", "closed"}
  /\ subscription \in {"none", "live", "gone"}
  /\ listening \in BOOLEAN
  /\ ticking \in BOOLEAN
  /\ data \in [Version -> Data]
  /\ toClient \in Seq(Version)
  /\ decrypting \in [Version -> Nat]
  /\ ackQueue \in Seq(Update)
  /\ toServer \in Seq(Seq(Update))
  /\ kept \subseteq Version
  /\ offered \subseteq Version
  /\ acked \subseteq Update
  /\ received \in [Version -> Nat]
  /\ sent \in [Version -> Nat]
  /\ delivered \subseteq Version
  /\ unattended \subseteq Version
  /\ closes \in 0 .. MaxCloses

AcksInit ==
  /\ websocket = "none"
  /\ subscription = "none" /\ listening = FALSE
  /\ ticking = TRUE
  /\ data \in [Version -> Data]
  /\ toClient = <<>> /\ toServer = <<>>
  /\ decrypting = [v \in Version |-> 0]
  /\ ackQueue = <<>>
  /\ kept = Version /\ offered = {} /\ acked = {}
  /\ received = [v \in Version |-> 0] /\ sent = [v \in Version |-> 0]
  /\ delivered = {} /\ unattended = {}
  /\ closes = 0

\* How many acks of v, with whatever code, there are in a sequence of updates.
AcksOf(v, updates) == Cardinality({i \in DOMAIN updates : updates[i].version = v})

-----------------------------------------------------------------------------
(* Handling a notification *)

\* MessageMediator.ack
Ack(v, code) == ackQueue' = Append(ackQueue, [version |-> v, code |-> code])

\* A plausible slip: what a listener throws is swallowed.
DispatchSwallows(v) ==
  /\ \E throws \in BOOLEAN :
       delivered' = IF listening /\ ~throws THEN delivered \cup {v} ELSE delivered
  /\ Ack(v, "SUCCESS")

\* EventManager.dispatchEvent, and the ack for its outcome.  Without a listener it
\* does nothing, successfully; what a listener throws reaches the handler.
Dispatch(v) ==
  \E throws \in BOOLEAN :
    IF listening /\ throws
      THEN Ack(v, "OTHER_FAIL") /\ UNCHANGED delivered
      ELSE /\ Ack(v, "SUCCESS")
           /\ delivered' = IF listening THEN delivered \cup {v} ELSE delivered

Receive(v) ==
  /\ toClient # <<>>
  /\ Head(toClient) = v
  /\ toClient' = Tail(toClient)
  /\ received' = [received EXCEPT ![v] = @ + 1]
  /\ UNCHANGED <<websocket, subscription, listening, ticking, serverVars, toServer, sent, closes>>

\* Those of the versions vs that are to be dispatched, while nobody listens.
Unattended(vs) ==
  unattended' = unattended \cup {v \in vs : ~listening' /\ data[v] \in {"none", "valid"}}

\* A plausible slip: a code of the nacks in an ack.
HandleUnknownNacks(v) ==
  /\ Receive(v)
  /\ subscription # "live"
  /\ Ack(v, "NACK_OTHER_FAIL")
  /\ UNCHANGED <<decrypting, delivered, unattended>>

\* The map does not hold the channel.
HandleUnknown(v) ==
  /\ Receive(v)
  /\ subscription # "live"
  /\ Ack(v, "OTHER_FAIL")
  /\ UNCHANGED <<decrypting, delivered, unattended>>

\* handleNotification dispatches null, or rejects the encoding, before any await.
HandleAtOnce(v) ==
  /\ Receive(v)
  /\ subscription = "live"
  /\ \/ data[v] = "none" /\ Dispatch(v)
     \/ data[v] = "unsupported" /\ Ack(v, "DECRYPT_FAIL") /\ UNCHANGED delivered
  /\ Unattended({v})
  /\ UNCHANGED decrypting

\* handleNotification up to the await of the decryption.
HandleData(v) ==
  /\ Receive(v)
  /\ subscription = "live"
  /\ data[v] \in {"valid", "corrupt"}
  /\ decrypting' = [decrypting EXCEPT ![v] = @ + 1]
  /\ Unattended({v})
  /\ UNCHANGED <<ackQueue, delivered>>

\* A plausible slip: what decrypts to nothing sensible is dropped with no ack.
DecryptedDrops(v) ==
  /\ decrypting[v] > 0
  /\ decrypting' = [decrypting EXCEPT ![v] = @ - 1]
  /\ IF data[v] = "valid" THEN Dispatch(v) ELSE UNCHANGED <<ackQueue, delivered>>
  /\ UNCHANGED <<websocket, subscription, listening, ticking, serverVars, wire, received, sent,
                 unattended, closes>>

\* The decryption is over.  The subscription it was begun for gets the event, even
\* if it has left the map.
Decrypted(v) ==
  /\ decrypting[v] > 0
  /\ decrypting' = [decrypting EXCEPT ![v] = @ - 1]
  /\ IF data[v] = "valid" THEN Dispatch(v) ELSE Ack(v, "DECRYPT_FAIL") /\ UNCHANGED delivered
  /\ UNCHANGED <<websocket, subscription, listening, ticking, serverVars, wire, received, sent,
                 unattended, closes>>

-----------------------------------------------------------------------------
(* Sending the acks *)

\* A plausible slip: the queue is sent and not emptied.
EmptyQueueNot == UNCHANGED ackQueue

\* ackQueue.splice(0, ackQueue.length)
EmptyQueue == ackQueue' = <<>>

\* websocket.send throws on a websocket that is still connecting.
TrySend ==
  IF websocket = "open"
    THEN /\ toServer' = Append(toServer, ackQueue)
         /\ sent' = [v \in Version |-> sent[v] + AcksOf(v, ackQueue)]
    ELSE UNCHANGED <<toServer, sent>>

\* The interval: nothing happens with an empty queue or no websocket.  Otherwise the
\* queue is emptied first and sent then.
SendAck ==
  /\ ticking
  /\ ackQueue # <<>>
  /\ websocket # "none"
  /\ EmptyQueue
  /\ TrySend
  /\ UNCHANGED <<websocket, subscription, listening, ticking, decrypting, serverVars,
                 toClient, received, delivered, unattended, closes>>

\* MessageMediator.destroy, with the close of PushManager.destroy: what has been
\* sent may still arrive.  A reconnect whose delay is running still happens.
Destroy ==
  /\ ticking
  /\ closes < MaxCloses
  /\ closes' = closes + 1
  /\ ticking' = FALSE
  /\ websocket' = IF websocket = "none" THEN "none" ELSE "closing"
  /\ UNCHANGED <<subscription, listening, decrypting, ackQueue, serverVars, wire, received,
                 sent, delivered, unattended>>

-----------------------------------------------------------------------------
(* The application, the connection and the server *)

\* addSubscription puts the subscription into the map; the application has not got it
\* yet.  Its channel was registered on this connection or, since the writes to the
\* storage are awaited, on an earlier one.
Inserted ==
  /\ subscription = "none"
  /\ websocket = "open" \/ closes > 0
  /\ subscription' = "live"
  /\ UNCHANGED <<websocket, listening, ticking, decrypting, ackQueue, serverVars, wire,
                 received, sent, delivered, unattended, closes>>

\* The application has got the subscription, and adds a listener, if ever it does.  On
\* one that was removed that matters only while a notification is being decrypted.
Listens ==
  /\ subscription = "live" \/ \E v \in Version : decrypting[v] > 0
  /\ ~listening
  /\ listening' = TRUE
  /\ UNCHANGED <<websocket, subscription, ticking, decrypting, ackQueue, serverVars, wire,
                 received, sent, delivered, unattended, closes>>

\* removeEventListener, of the last listener.
StopsListening ==
  /\ listening
  /\ listening' = FALSE
  /\ Unattended({v \in Version : decrypting[v] > 0})
  /\ UNCHANGED <<websocket, subscription, ticking, decrypting, ackQueue, serverVars, wire,
                 received, sent, delivered, closes>>

\* removeSubscription takes the subscription out of the map.
Removed ==
  /\ subscription = "live"
  /\ subscription' = "gone"
  /\ UNCHANGED <<websocket, listening, ticking, decrypting, ackQueue, serverVars, wire,
                 received, sent, delivered, unattended, closes>>

Connect ==
  /\ websocket = "none"
  /\ websocket' = "connecting"
  /\ UNCHANGED <<clientVars, serverVars, wire, received, sent, delivered, unattended, closes>>

Open ==
  /\ websocket = "connecting"
  /\ websocket' = "open"
  /\ offered' = {}
  /\ UNCHANGED <<clientVars, data, kept, acked, wire, received, sent, delivered, unattended,
                 closes>>

Close ==
  /\ websocket \in {"connecting", "open"}
  /\ closes < MaxCloses
  /\ closes' = closes + 1
  /\ websocket' = IF ticking THEN "none" ELSE "closed"
  /\ toClient' = <<>> /\ toServer' = <<>>
  /\ UNCHANGED <<clientVars, serverVars, received, sent, delivered, unattended>>

\* The close that destroy asked for.
Closed ==
  /\ websocket = "closing"
  /\ websocket' = "closed"
  /\ toClient' = <<>> /\ toServer' = <<>>
  /\ UNCHANGED <<clientVars, serverVars, received, sent, delivered, unattended, closes>>

\* The process stops and starts: what it had not sent is gone.  A subscription in the
\* map is recovered, unless its removal has begun, with nobody listening yet.
Restart ==
  /\ MayStop
  /\ closes < MaxCloses
  /\ closes' = closes + 1
  /\ websocket' = "none"
  /\ toClient' = <<>> /\ toServer' = <<>>
  /\ listening' = FALSE
  /\ ticking' = TRUE
  /\ decrypting' = [v \in Version |-> 0]
  /\ ackQueue' = <<>>
  /\ subscription' \in IF subscription = "live" THEN {"live", "gone"} ELSE {subscription}
  /\ UNCHANGED <<serverVars, received, sent, delivered, unattended>>

ServerNotifies(v) ==
  /\ websocket = "open"
  /\ v \in kept \ offered
  /\ offered' = offered \cup {v}
  /\ toClient' = Append(toClient, v)
  /\ UNCHANGED <<websocket, clientVars, data, kept, acked, toServer, received, sent, delivered,
                 unattended, closes>>

ServerAcked ==
  /\ toServer # <<>>
  /\ toServer' = Tail(toServer)
  /\ LET updates == {Head(toServer)[i] : i \in DOMAIN Head(toServer)} IN
       /\ acked' = acked \cup updates
       /\ kept' = kept \ {u.version : u \in updates}
  /\ UNCHANGED <<websocket, clientVars, data, offered, toClient, received, sent, delivered,
                 unattended, closes>>

-----------------------------------------------------------------------------
Handle(v) == HandleUnknown(v) \/ HandleAtOnce(v) \/ HandleData(v)

AcksNext ==
  \/ \E v \in Version : Handle(v) \/ Decrypted(v) \/ ServerNotifies(v)
  \/ SendAck \/ Destroy
  \/ Inserted \/ Listens \/ StopsListening \/ Removed
  \/ Connect \/ Open \/ Close \/ Closed \/ Restart
  \/ ServerAcked

AcksSpec == AcksInit /\ [][AcksNext]_ackVars

\* Connections are made, the server sends what it keeps, messages arrive, every
\* decryption ends and the interval fires.
AcksFairness ==
  /\ WF_ackVars(Connect) /\ WF_ackVars(Open) /\ WF_ackVars(Closed)
  /\ WF_ackVars(\E v \in Version : Handle(v))
  /\ \A v \in Version : WF_ackVars(ServerNotifies(v)) /\ WF_ackVars(Decrypted(v))
  /\ WF_ackVars(SendAck) /\ WF_ackVars(ServerAcked)

FairAcksSpec == AcksSpec /\ AcksFairness

-----------------------------------------------------------------------------
(* Properties *)

\* "100: Message successfully delivered to application" (message.ts:117): the server
\* is only told SUCCESS, and so only forgets a notification as delivered, if a
\* listener got it and did not throw, on this connection or an earlier one.
SuccessMeansDelivered ==
  \A u \in acked : u.code = "SUCCESS" => u.version \in delivered

\* That holds of the notifications that somebody attends to, from their receipt to their
\* dispatch: neither a removal of the subscription during the decryption, nor a
\* listener that throws, nor a stop, a lost ack and a second delivery lead to a SUCCESS
\* for what no listener has taken (notification-handler.ts:37-53,
\* push-subscription.ts:145-161).  With no listener the code acks SUCCESS, and the
\* tests expect it (integration.spec.ts:297-316 and 343-398).
SuccessIsTrue ==
  \A u \in acked : u.code = "SUCCESS" => u.version \in delivered \cup unattended

\* The acks of a notification that the client has under way, queued or sent.
AcksUnderWay(v) == decrypting[v] + AcksOf(v, ackQueue) + sent[v]

\* No receipt is acked twice, however the decryptions of several receipts, the
\* interval and the connection interleave (message-mediator.ts:127-143).
NoSpareAcks == \A v \in Version : AcksUnderWay(v) <= received[v]

\* "sends acks when notifications are received" (integration.spec.ts:297): as long
\* as the process lasts, every receipt has its ack under way, queued or sent.
EveryReceiptAcked == \A v \in Version : AcksUnderWay(v) = received[v]

\* Every notification is acked in the end, on a connection that lasts at last:
\* an ack that is lost costs one more delivery (notification-handler.ts:22-56).
EventuallyAcked == \A v \in Version : v \in kept ~> v \notin kept \/ ~ticking
=============================================================================
