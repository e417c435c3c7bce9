---------------------------- MODULE Registration ----------------------------
(***************************************************************************)
(* The register and unregister conversations with the push server:         *)
(* subscribe and unsubscribe of PushManager, RegisterHandler,              *)
(* UnregisterHandler and their senders, on top of SubscriptionStore.       *)
(*                                                                         *)
(* Messages travel in order and die with the connection.  Replies are      *)
(* handled one at a time up to the handler's first await; after it the     *)
(* handlers interleave, which the steps of SubscriptionStore account for.  *)
(* Timers fire at any time after they are set: the code sets them to 60 s  *)
(* and nothing bounds how long a reply or a write takes.                   *)
(*                                                                         *)
(* The connection is only as detailed as this needs; Connection.tla has    *)
(* its life cycle.  The server is external.                                *)
(***************************************************************************)
EXTENDS SubscriptionStore, FiniteSets

CONSTANTS
  Key,            \* application server keys
  Caller,         \* parts of the application, each with one call at a time
  Fault,          \* what may go wrong, a subset of FaultKind
  MaxSubscribes,  \* subscribe draws no new channel once so many are drawn
  MaxErrors       \* how many error replies the server may send

FaultKind == {"close", "crash", "expire", "refuse"}

ASSUME RegistrationAssumption ==
  /\ ~StorageMayReject
  /\ Key # {}
  /\ Fault \subseteq FaultKind
  /\ MaxSubscribes \in Nat
  /\ MaxErrors \in Nat

\* What a caller is doing: nothing, waiting in subscribe(k), holding the
\* subscription it got for k, waiting in its unsubscribe(), done with it.
Idling == [op |-> "idle"]
Subscribing(k) == [op |-> "subscribing", key |-> k]
Holding(k, c) == [op |-> "holding", key |-> k, channel |-> c]
Unsubscribing(k, c) == [op |-> "unsubscribing", key |-> k, channel |-> c]
Unsubscribed(k, c) == [op |-> "unsubscribed", key |-> k, channel |-> c]
Call ==
  [op : {"idle"}] \cup [op : {"subscribing"}, key : Key]
    \cup [op : {"holding", "unsubscribing", "unsubscribed"}, key : Key, channel : Channel]

\* The messages.  Status 200 and 500 are the server's; 409 is a conflict, and
\* 400 stands for every status the register handler does not know.
ToRegister(c) == [messageType |-> "register", channelID |-> c]
ToUnregister(c) == [messageType |-> "unregister", channelID |-> c]
RegisterReply(c, s) == [messageType |-> "register", channelID |-> c, status |-> s]
UnregisterReply(c, s) == [messageType |-> "unregister", channelID |-> c, status |-> s]
Request == [messageType : {"register", "unregister"}, channelID : Channel]
Reply ==
  [messageType : {"register"}, channelID : Channel, status : {200, 400, 409, 500}]
    \cup [messageType : {"unregister"}, channelID : Channel, status : {200, 500}]

\* PushManager.create: not connecting yet, waiting for the hello of its connection, that
\* hello completed but its timer still running, returned to the application; or waiting
\* for ever, since a reconnect has replaced the promise it waits for.
Creation == {"starting", "waiting", "answered", "returned", "replaced"}

VARIABLES
  websocket,         \* the state of _websocket: "none" is null
  creation,          \* what has become of PushManager.create
  drawn,             \* the channels that newUuid has returned
  keyOf,             \* the options of a drawn channel: its key
  registeringQueue,  \* RegisterHandler.registeringQueue
  registerRetries,   \* channels whose register is to be retried by a timer
  unregisterRetries, \* how many timers will retry the unregister of a channel
  call,              \* what each caller is doing
  toServer,          \* requests on their way
  toClient,          \* replies on their way
  registered,        \* the server's channels for this user agent
  errors,            \* error replies sent so far
  unbroken,          \* history: has no connection closed and no process stopped?
  overlapped,        \* history: keys for which two subscribes were pending at once
  unsubscribeCalled  \* history: channels whose unsubscribe the application has called

clientVars == <<drawn, keyOf, registeringQueue, registerRetries, unregisterRetries>>
wireVars == <<toServer, toClient>>
serverVars == <<registered, errors>>
history == <<unbroken, overlapped, unsubscribeCalled>>
regVars ==
  <<storeVars, websocket, creation, clientVars, call, wireVars, serverVars, history>>

RegTypeOK ==
  /\ TypeOK
  /\ websocket \in {"none", "connecting", "open"}
  /\ creation \in Creation
  /\ drawn \subseteq Channel
  /\ keyOf \in [Channel -> Key]
  /\ registeringQueue \subseteq Channel
  /\ registerRetries \subseteq Channel
  /\ unregisterRetries \in [Channel -> Nat]
  /\ call \in [Caller -> Call]
  /\ toServer \in Seq(Request)
  /\ toClient \in Seq(Reply)
  /\ registered \subseteq Channel
  /\ errors \in 0 .. MaxErrors
  /\ unbroken \in BOOLEAN
  /\ overlapped \subseteq Key
  /\ unsubscribeCalled \subseteq Channel

\* The key of a channel means nothing before the channel is drawn.
RegInit ==
  /\ StoreInit
  /\ websocket = "none"
  /\ creation = "starting"
  /\ drawn = {}
  /\ keyOf = [c \in Channel |-> CHOOSE k \in Key : TRUE]
  /\ registeringQueue = {}
  /\ registerRetries = {}
  /\ unregisterRetries = [c \in Channel |-> 0]
  /\ call = [p \in Caller |-> Idling]
  /\ toServer = <<>>
  /\ toClient = <<>>
  /\ registered = {}
  /\ errors = 0
  /\ unbroken = TRUE
  /\ overlapped = {}
  /\ unsubscribeCalled = {}

-----------------------------------------------------------------------------
(* Sending *)

\* mediator.send while there is a websocket: one that is still connecting throws.
Send(m) == toServer' = IF websocket = "open" THEN Append(toServer, m) ELSE toServer

\* RegisterSender.buildMessage and send: a new channel is drawn and expected,
\* before it is known whether the message can be sent.
SendRegister(k) ==
  \E c \in Channel \ drawn :
    /\ drawn' = drawn \cup {c}
    /\ keyOf' = [keyOf EXCEPT ![c] = k]
    /\ registeringQueue' = registeringQueue \cup {c}
    /\ Send(ToRegister(c))

-----------------------------------------------------------------------------
(* The application *)

Resolve(p, result) == call' = [call EXCEPT ![p] = result]

\* subscribe and unsubscribe throw and change nothing before create has
\* returned and while _websocket is null.
Initialized == up /\ creation = "returned" /\ websocket # "none"

MaySubscribe(p) == Initialized /\ call[p].op \in {"idle", "unsubscribed"}

\* A plausible slip: a lookup that finds nothing, as when it compares objects.
WithKeyMissing(k) == {}

\* getByApplicationServerKey
WithKey(k) == {c \in subscriptions : keyOf[c] = k}

\* subscribe, when a subscription with the key is in the map.
SubscribeExisting(p, k) ==
  /\ MaySubscribe(p)
  /\ \E c \in WithKey(k) : Resolve(p, Holding(k, c))
  /\ UNCHANGED <<storeVars, websocket, creation, clientVars, wireVars, serverVars, history>>

\* subscribe, when there is none.  If the websocket is still connecting the
\* promise is rejected, and the channel drawn for it stays expected.
SubscribeNew(p, k) ==
  /\ MaySubscribe(p)
  /\ Cardinality(drawn) < MaxSubscribes
  /\ WithKey(k) = {}
  /\ SendRegister(k)
  /\ IF websocket = "open" THEN Resolve(p, Subscribing(k)) ELSE UNCHANGED call
  /\ overlapped' =
       overlapped \cup {j \in {k} : \E q \in Caller : call[q] = Subscribing(k)}
  /\ UNCHANGED <<storeVars, websocket, creation, registerRetries, unregisterRetries,
                 toClient, serverVars, unbroken, unsubscribeCalled>>

\* PushSubscription.unsubscribe, through the callback to PushManager.unsubscribe.
\* If the websocket is still connecting it throws and changes nothing.
Unsubscribe(p) ==
  /\ Initialized
  /\ websocket = "open"
  /\ call[p].op = "holding"
  /\ Resolve(p, [call[p] EXCEPT !.op = "unsubscribing"])
  /\ Send(ToUnregister(call[p].channel))
  /\ unsubscribeCalled' = unsubscribeCalled \cup {call[p].channel}
  /\ UNCHANGED <<storeVars, websocket, creation, clientVars, toClient, serverVars, unbroken,
                 overlapped>>

-----------------------------------------------------------------------------
(* RegisterHandler *)

Received(m) == toClient # <<>> /\ Head(toClient) = m /\ toClient' = Tail(toClient)

\* handle, status 200, for an expected channel: addSubscription begins.
HandleRegistered(c) ==
  /\ Received(RegisterReply(c, 200))
  /\ c \in registeringQueue
  /\ registeringQueue' = registeringQueue \ {c}
  /\ AddStart(c)
  /\ UNCHANGED <<websocket, creation, drawn, keyOf, registerRetries, unregisterRetries,
                 call, toServer, serverVars, history>>

\* A plausible slip: a registration nobody expects any more is ignored.
HandleUnexpectedIgnored(c) ==
  /\ Received(RegisterReply(c, 200))
  /\ c \notin registeringQueue
  /\ UNCHANGED <<storeVars, websocket, creation, clientVars, call, toServer, serverVars, history>>

\* handle, status 200, when the channel is no longer expected: it is unregistered.
HandleUnexpected(c) ==
  /\ Received(RegisterReply(c, 200))
  /\ c \notin registeringQueue
  /\ Send(ToUnregister(c))
  /\ UNCHANGED <<storeVars, websocket, creation, clientVars, call, serverVars, history>>

\* A plausible slip: a conflict is given up.
RetryNowGivesUp(c) == UNCHANGED <<drawn, keyOf, registeringQueue, toServer>>

\* retryRegister with no delay, for a channel that is still expected.
RetryNow(c) ==
  IF c \in registeringQueue
    THEN SendRegister(keyOf[c])
    ELSE UNCHANGED <<drawn, keyOf, registeringQueue, toServer>>

\* handle, status 409: retryRegister at once, under a new channel.
HandleConflict(c) ==
  /\ Received(RegisterReply(c, 409))
  /\ RetryNow(c)
  /\ UNCHANGED <<storeVars, websocket, creation, registerRetries, unregisterRetries,
                 call, serverVars, history>>

\* handle, status 500: retryRegister looks the channel up now and sends later.
HandleRegisterError(c) ==
  /\ Received(RegisterReply(c, 500))
  /\ registerRetries' =
       registerRetries \cup (IF c \in registeringQueue THEN {c} ELSE {})
  /\ UNCHANGED <<storeVars, websocket, creation, drawn, keyOf, registeringQueue,
                 unregisterRetries, call, toServer, serverVars, history>>

\* handle, any other status: nothing.
HandleRefused(c) ==
  /\ Received(RegisterReply(c, 400))
  /\ UNCHANGED <<storeVars, websocket, creation, clientVars, call, toServer, serverVars, history>>

\* The retry timer.  With no websocket send throws at once; nobody handles that.
RetryRegister(c) ==
  /\ c \in registerRetries
  /\ registerRetries' = registerRetries \ {c}
  /\ IF websocket = "none"
       THEN UNCHANGED <<drawn, keyOf, registeringQueue, toServer>>
       ELSE SendRegister(keyOf[c])
  /\ UNCHANGED <<storeVars, websocket, creation, unregisterRetries, call, toClient,
                 serverVars, history>>

\* The timer of expectRegister.
ExpireRegister(c) ==
  /\ "expire" \in Fault
  /\ c \in registeringQueue
  /\ registeringQueue' = registeringQueue \ {c}
  /\ UNCHANGED <<storeVars, websocket, creation, drawn, keyOf, registerRetries,
                 unregisterRetries, call, wireVars, serverVars, history>>

\* A plausible slip: any registration resolves every pending subscribe.
NotifyRegisteredAny(c) ==
  call' = [p \in Caller |-> IF call[p].op = "subscribing"
                            THEN Holding(call[p].key, c) ELSE call[p]]

\* The "registered" event resolves every pending subscribe for the channel's key.
NotifyRegistered(c) ==
  call' = [p \in Caller |-> IF call[p] = Subscribing(keyOf[c])
                            THEN Holding(keyOf[c], c) ELSE call[p]]

\* addSubscription has returned.
Registered(c) ==
  /\ AddReturn(c)
  /\ NotifyRegistered(c)
  /\ UNCHANGED <<websocket, creation, clientVars, wireVars, serverVars, history>>

-----------------------------------------------------------------------------
(* UnregisterHandler *)

\* The "unregistered" event resolves every pending unsubscribe of the channel.
NotifyUnregistered(c) ==
  call' = [p \in Caller |-> IF call[p].op = "unsubscribing" /\ call[p].channel = c
                            THEN [call[p] EXCEPT !.op = "unsubscribed"] ELSE call[p]]

\* A plausible slip: the subscription is left in place.
BeginRemovalNever(c) == UNCHANGED storeVars

\* removeSubscription up to its first await.
BeginRemoval(c) ==
  IF c \in subscriptions THEN \E r \in Remover : RemoveStart(r, c) ELSE UNCHANGED storeVars

\* handle, status 200: the callers are told, and in the same turn the removal
\* of the subscription begins, if there is one.
HandleUnregistered(c) ==
  /\ Received(UnregisterReply(c, 200))
  /\ NotifyUnregistered(c)
  /\ BeginRemoval(c)
  /\ UNCHANGED <<websocket, creation, clientVars, toServer, serverVars, history>>

\* handle, status 500: the unregister is sent again by a timer.
HandleUnregisterError(c) ==
  /\ Received(UnregisterReply(c, 500))
  /\ unregisterRetries' = [unregisterRetries EXCEPT ![c] = @ + 1]
  /\ UNCHANGED <<storeVars, websocket, creation, drawn, keyOf, registeringQueue,
                 registerRetries, call, toServer, serverVars, history>>

\* A plausible slip: the retry timer is set and does nothing.
RetryUnregisterForgets(c) ==
  /\ unregisterRetries[c] > 0
  /\ unregisterRetries' = [unregisterRetries EXCEPT ![c] = @ - 1]
  /\ UNCHANGED <<storeVars, websocket, creation, drawn, keyOf, registeringQueue,
                 registerRetries, call, wireVars, serverVars, history>>

\* A plausible slip: the timer is not cleared when it fires, or fires unset.
RetryUnregisterUnset(c) ==
  /\ unregisterRetries' = [unregisterRetries EXCEPT ![c] = @ - 1]
  /\ Send(ToUnregister(c))
  /\ UNCHANGED <<storeVars, websocket, creation, drawn, keyOf, registeringQueue,
                 registerRetries, call, toClient, serverVars, history>>

\* The retry timer.  Without an open websocket send throws and nobody handles it.
RetryUnregister(c) ==
  /\ unregisterRetries[c] > 0
  /\ unregisterRetries' = [unregisterRetries EXCEPT ![c] = @ - 1]
  /\ Send(ToUnregister(c))
  /\ UNCHANGED <<storeVars, websocket, creation, drawn, keyOf, registeringQueue,
                 registerRetries, call, toClient, serverVars, history>>

-----------------------------------------------------------------------------
(* The server (external): it answers each request, in order. *)

Answers(m) ==
  /\ toServer' = Tail(toServer)
  /\ toClient' = Append(toClient, m)

ServerAccepts ==
  /\ toServer # <<>>
  /\ LET m == Head(toServer) IN
       IF m.messageType = "register"
         THEN /\ registered' = registered \cup {m.channelID}
              /\ Answers(RegisterReply(m.channelID, 200))
         ELSE /\ registered' = registered \ {m.channelID}
              /\ Answers(UnregisterReply(m.channelID, 200))
  /\ UNCHANGED <<storeVars, websocket, creation, clientVars, call, errors, history>>

RegisterErrors == {409, 500} \cup (IF "refuse" \in Fault THEN {400} ELSE {})

ServerFails ==
  /\ toServer # <<>>
  /\ errors < MaxErrors
  /\ errors' = errors + 1
  /\ LET m == Head(toServer) IN
       IF m.messageType = "register"
         THEN \E s \in RegisterErrors : Answers(RegisterReply(m.channelID, s))
         ELSE Answers(UnregisterReply(m.channelID, 500))
  /\ UNCHANGED <<storeVars, websocket, creation, clientVars, call, registered, history>>

-----------------------------------------------------------------------------
(* The connection and the process *)

\* connect gives _helloResolve a new promise; create waits for that of the first
\* connection, and goes on waiting for it.
NewHelloPromise ==
  creation' = CASE creation = "starting" -> "waiting"
                [] creation \in {"waiting", "answered"} -> "replaced"
                [] OTHER -> creation

Connect ==
  /\ up
  /\ websocket = "none"
  /\ websocket' = "connecting"
  /\ NewHelloPromise
  /\ UNCHANGED <<storeVars, clientVars, call, wireVars, serverVars, history>>

\* onopen; on the connection that create waits for, up to completeHello, before which
\* nothing else is sent on it.
Open ==
  /\ websocket = "connecting"
  /\ websocket' = "open"
  /\ creation' = IF creation = "waiting" THEN "answered" ELSE creation
  /\ UNCHANGED <<storeVars, clientVars, call, wireVars, serverVars, history>>

\* The timer of completeHello, which fires even if the connection has closed meanwhile.
CreateReturns ==
  /\ creation = "answered"
  /\ creation' = "returned"
  /\ UNCHANGED <<storeVars, websocket, clientVars, call, wireVars, serverVars, history>>

\* The connection fails or is closed: whatever is on it is lost.
Close ==
  /\ "close" \in Fault
  /\ websocket # "none"
  /\ websocket' = "none"
  /\ toServer' = <<>>
  /\ toClient' = <<>>
  /\ unbroken' = FALSE
  /\ UNCHANGED <<storeVars, creation, clientVars, call, serverVars, overlapped,
                 unsubscribeCalled>>

\* The process stops; the application starts again with the new process.
Stop ==
  /\ "crash" \in Fault
  /\ Crash
  /\ websocket' = "none"
  /\ creation' = "starting"
  /\ registeringQueue' = {}
  /\ registerRetries' = {}
  /\ unregisterRetries' = [c \in Channel |-> 0]
  /\ call' = [p \in Caller |-> Idling]
  /\ toServer' = <<>>
  /\ toClient' = <<>>
  /\ unbroken' = FALSE
  /\ UNCHANGED <<drawn, keyOf, serverVars, overlapped, unsubscribeCalled>>

\* What the store does between its awaits, with no effect on the rest.
StoreRuns ==
  /\ \/ \E c \in Channel : AddWrite(c) \/ AddInsert(c)
     \/ \E t \in removing : RemoveStep(t)
     \/ LoadSubscriptions
  /\ UNCHANGED <<websocket, creation, clientVars, call, wireVars, serverVars, history>>

-----------------------------------------------------------------------------
Application ==
  \E p \in Caller :
    Unsubscribe(p) \/ \E k \in Key : SubscribeExisting(p, k) \/ SubscribeNew(p, k)

Handle(c) ==
  \/ HandleRegistered(c) \/ HandleUnexpected(c) \/ HandleConflict(c)
  \/ HandleRegisterError(c) \/ HandleRefused(c)
  \/ HandleUnregistered(c) \/ HandleUnregisterError(c)

Retry(c) == RetryRegister(c) \/ RetryUnregister(c)
Server == ServerAccepts \/ ServerFails

RegNext ==
  \/ Application
  \/ \E c \in Channel : Handle(c) \/ Retry(c) \/ ExpireRegister(c) \/ Registered(c)
  \/ Server
  \/ Connect \/ Open \/ CreateReturns \/ Close \/ Stop
  \/ StoreRuns

RegSpec == RegInit /\ [][RegNext]_regVars

\* The network delivers, timers fire, promises of the storage settle, and the
\* server answers every request, with an error only MaxErrors times.
RegFairness ==
  /\ WF_regVars(\E c \in Channel : Handle(c))
  /\ WF_regVars(Server)
  /\ \A c \in Channel : WF_regVars(Retry(c)) /\ WF_regVars(Registered(c))
  /\ WF_regVars(StoreRuns)
  /\ WF_regVars(Connect \/ Open \/ CreateReturns)

FairRegSpec == RegSpec /\ RegFairness
-----------------------------------------------------------------------------
(* Properties *)

Requested(m) == \E i \in 1 .. Len(toServer) : toServer[i] = m
Answered(m) == \E i \in 1 .. Len(toClient) : toClient[i] = m

\* On a connection that lasts, no registration is forgotten at the server: a
\* channel it has for this client belongs to a subscription, or to an answer that
\* is still to arrive, or to an unregister that is on its way or will be sent
\* (again).  Expiry of the wait and error replies included: this is what the
\* unregister of an unexpected registration is for (register-handler.ts:77-86).
ServerChannelsAccounted ==
  unbroken =>
    \A c \in registered :
      \/ Answered(RegisterReply(c, 200))
      \/ phase[c] \in {"creating", "kept"}
      \/ Requested(ToUnregister(c))
      \/ Answered(UnregisterReply(c, 500))
      \/ unregisterRetries[c] > 0

\* On a connection that lasts, a subscription that is not under removal can
\* receive notifications: the server has its channel, or the answer that will
\* begin the removal is on its way (register-handler.ts:87-96, unregister-handler.ts:67-71).
SubscriptionsRegistered ==
  unbroken =>
    \A c \in Channel :
      phase[c] \in {"creating", "kept"} =>
        c \in registered \/ Answered(UnregisterReply(c, 200))

\* What a subscribe resolved to is a subscription for the key that was asked for,
\* whichever of several registrations finished first, and a living one: it is in the
\* map, and completely on disk.  The one exception is a subscription that the
\* application itself has unsubscribed: once its removal has begun it can still be
\* found in the map and returned, and it is gone for whoever held it before
\* (register-handler.ts:104-113, push-manager.ts:97-111).
SubscribeReturnsItsKey ==
  \A p \in Caller :
    call[p].op = "holding" =>
      LET c == call[p].channel IN
        /\ keyOf[c] = call[p].key
        /\ \/ Recoverable(c) /\ (up => c \in subscriptions)
           \/ phase[c] = "removed" /\ c \in unsubscribeCalled

\* When unsubscribe has resolved, neither side keeps the channel: the server has
\* dropped it, and a restart would not bring it back, although the removal has
\* only begun (unregister-handler.ts:67-71).
UnsubscribeIsComplete ==
  \A p \in Caller :
    call[p].op = "unsubscribed" =>
      call[p].channel \notin registered /\ ~Recoverable(call[p].channel)

\* "A single PushManager can manage multiple subscriptions, but only one per
\* applicationServerKey" (README.md:58).
OnePerKey == \A c, d \in subscriptions : keyOf[c] = keyOf[d] => c = d

\* That holds of every key whose subscribes were made one after the other, through
\* late answers, retries, unsubscribes and restarts; two that are pending at the
\* same time both found nothing (push-manager.ts:97-111).
OnePerKeyInTurn ==
  \A c, d \in subscriptions :
    keyOf[c] = keyOf[d] /\ keyOf[c] \notin overlapped => c = d

\* On a connection that lasts and with no expiry, every subscribe and every
\* unsubscribe settles, through conflicts, errors and retries
\* (register-handler.ts:59-70, unregister-handler.ts:47-64).
SubscribeSettles == \A p \in Caller : call[p].op = "subscribing" ~> call[p].op # "subscribing"
UnsubscribeSettles == \A p \in Caller : call[p].op = "unsubscribing" ~> call[p].op # "unsubscribing"
=============================================================================
