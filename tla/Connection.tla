----------------------------- MODULE Connection -----------------------------
(***************************************************************************)
(* The life of the connection of a PushManager (src/push-manager.ts): the  *)
(* websocket, its reconnection, the hello conversation                     *)
(* (hello-handler.ts, hello-sender.ts) and destroy.                        *)
(*                                                                         *)
(* The waits of the code are counted where several can be pending at once: *)
(* the write of a new uaid, which the hello handler awaits, and the timer  *)
(* of completeHello.  Both outlive the connection they began on.  The      *)
(* write takes effect in the turn that issues it (see SubscriptionStore).  *)
(***************************************************************************)
EXTENDS Naturals, Sequences

CONSTANTS
  Uaid,       \* the user agent ids the server may assign
  NoUaid,     \* null
  MaxCloses,  \* bound on failures and closes from outside and stops, together
  MayStop     \* may the process stop and start again?

ASSUME ConnectionAssumption ==
  /\ NoUaid \notin Uaid
  /\ MaxCloses \in Nat
  /\ MayStop \in BOOLEAN

VARIABLES
  running,       \* has the process begun init?
  websocket,     \* "none" is null; otherwise the readyState of _websocket
  reconnect,     \* PushManager.reconnect
  delaying,      \* reconnectDelay promises pending, each followed by connect
  helloResolve,  \* whose promise _helloResolve resolves: "create" or "nobody"
  uaid,          \* PushManager._uaid
  storedUaid,    \* the stored entry "uaid"
  assigning,     \* [Uaid -> Nat]: hello handlers awaiting the write of this uaid
  helloTimers,   \* timers of completeHello pending
  created,       \* has create returned?
  toServer,      \* the uaid of a hello on its way
  toClient,      \* the uaids of the hello answers on their way
  closes,        \* failures, closes from outside and stops so far
  lateConnects,  \* history: websockets created after destroy
  replaced,      \* history: uaids that took the place of another one
  reInited       \* history: uaids for which reInitAllSubscriptions was called

wsVars == <<websocket, reconnect, delaying>>
helloVars == <<helloResolve, uaid, storedUaid, assigning, helloTimers, created>>
wireVars == <<toServer, toClient>>
history == <<lateConnects, replaced, reInited>>
connVars == <<running, wsVars, helloVars, wireVars, closes, history>>

ConnTypeOK ==
  /\ running \in BOOLEAN
  /\ websocket \in {"none", "connecting", "open", "closing"}
  /\ reconnect \in BOOLEAN
  /\ delaying \in Nat
  /\ helloResolve \in {"nobody", "create"}
  /\ uaid \in Uaid \cup {NoUaid}
  /\ storedUaid \in Uaid \cup {NoUaid}
  /\ assigning \in [Uaid -> Nat]
  /\ helloTimers \in Nat
  /\ created \in BOOLEAN
  /\ toServer \in Seq(Uaid \cup {NoUaid})
  /\ toClient \in Seq(Uaid)
  /\ closes \in 0 .. MaxCloses
  /\ lateConnects \in Nat
  /\ replaced \subseteq Uaid
  /\ reInited \subseteq Uaid

\* No process has called create yet, and nothing is stored.
ConnInit ==
  /\ running = FALSE
  /\ websocket = "none" /\ reconnect = TRUE /\ delaying = 0
  /\ helloResolve = "nobody"
  /\ uaid = NoUaid /\ storedUaid = NoUaid
  /\ assigning = [u \in Uaid |-> 0] /\ helloTimers = 0
  /\ created = FALSE
  /\ toServer = <<>> /\ toClient = <<>>
  /\ closes = 0
  /\ lateConnects = 0 /\ replaced = {} /\ reInited = {}

-----------------------------------------------------------------------------
(* The websocket *)

\* PushManager.init: the stored uaid is read, and the first connect makes the
\* promise that create awaits.
Start ==
  /\ ~running
  /\ running' = TRUE
  /\ uaid' = storedUaid
  /\ websocket' = "connecting"
  /\ helloResolve' = "create"
  /\ UNCHANGED <<reconnect, delaying, storedUaid, assigning, helloTimers, created,
                 wireVars, closes, history>>

\* A plausible slip: the hello counts as completed when it is sent.
OpenCompletes ==
  /\ websocket = "connecting"
  /\ websocket' = "open"
  /\ toServer' = <<uaid>>
  /\ helloTimers' = helloTimers + 1
  /\ UNCHANGED <<running, reconnect, delaying, helloResolve, uaid, storedUaid, assigning,
                 created, toClient, closes, history>>

\* onopen: the hello is sent with the uaid known now.
Open ==
  /\ websocket = "connecting"
  /\ websocket' = "open"
  /\ toServer' = <<uaid>>
  /\ UNCHANGED <<running, reconnect, delaying, helloVars, toClient, closes, history>>

\* A plausible slip: _websocket is not cleared when it closes.
OnCloseKeepsWebsocket ==
  /\ websocket' = "closing"
  /\ delaying' = delaying + (IF reconnect THEN 1 ELSE 0)
  /\ toServer' = <<>>
  /\ toClient' = <<>>

\* A plausible slip: the flag that destroy clears is not consulted.
OnCloseAlways ==
  /\ websocket' = "none"
  /\ delaying' = delaying + 1
  /\ toServer' = <<>>
  /\ toClient' = <<>>

\* A plausible slip: only a connection that said hello is made again.
OnCloseBeforeCreated ==
  /\ websocket' = "none"
  /\ delaying' = delaying + (IF reconnect /\ created THEN 1 ELSE 0)
  /\ toServer' = <<>>
  /\ toClient' = <<>>

\* onclose: what was on the connection is lost, and whether to reconnect is
\* decided before the delay, not after it.
OnClose ==
  /\ websocket' = "none"
  /\ delaying' = delaying + (IF reconnect THEN 1 ELSE 0)
  /\ toServer' = <<>>
  /\ toClient' = <<>>

\* The connection cannot be made, breaks, or is closed by the server.
Close ==
  /\ websocket \in {"connecting", "open"}
  /\ closes < MaxCloses
  /\ closes' = closes + 1
  /\ OnClose
  /\ UNCHANGED <<running, reconnect, helloVars, history>>

\* The close that destroy asked for.
Closed ==
  /\ websocket = "closing"
  /\ OnClose
  /\ UNCHANGED <<running, reconnect, helloVars, closes, history>>

\* The delay is over: connect.  It would throw if there were a websocket, and it
\* gives _helloResolve a promise that nobody but onclose awaits.
Reconnect ==
  /\ delaying > 0
  /\ delaying' = delaying - 1
  /\ websocket = "none"
  /\ websocket' = "connecting"
  /\ helloResolve' = "nobody"
  /\ lateConnects' = lateConnects + (IF reconnect THEN 0 ELSE 1)
  /\ UNCHANGED <<running, reconnect, uaid, storedUaid, assigning, helloTimers, created,
                 wireVars, closes, replaced, reInited>>

\* PushManager.destroy, which the application can call once create has returned.
Destroy ==
  /\ created
  /\ reconnect
  /\ reconnect' = FALSE
  /\ websocket' = IF websocket = "none" THEN "none" ELSE "closing"
  /\ UNCHANGED <<running, delaying, helloVars, wireVars, closes, history>>

-----------------------------------------------------------------------------
(* The hello conversation *)

\* The server (external) keeps the uaid it is told or assigns another.
ServerHello ==
  /\ toServer # <<>>
  /\ toServer' = <<>>
  /\ \E u \in Uaid : toClient' = Append(toClient, u)
  /\ UNCHANGED <<running, wsVars, helloVars, closes, history>>

Received(u) == toClient # <<>> /\ Head(toClient) = u /\ toClient' = Tail(toClient)

\* HelloHandler.handle for the uaid the client has: completeHello only sets its
\* timer, and the comparison that follows finds no difference.
HandleHello(u) ==
  /\ Received(u)
  /\ uaid = u
  /\ helloTimers' = helloTimers + 1
  /\ UNCHANGED <<running, wsVars, helloResolve, uaid, storedUaid, assigning, created,
                 toServer, closes, history>>

\* HelloHandler.handle for another uaid, up to the await in setUaid.
HandleNewUaid(u) ==
  /\ Received(u)
  /\ uaid # u
  /\ uaid' = u
  /\ storedUaid' = u
  /\ assigning' = [assigning EXCEPT ![u] = @ + 1]
  /\ replaced' = IF uaid = NoUaid THEN replaced ELSE replaced \cup {u}
  /\ UNCHANGED <<running, wsVars, helloResolve, helloTimers, created, toServer, closes,
                 lateConnects, reInited>>

\* A plausible slip: the timer is left out of this path.
UaidWrittenNoTimer(u) ==
  /\ assigning[u] > 0
  /\ assigning' = [assigning EXCEPT ![u] = @ - 1]
  /\ reInited' = IF uaid # u THEN reInited \cup {u} ELSE reInited
  /\ UNCHANGED <<running, wsVars, helloResolve, uaid, storedUaid, helloTimers, created,
                 wireVars, closes, lateConnects, replaced>>

\* The write settles: completeHello sets its timer, and only now the handler
\* compares the uaid of the manager with the one of the message.
UaidWritten(u) ==
  /\ assigning[u] > 0
  /\ assigning' = [assigning EXCEPT ![u] = @ - 1]
  /\ helloTimers' = helloTimers + 1
  /\ reInited' = IF uaid # u THEN reInited \cup {u} ELSE reInited
  /\ UNCHANGED <<running, wsVars, helloResolve, uaid, storedUaid, created, wireVars, closes,
                 lateConnects, replaced>>

\* A plausible slip: an interval that goes on where a timeout was meant.
HelloInterval ==
  /\ helloTimers' = helloTimers - 1
  /\ created' = (created \/ helloResolve = "create")
  /\ UNCHANGED <<running, wsVars, helloResolve, uaid, storedUaid, assigning, wireVars,
                 closes, history>>

\* The timer of completeHello calls _helloResolve, whatever it is by now.
HelloTimer ==
  /\ helloTimers > 0
  /\ helloTimers' = helloTimers - 1
  /\ created' = (created \/ helloResolve = "create")
  /\ UNCHANGED <<running, wsVars, helloResolve, uaid, storedUaid, assigning, wireVars,
                 closes, history>>

-----------------------------------------------------------------------------
\* The process stops; storedUaid is what is left of it.
Stop ==
  /\ MayStop
  /\ running
  /\ closes < MaxCloses
  /\ closes' = closes + 1
  /\ running' = FALSE
  /\ websocket' = "none" /\ reconnect' = TRUE /\ delaying' = 0
  /\ helloResolve' = "nobody"
  /\ uaid' = NoUaid
  /\ assigning' = [u \in Uaid |-> 0] /\ helloTimers' = 0
  /\ created' = FALSE
  /\ toServer' = <<>> /\ toClient' = <<>>
  /\ lateConnects' = 0 /\ replaced' = {} /\ reInited' = {}
  /\ UNCHANGED storedUaid

ConnNext ==
  \/ Start \/ Open \/ Close \/ Closed \/ Reconnect \/ Destroy
  \/ ServerHello
  \/ \E u \in Uaid : HandleHello(u) \/ HandleNewUaid(u) \/ UaidWritten(u)
  \/ HelloTimer
  \/ Stop

ConnSpec == ConnInit /\ [][ConnNext]_connVars

\* Connections are made, messages arrive and are answered, writes settle, timers
\* and delays elapse.
ConnFairness ==
  /\ WF_connVars(Start) /\ WF_connVars(Open) /\ WF_connVars(Closed)
  /\ WF_connVars(Reconnect) /\ WF_connVars(ServerHello) /\ WF_connVars(HelloTimer)
  /\ WF_connVars(\E u \in Uaid : HandleHello(u) \/ HandleNewUaid(u))
  /\ \A u \in Uaid : WF_connVars(UaidWritten(u))

FairConnSpec == ConnSpec /\ ConnFairness

-----------------------------------------------------------------------------
(* Properties *)

\* The manager never has two connections to make at the same time, so connect
\* never throws "WebSocket already connected": at most one delay runs, and only
\* while there is no websocket (push-manager.ts:165-208).
SingleConnection == delaying <= 1 /\ (delaying > 0 => websocket = "none")

\* After destroy at most one more websocket is created, the one whose delay was
\* already running (push-manager.ts:159-163, 204-206).
AtMostOneLateConnect == lateConnects <= 1

\* The application never has a manager without a uaid, whatever was lost before
\* create returned, so its first subscribe cannot fail with "Hello not
\* completed" (push-manager.ts:74-82, register-sender.ts:22-24).
CreatedKnowsUaid == created => uaid # NoUaid

\* "We've been assigned a new UAID. Clear out all subscriptions. and re-register"
\* (hello-handler.ts:25-26): once the handler of a hello that replaced the uaid
\* is past the comparison, it has called reInitAllSubscriptions.
NewUaidReInits == \A u \in replaced : assigning[u] = 0 => u \in reInited

\* create returns if the connection it waits for lasts until the hello is
\* completed (push-manager.ts:151-157, 170-172, 210).
CreateReturns ==
  running /\ helloResolve = "create" ~>
    created \/ ~running \/ helloResolve = "nobody"

\* A manager that is not destroyed comes back after every close of its connection
\* (push-manager.ts:195-208).
Reconnects == running /\ reconnect /\ websocket = "none" ~> websocket = "open" \/ ~reconnect \/ ~running
=============================================================================
