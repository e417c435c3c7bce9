# A specification of autopush-manager

autopush-manager is a TypeScript client for Mozilla's autopush server: it keeps one
websocket to the server, registers push subscriptions over it, stores them so that they
survive a restart, decrypts the notifications that arrive and hands them to the
application. These modules specify its core in TLA+: what happens at every `await`, on
every message, timer, lost connection and stop of the process. TLC checks small instances;
TLAPS proves the central results for every value of the constants.

Paths below are relative to the repository's `src/` directory.

## Running it

    tlc -config MCStore.cfg MCSubscriptionStore     # likewise for the other runs
    tlapm SubscriptionStoreProofs.tla               # and the other ...Proofs modules

## The system

JavaScript runs one turn at a time. A turn ends at an `await` of something that is not yet
settled; in between, other turns (a message, a timer, a call of the application) may run.
That is the unit of the specification: *an action is a turn*, with everything the turn
does. The process can stop between two turns and start again on what it has stored.

| Component | State it keeps | Operations | Talks to |
|---|---|---|---|
| `PushManager` (push-manager.ts) | `_uaid`, `_websocket`, `_helloResolve`, `reconnect` | `create`, `subscribe`, `unsubscribe`, `destroy`, `connect` and its callbacks, `completeHello`, `setUaid` | the application, the mediator, the storage |
| `SubscriptionHandler` (subscription-handler.ts) | the map of subscriptions, mirrored in the stored list `channelIDs` | `addSubscription`, `removeSubscription`, `loadSubscriptions`, lookups, `reInitAllSubscriptions` | `PushSubscription`, `Storage` |
| `PushSubscription` (push-subscription.ts) | keys, endpoint, options; four stored entries per channel | `create`, `recover`, `reInit`, `destroy`, `unsubscribe`, `handleNotification`, listeners | `Storage`, crypto, `EventManager`, `PushManager.unsubscribe` by callback |
| `Storage` (storage.ts) | nothing: it prefixes names and serialises to the application's storage | `read`, `write`, `remove`, `extend` | the application's storage |
| `RegisterHandler`, `RegisterSender` | `registeringQueue` with one timer per channel, retry timers | `expectRegister`, `handle` (200, 409, 500, other), `retryRegister`, `awaitRegister` | the mediator, `SubscriptionHandler`, pending subscribes by event |
| `UnregisterHandler`, `UnregisterSender` | the queue of reasons, retry timers | `handle` (500, other), `awaitUnregister` | the same |
| `HelloHandler`, `HelloSender` | none | `handle`, `buildMessage` | `PushManager.completeHello` |
| `NotificationHandler` | none | `handle` | the subscription, `MessageMediator.ack` |
| `MessageMediator` (message-mediator.ts) | the ack queue and its interval | `handle`, `send`, `ack`, `sendAck`, `destroy` | everything above |
| `EventManager` (event-manager.ts) | the map of listeners | `addEventListener`, `removeEventListener`, `dispatchEvent` | application and handlers |
| crypto.ts, string-manipulation.ts | none | pure functions over the platform's primitives | `PushSubscription` |
| Ping, broadcast, nack, logger, message types | none | log, throw, or format | - |

What is hard in it, and what makes each part correct:

* **Persistence.** A subscription is four entries and a name in a list, written one by one
  over awaits, while other additions and removals are half-way and the process may stop.
  Correct: what was handed out is never lost, what was removed never returns, a damaged
  subscription never harms another.
* **Registration.** Replies may come late, twice in effect (a retry draws a new channel
  while the old one is still expected), or never; several calls of several callers are told
  apart only by key and channel. Correct: each call gets what it asked for, once; client and
  server agree on the channels up to what is on its way; a call settles if the network does
  its part.
* **Connection.** Timers of an old connection act on a later one. Correct: one connection at
  a time, always one again, at most one after `destroy`, never a manager without a uaid.
* **Notifications.** Decryptions overlap; acks are queued, lost, repeated. Correct: every
  notification is acked in the end, no receipt twice, and SUCCESS only for what a listener
  has taken, as long as there is one.
* **Payload.** A key goes through two encodings, the storage and the application to a
  server, and comes back as part of a content with a header of variable length and a padding
  of any length. Correct: listeners are given exactly what was encrypted for this
  subscription or nothing at all, and what was encrypted for it is never refused.
* **Events.** A listener is code of the application: it may add and remove listeners, itself
  included, and throw, in the middle of a dispatch over the live map. Correct: an event
  reaches whoever stays registered.

The hazards, each at its line and with the properties that cover it, are listed in
`PROJECT.json`.

## The modules

    DurableSet               what the persistence promises: a set, changed atomically
      ^ implemented by
    SubscriptionStore        SubscriptionHandler, PushSubscription, Storage
      ^ extended by          (MCSubscriptionStore, SubscriptionStoreProofs)
    Registration             subscribe and unsubscribe, their handlers, the server
                             (MCRegistration, RegistrationProofs, AgreementProofs)
    Connection               the websocket, hello, reconnection, destroy
                             (MCConnection, ConnectionProofs)
    Acks                     notifications, the ack queue (MCAcks, AcksProofs)
    Payload                  crypto.ts, string-manipulation.ts, the example's sender:
                             pure functions (PayloadProofs)
    EventManager             one event, its listeners and its dispatch
      ^ both extended by
    Delivery                 one subscription: its keys, storage, decryption, dispatch,
                             outcome (MCDelivery, DeliveryProofs)
    ReInit                   one call of reInitAllSubscriptions (MCReInit, ReInitProofs)

An operator whose comment begins "A plausible slip" is not part of any specification. It
is what the definition after it would be with a likely mistake in it, and it shows that
the property named for it in `PROJECT.json` would notice.

### SubscriptionStore

One variable per place state lives: `subscriptions` is the map, `stored` and `channelIDs`
the disk. `phase` says what has become of a channel, which is where the calls under way
keep their place: a channel in phase "creating" is an `addSubscription` between two of its
awaits (which one can be read off `stored`), `saving` are those that await the write of the
list, `removing` holds the `removeSubscription` calls with the number of entries they have
removed. `AddStart`, `AddWrite`, `AddInsert`, `AddReturn` are the turns of
`addSubscription` with `PushSubscription.create` and `generateKeys`; `RemoveStart`,
`RemoveNext`, `RemoveFinish` those of `removeSubscription` with `destroy`. `Crash` ends the
process, and `LoadSubscriptions` is the start: it only reads, and nothing else runs before
it returns.

With `StorageMayReject` any operation may be rejected. Of a write or a remove, whether or not
it took effect, the call that awaited it throws. A rejected read of the entries of a channel is
caught, and the channel is skipped like one that is incomplete (`LoadSubscriptionsRejected`):
it is in phase "skipped", all its entries are on disk, and the next start recovers it unless
a list is written before, which drops its name. When the read of the list itself is rejected,
`create` throws.

*A storage operation takes effect in the turn that issues it*, and its promise settles
later. This holds of every storage in the repository (spec/test-storage.ts and
examples/listen_send/src/storage.ts), and the interface promises nothing; with a storage
that may reorder two writes under way, `writeChannelIds` could leave an older list behind.

A removal may run twice for one channel (two unregister replies, two calls): `Remover`
names the calls that run at the same time.

### Registration

Extends SubscriptionStore and drives it. `Caller` are parts of the application with one
call each; `call` is what each of them waits for. `Subscribe...` and `Unsubscribe` are the
calls up to their `await`, with their refusals; `Handle...` is one action per status of the
two handlers, up to the handler's first await; `Registered` is the turn in which
`addSubscription` returns and the event reaches the pending callers. `RetryRegister`,
`RetryUnregister`, `ExpireRegister` are timers. They may fire at any time after they are set:
the code gives them a length and nothing bounds how long the reply or the storage takes.
The server is external: it answers in order, 200, or an error at most `MaxErrors` times.
Messages travel in order and die with their connection (`Close`) or the process (`Stop`).

`send` behaves as in the code: with no websocket it throws before anything changes; on one
that is still connecting it throws after the channel was drawn and entered in the queue.

Of `create` the model has as much as decides when the application gets a manager: the hello of
the first connection (`Open`) and the timer of `completeHello` (`CreateReturns`), which fires
even if the connection has closed meanwhile; a reconnect before it replaces the promise that
`create` waits for (`creation`).

`unbroken`, `overlapped` and `unsubscribeCalled` are history variables, read by properties only.

### Connection

`Start`, `Open`, `Close`/`Closed` (`OnClose`), `Reconnect` and `Destroy` are `connect` with
its callbacks and `destroy`. What outlives the connection it began on is counted: the
delays before a reconnect (`delaying`), the hello handlers that await the write of a uaid
(`assigning`), the timers of `completeHello` (`helloTimers`), each of which will call
whatever `_helloResolve` is by then. `helloResolve` says whose promise that is.

### Acks

The life of one channel's notifications: `HandleUnknown`, `HandleAtOnce`, `HandleData` and
`Decrypted` are `NotificationHandler.handle` with `handleNotification`, split at the
decryption; `SendAck` is the interval; `Destroy` ends it. The external server keeps a
notification until it is acked and sends what it keeps once per connection. Decryption
succeeds or fails as the notification's `data` says.

The subscription is in the map (`Inserted`) before the application has it: the write of the list
is awaited and the event that resolves `subscribe` is dispatched in between. The application may
then add a listener at any time or never (`Listens`), and remove it (`StopsListening`); after a
restart it starts again without one. A dispatch with no listener succeeds. `unattended` is a
history variable: the notifications for which nobody listened at some time from a receipt of
theirs to its dispatch. The run `acks_unheard` shows what becomes of them.

### Payload

No state: the functions of the two source files under their names, and, from
examples/listen_send/src/send.command.ts, the sender `aes128GcmEncrypt`. Buffers are
sequences of bytes; a base64 character is the number of its digit, with numbers of their own
for `- _ =`, and either conversion says of each position what is there (`Digit`, `Octet`). A
text is the code points of its characters, each at the byte its character begins with. A
function that throws returns `Thrown`.

What the platform's crypto computes is a term: the secret of two key pairs is the set of
their public keys, which is what makes both sides get the same one, and an HKDF result is
the tuple of what it was computed from. So two derivations agree exactly if all their inputs
do. The cipher works on the bytes and is a parameter: `Seal`, and `Open`, which throws for
anything that was not sealed with that key and nonce. A bit string that `subtle.importKey`
would refuse as a point is one that is no private key's public key.

### EventManager

A dispatch is one JavaScript turn, but its listeners are the application's, so it is a step
per listener (`BeginDispatch`, `CallListener`, `EndDispatch`), and nothing that is not a
listener's doing happens in between. `callbacks` is the map. A listener is named by the
number of its registration: UUIDs are never used twice and a `Map` iterates in the order of
insertion, also over what is inserted meanwhile, so the next value of the iterator is the
least number beyond the last one called that is still in the map (`IsNext`). `expected` is
a history variable; `calls` is one too, whose last member is the place of the iteration.

### Delivery

Extends both. `keys` is what `create` or `recover` put into the object, `stored` what
`generateKeys` wrote, `handed` what `toJSON` gave to the application. A letter is what a
sender encrypts with those keys (from `handed`, or, as the example does it, from the storage)
or with others, and what happens to it on the way. `HandleNoData`, `HandleUnsupported`,
`HandleData`, `Decrypted`, `DecryptionFailed` are the ways through `handleNotification`, cut
at the decryption; `Notify` and `Notified` are the dispatch, `QueueAck` the rest of
`NotificationHandler.handle`. `Restart` is a stop and a start, with `readKeys`.

Every step of Delivery is one of EventManager or leaves it alone
(`DeliveryImplementsEvents`). Acks looks at the same handler from the other side: there the
outcome of a decryption is given with the notification, and connections, queue and
redelivery are what can go wrong.

### ReInit

What HelloHandler calls when it sees a new uaid. Connection says when that is (`reInited`);
ReInit follows one call from there. The loop iterates over the live map and `addSubscription`
inserts into it, so the entries the iteration has passed are a set and those ahead are a
sequence to which `Registered` appends: the rounds then need no bound. The event manager each
entry has, and passes to RegisterSender, is followed too. The server answers 200 and the
application is quiet, which is the best that can happen to the loop; `SendFails` is the way
out of it.

## What the runs check

| Run | Properties | Result |
|---|---|---|
| store | `TypeOK`, `QuiescentAgreement`, `ImplementsDurableSet`, `RemovalIsFinal` | hold |
| store_rejects | `Durability` | holds, with any write, remove or read rejected |
| reg_safety | `RegTypeOK`, `ServerChannelsAccounted`, `SubscriptionsRegistered`, `SubscribeReturnsItsKey`, `UnsubscribeIsComplete`, `OnePerKeyInTurn` | hold |
| reg_live | `SubscribeSettles`, `UnsubscribeSettles` | hold |
| reg_concurrent | `OnePerKey` | **violated** |
| conn | `ConnTypeOK`, `SingleConnection`, `AtMostOneLateConnect`, `CreatedKnowsUaid`, `CreateReturns`, `Reconnects` | hold |
| conn_new_uaid | `NewUaidReInits` | **violated** |
| acks | `AcksTypeOK`, `SuccessIsTrue`, `NoSpareAcks`, `EventuallyAcked` | hold |
| acks_unheard | `SuccessMeansDelivered` | **violated** |
| acks_connecting | `EveryReceiptAcked` | **violated** |
| delivery | `DeliveryTypeOK`, `HeardIsSent`, `SentIsNotRefused`, `ReachesAll` | hold |
| reinit | `OldAreDeleted` | **violated** |

The five violated properties are sentences of the repository:

* `OnePerKey`, README.md:58, "only one per applicationServerKey". `subscribe` looks before
  it sends and never again, so two overlapping subscribes leave two subscriptions.
  `OnePerKeyInTurn` states what is left: it holds for keys whose subscribes did not overlap.
* `NewUaidReInits`, hello-handler.ts:25-26, "We've been assigned a new UAID. Clear out all
  subscriptions. and re-register". The comparison comes after `completeHello` has set the
  uaid, so the branch is not taken in the ordinary case.
* `SuccessMeansDelivered`, message.ts:117, "Message successfully delivered to application".
  A notification that arrives before the application listens, in particular after a restart,
  is dispatched to nobody and acked SUCCESS, as spec/integration.spec.ts:297-316 and 343-398
  have it. `SuccessIsTrue` states what is left: it holds of what somebody attends to.
* `EveryReceiptAcked`, spec/integration.spec.ts:297, "sends acks when notifications are
  received". The interval empties the queue before a send that throws while the websocket
  is connecting. `EventuallyAcked` states what is left: the server sends again.
* `OldAreDeleted`, src/subscription-handler.spec.ts:139, "deletes all old subscriptions". Each
  round of the loop adds an entry to the map it iterates over, so it registers channel after
  channel and never gets to the deletion. The test's `reInit` is a mock that adds nothing.
  `ReInitNeverDeletes` proves it of every map that is not empty.

One comment agrees with nothing and is not a run of its own: push-subscription.ts:110-111
promises OTHER_FAIL for missing headers and for a missing Authorization header; the check
that would throw it is commented out, and missing headers give DECRYPT_FAIL, as line 112 of
the same comment says.

### Bounds

* **store, store_rejects**: three channels and two removals, so that an addition overlaps
  two removals, of the same or of different channels, and a third subscription is there to
  be harmed. Stops are not bounded. A channel is used once, as UUIDs are.
* **reg_safety**: two callers, two keys, three channels of which `subscribe` may draw two,
  the third being for a retry; one error reply of any kind; every fault, unbounded. Two
  callers with two keys is what telling them apart needs, and each of late reply, retry,
  overlap and loss takes at most two channels.
* **reg_live**: both callers after one key, which gives every sharing of events; no expiry
  and no lost connection, since a call whose reply is lost waits for ever in this code.
* **conn**: three closes or stops. A third connection is needed for a timer of the first to
  meet one that is made while the second one's is pending. Three uaids: an old one, a new
  one, another.
* **acks**: two notifications of any kind, so that decryptions overlap and share a queue;
  one close, destroy or stop (`MaxCloses` counts all of them), so that what was sent once comes
  again while the first is in work. The versions are interchangeable; as the run checks a
  liveness property it uses no symmetry, but starts in one of the initial states that differ in
  the names only (`Representatives`). The violated properties need one notification and one
  close or stop.
* **delivery**: two private keys, of which a subscription may draw either and the server has
  one, and two secrets, all made of bytes whose digits include + and /; 32 letters:
  every delimiting of data (empty, ending in zeros or in delimiters, all zeros, no delimiter,
  that of another record), a changed byte in every field of the content and one beyond its
  end, which changes nothing, a cut at each of the
  header's boundaries and within the characters of a byte, keys of others, no data and another
  encoding. The public keys have 5 bytes and the tag has 2; no function looks at more than the
  length. The cipher adds a number computed of all its inputs to each byte. Two listeners per
  process: two can be registered and one remove the other, or one add the other. One
  decryption at a time, since Acks has the overlapping ones.
* **reinit**: two subscriptions, so that the loop passes an old one after it has added.

Deadlock is an error in the runs of the store and in `delivery`: a process can always stop or
start, and a subscription be sent another notification. The rest may legitimately come to rest
(everything answered, nobody calls).

Symmetry is used only where a run checks no liveness property.

### Fairness

Fairness is asked of what the platform and the network do, never of the application, a
fault, or the server's choice to fail.

* Store: the promises that a removal awaits settle, and a process that was started loads.
* Registration: what was sent arrives, the server answers, timers fire, storage settles, a
  connection is made. Errors are bounded by `MaxErrors`; against a server that answers 500
  for ever nothing settles.
* Connection: connects, delays, timers and writes end. Closes are bounded by `MaxCloses`,
  that is, the connection lasts at last.
* Acks: the same; decryption ends, and the interval fires as long as it is set.
* ReInit: what the loops do without waiting is done, and answers arrive. `SendFails` is not
  asked for, so the violation does not rest on a connection that is lost.

## What is proved

For any sets of channels, keys, callers, removals and uaids, and any bounds:

| Theorem | States |
|---|---|
| `StoreTypeCorrect`, `RegTypeCorrect`, `ConnTypeCorrect` | the type invariants |
| `StoreDurability`, `RegDurability` | `Durability`, of the store, whatever it rejects, and of the whole registration protocol |
| `StoreImplementsDurableSet`, `RegImplementsDurableSet` | the persistence implements DurableSet, if storage does not reject |
| `RegImplementsStore` | every behaviour of Registration is one of SubscriptionStore |
| `SubscribeCorrect` | `SubscribeReturnsItsKey` |
| `ServerAgrees` | `ServerChannelsAccounted` |
| `SubscriptionsServed` | `SubscriptionsRegistered` |
| `UnsubscribeCompletes` | `UnsubscribeIsComplete` |
| `OneSubscriptionInTurn` | `OnePerKeyInTurn` |
| `ConnectNeverThrows` | `SingleConnection` |
| `OneLateConnect` | `AtMostOneLateConnect` |
| `UaidKnown` | `CreatedKnowsUaid` |
| `StoreAgreesWhenQuiet` | `QuiescentAgreement`, if storage does not reject |
| `AcksTypeCorrect` | the type invariant of Acks |
| `SuccessIsDelivered`, `NoReceiptIsAckedTwice` | `SuccessIsTrue`, `NoSpareAcks` |
| `DeliveryImplementsEvents` | every behaviour of Delivery is one of EventManager |
| `DispatchReachesAll` | `ReachesAll` |
| `RemovedNeverReturns` | a removed channel that has left the map is not seen again, if storage does not reject: the safety in `RemovalIsFinal` |
| `DeliveryTyped` | the type invariant of Delivery |
| `HeardWasSent` | `HeardIsSent` |
| `IntactIsNotRefused` | `SentIsNotRefused` |
| `KeysNeverChange` | no step, restarts included, changes the keys in memory or in the storage |
| `UrlB64RoundTrip`, `PrefixIsDecoded` | for any length, decoding undoes encoding, and what is left of a cut encoding decodes to the bytes that are whole in it |
| `PaddingRoundTrip`, `OnlyPaddedIsRead` | `removePadding` inverts the sender's padding, and accepts nothing else |
| `DerivationIsInjective` | a key and nonce are derived from one pair of public keys, secret and salt only |
| `WhatIsSentIsRead` | for any keys, secret, salt, data and cipher, what the sender encrypts is what is decrypted |
| `ReInitNeverDeletes` | the loop of reInitAllSubscriptions never ends by itself |

The assumptions are the named ones in the modules, which TLC also evaluates:
`StorageAssumption`, `RegistrationAssumption` (a storage that does not reject, at least one
key, bounds that are numbers), `ConnectionAssumption`, `AcksAssumption`, `KeysAssumption`,
`EventManagerAssumption`, `LetterAssumption`. None of the sets has to be finite. A theorem
that needs more says so in its ASSUME: the theorems of ReInitProofs that there is a
subscription, some of the store that storage does not reject, and those about payloads what
a cipher is. There are three such hypotheses:

* `CipherDecrypts`: with a key and nonce that can be derived, `Open` undoes `Seal`, and what is
  sealed is longer than what went in, by the tag.
* `CipherAuthenticates`: a text that was sealed, cut off anywhere and with one of its bytes
  changed or not, is opened only if it is all there, unchanged, and with the key and nonce that
  sealed it. Of AES-GCM this holds up to a forgery of the tag, as usual; it is asked only of
  what `Letter` can make of a sealed text, and no theorem but `HeardWasSent` and
  `DeliveryTyped` uses it.
* `ThrownIsApart`: `Thrown` is neither a sequence of numbers nor one of the records that the
  functions return.

They do not contradict each other: with countably many keys and plaintexts, numbering the
pairs of them and sealing a pair as as many zeros as its number (and its length), closed by a
two, satisfies all. `DerivationIsInjective` rests on the part of `KeysAssumption` that says
that public keys have all one length, which the uncompressed points of one curve have.

**Durability.** By itself it is not inductive: the list that one call writes is whatever the
map holds, so the map must hold every kept channel first. `DurabilityInv` says that a kept
channel, even one whose list is still being written, has its four entries, is in the list,
and is in the map if the process runs (`Kept`), and that a removal under way belongs to a
running process and has marked its channel (`RemovalsMarked`), so that no removal takes an
entry from a kept channel. A channel that a rejected read made a start skip is not in the map,
so no removal of this process begins for it, and its entries stay.

**Refinement.** `RefinementInv` adds that a channel that never entered the map is in neither
list nor map (`Absent`) and that a removal takes the endpoint with its first step (`Gone`).
Then `Restorable` is exactly the channels in phase "kept" (`RestorableByPhase`), and each
step maps to an insertion, a deletion or a stutter of DurableSet.

**SubscribeReturnsItsKey.** A caller is resolved through the key of a channel
(`NotifyRegistered`), so the key must not change afterwards. `ReturnInv` adds that whatever
is expected or in use was drawn before (`Drawn`), and drawn channels keep their key
(`KeysSettled`); that an addition about to return has entered the map (`SavingHanded`); and
the store's invariants, by way of `RegImplementsStore`. `NewlyHolding` names the two ways
in which a caller comes to hold a subscription, and both lead to one that is kept or being
removed (`HoldsHanded`). What is kept is in the map and on disk by `Durability`; what is being
removed was unsubscribed by the application (`OnlyAsked`): the client sends an unregister of
its own accord only for a channel that has not become a subscription, and never will, which
takes the order of a channel's messages (`OneRegister`, below).

**Agreement with the server.** Neither queue has a bound, so the invariant speaks of which
kinds of messages a queue holds (`Holds`) and how often (`Once`). `OneRegister` orders the
life of a channel: one register, then one answer, and only after the answer was handled a
subscription or an unregister. `Agrees` says what the answers in the queue mean (after a
success of unregister the server does not have the channel, after one of register it does)
and states both properties. Each action is reduced to what it does to one channel
(`Advances`, `ServerSide`, `ClientSide`), and the invariants follow from these alone
(`AdvancesKeeps`, `SidesKeep`). `Lasting` is what makes "on a connection that lasts"
inductive: nothing has happened on a first connection that is not open yet, so nothing is
sent that `send` would drop. For `UnsubscribeIsComplete` it takes in addition that a removed
channel stays removed (`RemovedStays`), which again is the store's invariant.

**One subscription per key.** `OnePerKeyInTurn` speaks of the map alone, and between the lookup
of `subscribe` and the map lie the wire, the queue of what is expected, the retry timer and the
storage. A channel is active (`Active`) in any of these places, and `TurnInv` says that a key
with no overlap has one active channel at most (`Alone`). A second one could come in only by
a subscribe that finds the map empty while another channel is on its way (`InWork`); then a
caller still waits for that one (`Awaited`), and the key counts as overlapped. A retry draws
a new channel for the same key, but only when the old one can no longer become a subscription
(`RetriedIsOver`), for which `OneRegister` and `RetriesApart` are needed: a channel that will be
retried has been answered.

**Connection.** `SingleConnection` needs that a process that does not run has neither a
websocket nor a delay (`IdleProcess`); the late connects and the delay that may still become
one are bounded together (`LateConnectsBounded`). For `CreatedKnowsUaid` the invariant walks
back from the return of create: its timer, the awaited write, and the answer that began
them have all been preceded by a uaid (`UaidFirst`), and a stopped process has left nothing
pending (`NothingPending`).

**QuiescentAgreement.** It speaks of states in which nothing is under way, so it needs what
holds on the way there: `QuietInv` adds to `RefinementInv` that a channel that is removed and
still in the map has a removal under way that will take it out (`RemovalsRun`).

**Acks.** For `SuccessIsTrue` the invariant follows a SUCCESS back to its notification: wherever
one is, in the queue, on the wire or at the server, a listener has taken the notification or it
is unattended, and both are for good (`SuccessInv`). It needs that for whatever is being
decrypted somebody listens, or has stopped to and so left it unattended (`Attended`).
`NoSpareAcks` counts decryptions, queue and sent acks together and is inductive
by itself; the work is in what the actions do to the count (`AcksOf` of a queue that grows, of
one that is emptied, and of what is sent or lost with it).

**Events.** `EventInv` says that the calls are in the order of registration, and that whoever
was expected, is still registered and comes before the cursor has been called. At the end of
a dispatch nothing lies beyond the cursor: were there an expected listener not called, the
least number beyond the cursor in the map would be next. That least number exists by the
well-foundedness of the naturals. Delivery inherits all of it by `DeliveryImplementsEvents`.

**Payload.** A digit is made of at most two bytes and a byte of at most two digits, so the
round trip is arithmetic within a group of three bytes, once the position in the group is
fixed (`DigitsOfThree`, `OctetsOfDigits`); the length says which positions there are (`Lengths`). That a prefix
of the encoding decodes to a prefix of the bytes (`PrefixIsDecoded`) is the same statement
with less of it there. `removePadding` chooses the last byte that is not zero, and in a padded
plaintext that is the sender's delimiter. The header is split where the sender put it together
(`PartsAreMade`, `PartsAreSplit`), and both sides derive the same key and nonce because the shared secret
does not depend on whose private key it is computed with and both name the user agent's key
first (`BothDeriveTheSame`). Conversely nothing else derives them: the key info is two public
keys one after the other, and where the first one ends is known because their lengths are.

**Delivery.** `DeliveryInv` says that memory, storage and application have the same keys, through
the conversions each of them makes (`KeysAgree`), that every decryption under way has the
result its letter has with these keys (`ResultsAgree`), and that what listeners are given
and what is acked follows from that result (`DispatchAgrees`, `AnswersAgree`). It is inductive
because a restart reads what was written (`UrlB64RoundTrip`), so that the result of a letter
is the same whenever it is computed (`LettersStay`). What is left is about one letter. One that
arrives intact is read (`IntactIsRead`): the record size may be anything. For the other
direction (`ReadIsIntact`) a letter that opens is followed back through the header: whatever
byte was changed and however many characters were lost, what is taken for the sealed part is a
sealed text, changed or cut, or nothing of it (`WhatIsTakenForSealed`). It opens, so it is all
there and no other key was used, and as the derivation is injective the salt, the secret and
both public keys are those of the subscription: nothing but the record size was changed. A lost
character takes at least one bit of the last byte with it, and decoding drops a byte that is
not whole. Then the plaintext was padded as the sender pads, because `removePadding` accepts
nothing else.

**ReInit.** `ReInitInv`: while the loop runs there is always an entry ahead or a registration
under way that will add one (`RoundsGoOn`), so it never meets the end of the map.

**Only model-checked.** The liveness properties `RemovalIsFinal`, `SubscribeSettles`,
`UnsubscribeSettles`, `CreateReturns`, `Reconnects` and `EventuallyAcked`: TLAPS has no rule for
fairness that the installed provers can use. Of the first, what is not liveness is
`RemovedNeverReturns`. Every invariant of the passing runs is proved.

## What is not modelled

* In Payload: `randomBytes`; UTF-8 of more than two bytes a character (each byte of one is taken
  for malformed there, and becomes U+FFFD as malformed bytes do); characters outside the base64 alphabets; the record size, which
  `splitContent` reads and nobody uses. Points are compared by their encoding.
* In Delivery: a listener that throws the number of an ack code, which NotificationHandler
  would take for the outcome; a subscription's two events are independent, and only
  `notification` is dispatched there (`pushsubscriptionchange` is in ReInit).
* In ReInit: answers other than 200, expiry, and the storage below `addSubscription`, which
  Registration and SubscriptionStore have; the calls of the application meanwhile.
* The example's VAPID header, its fetch and its command line. Names of storage entries
  (`joinNamespaces`), which the models tell apart by kind.
* The key argument of `getByApplicationServerKey` is compared as a value.
* An unregister status other than 200 and 500. The handler treats every other status as a
  success; its own comment (unregister-handler.ts:42-43) says the server sends these two.
* The unhandled rejection of a retry whose connection is gone: what a platform does with one
  is not the code's. The model's retry does nothing then.
* Logging, ping, broadcast and nack: they only log or throw. The ping time that the hello
  handler records is read by no reachable code.
* The check of options in `subscribe`, and the 60 s, 1 s and interval lengths of the timers.

## The plan

Done: SubscriptionStore with DurableSet, Registration, Connection, Acks, Payload,
EventManager, Delivery, ReInit, and the proofs above. What is left to do:

1. **Composition**: ReInit over Registration, that is, a hello that replaces the uaid while
   subscribes are under way and registrations are refused.
2. **Larger instances** of Registration, three callers for two keys.
