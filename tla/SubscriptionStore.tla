-------------------------- MODULE SubscriptionStore --------------------------
(***************************************************************************)
(* The subscriptions of one PushManager, in memory and on disk:            *)
(* SubscriptionHandler (src/subscription-handler.ts) with the create,      *)
(* recover and destroy of PushSubscription (src/push-subscription.ts) over *)
(* Storage (src/storage.ts).                                               *)
(*                                                                         *)
(* Every action is what one JavaScript turn does, from one await to the    *)
(* next, so the actions of several calls interleave wherever the code      *)
(* awaits the storage or the key generation.  A storage operation takes    *)
(* effect in the turn that issues it, as in every PublicStorage of the     *)
(* repository (spec/test-storage.ts, examples/), and its promise settles   *)
(* later.  The process may stop between any two turns.                     *)
(***************************************************************************)
EXTENDS Naturals, Sequences

CONSTANTS
  Channel,          \* the channel UUIDs; each is drawn for one registration only
  Remover,          \* names of removeSubscription calls running at the same time
  StorageMayReject  \* may the promise of a storage operation be rejected?

ASSUME StorageAssumption == StorageMayReject \in BOOLEAN

\* STORAGE_KEYS; its order is the order in which destroy removes the entries,
\* create writes them in another.
StorageKey == {"endpoint", "options", "privateEncKey", "auth"}
DestroyOrder == <<"endpoint", "options", "privateEncKey", "auth">>
CreateOrder == <<"endpoint", "options", "auth", "privateEncKey">>

\* What has become of a channel: not used yet, under construction, inserted in
\* the map (or recovered), skipped by the last start although it was kept, under
\* removal or removed, abandoned half-way.
Phase == {"unused", "creating", "kept", "skipped", "removed", "lost"}

\* A removeSubscription call that has issued the first `removed' of its removes.
Removal == [run : Remover, channel : Channel, removed : 1 .. 4]

VARIABLES
  up,             \* is the process running, with its subscriptions loaded?
  subscriptions,  \* the keys of the in-memory Map of subscriptions
  phase,          \* [Channel -> Phase]
  saving,         \* the channels whose addSubscription awaits the write of the list
  removing,       \* the removeSubscription calls under way
  stored,         \* [Channel -> SUBSET StorageKey], the entries `<channel>:<key>'
  channelIDs      \* the stored list "channelIDs"

memory == <<up, subscriptions, phase, saving, removing>>
disk == <<stored, channelIDs>>
storeVars == <<up, subscriptions, phase, saving, removing, stored, channelIDs>>

TypeOK ==
  /\ up \in BOOLEAN
  /\ subscriptions \subseteq Channel
  /\ phase \in [Channel -> Phase]
  /\ saving \subseteq Channel
  /\ removing \subseteq Removal
  /\ stored \in [Channel -> SUBSET StorageKey]
  /\ channelIDs \subseteq Channel

StoreInit ==
  /\ up = TRUE
  /\ subscriptions = {}
  /\ phase = [c \in Channel |-> "unused"]
  /\ saving = {}
  /\ removing = {}
  /\ stored = [c \in Channel |-> {}]
  /\ channelIDs = {}

-----------------------------------------------------------------------------
\* Storage.write and Storage.remove of one entry of one channel.
WriteEntry(c, k) == stored' = [stored EXCEPT ![c] = @ \cup {k}]
RemoveEntry(c, k) == stored' = [stored EXCEPT ![c] = @ \ {k}]

\* writeChannelIds reads the keys of the map in the turn that calls it.
WriteChannelIds == channelIDs' = subscriptions'

SetPhase(c, p) == phase' = [phase EXCEPT ![c] = p]

\* PushSubscription.recover: the keys, the options and the endpoint must be there.
ReadsKeys(c) == {"auth", "privateEncKey"} \subseteq stored[c]
Recovers(c) == ReadsKeys(c) /\ "options" \in stored[c] /\ "endpoint" \in stored[c]

\* Would a start of the process now bring this channel back?
Recoverable(c) == c \in channelIDs /\ Recovers(c)

-----------------------------------------------------------------------------
(* addSubscription *)

\* A plausible slip: the first entry is written under a name nothing reads.
AddStartMisnamed(c) ==
  /\ up
  /\ phase[c] = "unused"
  /\ SetPhase(c, "creating")
  /\ WriteEntry(c, "url")
  /\ UNCHANGED <<up, subscriptions, saving, removing, channelIDs>>

\* Up to the first await: the endpoint is valid and its write is issued.
AddStart(c) ==
  /\ up
  /\ phase[c] = "unused"
  /\ SetPhase(c, "creating")
  /\ WriteEntry(c, "endpoint")
  /\ UNCHANGED <<up, subscriptions, saving, removing, channelIDs>>

\* The next write of create and generateKeys, after the previous one settled.
AddWrite(c) ==
  /\ up
  /\ phase[c] = "creating"
  /\ \E i \in 1 .. 3 :
       /\ CreateOrder[i] \in stored[c]
       /\ CreateOrder[i + 1] \notin stored[c]
       /\ WriteEntry(c, CreateOrder[i + 1])
  /\ UNCHANGED <<memory, channelIDs>>

\* A plausible slip: the list is written before the map holds the new channel.
AddInsertSavesFirst(c) ==
  /\ up
  /\ phase[c] = "creating"
  /\ stored[c] = StorageKey
  /\ channelIDs' = subscriptions
  /\ subscriptions' = subscriptions \cup {c}
  /\ SetPhase(c, "kept")
  /\ saving' = saving \cup {c}
  /\ UNCHANGED <<up, removing, stored>>

\* create has returned: the channel enters the map and the list is written.
AddInsert(c) ==
  /\ up
  /\ phase[c] = "creating"
  /\ stored[c] = StorageKey
  /\ subscriptions' = subscriptions \cup {c}
  /\ WriteChannelIds
  /\ SetPhase(c, "kept")
  /\ saving' = saving \cup {c}
  /\ UNCHANGED <<up, removing, stored>>

\* writeChannelIds has settled: addSubscription returns the subscription, even
\* if somebody found it in the map and removed it in the meantime.
AddReturn(c) ==
  /\ up
  /\ c \in saving
  /\ saving' = saving \ {c}
  /\ UNCHANGED <<up, subscriptions, phase, removing, disk>>

\* A write is rejected, whether or not it took effect: addSubscription throws,
\* and what is in the map and in the storage stays there.
AddRejected(c) ==
  /\ StorageMayReject
  /\ up
  /\ phase[c] \in {"unused", "creating"} \/ c \in saving
  /\ saving' = saving \ {c}
  /\ phase' = [phase EXCEPT ![c] = IF @ = "removed" THEN "removed" ELSE "lost"]
  /\ UNCHANGED <<up, subscriptions, removing, disk>>

\* The write of the list is rejected and has no effect: the map alone changes.
SaveRejected(c) ==
  /\ StorageMayReject
  /\ up
  /\ phase[c] = "creating"
  /\ stored[c] = StorageKey
  /\ subscriptions' = subscriptions \cup {c}
  /\ SetPhase(c, "lost")
  /\ UNCHANGED <<up, saving, removing, disk>>

-----------------------------------------------------------------------------
(* removeSubscription *)

Idle(r) == \A t \in removing : t.run # r

\* Up to the first await: the map holds the channel, and destroy issues its
\* first remove.  A call for a channel the map does not hold changes nothing.
RemoveStart(r, c) ==
  /\ up
  /\ Idle(r)
  /\ c \in subscriptions
  /\ removing' = removing \cup {[run |-> r, channel |-> c, removed |-> 1]}
  /\ RemoveEntry(c, DestroyOrder[1])
  /\ SetPhase(c, "removed")
  /\ UNCHANGED <<up, subscriptions, saving, channelIDs>>

RemoveNext(t) ==
  /\ up
  /\ t.removed < 4
  /\ RemoveEntry(t.channel, DestroyOrder[t.removed + 1])
  /\ removing' = (removing \ {t}) \cup {[t EXCEPT !.removed = @ + 1]}
  /\ UNCHANGED <<up, subscriptions, phase, saving, channelIDs>>

\* A plausible slip: the list is written, the map keeps the destroyed subscription.
RemoveFinishKeepsMap(t) ==
  /\ up
  /\ t.removed = 4
  /\ UNCHANGED subscriptions
  /\ WriteChannelIds
  /\ removing' = removing \ {t}
  /\ UNCHANGED <<up, phase, saving, stored>>

\* destroy has returned: the channel leaves the map and the list is written.
RemoveFinish(t) ==
  /\ up
  /\ t.removed = 4
  /\ subscriptions' = subscriptions \ {t.channel}
  /\ WriteChannelIds
  /\ removing' = removing \ {t}
  /\ UNCHANGED <<up, phase, saving, stored>>

\* A remove of destroy is rejected, whether or not it took effect:
\* removeSubscription throws, and the map keeps the channel.
RemoveStartRejected(c) ==
  /\ StorageMayReject
  /\ up
  /\ c \in subscriptions
  /\ SetPhase(c, "removed")
  /\ UNCHANGED <<up, subscriptions, saving, removing, disk>>

RemoveNextRejected(t) ==
  /\ StorageMayReject
  /\ up
  /\ removing' = removing \ {t}
  /\ UNCHANGED <<up, subscriptions, phase, saving, disk>>

\* The write of the list is rejected after the channel has left the map.
RemoveFinishRejected(t) ==
  /\ StorageMayReject
  /\ up
  /\ t.removed = 4
  /\ subscriptions' = subscriptions \ {t.channel}
  /\ removing' = removing \ {t}
  /\ UNCHANGED <<up, phase, saving, disk>>

-----------------------------------------------------------------------------
(* The process stops, and PushManager.create loads what is on disk. *)

Crash ==
  /\ up
  /\ up' = FALSE
  /\ subscriptions' = {}
  /\ saving' = {}
  /\ removing' = {}
  /\ phase' = [c \in Channel |-> IF phase[c] = "creating" THEN "lost" ELSE phase[c]]
  /\ UNCHANGED disk

\* A plausible slip: an incomplete subscription ends the loop instead of being skipped.
LoadSubscriptionsAllOrNothing ==
  /\ ~up
  /\ up' = TRUE
  /\ subscriptions' = IF \A c \in channelIDs : Recovers(c) THEN channelIDs ELSE {}
  /\ phase' = [c \in Channel |-> IF c \in subscriptions' THEN "kept" ELSE phase[c]]
  /\ UNCHANGED <<saving, removing, disk>>

\* loadSubscriptions: a channel whose recover throws is skipped.  Nothing else
\* of the process runs before it returns, and it only reads, so it is one step.
LoadSubscriptions ==
  /\ ~up
  /\ up' = TRUE
  /\ subscriptions' = {c \in channelIDs : Recovers(c)}
  /\ phase' = [c \in Channel |-> IF c \in subscriptions' THEN "kept" ELSE phase[c]]
  /\ UNCHANGED <<saving, removing, disk>>

\* A read in the recover of some channels is rejected: they are skipped like those that
\* are incomplete.  Nothing is changed on disk, so the next start may recover them, if
\* no list is written before.  When the read of the list itself is rejected create
\* throws, and nothing has been loaded.
LoadSubscriptionsRejected ==
  /\ StorageMayReject
  /\ ~up
  /\ up' = TRUE
  /\ \E failed \in SUBSET channelIDs :
       subscriptions' = {c \in channelIDs \ failed : Recovers(c)}
  /\ phase' = [c \in Channel |->
       IF c \in subscriptions' THEN "kept" ELSE IF phase[c] = "kept" THEN "skipped" ELSE phase[c]]
  /\ UNCHANGED <<saving, removing, disk>>

-----------------------------------------------------------------------------
AddStep(c) == AddWrite(c) \/ AddInsert(c) \/ AddReturn(c)
AddFails(c) == AddRejected(c) \/ SaveRejected(c)
RemoveStep(t) == RemoveNext(t) \/ RemoveFinish(t)
RemoveFails(t) == RemoveNextRejected(t) \/ RemoveFinishRejected(t)

StoreNext ==
  \/ \E c \in Channel : AddStart(c) \/ AddStep(c) \/ AddFails(c)
  \/ \E r \in Remover, c \in Channel : RemoveStart(r, c)
  \/ \E c \in Channel : RemoveStartRejected(c)
  \/ \E t \in removing : RemoveStep(t) \/ RemoveFails(t)
  \/ Crash
  \/ LoadSubscriptions \/ LoadSubscriptionsRejected

StoreSpec == StoreInit /\ [][StoreNext]_storeVars

\* A pending promise settles: every removal under way takes its next step; and a
\* process that was started loads what is stored.
StoreFairness ==
  /\ \A r \in Remover :
       WF_storeVars(\E t \in removing : t.run = r /\ (RemoveStep(t) \/ RemoveFails(t)))
  /\ WF_storeVars(LoadSubscriptions)

FairStoreSpec == StoreSpec /\ StoreFairness

-----------------------------------------------------------------------------
(* Properties *)

\* A subscription that addSubscription handed out, or that a start recovered,
\* and that nobody has begun to remove, is in the map of a running process and
\* on disk, all four entries of it and its place in the list, whatever other calls
\* are half-way through or have failed (subscription-handler.ts:48-51).  Nothing but
\* a rejected read of its own entries keeps it from coming back with the next start;
\* and a subscription that was skipped for that loses its place in the list with the
\* next write of it, but none of its entries (subscription-handler.ts:107-116).
Durability ==
  \A c \in Channel :
    /\ phase[c] = "kept" /\ c \notin saving => Recoverable(c) /\ (up => c \in subscriptions)
    /\ phase[c] = "skipped" => Recovers(c) /\ c \notin subscriptions

\* When no call is under way, memory and disk agree: a stop and a start would
\* give back exactly the subscriptions in the map (subscription-handler.ts:69-80).
QuiescentAgreement ==
  (up /\ removing = {} /\ saving = {} /\ \A c \in Channel : phase[c] # "creating")
    => subscriptions = {c \in Channel : Recoverable(c)}

\* With a storage that does not fail, the channels the next start restores
\* behave like DurableSet: the steps of addSubscription and removeSubscription,
\* their interleavings and the stops in between add or drop whole channels,
\* one at a time, and none returns (refinement mapping below).
Restorable == {c \in Channel : Recoverable(c)}
EverRestorable == {c \in Channel : phase[c] \in {"kept", "removed"}}
Abstract == INSTANCE DurableSet WITH members <- Restorable, entered <- EverRestorable
ImplementsDurableSet == Abstract!Spec

\* Once its removal has begun a channel leaves the map and stays out, through
\* any number of stops and starts (subscription-handler.ts:76-78).
RemovalIsFinal ==
  \A c \in Channel : phase[c] = "removed" ~> [](c \notin subscriptions)
=============================================================================
