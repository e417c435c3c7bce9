----------------------- MODULE SubscriptionStoreProofs -----------------------
(***************************************************************************)
(* Theorems about SubscriptionStore, for any set of channels, any number   *)
(* of removals at a time, and a storage that may or may not reject.        *)
(***************************************************************************)
EXTENDS SubscriptionStore, TLAPS

(* The strengthening of Durability that the steps preserve. *)

\* What the list and the map of the running process owe to a subscription from
\* the moment it enters the map, not only from the moment it is handed out; and what
\* is left of one that was skipped.
KeptIn(c) ==
  /\ phase[c] = "kept" => Recoverable(c) /\ (up => c \in subscriptions)
  /\ phase[c] = "skipped" => Recovers(c) /\ c \notin subscriptions

Kept == \A c \in Channel : KeptIn(c)

\* A removal under way belongs to a running process and has marked its channel.
RemovalsMarked ==
  /\ \A t \in removing : phase[t.channel] = "removed"
  /\ ~up => removing = {}

DurabilityInv == TypeOK /\ Kept /\ RemovalsMarked

-----------------------------------------------------------------------------
\* The state of a SubscriptionStore is well-formed in every reachable state.
LEMMA InitTypeOK == StoreInit => TypeOK
  BY DEF StoreInit, TypeOK, Phase, StorageKey

LEMMA NextTypeOK == TypeOK /\ [StoreNext]_storeVars => TypeOK'
<1> SUFFICES ASSUME TypeOK, [StoreNext]_storeVars PROVE TypeOK'
  OBVIOUS
<1> USE DEF TypeOK, SetPhase, Phase, StorageKey
<1>1. ASSUME NEW c \in Channel, AddStart(c) PROVE TypeOK'
  BY <1>1 DEF AddStart, WriteEntry
<1>2. ASSUME NEW c \in Channel, AddWrite(c) PROVE TypeOK'
  BY <1>2 DEF AddWrite, WriteEntry, CreateOrder, memory
<1>3. ASSUME NEW c \in Channel, AddInsert(c) PROVE TypeOK'
  BY <1>3 DEF AddInsert, WriteChannelIds
<1>4. ASSUME NEW c \in Channel, AddReturn(c) PROVE TypeOK'
  BY <1>4 DEF AddReturn, disk
<1>5. ASSUME NEW c \in Channel, AddFails(c) PROVE TypeOK'
  BY <1>5 DEF AddFails, AddRejected, SaveRejected, disk
<1>6. ASSUME NEW r \in Remover, NEW c \in Channel, RemoveStart(r, c) PROVE TypeOK'
  BY <1>6 DEF RemoveStart, RemoveEntry, Removal
<1>7. ASSUME NEW c \in Channel, RemoveStartRejected(c) PROVE TypeOK'
  BY <1>7 DEF RemoveStartRejected, disk
<1>8. ASSUME NEW t \in removing, RemoveNext(t) PROVE TypeOK'
  <2>1. t \in Removal /\ t.channel \in Channel /\ t.removed \in 1 .. 3
    BY <1>8 DEF RemoveNext, Removal
  <2>2. [t EXCEPT !.removed = @ + 1] \in Removal
    BY <2>1 DEF Removal
  <2>3. QED
    BY <1>8, <2>1, <2>2 DEF RemoveNext, RemoveEntry
<1>9. ASSUME NEW t \in removing, RemoveFinish(t) PROVE TypeOK'
  BY <1>9 DEF RemoveFinish, WriteChannelIds
<1>10. ASSUME NEW t \in removing, RemoveFails(t) PROVE TypeOK'
  BY <1>10 DEF RemoveFails, RemoveNextRejected, RemoveFinishRejected, disk
<1>11. ASSUME Crash PROVE TypeOK'
  BY <1>11 DEF Crash, disk
<1>12. ASSUME LoadSubscriptions PROVE TypeOK'
  BY <1>12 DEF LoadSubscriptions, disk
<1>13. ASSUME LoadSubscriptionsRejected PROVE TypeOK'
  BY <1>13 DEF LoadSubscriptionsRejected, disk
<1>14. ASSUME UNCHANGED storeVars PROVE TypeOK'
  BY <1>14 DEF storeVars
<1>15. QED
  BY <1>1, <1>2, <1>3, <1>4, <1>5, <1>6, <1>7, <1>8, <1>9, <1>10, <1>11, <1>12, <1>13, <1>14
     DEF StoreNext, AddStep, RemoveStep

THEOREM StoreTypeCorrect == StoreSpec => []TypeOK
  BY InitTypeOK, NextTypeOK, PTL DEF StoreSpec

-----------------------------------------------------------------------------
\* The strengthened invariant holds initially and is preserved by every step.
LEMMA InitDurability == StoreInit => DurabilityInv
  BY InitTypeOK DEF StoreInit, DurabilityInv, Kept, KeptIn, RemovalsMarked

LEMMA NextDurability == DurabilityInv /\ [StoreNext]_storeVars => DurabilityInv'
<1> SUFFICES ASSUME DurabilityInv, [StoreNext]_storeVars PROVE DurabilityInv'
  OBVIOUS
<1>0. TypeOK /\ TypeOK'
  BY NextTypeOK DEF DurabilityInv
<1> SUFFICES Kept' /\ RemovalsMarked'
  BY <1>0 DEF DurabilityInv
<1> USE <1>0 DEF TypeOK, DurabilityInv, Kept, KeptIn, RemovalsMarked, Recoverable,
                 Recovers, ReadsKeys, SetPhase, Phase, StorageKey
<1>1. ASSUME NEW c \in Channel, AddStart(c) PROVE Kept' /\ RemovalsMarked'
  BY <1>1 DEF AddStart, WriteEntry
<1>2. ASSUME NEW c \in Channel, AddWrite(c) PROVE Kept' /\ RemovalsMarked'
  BY <1>2 DEF AddWrite, WriteEntry, CreateOrder, memory
<1>3. ASSUME NEW c \in Channel, AddInsert(c) PROVE Kept' /\ RemovalsMarked'
  BY <1>3 DEF AddInsert, WriteChannelIds
<1>4. ASSUME NEW c \in Channel, AddReturn(c) PROVE Kept' /\ RemovalsMarked'
  BY <1>4 DEF AddReturn, disk
<1>5. ASSUME NEW c \in Channel, AddFails(c) PROVE Kept' /\ RemovalsMarked'
  <2>1. CASE AddRejected(c)
    BY <2>1 DEF AddRejected, disk
  <2>2. CASE SaveRejected(c)
    BY <2>2 DEF SaveRejected, disk
  <2>3. QED
    BY <1>5, <2>1, <2>2 DEF AddFails
<1>6. ASSUME NEW r \in Remover, NEW c \in Channel, RemoveStart(r, c)
      PROVE Kept' /\ RemovalsMarked'
  BY <1>6 DEF RemoveStart, RemoveEntry
<1>7. ASSUME NEW c \in Channel, RemoveStartRejected(c) PROVE Kept' /\ RemovalsMarked'
  BY <1>7 DEF RemoveStartRejected, disk
<1>8. ASSUME NEW t \in removing, RemoveNext(t) PROVE Kept' /\ RemovalsMarked'
  <2>1. [t EXCEPT !.removed = @ + 1].channel = t.channel
    BY DEF Removal
  <2>2. RemovalsMarked'
    BY <1>8, <2>1 DEF RemoveNext
  <2>3. Kept'
    BY <1>8 DEF RemoveNext, RemoveEntry
  <2>4. QED
    BY <2>2, <2>3
<1>9. ASSUME NEW t \in removing, RemoveFinish(t) PROVE Kept' /\ RemovalsMarked'
  BY <1>9 DEF RemoveFinish, WriteChannelIds
<1>10. ASSUME NEW t \in removing, RemoveFails(t) PROVE Kept' /\ RemovalsMarked'
  BY <1>10 DEF RemoveFails, RemoveNextRejected, RemoveFinishRejected, disk
<1>11. ASSUME Crash PROVE Kept' /\ RemovalsMarked'
  BY <1>11 DEF Crash, disk
<1>12. ASSUME LoadSubscriptions PROVE Kept' /\ RemovalsMarked'
  BY <1>12 DEF LoadSubscriptions, disk
<1>13. ASSUME LoadSubscriptionsRejected PROVE Kept' /\ RemovalsMarked'
  BY <1>13 DEF LoadSubscriptionsRejected, disk
<1>14. ASSUME UNCHANGED storeVars PROVE Kept' /\ RemovalsMarked'
  BY <1>14 DEF storeVars
<1>15. QED
  BY <1>1, <1>2, <1>3, <1>4, <1>5, <1>6, <1>7, <1>8, <1>9, <1>10, <1>11, <1>12, <1>13, <1>14
     DEF StoreNext, AddStep, RemoveStep

\* Over a storage that may reject any write, remove or read: a subscription handed out
\* or recovered, and not under removal, is in the map and on disk; and of one that the
\* last start skipped, because a read of its entries was rejected, all entries are left
\* (subscription-handler.ts:48-51 and 107-116).
THEOREM StoreDurability == StoreSpec => []Durability
<1>1. DurabilityInv => Durability
  BY DEF DurabilityInv, Kept, KeptIn, Durability
<1>2. QED
  BY InitDurability, NextDurability, <1>1, PTL DEF StoreSpec

-----------------------------------------------------------------------------
(* With a storage that does not reject, SubscriptionStore implements           *)
(* DurableSet.                                                                 *)

\* A channel that never got into the map is not in the stored list either, and none
\* is skipped.
Absent ==
  \A c \in Channel :
    /\ phase[c] \in {"unused", "creating", "lost"} => c \notin channelIDs /\ c \notin subscriptions
    /\ phase[c] # "skipped"

\* A removal takes the endpoint away in the turn it begins in, and nothing
\* writes it again.
Gone == \A c \in Channel : phase[c] = "removed" => "endpoint" \notin stored[c]

RefinementInv == DurabilityInv /\ Absent /\ Gone

\* The refinement mapping, read off the phases alone.
LEMMA RestorableByPhase ==
  RefinementInv => Restorable = {c \in Channel : phase[c] = "kept"}
<1> SUFFICES ASSUME RefinementInv, NEW c \in Channel
             PROVE Recoverable(c) <=> phase[c] = "kept"
  BY DEF Restorable
<1>1. phase[c] \in Phase
  BY DEF RefinementInv, DurabilityInv, TypeOK
<1>2. CASE phase[c] = "kept"
  BY <1>2 DEF RefinementInv, DurabilityInv, Kept, KeptIn
<1>3. CASE phase[c] \in {"unused", "creating", "lost"}
  BY <1>3 DEF RefinementInv, Absent, Recoverable
<1>4. CASE phase[c] = "removed"
  BY <1>4 DEF RefinementInv, Gone, Recoverable, Recovers
<1>5. phase[c] # "skipped"
  BY DEF RefinementInv, Absent
<1>6. QED
  BY <1>1, <1>2, <1>3, <1>4, <1>5 DEF Phase

LEMMA InitRefinement == StoreInit => RefinementInv
  BY InitDurability DEF StoreInit, RefinementInv, Absent, Gone

LEMMA NextRefinement ==
  ASSUME ~StorageMayReject
  PROVE  RefinementInv /\ [StoreNext]_storeVars => RefinementInv'
<1> SUFFICES ASSUME RefinementInv, [StoreNext]_storeVars PROVE RefinementInv'
  OBVIOUS
<1>0. DurabilityInv /\ DurabilityInv'
  BY NextDurability DEF RefinementInv
<1> SUFFICES Absent' /\ Gone'
  BY <1>0 DEF RefinementInv
<1> USE <1>0 DEF TypeOK, DurabilityInv, RemovalsMarked, RefinementInv, Absent, Gone,
                 SetPhase, Phase, StorageKey
<1>1. ASSUME NEW c \in Channel, AddStart(c) PROVE Absent' /\ Gone'
  BY <1>1 DEF AddStart, WriteEntry
<1>2. ASSUME NEW c \in Channel, AddWrite(c) PROVE Absent' /\ Gone'
  BY <1>2 DEF AddWrite, WriteEntry, memory
<1>3. ASSUME NEW c \in Channel, AddInsert(c) PROVE Absent' /\ Gone'
  BY <1>3 DEF AddInsert, WriteChannelIds
<1>4. ASSUME NEW c \in Channel, AddReturn(c) PROVE Absent' /\ Gone'
  BY <1>4 DEF AddReturn, disk
<1>5. ASSUME NEW r \in Remover, NEW c \in Channel, RemoveStart(r, c)
      PROVE Absent' /\ Gone'
  BY <1>5 DEF RemoveStart, RemoveEntry, DestroyOrder
<1>6. ASSUME NEW t \in removing, RemoveNext(t) PROVE Absent' /\ Gone'
  BY <1>6 DEF RemoveNext, RemoveEntry
<1>7. ASSUME NEW t \in removing, RemoveFinish(t) PROVE Absent' /\ Gone'
  BY <1>7 DEF RemoveFinish, WriteChannelIds
<1>8. ASSUME Crash PROVE Absent' /\ Gone'
  BY <1>8 DEF Crash, disk
<1>9. ASSUME LoadSubscriptions PROVE Absent' /\ Gone'
  BY <1>9 DEF LoadSubscriptions, disk, Recovers
<1>10. ASSUME UNCHANGED storeVars PROVE Absent' /\ Gone'
  BY <1>10 DEF storeVars
<1>11. QED
  BY <1>1, <1>2, <1>3, <1>4, <1>5, <1>6, <1>7, <1>8, <1>9, <1>10
     DEF StoreNext, AddStep, RemoveStep, AddFails, RemoveFails, AddRejected,
         SaveRejected, RemoveStartRejected, RemoveNextRejected, RemoveFinishRejected,
         LoadSubscriptionsRejected

\* Every step of the store is a whole Insert, a whole Delete, or invisible.
LEMMA StepRefines ==
  ASSUME ~StorageMayReject
  PROVE  RefinementInv /\ [StoreNext]_storeVars => [Abstract!Next]_(Abstract!vars)
<1> SUFFICES ASSUME RefinementInv, [StoreNext]_storeVars
             PROVE  [Abstract!Next]_(Abstract!vars)
  OBVIOUS
<1> DEFINE Ever == {"kept", "removed"}
<1> HIDE DEF Ever
<1>a. TypeOK /\ TypeOK' /\ RefinementInv'
  BY NextRefinement DEF RefinementInv, DurabilityInv
<1>b. Restorable = {c \in Channel : phase[c] = "kept"}
  BY RestorableByPhase
<1>c. (Restorable = {c \in Channel : phase[c] = "kept"})'
  BY RestorableByPhase, <1>a, PTL
<1>d. EverRestorable = {c \in Channel : phase[c] \in Ever}
  BY DEF EverRestorable, Ever
<1>e. EverRestorable' = {c \in Channel : phase'[c] \in Ever}
  BY DEF EverRestorable, Ever
<1>s. ASSUME \A c \in Channel : /\ phase'[c] = "kept" <=> phase[c] = "kept"
                                /\ phase'[c] \in Ever <=> phase[c] \in Ever
      PROVE  UNCHANGED Abstract!vars
  <2>1. UNCHANGED Restorable
    BY <1>s, <1>b, <1>c
  <2>2. UNCHANGED EverRestorable
    BY <1>s, <1>d, <1>e
  <2>3. QED
    BY <2>1, <2>2 DEF Abstract!vars
<1>1. ASSUME NEW c \in Channel, AddInsert(c) PROVE Abstract!Insert(c)
  <2>1. phase[c] = "creating" /\ phase' = [phase EXCEPT ![c] = "kept"]
    BY <1>1 DEF AddInsert, SetPhase
  <2>2. QED
    BY <2>1, <1>a, <1>b, <1>c, <1>d, <1>e DEF Abstract!Insert, TypeOK, Phase, Ever
<1>2. ASSUME NEW r \in Remover, NEW c \in Channel, RemoveStart(r, c), phase[c] = "kept"
      PROVE  Abstract!Delete(c)
  <2>1. phase' = [phase EXCEPT ![c] = "removed"]
    BY <1>2 DEF RemoveStart, SetPhase
  <2>2. QED
    BY <2>1, <1>2, <1>a, <1>b, <1>c, <1>d, <1>e DEF Abstract!Delete, TypeOK, Phase, Ever
<1>3. ASSUME NEW r \in Remover, NEW c \in Channel, RemoveStart(r, c), phase[c] # "kept"
      PROVE  UNCHANGED Abstract!vars
  <2>1. phase[c] = "removed" /\ phase' = [phase EXCEPT ![c] = "removed"]
    BY <1>3, <1>a DEF RemoveStart, SetPhase, RefinementInv, Absent, TypeOK, Phase
  <2>2. phase' = phase
    BY <2>1, <1>a DEF TypeOK
  <2>3. QED
    BY <2>2, <1>s
<1>4. ASSUME NEW c \in Channel, AddStart(c) PROVE UNCHANGED Abstract!vars
  <2>1. phase[c] = "unused" /\ phase' = [phase EXCEPT ![c] = "creating"]
    BY <1>4 DEF AddStart, SetPhase
  <2>2. QED
    BY <2>1, <1>s, <1>a DEF TypeOK, Ever
<1>5. ASSUME NEW c \in Channel, AddWrite(c) \/ AddReturn(c) PROVE UNCHANGED Abstract!vars
  BY <1>5, <1>s DEF AddWrite, AddReturn, memory
<1>6. ASSUME NEW t \in removing, RemoveStep(t) PROVE UNCHANGED Abstract!vars
  BY <1>6, <1>s DEF RemoveStep, RemoveNext, RemoveFinish
<1>7. ASSUME Crash PROVE UNCHANGED Abstract!vars
  <2>1. phase' = [c \in Channel |-> IF phase[c] = "creating" THEN "lost" ELSE phase[c]]
    BY <1>7 DEF Crash
  <2>2. QED
    BY <2>1, <1>s, <1>a DEF TypeOK, Ever
<1>8. ASSUME LoadSubscriptions PROVE UNCHANGED Abstract!vars
  <2>1. subscriptions' = Restorable
    BY <1>8, <1>a DEF LoadSubscriptions, Restorable, Recoverable, TypeOK
  <2>2. phase' = [c \in Channel |-> IF c \in Restorable THEN "kept" ELSE phase[c]]
    BY <1>8, <2>1 DEF LoadSubscriptions
  <2>3. QED
    BY <2>2, <1>b, <1>s DEF Ever
<1>9. ASSUME UNCHANGED storeVars PROVE UNCHANGED Abstract!vars
  BY <1>9, <1>s DEF storeVars
<1>10. QED
  BY <1>1, <1>2, <1>3, <1>4, <1>5, <1>6, <1>7, <1>8, <1>9
     DEF StoreNext, AddStep, AddFails, RemoveFails, AddRejected, SaveRejected,
         RemoveStartRejected, RemoveNextRejected, RemoveFinishRejected,
         LoadSubscriptionsRejected, Abstract!Next

\* Over a storage that does not reject, the channels the next start restores are
\* a DurableSet, whatever interleaves and whenever the process stops
\* (subscription-handler.ts:31-52, 69-80 and 99-118).
THEOREM StoreImplementsDurableSet ==
  ASSUME ~StorageMayReject
  PROVE  StoreSpec => ImplementsDurableSet
<1>1. StoreInit => Abstract!Init
  BY DEF StoreInit, Abstract!Init, Restorable, EverRestorable, Recoverable
<1>2. QED
  BY InitRefinement, NextRefinement, StepRefines, <1>1, PTL
     DEF StoreSpec, ImplementsDurableSet, Abstract!Spec

-----------------------------------------------------------------------------
(* Memory and disk agree when nothing runs *)

\* What the map still holds of a channel that is removed has a removal under way.
RemovalsRun ==
  up => \A c \in subscriptions :
          phase[c] = "removed" => \E t \in removing : t.channel = c

QuietInv == RefinementInv /\ RemovalsRun

LEMMA NextQuiet ==
  ASSUME ~StorageMayReject, QuietInv, [StoreNext]_storeVars
  PROVE  QuietInv'
<1>0. RefinementInv /\ RefinementInv' /\ TypeOK /\ RemovalsRun
  BY NextRefinement DEF QuietInv, RefinementInv, DurabilityInv
<1> SUFFICES RemovalsRun'
  BY <1>0 DEF QuietInv
<1> USE <1>0 DEF TypeOK, RemovalsRun, SetPhase
<1>1. ASSUME NEW c \in Channel, AddStart(c) \/ AddWrite(c) \/ AddReturn(c) PROVE RemovalsRun'
  BY <1>1 DEF AddStart, AddWrite, AddReturn, memory
<1>2. ASSUME NEW c \in Channel, AddInsert(c) PROVE RemovalsRun'
  BY <1>2 DEF AddInsert
<1>3. ASSUME NEW r \in Remover, NEW c \in Channel, RemoveStart(r, c) PROVE RemovalsRun'
  <2> DEFINE t == [run |-> r, channel |-> c, removed |-> 1]
  <2>1. t \in removing' /\ t.channel = c /\ removing \subseteq removing'
    BY <1>3 DEF RemoveStart
  <2>2. subscriptions' = subscriptions /\ up /\ phase' = [phase EXCEPT ![c] = "removed"]
    BY <1>3 DEF RemoveStart
  <2> HIDE DEF t
  <2> QED
    BY <2>1, <2>2
<1>4. ASSUME NEW t \in removing, RemoveNext(t) PROVE RemovalsRun'
  <2> DEFINE u == [t EXCEPT !.removed = @ + 1]
  <2>1. t \in Removal /\ u.channel = t.channel
    BY DEF Removal
  <2>2. removing' = (removing \ {t}) \cup {u} /\ UNCHANGED <<up, subscriptions, phase>>
    BY <1>4 DEF RemoveNext
  <2> HIDE DEF u
  <2> QED
    BY <2>1, <2>2
<1>5. ASSUME NEW t \in removing, RemoveFinish(t) PROVE RemovalsRun'
  BY <1>5 DEF RemoveFinish
<1>6. ASSUME Crash PROVE RemovalsRun'
  BY <1>6 DEF Crash
<1>7. ASSUME LoadSubscriptions PROVE RemovalsRun'
  BY <1>7 DEF LoadSubscriptions
<1>8. ASSUME UNCHANGED storeVars PROVE RemovalsRun'
  BY <1>8 DEF storeVars
<1> QED
  BY <1>1, <1>2, <1>3, <1>4, <1>5, <1>6, <1>7, <1>8
     DEF StoreNext, AddStep, RemoveStep, AddFails, RemoveFails, AddRejected,
         SaveRejected, RemoveStartRejected, RemoveNextRejected, RemoveFinishRejected,
         LoadSubscriptionsRejected

\* With a storage that does not reject, a stop and a start of a process in which no
\* call runs give back exactly its subscriptions (subscription-handler.ts:69-80).
THEOREM StoreAgreesWhenQuiet ==
  ASSUME ~StorageMayReject
  PROVE  StoreSpec => []QuiescentAgreement
<1>1. StoreInit => QuietInv
  BY InitRefinement DEF StoreInit, QuietInv, RemovalsRun
<1>2. QuietInv => QuiescentAgreement
  <2> SUFFICES ASSUME QuietInv, up, removing = {}, \A c \in Channel : phase[c] # "creating"
               PROVE  subscriptions = Restorable
    BY DEF QuiescentAgreement, Restorable
  <2>1. Restorable = {c \in Channel : phase[c] = "kept"}
    BY RestorableByPhase DEF QuietInv
  <2>2. \A c \in Channel : c \in subscriptions <=> phase[c] = "kept"
    BY DEF QuietInv, RemovalsRun, RefinementInv, DurabilityInv, Kept, KeptIn, Absent, TypeOK,
           Phase
  <2> QED
    BY <2>1, <2>2 DEF QuietInv, RefinementInv, DurabilityInv, TypeOK
<1> QED
  BY <1>1, <1>2, NextQuiet, PTL DEF StoreSpec

-----------------------------------------------------------------------------
(* What is removed stays removed *)

\* A channel that is removed stays so, and does not come back into the map.
LEMMA RemovedStays ==
  ASSUME ~StorageMayReject, RefinementInv, [StoreNext]_storeVars,
         NEW c \in Channel, phase[c] = "removed"
  PROVE  phase'[c] = "removed" /\ (c \notin subscriptions => c \notin subscriptions')
<1> DEFINE Stays == phase'[c] = "removed" /\ (c \notin subscriptions => c \notin subscriptions')
<1>0. TypeOK /\ Gone
  BY DEF RefinementInv, DurabilityInv
<1> USE <1>0 DEF TypeOK, SetPhase
<1>1. ASSUME NEW d \in Channel, AddStart(d) \/ AddStep(d) \/ AddFails(d) PROVE Stays
  BY <1>1 DEF AddStart, AddStep, AddWrite, AddInsert, AddReturn, AddFails, AddRejected,
     SaveRejected, memory
<1>2. ASSUME NEW d \in Channel, RemoveStartRejected(d) \/ \E r \in Remover : RemoveStart(r, d)
      PROVE  Stays
  BY <1>2 DEF RemoveStart, RemoveStartRejected
<1>3. ASSUME NEW t \in removing, RemoveStep(t) \/ RemoveFails(t) PROVE Stays
  BY <1>3 DEF RemoveStep, RemoveFails, RemoveNext, RemoveFinish, RemoveNextRejected,
     RemoveFinishRejected
<1>4. ASSUME LoadSubscriptions PROVE Stays
  <2>1. c \notin subscriptions'
    BY <1>4 DEF LoadSubscriptions, Gone, Recovers
  <2>2. QED
    BY <1>4, <2>1 DEF LoadSubscriptions
<1>5. ASSUME Crash \/ UNCHANGED storeVars PROVE Stays
  BY <1>5 DEF Crash, storeVars
<1>6. QED
  BY <1>1, <1>2, <1>3, <1>4, <1>5 DEF StoreNext, LoadSubscriptionsRejected

\* Over a storage that does not reject, a channel that its removal has taken out of the
\* map never gets back into it, nor into what the next start restores, through any
\* number of additions, other removals, stops and starts: the safety in RemovalIsFinal
\* (subscription-handler.ts:69-80 and 99-118).
THEOREM RemovedNeverReturns ==
  ASSUME ~StorageMayReject, NEW c \in Channel
  PROVE  StoreSpec =>
           [](phase[c] = "removed" /\ c \notin subscriptions
                => [](c \notin subscriptions /\ ~Recoverable(c)))
<1> DEFINE Out == phase[c] = "removed" /\ c \notin subscriptions
<1>1. RefinementInv /\ Out /\ [StoreNext]_storeVars => Out'
  BY RemovedStays
<1>2. RefinementInv /\ Out => c \notin subscriptions /\ ~Recoverable(c)
  BY DEF RefinementInv, Gone, Recoverable, Recovers
<1> HIDE DEF Out
<1>3. StoreSpec => [](Out => [](c \notin subscriptions /\ ~Recoverable(c)))
  BY InitRefinement, NextRefinement, <1>1, <1>2, PTL DEF StoreSpec
<1> QED
  BY <1>3 DEF Out
=============================================================================
