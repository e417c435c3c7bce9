------------------------- MODULE RegistrationProofs -------------------------
(***************************************************************************)
(* Theorems about Registration, for any channels, keys, callers, removals, *)
(* faults and bounds.                                                      *)
(***************************************************************************)
EXTENDS Registration, SubscriptionStoreProofs

\* The steps that touch the store, and all the others.
LEMMA QuietSteps ==
  ASSUME RegNext
  PROVE  \/ UNCHANGED storeVars
         \/ \E c \in Channel : HandleRegistered(c) \/ HandleUnregistered(c) \/ Registered(c)
         \/ Stop \/ StoreRuns
<1>1. ASSUME NEW p \in Caller,
             Unsubscribe(p) \/ \E k \in Key : SubscribeExisting(p, k) \/ SubscribeNew(p, k)
      PROVE  UNCHANGED storeVars
  BY <1>1 DEF Unsubscribe, SubscribeExisting, SubscribeNew
<1>2. ASSUME NEW c \in Channel,
             \/ HandleUnexpected(c) \/ HandleConflict(c) \/ HandleRegisterError(c)
             \/ HandleRefused(c) \/ HandleUnregisterError(c) \/ Retry(c) \/ ExpireRegister(c)
      PROVE  UNCHANGED storeVars
  BY <1>2 DEF HandleUnexpected, HandleConflict, HandleRegisterError, HandleRefused,
     HandleUnregisterError, Retry, RetryRegister, RetryUnregister, ExpireRegister
<1>3. ASSUME Server \/ Connect \/ Open \/ CreateReturns \/ Close PROVE UNCHANGED storeVars
  BY <1>3 DEF Server, ServerAccepts, ServerFails, Connect, Open, CreateReturns, Close
<1>4. QED
  BY <1>1, <1>2, <1>3 DEF RegNext, Application, Handle

\* Whatever the conversations with the server do to the store is a step of
\* SubscriptionStore or none.
LEMMA RegStepIsStoreStep == [RegNext]_regVars => [StoreNext]_storeVars
<1> SUFFICES ASSUME [RegNext]_regVars PROVE [StoreNext]_storeVars
  OBVIOUS
<1>1. ASSUME NEW c \in Channel, HandleRegistered(c) PROVE StoreNext
  BY <1>1 DEF HandleRegistered, StoreNext
<1>2. ASSUME NEW c \in Channel, HandleUnregistered(c) PROVE [StoreNext]_storeVars
  BY <1>2 DEF HandleUnregistered, BeginRemoval, StoreNext
<1>3. ASSUME NEW c \in Channel, Registered(c) PROVE StoreNext
  BY <1>3 DEF Registered, StoreNext, AddStep
<1>4. ASSUME Stop PROVE StoreNext
  BY <1>4 DEF Stop, StoreNext
<1>5. ASSUME StoreRuns PROVE StoreNext
  BY <1>5 DEF StoreRuns, StoreNext, AddStep
<1>6. ASSUME UNCHANGED regVars PROVE UNCHANGED storeVars
  BY <1>6 DEF regVars
<1>7. QED
  BY <1>1, <1>2, <1>3, <1>4, <1>5, <1>6, QuietSteps

\* The registration protocol uses the store as SubscriptionStore describes it.
THEOREM RegImplementsStore == RegSpec => StoreSpec
<1>1. RegInit => StoreInit
  BY DEF RegInit
<1>2. QED
  BY <1>1, RegStepIsStoreStep, PTL DEF RegSpec, StoreSpec

\* So what subscribe handed out survives a stop of the process, whatever the server
\* answers, however calls, replies and timers interleave
\* (register-handler.ts:87-99, subscription-handler.ts:48-51).
THEOREM RegDurability == RegSpec => []Durability
  BY RegImplementsStore, StoreDurability, PTL

\* And the channels that the next start restores are a DurableSet.
THEOREM RegImplementsDurableSet == RegSpec => ImplementsDurableSet
<1>1. ~StorageMayReject
  BY RegistrationAssumption
<1>2. QED
  BY <1>1, RegImplementsStore, StoreImplementsDurableSet, PTL
-----------------------------------------------------------------------------
(* Type correctness *)

\* The parts of RegTypeOK that are not the store's.
ClientTypeOK ==
  /\ drawn \subseteq Channel
  /\ keyOf \in [Channel -> Key]
  /\ registeringQueue \subseteq Channel
  /\ registerRetries \subseteq Channel
  /\ unregisterRetries \in [Channel -> Nat]
  /\ call \in [Caller -> Call]

WireTypeOK == toServer \in Seq(Request) /\ toClient \in Seq(Reply)

OtherTypeOK ==
  /\ websocket \in {"none", "connecting", "open"}
  /\ creation \in Creation
  /\ registered \subseteq Channel
  /\ errors \in 0 .. MaxErrors
  /\ unbroken \in BOOLEAN
  /\ overlapped \subseteq Key
  /\ unsubscribeCalled \subseteq Channel

LEMMA RegTypeParts == RegTypeOK <=> TypeOK /\ ClientTypeOK /\ WireTypeOK /\ OtherTypeOK
  BY DEF RegTypeOK, ClientTypeOK, WireTypeOK, OtherTypeOK

LEMMA EmptyWire == <<>> \in Seq(Request) /\ <<>> \in Seq(Reply)
  OBVIOUS

LEMMA InitRegType == RegInit => RegTypeOK
<1> SUFFICES ASSUME RegInit PROVE RegTypeOK
  OBVIOUS
<1>1. TypeOK
  BY InitTypeOK DEF RegInit
<1>2. ClientTypeOK
  <2>1. (CHOOSE k \in Key : TRUE) \in Key
    BY RegistrationAssumption
  <2>2. Idling \in Call
    BY DEF Idling, Call
  <2>3. QED
    BY <2>1, <2>2 DEF RegInit, ClientTypeOK
<1>3. WireTypeOK
  BY EmptyWire DEF RegInit, WireTypeOK
<1>4. OtherTypeOK
  <2>1. errors \in 0 .. MaxErrors
    BY RegistrationAssumption DEF RegInit
  <2>2. QED
    BY <2>1 DEF RegInit, Creation, OtherTypeOK
<1>5. QED
  BY <1>1, <1>2, <1>3, <1>4, RegTypeParts

\* Taking a message off the wire and putting one on it.
LEMMA ReceiveType ==
  ASSUME WireTypeOK, NEW m, Received(m)
  PROVE  toClient' \in Seq(Reply)
  BY DEF WireTypeOK, Received

LEMMA SendType ==
  ASSUME WireTypeOK, NEW m \in Request, Send(m)
  PROVE  toServer' \in Seq(Request)
  BY DEF WireTypeOK, Send

LEMMA SendRegisterType ==
  ASSUME ClientTypeOK, WireTypeOK, NEW k \in Key, SendRegister(k)
  PROVE  /\ drawn' \subseteq Channel
         /\ keyOf' \in [Channel -> Key]
         /\ registeringQueue' \subseteq Channel
         /\ toServer' \in Seq(Request)
<1>1. PICK c \in Channel \ drawn :
        /\ drawn' = drawn \cup {c}
        /\ keyOf' = [keyOf EXCEPT ![c] = k]
        /\ registeringQueue' = registeringQueue \cup {c}
        /\ Send(ToRegister(c))
  BY DEF SendRegister
<1>2. ToRegister(c) \in Request
  BY DEF ToRegister, Request
<1>3. QED
  BY <1>1, <1>2, SendType DEF ClientTypeOK

LEMMA NextRegType == RegTypeOK /\ [RegNext]_regVars => RegTypeOK'
<1> SUFFICES ASSUME RegTypeOK, [RegNext]_regVars PROVE RegTypeOK'
  OBVIOUS
<1>0. TypeOK' /\ ClientTypeOK /\ WireTypeOK /\ OtherTypeOK
  BY RegTypeParts, RegStepIsStoreStep, NextTypeOK
<1> DEFINE Rest == ClientTypeOK' /\ WireTypeOK' /\ OtherTypeOK'
<1> SUFFICES Rest
  BY <1>0 DEF RegTypeOK, ClientTypeOK, WireTypeOK, OtherTypeOK
<1> HIDE DEF Rest
<1>1. ASSUME NEW p \in Caller, NEW k \in Key, SubscribeExisting(p, k) PROVE Rest
  <2>1. PICK c \in WithKey(k) : call' = [call EXCEPT ![p] = Holding(k, c)]
    BY <1>1 DEF SubscribeExisting, Resolve
  <2>2. Holding(k, c) \in Call
    BY <2>1 DEF WithKey, Holding, Call, RegTypeOK, TypeOK
  <2>3. QED
    BY <1>0, <1>1, <2>1, <2>2 DEF SubscribeExisting, clientVars, wireVars, serverVars, history,
       ClientTypeOK, WireTypeOK, OtherTypeOK, Rest
<1>2. ASSUME NEW p \in Caller, NEW k \in Key, SubscribeNew(p, k) PROVE Rest
  <2>1. call' \in [Caller -> Call]
    <3>1. Subscribing(k) \in Call
      BY DEF Subscribing, Call
    <3>2. QED
      BY <1>0, <1>2, <3>1 DEF SubscribeNew, Resolve, ClientTypeOK
  <2>2. overlapped' \subseteq Key
    BY <1>0, <1>2 DEF SubscribeNew, OtherTypeOK
  <2>3. SendRegister(k)
    BY <1>2 DEF SubscribeNew
  <2>4. /\ UNCHANGED <<websocket, creation, registerRetries, unregisterRetries,
                       toClient, registered, errors, unbroken, unsubscribeCalled>>
    BY <1>2 DEF SubscribeNew, serverVars
  <2>5. QED
    BY <1>0, <2>1, <2>2, <2>3, <2>4, SendRegisterType
       DEF ClientTypeOK, WireTypeOK, OtherTypeOK, Rest
<1>3. ASSUME NEW p \in Caller, Unsubscribe(p) PROVE Rest
  <2>1. call[p] \in [op : {"holding"}, key : Key, channel : Channel]
    BY <1>0, <1>3 DEF Unsubscribe, ClientTypeOK, Call
  <2>2. [call[p] EXCEPT !.op = "unsubscribing"] \in Call
    BY <2>1 DEF Call
  <2>3. ToUnregister(call[p].channel) \in Request
    BY <2>1 DEF ToUnregister, Request
  <2>4. toServer' \in Seq(Request)
    BY <1>0, <1>3, <2>3, SendType DEF Unsubscribe
  <2>5. unsubscribeCalled' \subseteq Channel
    BY <1>0, <1>3, <2>1 DEF Unsubscribe, OtherTypeOK
  <2>6. QED
    BY <1>0, <1>3, <2>2, <2>4, <2>5 DEF Unsubscribe, Resolve, clientVars, serverVars,
       ClientTypeOK, WireTypeOK, OtherTypeOK, Rest
<1>4. ASSUME NEW c \in Channel, HandleRegistered(c) PROVE Rest
  <2>1. toClient' \in Seq(Reply)
    BY <1>0, <1>4, ReceiveType DEF HandleRegistered
  <2>2. QED
    BY <1>0, <1>4, <2>1 DEF HandleRegistered, serverVars, history,
       ClientTypeOK, WireTypeOK, OtherTypeOK, Rest
<1>5. ASSUME NEW c \in Channel, HandleUnexpected(c) PROVE Rest
  <2>1. toClient' \in Seq(Reply)
    BY <1>0, <1>5, ReceiveType DEF HandleUnexpected
  <2>2. ToUnregister(c) \in Request
    BY DEF ToUnregister, Request
  <2>3. toServer' \in Seq(Request)
    BY <1>0, <1>5, <2>2, SendType DEF HandleUnexpected
  <2>4. QED
    BY <1>0, <1>5, <2>1, <2>3 DEF HandleUnexpected, clientVars, serverVars, history,
       ClientTypeOK, WireTypeOK, OtherTypeOK, Rest
<1>6. ASSUME NEW c \in Channel, HandleConflict(c) PROVE Rest
  <2>1. toClient' \in Seq(Reply)
    BY <1>0, <1>6, ReceiveType DEF HandleConflict
  <2>2. /\ drawn' \subseteq Channel
        /\ keyOf' \in [Channel -> Key]
        /\ registeringQueue' \subseteq Channel
        /\ toServer' \in Seq(Request)
    <3>1. keyOf[c] \in Key
      BY <1>0 DEF ClientTypeOK
    <3>2. CASE SendRegister(keyOf[c])
      BY <1>0, <3>1, <3>2, SendRegisterType
    <3>3. CASE UNCHANGED <<drawn, keyOf, registeringQueue, toServer>>
      BY <1>0, <3>3 DEF ClientTypeOK, WireTypeOK
    <3>4. QED
      BY <1>6, <3>2, <3>3 DEF HandleConflict, RetryNow
  <2>3. QED
    BY <1>0, <1>6, <2>1, <2>2 DEF HandleConflict, serverVars, history,
       ClientTypeOK, WireTypeOK, OtherTypeOK, Rest
<1>7. ASSUME NEW c \in Channel, HandleRegisterError(c) PROVE Rest
  <2>1. toClient' \in Seq(Reply)
    BY <1>0, <1>7, ReceiveType DEF HandleRegisterError
  <2>2. QED
    BY <1>0, <1>7, <2>1 DEF HandleRegisterError, serverVars, history,
       ClientTypeOK, WireTypeOK, OtherTypeOK, Rest
<1>8. ASSUME NEW c \in Channel, HandleRefused(c) PROVE Rest
  <2>1. toClient' \in Seq(Reply)
    BY <1>0, <1>8, ReceiveType DEF HandleRefused
  <2>2. QED
    BY <1>0, <1>8, <2>1 DEF HandleRefused, clientVars, serverVars, history,
       ClientTypeOK, WireTypeOK, OtherTypeOK, Rest
<1>9. ASSUME NEW c \in Channel, HandleUnregistered(c) PROVE Rest
  <2>1. toClient' \in Seq(Reply)
    BY <1>0, <1>9, ReceiveType DEF HandleUnregistered
  <2>2. call' \in [Caller -> Call]
    <3>1. ASSUME NEW p \in Caller, call[p].op = "unsubscribing"
          PROVE  [call[p] EXCEPT !.op = "unsubscribed"] \in Call
      <4>1. call[p] \in [op : {"unsubscribing"}, key : Key, channel : Channel]
        BY <1>0, <3>1 DEF ClientTypeOK, Call
      <4>2. QED
        BY <4>1 DEF Call
    <3>2. QED
      BY <1>0, <1>9, <3>1 DEF HandleUnregistered, NotifyUnregistered, ClientTypeOK
  <2>3. QED
    BY <1>0, <1>9, <2>1, <2>2 DEF HandleUnregistered, clientVars, serverVars, history,
       ClientTypeOK, WireTypeOK, OtherTypeOK, Rest
<1>10. ASSUME NEW c \in Channel, HandleUnregisterError(c) PROVE Rest
  <2>1. toClient' \in Seq(Reply)
    BY <1>0, <1>10, ReceiveType DEF HandleUnregisterError
  <2>2. QED
    BY <1>0, <1>10, <2>1 DEF HandleUnregisterError, serverVars, history,
       ClientTypeOK, WireTypeOK, OtherTypeOK, Rest
<1>11. ASSUME NEW c \in Channel, RetryRegister(c) PROVE Rest
  <2>1. keyOf[c] \in Key
    BY <1>0 DEF ClientTypeOK
  <2>2. /\ drawn' \subseteq Channel
        /\ keyOf' \in [Channel -> Key]
        /\ registeringQueue' \subseteq Channel
        /\ toServer' \in Seq(Request)
    <3>1. CASE websocket = "none"
      BY <1>0, <1>11, <3>1 DEF RetryRegister, ClientTypeOK, WireTypeOK
    <3>2. CASE websocket # "none"
      BY <1>0, <1>11, <2>1, <3>2, SendRegisterType DEF RetryRegister
    <3>3. QED
      BY <3>1, <3>2
  <2>3. QED
    BY <1>0, <1>11, <2>2 DEF RetryRegister, serverVars, history,
       ClientTypeOK, WireTypeOK, OtherTypeOK, Rest
<1>12. ASSUME NEW c \in Channel, RetryUnregister(c) PROVE Rest
  <2>1. ToUnregister(c) \in Request
    BY DEF ToUnregister, Request
  <2>2. toServer' \in Seq(Request)
    BY <1>0, <1>12, <2>1, SendType DEF RetryUnregister
  <2>3. unregisterRetries' \in [Channel -> Nat]
    BY <1>0, <1>12 DEF RetryUnregister, ClientTypeOK
  <2>4. QED
    BY <1>0, <1>12, <2>2, <2>3 DEF RetryUnregister, serverVars, history,
       ClientTypeOK, WireTypeOK, OtherTypeOK, Rest
<1>13. ASSUME NEW c \in Channel, ExpireRegister(c) PROVE Rest
  BY <1>0, <1>13 DEF ExpireRegister, wireVars, serverVars, history,
     ClientTypeOK, WireTypeOK, OtherTypeOK, Rest
<1>14. ASSUME NEW c \in Channel, Registered(c) PROVE Rest
  <2>1. call' \in [Caller -> Call]
    <3>1. ASSUME NEW p \in Caller, call[p] = Subscribing(keyOf[c])
          PROVE  Holding(keyOf[c], c) \in Call
      BY <1>0, <3>1 DEF Holding, Call, ClientTypeOK
    <3>2. QED
      BY <1>0, <1>14, <3>1 DEF Registered, NotifyRegistered, ClientTypeOK
  <2>2. QED
    BY <1>0, <1>14, <2>1 DEF Registered, clientVars, wireVars, serverVars, history,
       ClientTypeOK, WireTypeOK, OtherTypeOK, Rest
<1>15. ASSUME ServerAccepts \/ ServerFails PROVE Rest
  <2>1. toServer # <<>> /\ Head(toServer) \in Request /\ Tail(toServer) \in Seq(Request)
    BY <1>0, <1>15 DEF ServerAccepts, ServerFails, WireTypeOK
  <2> DEFINE m == Head(toServer)
  <2>2. m.channelID \in Channel /\ m.messageType \in {"register", "unregister"}
    BY <2>1 DEF Request
  <2> HIDE DEF m
  <2>3. ASSUME NEW s \in {200, 400, 409, 500} PROVE RegisterReply(m.channelID, s) \in Reply
    BY <2>2 DEF RegisterReply, Reply
  <2>4. ASSUME NEW s \in {200, 500} PROVE UnregisterReply(m.channelID, s) \in Reply
    BY <2>2 DEF UnregisterReply, Reply
  <2>5. ASSUME NEW r \in Reply, Answers(r) PROVE WireTypeOK'
    BY <1>0, <2>1, <2>5 DEF Answers, WireTypeOK
  <2>6. CASE ServerAccepts
    <3>1. WireTypeOK'
      BY <2>6, <2>3, <2>4, <2>5 DEF ServerAccepts, m
    <3>2. registered' \subseteq Channel
      BY <1>0, <2>6, <2>2 DEF ServerAccepts, OtherTypeOK, m
    <3>3. QED
      BY <1>0, <2>6, <3>1, <3>2 DEF ServerAccepts, clientVars, history,
         ClientTypeOK, OtherTypeOK, Rest
  <2>7. CASE ServerFails
    <3>1. WireTypeOK'
      BY <2>7, <2>3, <2>4, <2>5 DEF ServerFails, RegisterErrors, m
    <3>2. errors' \in 0 .. MaxErrors
      BY <1>0, <2>7, RegistrationAssumption DEF ServerFails, OtherTypeOK
    <3>3. QED
      BY <1>0, <2>7, <3>1, <3>2 DEF ServerFails, clientVars, history,
         ClientTypeOK, OtherTypeOK, Rest
  <2>8. QED
    BY <1>15, <2>6, <2>7
<1>16. ASSUME Connect \/ Open \/ CreateReturns PROVE Rest
  BY <1>0, <1>16 DEF Connect, NewHelloPromise, Open, CreateReturns, Creation, clientVars, wireVars, serverVars, history,
     ClientTypeOK, WireTypeOK, OtherTypeOK, Rest
<1>17. ASSUME Close PROVE Rest
  <2>1. WireTypeOK'
    BY <1>17, EmptyWire DEF Close, WireTypeOK
  <2>2. ClientTypeOK' /\ OtherTypeOK'
    BY <1>0, <1>17 DEF Close, clientVars, serverVars, ClientTypeOK, OtherTypeOK
  <2>3. QED
    BY <2>1, <2>2 DEF Rest
<1>18. ASSUME Stop PROVE Rest
  <2>1. Idling \in Call
    BY DEF Idling, Call
  <2>2. WireTypeOK'
    BY <1>18, EmptyWire DEF Stop, WireTypeOK
  <2>3. ClientTypeOK'
    BY <1>0, <1>18, <2>1 DEF Stop, ClientTypeOK
  <2>4. OtherTypeOK'
    BY <1>0, <1>18 DEF Stop, Creation, serverVars, OtherTypeOK
  <2>5. QED
    BY <2>2, <2>3, <2>4 DEF Rest
<1>19. ASSUME StoreRuns PROVE Rest
  BY <1>0, <1>19 DEF StoreRuns, clientVars, wireVars, serverVars, history,
     ClientTypeOK, WireTypeOK, OtherTypeOK, Rest
<1>20. ASSUME UNCHANGED regVars PROVE Rest
  BY <1>0, <1>20 DEF regVars, clientVars, wireVars, serverVars, history,
     ClientTypeOK, WireTypeOK, OtherTypeOK, Rest
<1>21. QED
  BY <1>1, <1>2, <1>3, <1>4, <1>5, <1>6, <1>7, <1>8, <1>9, <1>10, <1>11, <1>12, <1>13,
     <1>14, <1>15, <1>16, <1>17, <1>18, <1>19, <1>20
     DEF RegNext, Application, Handle, Retry, Server

\* Every reachable state of the protocol is well-formed: no reply leads to a record
\* without a key or a channel, and no counter of retries goes below zero.
THEOREM RegTypeCorrect == RegSpec => []RegTypeOK
  BY InitRegType, NextRegType, PTL DEF RegSpec
-----------------------------------------------------------------------------
(* What subscribe returns *)

\* The channels that entered the map once.
Handed == {c \in Channel : phase[c] \in {"kept", "removed"}}

\* Only a channel that entered the map is about to be returned.
SavingHanded == saving \subseteq Handed

\* A channel has left "unused" only after it was drawn, and only drawn ones are
\* expected: the key of a channel is settled by then.
Drawn ==
  /\ registeringQueue \subseteq drawn
  /\ \A c \in Channel : phase[c] # "unused" => c \in drawn

\* What a caller holds has the key it asked for, and entered the map at some time.
HoldsHanded ==
  \A p \in Caller :
    call[p].op = "holding" =>
      /\ keyOf[call[p].channel] = call[p].key
      /\ phase[call[p].channel] \in {"kept", "removed"}

ReturnInv == RegTypeOK /\ RefinementInv /\ SavingHanded /\ Drawn /\ HoldsHanded

LEMMA InitReturn == RegInit => ReturnInv
<1> SUFFICES ASSUME RegInit PROVE ReturnInv
  OBVIOUS
<1>1. RegTypeOK /\ RefinementInv
  BY InitRegType, InitRefinement DEF RegInit
<1>2. SavingHanded /\ Drawn
  BY DEF RegInit, StoreInit, SavingHanded, Drawn
<1>3. HoldsHanded
  BY DEF RegInit, Idling, HoldsHanded
<1>4. QED
  BY <1>1, <1>2, <1>3 DEF ReturnInv

\* A step of the store never undoes that a channel entered the map.
LEMMA HandedStays ==
  ASSUME RefinementInv, SavingHanded, [StoreNext]_storeVars
  PROVE  Handed \subseteq Handed' /\ SavingHanded'
<1> DEFINE Stays == /\ \A c \in Channel : phase[c] \in {"kept", "removed"}
                                            => phase'[c] \in {"kept", "removed"}
                    /\ \A c \in saving' : phase'[c] \in {"kept", "removed"}
<1>0. ~StorageMayReject /\ TypeOK /\ TypeOK' /\ Absent
  BY RegistrationAssumption, NextTypeOK DEF RefinementInv, DurabilityInv
<1> USE <1>0 DEF TypeOK, SetPhase, SavingHanded, Handed
<1>1. ASSUME NEW c \in Channel, AddStart(c) PROVE Stays
  BY <1>1 DEF AddStart
<1>2. ASSUME NEW c \in Channel, AddStep(c) PROVE Stays
  <2>1. CASE AddWrite(c)
    BY <2>1 DEF AddWrite, memory
  <2>2. CASE AddInsert(c)
    BY <2>2 DEF AddInsert
  <2>3. CASE AddReturn(c)
    BY <2>3 DEF AddReturn, disk
  <2>4. QED
    BY <1>2, <2>1, <2>2, <2>3 DEF AddStep
<1>3. ASSUME NEW c \in Channel, AddFails(c) \/ RemoveStartRejected(c) PROVE Stays
  BY <1>3 DEF AddFails, AddRejected, SaveRejected, RemoveStartRejected
<1>4. ASSUME NEW r \in Remover, NEW c \in Channel, RemoveStart(r, c) PROVE Stays
  BY <1>4 DEF RemoveStart
<1>5. ASSUME NEW t \in removing, RemoveStep(t) \/ RemoveFails(t) PROVE Stays
  BY <1>5 DEF RemoveStep, RemoveFails, RemoveNext, RemoveFinish, RemoveNextRejected,
     RemoveFinishRejected
<1>6. ASSUME Crash PROVE Stays
  BY <1>6 DEF Crash
<1>7. ASSUME LoadSubscriptions \/ LoadSubscriptionsRejected PROVE Stays
  BY <1>7 DEF LoadSubscriptions, LoadSubscriptionsRejected
<1>8. ASSUME UNCHANGED storeVars PROVE Stays
  BY <1>8 DEF storeVars
<1>9. Stays
  BY <1>1, <1>2, <1>3, <1>4, <1>5, <1>6, <1>7, <1>8 DEF StoreNext
<1>10. QED
  BY <1>9

\* Only the answer to its registration takes a channel out of "unused".
LEMMA OnlyAnsweredBegin ==
  ASSUME RefinementInv, [RegNext]_regVars, NEW c \in Channel,
         phase[c] = "unused", phase'[c] # "unused"
  PROVE  HandleRegistered(c)
<1>0. TypeOK /\ Absent
  BY DEF RefinementInv, DurabilityInv
<1> USE <1>0 DEF TypeOK, SetPhase, Absent
<1>1. ASSUME NEW d \in Channel, HandleRegistered(d) PROVE HandleRegistered(c)
  <2>1. c = d
    BY <1>1 DEF HandleRegistered, AddStart
  <2>2. QED
    BY <1>1, <2>1
<1>2. ASSUME NEW d \in Channel, HandleUnregistered(d) PROVE FALSE
  BY <1>2 DEF HandleUnregistered, BeginRemoval, RemoveStart, storeVars
<1>3. ASSUME NEW d \in Channel, Registered(d) PROVE FALSE
  BY <1>3 DEF Registered, AddReturn
<1>4. ASSUME StoreRuns PROVE FALSE
  <2>1. ASSUME NEW d \in Channel, AddWrite(d) PROVE FALSE
    BY <2>1 DEF AddWrite, memory
  <2>2. ASSUME NEW d \in Channel, AddInsert(d) PROVE FALSE
    BY <2>2 DEF AddInsert
  <2>3. ASSUME NEW t \in removing, RemoveStep(t) PROVE FALSE
    BY <2>3 DEF RemoveStep, RemoveNext, RemoveFinish
  <2>4. ASSUME LoadSubscriptions PROVE FALSE
    BY <2>4 DEF LoadSubscriptions
  <2>5. QED
    BY <1>4, <2>1, <2>2, <2>3, <2>4 DEF StoreRuns
<1>5. ASSUME Stop PROVE FALSE
  BY <1>5 DEF Stop, Crash
<1>6. ASSUME UNCHANGED storeVars PROVE FALSE
  BY <1>6 DEF storeVars
<1>7. CASE UNCHANGED regVars
  BY <1>6, <1>7 DEF regVars
<1>8. CASE RegNext
  <2> HIDE <1>0 DEF TypeOK, SetPhase, Absent
  <2>1. QED
    BY <1>1, <1>2, <1>3, <1>4, <1>5, <1>6, <1>8, QuietSteps
<1>9. QED
  BY <1>7, <1>8

\* The key of a drawn channel stays what it is, and what is expected is drawn.
LEMMA KeysSettled ==
  ASSUME RegTypeOK, [RegNext]_regVars, registeringQueue \subseteq drawn
  PROVE  /\ drawn \subseteq drawn'
         /\ registeringQueue' \subseteq drawn'
         /\ \A c \in drawn : keyOf'[c] = keyOf[c]
<1> DEFINE Settled == /\ drawn \subseteq drawn'
                      /\ registeringQueue' \subseteq drawn'
                      /\ \A c \in drawn : keyOf'[c] = keyOf[c]
<1> USE DEF RegTypeOK
<1>1. ASSUME NEW k, SendRegister(k) PROVE Settled
  BY <1>1 DEF SendRegister
<1>2. ASSUME UNCHANGED <<drawn, keyOf>>, registeringQueue' \subseteq registeringQueue
      PROVE  Settled
  BY <1>2
<1> HIDE DEF Settled
<1>3. ASSUME NEW p \in Caller, NEW k \in Key, SubscribeNew(p, k) PROVE Settled
  BY <1>1, <1>3 DEF SubscribeNew
<1>4. ASSUME NEW c \in Channel, HandleConflict(c) \/ RetryRegister(c) PROVE Settled
  BY <1>1, <1>2, <1>4 DEF HandleConflict, RetryNow, RetryRegister
<1>5. ASSUME \/ \E p \in Caller : Unsubscribe(p) \/ \E k \in Key : SubscribeExisting(p, k)
             \/ \E c \in Channel :
                  \/ HandleRegistered(c) \/ HandleUnexpected(c) \/ HandleRegisterError(c)
                  \/ HandleRefused(c) \/ HandleUnregistered(c) \/ HandleUnregisterError(c)
                  \/ RetryUnregister(c) \/ ExpireRegister(c) \/ Registered(c)
             \/ Server \/ Connect \/ Open \/ CreateReturns \/ Close \/ Stop \/ StoreRuns
             \/ UNCHANGED regVars
      PROVE  UNCHANGED <<drawn, keyOf>> /\ registeringQueue' \subseteq registeringQueue
  BY <1>5 DEF Unsubscribe, SubscribeExisting, HandleRegistered, HandleUnexpected,
     HandleRegisterError, HandleRefused, HandleUnregistered, HandleUnregisterError,
     RetryUnregister, ExpireRegister, Registered, Server, ServerAccepts, ServerFails,
     Connect, Open, CreateReturns, Close, Stop, StoreRuns, regVars, clientVars
<1>6. Settled
  BY <1>2, <1>3, <1>4, <1>5 DEF RegNext, Application, Handle, Retry
<1>7. QED
  BY <1>6 DEF Settled

\* A caller comes to hold a subscription in two ways only.
LEMMA NewlyHolding ==
  ASSUME RegTypeOK, [RegNext]_regVars, NEW p \in Caller, call'[p].op = "holding"
  PROVE  \/ call'[p] = call[p]
         \/ \E k \in Key : SubscribeExisting(p, k) /\ \E c \in WithKey(k) : call'[p] = Holding(k, c)
         \/ \E c \in Channel : Registered(c) /\ call'[p] = Holding(keyOf[c], c)
<1>1. call \in [Caller -> Call]
  BY DEF RegTypeOK
<1>2. ASSUME NEW q \in Caller, NEW k \in Key, SubscribeExisting(q, k)
      PROVE  \/ call'[p] = call[p]
             \/ q = p /\ \E c \in WithKey(k) : call'[p] = Holding(k, c)
  BY <1>1, <1>2 DEF SubscribeExisting, Resolve
<1>3. ASSUME NEW q \in Caller, NEW k \in Key, SubscribeNew(q, k) PROVE call'[p] = call[p]
  BY <1>1, <1>3 DEF SubscribeNew, Resolve, Subscribing
<1>4. ASSUME NEW q \in Caller, Unsubscribe(q) PROVE call'[p] = call[p]
  <2>1. call' = [call EXCEPT ![q] = [call[q] EXCEPT !.op = "unsubscribing"]]
    BY <1>4 DEF Unsubscribe, Resolve
  <2>2. call[q] \in [op : {"holding"}, key : Key, channel : Channel]
    BY <1>1, <1>4 DEF Unsubscribe, Call
  <2>3. [call[q] EXCEPT !.op = "unsubscribing"].op = "unsubscribing"
    BY <2>2
  <2>4. QED
    BY <1>1, <2>1, <2>3
<1>5. ASSUME NEW c \in Channel, HandleUnregistered(c) PROVE call'[p] = call[p]
  <2>1. call'[p] = IF call[p].op = "unsubscribing" /\ call[p].channel = c
                   THEN [call[p] EXCEPT !.op = "unsubscribed"] ELSE call[p]
    BY <1>5 DEF HandleUnregistered, NotifyUnregistered
  <2>2. ASSUME call[p].op = "unsubscribing"
        PROVE  [call[p] EXCEPT !.op = "unsubscribed"].op = "unsubscribed"
    <3>1. call[p] \in [op : {"unsubscribing"}, key : Key, channel : Channel]
      BY <1>1, <2>2 DEF Call
    <3>2. QED
      BY <3>1
  <2>3. QED
    BY <2>1, <2>2
<1>6. ASSUME NEW c \in Channel, Registered(c)
      PROVE  call'[p] = call[p] \/ call'[p] = Holding(keyOf[c], c)
  BY <1>6 DEF Registered, NotifyRegistered
<1>7. ASSUME Stop PROVE FALSE
  BY <1>7 DEF Stop, Idling
<1>8. ASSUME \/ \E c \in Channel :
                  \/ HandleRegistered(c) \/ HandleUnexpected(c) \/ HandleConflict(c)
                  \/ HandleRegisterError(c) \/ HandleRefused(c) \/ HandleUnregisterError(c)
                  \/ RetryRegister(c) \/ RetryUnregister(c) \/ ExpireRegister(c)
             \/ Server \/ Connect \/ Open \/ CreateReturns \/ Close \/ StoreRuns
             \/ UNCHANGED regVars
      PROVE  UNCHANGED call
  BY <1>8 DEF HandleRegistered, HandleUnexpected, HandleConflict, HandleRegisterError,
     HandleRefused, HandleUnregisterError, RetryRegister, RetryUnregister, ExpireRegister,
     Server, ServerAccepts, ServerFails, Connect, Open, CreateReturns, Close, StoreRuns, regVars
<1>9. QED
  BY <1>2, <1>3, <1>4, <1>5, <1>6, <1>7, <1>8 DEF RegNext, Application, Handle, Retry

LEMMA NextReturn == ReturnInv /\ [RegNext]_regVars => ReturnInv'
<1> SUFFICES ASSUME ReturnInv, [RegNext]_regVars PROVE ReturnInv'
  OBVIOUS
<1>0. /\ RegTypeOK /\ RefinementInv /\ SavingHanded /\ Drawn /\ HoldsHanded
      /\ TypeOK /\ [StoreNext]_storeVars /\ Absent
  BY RegStepIsStoreStep DEF ReturnInv, RegTypeOK, RefinementInv
<1>1. RegTypeOK'
  BY <1>0, NextRegType
<1>2. RefinementInv'
  BY <1>0, NextRefinement, RegistrationAssumption
<1>3. Handed \subseteq Handed' /\ SavingHanded'
  BY <1>0, HandedStays
<1>4. drawn \subseteq drawn' /\ \A c \in drawn : keyOf'[c] = keyOf[c]
  BY <1>0, KeysSettled DEF Drawn
<1>5. Drawn'
  <2>1. registeringQueue' \subseteq drawn'
    BY <1>0, KeysSettled DEF Drawn
  <2>2. ASSUME NEW c \in Channel, phase'[c] # "unused" PROVE c \in drawn'
    <3>1. phase[c] # "unused" \/ c \in registeringQueue
      BY <1>0, <2>2, OnlyAnsweredBegin DEF HandleRegistered
    <3>2. QED
      BY <1>0, <1>4, <3>1 DEF Drawn
  <2>3. QED
    BY <2>1, <2>2 DEF Drawn
<1>6. ASSUME NEW c \in Handed PROVE keyOf'[c] = keyOf[c] /\ phase'[c] \in {"kept", "removed"}
  BY <1>0, <1>3, <1>4 DEF Handed, Drawn
<1>7. ASSUME NEW p \in Caller, call'[p].op = "holding"
      PROVE  /\ keyOf'[call'[p].channel] = call'[p].key
             /\ phase'[call'[p].channel] \in {"kept", "removed"}
  <2>1. ASSUME NEW c \in Handed, call'[p].channel = c, call'[p].key = keyOf[c]
        PROVE  /\ keyOf'[call'[p].channel] = call'[p].key
               /\ phase'[call'[p].channel] \in {"kept", "removed"}
    BY <1>6, <2>1
  <2>2. CASE call'[p] = call[p]
    <3>1. call[p] \in [op : {"holding"}, key : Key, channel : Channel]
      BY <1>0, <1>7, <2>2 DEF RegTypeOK, Call
    <3>2. call[p].channel \in Handed /\ call[p].key = keyOf[call[p].channel]
      BY <1>0, <1>7, <2>2, <3>1 DEF HoldsHanded, Handed
    <3>3. QED
      BY <2>1, <2>2, <3>2
  <2>3. ASSUME NEW k \in Key, NEW c \in WithKey(k), call'[p] = Holding(k, c)
        PROVE  /\ keyOf'[call'[p].channel] = call'[p].key
               /\ phase'[call'[p].channel] \in {"kept", "removed"}
    <3>1. c \in Channel /\ c \in subscriptions /\ keyOf[c] = k
      BY <1>0, <2>3 DEF WithKey, TypeOK
    <3>2. c \in Handed
      BY <1>0, <3>1 DEF Absent, Handed, TypeOK, Phase
    <3>3. QED
      BY <2>1, <2>3, <3>1, <3>2 DEF Holding
  <2>4. ASSUME NEW c \in Channel, Registered(c), call'[p] = Holding(keyOf[c], c)
        PROVE  /\ keyOf'[call'[p].channel] = call'[p].key
               /\ phase'[call'[p].channel] \in {"kept", "removed"}
    <3>1. c \in Handed
      BY <1>0, <2>4 DEF Registered, AddReturn, SavingHanded
    <3>2. QED
      BY <2>1, <2>4, <3>1 DEF Holding
  <2>5. QED
    BY <1>0, <1>7, <2>2, <2>3, <2>4, NewlyHolding
<1>8. QED
  BY <1>1, <1>2, <1>3, <1>5, <1>7 DEF ReturnInv, HoldsHanded
=============================================================================
