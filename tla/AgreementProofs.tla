-------------------------- MODULE AgreementProofs --------------------------
(***************************************************************************)
(* The agreement of client and server on the channels, proved of           *)
(* Registration for any channels, keys, callers, faults and bounds.        *)
(*                                                                         *)
(* The argument follows one channel through its messages.  First its       *)
(* register is on its way, then the answer to that is, and only when the   *)
(* client has handled the answer can there be a subscription for it or an  *)
(* unregister of it.  From the same facts: what subscribe returned stays   *)
(* until the application unsubscribes it; and, at the end, of a key there  *)
(* is one subscription, unless two subscribes for it were pending at once. *)
(***************************************************************************)
EXTENDS RegistrationProofs

-----------------------------------------------------------------------------
(* Messages in a sequence *)

Holds(s, M) == \E i \in 1 .. Len(s) : s[i] \in M
Once(s, M) == \A i, j \in 1 .. Len(s) : s[i] \in M /\ s[j] \in M => i = j

LEMMA EmptyHolds == \A M : ~Holds(<<>>, M) /\ Once(<<>>, M)
  BY DEF Holds, Once

LEMMA AppendHolds ==
  ASSUME NEW S, NEW s \in Seq(S), NEW x \in S, NEW M
  PROVE  /\ Holds(Append(s, x), M) <=> Holds(s, M) \/ x \in M
         /\ Once(s, M) /\ (x \in M => ~Holds(s, M)) => Once(Append(s, x), M)
<1>1. /\ Len(Append(s, x)) = Len(s) + 1 /\ Len(s) \in Nat
      /\ \A i \in 1 .. Len(s) : Append(s, x)[i] = s[i]
      /\ Append(s, x)[Len(s) + 1] = x
  OBVIOUS
<1> DEFINE t == Append(s, x)
<1> HIDE DEF t
<1>2. /\ Len(t) = Len(s) + 1 /\ Len(s) \in Nat
      /\ \A i \in 1 .. Len(s) : t[i] = s[i]
      /\ t[Len(s) + 1] = x
  BY <1>1 DEF t
<1>3. Holds(t, M) <=> Holds(s, M) \/ x \in M
  BY <1>2 DEF Holds
<1>4. ASSUME Once(s, M), x \in M => ~Holds(s, M) PROVE Once(t, M)
  BY <1>2, <1>4 DEF Once, Holds
<1>5. QED
  BY <1>3, <1>4 DEF t

LEMMA TailHolds ==
  ASSUME NEW S, NEW s \in Seq(S), s # <<>>, NEW M
  PROVE  /\ Holds(s, M) <=> Head(s) \in M \/ Holds(Tail(s), M)
         /\ Once(s, M) => Once(Tail(s), M) /\ (Head(s) \in M => ~Holds(Tail(s), M))
<1>1. /\ Len(s) \in Nat \ {0} /\ Len(Tail(s)) = Len(s) - 1
      /\ \A i \in 1 .. Len(s) - 1 : Tail(s)[i] = s[i + 1]
      /\ Head(s) = s[1]
  OBVIOUS
<1> DEFINE t == Tail(s)
           h == Head(s)
<1> HIDE DEF t, h
<1>2. /\ Len(s) \in Nat \ {0} /\ Len(t) = Len(s) - 1
      /\ \A i \in 1 .. Len(s) - 1 : t[i] = s[i + 1]
      /\ h = s[1]
  BY <1>1 DEF t, h
<1>3. Holds(s, M) => h \in M \/ Holds(t, M)
  <2>1. SUFFICES ASSUME NEW i \in 1 .. Len(s), s[i] \in M, i # 1 PROVE Holds(t, M)
    BY <1>2 DEF Holds
  <2>2. i - 1 \in 1 .. Len(t) /\ t[i - 1] = s[i]
    BY <1>2, <2>1
  <2>3. QED
    BY <2>1, <2>2 DEF Holds
<1>4. h \in M \/ Holds(t, M) => Holds(s, M)
  BY <1>2 DEF Holds
<1>5. ASSUME Once(s, M) PROVE Once(t, M) /\ (h \in M => ~Holds(t, M))
  <2>1. ASSUME NEW i \in 1 .. Len(t), NEW j \in 1 .. Len(t), t[i] \in M, t[j] \in M
        PROVE  i = j
    <3>1. i + 1 \in 1 .. Len(s) /\ j + 1 \in 1 .. Len(s) /\ s[i + 1] \in M /\ s[j + 1] \in M
      BY <1>2, <2>1
    <3>2. i + 1 = j + 1
      BY <1>5, <3>1 DEF Once
    <3>3. QED
      BY <3>2
  <2>2. ASSUME h \in M, NEW i \in 1 .. Len(t), t[i] \in M PROVE FALSE
    <3>1. i + 1 \in 1 .. Len(s) /\ s[i + 1] \in M /\ 1 \in 1 .. Len(s) /\ s[1] \in M
      BY <1>2, <2>2
    <3>2. i + 1 = 1
      BY <1>5, <3>1 DEF Once
    <3>3. QED
      BY <3>2
  <2>3. QED
    BY <2>1, <2>2 DEF Once, Holds
<1>6. QED
  BY <1>3, <1>4, <1>5 DEF t, h

-----------------------------------------------------------------------------
(* The messages of one channel *)

RegReq(c) == {ToRegister(c)}
UnregReq(c) == {ToUnregister(c)}
RegAns(c) == [messageType : {"register"}, channelID : {c}, status : {200, 400, 409, 500}]
UnregAns(c) == [messageType : {"unregister"}, channelID : {c}, status : {200, 500}]
RegOk(c) == {RegisterReply(c, 200)}
UnregOk(c) == {UnregisterReply(c, 200)}
UnregError(c) == {UnregisterReply(c, 500)}

LEMMA KindsOfRequests ==
  ASSUME NEW c, NEW d
  PROVE  /\ ToRegister(d) \in RegReq(c) <=> d = c
         /\ ToRegister(d) \notin UnregReq(c)
         /\ ToUnregister(d) \in UnregReq(c) <=> d = c
         /\ ToUnregister(d) \notin RegReq(c)
  BY DEF RegReq, UnregReq, ToRegister, ToUnregister

LEMMA KindsOfReplies ==
  ASSUME NEW c, NEW d
  PROVE  /\ \A n \in {200, 400, 409, 500} :
              /\ RegisterReply(d, n) \in RegAns(c) <=> d = c
              /\ RegisterReply(d, n) \in RegOk(c) <=> d = c /\ n = 200
              /\ RegisterReply(d, n) \notin UnregAns(c)
              /\ RegisterReply(d, n) \notin UnregOk(c)
              /\ RegisterReply(d, n) \notin UnregError(c)
         /\ \A n \in {200, 500} :
              /\ UnregisterReply(d, n) \in UnregAns(c) <=> d = c
              /\ UnregisterReply(d, n) \in UnregOk(c) <=> d = c /\ n = 200
              /\ UnregisterReply(d, n) \in UnregError(c) <=> d = c /\ n = 500
              /\ UnregisterReply(d, n) \notin RegAns(c)
              /\ UnregisterReply(d, n) \notin RegOk(c)
  BY DEF RegAns, UnregAns, RegOk, UnregOk, UnregError, RegisterReply, UnregisterReply

\* What the client sends, receives, and what the server answers, seen from a set M
\* of messages.
LEMMA SendHolds ==
  ASSUME WireTypeOK, NEW m \in Request, Send(m), NEW M
  PROVE  /\ Holds(toServer, M) => Holds(toServer', M)
         /\ Holds(toServer', M) => Holds(toServer, M) \/ m \in M
         /\ websocket = "open" /\ m \in M => Holds(toServer', M)
         /\ Once(toServer, M) /\ (m \in M => ~Holds(toServer, M)) => Once(toServer', M)
  BY AppendHolds DEF WireTypeOK, Send

LEMMA ReceivedHolds ==
  ASSUME WireTypeOK, NEW m, Received(m), NEW M
  PROVE  /\ Holds(toClient, M) <=> m \in M \/ Holds(toClient', M)
         /\ Once(toClient, M) => Once(toClient', M) /\ (m \in M => ~Holds(toClient', M))
  BY TailHolds DEF WireTypeOK, Received

LEMMA AnswersHolds ==
  ASSUME WireTypeOK, toServer # <<>>, NEW m \in Reply, Answers(m), NEW M
  PROVE  /\ Holds(toServer, M) <=> Head(toServer) \in M \/ Holds(toServer', M)
         /\ Once(toServer, M) =>
              Once(toServer', M) /\ (Head(toServer) \in M => ~Holds(toServer', M))
         /\ Holds(toClient', M) <=> Holds(toClient, M) \/ m \in M
         /\ Once(toClient, M) /\ (m \in M => ~Holds(toClient, M)) => Once(toClient', M)
  BY TailHolds, AppendHolds DEF WireTypeOK, Answers

-----------------------------------------------------------------------------
(* One register for each channel *)

Asked(c) == Holds(toServer, RegReq(c))
Told(c) == Holds(toClient, RegAns(c))
Leaving(c) ==
  Holds(toServer, UnregReq(c)) \/ Holds(toClient, UnregAns(c)) \/ unregisterRetries[c] > 0
Begun(c) == phase[c] # "unused"

\* There is one register of a channel, then one answer to it, and only after that
\* answer has been handled a subscription or an unregister; and nobody unregisters a
\* channel whose subscription is not yet complete.
OneRegister(c) ==
  /\ Once(toServer, RegReq(c)) /\ Once(toClient, RegAns(c))
  /\ Asked(c) \/ Told(c) \/ Leaving(c) \/ Begun(c) => c \in drawn
  /\ ~(Asked(c) /\ Told(c))
  /\ Asked(c) \/ Told(c) => ~Leaving(c) /\ ~Begun(c)
  /\ Leaving(c) => phase[c] # "creating"

\* A register is sent for a channel that was not drawn before.
LEMMA SendRegisterHolds ==
  ASSUME WireTypeOK, ClientTypeOK, NEW k \in Key, SendRegister(k), NEW c \in Channel
  PROVE  /\ Holds(toServer', RegReq(c)) =>
              Holds(toServer, RegReq(c)) \/ (c \notin drawn /\ c \in drawn')
         /\ Holds(toServer', UnregReq(c)) <=> Holds(toServer, UnregReq(c))
         /\ OneRegister(c) => Once(toServer', RegReq(c))
         /\ Holds(toServer, RegReq(c)) => Holds(toServer', RegReq(c))
<1>1. PICK d \in Channel \ drawn : drawn' = drawn \cup {d} /\ Send(ToRegister(d))
  BY DEF SendRegister
<1>2. ToRegister(d) \in Request
  BY DEF ToRegister, Request
<1>3. ToRegister(d) \in RegReq(c) <=> d = c
  BY KindsOfRequests
<1>4. ToRegister(d) \notin UnregReq(c)
  BY KindsOfRequests
<1>5. /\ Holds(toServer, RegReq(c)) => Holds(toServer', RegReq(c))
      /\ Holds(toServer', RegReq(c)) => Holds(toServer, RegReq(c)) \/ d = c
      /\ Once(toServer, RegReq(c)) /\ (d = c => ~Holds(toServer, RegReq(c)))
           => Once(toServer', RegReq(c))
  BY <1>1, <1>2, <1>3, SendHolds
<1>6. Holds(toServer', UnregReq(c)) <=> Holds(toServer, UnregReq(c))
  BY <1>1, <1>2, <1>4, SendHolds
<1>7. OneRegister(c) => Once(toServer, RegReq(c)) /\ (d = c => ~Holds(toServer, RegReq(c)))
  BY <1>1 DEF OneRegister, Asked
<1>8. QED
  BY <1>1, <1>5, <1>6, <1>7

\* What arrives is one message of one channel.
LEMMA ReceivedRegister ==
  ASSUME WireTypeOK, NEW c \in Channel, NEW d \in Channel, NEW n \in {200, 400, 409, 500},
         Received(RegisterReply(d, n))
  PROVE  /\ Told(c)' => Told(c)
         /\ d = c => Told(c)
         /\ Once(toClient, RegAns(c)) => Once(toClient', RegAns(c)) /\ (d = c => ~Told(c)')
         /\ Holds(toClient, UnregAns(c)) <=> Holds(toClient', UnregAns(c))
  BY KindsOfReplies, ReceivedHolds DEF Told

LEMMA ReceivedUnregister ==
  ASSUME WireTypeOK, NEW c \in Channel, NEW d \in Channel, NEW n \in {200, 500},
         Received(UnregisterReply(d, n))
  PROVE  /\ Told(c)' <=> Told(c)
         /\ Once(toClient, RegAns(c)) => Once(toClient', RegAns(c))
         /\ Holds(toClient', UnregAns(c)) => Holds(toClient, UnregAns(c))
         /\ d = c => Holds(toClient, UnregAns(c))
  BY KindsOfReplies, ReceivedHolds DEF Told

\* An unregister is sent.
LEMMA SendUnregisterHolds ==
  ASSUME WireTypeOK, NEW c \in Channel, NEW d \in Channel, Send(ToUnregister(d))
  PROVE  /\ Asked(c)' <=> Asked(c)
         /\ Once(toServer, RegReq(c)) => Once(toServer', RegReq(c))
         /\ Holds(toServer', UnregReq(c)) => Holds(toServer, UnregReq(c)) \/ d = c
<1>1. ToUnregister(d) \in Request
  BY DEF ToUnregister, Request
<1>2. QED
  BY <1>1, KindsOfRequests, SendHolds DEF Asked

LEMMA InitOneRegister == ASSUME RegInit, NEW c \in Channel PROVE OneRegister(c)
  BY EmptyHolds DEF RegInit, StoreInit, OneRegister, Asked, Told, Leaving, Begun

\* What a step may do to the situation of a channel, and keep OneRegister.
Advances(c) ==
  /\ Once(toServer', RegReq(c)) /\ Once(toClient', RegAns(c))
  /\ Asked(c)' => Asked(c) \/ (c \notin drawn /\ c \in drawn')
  /\ Told(c)' => Told(c) \/ (Asked(c) /\ ~Asked(c)')
  /\ Leaving(c)' =>
       \/ Leaving(c)
       \/ phase[c] \in {"kept", "removed"} /\ c \in unsubscribeCalled'
       \/ Told(c) /\ ~Told(c)'
  /\ Begun(c)' => Begun(c) \/ (Told(c) /\ ~Told(c)' /\ (Leaving(c)' => Leaving(c)))

\* Construction of a subscription begins with a channel that was never used.
LEMMA CreatingBegins ==
  ASSUME RefinementInv, [StoreNext]_storeVars, NEW c \in Channel, phase'[c] = "creating"
  PROVE  phase[c] \in {"unused", "creating"}
<1>0. ~StorageMayReject /\ TypeOK
  BY RegistrationAssumption DEF RefinementInv, DurabilityInv
<1> USE <1>0 DEF TypeOK, SetPhase
<1>1. ASSUME NEW d \in Channel, AddStart(d) \/ AddStep(d) \/ AddFails(d)
      PROVE  phase[c] \in {"unused", "creating"}
  BY <1>1 DEF AddStart, AddStep, AddWrite, AddInsert, AddReturn, AddFails, AddRejected,
     SaveRejected, memory
<1>2. ASSUME NEW d \in Channel, RemoveStartRejected(d) \/ \E r \in Remover : RemoveStart(r, d)
      PROVE  phase[c] \in {"unused", "creating"}
  BY <1>2 DEF RemoveStart, RemoveStartRejected
<1>3. ASSUME NEW t \in removing, RemoveStep(t) \/ RemoveFails(t)
      PROVE  phase[c] \in {"unused", "creating"}
  BY <1>3 DEF RemoveStep, RemoveFails, RemoveNext, RemoveFinish, RemoveNextRejected,
     RemoveFinishRejected
<1>4. ASSUME Crash \/ LoadSubscriptions \/ LoadSubscriptionsRejected \/ UNCHANGED storeVars
      PROVE  phase[c] \in {"unused", "creating"}
  BY <1>4 DEF Crash, LoadSubscriptions, LoadSubscriptionsRejected, storeVars
<1>5. QED
  BY <1>1, <1>2, <1>3, <1>4 DEF StoreNext

LEMMA AdvancesKeeps ==
  ASSUME NEW c, OneRegister(c), Advances(c), drawn \subseteq drawn',
         phase'[c] = "creating" => phase[c] \in {"unused", "creating"}
  PROVE  OneRegister(c)'
<1>1. /\ Asked(c)' \/ Told(c)' \/ Leaving(c)' \/ Begun(c)' => c \in drawn'
      /\ ~(Asked(c)' /\ Told(c)')
      /\ Asked(c)' \/ Told(c)' => ~Leaving(c)' /\ ~Begun(c)'
  BY DEF OneRegister, Advances, Begun
<1>2. Leaving(c)' => phase'[c] # "creating"
  BY DEF OneRegister, Advances, Begun
<1>3. QED
  BY <1>1, <1>2 DEF OneRegister, Advances

LEMMA NextAdvances ==
  ASSUME ReturnInv, [RegNext]_regVars, NEW c \in Channel, OneRegister(c)
  PROVE  Advances(c)
<1>0. /\ RegTypeOK /\ RefinementInv /\ TypeOK /\ ClientTypeOK /\ WireTypeOK
      /\ registeringQueue \subseteq drawn /\ HoldsHanded
  BY RegTypeParts DEF ReturnInv, Drawn
<1>2. Begun(c)' => Begun(c) \/ HandleRegistered(c)
  BY <1>0, OnlyAnsweredBegin DEF Begun
<1>3. Once(toServer, RegReq(c)) /\ Once(toClient, RegAns(c))
  BY DEF OneRegister
<1>4. ASSUME UNCHANGED <<wireVars, unregisterRetries>>, ~HandleRegistered(c) PROVE Advances(c)
  BY <1>2, <1>3, <1>4 DEF Advances, wireVars, Asked, Told, Leaving
<1>5. ASSUME NEW k \in Key, SendRegister(k), UNCHANGED <<toClient, unregisterRetries>>,
             ~HandleRegistered(c)
      PROVE  Advances(c)
  BY <1>0, <1>2, <1>3, <1>5, SendRegisterHolds DEF Advances, Asked, Told, Leaving
<1>6. ASSUME NEW p \in Caller, Unsubscribe(p) PROVE Advances(c)
  <2>1. call[p].channel \in Channel /\ phase[call[p].channel] \in {"kept", "removed"}
    <3>1. call[p] \in [op : {"holding"}, key : Key, channel : Channel]
      BY <1>0, <1>6 DEF Unsubscribe, ClientTypeOK, Call
    <3>2. QED
      BY <1>0, <1>6, <3>1 DEF Unsubscribe, HoldsHanded
  <2>2. /\ Send(ToUnregister(call[p].channel)) /\ call[p].channel \in unsubscribeCalled'
        /\ UNCHANGED <<toClient, unregisterRetries, phase>>
    BY <1>6 DEF Unsubscribe, clientVars, storeVars
  <2>3. QED
    BY <1>0, <1>3, <2>1, <2>2, SendUnregisterHolds DEF Advances, Told, Leaving, Begun
<1>7. ASSUME NEW d \in Channel, HandleRegistered(d) PROVE Advances(c)
  <2>1. Received(RegisterReply(d, 200)) /\ UNCHANGED <<toServer, unregisterRetries>>
    BY <1>7 DEF HandleRegistered
  <2>2. Begun(c)' => Begun(c) \/ d = c
    BY <1>0, <1>7 DEF HandleRegistered, AddStart, SetPhase, Begun, TypeOK
  <2>3. QED
    BY <1>0, <1>3, <2>1, <2>2, ReceivedRegister DEF Advances, Asked, Leaving
<1>8. ASSUME NEW d \in Channel, HandleUnexpected(d) PROVE Advances(c)
  <2>1. /\ Received(RegisterReply(d, 200)) /\ Send(ToUnregister(d))
        /\ UNCHANGED <<unregisterRetries, phase>>
    BY <1>8 DEF HandleUnexpected, clientVars, storeVars
  <2>2. QED
    BY <1>0, <1>3, <2>1, ReceivedRegister, SendUnregisterHolds DEF Advances, Leaving, Begun
<1>9. ASSUME NEW d \in Channel, HandleConflict(d) PROVE Advances(c)
  <2>1. Received(RegisterReply(d, 409)) /\ UNCHANGED <<unregisterRetries, phase>>
    BY <1>9 DEF HandleConflict, storeVars
  <2>2. /\ Asked(c)' => Asked(c) \/ (c \notin drawn /\ c \in drawn')
        /\ Holds(toServer', UnregReq(c)) <=> Holds(toServer, UnregReq(c))
        /\ Once(toServer', RegReq(c))
    <3>1. CASE SendRegister(keyOf[d])
      BY <1>0, <3>1, SendRegisterHolds DEF ClientTypeOK, Asked
    <3>2. CASE UNCHANGED toServer
      BY <1>3, <3>2 DEF Asked
    <3>3. QED
      BY <1>9, <3>1, <3>2 DEF HandleConflict, RetryNow
  <2>3. QED
    BY <1>0, <1>3, <2>1, <2>2, ReceivedRegister DEF Advances, Leaving, Begun
<1>10. ASSUME NEW d \in Channel, HandleRegisterError(d) \/ HandleRefused(d) PROVE Advances(c)
  <2>1. PICK n \in {400, 500} : Received(RegisterReply(d, n))
    BY <1>10 DEF HandleRegisterError, HandleRefused
  <2>2. UNCHANGED <<toServer, unregisterRetries, phase>>
    BY <1>10 DEF HandleRegisterError, HandleRefused, clientVars, storeVars
  <2>3. QED
    BY <1>0, <1>3, <2>1, <2>2, ReceivedRegister DEF Advances, Asked, Leaving, Begun
<1>11. ASSUME NEW d \in Channel, HandleUnregistered(d) PROVE Advances(c)
  <2>1. Received(UnregisterReply(d, 200)) /\ UNCHANGED <<toServer, unregisterRetries>>
    BY <1>11 DEF HandleUnregistered, clientVars
  <2>2. Begun(c)' => Begun(c)
    BY <1>0, <1>11 DEF HandleUnregistered, BeginRemoval, RemoveStart, SetPhase, storeVars,
       Begun, TypeOK, RefinementInv, Absent
  <2>3. QED
    BY <1>0, <1>3, <2>1, <2>2, ReceivedUnregister DEF Advances, Asked, Leaving
<1>12. ASSUME NEW d \in Channel, HandleUnregisterError(d) PROVE Advances(c)
  <2>1. /\ Received(UnregisterReply(d, 500)) /\ UNCHANGED <<toServer, phase>>
        /\ d # c => unregisterRetries'[c] = unregisterRetries[c]
    BY <1>0, <1>12 DEF HandleUnregisterError, storeVars, ClientTypeOK
  <2>2. QED
    BY <1>0, <1>3, <2>1, ReceivedUnregister DEF Advances, Asked, Leaving, Begun
<1>13. ASSUME NEW d \in Channel, RetryRegister(d) PROVE Advances(c)
  <2>1. /\ UNCHANGED <<toClient, unregisterRetries>> /\ ~HandleRegistered(c)
    <3>1. UNCHANGED <<toClient, unregisterRetries, phase>>
      BY <1>13 DEF RetryRegister, storeVars
    <3>2. ASSUME HandleRegistered(c) PROVE FALSE
      BY <1>0, <3>1, <3>2 DEF HandleRegistered, AddStart, SetPhase, TypeOK
    <3>3. QED
      BY <3>1, <3>2
  <2>2. CASE SendRegister(keyOf[d])
    BY <1>0, <1>5, <2>1, <2>2 DEF ClientTypeOK
  <2>3. CASE UNCHANGED toServer
    BY <1>4, <2>1, <2>3 DEF wireVars
  <2>4. QED
    BY <1>13, <2>2, <2>3 DEF RetryRegister
<1>14. ASSUME NEW d \in Channel, RetryUnregister(d) PROVE Advances(c)
  <2>1. /\ Send(ToUnregister(d)) /\ unregisterRetries[d] > 0
        /\ unregisterRetries' = [unregisterRetries EXCEPT ![d] = @ - 1]
        /\ UNCHANGED <<toClient, phase>>
    BY <1>14 DEF RetryUnregister, storeVars
  <2>2. unregisterRetries'[c] > 0 => unregisterRetries[c] > 0
    BY <1>0, <2>1 DEF ClientTypeOK
  <2>3. QED
    BY <1>0, <1>3, <2>1, <2>2, SendUnregisterHolds DEF Advances, Told, Leaving, Begun
<1>15. ASSUME Server PROVE Advances(c)
  <2> DEFINE m == Head(toServer)
             d == m.channelID
  <2>1. toServer # <<>> /\ UNCHANGED <<unregisterRetries, phase>>
    BY <1>15 DEF Server, ServerAccepts, ServerFails, clientVars, storeVars
  <2>2. m \in Request
    BY <1>0, <2>1 DEF WireTypeOK
  <2>3. CASE m.messageType = "register"
    <3>1. m = ToRegister(d) /\ d \in Channel
      BY <2>2, <2>3 DEF Request, ToRegister
    <3>2. PICK n \in {200, 400, 409, 500} : Answers(RegisterReply(d, n))
      BY <1>15, <2>3 DEF Server, ServerAccepts, ServerFails, RegisterErrors
    <3>3. RegisterReply(d, n) \in Reply
      BY <3>1 DEF RegisterReply, Reply
    <3> HIDE DEF d, m
    <3>4. /\ m \in RegReq(c) <=> d = c
          /\ m \notin UnregReq(c)
          /\ RegisterReply(d, n) \in RegAns(c) <=> d = c
          /\ RegisterReply(d, n) \notin UnregAns(c)
      BY <3>1, KindsOfRequests, KindsOfReplies
    <3>5. /\ Asked(c) <=> d = c \/ Asked(c)'
          /\ Once(toServer', RegReq(c)) /\ (d = c => ~Asked(c)')
      BY <1>0, <1>3, <2>1, <3>2, <3>3, <3>4, AnswersHolds DEF Asked, m
    <3>6. /\ Told(c)' <=> Told(c) \/ d = c
          /\ (d = c => ~Told(c)) => Once(toClient', RegAns(c))
      BY <1>0, <1>3, <2>1, <3>2, <3>3, <3>4, AnswersHolds DEF Told
    <3>7. /\ Holds(toServer', UnregReq(c)) <=> Holds(toServer, UnregReq(c))
          /\ Holds(toClient', UnregAns(c)) <=> Holds(toClient, UnregAns(c))
      BY <1>0, <2>1, <3>2, <3>3, <3>4, AnswersHolds DEF m
    <3>8. d = c => ~Told(c)
      BY <3>5 DEF OneRegister
    <3>9. QED
      BY <2>1, <3>5, <3>6, <3>7, <3>8 DEF Advances, Leaving, Begun
  <2>4. CASE m.messageType # "register"
    <3>1. m = ToUnregister(d) /\ d \in Channel
      BY <2>2, <2>4 DEF Request, ToUnregister
    <3>2. PICK n \in {200, 500} : Answers(UnregisterReply(d, n))
      BY <1>15, <2>4 DEF Server, ServerAccepts, ServerFails
    <3>3. UnregisterReply(d, n) \in Reply
      BY <3>1 DEF UnregisterReply, Reply
    <3> HIDE DEF d, m
    <3>4. /\ m \notin RegReq(c)
          /\ m \in UnregReq(c) <=> d = c
          /\ UnregisterReply(d, n) \notin RegAns(c)
          /\ UnregisterReply(d, n) \in UnregAns(c) <=> d = c
      BY <3>1, KindsOfRequests, KindsOfReplies
    <3>5. (Asked(c)' <=> Asked(c)) /\ Once(toServer', RegReq(c))
      BY <1>0, <1>3, <2>1, <3>2, <3>3, <3>4, AnswersHolds DEF Asked, m
    <3>6. (Told(c)' <=> Told(c)) /\ Once(toClient', RegAns(c))
      BY <1>0, <1>3, <2>1, <3>2, <3>3, <3>4, AnswersHolds DEF Told
    <3>7. /\ Holds(toServer, UnregReq(c)) <=> d = c \/ Holds(toServer', UnregReq(c))
          /\ Holds(toClient', UnregAns(c)) <=> Holds(toClient, UnregAns(c)) \/ d = c
      BY <1>0, <2>1, <3>2, <3>3, <3>4, AnswersHolds DEF m
    <3>8. QED
      BY <2>1, <3>5, <3>6, <3>7 DEF Advances, Leaving, Begun
  <2>5. QED
    BY <2>3, <2>4
<1>16. ASSUME Close PROVE Advances(c)
  <2>1. toServer' = <<>> /\ toClient' = <<>> /\ UNCHANGED <<unregisterRetries, phase>>
    BY <1>16 DEF Close, clientVars, storeVars
  <2>2. QED
    BY <2>1, EmptyHolds DEF Advances, Asked, Told, Leaving, Begun
<1>17. ASSUME Stop PROVE Advances(c)
  <2>1. toServer' = <<>> /\ toClient' = <<>> /\ ~(unregisterRetries'[c] > 0)
    BY <1>17 DEF Stop
  <2>2. Begun(c)' => Begun(c)
    BY <1>17 DEF Stop, Crash, Begun
  <2>3. QED
    BY <2>1, <2>2, EmptyHolds DEF Advances, Asked, Told, Leaving
<1>18. ASSUME NEW p \in Caller, NEW k \in Key, SubscribeNew(p, k) PROVE Advances(c)
  <2>1. SendRegister(k) /\ UNCHANGED <<toClient, unregisterRetries, phase>>
    BY <1>18 DEF SubscribeNew, storeVars
  <2>2. QED
    BY <1>0, <1>3, <2>1, SendRegisterHolds DEF Advances, Asked, Told, Leaving, Begun
<1>19. ASSUME \/ \E p \in Caller, k \in Key : SubscribeExisting(p, k)
              \/ \E d \in Channel : ExpireRegister(d) \/ Registered(d)
              \/ Connect \/ Open \/ CreateReturns \/ StoreRuns \/ UNCHANGED regVars
       PROVE  Advances(c)
  <2>1. UNCHANGED <<wireVars, unregisterRetries>>
    BY <1>19 DEF SubscribeExisting, ExpireRegister, Registered, Connect, Open, CreateReturns,
       StoreRuns, regVars, clientVars
  <2>2. UNCHANGED toClient
    BY <2>1 DEF wireVars
  <2>3. ASSUME HandleRegistered(c) PROVE FALSE
    <3>1. toClient \in Seq(Reply) /\ toClient # <<>> /\ toClient' = Tail(toClient)
      BY <1>0, <2>3 DEF HandleRegistered, Received, WireTypeOK
    <3>2. Len(Tail(toClient)) # Len(toClient)
      BY <3>1
    <3>3. QED
      BY <2>2, <3>1, <3>2
  <2>4. QED
    BY <1>4, <2>1, <2>3
<1>20. QED
  BY <1>6, <1>7, <1>8, <1>9, <1>10, <1>11, <1>12, <1>13, <1>14, <1>15, <1>16, <1>17, <1>18,
     <1>19 DEF RegNext, Application, Handle, Retry

LEMMA NextOneRegister ==
  ASSUME ReturnInv, [RegNext]_regVars, NEW c \in Channel, OneRegister(c)
  PROVE  OneRegister(c)'
<1>1. RegTypeOK /\ RefinementInv /\ registeringQueue \subseteq drawn
  BY DEF ReturnInv, Drawn
<1>2. drawn \subseteq drawn'
  BY <1>1, KeysSettled
<1>3. QED
  BY <1>1, <1>2, NextAdvances, RegStepIsStoreStep, CreatingBegins, AdvancesKeeps

-----------------------------------------------------------------------------
(* What the application asked for *)

\* The removal of a subscription begins, or is being asked for, only when the
\* application has called its unsubscribe: the client unregisters of its own accord only
\* channels for which it has no subscription.
OnlyAsked ==
  \A c \in Channel :
    phase[c] = "removed" \/ (Leaving(c) /\ Begun(c)) => c \in unsubscribeCalled

AskedInv == ReturnInv /\ (\A c \in Channel : OneRegister(c)) /\ OnlyAsked

\* What was called is not forgotten.
LEMMA CalledStay == [RegNext]_regVars => unsubscribeCalled \subseteq unsubscribeCalled'
<1> SUFFICES ASSUME [RegNext]_regVars PROVE unsubscribeCalled \subseteq unsubscribeCalled'
  OBVIOUS
<1>1. ASSUME NEW p \in Caller,
             Unsubscribe(p) \/ \E k \in Key : SubscribeExisting(p, k) \/ SubscribeNew(p, k)
      PROVE  unsubscribeCalled \subseteq unsubscribeCalled'
  BY <1>1 DEF Unsubscribe, SubscribeExisting, SubscribeNew, history
<1>2. ASSUME NEW c \in Channel, Handle(c) \/ Retry(c) \/ ExpireRegister(c) \/ Registered(c)
      PROVE  UNCHANGED unsubscribeCalled
  BY <1>2 DEF Handle, HandleRegistered, HandleUnexpected, HandleConflict, HandleRegisterError,
     HandleRefused, HandleUnregistered, HandleUnregisterError, Retry, RetryRegister,
     RetryUnregister, ExpireRegister, Registered, history
<1>3. ASSUME Server \/ Connect \/ Open \/ CreateReturns \/ Close \/ Stop \/ StoreRuns
             \/ UNCHANGED regVars
      PROVE  UNCHANGED unsubscribeCalled
  BY <1>3 DEF Server, ServerAccepts, ServerFails, Connect, Open, CreateReturns, Close, Stop,
     StoreRuns, regVars, history
<1>4. QED
  BY <1>1, <1>2, <1>3 DEF RegNext, Application

\* Only the answer to an unregister begins the removal of a subscription.
LEMMA OnlyUnregisteredLeave ==
  ASSUME RefinementInv, [RegNext]_regVars, NEW c \in Channel,
         phase[c] # "removed", phase'[c] = "removed"
  PROVE  HandleUnregistered(c) /\ c \in subscriptions
<1>0. TypeOK /\ ~StorageMayReject
  BY RegistrationAssumption DEF RefinementInv, DurabilityInv
<1> USE <1>0 DEF TypeOK, SetPhase
<1>1. ASSUME NEW d \in Channel, HandleUnregistered(d)
      PROVE  HandleUnregistered(c) /\ c \in subscriptions
  <2>1. c = d /\ c \in subscriptions
    BY <1>1 DEF HandleUnregistered, BeginRemoval, RemoveStart, storeVars
  <2>2. QED
    BY <1>1, <2>1
<1>2. ASSUME NEW d \in Channel, HandleRegistered(d) PROVE FALSE
  BY <1>2 DEF HandleRegistered, AddStart
<1>3. ASSUME NEW d \in Channel, Registered(d) PROVE FALSE
  BY <1>3 DEF Registered, AddReturn
<1>4. ASSUME StoreRuns PROVE FALSE
  <2>1. ASSUME NEW d \in Channel, AddWrite(d) PROVE FALSE
    BY <2>1 DEF AddWrite, memory
  <2>2. ASSUME NEW d \in Channel, AddInsert(d) PROVE FALSE
    BY <2>2 DEF AddInsert
  <2>3. ASSUME NEW t \in removing, RemoveStep(t) PROVE FALSE
    BY <2>3 DEF RemoveStep, RemoveNext, RemoveFinish
  <2>4. ASSUME LoadSubscriptions PROVE FALSE
    BY <2>4 DEF LoadSubscriptions
  <2>5. QED
    BY <1>4, <2>1, <2>2, <2>3, <2>4 DEF StoreRuns
<1>5. ASSUME Stop PROVE FALSE
  BY <1>5 DEF Stop, Crash
<1>6. ASSUME UNCHANGED storeVars PROVE FALSE
  BY <1>6 DEF storeVars
<1>7. CASE UNCHANGED regVars
  BY <1>6, <1>7 DEF regVars
<1>8. CASE RegNext
  <2> HIDE <1>0 DEF TypeOK, SetPhase
  <2>1. QED
    BY <1>1, <1>2, <1>3, <1>4, <1>5, <1>6, <1>8, QuietSteps
<1>9. QED
  BY <1>7, <1>8

LEMMA InitAsked == RegInit => AskedInv
<1> SUFFICES ASSUME RegInit PROVE AskedInv
  OBVIOUS
<1>1. ReturnInv /\ \A c \in Channel : OneRegister(c)
  BY InitReturn, InitOneRegister
<1>2. OnlyAsked
  BY DEF RegInit, StoreInit, OnlyAsked, Begun
<1>3. QED
  BY <1>1, <1>2 DEF AskedInv

LEMMA NextAsked == AskedInv /\ [RegNext]_regVars => AskedInv'
<1> SUFFICES ASSUME AskedInv, [RegNext]_regVars PROVE AskedInv'
  OBVIOUS
<1>1. ReturnInv' /\ \A c \in Channel : OneRegister(c)'
  BY NextReturn, NextOneRegister DEF AskedInv
<1>2. ASSUME NEW c \in Channel, phase'[c] = "removed" \/ (Leaving(c)' /\ Begun(c)')
      PROVE  c \in unsubscribeCalled'
  <2>0. /\ RefinementInv /\ WireTypeOK /\ Absent /\ OneRegister(c) /\ Advances(c)
        /\ unsubscribeCalled \subseteq unsubscribeCalled'
    BY RegTypeParts, NextAdvances, CalledStay DEF AskedInv, ReturnInv, RefinementInv
  <2>1. ASSUME phase[c] # "removed", phase'[c] = "removed" PROVE Leaving(c) /\ Begun(c)
    <3>1. HandleUnregistered(c) /\ c \in subscriptions
      BY <2>0, <2>1, OnlyUnregisteredLeave
    <3>2. Leaving(c)
      BY <2>0, <3>1, ReceivedUnregister DEF HandleUnregistered, Leaving
    <3>3. Begun(c)
      BY <2>0, <3>1 DEF Absent, Begun
    <3>4. QED
      BY <3>2, <3>3
  <2>2. ASSUME Leaving(c)', Begun(c)'
        PROVE  (Leaving(c) /\ Begun(c)) \/ c \in unsubscribeCalled'
    BY <2>0, <2>2 DEF OneRegister, Advances
  <2>3. QED
    BY <1>2, <2>0, <2>1, <2>2 DEF AskedInv, OnlyAsked
<1>3. QED
  BY <1>1, <1>2 DEF AskedInv, OnlyAsked

\* Whoever subscribes gets, and goes on holding, a living subscription for the key asked
\* for: it is in the map and completely on disk, whatever the order in which registrations,
\* retries and removals of any number of callers and keys finish, unless the
\* application itself has called its unsubscribe
\* (register-handler.ts:104-113, push-manager.ts:97-111).
THEOREM SubscribeCorrect == RegSpec => []SubscribeReturnsItsKey
<1>1. AskedInv => SubscribeReturnsItsKey
  <2> SUFFICES ASSUME AskedInv, NEW p \in Caller, call[p].op = "holding",
                      NEW c, c = call[p].channel
               PROVE  /\ keyOf[c] = call[p].key
                      /\ \/ Recoverable(c) /\ (up => c \in subscriptions)
                         \/ phase[c] = "removed" /\ c \in unsubscribeCalled
    BY DEF SubscribeReturnsItsKey
  <2>1. call[p] \in [op : {"holding"}, key : Key, channel : Channel]
    BY DEF AskedInv, ReturnInv, RegTypeOK, Call
  <2>2. c \in Channel /\ keyOf[c] = call[p].key /\ phase[c] \in {"kept", "removed"}
    BY <2>1 DEF AskedInv, ReturnInv, HoldsHanded
  <2>3. CASE phase[c] = "kept"
    BY <2>2, <2>3 DEF AskedInv, ReturnInv, RefinementInv, DurabilityInv, Kept, KeptIn
  <2>4. CASE phase[c] = "removed"
    BY <2>2, <2>4 DEF AskedInv, OnlyAsked
  <2>5. QED
    BY <2>2, <2>3, <2>4
<1>2. QED
  BY InitAsked, NextAsked, <1>1, PTL DEF RegSpec

-----------------------------------------------------------------------------
(* A connection that lasts *)

\* A process that does not run has no connection; on a first connection that is not
\* yet open nothing has happened.
Lasting ==
  /\ ~up => ~unbroken /\ websocket = "none" /\ toServer = <<>> /\ toClient = <<>>
  /\ unbroken /\ websocket # "open" =>
       /\ toServer = <<>> /\ toClient = <<>>
       /\ registered = {} /\ \A c \in Channel : unregisterRetries[c] = 0

LEMMA InitLasting == RegInit => Lasting
  BY DEF RegInit, StoreInit, Lasting

\* Without an open connection nothing is sent, received or answered.
LEMMA OfflineSteps ==
  ASSUME [RegNext]_regVars, RegTypeOK, websocket # "open", toServer = <<>>, toClient = <<>>
  PROVE  /\ toServer' = <<>> /\ toClient' = <<>> /\ registered' = registered
         /\ (\A c \in Channel : unregisterRetries[c] = 0) =>
              (\A c \in Channel : unregisterRetries'[c] = 0)
<1> DEFINE Q == /\ toServer' = <<>> /\ toClient' = <<>> /\ registered' = registered
                /\ (\A c \in Channel : unregisterRetries[c] = 0) =>
                      (\A c \in Channel : unregisterRetries'[c] = 0)
<1>1. ASSUME NEW k, SendRegister(k) PROVE toServer' = <<>>
  BY <1>1 DEF SendRegister, Send
<1>2. ASSUME NEW m, Received(m) PROVE FALSE
  BY <1>2 DEF Received
<1>3. ASSUME NEW p \in Caller, NEW k \in Key, SubscribeExisting(p, k) \/ SubscribeNew(p, k)
      PROVE  Q
  BY <1>1, <1>3 DEF SubscribeExisting, SubscribeNew, clientVars, wireVars, serverVars
<1>4. ASSUME NEW p \in Caller, Unsubscribe(p) PROVE FALSE
  BY <1>4 DEF Unsubscribe
<1>5. ASSUME NEW c \in Channel, Handle(c) PROVE FALSE
  BY <1>2, <1>5 DEF Handle, HandleRegistered, HandleUnexpected, HandleConflict,
     HandleRegisterError, HandleRefused, HandleUnregistered, HandleUnregisterError
<1>6. ASSUME NEW c \in Channel, RetryRegister(c) PROVE Q
  BY <1>1, <1>6 DEF RetryRegister, serverVars
<1>7. ASSUME NEW c \in Channel, RetryUnregister(c) PROVE Q
  BY <1>7 DEF RetryUnregister, Send, serverVars
<1>8. ASSUME NEW c \in Channel, ExpireRegister(c) \/ Registered(c) PROVE Q
  BY <1>8 DEF ExpireRegister, Registered, clientVars, wireVars, serverVars
<1>9. ASSUME Server PROVE FALSE
  BY <1>9 DEF Server, ServerAccepts, ServerFails
<1>10. ASSUME Connect \/ Open \/ CreateReturns \/ StoreRuns \/ UNCHANGED regVars PROVE Q
  BY <1>10 DEF Connect, Open, CreateReturns, StoreRuns, regVars, clientVars, wireVars, serverVars
<1>11. ASSUME Close PROVE Q
  BY <1>11 DEF Close, clientVars, serverVars
<1>12. ASSUME Stop PROVE Q
  BY <1>12 DEF Stop, serverVars
<1>13. QED
  BY <1>3, <1>4, <1>5, <1>6, <1>7, <1>8, <1>9, <1>10, <1>11, <1>12
     DEF RegNext, Application, Retry

\* What the steps do to the process and the connection.
LEMMA ConnectionSteps ==
  ASSUME [RegNext]_regVars
  PROVE  \/ Stop \/ Close \/ Connect \/ Open
         \/ UNCHANGED <<websocket, unbroken>> /\ (up' = up \/ up')
<1>1. ASSUME NEW c \in Channel, HandleRegistered(c) \/ HandleUnregistered(c) \/ Registered(c)
      PROVE  UNCHANGED <<websocket, unbroken, up>>
  BY <1>1 DEF HandleRegistered, HandleUnregistered, Registered, AddStart, BeginRemoval,
     RemoveStart, AddReturn, storeVars, history
<1>2. ASSUME StoreRuns
      PROVE  UNCHANGED <<websocket, unbroken>> /\ (up' = up \/ up')
  BY <1>2 DEF StoreRuns, AddWrite, AddInsert, RemoveStep, RemoveNext, RemoveFinish,
     LoadSubscriptions, memory, history
<1>3. ASSUME NEW p \in Caller,
             Unsubscribe(p) \/ \E k \in Key : SubscribeExisting(p, k) \/ SubscribeNew(p, k)
      PROVE  UNCHANGED <<websocket, unbroken, up>>
  BY <1>3 DEF Unsubscribe, SubscribeExisting, SubscribeNew, storeVars, history
<1>4. ASSUME NEW c \in Channel,
             \/ HandleUnexpected(c) \/ HandleConflict(c) \/ HandleRegisterError(c)
             \/ HandleRefused(c) \/ HandleUnregisterError(c) \/ Retry(c) \/ ExpireRegister(c)
      PROVE  UNCHANGED <<websocket, unbroken, up>>
  BY <1>4 DEF HandleUnexpected, HandleConflict, HandleRegisterError, HandleRefused,
     HandleUnregisterError, Retry, RetryRegister, RetryUnregister, ExpireRegister, storeVars,
     history
<1>5. ASSUME Server \/ CreateReturns \/ UNCHANGED regVars
      PROVE  UNCHANGED <<websocket, unbroken, up>>
  BY <1>5 DEF Server, ServerAccepts, ServerFails, CreateReturns, regVars, storeVars, history
<1>6. QED
  BY <1>1, <1>2, <1>3, <1>4, <1>5 DEF RegNext, Application, Handle

LEMMA NextLasting ==
  ASSUME Lasting, RegTypeOK, [RegNext]_regVars
  PROVE  Lasting'
<1>1. CASE Stop
  BY <1>1 DEF Stop, Lasting
<1>2. CASE Close
  BY <1>2 DEF Close, Lasting, storeVars
<1>3. ASSUME websocket # "open", toServer = <<>>, toClient = <<>>
      PROVE  /\ toServer' = <<>> /\ toClient' = <<>> /\ registered' = registered
             /\ (\A c \in Channel : unregisterRetries[c] = 0) =>
                  (\A c \in Channel : unregisterRetries'[c] = 0)
  BY <1>3, OfflineSteps
<1>4. CASE Connect
  BY <1>3, <1>4 DEF Connect, Lasting, storeVars, history
<1>5. CASE Open
  BY <1>5 DEF Open, Lasting, storeVars
<1>6. CASE UNCHANGED <<websocket, unbroken>> /\ (up' = up \/ up')
  BY <1>3, <1>6 DEF Lasting, RegTypeOK, TypeOK
<1>7. QED
  BY <1>1, <1>2, <1>4, <1>5, <1>6, ConnectionSteps

-----------------------------------------------------------------------------
(* The agreement *)

Live == {"creating", "kept"}

\* What is behind a channel that the server has.
Known(c) ==
  \/ Holds(toClient, RegOk(c))
  \/ phase[c] \in Live
  \/ Holds(toServer, UnregReq(c))
  \/ Holds(toClient, UnregError(c))
  \/ unregisterRetries[c] > 0

Agrees(c) ==
  /\ Holds(toClient, UnregOk(c)) => c \notin registered
  /\ Holds(toClient, RegOk(c)) => c \in registered
  /\ unbroken /\ c \in registered => Known(c)
  /\ unbroken /\ phase[c] \in Live => c \in registered \/ Holds(toClient, UnregOk(c))

\* What a step may do to the server's side of a channel,
ServerSide(c) ==
  /\ c \in registered' => c \in registered \/ (Asked(c) /\ Holds(toClient', RegOk(c)))
  /\ c \in registered =>
       c \in registered' \/ (Holds(toServer, UnregReq(c)) /\ Holds(toClient', UnregOk(c)))
  /\ Holds(toClient', UnregOk(c)) => Holds(toClient, UnregOk(c)) \/ c \notin registered'
  /\ Holds(toClient', RegOk(c)) => Holds(toClient, RegOk(c)) \/ c \in registered'

\* and, as long as nothing is lost, to what is behind it.
ClientSide(c) ==
  /\ Holds(toClient, RegOk(c)) =>
       \/ Holds(toClient', RegOk(c)) \/ Holds(toServer', UnregReq(c)) \/ phase'[c] \in Live
  /\ Holds(toServer, UnregReq(c)) =>
       \/ Holds(toServer', UnregReq(c)) \/ Holds(toClient', UnregError(c)) \/ c \notin registered'
  /\ Holds(toClient, UnregError(c)) => Holds(toClient', UnregError(c)) \/ unregisterRetries'[c] > 0
  /\ unregisterRetries[c] > 0 => unregisterRetries'[c] > 0 \/ Holds(toServer', UnregReq(c))
  /\ phase[c] \in Live => phase'[c] \in Live \/ Holds(toClient, UnregOk(c))
  /\ phase'[c] \in Live => phase[c] \in Live \/ Holds(toClient, RegOk(c))
  /\ Holds(toClient, UnregOk(c)) => Holds(toClient', UnregOk(c)) \/ phase'[c] \notin Live

\* Being answered with success is being answered.
LEMMA OkIsAnswer ==
  ASSUME NEW c
  PROVE  /\ Holds(toClient, RegOk(c)) => Told(c)
         /\ Holds(toClient, UnregOk(c)) => Leaving(c)
<1>1. RegOk(c) \subseteq RegAns(c) /\ UnregOk(c) \subseteq UnregAns(c)
  BY DEF RegOk, RegAns, UnregOk, UnregAns, RegisterReply, UnregisterReply
<1>2. QED
  BY <1>1 DEF Told, Leaving, Holds

LEMMA SidesKeep ==
  ASSUME NEW c, OneRegister(c), Agrees(c), ServerSide(c), unbroken' => unbroken /\ ClientSide(c)
  PROVE  Agrees(c)'
<1>1. /\ Holds(toClient, RegOk(c)) => ~Holds(toServer, UnregReq(c))
      /\ Holds(toClient, UnregOk(c)) => ~Asked(c)
  BY OkIsAnswer DEF OneRegister, Leaving
<1>2. /\ Holds(toClient', UnregOk(c)) => c \notin registered'
      /\ Holds(toClient', RegOk(c)) => c \in registered'
  BY <1>1 DEF Agrees, ServerSide
<1>3. ASSUME unbroken', c \in registered' PROVE Known(c)'
  BY <1>3 DEF Agrees, ServerSide, ClientSide, Known
<1>4. ASSUME unbroken', phase'[c] \in Live
      PROVE  c \in registered' \/ Holds(toClient', UnregOk(c))
  BY <1>4 DEF Agrees, ServerSide, ClientSide
<1>5. QED
  BY <1>2, <1>3, <1>4 DEF Agrees

\* While nothing is lost, a channel changes its phase in three ways.
LEMMA PhaseMoves ==
  ASSUME RefinementInv, Lasting, [RegNext]_regVars, unbroken', NEW c \in Channel
  PROVE  /\ unbroken
         /\ \/ phase'[c] = phase[c]
            \/ HandleRegistered(c)
            \/ StoreRuns /\ phase[c] = "creating" /\ phase'[c] = "kept"
            \/ HandleUnregistered(c)
<1>0. TypeOK
  BY DEF RefinementInv, DurabilityInv
<1>1. ~Stop /\ ~Close
  BY DEF Stop, Close
<1>2. unbroken /\ up
  <2>1. unbroken
    BY <1>1, ConnectionSteps DEF Connect, Open, history
  <2>2. QED
    BY <1>0, <2>1 DEF Lasting, TypeOK
<1> USE <1>0 DEF TypeOK, SetPhase
<1>3. ASSUME NEW d \in Channel, HandleRegistered(d) PROVE phase'[c] = phase[c] \/ d = c
  BY <1>3 DEF HandleRegistered, AddStart
<1>4. ASSUME NEW d \in Channel, HandleUnregistered(d) PROVE phase'[c] = phase[c] \/ d = c
  BY <1>4 DEF HandleUnregistered, BeginRemoval, RemoveStart, storeVars
<1>5. ASSUME NEW d \in Channel, Registered(d) PROVE phase'[c] = phase[c]
  BY <1>5 DEF Registered, AddReturn
<1>6. ASSUME StoreRuns
      PROVE  phase'[c] = phase[c] \/ (phase[c] = "creating" /\ phase'[c] = "kept")
  <2>1. ~LoadSubscriptions
    BY <1>2 DEF LoadSubscriptions
  <2>2. ASSUME NEW d \in Channel, AddWrite(d) PROVE phase'[c] = phase[c]
    BY <2>2 DEF AddWrite, memory
  <2>3. ASSUME NEW d \in Channel, AddInsert(d)
        PROVE  phase'[c] = phase[c] \/ (phase[c] = "creating" /\ phase'[c] = "kept")
    BY <2>3 DEF AddInsert
  <2>4. ASSUME NEW t \in removing, RemoveStep(t) PROVE phase'[c] = phase[c]
    BY <2>4 DEF RemoveStep, RemoveNext, RemoveFinish
  <2>5. QED
    BY <1>6, <2>1, <2>2, <2>3, <2>4 DEF StoreRuns
<1>7. ASSUME UNCHANGED storeVars PROVE phase'[c] = phase[c]
  BY <1>7 DEF storeVars
<1>8. CASE UNCHANGED regVars
  BY <1>2, <1>7, <1>8 DEF regVars
<1>9. CASE RegNext
  <2> HIDE <1>0 DEF TypeOK, SetPhase
  <2>1. QED
    BY <1>1, <1>2, <1>3, <1>4, <1>5, <1>6, <1>7, <1>9, QuietSteps
<1>10. QED
  BY <1>8, <1>9

LEMMA NothingReceived ==
  ASSUME WireTypeOK, UNCHANGED toClient, NEW m
  PROVE  ~Received(m)
<1>1. \A s \in Seq(Reply) : s # <<>> => Len(Tail(s)) # Len(s)
  OBVIOUS
<1>2. toClient \in Seq(Reply)
  BY DEF WireTypeOK
<1>3. QED
  BY <1>1, <1>2 DEF Received

\* The answers that matter here, one at a time.
LEMMA ReceivedAnswers ==
  ASSUME WireTypeOK, NEW c \in Channel, NEW d \in Channel
  PROVE  /\ \A n \in {200, 400, 409, 500} : Received(RegisterReply(d, n)) =>
              /\ Holds(toClient, RegOk(c)) <=> (d = c /\ n = 200) \/ Holds(toClient', RegOk(c))
              /\ Holds(toClient, UnregOk(c)) <=> Holds(toClient', UnregOk(c))
              /\ Holds(toClient, UnregError(c)) <=> Holds(toClient', UnregError(c))
         /\ \A n \in {200, 500} : Received(UnregisterReply(d, n)) =>
              /\ Holds(toClient, RegOk(c)) <=> Holds(toClient', RegOk(c))
              /\ Holds(toClient, UnregOk(c)) <=>
                   (d = c /\ n = 200) \/ Holds(toClient', UnregOk(c))
              /\ Holds(toClient, UnregError(c)) <=>
                   (d = c /\ n = 500) \/ Holds(toClient', UnregError(c))
<1>1. ASSUME NEW n \in {200, 400, 409, 500}, Received(RegisterReply(d, n))
      PROVE  /\ Holds(toClient, RegOk(c)) <=> (d = c /\ n = 200) \/ Holds(toClient', RegOk(c))
             /\ Holds(toClient, UnregOk(c)) <=> Holds(toClient', UnregOk(c))
             /\ Holds(toClient, UnregError(c)) <=> Holds(toClient', UnregError(c))
  BY <1>1, KindsOfReplies, ReceivedHolds
<1>2. ASSUME NEW n \in {200, 500}, Received(UnregisterReply(d, n))
      PROVE  /\ Holds(toClient, RegOk(c)) <=> Holds(toClient', RegOk(c))
             /\ Holds(toClient, UnregOk(c)) <=>
                  (d = c /\ n = 200) \/ Holds(toClient', UnregOk(c))
             /\ Holds(toClient, UnregError(c)) <=>
                  (d = c /\ n = 500) \/ Holds(toClient', UnregError(c))
  BY <1>2, KindsOfReplies, ReceivedHolds
<1>3. QED
  BY <1>1, <1>2

\* An unregister that is sent over an open connection is on its way.
LEMMA SentUnregister ==
  ASSUME WireTypeOK, NEW c \in Channel, NEW d \in Channel, Send(ToUnregister(d))
  PROVE  /\ Holds(toServer, UnregReq(c)) => Holds(toServer', UnregReq(c))
         /\ websocket = "open" /\ d = c => Holds(toServer', UnregReq(c))
<1>1. ToUnregister(d) \in Request
  BY DEF ToUnregister, Request
<1>2. QED
  BY <1>1, KindsOfRequests, SendHolds

LEMMA NextSides ==
  ASSUME ReturnInv, Lasting, [RegNext]_regVars, NEW c \in Channel, OneRegister(c)
  PROVE  ServerSide(c) /\ (unbroken' => unbroken /\ ClientSide(c))
<1>0. /\ RegTypeOK /\ RefinementInv /\ TypeOK /\ ClientTypeOK /\ WireTypeOK
  BY RegTypeParts DEF ReturnInv
<1>1. unbroken' =>
        /\ unbroken /\ up
        /\ toClient # <<>> \/ unregisterRetries[c] > 0 => websocket = "open"
  BY <1>0, PhaseMoves DEF Lasting, TypeOK
<1> DEFINE Both == ServerSide(c) /\ (unbroken' => ClientSide(c))
<1> SUFFICES Both
  BY <1>1
<1> HIDE DEF Both
<1> DEFINE Steady == unbroken' => (phase'[c] \in Live <=> phase[c] \in Live)
<1> HIDE DEF Steady
<1>2. UNCHANGED phase => Steady
  BY DEF Steady
<1>3. UNCHANGED toClient => Steady
  BY <1>0, PhaseMoves, NothingReceived DEF Steady, HandleRegistered, HandleUnregistered, Live
<1>4. ASSUME UNCHANGED <<toClient, registered, unregisterRetries>>,
             Holds(toServer', UnregReq(c)) <=> Holds(toServer, UnregReq(c))
      PROVE  Both
  BY <1>3, <1>4 DEF Both, ServerSide, ClientSide, Steady
<1>5. ASSUME NEW k \in Key, SendRegister(k), UNCHANGED <<toClient, registered, unregisterRetries>>
      PROVE  Both
  BY <1>0, <1>4, <1>5, SendRegisterHolds
<1>6. ASSUME NEW p \in Caller, Unsubscribe(p) PROVE Both
  <2>1. call[p].channel \in Channel
    <3>1. call[p] \in [op : {"holding"}, key : Key, channel : Channel]
      BY <1>0, <1>6 DEF Unsubscribe, ClientTypeOK, Call
    <3>2. QED
      BY <3>1
  <2>2. /\ Send(ToUnregister(call[p].channel))
        /\ UNCHANGED <<toClient, registered, unregisterRetries>>
    BY <1>6 DEF Unsubscribe, clientVars, serverVars
  <2>3. QED
    BY <1>0, <1>3, <2>1, <2>2, SentUnregister DEF Both, ServerSide, ClientSide, Steady
<1>7. ASSUME NEW d \in Channel, HandleRegistered(d) PROVE Both
  <2>1. /\ Received(RegisterReply(d, 200)) /\ UNCHANGED <<toServer, unregisterRetries, registered>>
    BY <1>7 DEF HandleRegistered, serverVars
  <2>2. /\ d = c => phase'[c] \in Live
        /\ d # c => phase'[c] = phase[c]
    BY <1>0, <1>7 DEF HandleRegistered, AddStart, SetPhase, TypeOK, Live
  <2>3. d = c => ~(phase[c] \in Live) /\ ~Holds(toClient, UnregOk(c))
    <3>1. d = c => Told(c)
      BY <1>0, <2>1, ReceivedRegister
    <3>2. QED
      BY <3>1, OkIsAnswer DEF OneRegister, Begun, Live
  <2>4. QED
    BY <1>0, <2>1, <2>2, <2>3, ReceivedAnswers DEF Both, ServerSide, ClientSide
<1>8. ASSUME NEW d \in Channel, HandleUnexpected(d) PROVE Both
  <2>1. /\ Received(RegisterReply(d, 200)) /\ Send(ToUnregister(d))
        /\ UNCHANGED <<unregisterRetries, registered, phase>>
    BY <1>8 DEF HandleUnexpected, clientVars, serverVars, storeVars
  <2>2. unbroken' => websocket = "open"
    BY <1>1, <2>1 DEF Received
  <2>3. QED
    BY <1>0, <1>2, <2>1, <2>2, ReceivedAnswers, SentUnregister
       DEF Both, ServerSide, ClientSide, Steady
<1>9. ASSUME NEW d \in Channel, NEW n \in {400, 409, 500}, Received(RegisterReply(d, n)),
             UNCHANGED <<unregisterRetries, registered, phase>>,
             Holds(toServer', UnregReq(c)) <=> Holds(toServer, UnregReq(c))
      PROVE  Both
  BY <1>0, <1>2, <1>9, ReceivedAnswers DEF Both, ServerSide, ClientSide, Steady
<1>10. ASSUME NEW d \in Channel, HandleConflict(d) PROVE Both
  <2>1. Received(RegisterReply(d, 409)) /\ UNCHANGED <<unregisterRetries, registered, phase>>
    BY <1>10 DEF HandleConflict, serverVars, storeVars
  <2>2. Holds(toServer', UnregReq(c)) <=> Holds(toServer, UnregReq(c))
    <3>1. CASE SendRegister(keyOf[d])
      BY <1>0, <3>1, SendRegisterHolds DEF ClientTypeOK
    <3>2. QED
      BY <1>10, <3>1 DEF HandleConflict, RetryNow
  <2>3. QED
    BY <1>9, <2>1, <2>2
<1>11. ASSUME NEW d \in Channel, HandleRegisterError(d) \/ HandleRefused(d) PROVE Both
  BY <1>9, <1>11 DEF HandleRegisterError, HandleRefused, clientVars, serverVars, storeVars
<1>12. ASSUME NEW d \in Channel, HandleUnregistered(d) PROVE Both
  <2>1. Received(UnregisterReply(d, 200)) /\ UNCHANGED <<toServer, unregisterRetries, registered>>
    BY <1>12 DEF HandleUnregistered, clientVars, serverVars
  <2>2. d = c /\ unbroken' => phase'[c] \notin Live
    <3>1. SUFFICES ASSUME d = c, up PROVE phase'[c] \notin Live
      BY <1>1
    <3>2. phase[c] # "creating"
      BY <1>0, <2>1, <3>1, ReceivedUnregister DEF OneRegister, Leaving
    <3>3. phase[c] = "kept" => c \in subscriptions
      BY <1>0, <3>1 DEF RefinementInv, DurabilityInv, Kept, KeptIn
    <3>4. CASE c \in subscriptions
      BY <1>0, <1>12, <3>1, <3>4 DEF HandleUnregistered, BeginRemoval, RemoveStart, SetPhase,
         TypeOK, Live
    <3>5. CASE c \notin subscriptions
      BY <1>12, <3>1, <3>2, <3>3, <3>5 DEF HandleUnregistered, BeginRemoval, storeVars, Live
    <3>6. QED
      BY <3>4, <3>5
  <2>3. d # c => phase'[c] = phase[c]
    BY <1>0, <1>12 DEF HandleUnregistered, BeginRemoval, RemoveStart, SetPhase, storeVars, TypeOK
  <2>4. d = c => Holds(toClient, UnregOk(c)) /\ ~Holds(toClient, RegOk(c))
    <3>1. d = c => Holds(toClient, UnregOk(c))
      BY <1>0, <2>1, ReceivedAnswers
    <3>2. QED
      BY <3>1, OkIsAnswer DEF OneRegister
  <2>5. QED
    BY <1>0, <2>1, <2>2, <2>3, <2>4, ReceivedAnswers DEF Both, ServerSide, ClientSide
<1>13. ASSUME NEW d \in Channel, HandleUnregisterError(d) PROVE Both
  <2>1. /\ Received(UnregisterReply(d, 500)) /\ UNCHANGED <<toServer, registered, phase>>
        /\ d # c => unregisterRetries'[c] = unregisterRetries[c]
        /\ d = c => unregisterRetries'[c] > 0
        /\ unregisterRetries[c] > 0 => unregisterRetries'[c] > 0
    BY <1>0, <1>13 DEF HandleUnregisterError, serverVars, storeVars, ClientTypeOK
  <2>2. QED
    BY <1>0, <1>2, <2>1, ReceivedAnswers DEF Both, ServerSide, ClientSide, Steady
<1>14. ASSUME NEW d \in Channel, RetryRegister(d) PROVE Both
  <2>1. UNCHANGED <<toClient, registered, unregisterRetries>>
    BY <1>14 DEF RetryRegister, serverVars
  <2>2. CASE SendRegister(keyOf[d])
    BY <1>0, <1>5, <2>1, <2>2 DEF ClientTypeOK
  <2>3. CASE UNCHANGED toServer
    BY <1>4, <2>1, <2>3
  <2>4. QED
    BY <1>14, <2>2, <2>3 DEF RetryRegister
<1>15. ASSUME NEW d \in Channel, RetryUnregister(d) PROVE Both
  <2>1. /\ Send(ToUnregister(d)) /\ unregisterRetries[d] > 0
        /\ UNCHANGED <<toClient, registered>>
        /\ d # c => unregisterRetries'[c] = unregisterRetries[c]
    BY <1>0, <1>15 DEF RetryUnregister, serverVars, ClientTypeOK
  <2>2. unbroken' /\ d = c => websocket = "open"
    BY <1>1, <2>1
  <2>3. QED
    BY <1>0, <1>3, <2>1, <2>2, SentUnregister DEF Both, ServerSide, ClientSide, Steady
<1>16. ASSUME Server PROVE Both
  <2> DEFINE m == Head(toServer)
             d == m.channelID
  <2>1. toServer # <<>> /\ UNCHANGED <<unregisterRetries, phase>>
    BY <1>16 DEF Server, ServerAccepts, ServerFails, clientVars, storeVars
  <2>2. m \in Request
    BY <1>0, <2>1 DEF WireTypeOK
  <2>3. CASE m.messageType = "register"
    <3>1. m = ToRegister(d) /\ d \in Channel
      BY <2>2, <2>3 DEF Request, ToRegister
    <3>2. PICK n \in {200, 400, 409, 500} :
            /\ Answers(RegisterReply(d, n))
            /\ registered' = registered \cup (IF n = 200 THEN {d} ELSE {})
      <4>1. CASE ServerAccepts
        BY <2>3, <4>1 DEF ServerAccepts
      <4>2. CASE ServerFails
        BY <2>3, <4>2 DEF ServerFails, RegisterErrors
      <4>3. QED
        BY <1>16, <4>1, <4>2 DEF Server
    <3>3. RegisterReply(d, n) \in Reply
      BY <3>1 DEF RegisterReply, Reply
    <3> HIDE DEF d, m
    <3>4. /\ m \in RegReq(c) <=> d = c
          /\ m \notin UnregReq(c)
          /\ RegisterReply(d, n) \in RegOk(c) <=> d = c /\ n = 200
          /\ RegisterReply(d, n) \notin UnregOk(c)
          /\ RegisterReply(d, n) \notin UnregError(c)
      BY <3>1, KindsOfRequests, KindsOfReplies
    <3>5. /\ d = c => Asked(c)
          /\ Holds(toServer, UnregReq(c)) <=> Holds(toServer', UnregReq(c))
      BY <1>0, <2>1, <3>2, <3>3, <3>4, AnswersHolds DEF Asked, m
    <3>6. /\ Holds(toClient', RegOk(c)) <=> Holds(toClient, RegOk(c)) \/ (d = c /\ n = 200)
          /\ Holds(toClient', UnregOk(c)) <=> Holds(toClient, UnregOk(c))
          /\ Holds(toClient', UnregError(c)) <=> Holds(toClient, UnregError(c))
      BY <1>0, <2>1, <3>2, <3>3, <3>4, AnswersHolds
    <3>7. QED
      BY <1>2, <2>1, <3>2, <3>5, <3>6 DEF Both, ServerSide, ClientSide, Steady
  <2>4. CASE m.messageType # "register"
    <3>1. m = ToUnregister(d) /\ d \in Channel
      BY <2>2, <2>4 DEF Request, ToUnregister
    <3>2. PICK n \in {200, 500} :
            /\ Answers(UnregisterReply(d, n))
            /\ registered' = registered \ (IF n = 200 THEN {d} ELSE {})
      <4>1. CASE ServerAccepts
        BY <2>4, <4>1 DEF ServerAccepts
      <4>2. CASE ServerFails
        BY <2>4, <4>2 DEF ServerFails
      <4>3. QED
        BY <1>16, <4>1, <4>2 DEF Server
    <3>3. UnregisterReply(d, n) \in Reply
      BY <3>1 DEF UnregisterReply, Reply
    <3> HIDE DEF d, m
    <3>4. /\ m \in UnregReq(c) <=> d = c
          /\ UnregisterReply(d, n) \notin RegOk(c)
          /\ UnregisterReply(d, n) \in UnregOk(c) <=> d = c /\ n = 200
          /\ UnregisterReply(d, n) \in UnregError(c) <=> d = c /\ n = 500
      BY <3>1, KindsOfRequests, KindsOfReplies
    <3>5. Holds(toServer, UnregReq(c)) <=> d = c \/ Holds(toServer', UnregReq(c))
      BY <1>0, <2>1, <3>2, <3>3, <3>4, AnswersHolds DEF m
    <3>6. /\ Holds(toClient', RegOk(c)) <=> Holds(toClient, RegOk(c))
          /\ Holds(toClient', UnregOk(c)) <=> Holds(toClient, UnregOk(c)) \/ (d = c /\ n = 200)
          /\ Holds(toClient', UnregError(c)) <=>
               Holds(toClient, UnregError(c)) \/ (d = c /\ n = 500)
      BY <1>0, <2>1, <3>2, <3>3, <3>4, AnswersHolds
    <3>7. QED
      BY <1>2, <2>1, <3>2, <3>5, <3>6 DEF Both, ServerSide, ClientSide, Steady
  <2>5. QED
    BY <2>3, <2>4
<1>17. ASSUME Close \/ Stop PROVE Both
  <2>1. toClient' = <<>> /\ UNCHANGED registered /\ ~unbroken'
    BY <1>17 DEF Close, Stop, serverVars
  <2>2. QED
    BY <2>1, EmptyHolds DEF Both, ServerSide
<1>18. ASSUME NEW p \in Caller, NEW k \in Key, SubscribeNew(p, k) PROVE Both
  BY <1>5, <1>18 DEF SubscribeNew, serverVars
<1>19. ASSUME \/ \E p \in Caller, k \in Key : SubscribeExisting(p, k)
              \/ \E d \in Channel : ExpireRegister(d) \/ Registered(d)
              \/ Connect \/ Open \/ CreateReturns \/ StoreRuns \/ UNCHANGED regVars
       PROVE  Both
  <2>1. UNCHANGED <<toServer, toClient, registered, unregisterRetries>>
    BY <1>19 DEF SubscribeExisting, ExpireRegister, Registered, Connect, Open, CreateReturns,
       StoreRuns, regVars, clientVars, wireVars, serverVars
  <2>2. QED
    BY <1>4, <2>1
<1>20. QED
  BY <1>6, <1>7, <1>8, <1>10, <1>11, <1>12, <1>13, <1>14, <1>15, <1>16, <1>17, <1>18, <1>19
     DEF RegNext, Application, Handle, Retry

AgreeInv ==
  ReturnInv /\ Lasting /\ \A c \in Channel : OneRegister(c) /\ Agrees(c)

LEMMA InitAgree == RegInit => AgreeInv
<1> SUFFICES ASSUME RegInit PROVE AgreeInv
  OBVIOUS
<1>1. ReturnInv /\ Lasting
  BY InitReturn, InitLasting
<1>2. ASSUME NEW c \in Channel PROVE Agrees(c)
  BY EmptyHolds DEF RegInit, StoreInit, Agrees, Live
<1>3. QED
  BY <1>1, <1>2, InitOneRegister DEF AgreeInv

LEMMA NextAgree == AgreeInv /\ [RegNext]_regVars => AgreeInv'
<1> SUFFICES ASSUME AgreeInv, [RegNext]_regVars PROVE AgreeInv'
  OBVIOUS
<1>1. ReturnInv /\ Lasting /\ RegTypeOK
  BY DEF AgreeInv, ReturnInv
<1>2. ReturnInv' /\ Lasting'
  BY <1>1, NextReturn, NextLasting
<1>3. ASSUME NEW c \in Channel PROVE OneRegister(c)' /\ Agrees(c)'
  <2>1. OneRegister(c) /\ Agrees(c)
    BY DEF AgreeInv
  <2>2. OneRegister(c)'
    BY <1>1, <2>1, NextOneRegister
  <2>3. ServerSide(c) /\ (unbroken' => unbroken /\ ClientSide(c))
    BY <1>1, <2>1, NextSides
  <2>4. QED
    BY <2>1, <2>2, <2>3, SidesKeep
<1>4. QED
  BY <1>2, <1>3 DEF AgreeInv

\* On a connection that lasts no registration is forgotten at the server, through
\* late answers, errors, retries and expired waits of any number of calls
\* (register-handler.ts:77-86).
THEOREM ServerAgrees == RegSpec => []ServerChannelsAccounted
<1>1. AgreeInv => ServerChannelsAccounted
  <2> SUFFICES ASSUME AgreeInv, unbroken, NEW c \in registered
               PROVE  \/ Answered(RegisterReply(c, 200))
                      \/ phase[c] \in {"creating", "kept"}
                      \/ Requested(ToUnregister(c))
                      \/ Answered(UnregisterReply(c, 500))
                      \/ unregisterRetries[c] > 0
    BY DEF ServerChannelsAccounted
  <2>1. c \in Channel
    BY DEF AgreeInv, ReturnInv, RegTypeOK
  <2>2. Known(c)
    BY <2>1 DEF AgreeInv, Agrees
  <2>3. QED
    BY <2>2 DEF Known, Live, Holds, RegOk, UnregReq, UnregError, Requested, Answered
<1>2. QED
  BY InitAgree, NextAgree, <1>1, PTL DEF RegSpec

\* And a subscription that is not under removal can receive notifications
\* (register-handler.ts:87-96, unregister-handler.ts:67-71).
THEOREM SubscriptionsServed == RegSpec => []SubscriptionsRegistered
<1>1. AgreeInv => SubscriptionsRegistered
  BY DEF AgreeInv, Agrees, Live, Holds, UnregOk, SubscriptionsRegistered, Answered
<1>2. QED
  BY InitAgree, NextAgree, <1>1, PTL DEF RegSpec

-----------------------------------------------------------------------------
(* What unsubscribe leaves behind *)

\* A caller in unsubscribe asked for a channel that was in the map; one that is done
\* with it was told so in the turn in which the removal began.
Unsubscribes ==
  \A p \in Caller :
    /\ call[p].op = "unsubscribing" => call[p].channel \in Handed
    /\ call[p].op = "unsubscribed" =>
         call[p].channel \notin registered /\ phase[call[p].channel] = "removed"

\* The calls of unsubscribe begin with a subscription and end with the answer.
LEMMA CallsOfUnsubscribe ==
  ASSUME RegTypeOK, [RegNext]_regVars, NEW p \in Caller
  PROVE  /\ call'[p].op = "unsubscribing" =>
              \/ call'[p] = call[p]
              \/ /\ call[p].op = "holding" /\ call[p].channel \in Channel
                 /\ call'[p].channel = call[p].channel
         /\ call'[p].op = "unsubscribed" =>
              \/ call'[p] = call[p]
              \/ \E c \in Channel :
                   /\ HandleUnregistered(c)
                   /\ call[p].op = "unsubscribing" /\ call[p].channel = c
                   /\ call'[p].channel = c
<1>1. call \in [Caller -> Call]
  BY DEF RegTypeOK
<1> DEFINE Same == call'[p] = call[p] \/ call'[p].op \notin {"unsubscribing", "unsubscribed"}
<1>2. ASSUME NEW q \in Caller, NEW k \in Key, SubscribeExisting(q, k) \/ SubscribeNew(q, k)
      PROVE  Same
  BY <1>1, <1>2 DEF SubscribeExisting, SubscribeNew, Resolve, Holding, Subscribing
<1>3. ASSUME NEW q \in Caller, Unsubscribe(q)
      PROVE  \/ call'[p] = call[p]
             \/ /\ call[p].op = "holding" /\ call[p].channel \in Channel
                /\ call'[p].op = "unsubscribing" /\ call'[p].channel = call[p].channel
  <2>1. call' = [call EXCEPT ![q] = [call[q] EXCEPT !.op = "unsubscribing"]]
        /\ call[q].op = "holding"
    BY <1>3 DEF Unsubscribe, Resolve
  <2>2. call[q] \in [op : {"holding"}, key : Key, channel : Channel]
    BY <1>1, <2>1 DEF Call
  <2>3. /\ [call[q] EXCEPT !.op = "unsubscribing"].op = "unsubscribing"
        /\ [call[q] EXCEPT !.op = "unsubscribing"].channel = call[q].channel
        /\ call[q].channel \in Channel
    BY <2>2
  <2>4. QED
    BY <1>1, <2>1, <2>3
<1>4. ASSUME NEW c \in Channel, HandleUnregistered(c)
      PROVE  \/ call'[p] = call[p]
             \/ /\ call[p].op = "unsubscribing" /\ call[p].channel = c
                /\ call'[p].op = "unsubscribed" /\ call'[p].channel = c
  <2>1. call'[p] = IF call[p].op = "unsubscribing" /\ call[p].channel = c
                   THEN [call[p] EXCEPT !.op = "unsubscribed"] ELSE call[p]
    BY <1>4 DEF HandleUnregistered, NotifyUnregistered
  <2>2. ASSUME call[p].op = "unsubscribing"
        PROVE  /\ [call[p] EXCEPT !.op = "unsubscribed"].op = "unsubscribed"
               /\ [call[p] EXCEPT !.op = "unsubscribed"].channel = call[p].channel
    <3>1. call[p] \in [op : {"unsubscribing"}, key : Key, channel : Channel]
      BY <1>1, <2>2 DEF Call
    <3>2. QED
      BY <3>1
  <2>3. QED
    BY <2>1, <2>2
<1>5. ASSUME NEW c \in Channel, Registered(c) PROVE Same
  BY <1>5 DEF Registered, NotifyRegistered, Holding
<1>6. ASSUME Stop PROVE Same
  BY <1>6 DEF Stop, Idling
<1>7. ASSUME \/ \E c \in Channel :
                  \/ HandleRegistered(c) \/ HandleUnexpected(c) \/ HandleConflict(c)
                  \/ HandleRegisterError(c) \/ HandleRefused(c) \/ HandleUnregisterError(c)
                  \/ RetryRegister(c) \/ RetryUnregister(c) \/ ExpireRegister(c)
             \/ Server \/ Connect \/ Open \/ CreateReturns \/ Close \/ StoreRuns
             \/ UNCHANGED regVars
      PROVE  Same
  BY <1>7 DEF HandleRegistered, HandleUnexpected, HandleConflict, HandleRegisterError,
     HandleRefused, HandleUnregisterError, RetryRegister, RetryUnregister, ExpireRegister,
     Server, ServerAccepts, ServerFails, Connect, Open, CreateReturns, Close, StoreRuns, regVars
<1>8. CASE Same
  BY <1>8
<1>9. QED
  BY <1>2, <1>3, <1>4, <1>5, <1>6, <1>7, <1>8 DEF RegNext, Application, Handle, Retry

LEMMA NextUnsubscribes == AgreeInv /\ Unsubscribes /\ [RegNext]_regVars => Unsubscribes'
<1> SUFFICES ASSUME AgreeInv, Unsubscribes, [RegNext]_regVars, NEW p \in Caller
             PROVE  /\ call'[p].op = "unsubscribing" => call'[p].channel \in Handed'
                    /\ call'[p].op = "unsubscribed" =>
                         call'[p].channel \notin registered' /\ phase'[call'[p].channel] = "removed"
  BY DEF Unsubscribes
<1>0. /\ ReturnInv /\ Lasting /\ RegTypeOK /\ RefinementInv /\ SavingHanded /\ TypeOK
      /\ ClientTypeOK /\ WireTypeOK /\ HoldsHanded /\ [StoreNext]_storeVars
  BY RegTypeParts, RegStepIsStoreStep DEF AgreeInv, ReturnInv
<1>1. Handed \subseteq Handed'
  BY <1>0, HandedStays
<1>2. ASSUME call'[p].op = "unsubscribing" PROVE call'[p].channel \in Handed'
  <2>1. CASE call'[p] = call[p]
    BY <1>1, <1>2, <2>1 DEF Unsubscribes
  <2>2. CASE /\ call[p].op = "holding" /\ call[p].channel \in Channel
             /\ call'[p].channel = call[p].channel
    BY <1>0, <1>1, <2>2 DEF HoldsHanded, Handed
  <2>3. QED
    BY <1>0, <1>2, <2>1, <2>2, CallsOfUnsubscribe
<1>3. ASSUME call'[p].op = "unsubscribed"
      PROVE  call'[p].channel \notin registered' /\ phase'[call'[p].channel] = "removed"
  <2>1. CASE call'[p] = call[p]
    <3>1. call[p] \in [op : {"unsubscribed"}, key : Key, channel : Channel]
      BY <1>0, <1>3, <2>1 DEF ClientTypeOK, Call
    <3>2. PICK c \in Channel : c = call[p].channel
      BY <3>1
    <3>3. c \notin registered /\ phase[c] = "removed"
      BY <1>3, <2>1, <3>2 DEF Unsubscribes
    <3>4. phase'[c] = "removed"
      BY <1>0, <3>3, RemovedStays, RegistrationAssumption
    <3>5. OneRegister(c)
      BY DEF AgreeInv
    <3>6. ~Asked(c)
      BY <3>3, <3>5 DEF OneRegister, Begun
    <3>7. c \notin registered'
      BY <1>0, <3>3, <3>5, <3>6, NextSides DEF ServerSide
    <3>8. QED
      BY <2>1, <3>2, <3>4, <3>7
  <2>2. ASSUME NEW c \in Channel, HandleUnregistered(c), call[p].op = "unsubscribing",
               call[p].channel = c, call'[p].channel = c
        PROVE  c \notin registered' /\ phase'[c] = "removed"
    <3>1. Received(UnregisterReply(c, 200)) /\ registered' = registered
      BY <2>2 DEF HandleUnregistered, serverVars
    <3>2. Holds(toClient, UnregOk(c))
      BY <1>0, <3>1, ReceivedAnswers
    <3>3. c \notin registered
      BY <3>2 DEF AgreeInv, Agrees
    <3>4. up
      BY <1>0, <3>1 DEF Lasting, Received
    <3>5. phase[c] \in {"kept", "removed"}
      BY <2>2 DEF Unsubscribes, Handed
    <3>6. phase[c] = "kept" => c \in subscriptions
      BY <1>0, <3>4 DEF RefinementInv, DurabilityInv, Kept, KeptIn
    <3>7. phase'[c] = "removed"
      <4>1. CASE c \in subscriptions
        BY <1>0, <2>2, <4>1 DEF HandleUnregistered, BeginRemoval, RemoveStart, SetPhase, TypeOK
      <4>2. CASE c \notin subscriptions
        BY <2>2, <3>5, <3>6, <4>2 DEF HandleUnregistered, BeginRemoval, storeVars
      <4>3. QED
        BY <4>1, <4>2
    <3>8. QED
      BY <3>1, <3>3, <3>7
  <2>3. QED
    BY <1>0, <1>3, <2>1, <2>2, CallsOfUnsubscribe
<1>4. QED
  BY <1>2, <1>3

\* When unsubscribe has resolved, the server does not have the channel and no start of
\* the process brings it back, whatever else is under way and whenever the process
\* stops (unregister-handler.ts:67-71).
THEOREM UnsubscribeCompletes == RegSpec => []UnsubscribeIsComplete
<1>1. RegInit => Unsubscribes
  BY DEF RegInit, Idling, Unsubscribes
<1>2. AgreeInv /\ Unsubscribes => UnsubscribeIsComplete
  <2> SUFFICES ASSUME AgreeInv, Unsubscribes, NEW p \in Caller, call[p].op = "unsubscribed"
               PROVE  call[p].channel \notin registered /\ ~Recoverable(call[p].channel)
    BY DEF UnsubscribeIsComplete
  <2>1. call[p] \in [op : {"unsubscribed"}, key : Key, channel : Channel]
    BY DEF AgreeInv, ReturnInv, RegTypeOK, Call
  <2>2. "endpoint" \notin stored[call[p].channel]
    BY <2>1 DEF AgreeInv, ReturnInv, RefinementInv, Gone, Unsubscribes
  <2>3. QED
    BY <2>2 DEF Unsubscribes, Recoverable, Recovers
<1>3. QED
  BY InitAgree, NextAgree, NextUnsubscribes, <1>1, <1>2, PTL DEF RegSpec

-----------------------------------------------------------------------------
(* One subscription per key *)

\* A registration that may still end in a subscription: an answer to it that will
\* be heeded is awaited, it will be tried again, or its subscription is under way.
InWork(c) ==
  \/ c \in registeringQueue /\ (Asked(c) \/ Told(c))
  \/ c \in registerRetries
  \/ phase[c] = "creating"
  \/ c \in saving

\* And a channel that is, or will be, found under its key.
Active(c) == InWork(c) \/ phase[c] = "kept" \/ c \in subscriptions

Alone ==
  \A c, d \in Channel :
    Active(c) /\ Active(d) /\ keyOf[c] = keyOf[d] /\ keyOf[c] \notin overlapped => c = d

\* Whatever is in work for a key, a caller still waits for it: its promise is settled
\* by the end of that work and not before.
Awaited ==
  \A c \in Channel :
    InWork(c) /\ keyOf[c] \notin overlapped =>
      \E p \in Caller : call[p] = Subscribing(keyOf[c])

\* A register that will be tried again has been answered.
RetriesApart ==
  \A c \in registerRetries : c \in drawn /\ ~Asked(c) /\ ~Told(c) /\ ~Begun(c)

TurnInv ==
  /\ ReturnInv
  /\ \A c \in Channel : OneRegister(c)
  /\ RetriesApart /\ Alone /\ Awaited

\* What enters the map was under construction, or comes back at a start.
LEMMA EntersMap ==
  ASSUME RefinementInv, [StoreNext]_storeVars, NEW c \in Channel
  PROVE  /\ c \in saving' => c \in saving \/ phase[c] = "creating"
         /\ phase'[c] = "kept" => phase[c] \in {"creating", "kept"}
         /\ c \in subscriptions' => c \in subscriptions \/ phase[c] \in {"creating", "kept"}
<1> DEFINE Goal == /\ c \in saving' => c \in saving \/ phase[c] = "creating"
                   /\ phase'[c] = "kept" => phase[c] \in {"creating", "kept"}
                   /\ c \in subscriptions' =>
                        c \in subscriptions \/ phase[c] \in {"creating", "kept"}
<1>0. ~StorageMayReject /\ TypeOK
  BY RegistrationAssumption DEF RefinementInv, DurabilityInv
<1> USE <1>0 DEF TypeOK, SetPhase
<1>1. ASSUME NEW d \in Channel, AddStart(d) \/ AddStep(d) \/ AddFails(d)
      PROVE  Goal
  BY <1>1 DEF AddStart, AddStep, AddWrite, AddInsert, AddReturn, AddFails, AddRejected,
     SaveRejected, memory
<1>2. ASSUME NEW d \in Channel, RemoveStartRejected(d) \/ \E r \in Remover : RemoveStart(r, d)
      PROVE  Goal
  BY <1>2 DEF RemoveStart, RemoveStartRejected
<1>3. ASSUME NEW t \in removing, RemoveStep(t) \/ RemoveFails(t)
      PROVE  Goal
  BY <1>3 DEF RemoveStep, RemoveFails, RemoveNext, RemoveFinish, RemoveNextRejected,
     RemoveFinishRejected
<1>4. ASSUME LoadSubscriptions PROVE Goal
  <2>1. c \in subscriptions' => c \in Restorable
    BY <1>4 DEF LoadSubscriptions, Recoverable, Restorable
  <2>2. c \in subscriptions' => phase[c] = "kept"
    BY <2>1, RestorableByPhase
  <2>3. QED
    BY <1>4, <2>2 DEF LoadSubscriptions
<1>5. ASSUME Crash \/ LoadSubscriptionsRejected \/ UNCHANGED storeVars PROVE Goal
  BY <1>5 DEF Crash, LoadSubscriptionsRejected, storeVars
<1>6. Goal
  BY <1>1, <1>2, <1>3, <1>4, <1>5 DEF StoreNext
<1>7. QED
  BY <1>6

\* The kinds of steps, by what becomes of the drawn channels and of the callers that
\* wait in subscribe.
Draws(k, c) ==
  /\ c \in Channel \ drawn
  /\ drawn' = drawn \cup {c}
  /\ keyOf' = [keyOf EXCEPT ![c] = k]
  /\ registeringQueue' = registeringQueue \cup {c}

StillWaiting ==
  \A p \in Caller, k \in Key : call[p] = Subscribing(k) => call'[p] = Subscribing(k)

Plain ==
  /\ UNCHANGED <<drawn, keyOf, overlapped>>
  /\ registeringQueue' \subseteq registeringQueue
  /\ StillWaiting

Retried(d) ==
  /\ HandleConflict(d) \/ RetryRegister(d)
  /\ \E c \in Channel : Draws(keyOf[d], c)

LEMMA TurnSteps ==
  ASSUME RegTypeOK, [RegNext]_regVars
  PROVE  \/ Plain
         \/ \E c \in Channel : Registered(c) \/ Retried(c)
         \/ \E p \in Caller, k \in Key : SubscribeNew(p, k)
         \/ Stop
<1>1. call \in [Caller -> Call]
  BY DEF RegTypeOK
<1>2. ASSUME NEW p \in Caller, NEW k \in Key, SubscribeExisting(p, k) PROVE Plain
  BY <1>1, <1>2 DEF SubscribeExisting, MaySubscribe, Resolve, clientVars, history, Plain,
     StillWaiting, Subscribing
<1>3. ASSUME NEW p \in Caller, Unsubscribe(p) PROVE Plain
  BY <1>1, <1>3 DEF Unsubscribe, Resolve, clientVars, history, Plain, StillWaiting, Subscribing
<1>4. ASSUME NEW c \in Channel, HandleUnregistered(c) PROVE Plain
  BY <1>1, <1>4 DEF HandleUnregistered, NotifyUnregistered, clientVars, history, Plain,
     StillWaiting, Subscribing
<1>5. ASSUME NEW c \in Channel, HandleConflict(c) \/ RetryRegister(c)
      PROVE  Plain \/ Retried(c)
  <2>1. UNCHANGED <<call, overlapped>>
    BY <1>5 DEF HandleConflict, RetryRegister, history
  <2>2. CASE SendRegister(keyOf[c])
    BY <1>5, <2>2 DEF SendRegister, Retried, Draws
  <2>3. CASE UNCHANGED <<drawn, keyOf, registeringQueue, toServer>>
    BY <2>1, <2>3 DEF Plain, StillWaiting
  <2>4. QED
    BY <1>5, <2>2, <2>3 DEF HandleConflict, RetryNow, RetryRegister
<1>6. ASSUME \/ \E c \in Channel :
                  \/ HandleRegistered(c) \/ HandleUnexpected(c) \/ HandleRegisterError(c)
                  \/ HandleRefused(c) \/ HandleUnregisterError(c)
                  \/ RetryUnregister(c) \/ ExpireRegister(c)
             \/ Server \/ Connect \/ Open \/ CreateReturns \/ Close \/ StoreRuns
             \/ UNCHANGED regVars
      PROVE  Plain
  <2>1. /\ UNCHANGED <<drawn, keyOf, overlapped, call>>
        /\ registeringQueue' \subseteq registeringQueue
    BY <1>6 DEF HandleRegistered, HandleUnexpected, HandleRegisterError, HandleRefused,
       HandleUnregisterError, RetryUnregister, ExpireRegister, Server, ServerAccepts,
       ServerFails, Connect, Open, CreateReturns, Close, StoreRuns, regVars, clientVars, history
  <2>2. QED
    BY <2>1 DEF Plain, StillWaiting
<1>7. QED
  BY <1>2, <1>3, <1>4, <1>5, <1>6 DEF RegNext, Application, Handle, Retry

\* What a step may bring into work: nothing but a channel it draws.
LEMMA QueueGrows ==
  ASSUME RegTypeOK, [RegNext]_regVars, NEW c \in Channel
  PROVE  /\ c \in registeringQueue' => c \in registeringQueue \/ (c \notin drawn /\ c \in drawn')
         /\ c \in registerRetries' =>
              c \in registerRetries \/ (HandleRegisterError(c) /\ c \in registeringQueue)
<1>1. ASSUME c \in registeringQueue'
      PROVE  c \in registeringQueue \/ (c \notin drawn /\ c \in drawn')
  <2>1. CASE Plain
    BY <1>1, <2>1 DEF Plain
  <2>2. CASE \E d \in Channel : Registered(d)
    BY <1>1, <2>2 DEF Registered, clientVars
  <2>3. CASE \E d \in Channel : Retried(d)
    BY <1>1, <2>3 DEF Retried, Draws
  <2>4. CASE \E p \in Caller, k \in Key : SubscribeNew(p, k)
    BY <1>1, <2>4 DEF SubscribeNew, SendRegister
  <2>5. CASE Stop
    BY <1>1, <2>5 DEF Stop
  <2>6. QED
    BY <2>1, <2>2, <2>3, <2>4, <2>5, TurnSteps
<1>2. ASSUME NEW d \in Channel, HandleRegisterError(d), c \in registerRetries'
      PROVE  c \in registerRetries \/ (HandleRegisterError(c) /\ c \in registeringQueue)
  <2>1. c \in registerRetries \/ (c = d /\ d \in registeringQueue)
    BY <1>2 DEF HandleRegisterError
  <2>2. QED
    BY <1>2, <2>1
<1>3. ASSUME NEW d \in Channel, RetryRegister(d) PROVE registerRetries' \subseteq registerRetries
  BY <1>3 DEF RetryRegister
<1>4. ASSUME Stop PROVE registerRetries' = {}
  BY <1>4 DEF Stop
<1>5. ASSUME \/ \E p \in Caller, k \in Key :
                  SubscribeExisting(p, k) \/ SubscribeNew(p, k)
             \/ \E d \in Channel :
                  \/ HandleRegistered(d) \/ HandleUnexpected(d) \/ HandleConflict(d)
                  \/ HandleRefused(d) \/ HandleUnregistered(d) \/ HandleUnregisterError(d)
                  \/ RetryUnregister(d) \/ ExpireRegister(d) \/ Registered(d)
             \/ Server \/ Connect \/ Open \/ CreateReturns \/ Close \/ StoreRuns
             \/ UNCHANGED regVars
      PROVE  UNCHANGED registerRetries
  BY <1>5 DEF SubscribeExisting, SubscribeNew, HandleRegistered, HandleUnexpected, HandleConflict,
     HandleRefused, HandleUnregistered, HandleUnregisterError, RetryUnregister,
     ExpireRegister, Registered, Server, ServerAccepts, ServerFails, Connect, Open,
     CreateReturns, Close, StoreRuns, regVars, clientVars
<1>6. ASSUME NEW p \in Caller, Unsubscribe(p) PROVE UNCHANGED registerRetries
  BY <1>6 DEF Unsubscribe, clientVars
<1>7. c \in registerRetries' =>
        c \in registerRetries \/ (HandleRegisterError(c) /\ c \in registeringQueue)
  BY <1>2, <1>3, <1>4, <1>5, <1>6 DEF RegNext, Application, Handle, Retry
<1>8. QED
  BY <1>1, <1>7

LEMMA ComesIntoWork ==
  ASSUME TurnInv, [RegNext]_regVars, NEW c \in Channel
  PROVE  /\ InWork(c)' => InWork(c) \/ (c \notin drawn /\ c \in drawn')
         /\ Active(c)' => Active(c) \/ (c \notin drawn /\ c \in drawn')
<1>0. /\ RegTypeOK /\ RefinementInv /\ WireTypeOK /\ TypeOK /\ [StoreNext]_storeVars
      /\ OneRegister(c) /\ Advances(c)
  BY NextAdvances, RegStepIsStoreStep, RegTypeParts DEF TurnInv, ReturnInv
<1>1. ASSUME c \in registeringQueue', Asked(c)' \/ Told(c)'
      PROVE  InWork(c) \/ (c \notin drawn /\ c \in drawn')
  BY <1>0, <1>1, QueueGrows DEF Advances, InWork
<1>2. ASSUME c \in registerRetries' PROVE InWork(c)
  <2>1. CASE c \in registerRetries
    BY <2>1 DEF InWork
  <2>2. CASE HandleRegisterError(c) /\ c \in registeringQueue
    BY <1>0, <2>2, ReceivedRegister DEF HandleRegisterError, InWork
  <2>3. QED
    BY <1>0, <1>2, <2>1, <2>2, QueueGrows
<1>3. ASSUME phase'[c] = "creating" PROVE InWork(c)
  <2>1. CASE phase[c] = "unused"
    <3>1. HandleRegistered(c)
      BY <1>0, <1>3, <2>1, OnlyAnsweredBegin
    <3>2. QED
      BY <1>0, <3>1, ReceivedRegister DEF HandleRegistered, InWork
  <2>2. QED
    BY <1>0, <1>3, <2>1, CreatingBegins DEF InWork
<1>4. InWork(c)' => InWork(c) \/ (c \notin drawn /\ c \in drawn')
  BY <1>0, <1>1, <1>2, <1>3, EntersMap DEF InWork
<1>5. phase'[c] = "kept" \/ c \in subscriptions' => Active(c)
  BY <1>0, EntersMap DEF Active, InWork
<1>6. QED
  BY <1>4, <1>5 DEF Active

\* Only drawn channels are in work or in the map.
LEMMA ActiveDrawn ==
  ASSUME TurnInv, NEW c \in Channel, Active(c) PROVE c \in drawn
<1>1. CASE c \in registeringQueue \/ c \in registerRetries
  BY <1>1 DEF TurnInv, ReturnInv, Drawn, RetriesApart
<1>2. CASE c \in saving \/ c \in subscriptions \/ phase[c] \in {"creating", "kept"}
  <2>1. phase[c] # "unused"
    BY <1>2 DEF TurnInv, ReturnInv, RefinementInv, Absent, SavingHanded, Handed
  <2>2. QED
    BY <2>1 DEF TurnInv, ReturnInv, Drawn
<1>3. QED
  BY <1>1, <1>2 DEF Active, InWork

LEMMA NextRetriesApart ==
  ASSUME TurnInv, [RegNext]_regVars PROVE RetriesApart'
<1> SUFFICES ASSUME NEW c \in registerRetries'
             PROVE  c \in drawn' /\ ~Asked(c)' /\ ~Told(c)' /\ ~Begun(c)'
  BY DEF RetriesApart
<1>0. /\ RegTypeOK /\ RefinementInv /\ WireTypeOK /\ RegTypeOK' /\ registeringQueue \subseteq drawn
  BY NextRegType, RegTypeParts DEF TurnInv, ReturnInv, Drawn
<1>1. c \in Channel /\ drawn \subseteq drawn'
  BY <1>0, KeysSettled DEF RegTypeOK
<1>2. OneRegister(c) /\ Advances(c)
  BY <1>1, NextAdvances DEF TurnInv
<1>3. CASE c \in registerRetries
  BY <1>1, <1>2, <1>3 DEF TurnInv, RetriesApart, Advances
<1>4. CASE HandleRegisterError(c) /\ c \in registeringQueue
  <2>1. Received(RegisterReply(c, 500)) /\ UNCHANGED <<phase, toServer>>
    BY <1>4 DEF HandleRegisterError, storeVars
  <2>2. Told(c) /\ ~Told(c)'
    BY <1>0, <1>1, <1>2, <2>1, ReceivedRegister DEF OneRegister
  <2>3. QED
    BY <1>0, <1>1, <1>2, <1>4, <2>1, <2>2 DEF OneRegister, Asked, Begun
<1>5. QED
  BY <1>0, <1>1, <1>3, <1>4, QueueGrows

\* A step that draws no channel makes no two channels of a key active.
LEMMA AloneWithoutDraw ==
  ASSUME TurnInv, [RegNext]_regVars, UNCHANGED <<drawn, overlapped>> PROVE Alone'
<1> SUFFICES ASSUME NEW c \in Channel, NEW d \in Channel, Active(c)', Active(d)',
                    keyOf'[c] = keyOf'[d], keyOf'[c] \notin overlapped'
             PROVE  c = d
  BY DEF Alone
<1>1. Active(c) /\ Active(d)
  BY ComesIntoWork
<1>2. keyOf'[c] = keyOf[c] /\ keyOf'[d] = keyOf[d]
  BY <1>1, ActiveDrawn, KeysSettled DEF TurnInv, ReturnInv, Drawn
<1>3. QED
  BY <1>1, <1>2 DEF TurnInv, Alone

\* One that draws a channel must not draw it for a key with another active channel.
LEMMA AloneWithDraw ==
  ASSUME TurnInv, [RegNext]_regVars, NEW k \in Key, NEW n, Draws(k, n),
         overlapped \subseteq overlapped',
         \A c \in drawn : Active(c) /\ Active(c)' /\ keyOf[c] = k => k \in overlapped'
  PROVE  Alone'
<1> SUFFICES ASSUME NEW c \in Channel, NEW d \in Channel, Active(c)', Active(d)',
                    keyOf'[c] = keyOf'[d], keyOf'[c] \notin overlapped'
             PROVE  c = d
  BY DEF Alone
<1>1. ASSUME NEW e \in Channel, Active(e)'
      PROVE  \/ e = n /\ keyOf'[e] = k
             \/ e \in drawn /\ Active(e) /\ keyOf'[e] = keyOf[e]
  <2>1. CASE Active(e)
    BY <2>1, ActiveDrawn, KeysSettled DEF TurnInv, ReturnInv, Drawn
  <2>2. CASE ~Active(e)
    BY <1>1, <2>2, ComesIntoWork DEF Draws, TurnInv, ReturnInv, RegTypeOK
  <2>3. QED
    BY <2>1, <2>2
<1>2. CASE c \in drawn /\ d \in drawn
  BY <1>1, <1>2 DEF TurnInv, Alone, Draws
<1>3. CASE ~(c \in drawn /\ d \in drawn)
  BY <1>1, <1>3 DEF Draws
<1>4. QED
  BY <1>2, <1>3

\* Before the next attempt begins, the attempt it replaces is over.
LEMMA RetriedIsOver ==
  ASSUME TurnInv, [RegNext]_regVars, NEW d \in Channel, Retried(d)
  PROVE  InWork(d) /\ ~Active(d)' /\ UNCHANGED <<call, overlapped>>
<1>0. /\ RegTypeOK /\ WireTypeOK /\ OneRegister(d) /\ Advances(d) /\ RefinementInv /\ SavingHanded
  BY NextAdvances, RegTypeParts DEF TurnInv, ReturnInv
<1>1. UNCHANGED <<storeVars, call, overlapped>>
  BY DEF Retried, HandleConflict, RetryRegister, history
<1>2. ASSUME HandleConflict(d)
      PROVE  /\ InWork(d) /\ ~Begun(d) /\ d \notin registerRetries'
             /\ ~Asked(d)' /\ ~Told(d)'
  <2>1. Told(d) /\ ~Told(d)'
    BY <1>0, <1>2, ReceivedRegister DEF HandleConflict, OneRegister
  <2>2. d \in registeringQueue /\ d \in drawn
    BY <1>0, <1>2 DEF Retried, Draws, HandleConflict, RetryNow, TurnInv, ReturnInv, Drawn
  <2>3. d \notin registerRetries'
    BY <1>2, <2>1 DEF HandleConflict, TurnInv, RetriesApart
  <2>4. QED
    BY <1>0, <2>1, <2>2, <2>3 DEF OneRegister, Advances, InWork
<1>3. ASSUME RetryRegister(d)
      PROVE  /\ InWork(d) /\ ~Begun(d) /\ d \notin registerRetries'
             /\ ~Asked(d)' /\ ~Told(d)'
  <2>1. d \in registerRetries /\ d \notin registerRetries' /\ UNCHANGED toClient
    BY <1>3 DEF RetryRegister
  <2>2. d \in drawn /\ ~Asked(d) /\ ~Told(d) /\ ~Begun(d)
    BY <2>1 DEF TurnInv, RetriesApart
  <2>3. QED
    BY <1>0, <2>1, <2>2 DEF Advances, InWork, Told
<1>4. InWork(d) /\ ~Begun(d) /\ d \notin registerRetries' /\ ~Asked(d)' /\ ~Told(d)'
  BY <1>2, <1>3 DEF Retried
<1>5. d \notin saving /\ d \notin subscriptions /\ phase[d] = "unused"
  BY <1>0, <1>4 DEF Begun, RefinementInv, Absent, SavingHanded, Handed
<1>6. QED
  BY <1>1, <1>4, <1>5 DEF Active, InWork, storeVars

\* A subscribe that finds no subscription for its key: if a channel of the key is in
\* work, a caller waits for it.
LEMMA FindsNone ==
  ASSUME TurnInv, NEW p \in Caller, NEW k \in Key, SubscribeNew(p, k),
         NEW c \in Channel, Active(c), keyOf[c] = k
  PROVE  k \in overlapped'
<1>1. up /\ WithKey(k) = {} /\ RefinementInv
  BY DEF SubscribeNew, MaySubscribe, Initialized, TurnInv, ReturnInv
<1>2. c \notin subscriptions
  BY <1>1 DEF WithKey
<1>3. phase[c] # "kept"
  BY <1>1, <1>2 DEF RefinementInv, DurabilityInv, Kept, KeptIn
<1>4. InWork(c)
  BY <1>2, <1>3 DEF Active
<1>5. k \in overlapped \/ \E q \in Caller : call[q] = Subscribing(k)
  BY <1>4 DEF TurnInv, Awaited
<1>6. QED
  BY <1>5 DEF SubscribeNew

LEMMA NextAlone == ASSUME TurnInv, [RegNext]_regVars PROVE Alone'
<1>1. CASE Plain
  BY <1>1, AloneWithoutDraw DEF Plain
<1>2. CASE Stop
  BY <1>2, AloneWithoutDraw DEF Stop
<1>3. CASE \E c \in Channel : Registered(c)
  BY <1>3, AloneWithoutDraw DEF Registered, clientVars, history
<1>4. ASSUME NEW d \in Channel, Retried(d) PROVE Alone'
  <2>1. PICK n : Draws(keyOf[d], n)
    BY <1>4 DEF Retried
  <2>2. InWork(d) /\ ~Active(d)' /\ UNCHANGED overlapped
    BY <1>4, RetriedIsOver
  <2>3. keyOf[d] \in Key /\ drawn \subseteq Channel
    BY DEF TurnInv, ReturnInv, RegTypeOK
  <2>4. ASSUME NEW c \in drawn, Active(c), Active(c)', keyOf[c] = keyOf[d]
        PROVE  keyOf[d] \in overlapped'
    BY <2>2, <2>3, <2>4 DEF TurnInv, Alone, Active
  <2>5. QED
    BY <2>1, <2>2, <2>3, <2>4, AloneWithDraw
<1>5. ASSUME NEW p \in Caller, NEW k \in Key, SubscribeNew(p, k) PROVE Alone'
  <2>1. PICK n : Draws(k, n)
    BY <1>5 DEF SubscribeNew, SendRegister, Draws
  <2>2. overlapped \subseteq overlapped'
    BY <1>5 DEF SubscribeNew
  <2>3. drawn \subseteq Channel
    BY DEF TurnInv, ReturnInv, RegTypeOK
  <2>4. QED
    BY <1>5, <2>1, <2>2, <2>3, FindsNone, AloneWithDraw
<1>6. QED
  BY <1>1, <1>2, <1>3, <1>4, <1>5, TurnSteps DEF TurnInv, ReturnInv

LEMMA NextAwaited == ASSUME TurnInv, [RegNext]_regVars PROVE Awaited'
<1> SUFFICES ASSUME NEW c \in Channel, InWork(c)', keyOf'[c] \notin overlapped'
             PROVE  \E p \in Caller : call'[p] = Subscribing(keyOf'[c])
  BY DEF Awaited
<1>0. RegTypeOK /\ keyOf \in [Channel -> Key] /\ call \in [Caller -> Call]
  BY DEF TurnInv, ReturnInv, RegTypeOK
<1>1. \/ c \notin drawn /\ c \in drawn'
      \/ InWork(c) /\ c \in drawn /\ keyOf'[c] = keyOf[c]
  BY ComesIntoWork, ActiveDrawn, KeysSettled DEF TurnInv, ReturnInv, Drawn, Active
<1>2. ASSUME InWork(c), keyOf[c] \notin overlapped
      PROVE  \E p \in Caller : call[p] = Subscribing(keyOf[c])
  BY <1>2 DEF TurnInv, Awaited
<1>3. CASE Plain
  <2>1. \E p \in Caller : call[p] = Subscribing(keyOf[c])
    BY <1>1, <1>2, <1>3 DEF Plain
  <2>2. QED
    BY <1>0, <1>3, <2>1 DEF Plain, StillWaiting
<1>4. ASSUME NEW d \in Channel, Registered(d)
      PROVE  \E p \in Caller : call'[p] = Subscribing(keyOf'[c])
  <2>1. /\ d \in saving /\ saving' = saving \ {d}
        /\ UNCHANGED <<phase, registeringQueue, registerRetries, toServer, toClient>>
        /\ UNCHANGED <<drawn, keyOf, overlapped>>
    BY <1>4 DEF Registered, AddReturn, clientVars, wireVars, history
  <2>2. InWork(c) /\ keyOf[c] \notin overlapped
    BY <1>1, <2>1
  <2>3. phase[d] \in {"kept", "removed"}
    BY <2>1 DEF TurnInv, ReturnInv, SavingHanded, Handed
  <2>4. ~Asked(d) /\ ~Told(d) /\ d \notin registerRetries
    BY <2>3 DEF TurnInv, OneRegister, RetriesApart, Begun
  <2>5. c # d
    BY <2>1, <2>3, <2>4 DEF InWork, Asked, Told
  <2>6. keyOf[c] # keyOf[d]
    BY <2>1, <2>2, <2>5 DEF TurnInv, Alone, Active, InWork
  <2>7. PICK p \in Caller : call[p] = Subscribing(keyOf[c])
    BY <1>2, <2>2
  <2>8. call[p] # Subscribing(keyOf[d])
    BY <2>6, <2>7 DEF Subscribing
  <2>9. call'[p] = call[p]
    BY <1>4, <2>8 DEF Registered, NotifyRegistered
  <2>10. QED
    BY <2>1, <2>7, <2>9
<1>5. CASE Stop
  BY <1>5 DEF Stop, Crash, InWork
<1>6. ASSUME NEW d \in Channel, Retried(d)
      PROVE  \E p \in Caller : call'[p] = Subscribing(keyOf'[c])
  <2>1. PICK n : Draws(keyOf[d], n)
    BY <1>6 DEF Retried
  <2>2. InWork(d) /\ UNCHANGED <<call, overlapped>>
    BY <1>6, RetriedIsOver
  <2>3. CASE c \in drawn
    BY <1>1, <1>2, <2>2, <2>3
  <2>4. CASE c \notin drawn
    <3>1. c = n /\ keyOf'[c] = keyOf[d]
      BY <1>0, <1>1, <2>1, <2>4 DEF Draws
    <3>2. QED
      BY <2>2, <3>1 DEF TurnInv, Awaited
  <2>5. QED
    BY <2>3, <2>4
<1>7. ASSUME NEW p \in Caller, NEW k \in Key, SubscribeNew(p, k)
      PROVE  \E q \in Caller : call'[q] = Subscribing(keyOf'[c])
  <2>1. CASE c \in drawn
    <3>1. PICK q \in Caller : call[q] = Subscribing(keyOf[c])
      BY <1>1, <1>2, <1>7, <2>1 DEF SubscribeNew
    <3>2. q # p
      BY <1>7, <3>1 DEF SubscribeNew, MaySubscribe, Subscribing
    <3>3. call'[q] = call[q]
      BY <1>0, <1>7, <3>2 DEF SubscribeNew, Resolve
    <3>4. QED
      BY <1>1, <2>1, <3>1, <3>3
  <2>2. CASE c \notin drawn
    <3>1. keyOf'[c] = k
      BY <1>0, <1>1, <1>7, <2>2 DEF SubscribeNew, SendRegister
    <3>2. websocket = "open"
      <4>1. OneRegister(c) /\ UNCHANGED <<phase, saving, registerRetries, toClient>>
        BY <1>7 DEF TurnInv, SubscribeNew, storeVars
      <4>2. ~Asked(c) /\ ~Told(c) /\ phase[c] = "unused" /\ c \notin registerRetries
        BY <2>2, <4>1 DEF OneRegister, Begun, TurnInv, RetriesApart
      <4>3. c \notin saving
        BY <4>2 DEF TurnInv, ReturnInv, SavingHanded, Handed
      <4>4. Asked(c)'
        BY <4>1, <4>2, <4>3 DEF InWork, Told
      <4>5. websocket # "open" => UNCHANGED toServer
        BY <1>7 DEF SubscribeNew, SendRegister, Send
      <4>6. QED
        BY <4>2, <4>4, <4>5 DEF Asked
    <3>3. call'[p] = Subscribing(k)
      BY <1>0, <1>7, <3>2 DEF SubscribeNew, Resolve
    <3>4. QED
      BY <3>1, <3>3
  <2>3. QED
    BY <2>1, <2>2
<1>8. QED
  BY <1>0, <1>3, <1>4, <1>5, <1>6, <1>7, TurnSteps

LEMMA InitTurn == RegInit => TurnInv
<1> SUFFICES ASSUME RegInit PROVE TurnInv
  OBVIOUS
<1>1. ReturnInv /\ \A c \in Channel : OneRegister(c)
  BY InitReturn, InitOneRegister
<1>2. \A c \in Channel : ~InWork(c) /\ ~Active(c)
  BY DEF RegInit, StoreInit, Active, InWork
<1>3. RetriesApart
  BY DEF RegInit, RetriesApart
<1>4. QED
  BY <1>1, <1>2, <1>3 DEF TurnInv, Alone, Awaited

LEMMA NextTurn == TurnInv /\ [RegNext]_regVars => TurnInv'
<1> SUFFICES ASSUME TurnInv, [RegNext]_regVars PROVE TurnInv'
  OBVIOUS
<1>1. ReturnInv' /\ \A c \in Channel : OneRegister(c)'
  BY NextReturn, NextOneRegister DEF TurnInv
<1>2. QED
  BY <1>1, NextRetriesApart, NextAlone, NextAwaited DEF TurnInv

\* Of a key whose subscribes were made one after the other there is never more than
\* one subscription, through conflicts, errors, retries, expired waits, lost
\* connections and restarts (push-manager.ts:97-111).
THEOREM OneSubscriptionInTurn == RegSpec => []OnePerKeyInTurn
<1>1. TurnInv => OnePerKeyInTurn
  BY DEF TurnInv, ReturnInv, RegTypeOK, TypeOK, Alone, Active, OnePerKeyInTurn
<1>2. QED
  BY InitTurn, NextTurn, <1>1, PTL DEF RegSpec
=============================================================================
