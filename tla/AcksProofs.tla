----------------------------- MODULE AcksProofs -----------------------------
(***************************************************************************)
(* Theorems about Acks, for any number of notifications, closes and stops. *)
(***************************************************************************)
EXTENDS Acks, FiniteSetTheorems, TLAPS

(* Every action keeps the types. *)

LEMMA AckType ==
  ASSUME ackQueue \in Seq(Update), NEW v \in Version, NEW code \in ClientAckCodes, Ack(v, code)
  PROVE  ackQueue' \in Seq(Update)
<1>1. [version |-> v, code |-> code] \in Update
  BY DEF Update
<1> QED
  BY <1>1 DEF Ack

LEMMA DispatchType ==
  ASSUME ackQueue \in Seq(Update), delivered \subseteq Version, NEW v \in Version, Dispatch(v)
  PROVE  ackQueue' \in Seq(Update) /\ delivered' \subseteq Version
<1>1. \E code \in ClientAckCodes : Ack(v, code)
  BY DEF Dispatch, ClientAckCodes
<1>2. delivered' \subseteq Version
  BY DEF Dispatch
<1> QED
  BY <1>1, <1>2, AckType

\* Each counter of a version stays a number.
LEMMA Counting ==
  ASSUME NEW f \in [Version -> Nat], NEW v \in Version
  PROVE  /\ [f EXCEPT ![v] = @ + 1] \in [Version -> Nat]
         /\ f[v] > 0 => [f EXCEPT ![v] = @ - 1] \in [Version -> Nat]
OBVIOUS

LEMMA ReceiveType ==
  ASSUME AcksTypeOK, NEW v \in Version, Receive(v)
  PROVE  /\ toClient' \in Seq(Version) /\ received' \in [Version -> Nat]
         /\ UNCHANGED <<websocket, subscription, listening, ticking, serverVars, toServer, sent,
                      closes>>
<1>1. toClient' \in Seq(Version)
  BY DEF AcksTypeOK, Receive
<1>2. received' \in [Version -> Nat]
  <2>1. received \in [Version -> Nat] /\ received' = [received EXCEPT ![v] = @ + 1]
    BY DEF AcksTypeOK, Receive
  <2> QED
    BY <2>1, Counting
<1> QED
  BY <1>1, <1>2 DEF Receive

\* Queues only grow at their end or lose their head.
LEMMA Queues ==
  ASSUME NEW S, NEW q \in Seq(S), NEW e \in S
  PROVE  /\ Append(q, e) \in Seq(S)
         /\ q # <<>> => Tail(q) \in Seq(S) /\ Head(q) \in S
         /\ <<>> \in Seq(S)
OBVIOUS

LEMMA Appended ==
  ASSUME NEW S, NEW q \in Seq(S), NEW e \in S
  PROVE  \A i \in DOMAIN Append(q, e) :
           Append(q, e)[i] = e \/ (i \in DOMAIN q /\ Append(q, e)[i] = q[i])
OBVIOUS

LEMMA AcksOfType ==
  ASSUME NEW v \in Version, NEW q \in Seq(Update)
  PROVE  AcksOf(v, q) \in Nat
<1>1. IsFiniteSet(1 .. Len(q))
  BY FS_Interval
<1>2. IsFiniteSet({i \in DOMAIN q : q[i].version = v})
  BY <1>1, FS_Subset
<1> QED
  BY <1>2, FS_CardinalityType DEF AcksOf

LEMMA AcksTypeInit == AcksInit => AcksTypeOK
<1> SUFFICES ASSUME AcksInit PROVE AcksTypeOK
  OBVIOUS
<1>1. toClient \in Seq(Version) /\ ackQueue \in Seq(Update) /\ toServer \in Seq(Seq(Update))
  BY DEF AcksInit
<1>2. closes \in 0 .. MaxCloses
  BY AcksAssumption DEF AcksInit
<1>3. /\ data \in [Version -> Data] /\ decrypting \in [Version -> Nat]
      /\ received \in [Version -> Nat] /\ sent \in [Version -> Nat]
  BY DEF AcksInit
<1>4. /\ kept \subseteq Version /\ offered \subseteq Version /\ acked \subseteq Update
      /\ delivered \subseteq Version /\ unattended \subseteq Version
  BY DEF AcksInit
<1> QED
  BY <1>1, <1>2, <1>3, <1>4 DEF AcksInit, AcksTypeOK

LEMMA AcksTypeStep ==
  ASSUME AcksTypeOK, [AcksNext]_ackVars
  PROVE  AcksTypeOK'
<1> USE DEF AcksTypeOK
<1>1. ASSUME NEW v \in Version, HandleUnknown(v) PROVE AcksTypeOK'
  <2>1. ackQueue' \in Seq(Update)
    BY <1>1, AckType DEF HandleUnknown, ClientAckCodes
  <2> QED
    BY <1>1, <2>1, ReceiveType DEF HandleUnknown, serverVars
<1>2. ASSUME NEW v \in Version, HandleAtOnce(v) PROVE AcksTypeOK'
  <2>1. ackQueue' \in Seq(Update) /\ delivered' \subseteq Version
    <3>1. CASE Dispatch(v)
      BY <3>1, DispatchType
    <3>2. CASE Ack(v, "DECRYPT_FAIL") /\ UNCHANGED delivered
      BY <3>2, AckType DEF ClientAckCodes
    <3> QED
      BY <1>2, <3>1, <3>2 DEF HandleAtOnce
  <2> QED
    BY <1>2, <2>1, ReceiveType DEF HandleAtOnce, Unattended, serverVars
<1>3. ASSUME NEW v \in Version, HandleData(v) PROVE AcksTypeOK'
  <2>1. decrypting' \in [Version -> Nat]
    BY <1>3, Counting DEF HandleData
  <2> QED
    BY <1>3, <2>1, ReceiveType DEF HandleData, Unattended, serverVars
<1>4. ASSUME NEW v \in Version, Decrypted(v) PROVE AcksTypeOK'
  <2>1. ackQueue' \in Seq(Update) /\ delivered' \subseteq Version
    <3>1. CASE Dispatch(v)
      BY <3>1, DispatchType
    <3>2. CASE Ack(v, "DECRYPT_FAIL") /\ UNCHANGED delivered
      BY <3>2, AckType DEF ClientAckCodes
    <3> QED
      BY <1>4, <3>1, <3>2 DEF Decrypted
  <2>2. decrypting' \in [Version -> Nat]
    BY <1>4, Counting DEF Decrypted
  <2> QED
    BY <1>4, <2>1, <2>2 DEF Decrypted, serverVars, wire
<1>5. ASSUME SendAck PROVE AcksTypeOK'
  <2>1. toServer' \in Seq(Seq(Update)) /\ sent' \in [Version -> Nat]
    <3>1. CASE websocket = "open"
      <4>1. \A v \in Version : sent[v] + AcksOf(v, ackQueue) \in Nat
        BY AcksOfType
      <4>2. toServer' = Append(toServer, ackQueue)
            /\ sent' = [v \in Version |-> sent[v] + AcksOf(v, ackQueue)]
        BY <1>5, <3>1 DEF SendAck, TrySend
      <4>3. toServer' \in Seq(Seq(Update))
        BY <4>2
      <4>4. sent' \in [Version -> Nat]
        BY <4>1, <4>2
      <4> QED
        BY <4>3, <4>4
    <3> QED
      BY <1>5, <3>1 DEF SendAck, TrySend
  <2> QED
    BY <1>5, <2>1 DEF SendAck, EmptyQueue, serverVars
<1>6. ASSUME Destroy PROVE AcksTypeOK'
  <2>1. closes' \in 0 .. MaxCloses /\ websocket' \in {"none", "closing"} /\ ticking' = FALSE
    BY <1>6, AcksAssumption DEF Destroy
  <2> QED
    BY <1>6, <2>1 DEF Destroy, serverVars, wire
<1>7. ASSUME Inserted \/ Listens \/ StopsListening \/ Removed PROVE AcksTypeOK'
  BY <1>7 DEF Inserted, Listens, StopsListening, Removed, Unattended, serverVars, wire
<1>8. ASSUME Connect \/ Open \/ Closed PROVE AcksTypeOK'
  <2>1. CASE Connect
    BY <2>1 DEF Connect, clientVars, serverVars, wire
  <2>2. CASE Open
    BY <2>2 DEF Open, clientVars, wire
  <2>3. CASE Closed
    <3>1. toClient' \in Seq(Version) /\ toServer' \in Seq(Seq(Update))
      BY <2>3 DEF Closed
    <3> QED
      BY <2>3, <3>1 DEF Closed, clientVars, serverVars
  <2> QED
    BY <1>8, <2>1, <2>2, <2>3
<1>9. ASSUME Close PROVE AcksTypeOK'
  <2>1. toClient' \in Seq(Version) /\ toServer' \in Seq(Seq(Update))
    BY <1>9 DEF Close
  <2>2. closes' \in 0 .. MaxCloses /\ websocket' \in {"none", "closed"}
    BY <1>9, AcksAssumption DEF Close
  <2> QED
    BY <1>9, <2>1, <2>2 DEF Close, clientVars, serverVars
<1>10. ASSUME Restart PROVE AcksTypeOK'
  <2>1. /\ toClient' \in Seq(Version) /\ toServer' \in Seq(Seq(Update))
        /\ ackQueue' \in Seq(Update)
    BY <1>10 DEF Restart
  <2>2. /\ closes' \in 0 .. MaxCloses /\ decrypting' \in [Version -> Nat]
        /\ subscription' \in {"none", "live", "gone"}
    BY <1>10, AcksAssumption DEF Restart
  <2> QED
    BY <1>10, <2>1, <2>2 DEF Restart, serverVars
<1>11. ASSUME NEW v \in Version, ServerNotifies(v) PROVE AcksTypeOK'
  BY <1>11 DEF ServerNotifies, clientVars
<1>12. ASSUME ServerAcked PROVE AcksTypeOK'
  <2>1. toServer' \in Seq(Seq(Update)) /\ Head(toServer) \in Seq(Update)
    BY <1>12 DEF ServerAcked
  <2>2. {Head(toServer)[i] : i \in DOMAIN Head(toServer)} \subseteq Update
    BY <2>1
  <2>3. acked' \subseteq Update /\ kept' \subseteq Version
    BY <1>12, <2>2 DEF ServerAcked
  <2> QED
    BY <1>12, <2>1, <2>3 DEF ServerAcked, clientVars
<1>13. ASSUME UNCHANGED ackVars PROVE AcksTypeOK'
  BY <1>13 DEF ackVars, clientVars, serverVars, wire
<1> QED
  BY <1>1, <1>2, <1>3, <1>4, <1>5, <1>6, <1>7, <1>8, <1>9, <1>10, <1>11, <1>12, <1>13
     DEF AcksNext, Handle

\* The queue, the wire and the counters are well-formed in every reachable state.
THEOREM AcksTypeCorrect == AcksSpec => []AcksTypeOK
<1> QED
  BY AcksTypeInit, AcksTypeStep, PTL DEF AcksSpec

-----------------------------------------------------------------------------
(* SUCCESS is true of what somebody attends to *)

\* Every SUCCESS that is queued, under way or received is accounted for, and for what is
\* being decrypted somebody listens, or it counts as unattended.
True(u, accounted) == u.code = "SUCCESS" => u.version \in accounted

Attended ==
  \A v \in Version : decrypting[v] > 0 /\ data[v] = "valid" => listening \/ v \in unattended

SuccessInv ==
  /\ Attended
  /\ \A i \in DOMAIN ackQueue : True(ackQueue[i], delivered \cup unattended)
  /\ \A i \in DOMAIN toServer :
       \A j \in DOMAIN toServer[i] : True(toServer[i][j], delivered \cup unattended)
  /\ \A u \in acked : True(u, delivered \cup unattended)

LEMMA SuccessInit == AcksInit => SuccessInv
BY DEF AcksInit, SuccessInv, Attended

\* What queues a true ack, and only adds to what is accounted for, keeps the others true.
LEMMA TrueAck ==
  ASSUME AcksTypeOK, SuccessInv, Attended', UNCHANGED <<toServer, acked>>,
         delivered \subseteq delivered', unattended \subseteq unattended',
         NEW v \in Version, NEW code \in ClientAckCodes, Ack(v, code),
         code = "SUCCESS" => v \in delivered' \cup unattended'
  PROVE  SuccessInv'
<1> DEFINE u == [version |-> v, code |-> code]
<1>1. u.version = v /\ u.code = code /\ ackQueue' = Append(ackQueue, u)
  BY DEF Ack
<1> HIDE DEF u
<1>2. \A i \in DOMAIN ackQueue' : True(ackQueue'[i], delivered' \cup unattended')
  <2> SUFFICES ASSUME NEW i \in DOMAIN ackQueue'
               PROVE  True(ackQueue'[i], delivered' \cup unattended')
    OBVIOUS
  <2>0. ackQueue \in Seq(Update) /\ u \in Update
    BY DEF AcksTypeOK, Update, u
  <2>1. ackQueue'[i] = u \/ (i \in DOMAIN ackQueue /\ ackQueue'[i] = ackQueue[i])
    BY <1>1, <2>0
  <2> QED
    BY <1>1, <2>1 DEF SuccessInv, True
<1> QED
  BY <1>2 DEF SuccessInv, Attended, True

LEMMA TrueDispatch ==
  ASSUME AcksTypeOK, SuccessInv, Attended', UNCHANGED <<toServer, acked>>,
         unattended \subseteq unattended',
         NEW v \in Version, Dispatch(v), listening \/ v \in unattended'
  PROVE  SuccessInv'
<1>1. PICK code \in ClientAckCodes :
         Ack(v, code) /\ (code = "SUCCESS" => v \in delivered' \cup unattended')
  BY DEF Dispatch, ClientAckCodes
<1>2. delivered \subseteq delivered'
  BY DEF Dispatch
<1> QED
  BY <1>1, <1>2, TrueAck

\* What only adds to what is accounted for, and queues, sends and delivers nothing.
LEMMA NothingAcked ==
  ASSUME SuccessInv, Attended', ackQueue' \in {ackQueue, <<>>}, toServer' \in {toServer, <<>>},
         acked' = acked, delivered' = delivered, unattended \subseteq unattended'
  PROVE  SuccessInv'
BY DEF SuccessInv, Attended, True

LEMMA SuccessStep ==
  ASSUME AcksTypeOK, SuccessInv, [AcksNext]_ackVars
  PROVE  SuccessInv'
<1>0. Attended
  BY DEF SuccessInv
<1>1. ASSUME NEW v \in Version, HandleUnknown(v) PROVE SuccessInv'
  <2>1. /\ UNCHANGED <<listening, data, toServer, acked, delivered, decrypting, unattended>>
        /\ Ack(v, "OTHER_FAIL")
    BY <1>1 DEF HandleUnknown, Receive, serverVars
  <2> QED
    BY <1>0, <2>1, TrueAck DEF ClientAckCodes, Attended
<1>2. ASSUME NEW v \in Version, HandleAtOnce(v) PROVE SuccessInv'
  <2>1. /\ UNCHANGED <<listening, data, toServer, acked, decrypting>>
        /\ unattended \subseteq unattended'
    BY <1>2 DEF HandleAtOnce, Receive, Unattended, serverVars
  <2>2. Attended'
    BY <1>0, <2>1 DEF Attended
  <2>3. ASSUME data[v] = "none", Dispatch(v) PROVE SuccessInv'
    <3>1. listening \/ v \in unattended'
      BY <1>2, <2>1, <2>3 DEF HandleAtOnce, Unattended
    <3> QED
      BY <2>1, <2>2, <2>3, <3>1, TrueDispatch
  <2>4. ASSUME Ack(v, "DECRYPT_FAIL"), UNCHANGED delivered PROVE SuccessInv'
    BY <2>1, <2>2, <2>4, TrueAck DEF ClientAckCodes
  <2> QED
    BY <1>2, <2>3, <2>4 DEF HandleAtOnce
<1>3. ASSUME NEW v \in Version, HandleData(v) PROVE SuccessInv'
  <2>1. /\ UNCHANGED <<listening, data, toServer, acked, ackQueue, delivered>>
        /\ unattended \subseteq unattended'
        /\ listening \/ data[v] # "valid" \/ v \in unattended'
    BY <1>3 DEF HandleData, Receive, Unattended, serverVars
  <2>2. \A w \in Version : w # v => decrypting'[w] = decrypting[w]
    BY <1>3 DEF HandleData, AcksTypeOK
  <2>3. Attended'
    BY <1>0, <2>1, <2>2 DEF Attended
  <2> QED
    BY <2>1, <2>3, NothingAcked
<1>4. ASSUME NEW v \in Version, Decrypted(v) PROVE SuccessInv'
  <2>1. /\ UNCHANGED <<listening, data, toServer, acked, unattended>>
        /\ decrypting[v] > 0
    BY <1>4 DEF Decrypted, serverVars, wire
  <2>2. \A w \in Version : w # v => decrypting'[w] = decrypting[w]
    BY <1>4 DEF Decrypted, AcksTypeOK
  <2>3. Attended'
    BY <1>0, <2>1, <2>2 DEF Attended
  <2>4. ASSUME data[v] = "valid", Dispatch(v) PROVE SuccessInv'
    <3>1. listening \/ v \in unattended'
      BY <1>0, <2>1, <2>4 DEF Attended
    <3> QED
      BY <2>1, <2>3, <2>4, <3>1, TrueDispatch
  <2>5. ASSUME Ack(v, "DECRYPT_FAIL"), UNCHANGED delivered PROVE SuccessInv'
    BY <2>1, <2>3, <2>5, TrueAck DEF ClientAckCodes
  <2> QED
    BY <1>4, <2>4, <2>5 DEF Decrypted
<1>5. ASSUME SendAck PROVE SuccessInv'
  <2>1. UNCHANGED <<listening, data, decrypting, acked, delivered, unattended>>
        /\ ackQueue' = <<>>
    BY <1>5 DEF SendAck, EmptyQueue, serverVars
  <2>2. toServer' = toServer \/ toServer' = Append(toServer, ackQueue)
    BY <1>5 DEF SendAck, TrySend
  <2>3. \A i \in DOMAIN toServer' :
          \A j \in DOMAIN toServer'[i] : True(toServer'[i][j], delivered \cup unattended)
    <3>1. CASE toServer' = toServer
      BY <3>1 DEF SuccessInv
    <3>2. CASE toServer' = Append(toServer, ackQueue)
      <4>1. \A i \in DOMAIN toServer' :
              toServer'[i] = ackQueue \/ (i \in DOMAIN toServer /\ toServer'[i] = toServer[i])
        <5>1. toServer \in Seq(Seq(Update)) /\ ackQueue \in Seq(Update)
          BY DEF AcksTypeOK
        <5> QED
          BY <3>2, <5>1, Appended
      <4> QED
        BY <4>1 DEF SuccessInv
    <3> QED
      BY <2>2, <3>1, <3>2
  <2> QED
    BY <2>1, <2>3 DEF SuccessInv, Attended, True
<1>6. ASSUME Destroy \/ Inserted \/ Listens \/ Removed PROVE SuccessInv'
  <2>1. UNCHANGED <<data, decrypting, ackQueue, toServer, acked, delivered, unattended>>
        /\ (listening => listening')
    BY <1>6 DEF Destroy, Inserted, Listens, Removed, serverVars, wire
  <2>2. Attended'
    BY <1>0, <2>1 DEF Attended
  <2> QED
    BY <2>1, <2>2, NothingAcked
<1>7. ASSUME StopsListening PROVE SuccessInv'
  <2>1. /\ UNCHANGED <<data, decrypting, ackQueue, toServer, acked, delivered>>
        /\ unattended \subseteq unattended'
        /\ \A v \in Version : decrypting[v] > 0 /\ data[v] = "valid" => v \in unattended'
    BY <1>7 DEF StopsListening, Unattended, serverVars, wire
  <2>2. Attended'
    BY <2>1 DEF Attended
  <2> QED
    BY <2>1, <2>2, NothingAcked
<1>8. ASSUME Connect \/ Open \/ Close \/ Closed PROVE SuccessInv'
  <2>1. /\ UNCHANGED <<data, decrypting, listening, ackQueue, acked, delivered, unattended>>
        /\ toServer' \in {toServer, <<>>}
    BY <1>8 DEF Connect, Open, Close, Closed, clientVars, serverVars, wire
  <2>2. Attended'
    BY <1>0, <2>1 DEF Attended
  <2> QED
    BY <2>1, <2>2, NothingAcked
<1>9. ASSUME Restart PROVE SuccessInv'
  <2>1. Attended'
    BY <1>9 DEF Restart, Attended
  <2>2. /\ UNCHANGED <<acked, delivered, unattended>>
        /\ ackQueue' = <<>> /\ toServer' = <<>>
    BY <1>9 DEF Restart, serverVars
  <2> QED
    BY <2>1, <2>2, NothingAcked
<1>10. ASSUME NEW v \in Version, ServerNotifies(v) PROVE SuccessInv'
  <2>1. UNCHANGED <<data, decrypting, listening, ackQueue, toServer, acked, delivered, unattended>>
    BY <1>10 DEF ServerNotifies, clientVars
  <2>2. Attended'
    BY <1>0, <2>1 DEF Attended
  <2> QED
    BY <2>1, <2>2, NothingAcked
<1>11. ASSUME ServerAcked PROVE SuccessInv'
  <2> DEFINE head == Head(toServer)
  <2>1. /\ UNCHANGED <<data, listening, decrypting, ackQueue, delivered, unattended>>
        /\ toServer' = Tail(toServer) /\ toServer # <<>>
        /\ acked' = acked \cup {head[i] : i \in DOMAIN head}
    BY <1>11 DEF ServerAcked, clientVars
  <2>2. head = toServer[1] /\ 1 \in DOMAIN toServer
        /\ \A i \in DOMAIN toServer' : i + 1 \in DOMAIN toServer /\ toServer'[i] = toServer[i + 1]
    BY <2>1 DEF AcksTypeOK
  <2> HIDE DEF head
  <2> QED
    BY <2>1, <2>2 DEF SuccessInv, Attended, True
<1>12. ASSUME UNCHANGED ackVars PROVE SuccessInv'
  BY <1>12 DEF ackVars, clientVars, serverVars, wire, SuccessInv, Attended, True
<1> QED
  BY <1>1, <1>2, <1>3, <1>4, <1>5, <1>6, <1>7, <1>8, <1>9, <1>10, <1>11, <1>12
     DEF AcksNext, Handle

\* The server is told SUCCESS only for what a listener has received without throwing, or
\* for what had nobody listening at some time from its receipt to its dispatch
\* (notification-handler.ts:37-53, push-subscription.ts:145-161).
THEOREM SuccessIsDelivered == AcksSpec => []SuccessIsTrue
<1>1. SuccessInv => SuccessIsTrue
  BY DEF SuccessInv, True, SuccessIsTrue
<1> QED
  BY <1>1, AcksTypeInit, AcksTypeStep, SuccessInit, SuccessStep, PTL DEF AcksSpec

-----------------------------------------------------------------------------
(* No spare acks *)

LEMMA AcksOfEmpty == \A v \in Version : AcksOf(v, <<>>) = 0
<1> SUFFICES ASSUME NEW v \in Version PROVE AcksOf(v, <<>>) = 0
  OBVIOUS
<1>1. {i \in DOMAIN <<>> : <<>>[i].version = v} = {}
  OBVIOUS
<1> QED
  BY <1>1, FS_EmptySet DEF AcksOf

LEMMA AcksOfAppend ==
  ASSUME NEW v \in Version, NEW q \in Seq(Update), NEW u \in Update
  PROVE  AcksOf(v, Append(q, u)) = AcksOf(v, q) + (IF u.version = v THEN 1 ELSE 0)
<1> DEFINE n == Len(q) + 1
           before == {i \in DOMAIN q : q[i].version = v}
           after == {i \in DOMAIN Append(q, u) : Append(q, u)[i].version = v}
<1>1. DOMAIN q = 1 .. Len(q) /\ DOMAIN Append(q, u) = 1 .. n /\ Len(q) \in Nat
      /\ Append(q, u)[n] = u /\ \A i \in 1 .. Len(q) : Append(q, u)[i] = q[i]
  OBVIOUS
<1>2. n \notin before /\ IsFiniteSet(before)
  <2>1. IsFiniteSet(1 .. Len(q))
    BY FS_Interval
  <2>2. n \notin 1 .. Len(q)
    BY <1>1
  <2> QED
    BY <1>1, <2>1, <2>2, FS_Subset
<1>3. after = IF u.version = v THEN before \cup {n} ELSE before
  BY <1>1
<1>4. Cardinality(before) \in Nat
  BY <1>2, FS_CardinalityType
<1> HIDE DEF before, after, n
<1>5. Cardinality(before \cup {n}) = Cardinality(before) + 1
  BY <1>2, FS_AddElement
<1>6. Cardinality(after) = Cardinality(before) + (IF u.version = v THEN 1 ELSE 0)
  BY <1>3, <1>4, <1>5
<1> QED
  BY <1>6 DEF AcksOf, before, after

\* One more ack in the queue, for v.
LEMMA OneMore ==
  ASSUME AcksTypeOK, NEW v \in Version, NEW code \in ClientAckCodes, Ack(v, code), NEW w \in Version
  PROVE  AcksOf(w, ackQueue') = AcksOf(w, ackQueue) + (IF w = v THEN 1 ELSE 0)
<1> DEFINE u == [version |-> v, code |-> code]
<1>1. u \in Update /\ u.version = v /\ ackQueue' = Append(ackQueue, u) /\ ackQueue \in Seq(Update)
  BY DEF AcksTypeOK, Update, Ack
<1> HIDE DEF u
<1>2. AcksOf(w, Append(ackQueue, u)) = AcksOf(w, ackQueue) + (IF u.version = w THEN 1 ELSE 0)
  BY <1>1, AcksOfAppend
<1> QED
  BY <1>1, <1>2

LEMMA DispatchAcks ==
  ASSUME NEW v \in Version, Dispatch(v)
  PROVE  \E code \in ClientAckCodes : Ack(v, code)
BY DEF Dispatch, ClientAckCodes

LEMMA NoSpareInit == AcksInit => NoSpareAcks
BY AcksOfEmpty DEF AcksInit, NoSpareAcks, AcksUnderWay

LEMMA NoSpareStep ==
  ASSUME AcksTypeOK, NoSpareAcks, [AcksNext]_ackVars
  PROVE  NoSpareAcks'
<1> SUFFICES ASSUME NEW w \in Version
             PROVE  decrypting'[w] + AcksOf(w, ackQueue') + sent'[w] <= received'[w]
  BY DEF NoSpareAcks, AcksUnderWay
<1>0. /\ decrypting \in [Version -> Nat] /\ sent \in [Version -> Nat] /\ received \in [Version -> Nat]
      /\ AcksOf(w, ackQueue) \in Nat
      /\ decrypting[w] + AcksOf(w, ackQueue) + sent[w] <= received[w]
  BY AcksOfType DEF AcksTypeOK, NoSpareAcks, AcksUnderWay
<1> DEFINE Goal == decrypting'[w] + AcksOf(w, ackQueue') + sent'[w] <= received'[w]
           One(v) == IF w = v THEN 1 ELSE 0
<1>a. ASSUME NEW v \in Version, Receive(v), NEW code \in ClientAckCodes, Ack(v, code),
             UNCHANGED decrypting
      PROVE  Goal
  <2>1. AcksOf(w, ackQueue') = AcksOf(w, ackQueue) + One(v)
    BY <1>a, OneMore
  <2>2. received'[w] = received[w] + One(v) /\ sent' = sent
    BY <1>0, <1>a DEF Receive
  <2> QED
    BY <1>0, <1>a, <2>1, <2>2
<1>1. ASSUME NEW v \in Version, HandleUnknown(v) PROVE Goal
  BY <1>1, <1>a DEF HandleUnknown, ClientAckCodes
<1>2. ASSUME NEW v \in Version, HandleAtOnce(v) PROVE Goal
  <2>1. PICK code \in ClientAckCodes : Ack(v, code)
    BY <1>2, DispatchAcks DEF HandleAtOnce, ClientAckCodes
  <2> QED
    BY <1>2, <1>a, <2>1 DEF HandleAtOnce
<1>3. ASSUME NEW v \in Version, HandleData(v) PROVE Goal
  <2>1. ackQueue' = ackQueue /\ sent' = sent
    BY <1>3 DEF HandleData, Receive
  <2>2. received'[w] = received[w] + One(v) /\ decrypting'[w] = decrypting[w] + One(v)
    BY <1>0, <1>3 DEF HandleData, Receive
  <2> QED
    BY <1>0, <2>1, <2>2
<1>4. ASSUME NEW v \in Version, Decrypted(v) PROVE Goal
  <2>1. PICK code \in ClientAckCodes : Ack(v, code)
    BY <1>4, DispatchAcks DEF Decrypted, ClientAckCodes
  <2>2. AcksOf(w, ackQueue') = AcksOf(w, ackQueue) + One(v)
    BY <2>1, OneMore
  <2>3. received' = received /\ sent' = sent /\ decrypting'[w] = decrypting[w] - One(v)
    BY <1>0, <1>4 DEF Decrypted
  <2> QED
    BY <1>0, <2>2, <2>3
<1>5. ASSUME SendAck PROVE Goal
  <2>1. decrypting' = decrypting /\ received' = received /\ AcksOf(w, ackQueue') = 0
    BY <1>5, AcksOfEmpty DEF SendAck, EmptyQueue
  <2>2. sent'[w] = sent[w] \/ sent'[w] = sent[w] + AcksOf(w, ackQueue)
    BY <1>5 DEF SendAck, TrySend
  <2> QED
    BY <1>0, <2>1, <2>2
<1>6. ASSUME UNCHANGED <<decrypting, ackQueue, sent, received>> PROVE Goal
  BY <1>0, <1>6
<1>7. ASSUME \/ Destroy \/ Inserted \/ Listens \/ StopsListening \/ Removed
             \/ Connect \/ Open \/ Close \/ Closed \/ ServerAcked
      PROVE  Goal
  BY <1>6, <1>7 DEF Destroy, Inserted, Listens, StopsListening, Removed, Connect, Open, Close,
                    Closed, ServerAcked, clientVars
<1>8. ASSUME Restart PROVE Goal
  <2>1. decrypting'[w] = 0 /\ AcksOf(w, ackQueue') = 0 /\ sent' = sent /\ received' = received
    BY <1>8, AcksOfEmpty DEF Restart
  <2> QED
    BY <1>0, <2>1
<1>9. ASSUME NEW v \in Version, ServerNotifies(v) PROVE Goal
  BY <1>6, <1>9 DEF ServerNotifies, clientVars
<1>10. ASSUME UNCHANGED ackVars PROVE Goal
  BY <1>6, <1>10 DEF ackVars, clientVars
<1> QED
  BY <1>1, <1>2, <1>3, <1>4, <1>5, <1>7, <1>8, <1>9, <1>10 DEF AcksNext, Handle

\* No receipt of a notification is acked twice, in whatever order decryptions end, the
\* interval fires and connections close (message-mediator.ts:127-143).
THEOREM NoReceiptIsAckedTwice == AcksSpec => []NoSpareAcks
<1> QED
  BY AcksTypeInit, AcksTypeStep, NoSpareInit, NoSpareStep, PTL DEF AcksSpec
=============================================================================
