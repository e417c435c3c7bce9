--------------------------- MODULE DeliveryProofs ---------------------------
(* Of the dispatch of notifications, for any number of listeners, and of what is        *)
(* decrypted, dispatched and refused, for any letters, keys and restarts.               *)
EXTENDS Delivery, PayloadProofs

\* A set of natural numbers has a least element.
LEMMA Least ==
  ASSUME NEW T \in SUBSET Nat, T # {}
  PROVE  \E x \in T : \A y \in T : x <= y
<1> DEFINE LessThan == {ss \in Nat \X Nat : ss[1] < ss[2]}
<1>1. IsWellFoundedOn(LessThan, Nat)
  BY NatLessThanWellFounded DEF OpToRel
<1>2. \A x, y \in Nat : <<y, x>> \notin LessThan => x <= y
  OBVIOUS
<1> HIDE DEF LessThan
<1>3. PICK x \in T : \A y \in T : ~(<<y, x>> \in LessThan)
  BY <1>1, WFMin
<1>4. \A y \in T : x <= y
  BY <1>2, <1>3
<1> QED
  BY <1>4

\* Sequences over a set.
LEMMA EmptyIsSeq == ASSUME NEW S PROVE <<>> \in Seq(S)
OBVIOUS

LEMMA SeqElements == ASSUME NEW S, NEW s \in Seq(S) PROVE \A i \in DOMAIN s : s[i] \in S
OBVIOUS

LEMMA AppendToLarger ==
  ASSUME NEW S, NEW T, S \subseteq T, NEW s \in Seq(S), NEW x \in T
  PROVE  Append(s, x) \in Seq(T)
<1>1. s \in Seq(T)
  OBVIOUS
<1> QED
  BY <1>1

-----------------------------------------------------------------------------
(* EventManager *)

\* The iteration goes from the earlier to the later registration.
InOrder == \A i, j \in DOMAIN calls : i < j => calls[i] < calls[j]

\* What the iteration has passed it has called.
PassedAreCalled == dispatching => \A l \in expected \cap callbacks : l <= Cursor => l \in Called

EventInv == EventTypeOK /\ InOrder /\ PassedAreCalled /\ ReachesAll

\* The last call is the latest.
LEMMA CursorIsLargest ==
  ASSUME EventTypeOK, InOrder
  PROVE  /\ Cursor \in 0 .. added
         /\ \A i \in DOMAIN calls : calls[i] <= Cursor
<1>1. CASE calls = <<>>
  BY <1>1 DEF EventTypeOK, Cursor
<1>2. CASE calls # <<>>
  <2>1. Len(calls) \in DOMAIN calls /\ calls[Len(calls)] \in 1 .. added
    BY <1>2 DEF EventTypeOK
  <2>2. \A i \in DOMAIN calls : calls[i] \in 1 .. added /\ (i = Len(calls) \/ i < Len(calls))
    BY DEF EventTypeOK
  <2> QED
    BY <1>2, <2>1, <2>2 DEF Cursor, InOrder, EventTypeOK
<1> QED
  BY <1>1, <1>2

\* When no listener is next, the iteration has passed them all.
LEMMA NoneIsNext ==
  ASSUME EventTypeOK, InOrder, \A l \in 1 .. added : ~IsNext(l)
  PROVE  \A l \in callbacks : l <= Cursor
<1> DEFINE T == {l \in callbacks : l > Cursor}
<1>1. T \in SUBSET Nat /\ T \subseteq 1 .. added
  <2>1. callbacks \subseteq 1 .. added /\ 1 .. added \subseteq Nat
    BY EventManagerAssumption DEF EventTypeOK
  <2> QED
    BY <2>1
<1>2. ASSUME T # {} PROVE FALSE
  <2>1. PICK l \in T : \A k \in T : l <= k
    BY <1>1, <1>2, Least
  <2>2. IsNext(l) /\ l \in 1 .. added
    BY <1>1, <2>1 DEF IsNext
  <2> QED
    BY <2>2
<1>3. Cursor \in Nat /\ callbacks \subseteq Nat
  BY CursorIsLargest DEF EventTypeOK
<1> QED
  BY <1>2, <1>3

LEMMA ListenerChangesType ==
  ASSUME EventTypeOK, ListenerChangesMap
  PROVE  /\ added' \in 0 .. MaxListeners /\ added <= added'
         /\ callbacks' \subseteq 1 .. added'
         /\ \A k \in callbacks' : k \in callbacks \/ k > added
<1>1. added \in Nat /\ callbacks \subseteq 1 .. added
  BY EventManagerAssumption DEF EventTypeOK
<1>2. PICK removed \in SUBSET callbacks :
        \/ callbacks' = callbacks \ removed /\ added' = added
        \/ /\ added < MaxListeners /\ added' = added + 1
           /\ callbacks' = (callbacks \ removed) \cup {added + 1}
  BY DEF ListenerChangesMap
<1>3. CASE callbacks' = callbacks \ removed /\ added' = added
  BY <1>1, <1>3 DEF EventTypeOK
<1>4. CASE /\ added < MaxListeners /\ added' = added + 1
           /\ callbacks' = (callbacks \ removed) \cup {added + 1}
  <2>1. 1 .. added \subseteq 1 .. added' /\ added + 1 \in 1 .. added' /\ added + 1 > added
    BY <1>1, <1>4
  <2> QED
    BY <1>1, <1>4, <2>1, EventManagerAssumption
<1> QED
  BY <1>2, <1>3, <1>4

LEMMA CallListenerKeeps ==
  ASSUME EventInv, NEW l, CallListener(l)
  PROVE  EventInv'
<1> USE DEF EventInv
<1>1. l \in callbacks /\ l \in 1 .. added /\ l > Cursor
  BY DEF CallListener, IsNext, EventTypeOK
<1>2. /\ added' \in 0 .. MaxListeners /\ added <= added' /\ added \in Nat
      /\ callbacks' \subseteq 1 .. added'
      /\ \A k \in callbacks' : k \in callbacks \/ k > added
  BY ListenerChangesType DEF CallListener, EventTypeOK
<1>3. calls' = Append(calls, l) /\ expected' = expected /\ calls \in Seq(1 .. added)
  BY DEF CallListener, EventTypeOK
<1>4. EventTypeOK'
  <2>1. 1 .. added \subseteq 1 .. added'
    BY <1>2
  <2>2. calls' \in Seq(1 .. added')
    <3>1. l \in 1 .. added'
      BY <1>1, <2>1
    <3> QED
      BY <1>3, <2>1, <3>1, AppendToLarger
  <2>3. threw' \in BOOLEAN /\ dispatching' \in BOOLEAN
    BY DEF CallListener
  <2> QED
    BY <1>2, <1>3, <2>1, <2>2, <2>3 DEF EventTypeOK
<1>5. InOrder'
  <2>1. \A i \in DOMAIN calls : calls[i] < l
    <3>1. Cursor \in 0 .. added /\ \A i \in DOMAIN calls : calls[i] <= Cursor
      BY CursorIsLargest
    <3>2. \A i \in DOMAIN calls : calls[i] \in 1 .. added
      BY <1>3, SeqElements
    <3> QED
      BY <1>1, <1>2, <3>1, <3>2
  <2>2. \A i, j \in DOMAIN calls' : i < j => calls'[i] < calls'[j]
    BY <1>1, <1>3, <2>1 DEF InOrder
  <2> QED
    BY <2>2 DEF InOrder
<1>6. Cursor' = l /\ Called' = Called \cup {l}
  <2>1. Cursor' = l
    BY <1>3 DEF Cursor
  <2>2. \A x : x \in Called' <=> x \in Called \/ x = l
    BY <1>3 DEF Called
  <2> QED
    BY <2>1, <2>2
<1>7. \A k \in expected \cap callbacks' : k <= l => k \in Called'
  <2> SUFFICES ASSUME NEW k \in expected, k \in callbacks', k <= l
               PROVE  k \in Called'
    OBVIOUS
  <2>1. k \in callbacks /\ k \in 1 .. added
    BY <1>2 DEF EventTypeOK
  <2>2. CASE k <= Cursor
    BY <1>6, <2>1, <2>2 DEF PassedAreCalled, CallListener
  <2>3. CASE ~(k <= Cursor)
    <3>1. Cursor \in 0 .. added
      BY CursorIsLargest
    <3>2. l <= k
      BY <2>1, <2>3, <3>1 DEF CallListener, IsNext
    <3> QED
      BY <1>1, <1>6, <2>1, <3>2
  <2> QED
    BY <2>2, <2>3
<1>8. PassedAreCalled'
  BY <1>3, <1>6, <1>7 DEF PassedAreCalled
<1>9. ReachesAll'
  <2>1. ~dispatching' => threw'
    <3>1. PICK throws \in BOOLEAN : threw' = throws /\ dispatching' = ~throws
      BY DEF CallListener
    <3> QED
      BY <3>1, Zenon
  <2> QED
    BY <2>1 DEF ReachesAll
<1> QED
  BY <1>4, <1>5, <1>8, <1>9

LEMMA EventInvStep ==
  ASSUME EventInv, [EventNext]_eventVars
  PROVE  EventInv'
<1> USE EventManagerAssumption
<1>1. CASE AddEventListener
  <2>1. EventTypeOK'
    BY <1>1 DEF AddEventListener, EventInv, EventTypeOK
  <2>2. (added + 1) \notin expected
    BY DEF EventInv, EventTypeOK
  <2> QED
    BY <1>1, <2>1, <2>2 DEF AddEventListener, EventInv, InOrder, PassedAreCalled, ReachesAll, Called
<1>2. CASE RemoveEventListener
  BY <1>2 DEF RemoveEventListener, EventInv, EventTypeOK, InOrder, PassedAreCalled, ReachesAll, Called
<1>3. CASE DiscardManager
  <2>1. calls' = <<>> /\ callbacks' = {} /\ expected' = {} /\ added' = 0
    BY <1>3 DEF DiscardManager
  <2>2. EventTypeOK'
    <3>1. calls' \in Seq(1 .. added')
      BY <2>1, EmptyIsSeq
    <3>2. threw' \in BOOLEAN /\ dispatching' \in BOOLEAN
      BY <1>3 DEF DiscardManager, EventInv, EventTypeOK
    <3> QED
      BY <2>1, <3>1, <3>2, EventManagerAssumption DEF EventTypeOK
  <2>3. InOrder'
    BY <2>1 DEF InOrder
  <2> QED
    BY <2>1, <2>2, <2>3 DEF EventInv, PassedAreCalled, ReachesAll
<1>4. CASE BeginDispatch
  <2>1. EventTypeOK' /\ InOrder' /\ Cursor' = 0
    <3>1. calls' = <<>>
      BY <1>4 DEF BeginDispatch
    <3>2. EventTypeOK'
      BY <1>4, <3>1, EmptyIsSeq DEF BeginDispatch, EventInv, EventTypeOK
    <3> QED
      BY <3>1, <3>2 DEF InOrder, Cursor
  <2>2. \A l \in callbacks : ~(l <= 0)
    BY DEF EventInv, EventTypeOK
  <2> QED
    BY <1>4, <2>1, <2>2 DEF BeginDispatch, EventInv, PassedAreCalled, ReachesAll
<1>5. CASE EndDispatch
  <2>1. \A l \in callbacks : l <= Cursor
    BY <1>5, NoneIsNext DEF EndDispatch, EventInv
  <2>2. Cursor' = Cursor /\ Called' = Called
    BY <1>5 DEF EndDispatch, Cursor, Called
  <2> QED
    BY <1>5, <2>1, <2>2 DEF EndDispatch, EventInv, EventTypeOK, InOrder, PassedAreCalled, ReachesAll
<1>6. CASE \E l \in 1 .. added : CallListener(l)
  BY <1>6, CallListenerKeeps
<1>7. CASE UNCHANGED eventVars
  BY <1>7 DEF eventVars, EventInv, EventTypeOK, InOrder, PassedAreCalled, ReachesAll, Called, Cursor
<1> QED
  BY <1>1, <1>2, <1>3, <1>4, <1>5, <1>6, <1>7 DEF EventNext

LEMMA EventInvInit == EventInit => EventInv
<1> SUFFICES ASSUME EventInit PROVE EventInv
  OBVIOUS
<1>1. EventTypeOK
  <2>1. calls \in Seq(1 .. added)
    BY EmptyIsSeq DEF EventInit
  <2>2. threw \in BOOLEAN /\ dispatching \in BOOLEAN
    BY DEF EventInit
  <2>3. added = 0 /\ callbacks = {} /\ expected = {}
    BY DEF EventInit
  <2> QED
    BY <2>1, <2>2, <2>3, EventManagerAssumption DEF EventTypeOK
<1>2. InOrder
  BY DEF EventInit, InOrder
<1> QED
  BY <1>1, <1>2 DEF EventInit, EventInv, PassedAreCalled, ReachesAll

-----------------------------------------------------------------------------
(* Delivery drives it *)

LEMMA DeliveryStepsEvents ==
  ASSUME [DeliveryNext]_deliveryVars
  PROVE  [EventNext]_eventVars
<1>1. CASE \E m \in Letter : HandleNoData(m) \/ HandleUnsupported(m) \/ HandleData(m)
  BY <1>1 DEF HandleNoData, HandleUnsupported, HandleData, EventNext
<1>2. CASE \E p \in pending : Decrypted(p) \/ DecryptionFailed(p)
  BY <1>2 DEF Decrypted, DecryptionFailed, EventNext
<1>3. CASE \E l \in 1 .. added : Notify(l)
  BY <1>3 DEF Notify, EventNext
<1>4. CASE Notified \/ QueueAck \/ ApplicationListens \/ Restart
  BY <1>4 DEF Notified, QueueAck, ApplicationListens, Restart, EventNext
<1>5. CASE UNCHANGED deliveryVars
  BY <1>5 DEF deliveryVars, eventVars
<1> QED
  BY <1>1, <1>2, <1>3, <1>4, <1>5 DEF DeliveryNext

\* Every behaviour of Delivery is one of EventManager, as far as its listeners go.
THEOREM DeliveryImplementsEvents == DeliverySpec => EventSpec
<1>1. DeliveryInit => EventInit
  BY DEF DeliveryInit
<1>2. [DeliveryNext]_deliveryVars => [EventNext]_eventVars
  BY DeliveryStepsEvents
<1> QED
  BY <1>1, <1>2, PTL DEF DeliverySpec, EventSpec

LEMMA EventInvariant == EventSpec => []EventInv
BY EventInvInit, EventInvStep, PTL DEF EventSpec

\* A dispatch in which nobody throws reaches every listener that was there and stays,
\* whatever listeners do to the map meanwhile (event-manager.ts:34-37).
THEOREM DispatchReachesAll == DeliverySpec => []ReachesAll
<1>1. EventInv => ReachesAll
  BY DEF EventInv
<1> QED
  BY <1>1, EventInvariant, DeliveryImplementsEvents, PTL

-----------------------------------------------------------------------------
(* The keys, and what is decrypted with them *)

\* The process, the storage and the application have what was once drawn.
KeysAre(auth, d) ==
  /\ auth \in Auth /\ d \in PrivateKey
  /\ GenerateKeys(auth, d)
  /\ handed = toJSON([auth |-> auth, ecKeys |-> EcKeys(d)])
KeysAgree == \E auth \in Auth, d \in PrivateKey : KeysAre(auth, d)

\* What is under way, heard and answered is what the letter decrypts to.
ResultOf(m) == DecryptData(keys, DataOf(m))
ResultsAgree ==
  \A p \in pending :
    p.letter \in Letter /\ p.letter.kind = "data" /\ p.result = ResultOf(p.letter)
DispatchAgrees ==
  /\ dispatching <=> current # Undefined
  /\ current = Undefined => heard = Undefined
  /\ current # Undefined =>
       /\ current \in Letter
       /\ \/ heard = Undefined /\ HasNoData(current)
          \/ /\ current.kind = "data" /\ ResultOf(current) # Thrown
             /\ heard = fromBufferToUtf8(ResultOf(current))
AnswersAgree ==
  answer # Undefined =>
    /\ answer.letter \in Letter /\ answer.code \in {"SUCCESS", "DECRYPT_FAIL", "OTHER_FAIL"}
    /\ answer.code = "DECRYPT_FAIL" =>
         \/ answer.letter.kind = "encoding"
         \/ answer.letter.kind = "data" /\ ResultOf(answer.letter) = Thrown

DeliveryInv == KeysAgree /\ ResultsAgree /\ DispatchAgrees /\ AnswersAgree

\* A restart finds the keys it had: they survive their conversions.
LEMMA KeysAreRead ==
  ASSUME NEW auth, NEW d, KeysAre(auth, d), ThrownIsApart
  PROVE  ReadKeys = keys
<1>1. auth \in Seq(Byte) /\ Thrown \notin Seq(Int)
  BY LetterAssumption DEF KeysAre, ThrownIsApart
<1>2. fromUrlB64ToBuffer(fromBufferToUrlB64(auth)) = auth
  BY <1>1, UrlB64RoundTrip
<1> QED
  BY <1>2 DEF KeysAre, GenerateKeys, ReadKeys, parsePrivateJwk, extractPrivateJwk, EcKeys

LEMMA KeysStay ==
  ASSUME KeysAgree, ThrownIsApart, [DeliveryNext]_deliveryVars
  PROVE  keys' = keys /\ stored' = stored /\ handed' = handed
<1>1. ReadKeys = keys
  BY KeysAreRead DEF KeysAgree
<1> QED
  BY <1>1 DEF DeliveryNext, deliveryVars, keyVars, HandleNoData, HandleUnsupported, HandleData,
              Decrypted, DecryptionFailed, Notify, Notified, QueueAck, ApplicationListens, Restart

\* So what a letter is, and decrypts to, stays as well.
LEMMA LettersStay ==
  ASSUME KeysAgree, ThrownIsApart, [DeliveryNext]_deliveryVars
  PROVE  /\ KeysAgree'
         /\ \A m : DataOf(m)' = DataOf(m)
         /\ \A m : ResultOf(m)' = ResultOf(m)
         /\ \A m : HasNoData(m)' = HasNoData(m)
<1>1. keys' = keys /\ stored' = stored /\ handed' = handed
  BY KeysStay
<1>2. KeysAgree'
  BY <1>1 DEF KeysAgree, KeysAre, GenerateKeys
<1>3. ASSUME NEW m PROVE DataOf(m)' = DataOf(m)
  BY <1>1 DEF DataOf, Encrypted, AuthOf, P256dhOf, KnownTo, readSubscription
<1>4. ASSUME NEW m PROVE ResultOf(m)' = ResultOf(m)
  BY <1>1, <1>3 DEF ResultOf
<1>5. ASSUME NEW m PROVE HasNoData(m)' = HasNoData(m)
  BY <1>1, <1>3 DEF HasNoData
<1> QED
  BY <1>2, <1>3, <1>4, <1>5

LEMMA DeliveryInvInit == DeliveryInit => DeliveryInv
<1> SUFFICES ASSUME DeliveryInit PROVE DeliveryInv
  OBVIOUS
<1>1. KeysAgree
  BY DEF DeliveryInit, KeysAgree, KeysAre
<1> QED
  BY <1>1 DEF DeliveryInit, EventInit, DeliveryInv, ResultsAgree, DispatchAgrees, AnswersAgree

LEMMA DeliveryInvStep ==
  ASSUME DeliveryInv, ThrownIsApart, [DeliveryNext]_deliveryVars
  PROVE  DeliveryInv'
<1>1. /\ KeysAgree'
      /\ \A m : ResultOf(m)' = ResultOf(m)
      /\ \A m : HasNoData(m)' = HasNoData(m)
  BY LettersStay DEF DeliveryInv
<1> DEFINE Agree == ResultsAgree /\ DispatchAgrees /\ AnswersAgree
<1>2. Agree
  BY DEF DeliveryInv
<1> USE DEF ResultsAgree, DispatchAgrees, AnswersAgree
<1>3. ASSUME NEW m \in Letter, HandleNoData(m) PROVE Agree'
  <2>1. /\ current' = m /\ heard' = Undefined /\ dispatching' = TRUE
        /\ pending' = pending /\ answer' = answer /\ HasNoData(m)
    BY <1>3 DEF HandleNoData, BeginDispatch
  <2>2. m # Undefined
    BY LetterAssumption
  <2> QED
    BY <1>1, <1>2, <2>1, <2>2
<1>4. ASSUME NEW m \in Letter, HandleUnsupported(m) PROVE Agree'
  <2>1. /\ current' = current /\ heard' = heard /\ dispatching' = dispatching
        /\ pending' = pending /\ answer' = [letter |-> m, code |-> "DECRYPT_FAIL"]
        /\ m.kind = "encoding"
    BY <1>4 DEF HandleUnsupported, eventVars
  <2> QED
    BY <1>1, <1>2, <2>1
<1>5. ASSUME NEW m \in Letter, HandleData(m) PROVE Agree'
  <2>1. /\ current' = current /\ heard' = heard /\ dispatching' = dispatching /\ answer' = answer
        /\ pending' = pending \cup {[letter |-> m, result |-> ResultOf(m)]}
        /\ m.kind = "data"
    BY <1>5 DEF HandleData, eventVars, ResultOf
  <2> QED
    BY <1>1, <1>2, <2>1
<1>6. ASSUME NEW p \in pending, Decrypted(p) PROVE Agree'
  <2>1. /\ current' = p.letter /\ heard' = fromBufferToUtf8(p.result) /\ dispatching' = TRUE
        /\ pending' = pending \ {p} /\ answer' = answer /\ p.result # Thrown
    BY <1>6 DEF Decrypted, BeginDispatch
  <2>2. p.letter \in Letter /\ p.letter.kind = "data" /\ p.result = ResultOf(p.letter)
    BY <1>2
  <2>3. p.letter # Undefined
    BY <2>2, LetterAssumption
  <2>4. DispatchAgrees'
    BY <1>1, <2>1, <2>2, <2>3
  <2> QED
    BY <1>1, <1>2, <2>1, <2>4
<1>7. ASSUME NEW p \in pending, DecryptionFailed(p) PROVE Agree'
  <2>1. /\ current' = current /\ heard' = heard /\ dispatching' = dispatching
        /\ pending' = pending \ {p} /\ answer' = [letter |-> p.letter, code |-> "DECRYPT_FAIL"]
        /\ p.result = Thrown
    BY <1>7 DEF DecryptionFailed, eventVars
  <2> QED
    BY <1>1, <1>2, <2>1
<1>8. ASSUME NEW l \in 1 .. added, Notify(l) PROVE Agree'
  <2>1. dispatching /\ pending' = pending
    BY <1>8 DEF Notify, CallListener
  <2>2. PICK throws \in BOOLEAN : threw' = throws /\ dispatching' = ~throws
    BY <1>8 DEF Notify, CallListener
  <2>3. CASE threw'
    <3>1. /\ dispatching' = FALSE /\ current' = Undefined /\ heard' = Undefined
          /\ answer' = [letter |-> current, code |-> "OTHER_FAIL"]
      BY <1>8, <2>2, <2>3, Zenon DEF Notify
    <3>2. answer'.letter = current /\ answer'.code = "OTHER_FAIL"
      BY <3>1
    <3> QED
      BY <1>1, <1>2, <2>1, <3>1, <3>2
  <2>4. CASE ~threw'
    <3>1. /\ dispatching' = TRUE /\ current' = current /\ heard' = heard /\ answer' = answer
      BY <1>8, <2>2, <2>4, Zenon DEF Notify
    <3> QED
      BY <1>1, <1>2, <2>1, <3>1
  <2> QED
    BY <2>3, <2>4
<1>9. ASSUME Notified PROVE Agree'
  <2>1. /\ dispatching /\ dispatching' = FALSE /\ current' = Undefined /\ heard' = Undefined
        /\ answer' = [letter |-> current, code |-> "SUCCESS"] /\ pending' = pending
    BY <1>9 DEF Notified, EndDispatch
  <2>2. answer'.letter = current /\ answer'.code = "SUCCESS"
    BY <2>1
  <2> QED
    BY <1>1, <1>2, <2>1, <2>2
<1>10. ASSUME QueueAck PROVE Agree'
  <2>1. /\ pending' = pending /\ current' = current /\ heard' = heard /\ answer' = Undefined
        /\ dispatching' = dispatching
    BY <1>10 DEF QueueAck, eventVars
  <2> QED
    BY <1>1, <1>2, <2>1
<1>11. ASSUME ApplicationListens PROVE Agree'
  <2>1. /\ pending' = pending /\ current' = current /\ heard' = heard /\ answer' = answer
        /\ dispatching' = dispatching
    BY <1>11 DEF ApplicationListens, AddEventListener, RemoveEventListener
  <2> QED
    BY <1>1, <1>2, <2>1
<1>12. ASSUME Restart PROVE Agree'
  <2>1. /\ pending' = {} /\ current' = current /\ heard' = heard /\ answer' = answer
        /\ dispatching' = dispatching
    BY <1>12 DEF Restart, DiscardManager
  <2> QED
    BY <1>1, <1>2, <2>1
<1>13. ASSUME UNCHANGED deliveryVars PROVE Agree'
  <2>1. /\ pending' = pending /\ current' = current /\ heard' = heard /\ answer' = answer
        /\ dispatching' = dispatching
    BY <1>13 DEF deliveryVars, eventVars
  <2> QED
    BY <1>1, <1>2, <2>1
<1>14. Agree'
  BY <1>3, <1>4, <1>5, <1>6, <1>7, <1>8, <1>9, <1>10, <1>11, <1>12, <1>13 DEF DeliveryNext
<1> QED
  BY <1>1, <1>14 DEF DeliveryInv

\* The keys never change, and every outcome is what its letter decrypts to.
LEMMA DeliveryInvariant == ASSUME ThrownIsApart PROVE DeliverySpec => []DeliveryInv
BY DeliveryInvInit, DeliveryInvStep, PTL DEF DeliverySpec

-----------------------------------------------------------------------------
(* What arrives as it was sent is read *)

LEMMA ChangedIsSeq ==
  ASSUME NEW c \in Seq(Byte), NEW at
  PROVE  /\ Changed(c, at) \in Seq(Byte) /\ Len(Changed(c, at)) = Len(c)
         /\ \A i \in 1 .. Len(c) : Changed(c, at)[i] = IF i = at THEN (c[i] + 1) % 256 ELSE c[i]
<1> DEFINE x == Changed(c, at)
<1>1. x = [i \in 1 .. Len(c) |-> IF i = at THEN (c[i] + 1) % 256 ELSE c[i]] /\ Len(c) \in Nat
  BY DEF Changed
<1>2. \A i \in 1 .. Len(c) : (IF i = at THEN (c[i] + 1) % 256 ELSE c[i]) \in Byte
  <2>1. \A v \in Byte : (v + 1) % 256 \in Byte
    BY DEF Byte
  <2> QED
    BY <2>1
<1> HIDE DEF x
<1>3. x \in Seq(Byte) /\ Len(x) = Len(c)
  BY <1>1, <1>2
<1> QED
  BY <1>1, <1>3 DEF x

LEMMA ChangedDiffers == \A v \in Byte : (v + 1) % 256 # v
BY DEF Byte

\* Nothing else of it is changed when the record size is, or what is beyond the end.
LEMMA RecordSizeIsFree ==
  ASSUME NEW salt \in Seq(Byte), Len(salt) = 16, NEW key \in Seq(Byte), Len(key) \in Byte,
         NEW sealed \in Seq(Byte), NEW at,
         at \in DOMAIN Content(salt, key, sealed) => at \in 17 .. 20
  PROVE  \E size \in Seq(Byte) :
           /\ Len(size) = 4
           /\ Changed(Content(salt, key, sealed), at) = Parts(salt, size, <<Len(key)>>, key, sealed)
<1> DEFINE c == Content(salt, key, sealed)
           x == Changed(c, at)
           size == [i \in 1 .. 4 |-> x[16 + i]]
           length == <<Len(key)>>
<1>1. IsMadeOf(c, salt, <<0, 0, 4, 0>>, length, key, sealed) /\ length \in Seq(Byte)
  BY ContentIsMade
<1>2. Len(length) = 1
  OBVIOUS
<1> HIDE DEF c, length
<1>3. /\ c \in Seq(Byte) /\ Len(c) = 21 + Len(key) + Len(sealed)
      /\ Len(key) \in Nat /\ Len(sealed) \in Nat
  <2>1. Len(key) \in Nat /\ Len(sealed) \in Nat
    OBVIOUS
  <2> QED
    BY <1>1, <2>1, Zenon DEF IsMadeOf
<1>4. /\ x \in Seq(Byte) /\ Len(x) = Len(c)
      /\ \A i \in 1 .. Len(c) : i \notin 17 .. 20 => x[i] = c[i]
  <2>1. DOMAIN c = 1 .. Len(c) /\ (at \in DOMAIN c => at \in 17 .. 20)
    BY <1>3 DEF c
  <2>2. /\ x \in Seq(Byte) /\ Len(x) = Len(c)
        /\ \A i \in 1 .. Len(c) : x[i] = IF i = at THEN (c[i] + 1) % 256 ELSE c[i]
    BY <1>3, ChangedIsSeq
  <2> HIDE DEF x
  <2> QED
    BY <2>1, <2>2
<1> HIDE DEF x
<1>5. size \in Seq(Byte) /\ Len(size) = 4 /\ \A i \in 1 .. 4 : x[16 + i] = size[i]
  <2>1. \A i \in 1 .. 4 : x[16 + i] \in Byte
    <3>1. \A i \in 1 .. 4 : 16 + i \in 1 .. Len(x)
      BY <1>3, <1>4
    <3> QED
      BY <1>4, <3>1
  <2> QED
    BY <2>1
<1> HIDE DEF size
<1>6. \A i \in 1 .. 16 : x[i] = salt[i]
  <2> SUFFICES ASSUME NEW i \in 1 .. 16 PROVE x[i] = salt[i]
    OBVIOUS
  <2>1. i \in 1 .. Len(c) /\ i \notin 17 .. 20
    BY <1>3
  <2> QED
    BY <1>1, <1>4, <2>1, Zenon DEF IsMadeOf
<1>7. x[21] = length[1]
  <2>1. 21 \in 1 .. Len(c) /\ 21 \notin 17 .. 20
    BY <1>3
  <2> QED
    BY <1>1, <1>4, <2>1, Zenon DEF IsMadeOf
<1>8. \A i \in 1 .. Len(key) : x[21 + i] = key[i]
  <2> SUFFICES ASSUME NEW i \in 1 .. Len(key) PROVE x[21 + i] = key[i]
    OBVIOUS
  <2>1. 21 + i \in 1 .. Len(c) /\ 21 + i \notin 17 .. 20
    BY <1>3
  <2> QED
    BY <1>1, <1>4, <2>1, Zenon DEF IsMadeOf
<1>9. \A i \in 1 .. Len(sealed) : x[21 + Len(key) + i] = sealed[i]
  <2> SUFFICES ASSUME NEW i \in 1 .. Len(sealed) PROVE x[21 + Len(key) + i] = sealed[i]
    OBVIOUS
  <2>1. 21 + Len(key) + i \in 1 .. Len(c) /\ 21 + Len(key) + i \notin 17 .. 20
    BY <1>3
  <2> QED
    BY <1>1, <1>4, <2>1, Zenon DEF IsMadeOf
<1>10. IsMadeOf(x, salt, size, length, key, sealed)
  BY <1>3, <1>4, <1>5, <1>6, <1>7, <1>8, <1>9 DEF IsMadeOf
<1>11. x = Parts(salt, size, length, key, sealed)
  BY <1>1, <1>2, <1>5, <1>10, MadeAreParts
<1> QED
  BY <1>5, <1>11 DEF x, c, length

\* Both senders know the keys of the subscription.
LEMMA KeysAreKnown ==
  ASSUME NEW auth, NEW d, KeysAre(auth, d), NEW m
  PROVE  /\ keys = [auth |-> auth, ecKeys |-> EcKeys(d)]
         /\ auth \in Seq(Byte) /\ d \in PrivateKey
         /\ KnownTo(m).auth = fromBufferToUrlB64(auth)
         /\ KnownTo(m).p256dh = fromBufferToUrlB64(PublicKeyOf[d])
<1>1. /\ readSubscription.auth = fromBufferToUrlB64(auth)
      /\ readSubscription.p256dh = fromBufferToUrlB64(PublicKeyOf[d])
  BY DEF KeysAre, GenerateKeys, readSubscription, parsePrivateJwk, extractPrivateJwk, EcKeys
<1>2. handed.auth = fromBufferToUrlB64(auth) /\ handed.p256dh = fromBufferToUrlB64(PublicKeyOf[d])
  BY DEF KeysAre, toJSON, EcKeys
<1>3. KnownTo(m) = readSubscription \/ KnownTo(m) = handed
  BY DEF KnownTo
<1> QED
  BY <1>1, <1>2, <1>3, LetterAssumption DEF KeysAre, GenerateKeys

\* The secret and the key it is encrypted for.
SecretFor(auth, m) == IF m.forAuth = Undefined THEN auth ELSE m.forAuth
KeyFor(d, m) == IF m.forKey = Undefined THEN d ELSE m.forKey
SealedFor(auth, d, m) ==
  SealedWith(DerivedBySender(KeyFor(d, m), m.serverKey, SecretFor(auth, m), m.salt), m.padded)

LEMMA LetterIsEncrypted ==
  ASSUME NEW auth, NEW d, KeysAre(auth, d), NEW m \in Letter, ThrownIsApart, CipherDecrypts
  PROVE  /\ SecretFor(auth, m) \in Seq(Byte) /\ KeyFor(d, m) \in PrivateKey
         /\ AuthOf(m) = fromBufferToUrlB64(SecretFor(auth, m))
         /\ P256dhOf(m) = fromBufferToUrlB64(PublicKeyOf[KeyFor(d, m)])
         /\ Encrypted(m) = Content(m.salt, PublicKeyOf[m.serverKey], SealedFor(auth, d, m))
         /\ DerivedBySender(KeyFor(d, m), m.serverKey, SecretFor(auth, m), m.salt) \in Derived
         /\ SealedFor(auth, d, m) \in Seq(Byte)
         /\ Len(SealedFor(auth, d, m)) > Len(m.padded)
<1> DEFINE a == SecretFor(auth, m)
           u == KeyFor(d, m)
           derived == DerivedBySender(u, m.serverKey, a, m.salt)
<1>1. /\ auth \in Seq(Byte) /\ d \in PrivateKey
      /\ KnownTo(m).auth = fromBufferToUrlB64(auth)
      /\ KnownTo(m).p256dh = fromBufferToUrlB64(PublicKeyOf[d])
  BY KeysAreKnown
<1>2. /\ m.padded \in Seq(Byte) /\ m.serverKey \in PrivateKey /\ m.salt \in Seq(Byte)
      /\ m.forAuth \in Auth \cup {Undefined} /\ m.forKey \in PrivateKey \cup {Undefined}
      /\ \A x \in Auth : x \in Seq(Byte)
  BY LetterAssumption
<1>3. a \in Seq(Byte) /\ u \in PrivateKey
  BY <1>1, <1>2 DEF SecretFor, KeyFor
<1>4. AuthOf(m) = fromBufferToUrlB64(a) /\ P256dhOf(m) = fromBufferToUrlB64(PublicKeyOf[u])
  BY <1>1 DEF AuthOf, P256dhOf, SecretFor, KeyFor
<1> HIDE DEF a, u
<1>5. Encrypted(m) = Content(m.salt, PublicKeyOf[m.serverKey], SealedWith(derived, m.padded))
  BY <1>2, <1>3, <1>4, EncryptedParts DEF Encrypted
<1>6. derived \in Derived
  BY <1>2, <1>3 DEF Derived
<1> HIDE DEF derived
<1>7. /\ SealedWith(derived, m.padded) \in Seq(Byte)
      /\ Len(SealedWith(derived, m.padded)) > Len(m.padded)
  BY <1>2, <1>6 DEF CipherDecrypts
<1> QED
  BY <1>3, <1>4, <1>5, <1>6, <1>7 DEF SealedFor, a, u, derived

\* What arrives as it was sent decrypts to what was encrypted, but for the padding.
LEMMA IntactIsRead ==
  ASSUME KeysAgree, NEW m \in Letter, IsIntact(m), CipherDecrypts, ThrownIsApart
  PROVE  ResultOf(m) = removePadding(m.padded, TRUE)
<1>1. PICK auth \in Auth, d \in PrivateKey : KeysAre(auth, d)
  BY DEF KeysAgree
<1> DEFINE s == m.serverKey
           key == PublicKeyOf[s]
           sealed == SealedWith(DerivedBySender(d, s, auth, m.salt), m.padded)
           text == DataOf(m)
<1>2. /\ keys = [auth |-> auth, ecKeys |-> EcKeys(d)]
      /\ auth \in Seq(Byte) /\ d \in PrivateKey
      /\ KnownTo(m).auth = fromBufferToUrlB64(auth)
      /\ KnownTo(m).p256dh = fromBufferToUrlB64(PublicKeyOf[d])
  BY <1>1, KeysAreKnown
<1>3. /\ m.padded \in Seq(Byte) /\ s \in PrivateKey /\ m.salt \in Seq(Byte) /\ Len(m.salt) = 16
  BY LetterAssumption
<1>4. /\ m.lost = 0
      /\ AuthOf(m) = fromBufferToUrlB64(auth)
      /\ P256dhOf(m) = fromBufferToUrlB64(PublicKeyOf[d])
      /\ m.changed \in DOMAIN Encrypted(m) => m.changed \in 17 .. 20
  BY <1>2 DEF IsIntact
<1>5. Encrypted(m) = Content(m.salt, key, sealed)
  BY <1>2, <1>3, <1>4, EncryptedParts DEF Encrypted
<1>6. key \in Seq(Byte) /\ Len(key) \in Byte
  BY <1>3, KeysAssumption
<1>7. sealed \in Seq(Byte)
  <2>1. DerivedBySender(d, s, auth, m.salt) \in Derived
    BY <1>2, <1>3 DEF Derived
  <2> QED
    BY <1>3, <2>1 DEF CipherDecrypts
<1> HIDE DEF sealed, key
<1>8. PICK size \in Seq(Byte) :
        /\ Len(size) = 4
        /\ Changed(Encrypted(m), m.changed) = Parts(m.salt, size, <<Len(key)>>, key, sealed)
  <2> DEFINE salt == m.salt
             at == m.changed
  <2>1. at \in DOMAIN Content(salt, key, sealed) => at \in 17 .. 20
    BY <1>4, <1>5
  <2>2. salt \in Seq(Byte) /\ Len(salt) = 16
    BY <1>3
  <2> HIDE DEF salt, at
  <2>3. PICK size \in Seq(Byte) :
          /\ Len(size) = 4
          /\ Changed(Content(salt, key, sealed), at) = Parts(salt, size, <<Len(key)>>, key, sealed)
    BY <1>6, <1>7, <2>1, <2>2, RecordSizeIsFree
  <2> QED
    BY <1>5, <2>3 DEF salt, at
<1> DEFINE length == <<Len(key)>>
           content == Parts(m.salt, size, length, key, sealed)
<1>9. length \in Seq(Byte) /\ Len(length) = 1 /\ length[1] = Len(key)
  BY <1>6
<1> HIDE DEF length
<1>10. content \in Seq(Byte)
  BY <1>3, <1>6, <1>7, <1>9 DEF Parts
<1>11. Changed(Encrypted(m), m.changed) = content
  BY <1>8 DEF length
<1> HIDE DEF content
<1>12. text = fromBufferToUrlB64(content)
  <2> DEFINE e == fromBufferToUrlB64(content)
  <2>1. text = SubSeq(e, 1, Len(e) - 0)
    BY <1>4, <1>11 DEF DataOf
  <2>2. e = [j \in 1 .. (4 * Len(content) + 2) \div 3 |-> UrlCharacter(Digit(content, j))]
    BY <1>10, Encoded
  <2>3. (4 * Len(content) + 2) \div 3 \in Nat
    BY <1>10, Lengths
  <2> HIDE DEF e
  <2>4. SubSeq(e, 1, Len(e) - 0) = e
    BY <2>2, <2>3
  <2> QED
    BY <2>1, <2>4 DEF e
<1>13. fromUrlB64ToBuffer(text) = content
  BY <1>10, <1>12, UrlB64RoundTrip DEF ThrownIsApart
<1>14. IsEncryptedFor(d, auth, text, s, m.salt, size, length, m.padded)
  BY <1>2, <1>3, <1>8, <1>9, <1>13 DEF IsEncryptedFor, content, sealed, key
<1>15. DecryptData([auth |-> auth, ecKeys |-> EcKeys(d)], text) = removePadding(m.padded, TRUE)
  BY <1>14, ContentIsRead
<1> QED
  BY <1>2, <1>15 DEF ResultOf

\* A notification that was sent with the keys the application was given is never
\* refused, also after restarts: whatever its data, padding, salt and server key, however
\* many restarts and notifications there were before (push-subscription.ts:145-159,
\* 200-302).
THEOREM IntactIsNotRefused ==
  ASSUME CipherDecrypts, ThrownIsApart
  PROVE  DeliverySpec => []SentIsNotRefused
<1>1. ASSUME DeliveryInv PROVE SentIsNotRefused
  <2> SUFFICES ASSUME answer # Undefined, answer.code = "DECRYPT_FAIL",
                      NEW n \in 0 .. Len(answer.letter.padded),
                      IsSent(answer.letter, SubSeq(answer.letter.padded, 1, n))
               PROVE  FALSE
    BY DEF SentIsNotRefused
  <2> DEFINE m == answer.letter
             data == SubSeq(m.padded, 1, n)
  <2>1. m \in Letter /\ (m.kind = "encoding" \/ ResultOf(m) = Thrown)
    BY <1>1 DEF DeliveryInv, AnswersAgree
  <2>2. IsPadded(m.padded, data) /\ IsIntact(m) /\ m.kind = "data"
    BY DEF IsSent, IsIntact
  <2>3. m.padded \in Seq(Byte)
    BY <2>1, LetterAssumption
  <2>4. data \in Seq(Byte)
    BY <2>3
  <2> HIDE DEF m, data
  <2>5. PICK zeros \in 0 .. Len(m.padded) : m.padded = Padded(data, zeros)
    BY <2>2 DEF IsPadded
  <2>6. removePadding(m.padded, TRUE) = data
    <3>1. zeros \in Nat
      BY <2>3
    <3> QED
      BY <2>4, <2>5, <3>1, PaddingRoundTrip
  <2>7. ResultOf(m) = data
    BY <1>1, <2>1, <2>2, <2>6, IntactIsRead DEF DeliveryInv
  <2>8. data # Thrown
    BY <2>4, BytesAreInts DEF ThrownIsApart
  <2> QED
    BY <2>1, <2>2, <2>7, <2>8
<1> QED
  BY <1>1, DeliveryInvariant, PTL

-----------------------------------------------------------------------------
(* What is read was sent *)

\* The beginning of a content, of which the byte at `at' was changed.
IsAltered(y, k, at, salt, key, sealed) ==
  /\ salt \in Seq(Byte) /\ Len(salt) = 16
  /\ key \in Seq(Byte) /\ Len(key) \in Byte
  /\ sealed \in Seq(Byte) /\ Len(sealed) > 0
  /\ at \in Nat /\ k \in 0 .. Len(Content(salt, key, sealed))
  /\ y = SubSeq(Changed(Content(salt, key, sealed), at), 1, k)

LEMMA AlteredElements ==
  ASSUME NEW y, NEW k, NEW at, NEW salt, NEW key, NEW sealed,
         IsAltered(y, k, at, salt, key, sealed)
  PROVE  /\ y \in Seq(Byte) /\ Len(y) = k /\ k \in Nat
         /\ Len(key) \in Nat /\ Len(sealed) \in Nat /\ k <= 21 + Len(key) + Len(sealed)
         /\ Len(Content(salt, key, sealed)) = 21 + Len(key) + Len(sealed)
         /\ \A i \in 1 .. 16 : i <= k => y[i] = IF i = at THEN (salt[i] + 1) % 256 ELSE salt[i]
         /\ 21 <= k => y[21] = IF 21 = at THEN (Len(key) + 1) % 256 ELSE Len(key)
         /\ \A i \in 1 .. Len(key) :
              21 + i <= k => y[21 + i] = IF 21 + i = at THEN (key[i] + 1) % 256 ELSE key[i]
         /\ \A i \in 1 .. Len(sealed) :
              21 + Len(key) + i <= k =>
                y[21 + Len(key) + i]
                  = IF 21 + Len(key) + i = at THEN (sealed[i] + 1) % 256 ELSE sealed[i]
<1> DEFINE c == Content(salt, key, sealed)
           x == Changed(c, at)
           length == <<Len(key)>>
<1>1. /\ salt \in Seq(Byte) /\ Len(salt) = 16
      /\ key \in Seq(Byte) /\ Len(key) \in Byte
      /\ sealed \in Seq(Byte)
      /\ k \in 0 .. Len(c) /\ y = SubSeq(x, 1, k)
  BY DEF IsAltered
<1>2. IsMadeOf(c, salt, <<0, 0, 4, 0>>, length, key, sealed)
  BY <1>1, ContentIsMade
<1>3. length[1] = Len(key)
  OBVIOUS
<1>4. Len(key) \in Nat /\ Len(sealed) \in Nat
  BY <1>1
<1> HIDE DEF c, length
<1>5. c \in Seq(Byte) /\ Len(c) = 21 + Len(key) + Len(sealed)
  BY <1>2, Zenon DEF IsMadeOf
<1>6. /\ x \in Seq(Byte) /\ Len(x) = Len(c)
      /\ \A i \in 1 .. Len(c) : x[i] = IF i = at THEN (c[i] + 1) % 256 ELSE c[i]
  BY <1>5, ChangedIsSeq
<1> HIDE DEF x
<1>7. k \in Nat /\ k <= Len(x) /\ Len(x) \in Nat
  BY <1>1, <1>6
<1>8. y \in Seq(Byte) /\ Len(y) = k /\ \A i \in 1 .. k : y[i] = x[i]
  BY <1>1, <1>6, <1>7
<1>9. \A i \in 1 .. k : y[i] = IF i = at THEN (c[i] + 1) % 256 ELSE c[i]
  BY <1>6, <1>7, <1>8
<1>10. ASSUME NEW i \in 1 .. 16, i <= k
       PROVE  y[i] = IF i = at THEN (salt[i] + 1) % 256 ELSE salt[i]
  <2>1. i \in 1 .. k
    BY <1>7, <1>10
  <2>2. c[i] = salt[i]
    BY <1>2, Zenon DEF IsMadeOf
  <2> QED
    BY <1>9, <2>1, <2>2
<1>11. 21 <= k => y[21] = IF 21 = at THEN (Len(key) + 1) % 256 ELSE Len(key)
  <2>1. c[21] = Len(key)
    BY <1>2, <1>3, Zenon DEF IsMadeOf
  <2>2. 21 <= k => 21 \in 1 .. k
    BY <1>7
  <2> QED
    BY <1>9, <2>1, <2>2
<1>12. ASSUME NEW i \in 1 .. Len(key), 21 + i <= k
       PROVE  y[21 + i] = IF 21 + i = at THEN (key[i] + 1) % 256 ELSE key[i]
  <2>1. 21 + i \in 1 .. k
    BY <1>7, <1>12
  <2>2. c[21 + i] = key[i]
    BY <1>2, Zenon DEF IsMadeOf
  <2> QED
    BY <1>9, <2>1, <2>2
<1>13. ASSUME NEW i \in 1 .. Len(sealed), 21 + Len(key) + i <= k
       PROVE  y[21 + Len(key) + i]
                = IF 21 + Len(key) + i = at THEN (sealed[i] + 1) % 256 ELSE sealed[i]
  <2>1. 21 + Len(key) + i \in 1 .. k
    BY <1>4, <1>7, <1>13
  <2>2. c[21 + Len(key) + i] = sealed[i]
    BY <1>2, Zenon DEF IsMadeOf
  <2> QED
    BY <1>9, <2>1, <2>2
<1> QED
  BY <1>4, <1>5, <1>6, <1>7, <1>8, <1>10, <1>11, <1>12, <1>13 DEF c

\* As long as the key has its length, what is taken for the ciphertext is the beginning of
\* what was sealed, with a byte changed or not; and if it is all of it, and the key and
\* the salt are what was sent, then so is everything but the record size.
IsTakenFor(y, k, at, salt, key, sealed) ==
  LET end == 21 + y[21]
      taken == Slice(y, end, Len(y))
  IN /\ \E j \in Nat, n \in 0 .. Len(sealed) : taken = SubSeq(Changed(sealed, j), 1, n)
     /\ taken = sealed /\ Slice(y, 21, end) = key /\ Slice(y, 0, 16) = salt =>
          /\ k = Len(Content(salt, key, sealed))
          /\ at \in 1 .. k => at \in 17 .. 20

LEMMA WhatIsTakenForSealed ==
  ASSUME NEW y, NEW k, NEW at, NEW salt, NEW key, NEW sealed,
         IsAltered(y, k, at, salt, key, sealed),
         ~(Len(y) <= 20), Len(Slice(y, 21, 21 + y[21])) = Len(key)
  PROVE  IsTakenFor(y, k, at, salt, key, sealed)
<1> DEFINE K == Len(key)
           end == 21 + y[21]
           taken == Slice(y, end, Len(y))
<1>1. /\ salt \in Seq(Byte) /\ Len(salt) = 16 /\ key \in Seq(Byte) /\ K \in Byte
      /\ sealed \in Seq(Byte) /\ Len(sealed) > 0 /\ at \in Nat
  BY DEF IsAltered
<1>2. /\ y \in Seq(Byte) /\ Len(y) = k /\ k \in Nat
      /\ K \in Nat /\ Len(sealed) \in Nat /\ k <= 21 + K + Len(sealed)
      /\ Len(Content(salt, key, sealed)) = 21 + K + Len(sealed)
  BY AlteredElements
<1>3. \A i \in 1 .. 16 : i <= k => y[i] = IF i = at THEN (salt[i] + 1) % 256 ELSE salt[i]
  BY AlteredElements, SMTT(30)
<1>4. 21 <= k => y[21] = IF 21 = at THEN (K + 1) % 256 ELSE K
  BY AlteredElements
<1>5. \A i \in 1 .. K :
        21 + i <= k => y[21 + i] = IF 21 + i = at THEN (key[i] + 1) % 256 ELSE key[i]
  BY AlteredElements
<1>6. \A i \in 1 .. Len(sealed) :
        21 + K + i <= k =>
          y[21 + K + i] = IF 21 + K + i = at THEN (sealed[i] + 1) % 256 ELSE sealed[i]
  BY AlteredElements
<1> HIDE DEF K
<1>7. 21 <= k /\ y[21] \in Nat /\ end \in Nat /\ y[21] = IF 21 = at THEN (K + 1) % 256 ELSE K
  BY <1>1, <1>2, <1>4 DEF Byte
<1> HIDE DEF end
<1>8. /\ taken \in Seq(Byte) /\ Len(taken) = IF end <= k THEN k - end ELSE 0
      /\ \A i \in 1 .. k - end : taken[i] = y[end + i]
  <2>1. IsCut(taken, y, end, IF k <= k THEN k ELSE k)
    BY <1>2, <1>7, SliceIsCut
  <2> HIDE DEF taken
  <2> QED
    BY <2>1 DEF IsCut
<1>9. K = LET e == IF end <= k THEN end ELSE k IN IF 21 <= e THEN e - 21 ELSE 0
  <2>1. IsCut(Slice(y, 21, end), y, 21, IF end <= k THEN end ELSE k)
    BY <1>2, <1>7, SliceIsCut
  <2>2. Len(Slice(y, 21, end)) = K
    BY DEF end, K
  <2> QED
    BY <2>1, <2>2 DEF IsCut
<1> HIDE DEF taken
<1>10. CASE at = 21
  <2>1. end = 21 + ((K + 1) % 256)
    BY <1>7, <1>10 DEF end
  <2>2. k < end
    <3>1. K \in 0 .. 255
      BY <1>1 DEF Byte
    <3>2. \A x \in 0 .. 255 : (x + 1) % 256 = IF x = 255 THEN 0 ELSE x + 1
      OBVIOUS
    <3> QED
      BY <1>2, <1>7, <1>9, <2>1, <3>1, <3>2
  <2>3. taken = <<>>
    BY <1>2, <1>7, <1>8, <2>2
  <2>4. SubSeq(Changed(sealed, 0), 1, 0) = <<>>
    BY <1>1, ChangedIsSeq
  <2>5. taken # sealed
    BY <1>1, <2>3
  <2>6. 0 \in Nat /\ 0 \in 0 .. Len(sealed)
    BY <1>2
  <2> QED
    BY <2>3, <2>4, <2>5, <2>6, Zenon DEF IsTakenFor, taken, end
<1>11. CASE at # 21
  <2>1. end = 21 + K /\ end <= k
    BY <1>2, <1>7, <1>9, <1>11 DEF end
  <2> DEFINE n == k - end
             j == IF at > 21 + K THEN at - (21 + K) ELSE 0
             altered == Changed(sealed, j)
  <2>2. n \in 0 .. Len(sealed) /\ j \in Nat
    BY <1>1, <1>2, <1>7, <2>1
  <2>3. \A i \in Nat : i > 0 => (21 + K + i = at <=> i = j)
    BY <1>1, <1>2
  <2> HIDE DEF j
  <2>4. /\ altered \in Seq(Byte) /\ Len(altered) = Len(sealed)
        /\ \A i \in 1 .. Len(sealed) :
             altered[i] = IF i = j THEN (sealed[i] + 1) % 256 ELSE sealed[i]
    BY <1>1, ChangedIsSeq
  <2> HIDE DEF altered
  <2>5. Len(taken) = n /\ \A i \in 1 .. n : taken[i] = y[21 + K + i]
    BY <1>2, <1>8, <2>1, <2>2
  <2>6. \A i \in 1 .. n : taken[i] = altered[i]
    <3> SUFFICES ASSUME NEW i \in 1 .. n PROVE taken[i] = altered[i]
      OBVIOUS
    <3>1. i \in 1 .. Len(sealed) /\ 21 + K + i <= k /\ i \in Nat /\ i > 0
      BY <1>2, <1>7, <2>1, <2>2
    <3>2. y[21 + K + i] = IF 21 + K + i = at THEN (sealed[i] + 1) % 256 ELSE sealed[i]
      BY <1>6, <3>1, Zenon
    <3>3. 21 + K + i = at <=> i = j
      BY <2>3, <3>1
    <3>4. taken[i] = y[21 + K + i]
      BY <2>5
    <3> HIDE DEF n
    <3> QED
      BY <2>4, <3>1, <3>2, <3>3, <3>4
  <2>7. taken = SubSeq(altered, 1, n)
    <3> HIDE DEF n
    <3>1. /\ n \in Nat /\ SubSeq(altered, 1, n) \in Seq(Byte) /\ Len(SubSeq(altered, 1, n)) = n
          /\ \A i \in 1 .. n : SubSeq(altered, 1, n)[i] = altered[i]
      BY <1>2, <2>2, <2>4
    <3>2. \A i \in 1 .. n : taken[i] = SubSeq(altered, 1, n)[i]
      BY <2>6, <3>1
    <3> QED
      BY <1>8, <2>5, <3>1, <3>2, SameElements
  <2>8. ASSUME taken = sealed, Slice(y, 21, end) = key, Slice(y, 0, 16) = salt
        PROVE  k = Len(Content(salt, key, sealed)) /\ (at \in 1 .. k => at \in 17 .. 20)
    <3>1. k = 21 + K + Len(sealed)
      BY <1>2, <2>1, <2>5, <2>8
    <3>2. \A i \in 1 .. 16 : y[i] = salt[i]
      <4>1. IsCut(Slice(y, 0, 16), y, 0, 16)
        <5>1. 16 <= k
          BY <1>2, <1>7
        <5> QED
          BY <1>2, <5>1, SliceIsCut
      <4>2. \A i \in 1 .. 16 - 0 : salt[i] = y[0 + i]
        BY <2>8, <4>1, Zenon DEF IsCut
      <4>3. 16 - 0 = 16 /\ \A i \in 1 .. 16 : 0 + i = i
        OBVIOUS
      <4> QED
        BY <4>2, <4>3, Zenon
    <3>3. \A i \in 1 .. K : y[21 + i] = key[i]
      <4>1. IsCut(Slice(y, 21, end), y, 21, end)
        BY <1>2, <1>7, <2>1, SliceIsCut
      <4>2. end - 21 = K
        BY <1>2, <2>1
      <4> QED
        BY <2>8, <4>1, <4>2 DEF IsCut
    <3>4. \A i \in 1 .. Len(sealed) : y[21 + K + i] = sealed[i]
      BY <1>2, <2>1, <2>5, <2>8, <3>1
    <3>5. at \in 1 .. 16 => FALSE
      <4> SUFFICES ASSUME at \in 1 .. 16 PROVE FALSE
        OBVIOUS
      <4>1. y[at] = (salt[at] + 1) % 256 /\ y[at] = salt[at]
        <5>1. at <= k
          BY <1>2, <1>7
        <5> QED
          BY <1>3, <3>2, <5>1, Zenon
      <4>2. salt[at] \in Byte
        <5>1. salt \in Seq(Byte) /\ DOMAIN salt = 1 .. Len(salt)
          BY <1>1
        <5>2. \A i \in DOMAIN salt : salt[i] \in Byte
          BY <5>1, SeqElements
        <5> QED
          BY <1>1, <5>1, <5>2, Zenon
      <4> QED
        BY <4>1, <4>2, ChangedDiffers
    <3>6. ASSUME at > 21, at <= 21 + K PROVE FALSE
      <4> DEFINE i == at - 21
      <4>1. i \in 1 .. K /\ 21 + i = at /\ 21 + i <= k
        BY <1>1, <1>2, <2>1, <3>6
      <4> HIDE DEF i
      <4>2. y[21 + i] = (key[i] + 1) % 256 /\ y[21 + i] = key[i]
        BY <1>5, <3>3, <4>1
      <4>3. key[i] \in Byte
        BY <1>1, <4>1 DEF K
      <4> QED
        BY <4>2, <4>3, ChangedDiffers
    <3>7. ASSUME at > 21 + K, at <= k PROVE FALSE
      <4> DEFINE i == at - (21 + K)
      <4>1. i \in 1 .. Len(sealed) /\ 21 + K + i = at /\ 21 + K + i <= k
        BY <1>1, <1>2, <3>1, <3>7
      <4> HIDE DEF i
      <4>2. y[21 + K + i] = (sealed[i] + 1) % 256 /\ y[21 + K + i] = sealed[i]
        BY <1>6, <3>4, <4>1
      <4>3. sealed[i] \in Byte
        BY <1>1, <4>1
      <4> QED
        BY <4>2, <4>3, ChangedDiffers
    <3> QED
      BY <1>1, <1>2, <1>11, <3>1, <3>5, <3>6, <3>7
  <2> QED
    BY <2>2, <2>7, <2>8 DEF IsTakenFor, taken, end, altered
<1> QED
  BY <1>10, <1>11

\* The cipher authenticates: of what was sealed, with a byte changed or not, and cut off
\* anywhere, it opens nothing but all of it unchanged, and with no other key.
CipherAuthenticates ==
  \A derived \in Derived, other \in Derived, padded \in Seq(Byte), j \in Nat :
    \A n \in 0 .. Len(SealedWith(derived, padded)) :
      LET taken == SubSeq(Changed(SealedWith(derived, padded), j), 1, n)
      IN OpenedWith(other, taken) # Thrown => other = derived /\ taken = SealedWith(derived, padded)

\* What is not refused was sent for these keys and arrives as it was sent.
LEMMA ReadIsIntact ==
  ASSUME KeysAgree, NEW m \in Letter, m.kind = "data", ResultOf(m) # Thrown,
         CipherDecrypts, CipherAuthenticates, ThrownIsApart
  PROVE  IsIntact(m)
<1>1. PICK auth \in Auth, d \in PrivateKey : KeysAre(auth, d)
  BY DEF KeysAgree
<1> DEFINE a == SecretFor(auth, m)
           u == KeyFor(d, m)
           s == m.serverKey
           salt == m.salt
           at == m.changed
           key == PublicKeyOf[s]
           derived == DerivedBySender(u, s, a, salt)
           sealed == SealedWith(derived, m.padded)
           c == Content(salt, key, sealed)
           x == Changed(c, at)
           e == fromBufferToUrlB64(x)
           text == DataOf(m)
           content == fromUrlB64ToBuffer(text)
           end == 21 + content[21]
           keyTaken == Slice(content, 21, end)
           saltTaken == Slice(content, 0, 16)
           taken == Slice(content, end, Len(content))
           other == DerivedFor(keys, keyTaken, saltTaken)
<1>2. /\ keys = [auth |-> auth, ecKeys |-> EcKeys(d)]
      /\ auth \in Seq(Byte) /\ d \in PrivateKey
      /\ KnownTo(m).auth = fromBufferToUrlB64(auth)
      /\ KnownTo(m).p256dh = fromBufferToUrlB64(PublicKeyOf[d])
  BY <1>1, KeysAreKnown
<1>3. /\ m.padded \in Seq(Byte) /\ s \in PrivateKey
      /\ salt \in Seq(Byte) /\ Len(salt) = 16 /\ at \in Nat /\ m.lost \in Nat
  BY LetterAssumption
<1>4. /\ a \in Seq(Byte) /\ u \in PrivateKey
      /\ AuthOf(m) = fromBufferToUrlB64(a)
      /\ P256dhOf(m) = fromBufferToUrlB64(PublicKeyOf[u])
      /\ Encrypted(m) = c
      /\ derived \in Derived
      /\ sealed \in Seq(Byte) /\ Len(sealed) > Len(m.padded)
  BY <1>1, LetterIsEncrypted DEF SealedFor
<1>5. Len(sealed) > 0
  BY <1>3, <1>4
<1>6. key \in Seq(Byte) /\ Len(key) \in Byte
  BY <1>3, KeysAssumption
<1>7. text = SubSeq(e, 1, Len(e) - m.lost)
  BY <1>4 DEF DataOf
<1>8. /\ content # Thrown /\ ~(Len(content) <= 20) /\ IsPoint(keyTaken)
      /\ OpenedWith(other, taken) # Thrown
  BY WhatIsRead DEF ResultOf
<1> HIDE DEF a, u, key, sealed, salt, at, text
<1>9. c \in Seq(Byte) /\ Len(c) > 0
  <2>1. IsMadeOf(c, salt, <<0, 0, 4, 0>>, <<Len(key)>>, key, sealed)
    BY <1>3, <1>4, <1>6, ContentIsMade
  <2>2. c \in Seq(Byte) /\ Len(c) = 21 + Len(key) + Len(sealed)
    BY <2>1, Zenon DEF IsMadeOf
  <2> QED
    BY <1>4, <1>6, <2>2
<1> HIDE DEF c
<1>10. x \in Seq(Byte) /\ Len(x) = Len(c)
  BY <1>9, ChangedIsSeq
<1> HIDE DEF x
<1>11. PICK k \in 0 .. Len(x) :
         /\ content = SubSeq(x, 1, k)
         /\ k = Len(x) => m.lost = 0 \/ Len(x) = 0
  BY <1>3, <1>7, <1>8, <1>10, CutIsDecoded
<1> HIDE DEF content
<1>12. IsAltered(content, k, at, salt, key, sealed)
  BY <1>3, <1>4, <1>5, <1>6, <1>10, <1>11 DEF IsAltered, x, c
<1>13. PICK f \in PrivateKey : keyTaken = PublicKeyOf[f]
  BY <1>8 DEF IsPoint
<1>14. Len(keyTaken) = Len(key)
  BY <1>3, <1>13, KeysAssumption DEF key
<1>15. /\ \E j \in Nat, n \in 0 .. Len(sealed) : taken = SubSeq(Changed(sealed, j), 1, n)
       /\ taken = sealed /\ keyTaken = key /\ saltTaken = salt =>
            /\ k = Len(c)
            /\ at \in 1 .. k => at \in 17 .. 20
  <2>1. IsTakenFor(content, k, at, salt, key, sealed)
    BY <1>8, <1>12, <1>14, WhatIsTakenForSealed, Zenon
  <2> QED
    BY <2>1 DEF IsTakenFor, c
<1>16. saltTaken \in Seq(Byte)
  <2>1. content \in Seq(Byte)
    BY <1>12, AlteredElements
  <2>2. 0 \in Nat /\ 16 \in Nat
    OBVIOUS
  <2> QED
    BY <2>1, <2>2, SliceIsCut, Zenon DEF IsCut
<1> HIDE DEF keyTaken, saltTaken, taken, end
<1>17. other = DerivedBySender(d, f, auth, saltTaken)
  BY <1>2, <1>13, DerivedByReceiver DEF DerivedFor, EcKeys
<1>18. other \in Derived
  BY <1>2, <1>16, <1>17 DEF Derived
<1> HIDE DEF other
<1>19. other = derived /\ taken = sealed
  <2> HIDE DEF derived
  <2>1. PICK j \in Nat, n \in 0 .. Len(sealed) : taken = SubSeq(Changed(sealed, j), 1, n)
    BY <1>15
  <2> QED
    BY <1>3, <1>4, <1>8, <1>18, <2>1 DEF CipherAuthenticates, sealed
<1>20. /\ PublicKeyOf[d] = PublicKeyOf[u] /\ PublicKeyOf[f] = PublicKeyOf[s]
       /\ auth = a /\ saltTaken = salt
  <2>1. CanDerive(u, s, a, salt) /\ CanDerive(d, f, auth, saltTaken)
    BY <1>2, <1>3, <1>4, <1>16 DEF CanDerive
  <2>2. DerivedBySender(u, s, a, salt) = DerivedBySender(d, f, auth, saltTaken)
    BY <1>17, <1>19
  <2> HIDE DEF s
  <2>3. /\ PublicKeyOf[u] = PublicKeyOf[d] /\ PublicKeyOf[s] = PublicKeyOf[f]
        /\ a = auth /\ salt = saltTaken
    BY <2>1, <2>2, DerivationIsInjective
  <2> QED
    BY <2>3
<1>21. k = Len(c) /\ (at \in 1 .. k => at \in 17 .. 20)
  BY <1>13, <1>15, <1>19, <1>20 DEF key
<1>22. m.lost = 0 /\ (at \in DOMAIN Encrypted(m) => at \in 17 .. 20)
  <2>1. DOMAIN c = 1 .. Len(c)
    BY <1>9
  <2> QED
    BY <1>4, <1>9, <1>10, <1>11, <1>21, <2>1
<1>23. AuthOf(m) = KnownTo(m).auth /\ P256dhOf(m) = KnownTo(m).p256dh
  BY <1>2, <1>4, <1>20
<1> QED
  BY <1>22, <1>23 DEF IsIntact, at

\* Listeners are given exactly what was encrypted for this subscription, or null for a
\* notification without data: whatever is sent, in any order and with any restarts, nothing
\* that was changed on the way, cut off, padded wrongly or meant for other keys, with any
\* cipher that decrypts and authenticates (push-subscription.ts:115-163, crypto.ts:68-85,
\* 340-353).
THEOREM HeardWasSent ==
  ASSUME CipherDecrypts, CipherAuthenticates, ThrownIsApart
  PROVE  DeliverySpec => []HeardIsSent
<1>1. ASSUME DeliveryInv PROVE HeardIsSent
  <2> DEFINE m == current
  <2> SUFFICES ASSUME dispatching, ~(heard = Undefined /\ HasNoData(m))
               PROVE  \E n \in 0 .. Len(m.padded) :
                        LET data == SubSeq(m.padded, 1, n)
                        IN IsSent(m, data) /\ heard = fromBufferToUtf8(data)
    BY DEF HeardIsSent
  <2>1. m \in Letter /\ m.kind = "data" /\ ResultOf(m) # Thrown /\ heard = fromBufferToUtf8(ResultOf(m))
    BY <1>1 DEF DeliveryInv, DispatchAgrees
  <2>2. KeysAgree
    BY <1>1 DEF DeliveryInv
  <2>3. m.padded \in Seq(Byte)
    BY <2>1, LetterAssumption
  <2> DEFINE data == removePadding(m.padded, TRUE)
             n == Len(data)
  <2> HIDE DEF m
  <2>4. IsIntact(m)
    BY <2>1, <2>2, ReadIsIntact
  <2>5. ResultOf(m) = data
    BY <2>1, <2>2, <2>4, IntactIsRead
  <2>6. PICK zeros \in Nat : m.padded = Padded(data, zeros)
    BY <2>1, <2>3, <2>5, OnlyPaddedIsRead
  <2>7. data \in Seq(Byte)
    BY <2>1, <2>3, <2>5, OnlyPaddedIsRead
  <2> HIDE DEF data
  <2>8. /\ n \in 0 .. Len(m.padded) /\ zeros \in 0 .. Len(m.padded)
        /\ SubSeq(m.padded, 1, n) = data
    BY <2>6, <2>7 DEF Padded
  <2>9. IsSent(m, data)
    BY <2>4, <2>6, <2>8 DEF IsSent, IsPadded
  <2> QED
    BY <2>1, <2>5, <2>8, <2>9
<1> QED
  BY <1>1, DeliveryInvariant, PTL

-----------------------------------------------------------------------------
(* Types *)

LEMMA TextOfBytes ==
  ASSUME NEW b \in Seq(Byte)
  PROVE  IsText(fromBufferToUtf8(b))
<1> DEFINE T == {i \in 1 .. Len(b) : i = 1 \/ ~IsContinued(b, i - 1)}
           text == fromBufferToUtf8(b)
<1>1. /\ DOMAIN text = T
      /\ \A i \in T : text[i] = IF b[i] < 128 THEN b[i]
                                ELSE IF IsContinued(b, i)
                                  THEN (b[i] - 192) * 64 + (b[i + 1] - 128) ELSE Replacement
  BY DEF fromBufferToUtf8
<1>2. Replacement \in Nat /\ 2047 <= Replacement
  BY DEF Replacement
<1>3. T \subseteq Nat /\ T \subseteq 1 .. Len(b)
  OBVIOUS
<1> HIDE DEF T, text
<1>4. ASSUME NEW i \in T PROVE text[i] \in CodePoint
  <2>1. b[i] \in Byte
    <3>1. DOMAIN b = 1 .. Len(b)
      OBVIOUS
    <3> QED
      BY <1>3, <3>1, SeqElements
  <2> DEFINE two == (b[i] - 192) * 64 + (b[i + 1] - 128)
  <2>2. text[i] = IF b[i] < 128 THEN b[i] ELSE IF IsContinued(b, i) THEN two ELSE Replacement
    BY <1>1
  <2> HIDE DEF two
  <2>3. CASE b[i] < 128
    <3>1. \A v \in Byte : v < 128 => v \in CodePoint
      BY <1>2 DEF Byte, CodePoint
    <3>2. text[i] = b[i]
      BY <2>3, <2>2
    <3> QED
      BY <2>1, <2>3, <3>1, <3>2
  <2>4. CASE ~(b[i] < 128) /\ IsContinued(b, i)
    <3> DEFINE v == b[i]
               w == b[i + 1]
               z == (v - 192) * 64 + (w - 128)
    <3>1. v \in 194 .. 223 /\ w \in 128 .. 191
      BY <2>4, Zenon DEF IsContinued
    <3>2. text[i] = z
      BY <2>4, <2>2 DEF two
    <3> HIDE DEF v, w
    <3>3. v \in Int /\ 194 <= v /\ v <= 223 /\ w \in Int /\ 128 <= w /\ w <= 191
      BY <3>1
    <3>4. z \in Int /\ 0 <= z /\ z <= 2047
      BY <3>3
    <3> HIDE DEF z
    <3> QED
      BY <1>2, <3>2, <3>4 DEF CodePoint
  <2>5. CASE ~(b[i] < 128) /\ ~IsContinued(b, i)
    <3>1. text[i] = Replacement
      BY <2>5, <2>2
    <3>2. Replacement \in CodePoint
      BY <1>2 DEF CodePoint
    <3> QED
      BY <3>1, <3>2
  <2> QED
    BY <2>3, <2>4, <2>5
<1> QED
  BY <1>1, <1>3, <1>4 DEF IsText, text

LEMMA ResultsAreBytes ==
  ASSUME KeysAgree, NEW m \in Letter, m.kind = "data",
         CipherDecrypts, CipherAuthenticates, ThrownIsApart
  PROVE  ResultOf(m) \in Seq(Byte) \cup {Thrown}
<1> SUFFICES ASSUME ResultOf(m) # Thrown PROVE ResultOf(m) \in Seq(Byte)
  OBVIOUS
<1>1. ResultOf(m) = removePadding(m.padded, TRUE)
  BY ReadIsIntact, IntactIsRead
<1>2. m.padded \in Seq(Byte)
  BY LetterAssumption
<1> QED
  BY <1>1, <1>2, OnlyPaddedIsRead

\* The keys of the process and what it holds of its notifications are of their types:
\* bytes, or that something has thrown (push-subscription.ts:115-163, 200-302).
THEOREM DeliveryTyped ==
  ASSUME CipherDecrypts, CipherAuthenticates, ThrownIsApart
  PROVE  DeliverySpec => []DeliveryTypeOK
<1>1. ASSUME DeliveryInv, EventInv PROVE DeliveryTypeOK
  <2>1. keys.auth \in Seq(Byte) /\ keys.ecKeys.privateKey \in PrivateKey
    <3>1. PICK auth \in Auth, d \in PrivateKey : KeysAre(auth, d)
      BY <1>1 DEF DeliveryInv, KeysAgree
    <3> QED
      BY <3>1, KeysAreKnown DEF EcKeys
  <2>2. \A m \in Letter : m.kind = "data" => ResultOf(m) \in Seq(Byte) \cup {Thrown}
    BY <1>1, ResultsAreBytes DEF DeliveryInv
  <2>3. \A p \in pending : p.letter \in Letter /\ p.result \in Seq(Byte) \cup {Thrown}
    BY <1>1, <2>2 DEF DeliveryInv, ResultsAgree
  <2>4. current \in Letter \cup {Undefined} /\ (dispatching <=> current # Undefined)
    BY <1>1 DEF DeliveryInv, DispatchAgrees
  <2>TT. heard = Undefined \/ IsText(heard)
    <3> SUFFICES ASSUME heard # Undefined PROVE IsText(heard)
      OBVIOUS
    <3>1. /\ current \in Letter /\ current.kind = "data" /\ ResultOf(current) # Thrown
          /\ heard = fromBufferToUtf8(ResultOf(current))
      BY <1>1 DEF DeliveryInv, DispatchAgrees
    <3> QED
      BY <2>2, <3>1, TextOfBytes
  <2>6. \/ answer = Undefined
        \/ answer.letter \in Letter /\ answer.code \in {"SUCCESS", "DECRYPT_FAIL", "OTHER_FAIL"}
    BY <1>1 DEF DeliveryInv, AnswersAgree
  <2> QED
    BY <1>1, <2>1, <2>3, <2>4, <2>TT, <2>6 DEF DeliveryTypeOK, EventInv
<1> QED
  BY <1>1, DeliveryInvariant, EventInvariant, DeliveryImplementsEvents, PTL

\* The process never has other keys than the storage and the application: a restart finds
\* what it had, bit by bit (push-subscription.ts:200-232, 252-279).
THEOREM KeysNeverChange ==
  ASSUME ThrownIsApart
  PROVE  DeliverySpec => [][keys' = keys /\ stored' = stored]_deliveryVars
<1>1. DeliveryInv /\ [DeliveryNext]_deliveryVars => keys' = keys /\ stored' = stored
  BY KeysStay DEF DeliveryInv
<1> QED
  BY <1>1, DeliveryInvariant, PTL DEF DeliverySpec
=============================================================================
