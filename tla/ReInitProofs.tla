---------------------------- MODULE ReInitProofs ----------------------------
(* What reInitAllSubscriptions never comes to, for any number of subscriptions. *)
EXTENDS ReInit, TLAPS

Entry == [key : Key, old : BOOLEAN, eventManager : Key \cup {None}]

\* There is always an entry ahead when a round begins, since the round before has
\* added one; none of those that are expected has an event manager.
RoundsGoOn ==
  /\ ahead \in Seq(Entry)
  /\ step \in {"next", "awaiting", "failed"}
  /\ step = "next" => ahead # <<>>
  /\ registering \subseteq [key : Key, eventManager : {None}]

OldInMap == \A i \in DOMAIN Subscribed : InMap(OldEntry(Subscribed[i]))

ReInitInv == RoundsGoOn /\ OldInMap

LEMMA OldEntries ==
  ASSUME Subscribed \in Seq(Key)
  PROVE  \A i \in DOMAIN Subscribed : OldEntry(Subscribed[i]) \in Entry
BY DEF OldEntry, Entry

LEMMA ReInitInvInit ==
  ASSUME Subscribed \in Seq(Key), Subscribed # <<>>, ReInitInit
  PROVE  ReInitInv
<1>1. ahead \in Seq(Entry)
  BY OldEntries DEF ReInitInit
<1>2. ahead # <<>>
  BY DEF ReInitInit
<1>3. OldInMap
  BY DEF OldInMap, InMap, ReInitInit
<1> QED
  BY <1>1, <1>2, <1>3 DEF ReInitInit, ReInitInv, RoundsGoOn

\* The head that is passed stays in the map.
LEMMA PassingKeepsMap ==
  ASSUME ahead \in Seq(Entry), ahead # <<>>,
         passed' = passed \cup {Head(ahead)}, ahead' = Tail(ahead),
         NEW entry, InMap(entry)
  PROVE  InMap(entry)'
<1>1. CASE entry \in passed
  BY <1>1 DEF InMap
<1>2. CASE \E i \in DOMAIN ahead : ahead[i] = entry
  <2>1. PICK i \in DOMAIN ahead : ahead[i] = entry
    BY <1>2
  <2>2. CASE i = 1
    BY <2>1, <2>2 DEF InMap
  <2>3. CASE i # 1
    <3>1. i - 1 \in DOMAIN Tail(ahead) /\ Tail(ahead)[i - 1] = ahead[i]
      BY <2>3
    <3> QED
      BY <2>1, <3>1 DEF InMap
  <2> QED
    BY <2>2, <2>3
<1> QED
  BY <1>1, <1>2 DEF InMap

\* What is appended takes nothing away.
LEMMA AppendingKeepsMap ==
  ASSUME ahead \in Seq(Entry), NEW e \in Entry, passed' = passed, ahead' = Append(ahead, e),
         NEW entry, InMap(entry)
  PROVE  InMap(entry)'
<1>1. CASE entry \in passed
  BY <1>1 DEF InMap
<1>2. CASE \E i \in DOMAIN ahead : ahead[i] = entry
  <2>1. PICK i \in DOMAIN ahead : ahead[i] = entry
    BY <1>2
  <2>2. i \in DOMAIN ahead' /\ ahead'[i] = entry
    BY <2>1
  <2> QED
    BY <2>2 DEF InMap
<1> QED
  BY <1>1, <1>2 DEF InMap

LEMMA ReInitInvStep ==
  ASSUME ReInitInv, [ReInitNext]_reInitVars
  PROVE  ReInitInv'
<1> USE DEF ReInitInv, RoundsGoOn
<1>1. CASE NextRound
  <2>1. Head(ahead) \in Entry /\ Tail(ahead) \in Seq(Entry)
    BY <1>1 DEF NextRound
  <2>2. RoundsGoOn'
    BY <1>1, <2>1 DEF NextRound, expectRegister, Entry
  <2>3. OldInMap'
    BY <1>1, PassingKeepsMap DEF NextRound, OldInMap
  <2> QED
    BY <1>1, <2>2, <2>3 DEF NextRound
<1>2. CASE SendFails
  BY <1>2 DEF SendFails, OldInMap, InMap
<1>3. CASE Registered
  <2>1. PICK r \in registering :
          /\ registering' = registering \ {r}
          /\ ahead' = Append(ahead, [key |-> r.key, old |-> FALSE, eventManager |-> r.eventManager])
          /\ notified' = notified \cup ({r.eventManager} \ {None})
          /\ step' = IF step = "awaiting" /\ r.key = current THEN "next" ELSE step
          /\ UNCHANGED <<passed, current>>
    BY <1>3 DEF Registered
  <2> DEFINE e == [key |-> r.key, old |-> FALSE, eventManager |-> r.eventManager]
  <2>2. e \in Entry /\ r.eventManager = None
    BY DEF Entry
  <2>3. ahead' = Append(ahead, e)
    BY <2>1
  <2> HIDE DEF e
  <2>4. ahead' \in Seq(Entry) /\ ahead' # <<>>
    BY <2>2, <2>3
  <2>5. OldInMap'
    BY <2>1, <2>2, <2>3, AppendingKeepsMap DEF OldInMap
  <2> QED
    BY <2>1, <2>2, <2>4, <2>5
<1>4. CASE EndRounds
  BY <1>4 DEF EndRounds
<1>5. CASE DeleteOld
  BY <1>5 DEF DeleteOld
<1>6. CASE Return
  BY <1>6 DEF Return
<1>7. CASE UNCHANGED reInitVars
  BY <1>7 DEF reInitVars, OldInMap, InMap
<1> QED
  BY <1>1, <1>2, <1>3, <1>4, <1>5, <1>6, <1>7 DEF ReInitNext

LEMMA ReInitInvariant ==
  ASSUME Subscribed \in Seq(Key), Subscribed # <<>>
  PROVE  ReInitSpec => []ReInitInv
<1>1. ReInitInit => ReInitInv
  BY ReInitInvInit
<1>2. ReInitInv /\ [ReInitNext]_reInitVars => ReInitInv'
  BY ReInitInvStep
<1> QED
  BY <1>1, <1>2, PTL DEF ReInitSpec

\* With any subscription in the map the call never gets as far as to delete one, so
\* all the subscriptions of before stay in the map: the iteration over the live map
\* meets what its own rounds add (subscription-handler.ts:84, 48).
THEOREM ReInitNeverDeletes ==
  ASSUME Subscribed \in Seq(Key), Subscribed # <<>>
  PROVE  ReInitSpec => [](step \notin {"deleting", "done"} /\ OldInMap)
<1>1. ReInitInv => step \notin {"deleting", "done"} /\ OldInMap
  BY DEF ReInitInv, RoundsGoOn
<1> QED
  BY <1>1, ReInitInvariant, PTL
=============================================================================
