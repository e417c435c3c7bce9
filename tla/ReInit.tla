------------------------------- MODULE ReInit -------------------------------
(***************************************************************************)
(* One call of SubscriptionHandler.reInitAllSubscriptions                  *)
(* (src/subscription-handler.ts:82-97): a registration for every           *)
(* subscription of the map, with PushSubscription.reInit, RegisterSender   *)
(* and RegisterHandler, and then the end of the old ones.                  *)
(*                                                                         *)
(* The loop iterates over the live map, and every round adds to it.  What  *)
(* the iteration has passed is a set, since no further round depends on    *)
(* its order or on how often a key occurs in it; what is ahead is a        *)
(* sequence.  So the state space is finite without a bound on the rounds.  *)
(*                                                                         *)
(* The application makes no call meanwhile, and the server answers 200;    *)
(* Registration has the other answers, expiry and the storage.             *)
(***************************************************************************)
EXTENDS Naturals, Sequences

CONSTANTS
  Key,         \* the application server keys
  Subscribed,  \* those of the subscriptions in the map, a sequence in its order
  None         \* no event manager

VARIABLES
  passed,       \* the entries of the map which the iteration has passed
  ahead,        \* the entries that are still to come
  step,         \* how far the call has come
  current,      \* the key of the subscription whose reInit is awaited
  registering,  \* the registrations that are expected
  notified      \* the event managers that have dispatched pushsubscriptionchange

reInitVars == <<passed, ahead, step, current, registering, notified>>

\* An entry of the map when the loop begins.  Its event manager, which has the
\* listeners of the application, goes by its key.
OldEntry(key) == [key |-> key, old |-> TRUE, eventManager |-> key]

ReInitInit ==
  /\ passed = {}
  /\ ahead = [i \in DOMAIN Subscribed |-> OldEntry(Subscribed[i])]
  /\ step = "next"
  /\ current = None
  /\ registering = {}
  /\ notified = {}

\* What buildMessage of RegisterSender enters in the queue: it is given the event
\* manager, and leaves it out (register-sender.ts:39).
expectRegister(key, eventManager) == [key |-> key, eventManager |-> None]

\* The next entry is passed, and its reInit sends and awaits the registration.
NextRound ==
  /\ step = "next" /\ ahead # <<>>
  /\ passed' = passed \cup {Head(ahead)}
  /\ ahead' = Tail(ahead)
  /\ current' = Head(ahead).key
  /\ registering' = registering \cup {expectRegister(Head(ahead).key, Head(ahead).eventManager)}
  /\ step' = "awaiting"
  /\ UNCHANGED notified

\* There is no websocket, or it is still connecting: send throws, and so does the loop.
SendFails ==
  /\ step = "next" /\ ahead # <<>>
  /\ step' = "failed"
  /\ UNCHANGED <<passed, ahead, current, registering, notified>>

\* The answer: addSubscription.  The constructor dispatches pushsubscriptionchange to
\* an event manager that is passed on, and makes a new one, without listeners, if there
\* is none; here it stays None.
Registered ==
  \E r \in registering :
    /\ registering' = registering \ {r}
    /\ ahead' = Append(ahead, [key |-> r.key, old |-> FALSE, eventManager |-> r.eventManager])
    /\ notified' = notified \cup ({r.eventManager} \ {None})
    /\ step' = IF step = "awaiting" /\ r.key = current THEN "next" ELSE step
    /\ UNCHANGED <<passed, current>>

EndRounds ==
  /\ step = "next" /\ ahead = <<>>
  /\ step' = "deleting"
  /\ UNCHANGED <<passed, ahead, current, registering, notified>>

\* The second loop: the subscriptions of before.
DeleteOld ==
  /\ step = "deleting"
  /\ \E e \in passed : e.old /\ passed' = passed \ {e}
  /\ UNCHANGED <<ahead, step, current, registering, notified>>

Return ==
  /\ step = "deleting"
  /\ \A e \in passed : ~e.old
  /\ step' = "done"
  /\ UNCHANGED <<passed, ahead, current, registering, notified>>

ReInitNext == NextRound \/ SendFails \/ Registered \/ EndRounds \/ DeleteOld \/ Return

\* Answers arrive, and what the loops do between two awaits is done.
ReInitFairness ==
  /\ WF_reInitVars(NextRound \/ EndRounds)
  /\ WF_reInitVars(Registered)
  /\ WF_reInitVars(DeleteOld \/ Return)

ReInitSpec == ReInitInit /\ [][ReInitNext]_reInitVars

FairReInitSpec == ReInitSpec /\ ReInitFairness

-----------------------------------------------------------------------------
(* Properties *)

InMap(entry) == entry \in passed \/ \E i \in DOMAIN ahead : ahead[i] = entry

\* "deletes all old subscriptions" (subscription-handler.spec.ts:139): unless a send
\* fails, the subscriptions of before are gone at some time (subscription-handler.ts:82-97).
OldAreDeleted ==
  <>(step = "failed" \/ \A i \in DOMAIN Subscribed : ~InMap(OldEntry(Subscribed[i])))
=============================================================================
