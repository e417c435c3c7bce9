---------------------------- MODULE EventManager ----------------------------
(***************************************************************************)
(* src/event-manager.ts: the listeners of one event, and its dispatch.     *)
(*                                                                         *)
(* A dispatch is one JavaScript turn, but a listener is code of the        *)
(* application that may add and remove listeners, itself included, and may *)
(* throw; so a dispatch is a step per listener, and nothing else happens   *)
(* until it is over.  The code iterates over the live Map.  A listener     *)
(* gets a new UUID each time it is added, and a Map keeps the order of     *)
(* insertion: a listener is named by the number of its registration, and   *)
(* the iteration goes on with the next number that is still in the map.    *)
(***************************************************************************)
EXTENDS Naturals, Sequences, FiniteSets

CONSTANT MaxListeners  \* bound on the listeners one manager is ever given

ASSUME EventManagerAssumption == MaxListeners \in Nat

VARIABLES
  callbacks,    \* the listeners in the map
  added,        \* how many were registered so far
  dispatching,  \* is a dispatch under way?
  threw,        \* did a listener throw in the dispatch under way, or else in the last one?
  expected,     \* history: the listeners registered when it began
  calls         \* history: the listeners it has called, in that order

eventVars == <<callbacks, added, dispatching, threw, expected, calls>>

EventTypeOK ==
  /\ added \in 0 .. MaxListeners
  /\ callbacks \subseteq 1 .. added
  /\ dispatching \in BOOLEAN
  /\ threw \in BOOLEAN
  /\ expected \subseteq 1 .. added
  /\ calls \in Seq(1 .. added)

EventInit ==
  /\ callbacks = {}
  /\ added = 0
  /\ dispatching = FALSE /\ threw = FALSE
  /\ expected = {} /\ calls = <<>>

\* The application between two dispatches.
AddEventListener ==
  /\ ~dispatching
  /\ added < MaxListeners
  /\ added' = added + 1
  /\ callbacks' = callbacks \cup {added + 1}
  /\ UNCHANGED <<dispatching, threw, expected, calls>>

RemoveEventListener ==
  /\ ~dispatching
  /\ \E l \in callbacks : callbacks' = callbacks \ {l}
  /\ UNCHANGED <<added, dispatching, threw, expected, calls>>

BeginDispatch ==
  /\ ~dispatching
  /\ dispatching' = TRUE
  /\ threw' = FALSE
  /\ expected' = callbacks
  /\ calls' = <<>>
  /\ UNCHANGED <<callbacks, added>>

\* How far the iteration has come.
Cursor == IF calls = <<>> THEN 0 ELSE calls[Len(calls)]

\* A plausible slip: an array, and the iteration is by index.
IsNextByIndex(l) ==
  /\ l \in callbacks
  /\ Cardinality({k \in callbacks : k <= l}) = Len(calls) + 1

\* The next value of the iterator over the live map.
IsNext(l) ==
  /\ l \in callbacks
  /\ l > Cursor
  /\ \A k \in callbacks : k > Cursor => l <= k

\* What a listener may do to the map while it is called: remove any, add one.
ListenerChangesMap ==
  \E removed \in SUBSET callbacks :
    \/ /\ callbacks' = callbacks \ removed
       /\ added' = added
    \/ /\ added < MaxListeners
       /\ added' = added + 1
       /\ callbacks' = (callbacks \ removed) \cup {added + 1}

\* What a listener throws ends the dispatch.
CallListener(l) ==
  /\ dispatching
  /\ IsNext(l)
  /\ calls' = Append(calls, l)
  /\ ListenerChangesMap
  /\ \E throws \in BOOLEAN : threw' = throws /\ dispatching' = ~throws
  /\ UNCHANGED expected

EndDispatch ==
  /\ dispatching
  /\ \A l \in 1 .. added : ~IsNext(l)
  /\ dispatching' = FALSE
  /\ UNCHANGED <<callbacks, added, threw, expected, calls>>

\* The process ends, and a new manager takes the place of this one.
DiscardManager ==
  /\ ~dispatching
  /\ callbacks' = {} /\ added' = 0
  /\ threw' = FALSE
  /\ expected' = {} /\ calls' = <<>>
  /\ UNCHANGED dispatching

EventNext ==
  \/ AddEventListener \/ RemoveEventListener \/ DiscardManager
  \/ BeginDispatch \/ EndDispatch
  \/ \E l \in 1 .. added : CallListener(l)

EventSpec == EventInit /\ [][EventNext]_eventVars

-----------------------------------------------------------------------------
(* Properties *)

Called == {calls[i] : i \in DOMAIN calls}

\* Unless a listener throws, a dispatch reaches every listener that was registered
\* when it began and has not been removed since, whatever the listeners did to the
\* map meanwhile (event-manager.ts:34-37).
ReachesAll == ~dispatching /\ ~threw => expected \cap callbacks \subseteq Called
=============================================================================
