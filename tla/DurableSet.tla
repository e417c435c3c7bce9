----------------------------- MODULE DurableSet -----------------------------
(***************************************************************************)
(* What the persistence of subscriptions promises, with no steps and no    *)
(* crashes in it: a set of channels that would be restored by the next     *)
(* start.  A channel enters the set at once and completely, leaves it at   *)
(* once and completely, and never comes back after it has left.            *)
(***************************************************************************)
CONSTANT Channel

VARIABLES
  members,   \* the channels the next start restores
  entered    \* every channel that was ever a member

Init ==
  /\ members = {}
  /\ entered = {}

\* addSubscription, seen from the outside.
Insert(c) ==
  /\ c \notin entered
  /\ members' = members \cup {c}
  /\ entered' = entered \cup {c}

\* removeSubscription, seen from the outside.
Delete(c) ==
  /\ c \in members
  /\ members' = members \ {c}
  /\ UNCHANGED entered

Next == \E c \in Channel : Insert(c) \/ Delete(c)

vars == <<members, entered>>

Spec == Init /\ [][Next]_vars
=============================================================================
