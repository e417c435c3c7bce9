-------------------------- MODULE ConnectionProofs --------------------------
(***************************************************************************)
(* Theorems about Connection, for any set of uaids and any number of       *)
(* closes and stops.                                                       *)
(***************************************************************************)
EXTENDS Connection, TLAPS

\* A process that has not started has no connection and makes none.
IdleProcess == ~running => websocket = "none" /\ delaying = 0

\* Before destroy there are no late connects; after it, the delay that was running
\* is the only one there will ever be.
LateConnectsBounded ==
  /\ reconnect => lateConnects = 0
  /\ ~reconnect => lateConnects + delaying <= 1

ConnInv == ConnTypeOK /\ SingleConnection /\ IdleProcess /\ LateConnectsBounded

\* The invariant holds initially and is preserved by every step.
LEMMA InitConnInv == ConnInit => ConnInv
<1> SUFFICES ASSUME ConnInit PROVE ConnInv
  OBVIOUS
<1>1. ConnTypeOK
  <2>1. running \in BOOLEAN /\ reconnect \in BOOLEAN /\ created \in BOOLEAN
    BY DEF ConnInit
  <2>2. QED
    BY <2>1, ConnectionAssumption DEF ConnInit, ConnTypeOK
<1>2. SingleConnection
  BY DEF ConnInit, SingleConnection
<1>3. IdleProcess
  BY DEF ConnInit, IdleProcess
<1>4. LateConnectsBounded
  BY DEF ConnInit, LateConnectsBounded
<1>5. QED
  BY <1>1, <1>2, <1>3, <1>4 DEF ConnInv

LEMMA NextConnInv == ConnInv /\ [ConnNext]_connVars => ConnInv'
<1> SUFFICES ASSUME ConnInv, [ConnNext]_connVars PROVE ConnInv'
  OBVIOUS
<1> USE ConnectionAssumption DEF ConnInv, ConnTypeOK, SingleConnection, IdleProcess,
        LateConnectsBounded, wsVars, helloVars, wireVars, history
<1>1. CASE Start
  BY <1>1 DEF Start
<1>2. CASE Open
  BY <1>2 DEF Open
<1>3. CASE Close
  BY <1>3 DEF Close, OnClose
<1>4. CASE Closed
  BY <1>4 DEF Closed, OnClose
<1>5. CASE Reconnect
  BY <1>5 DEF Reconnect
<1>6. CASE Destroy
  <2>1. ConnTypeOK'
    BY <1>6 DEF Destroy
  <2>2. SingleConnection'
    BY <1>6 DEF Destroy
  <2>3. IdleProcess'
    BY <1>6 DEF Destroy
  <2>4. LateConnectsBounded'
    BY <1>6 DEF Destroy
  <2>5. QED
    BY <2>1, <2>2, <2>3, <2>4
<1>7. CASE ServerHello
  BY <1>7 DEF ServerHello
<1>8. ASSUME NEW u \in Uaid, HandleHello(u) PROVE ConnInv'
  BY <1>8 DEF HandleHello, Received
<1>9. ASSUME NEW u \in Uaid, HandleNewUaid(u) PROVE ConnInv'
  BY <1>9 DEF HandleNewUaid, Received
<1>10. ASSUME NEW u \in Uaid, UaidWritten(u) PROVE ConnInv'
  BY <1>10 DEF UaidWritten
<1>11. CASE HelloTimer
  BY <1>11 DEF HelloTimer
<1>12. CASE Stop
  <2>0. (running \in BOOLEAN /\ reconnect \in BOOLEAN /\ created \in BOOLEAN)'
    BY <1>12 DEF Stop
  <2>1. ConnTypeOK'
    BY <1>12, <2>0 DEF Stop
  <2>2. SingleConnection'
    BY <1>12 DEF Stop
  <2>3. IdleProcess'
    BY <1>12 DEF Stop
  <2>4. LateConnectsBounded'
    BY <1>12 DEF Stop
  <2>5. QED
    BY <2>1, <2>2, <2>3, <2>4
<1>13. CASE UNCHANGED connVars
  BY <1>13 DEF connVars
<1>14. QED
  BY <1>1, <1>2, <1>3, <1>4, <1>5, <1>6, <1>7, <1>8, <1>9, <1>10, <1>11, <1>12, <1>13
     DEF ConnNext

\* The state of a Connection is well-formed in every reachable state.
THEOREM ConnTypeCorrect == ConnSpec => []ConnTypeOK
<1>1. ConnInv => ConnTypeOK
  BY DEF ConnInv
<1>2. QED
  BY InitConnInv, NextConnInv, <1>1, PTL DEF ConnSpec

\* connect never finds a websocket in its place (push-manager.ts:165-168, 195-208).
THEOREM ConnectNeverThrows == ConnSpec => []SingleConnection
<1>1. ConnInv => SingleConnection
  BY DEF ConnInv
<1>2. QED
  BY InitConnInv, NextConnInv, <1>1, PTL DEF ConnSpec

\* After destroy at most one more websocket is created (push-manager.ts:204-206).
THEOREM OneLateConnect == ConnSpec => []AtMostOneLateConnect
<1>1. ConnInv => AtMostOneLateConnect
  BY DEF ConnInv, ConnTypeOK, LateConnectsBounded, AtMostOneLateConnect
<1>2. QED
  BY InitConnInv, NextConnInv, <1>1, PTL DEF ConnSpec

-----------------------------------------------------------------------------
(* The uaid is known once create has returned.                                 *)

\* A process that has not started has nothing pending.
NothingPending ==
  ~running =>
    /\ websocket = "none" /\ delaying = 0
    /\ toServer = <<>> /\ toClient = <<>>
    /\ helloTimers = 0 /\ \A u \in Uaid : assigning[u] = 0
    /\ ~created

\* Whatever can still lead to the return of create has already set the uaid.
UaidFirst ==
  /\ helloTimers > 0 => uaid # NoUaid
  /\ \A u \in Uaid : assigning[u] > 0 => uaid # NoUaid
  /\ created => uaid # NoUaid

UaidInv == ConnTypeOK /\ NothingPending /\ UaidFirst

LEMMA InitUaidInv == ConnInit => UaidInv
  BY InitConnInv DEF ConnInit, ConnInv, UaidInv, NothingPending, UaidFirst

LEMMA NextUaidInv == UaidInv /\ ConnInv /\ [ConnNext]_connVars => UaidInv'
<1> SUFFICES ASSUME UaidInv, ConnInv, [ConnNext]_connVars PROVE NothingPending' /\ UaidFirst'
  BY NextConnInv DEF ConnInv, UaidInv
<1>0. ConnTypeOK'
  BY NextConnInv DEF ConnInv
<1> USE <1>0, ConnectionAssumption DEF UaidInv, ConnTypeOK, NothingPending, UaidFirst,
        wsVars, helloVars, wireVars, history
<1>1. CASE Start
  BY <1>1 DEF Start
<1>2. CASE Open
  BY <1>2 DEF Open
<1>3. CASE Close
  BY <1>3 DEF Close, OnClose
<1>4. CASE Closed
  BY <1>4 DEF Closed, OnClose
<1>5. CASE Reconnect
  BY <1>5 DEF Reconnect
<1>6. CASE Destroy
  BY <1>6 DEF Destroy
<1>7. CASE ServerHello
  BY <1>7 DEF ServerHello
<1>8. ASSUME NEW u \in Uaid, HandleHello(u) PROVE NothingPending' /\ UaidFirst'
  BY <1>8 DEF HandleHello, Received
<1>9. ASSUME NEW u \in Uaid, HandleNewUaid(u) PROVE NothingPending' /\ UaidFirst'
  BY <1>9 DEF HandleNewUaid, Received
<1>10. ASSUME NEW u \in Uaid, UaidWritten(u) PROVE NothingPending' /\ UaidFirst'
  BY <1>10 DEF UaidWritten
<1>11. CASE HelloTimer
  BY <1>11 DEF HelloTimer
<1>12. CASE Stop
  BY <1>12 DEF Stop
<1>13. CASE UNCHANGED connVars
  BY <1>13 DEF connVars
<1>14. QED
  BY <1>1, <1>2, <1>3, <1>4, <1>5, <1>6, <1>7, <1>8, <1>9, <1>10, <1>11, <1>12, <1>13
     DEF ConnNext

\* A subscribe of the application never fails for want of a uaid
\* (push-manager.ts:74-82, register-sender.ts:22-24).
THEOREM UaidKnown == ConnSpec => []CreatedKnowsUaid
<1>1. UaidInv => CreatedKnowsUaid
  BY DEF UaidInv, UaidFirst, CreatedKnowsUaid
<1>2. QED
  BY InitConnInv, NextConnInv, InitUaidInv, NextUaidInv, <1>1, PTL DEF ConnSpec
=============================================================================
