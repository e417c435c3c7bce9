------------------------------- MODULE MCAcks -------------------------------
(* Acks for TLC.  The versions are interchangeable, so of the initial states that differ *)
(* in the names of the versions only, one is enough.                                     *)
EXTENDS Acks

SameUpToNames(d, e) ==
  \A kind \in Data :
    Cardinality({v \in Version : d[v] = kind}) = Cardinality({v \in Version : e[v] = kind})

Representatives ==
  {CHOOSE e \in [Version -> Data] : SameUpToNames(d, e) : d \in [Version -> Data]}

MCAcksInit == AcksInit /\ data \in Representatives

MCFairAcksSpec == MCAcksInit /\ [][AcksNext]_ackVars /\ AcksFairness
=============================================================================
