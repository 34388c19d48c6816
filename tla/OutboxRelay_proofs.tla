------------------------- MODULE OutboxRelay_proofs -------------------------
(***************************************************************************)
(* For any number of replicas, events and failures and any batch size: a   *)
(* marked event was delivered, and duplicates are paid for.                *)
(***************************************************************************)
EXTENDS OutboxRelay, TLAPS, FiniteSetTheorems

\* The replicas that may still deliver e without a further failure.
Deliverers(e) == {r \in Replicas : MayDeliver(r, e)}

\* The number of deliverers is a number, and a step that adds none of them
\* does not raise it.
LEMMA DeliverersCount ==
    ASSUME NEW e \in Events
    PROVE  /\ IsFiniteSet(Deliverers(e))
           /\ Cardinality(Deliverers(e)) \in Nat
           /\ Cardinality(Deliverers(e)) <= Cardinality(Replicas)
           /\ Cardinality(Replicas) \in Nat
<1>1. IsFiniteSet(Replicas) /\ Deliverers(e) \subseteq Replicas
  BY RelayAssumption DEF Deliverers
<1> QED  BY <1>1, FS_Subset, FS_CardinalityType

LEMMA FewerDeliverers ==
    ASSUME NEW e \in Events, Deliverers(e)' \subseteq Deliverers(e)
    PROVE  /\ Cardinality(Deliverers(e)') \in Nat
           /\ Cardinality(Deliverers(e)') <= Cardinality(Deliverers(e))
<1>1. IsFiniteSet(Deliverers(e))  BY DeliverersCount
<1> QED  BY <1>1, FS_Subset, FS_CardinalityType

\* A step that takes one of them away lowers it.
LEMMA OneDelivererLess ==
    ASSUME NEW e \in Events, NEW r \in Deliverers(e), Deliverers(e)' \subseteq Deliverers(e) \ {r}
    PROVE  /\ Cardinality(Deliverers(e)') \in Nat
           /\ Cardinality(Deliverers(e)') + 1 <= Cardinality(Deliverers(e))
<1>1. /\ IsFiniteSet(Deliverers(e)) /\ Cardinality(Deliverers(e)) \in Nat
  BY DeliverersCount
<1>2. /\ IsFiniteSet(Deliverers(e) \ {r})
      /\ Cardinality(Deliverers(e) \ {r}) = Cardinality(Deliverers(e)) - 1
  BY <1>1, FS_RemoveElement
<1>3. /\ Cardinality(Deliverers(e)') <= Cardinality(Deliverers(e) \ {r})
      /\ IsFiniteSet(Deliverers(e)')
  BY <1>2, FS_Subset
<1> QED  BY <1>1, <1>2, <1>3, FS_CardinalityType

\* A failure may hand the event to one replica more.
LEMMA OneDelivererMore ==
    ASSUME NEW e \in Events, NEW r \in Replicas, Deliverers(e)' \subseteq Deliverers(e) \cup {r}
    PROVE  /\ Cardinality(Deliverers(e)') \in Nat
           /\ Cardinality(Deliverers(e)') <= Cardinality(Deliverers(e)) + 1
<1>1. /\ IsFiniteSet(Deliverers(e)) /\ Cardinality(Deliverers(e)) \in Nat
  BY DeliverersCount
<1>2. /\ IsFiniteSet(Deliverers(e) \cup {r})
      /\ Cardinality(Deliverers(e) \cup {r}) <= Cardinality(Deliverers(e)) + 1
      /\ Cardinality(Deliverers(e) \cup {r}) \in Nat
  <2>1. /\ IsFiniteSet(Deliverers(e) \cup {r})
        /\ \/ Cardinality(Deliverers(e) \cup {r}) = Cardinality(Deliverers(e))
           \/ Cardinality(Deliverers(e) \cup {r}) = Cardinality(Deliverers(e)) + 1
    BY <1>1, FS_AddElement
  <2> QED  BY <1>1, <2>1
<1>3. /\ Cardinality(Deliverers(e)') <= Cardinality(Deliverers(e) \cup {r})
      /\ IsFiniteSet(Deliverers(e)')
  BY <1>2, FS_Subset
<1> QED  BY <1>1, <1>2, <1>3, FS_CardinalityType
-----------------------------------------------------------------------------
(* Types.                                                                  *)

LEMMA InitHolds == RelayInit => RelayInv
<1> SUFFICES ASSUME RelayInit PROVE RelayInv
  OBVIOUS
<1>1. TypeOK /\ PublishedWasDelivered /\ BatchesAreCommitted
  BY DEF RelayInit, TypeOK, PublishedWasDelivered, BatchesAreCommitted
<1>2. DeliveriesArePaidFor
  <2> SUFFICES ASSUME NEW e \in Events
               PROVE  delivered[e] + Cardinality(Deliverers(e)) <= Cardinality(Replicas) + failures
    BY DEF DeliveriesArePaidFor, Deliverers
  <2>1. delivered[e] = 0 /\ failures = 0  BY DEF RelayInit
  <2> QED  BY <2>1, DeliverersCount
<1> QED  BY <1>1, <1>2 DEF RelayInv

LEMMA StepTyped ==
    ASSUME RelayInv, RelayNext
    PROVE  TypeOK' /\ PublishedWasDelivered' /\ BatchesAreCommitted'
<1> USE DEF RelayInv, TypeOK, PublishedWasDelivered, BatchesAreCommitted, Idle, Deliver
<1>1. CASE CommitEvent
  BY <1>1 DEF CommitEvent
<1>2. ASSUME NEW r \in Replicas, ListUnpublished(r)
      PROVE  TypeOK' /\ PublishedWasDelivered' /\ BatchesAreCommitted'
  BY <1>2 DEF ListUnpublished, OldestOf, Unpublished
<1>3. ASSUME NEW r \in Replicas, WriteMessages(r)
      PROVE  TypeOK' /\ PublishedWasDelivered' /\ BatchesAreCommitted'
  BY <1>3 DEF WriteMessages
<1>4. ASSUME NEW r \in Replicas, MarkPublished(r)
      PROVE  TypeOK' /\ PublishedWasDelivered' /\ BatchesAreCommitted'
  BY <1>4 DEF MarkPublished
<1>5. ASSUME NEW r \in Replicas, WriteFails(r)
      PROVE  TypeOK' /\ PublishedWasDelivered' /\ BatchesAreCommitted'
  BY <1>5 DEF WriteFails
<1>6. ASSUME NEW r \in Replicas, MarkFails(r)
      PROVE  TypeOK' /\ PublishedWasDelivered' /\ BatchesAreCommitted'
  BY <1>6 DEF MarkFails
<1> QED  BY <1>1, <1>2, <1>3, <1>4, <1>5, <1>6 DEF RelayNext, Poll
-----------------------------------------------------------------------------
(* Deliveries.                                                             *)

LEMMA StepPaidFor ==
    ASSUME RelayInv, RelayNext
    PROVE  DeliveriesArePaidFor'
<1> SUFFICES ASSUME NEW e \in Events
             PROVE  delivered'[e] + Cardinality(Deliverers(e)') <= Cardinality(Replicas) + failures'
  BY DEF DeliveriesArePaidFor, Deliverers
<1>0. /\ delivered[e] + Cardinality(Deliverers(e)) <= Cardinality(Replicas) + failures
      /\ delivered[e] \in Nat /\ failures \in Nat
      /\ Cardinality(Deliverers(e)) \in Nat /\ Cardinality(Replicas) \in Nat
  BY DeliverersCount DEF RelayInv, TypeOK, DeliveriesArePaidFor, Deliverers
<1> USE DEF RelayInv, TypeOK, Idle, Deliver
<1>1. CASE CommitEvent
  <2>1. Deliverers(e)' \subseteq Deliverers(e)
    BY <1>1 DEF CommitEvent, Deliverers, MayDeliver
  <2> QED  BY <1>0, <1>1, <2>1, FewerDeliverers DEF CommitEvent
<1>2. ASSUME NEW r \in Replicas, ListUnpublished(r)
      PROVE  delivered'[e] + Cardinality(Deliverers(e)') <= Cardinality(Replicas) + failures'
  <2>1. Deliverers(e)' \subseteq Deliverers(e)
    BY <1>2 DEF ListUnpublished, OldestOf, Unpublished, Deliverers, MayDeliver
  <2> QED  BY <1>0, <1>2, <2>1, FewerDeliverers DEF ListUnpublished
<1>3. ASSUME NEW r \in Replicas, WriteMessages(r)
      PROVE  delivered'[e] + Cardinality(Deliverers(e)') <= Cardinality(Replicas) + failures'
  <2>1. CASE e \in batch[r]
    <3>1. r \in Deliverers(e) /\ Deliverers(e)' \subseteq Deliverers(e) \ {r}
      BY <1>3, <2>1 DEF WriteMessages, Deliverers, MayDeliver
    <3> QED  BY <1>0, <1>3, <2>1, <3>1, OneDelivererLess DEF WriteMessages
  <2>2. CASE e \notin batch[r]
    <3>1. Deliverers(e)' \subseteq Deliverers(e)
      BY <1>3, <2>2 DEF WriteMessages, Deliverers, MayDeliver
    <3> QED  BY <1>0, <1>3, <2>2, <3>1, FewerDeliverers DEF WriteMessages
  <2> QED  BY <2>1, <2>2
<1>4. ASSUME NEW r \in Replicas, MarkPublished(r)
      PROVE  delivered'[e] + Cardinality(Deliverers(e)') <= Cardinality(Replicas) + failures'
  <2>1. Deliverers(e)' \subseteq Deliverers(e)
    BY <1>4 DEF MarkPublished, Deliverers, MayDeliver
  <2> QED  BY <1>0, <1>4, <2>1, FewerDeliverers DEF MarkPublished
<1>5. ASSUME NEW r \in Replicas, WriteFails(r)
      PROVE  delivered'[e] + Cardinality(Deliverers(e)') <= Cardinality(Replicas) + failures'
  <2>1. failures' = failures + 1 /\ delivered'[e] \in {delivered[e], delivered[e] + 1}
    BY <1>5 DEF WriteFails
  <2>2. CASE e \in batch[r]
    <3>1. r \in Deliverers(e) /\ Deliverers(e)' \subseteq Deliverers(e)
      BY <1>5, <2>2 DEF WriteFails, Deliverers, MayDeliver
    <3> QED  BY <1>0, <2>1, <3>1, FewerDeliverers
  <2>3. CASE e \notin batch[r]
    <3>1. Deliverers(e)' \subseteq Deliverers(e) \cup {r} /\ delivered'[e] = delivered[e]
      BY <1>5, <2>3 DEF WriteFails, Deliverers, MayDeliver
    <3> QED  BY <1>0, <2>1, <3>1, OneDelivererMore
  <2> QED  BY <2>2, <2>3
<1>6. ASSUME NEW r \in Replicas, MarkFails(r)
      PROVE  delivered'[e] + Cardinality(Deliverers(e)') <= Cardinality(Replicas) + failures'
  <2>1. Deliverers(e)' \subseteq Deliverers(e) \cup {r}
    BY <1>6 DEF MarkFails, Deliverers, MayDeliver
  <2> QED  BY <1>0, <1>6, <2>1, OneDelivererMore DEF MarkFails
<1> QED  BY <1>1, <1>2, <1>3, <1>4, <1>5, <1>6 DEF RelayNext, Poll
-----------------------------------------------------------------------------
\* The inductive invariant of the relay: a batch in hand is committed, what
\* was written has been delivered, and each delivery is paid for by a
\* replica's turn or a failure (PublishUnpublished).
THEOREM RelayInvariant == RelaySpec => []RelayInv
<1>1. RelayInit => RelayInv  BY InitHolds
<1>2. RelayInv /\ [RelayNext]_relayVars => RelayInv'
  <2> SUFFICES ASSUME RelayInv, [RelayNext]_relayVars PROVE RelayInv'
    OBVIOUS
  <2>1. CASE RelayNext
    BY <2>1, StepTyped, StepPaidFor DEF RelayInv
  <2>2. CASE UNCHANGED relayVars
    BY <2>2 DEF relayVars, RelayInv, TypeOK, PublishedWasDelivered, BatchesAreCommitted,
                DeliveriesArePaidFor, MayDeliver
  <2> QED  BY <2>1, <2>2
<1> QED  BY <1>1, <1>2, PTL DEF RelaySpec

\* Nothing is lost: an event that is marked published is in Kafka.
THEOREM NothingIsLost == RelaySpec => []PublishedWasDelivered
<1>1. RelayInv => PublishedWasDelivered  BY DEF RelayInv
<1> QED  BY <1>1, RelayInvariant, PTL

\* A duplicate needs a failure or a further replica.
THEOREM DuplicatesAreBounded == RelaySpec => []DuplicatesHaveAReason
<1>1. RelayInv => DuplicatesHaveAReason
  <2> SUFFICES ASSUME RelayInv, NEW e \in Events
               PROVE  delivered[e] <= Cardinality(Replicas) + failures
    BY DEF DuplicatesHaveAReason
  <2>1. /\ delivered[e] + Cardinality(Deliverers(e)) <= Cardinality(Replicas) + failures
        /\ delivered[e] \in Nat /\ failures \in Nat
    BY DEF RelayInv, TypeOK, DeliveriesArePaidFor, Deliverers
  <2> QED  BY <2>1, DeliverersCount
<1> QED  BY <1>1, RelayInvariant, PTL
=============================================================================
