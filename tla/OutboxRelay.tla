---------------------------- MODULE OutboxRelay ----------------------------
(***************************************************************************)
(* The transactional outbox and its relay, as las, payment, crm and party  *)
(* each run them: a business transaction inserts its event together with   *)
(* its rows; every replica of the service polls the outbox, writes the     *)
(* oldest unpublished events to Kafka and then marks them published.       *)
(*                                                                         *)
(* The three statements of a poll are three steps, and any of them may     *)
(* fail, or the process may die, in between.  A failed write may have      *)
(* delivered part of the batch, and a mark that is reported as failed may  *)
(* have been applied.                                                      *)
(***************************************************************************)
EXTENDS Naturals, FiniteSets

CONSTANTS Events,        \* the events the business transactions will write
          CreatedAt,     \* created_at, taken before the transaction commits
          Replicas,      \* the service's replicas, each with one relay
          BatchSize,     \* the LIMIT of a poll
          MaxFailures    \* bound: failed statements and crashes

ASSUME RelayAssumption ==
    /\ CreatedAt \in [Events -> Nat]
    /\ IsFiniteSet(Replicas)
    /\ BatchSize \in Nat \ {0} /\ MaxFailures \in Nat

VARIABLES
    committed,   \* events whose transaction has committed
    published,   \* events with a published_at
    delivered,   \* how often Kafka holds each event
    pc, batch,   \* per replica: the statement to run next, the batch in hand
    failures

relayVars == <<committed, published, delivered, pc, batch, failures>>

RelayInit ==
    /\ committed = {} /\ published = {}
    /\ delivered = [e \in Events |-> 0]
    /\ pc = [r \in Replicas |-> "idle"]
    /\ batch = [r \in Replicas |-> {}]
    /\ failures = 0
-----------------------------------------------------------------------------
\* Mutant: a cursor on created_at in place of published_at IS NULL.
UnpublishedAfterCursor ==
    {e \in committed : \A p \in published : CreatedAt[p] < CreatedAt[e]}

Unpublished == committed \ published

\* ORDER BY created_at ASC LIMIT BatchSize; ties go either way.
OldestOf(pending) ==
    {b \in SUBSET pending :
        /\ b # {} /\ Cardinality(b) <= BatchSize
        /\ Cardinality(b) = BatchSize \/ b = pending
        /\ \A e \in b, f \in pending \ b : CreatedAt[e] <= CreatedAt[f]}

Idle(r) ==
    /\ pc' = [pc EXCEPT ![r] = "idle"]
    /\ batch' = [batch EXCEPT ![r] = {}]

\* A business transaction commits, its event with it.
CommitEvent ==
    /\ \E e \in Events \ committed : committed' = committed \cup {e}
    /\ UNCHANGED <<published, delivered, pc, batch, failures>>

ListUnpublished(r) ==
    /\ pc[r] = "idle"
    /\ \E b \in OldestOf(Unpublished) : batch' = [batch EXCEPT ![r] = b]
    /\ pc' = [pc EXCEPT ![r] = "write"]
    /\ UNCHANGED <<committed, published, delivered, failures>>

Deliver(events) ==
    delivered' = [e \in Events |-> IF e \in events THEN delivered[e] + 1 ELSE delivered[e]]

WriteMessages(r) ==
    /\ pc[r] = "write"
    /\ Deliver(batch[r])
    /\ pc' = [pc EXCEPT ![r] = "mark"]
    /\ UNCHANGED <<committed, published, batch, failures>>

\* Mutant: only one event of the batch is marked.
MarkOnePublished(r) ==
    /\ pc[r] = "mark"
    /\ \E e \in batch[r] : published' = published \cup {e}
    /\ Idle(r)
    /\ UNCHANGED <<committed, delivered, failures>>

MarkPublished(r) ==
    /\ pc[r] = "mark"
    /\ published' = published \cup batch[r]
    /\ Idle(r)
    /\ UNCHANGED <<committed, delivered, failures>>

\* Mutant: the error of WriteMessages is ignored.
WriteErrorIgnored(r) ==
    /\ failures < MaxFailures
    /\ pc[r] = "write"
    /\ \E part \in SUBSET batch[r] : Deliver(part)
    /\ failures' = failures + 1
    /\ pc' = [pc EXCEPT ![r] = "mark"]
    /\ UNCHANGED <<committed, published, batch>>

\* WriteMessages returns an error, or the process dies during the call:
\* nothing is marked, whatever part of the batch got through.
WriteFails(r) ==
    /\ failures < MaxFailures
    /\ pc[r] = "write"
    /\ \E part \in SUBSET batch[r] : Deliver(part)
    /\ failures' = failures + 1
    /\ Idle(r)
    /\ UNCHANGED <<committed, published>>

\* The UPDATE fails, or is applied without the relay hearing of it.
MarkFails(r) ==
    /\ failures < MaxFailures
    /\ pc[r] = "mark"
    /\ published' \in {published, published \cup batch[r]}
    /\ failures' = failures + 1
    /\ Idle(r)
    /\ UNCHANGED <<committed, delivered>>

Poll(r) == ListUnpublished(r) \/ WriteMessages(r) \/ MarkPublished(r)

RelayNext ==
    \/ CommitEvent
    \/ \E r \in Replicas : Poll(r) \/ WriteFails(r) \/ MarkFails(r)

RelaySpec == RelayInit /\ [][RelayNext]_relayVars

\* The ticker fires as long as the replica runs, and a poll that has started
\* goes on to its next statement.
RelayFairness == \A r \in Replicas : WF_relayVars(Poll(r))
-----------------------------------------------------------------------------
TypeOK ==
    /\ committed \subseteq Events /\ published \subseteq Events
    /\ delivered \in [Events -> Nat]
    /\ pc \in [Replicas -> {"idle", "write", "mark"}]
    /\ batch \in [Replicas -> SUBSET Events]
    /\ failures \in Nat

\* An event that is marked published, and so never looked at again, is in
\* Kafka, and its transaction did commit (outbox.Publisher: "never a lost
\* one").
PublishedWasDelivered ==
    \A e \in published : e \in committed /\ delivered[e] > 0

\* A consumer sees an event more than once only for a reason: one extra
\* delivery for each failure and for each further replica, however polls
\* interleave (relay's package comment on at-least-once).
DuplicatesHaveAReason ==
    \A e \in Events : delivered[e] <= Cardinality(Replicas) + failures

\* Every event of a committed transaction is published in the end, whatever
\* the order in which transactions commit (runOutboxRelay: "the next poll
\* retries whatever wasn't published").
EveryEventIsPublished == \A e \in Events : e \in committed ~> e \in published
-----------------------------------------------------------------------------
(* The inductive invariant.                                                *)

\* The replica may still deliver the event without a further failure.
MayDeliver(r, e) == \/ pc[r] = "write" /\ e \in batch[r]
                    \/ e \notin published /\ ~(pc[r] = "mark" /\ e \in batch[r])

\* Each delivery so far used up a replica's turn or a failure.
DeliveriesArePaidFor ==
    \A e \in Events :
        delivered[e] + Cardinality({r \in Replicas : MayDeliver(r, e)})
            <= Cardinality(Replicas) + failures

BatchesAreCommitted ==
    \A r \in Replicas :
        /\ batch[r] \subseteq committed
        /\ pc[r] = "mark" => \A e \in batch[r] : delivered[e] > 0

RelayInv == TypeOK /\ PublishedWasDelivered /\ BatchesAreCommitted /\ DeliveriesArePaidFor
=============================================================================
