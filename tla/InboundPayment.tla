--------------------------- MODULE InboundPayment ----------------------------
(***************************************************************************)
(* Money coming in.  A poll fetches what the rail reports after a cursor,  *)
(* in the order it occurred: a credit is handed to the loan account        *)
(* service (LAS), which decides what it is, and recorded; a return of one  *)
(* is reversed there and recorded.  Each record moves the cursor in its    *)
(* own transaction.  Operations may also send a credit back.               *)
(*                                                                         *)
(* One poll runs at a time.  Between the call to LAS and the transaction   *)
(* anything may fail, and LAS may have acted although its answer was lost. *)
(***************************************************************************)
EXTENDS Naturals, FiniteSets

CONSTANTS Credits,         \* the rail's references of what came in
          MaxEvents,       \* bound: files the rail reports
          SameInstant,     \* whether the reports of one file carry the same time
          MaxInFaults,     \* bound: calls and statements that fail, restarts
          MaxSendBacks,    \* bound: returns asked for by operations
          Nil

ASSUME InAssumption ==
    /\ {MaxEvents, MaxInFaults, MaxSendBacks} \subseteq Nat
    /\ SameInstant \in BOOLEAN /\ IsFiniteSet(Credits) /\ Nil \notin Credits
    /\ Nil \notin {"Posted", "Unmatched", "Payoff", "Recovery", "ReversalPending", "Reversed"}
    /\ Nil \notin [status : {"Executed", "Returned"}, purpose : {"REPAYMENT", "PAYOFF"}]
    /\ Nil \notin [kind : {"received", "returned"}, credit : Credits, at : Nat]

VARIABLES
    reports,     \* the adapter's inbound events
    clock,       \* when the last file came in
    receipts,    \* the INBOUND rows of payment_instructions, or Nil
    cursor,      \* inbound_cursors
    audit,       \* outbox: the credits payment.inbound.received was published of
    escalated,   \* reconciliation_exceptions: <<credit, kind>>
    las,         \* LAS: what it holds of each credit, or Nil
    poll,        \* [todo, at]: events fetched, and the one LAS has answered
    sendback,    \* [pc, credit]: the return in progress
    sentBack,    \* the credits the rail was told to send back
    inFaults, sendBacks

inrail  == <<reports, clock, sentBack>>
indb    == <<receipts, cursor, audit, escalated>>
inwork  == <<poll, sendback>>
inuse   == <<inFaults, sendBacks>>
inVars  == <<inrail, indb, las, inwork, inuse>>

Event(kind, c, at) == [kind |-> kind, credit |-> c, at |-> at]
Receipt(status, purpose) == [status |-> status, purpose |-> purpose]

NoPoll == [todo |-> {}, answered |-> Nil]
NoSendBack == [pc |-> "none", credit |-> Nil]

InInit ==
    /\ reports = {} /\ clock = 0 /\ sentBack = {}
    /\ receipts = [c \in Credits |-> Nil]
    /\ cursor = 0 /\ audit = {} /\ escalated = {}
    /\ las = [c \in Credits |-> Nil]
    /\ poll = NoPoll /\ sendback = NoSendBack
    /\ inFaults = 0 /\ sendBacks = 0

InFault == inFaults < MaxInFaults /\ inFaults' = inFaults + 1
-----------------------------------------------------------------------------
(* The rail and LAS.                                                       *)

\* A file of credits, which may all carry one time, or the report of a return,
\* also of a credit that was never reported.
Report(kind, cs) ==
    /\ clock < MaxEvents /\ clock' = clock + 1
    /\ Cardinality(cs) = 1 \/ (SameInstant /\ kind = "received")
    /\ reports' = reports \cup {Event(kind, c, clock') : c \in cs}
    /\ UNCHANGED <<sentBack, indb, las, inwork, inuse>>

\* What receiveRepaymentNotification may make of a payment; a key it has seen
\* is a replay.
Findings == {"Posted", "Unmatched", "Payoff", "Recovery"}

Notified(c, answer) ==
    /\ IF las[c] = Nil THEN answer \in Findings ELSE answer = las[c]
    /\ las' = [las EXCEPT ![c] = answer]

\* reverseRepayment: 404 for what is no repayment, 409 for one that was never
\* posted, and what is reversed or about to be is a replay.
Reversible(c) == las[c] \in {"Posted", "ReversalPending", "Reversed"}

Reversed(c) ==
    las' = [las EXCEPT ![c] = IF @ = "Posted" THEN "Reversed" ELSE @]

\* LAS marks the repayment before it calls the GL: when that call fails the
\* mark stays, and is what a retry finds.
HalfReversed(c) ==
    las' = [las EXCEPT ![c] = IF @ = "Posted" THEN "ReversalPending" ELSE @]
-----------------------------------------------------------------------------
(* receiveInboundPayments.                                                 *)

Unseen == {e \in reports : e.at > cursor}

Fetch ==
    /\ poll = NoPoll /\ Unseen # {}
    /\ poll' = [NoPoll EXCEPT !.todo = Unseen]
    /\ UNCHANGED <<inrail, indb, las, sendback, inuse>>

\* sort.Slice by OccurredAt, in no particular order among equals.
NextUp(e) == e \in poll.todo /\ \A f \in poll.todo : e.at <= f.at

Waiting(e) == poll.answered = Nil /\ NextUp(e)

Done(e) == poll' = [todo |-> poll.todo \ {e}, answered |-> Nil]

\* Mutant: the poll ends at a credit that was booked before.
RecogniseAndEnd(e) ==
    /\ Waiting(e) /\ e.kind = "received" /\ receipts[e.credit] # Nil
    /\ poll' = NoPoll
    /\ UNCHANGED <<inrail, indb, las, sendback, inuse>>

\* A credit with a row was booked by an earlier poll.
Recognise(e) ==
    /\ Waiting(e) /\ e.kind = "received" /\ receipts[e.credit] # Nil
    /\ cursor' = e.at /\ Done(e)
    /\ UNCHANGED <<inrail, receipts, audit, escalated, las, sendback, inuse>>

\* The call to LAS, under the rail's reference.
Notify(e) ==
    /\ Waiting(e) /\ e.kind = "received" /\ receipts[e.credit] = Nil
    /\ \E answer \in Findings \cup {"ReversalPending", "Reversed"} : Notified(e.credit, answer)
    /\ poll' = [poll EXCEPT !.answered = e]
    /\ UNCHANGED <<inrail, indb, sendback, inuse>>

\* The receipt, the event and the cursor in one transaction.
Record(e) ==
    /\ poll.answered = e /\ e \in poll.todo /\ e.kind = "received"
    /\ receipts' = [receipts EXCEPT ![e.credit] =
          Receipt("Executed", IF las[e.credit] = "Payoff" THEN "PAYOFF" ELSE "REPAYMENT")]
    /\ audit' = audit \cup {e.credit}
    /\ cursor' = e.at /\ Done(e)
    /\ UNCHANGED <<inrail, escalated, las, sendback, inuse>>

\* Mutant: the return of a payoff is recorded and nobody told.
EscalateSilently(e) ==
    /\ Waiting(e) /\ e.kind = "returned"
    /\ \/ receipts[e.credit] = Nil /\ UNCHANGED receipts
       \/ /\ receipts[e.credit] = Receipt("Executed", "PAYOFF")
          /\ receipts' = [receipts EXCEPT ![e.credit].status = "Returned"]
    /\ cursor' = e.at /\ Done(e)
    /\ UNCHANGED <<inrail, audit, escalated, las, sendback, inuse>>

\* A return of a credit without a row, or of a payoff, goes to operations.
Escalate(e) ==
    /\ Waiting(e) /\ e.kind = "returned"
    /\ \/ /\ receipts[e.credit] = Nil
          /\ escalated' = escalated \cup {<<e.credit, "UNMATCHED_INBOUND_RETURN">>}
          /\ UNCHANGED receipts
       \/ /\ receipts[e.credit] = Receipt("Executed", "PAYOFF")
          /\ escalated' = escalated \cup {<<e.credit, "NO_COMPLIANT_REVERSAL_PATH">>}
          /\ receipts' = [receipts EXCEPT ![e.credit].status = "Returned"]
    /\ cursor' = e.at /\ Done(e)
    /\ UNCHANGED <<inrail, audit, las, sendback, inuse>>

IsReversible(e) == receipts[e.credit] = Receipt("Executed", "REPAYMENT") /\ Reversible(e.credit)

ReverseReturned(e) ==
    /\ Waiting(e) /\ e.kind = "returned" /\ IsReversible(e)
    /\ Reversed(e.credit)
    /\ poll' = [poll EXCEPT !.answered = e]
    /\ UNCHANGED <<inrail, indb, sendback, inuse>>

RecordReturn(e) ==
    /\ poll.answered = e /\ e \in poll.todo /\ e.kind = "returned"
    /\ receipts' = [receipts EXCEPT ![e.credit] = Receipt("Returned", "REPAYMENT")]
    /\ cursor' = e.at /\ Done(e)
    /\ UNCHANGED <<inrail, audit, escalated, las, sendback, inuse>>

\* A return that can never be booked: its receipt is Returned already, or LAS
\* will not reverse it.
Hopeless(e) ==
    /\ e.kind = "returned" /\ receipts[e.credit] # Nil
    /\ \/ receipts[e.credit].status = "Returned"
       \/ receipts[e.credit].purpose = "REPAYMENT" /\ ~Reversible(e.credit)

\* Mutant: an event that fails is left behind, and the poll goes on.
PassOver(e) ==
    /\ Waiting(e) /\ Hopeless(e)
    /\ poll' = [poll EXCEPT !.todo = @ \ {e}]
    /\ UNCHANGED <<inrail, indb, las, sendback, inuse>>

\* The poll stops at it, with the cursor where it was.
Stop(e) ==
    /\ Waiting(e) /\ Hopeless(e)
    /\ poll' = NoPoll
    /\ UNCHANGED <<inrail, indb, las, sendback, inuse>>

\* A statement fails, LAS is not reached, or its answer is lost.
PollFails ==
    /\ poll # NoPoll /\ InFault
    /\ poll' = NoPoll
    /\ \/ UNCHANGED las
       \/ \E e \in poll.todo :
             /\ Waiting(e)
             /\ \/ /\ e.kind = "received" /\ receipts[e.credit] = Nil
                   /\ \E answer \in Findings : Notified(e.credit, answer)
                \/ e.kind = "returned" /\ IsReversible(e) /\ (Reversed(e.credit) \/ HalfReversed(e.credit))
    /\ UNCHANGED <<inrail, indb, sendback, sendBacks>>
-----------------------------------------------------------------------------
(* ReturnInboundPayment: LAS first, then the rail, then the row.           *)

SendBackStep(pc) == sendback' = [sendback EXCEPT !.pc = pc]

\* The receipt is not looked at for its status until LAS has answered.
SendBack(c) ==
    /\ sendback = NoSendBack
    /\ sendBacks < MaxSendBacks /\ sendBacks' = sendBacks + 1
    /\ receipts[c] # Nil /\ receipts[c].purpose = "REPAYMENT" /\ Reversible(c)
    /\ \/ /\ Reversed(c)
          /\ sendback' = IF receipts[c].status = "Executed" THEN [pc |-> "rail", credit |-> c] ELSE NoSendBack
          /\ UNCHANGED inFaults
       \/ (Reversed(c) \/ HalfReversed(c)) /\ InFault /\ UNCHANGED sendback
    /\ UNCHANGED <<inrail, indb, poll>>

\* The rail refuses a credit it no longer has, or one too old to send back.
TellRail ==
    /\ sendback.pc = "rail"
    /\ \/ sentBack' = sentBack \cup {sendback.credit} /\ SendBackStep("save")
       \/ UNCHANGED sentBack /\ sendback' = NoSendBack
    /\ UNCHANGED <<reports, clock, indb, las, poll, inuse>>

RecordSentBack ==
    /\ sendback.pc = "save"
    /\ receipts' = [receipts EXCEPT ![sendback.credit] = Receipt("Returned", "REPAYMENT")]
    /\ sendback' = NoSendBack
    /\ UNCHANGED <<inrail, cursor, audit, escalated, las, poll, inuse>>

SendBackFails ==
    /\ sendback # NoSendBack /\ InFault
    /\ sendback' = NoSendBack
    /\ UNCHANGED <<inrail, indb, las, poll, sendBacks>>
-----------------------------------------------------------------------------
\* The process dies; what the adapter held in memory is gone.
Lose ==
    /\ InFault
    /\ reports' = {}
    /\ poll' = NoPoll /\ sendback' = NoSendBack
    /\ UNCHANGED <<clock, sentBack, indb, las, sendBacks>>

PollStep ==
    \/ Fetch
    \/ \E e \in poll.todo :
          \/ Recognise(e) \/ Notify(e) \/ Record(e)
          \/ Escalate(e) \/ ReverseReturned(e) \/ RecordReturn(e) \/ Stop(e)

InNext ==
    \/ \E cs \in SUBSET Credits \ {{}}, kind \in {"received", "returned"} : Report(kind, cs)
    \/ \E c \in Credits : SendBack(c)
    \/ PollStep \/ PollFails
    \/ TellRail \/ RecordSentBack \/ SendBackFails
    \/ Lose

\* The poll runs on a timer and goes on after an error (runInboundSweep).
InFairness == WF_inVars(PollStep)

InSpec == InInit /\ [][InNext]_inVars /\ InFairness
-----------------------------------------------------------------------------
(* Properties.                                                             *)

Booked(e) ==
    \/ e.kind = "received" /\ receipts[e.credit] # Nil
    \/ /\ e.kind = "returned"
       /\ \/ receipts[e.credit] # Nil /\ receipts[e.credit].status = "Returned"
          \/ <<e.credit, "UNMATCHED_INBOUND_RETURN">> \in escalated

\* A report that carries the time of another one that is booked.
Tied(e) == \E f \in reports \ {e} : f.at = e.at /\ Booked(f)

\* A report the cursor has reached is booked, whichever call fails in the middle
\* of a poll and whatever operations do meanwhile (ReceiveInboundPayments).  The
\* one exception is a report of the very instant of another that is booked,
\* which the comparison e.at > cursor cannot tell from it.
CursorPassesOnlyTies == \A e \in reports : e.at <= cursor => Booked(e) \/ Tied(e)

\* A receipt is recorded only of money LAS was told of; one that shows Returned
\* is reversed there or being reversed, or, being a payoff, with operations
\* (applyInboundReturn, ReturnInboundPayment): no return is a silent write-off.
ReceiptsAgreeWithLas ==
    \A c \in Credits : receipts[c] # Nil =>
        /\ las[c] # Nil /\ c \in audit
        /\ receipts[c].purpose = "PAYOFF" <=> las[c] = "Payoff"
        /\ receipts[c].status = "Returned" =>
              \/ las[c] \in {"ReversalPending", "Reversed"}
              \/ <<c, "NO_COMPLIANT_REVERSAL_PATH">> \in escalated

Blocked == \E e \in reports : e.at > cursor /\ Hopeless(e)

Unbooked(c) == receipts[c] = Nil /\ \E e \in reports : e.kind = "received" /\ e.credit = c

\* The cursor has passed the report of a credit that no poll holds any more.
PassedOver(c) ==
    \E e \in reports : e.kind = "received" /\ e.credit = c /\ e.at <= cursor /\ e \notin poll.todo

\* A credit the rail reports is booked in the end (runInboundSweep), through
\* lost answers and failed statements; only a return that can never be booked
\* stops the cursor in front of it, and only its tie with a booked report lets
\* the cursor pass it.
CreditsAreBooked == \A c \in Credits : Unbooked(c) ~> (~Unbooked(c) \/ Blocked \/ PassedOver(c))
-----------------------------------------------------------------------------
(* What the repository says of the service and the code does not do.       *)

\* Whatever the cursor has reached is booked or in the batch being worked on:
\* nothing that came in is missed or skipped (ReceiveInboundPayments).
CursorPassesOnlyBooked == \A e \in reports : e.at <= cursor => Booked(e) \/ e \in poll.todo

\* A repayment marked Returned has been reversed in the ledger: a return is
\* never a silent balance drift (ErrNoCompliantReversalPath's comment).
ReturnedIsReversed ==
    \A c \in Credits : receipts[c] = Receipt("Returned", "REPAYMENT") => las[c] = "Reversed"
=============================================================================
