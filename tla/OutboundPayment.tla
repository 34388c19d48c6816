--------------------------- MODULE OutboundPayment ---------------------------
(***************************************************************************)
(* Disbursements at the payment service.  A client asks for a payment out  *)
(* under an Idempotency-Key, which becomes the instruction's id; the rail  *)
(* is told, the instruction saved; a sweep asks the rail what became of    *)
(* it, and a confirmation may also be pushed.                              *)
(*                                                                         *)
(* A request goes through Send (which looks for an answer and for a row),  *)
(* CallRail, SaveSubmitted and Remember; retries overlap freely.  The      *)
(* sweep works on the rows it listed, a push on the row it read: both      *)
(* write back the row they hold.  Each transaction is one step.            *)
(*                                                                         *)
(* The rail is the adapter in the process's memory: payments is all that   *)
(* was ever accepted, and a restart forgets what came before.              *)
(***************************************************************************)
EXTENDS Naturals, Sequences, FiniteSets

CONSTANTS Instructions,     \* idempotency keys, which become instruction ids
          Orders,           \* the requests: <<key, body>>
          Entryless,        \* the bodies without a journalEntryId
          MaxClients,       \* bound: requests in progress at once
          None,
          MaxRequests,      \* bound: requests sent, retries included
          MaxOutFaults,     \* bound: statements and calls that fail, restarts
          MaxPushes         \* bound: confirmations pushed

ASSUME OutAssumption ==
    /\ \A o \in Orders : o[1] \in Instructions /\ o[2] # None
    /\ None \notin Instructions
    /\ {MaxClients, MaxRequests, MaxOutFaults, MaxPushes} \subseteq Nat

VARIABLES
    instructions,   \* payment_instructions: the row of each id, or None
    outbox,         \* ids of the outbox rows: <<instruction, status>>
    exceptions,     \* reconciliation_exceptions: <<rail reference, why>>
    cache,          \* idempotency_keys: the body each key was answered for
    payments,       \* what the rail accepted, with all it said of each
    forgotten,      \* how many of them were accepted before the last restart
    clients,        \* per client: [pc, key, body, ref]
    sweep,          \* [todo, held]: rows listed, and the row being applied
    push,           \* the row a pushed confirmation is being applied to
    requests, outFaults, restarts, pushes

outdb   == <<instructions, outbox, exceptions, cache>>
rail    == <<payments, forgotten>>
outwork == <<clients, sweep, push>>
outuse  == <<requests, outFaults, restarts, pushes>>
outVars == <<outdb, rail, outwork, outuse>>

Clients == 1 .. MaxClients

Final == {"Executed", "Failed", "Returned"}

outTransitions ==
    {<<"Submitted", "Executed">>, <<"Submitted", "Failed">>, <<"Submitted", "Returned">>,
     <<"Executed", "Returned">>}

Free == [pc |-> "free", key |-> None, body |-> None, ref |-> 0]
NothingHeld == [row |-> None, outcome |-> None]

OutInit ==
    /\ instructions = [i \in Instructions |-> None]
    /\ outbox = {} /\ exceptions = {}
    /\ cache = [i \in Instructions |-> None]
    /\ payments = <<>> /\ forgotten = 0
    /\ clients = [c \in Clients |-> Free]
    /\ sweep = [todo |-> {}, held |-> NothingHeld]
    /\ push = NothingHeld
    /\ requests = 0 /\ outFaults = 0 /\ restarts = 0 /\ pushes = 0

OutFault == outFaults < MaxOutFaults /\ outFaults' = outFaults + 1
-----------------------------------------------------------------------------
(* The rail.  Its references count from one again after a restart.         *)

Live == forgotten + 1 .. Len(payments)

Reference(n) == n - forgotten

\* Mutant: the adapter keeps no ledger of what it was asked before.
AcceptedAlways(k) == {}

\* The adapter's own ledger of the instructions it accepted.
Accepted(k) == {n \in Live : payments[n].instruction = k}

\* The sandbox has executed a payment when it accepts it, unless told
\* otherwise; ACH has it pending until a settlement file.
Outcomes == {"Pending", "Executed"}

Payment(k, b, outcome) ==
    [instruction |-> k, body |-> b, ref |-> Len(payments) + 1 - forgotten,
     outcome |-> outcome, said |-> {outcome} \ {"Pending"}]

\* A settlement or return report; the rail is taken to contradict itself never.
Settle(n, outcome) ==
    /\ n \in Live
    /\ \/ payments[n].outcome = "Pending" /\ outcome \in Final
       \/ payments[n].outcome = "Executed" /\ outcome = "Returned"
    /\ payments' = [payments EXCEPT ![n].outcome = outcome, ![n].said = @ \cup {outcome}]
    /\ UNCHANGED <<outdb, forgotten, outwork, outuse>>
-----------------------------------------------------------------------------
(* initiateDisbursement.                                                   *)

Step(c, pc) == clients' = [clients EXCEPT ![c].pc = pc]
Finish(c)   == clients' = [clients EXCEPT ![c] = Free]

\* A key with an answer is replayed, or refused when the body differs; a row is
\* the answer whatever the body.  Clients differ in nothing, so that the first
\* free one sends.
Send(c, k, b) ==
    /\ clients[c].pc = "free" /\ \A d \in 1 .. c - 1 : clients[d].pc # "free"
    /\ requests < MaxRequests /\ requests' = requests + 1
    /\ LET proceed(pc) == clients' = [clients EXCEPT ![c] = [pc |-> pc, key |-> k, body |-> b, ref |-> 0]]
       IN  \/ cache[k] # None /\ UNCHANGED clients
           \/ cache[k] = None /\ instructions[k] # None /\ proceed("remember")
           \/ cache[k] = None /\ instructions[k] = None /\ b \in Entryless /\ UNCHANGED clients
           \/ cache[k] = None /\ instructions[k] = None /\ b \notin Entryless /\ proceed("rail")
    /\ UNCHANGED <<outdb, rail, sweep, push, outFaults, restarts, pushes>>

\* A new payment, the submission of the one already accepted, or
\* ErrDuplicateInstruction when that one was for another body.
CallRail(c) ==
    LET r == clients[c]
    IN  /\ r.pc = "rail"
        /\ \/ /\ Accepted(r.key) = {}
              /\ \E outcome \in Outcomes : payments' = Append(payments, Payment(r.key, r.body, outcome))
              /\ clients' = [clients EXCEPT ![c].pc = "save", ![c].ref = Len(payments) + 1 - forgotten]
           \/ \E n \in Accepted(r.key) :
                 /\ IF payments[n].body = r.body
                    THEN clients' = [clients EXCEPT ![c].pc = "save", ![c].ref = Reference(n)]
                    ELSE Finish(c)
                 /\ UNCHANGED payments
        /\ UNCHANGED <<outdb, forgotten, sweep, push, outuse>>

Submitted(r) == [id |-> r.key, status |-> "Submitted", ref |-> r.ref]

\* rail_reference is UNIQUE: of two instructions only one can have it.
ReferenceIsFree(row) ==
    \A i \in Instructions \ {row.id} : instructions[i] # None => instructions[i].ref # row.ref

\* The upsert of a Submitted row, over whatever has become of it meanwhile.
SaveSubmitted(c) ==
    LET row == Submitted(clients[c])
    IN  /\ clients[c].pc = "save"
        /\ \/ /\ ReferenceIsFree(row)
              /\ instructions' = [instructions EXCEPT ![row.id] = row]
              /\ Step(c, "remember")
           \/ ~ReferenceIsFree(row) /\ Finish(c) /\ UNCHANGED instructions
        /\ UNCHANGED <<outbox, exceptions, cache, rail, sweep, push, outuse>>

\* The middleware keeps the answer, in a transaction of its own; the first
\* answer of a key stays.
Remember(c) ==
    LET r == clients[c]
    IN  /\ r.pc = "remember"
        /\ cache' = IF cache[r.key] = None THEN [cache EXCEPT ![r.key] = r.body] ELSE cache
        /\ Finish(c)
        /\ UNCHANGED <<instructions, outbox, exceptions, rail, sweep, push, outuse>>

\* A statement or the call fails, or ErrRailRejected: 500 and no more.
RequestFails(c) ==
    /\ clients[c].pc # "free" /\ OutFault
    /\ Finish(c)
    /\ UNCHANGED <<outdb, rail, sweep, push, requests, restarts, pushes>>
-----------------------------------------------------------------------------
(* Reconciliation.                                                         *)

\* Mutant: a pending outcome is taken for an execution.
TargetOptimist(outcome) == IF outcome = "Pending" THEN "Executed" ELSE outcome

\* The status an outcome stands for.
Target(outcome) == outcome

File(ref, why) == exceptions' = exceptions \cup {<<ref, why>>}

\* applyOutcome on a row read earlier.  The event's id is its primary key.
Apply(row, outcome) ==
    \/ row.status = outcome /\ UNCHANGED <<instructions, outbox, exceptions>>
    \/ /\ row.status # outcome /\ <<row.status, outcome>> \notin outTransitions
       /\ File(row.ref, "contradiction") /\ UNCHANGED <<instructions, outbox>>
    \/ /\ <<row.status, outcome>> \in outTransitions
       /\ <<row.id, outcome>> \notin outbox
       /\ instructions' = [instructions EXCEPT ![row.id] = [row EXCEPT !.status = outcome]]
       /\ outbox' = outbox \cup {<<row.id, outcome>>}
       /\ UNCHANGED exceptions

CannotApply(row, outcome) == <<row.status, outcome>> \in outTransitions /\ <<row.id, outcome>> \in outbox

Idle == sweep = [todo |-> {}, held |-> NothingHeld]
Abort == sweep' = [todo |-> {}, held |-> NothingHeld]

ListSubmitted == {instructions[i] : i \in {j \in Instructions : /\ instructions[j] # None
                                                                 /\ instructions[j].status = "Submitted"}}

BeginSweep ==
    /\ Idle /\ ListSubmitted # {}
    /\ sweep' = [sweep EXCEPT !.todo = ListSubmitted]
    /\ UNCHANGED <<outdb, rail, clients, push, outuse>>

\* Mutant: a payment that is still pending ends the sweep.
AskStopsAtPending ==
    /\ sweep.held = NothingHeld
    /\ \E row \in sweep.todo :
          LET n == forgotten + row.ref
              rest == sweep.todo \ {row}
          IN  \/ n \notin Live /\ File(row.ref, "unknown to the rail") /\ sweep' = [sweep EXCEPT !.todo = rest]
              \/ /\ n \in Live
                 /\ LET outcome == Target(payments[n].outcome)
                    IN  IF outcome = "Pending" THEN Abort
                        ELSE sweep' = [todo |-> rest, held |-> [row |-> row, outcome |-> outcome]]
                 /\ UNCHANGED exceptions
    /\ UNCHANGED <<instructions, outbox, cache, rail, clients, push, outuse>>

\* A reference the adapter does not know is an exception, and a new one at
\* every sweep: the set keeps one of them.
Ask ==
    /\ sweep.held = NothingHeld
    /\ \E row \in sweep.todo :
          LET n == forgotten + row.ref
              rest == sweep.todo \ {row}
          IN  \/ n \notin Live /\ File(row.ref, "unknown to the rail") /\ sweep' = [sweep EXCEPT !.todo = rest]
              \/ /\ n \in Live
                 /\ LET outcome == Target(payments[n].outcome)
                    IN  sweep' = [todo |-> rest, held |-> IF outcome = "Pending" THEN NothingHeld
                                                          ELSE [row |-> row, outcome |-> outcome]]
                 /\ UNCHANGED exceptions
    /\ UNCHANGED <<instructions, outbox, cache, rail, clients, push, outuse>>

\* An event that is already there fails the transaction and ends the sweep.
ApplySwept ==
    LET h == sweep.held
    IN  /\ h # NothingHeld
        /\ \/ Apply(h.row, h.outcome) /\ sweep' = [sweep EXCEPT !.held = NothingHeld]
           \/ CannotApply(h.row, h.outcome) /\ Abort /\ UNCHANGED <<instructions, outbox, exceptions>>
        /\ UNCHANGED <<cache, rail, clients, push, outuse>>

SweepFails ==
    /\ ~Idle /\ OutFault
    /\ Abort
    /\ UNCHANGED <<outdb, rail, clients, push, requests, restarts, pushes>>

\* ProcessConfirmation: a confirmation may be late, repeated, out of order, or
\* come before the instruction is saved.
Push(n, outcome) ==
    /\ push = NothingHeld
    /\ pushes < MaxPushes /\ pushes' = pushes + 1
    /\ n \in 1 .. Len(payments) /\ outcome \in payments[n].said
    /\ LET rows == {instructions[i] : i \in {j \in Instructions : /\ instructions[j] # None
                                                                   /\ instructions[j].ref = payments[n].ref}}
       IN  \/ rows = {} /\ File(payments[n].ref, "unmatched") /\ UNCHANGED push
           \/ /\ \E row \in rows : push' = [row |-> row, outcome |-> outcome]
              /\ UNCHANGED exceptions
    /\ UNCHANGED <<instructions, outbox, cache, rail, clients, sweep, requests, outFaults, restarts>>

ApplyPushed ==
    /\ push # NothingHeld
    /\ push' = NothingHeld
    /\ \/ Apply(push.row, push.outcome)
       \/ CannotApply(push.row, push.outcome) /\ UNCHANGED <<instructions, outbox, exceptions>>
    /\ UNCHANGED <<cache, rail, clients, sweep, outuse>>
-----------------------------------------------------------------------------
\* The process dies, and with it the adapter's memory.
Restart ==
    /\ OutFault /\ restarts' = restarts + 1
    /\ clients' = [c \in Clients |-> Free]
    /\ Abort /\ push' = NothingHeld
    /\ forgotten' = Len(payments)
    /\ UNCHANGED <<outdb, payments, requests, pushes>>

SweepStep == BeginSweep \/ Ask \/ ApplySwept

OutNext ==
    \/ \E c \in Clients :
          \/ \E o \in Orders : Send(c, o[1], o[2])
          \/ CallRail(c) \/ SaveSubmitted(c) \/ Remember(c) \/ RequestFails(c)
    \/ \E n \in 1 .. Len(payments), outcome \in Final : Settle(n, outcome) \/ Push(n, outcome)
    \/ SweepStep \/ SweepFails \/ ApplyPushed
    \/ Restart

\* The sweep runs on a timer and goes on after an error (runReconciliationSweep).
OutFairness == WF_outVars(SweepStep)

OutSpec == OutInit /\ [][OutNext]_outVars /\ OutFairness
-----------------------------------------------------------------------------
(* Properties.                                                             *)

\* In one life of the process the rail is asked to pay an instruction once,
\* however many retries overlap and wherever they stop: whatever it accepted
\* since the last restart, it accepted once (InitiateDisbursement's lookup, and
\* the adapter's own ledger behind it).
OnePaymentPerLife ==
    \A m, n \in Live : payments[m].instruction = payments[n].instruction => m = n

\* An instruction that shows an outcome has announced it, and every outcome
\* announced is what the rail has said under the reference it gave to that
\* instruction (applyOutcome, ProcessConfirmation): no disbursement is confirmed
\* on a pending answer, nor on the word of another payment, unless a restart
\* let the rail give that reference a second time.
OutcomesComeFromTheRail ==
    /\ \A i \in Instructions :
          instructions[i] # None /\ instructions[i].status \in Final =>
              <<i, instructions[i].status>> \in outbox
    /\ \A e \in outbox : \E m, n \in 1 .. Len(payments) :
          /\ payments[m].instruction = e[1]
          /\ payments[n].ref = payments[m].ref /\ e[2] \in payments[n].said
          /\ m = n \/ restarts > 0

\* A late retry has put an instruction back that was already announced.
PutBack == \E i \in Instructions :
    /\ instructions[i] # None /\ instructions[i].status = "Submitted"
    /\ \E s \in Final : <<i, s>> \in outbox

Answered(i) ==
    /\ instructions[i] # None /\ instructions[i].status = "Submitted"
    /\ forgotten + instructions[i].ref \in Live
    /\ payments[forgotten + instructions[i].ref].outcome # "Pending"

\* What the rail has answered is booked in the end (RunReconciliationSweep),
\* through failed sweeps and lost pushes; only an instruction that a retry put
\* back to Submitted can keep it waiting, with all that is behind it.
AnswersAreBooked == \A i \in Instructions : Answered(i) ~> (~Answered(i) \/ PutBack)
-----------------------------------------------------------------------------
(* What the repository says of the service and the code does not do.       *)

\* A retried call never results in two outbound payments, even if the first
\* attempt's response was lost, and also after a crash (service.go:104-112, on
\* the strength of the adapter's ledger).
NeverPaidTwice ==
    \A m, n \in 1 .. Len(payments) : payments[m].instruction = payments[n].instruction => m = n
=============================================================================
