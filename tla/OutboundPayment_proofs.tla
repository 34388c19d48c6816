----------------------- MODULE OutboundPayment_proofs ------------------------
(***************************************************************************)
(* Disbursements for any instructions, clients and bounds: the rail is     *)
(* asked once in every life of the process, and what is announced of an    *)
(* instruction is what the rail has said under its reference.              *)
(*                                                                         *)
(* Behind it: a reference is the place of the payment since the restart,   *)
(* and every row - stored, listed by a sweep, held by a push, about to be  *)
(* saved - carries the reference of a payment of its instruction.          *)
(***************************************************************************)
EXTENDS OutboundPayment, TLAPS, SequenceTheorems

OutRows  == [id : Instructions, status : {"Submitted"} \cup Final, ref : Int]
Paid     == [instruction : Instructions, body : {o[2] : o \in Orders}, ref : Int,
             outcome : Outcomes \cup Final, said : SUBSET Final]
Stages   == {"free", "rail", "save", "remember"}
OutCalls == [pc : Stages, key : Instructions \cup {None}, body : {o[2] : o \in Orders} \cup {None}, ref : Int]
Holdings == [row : OutRows, outcome : Final] \cup {NothingHeld}

OutTypeOK ==
    /\ instructions \in [Instructions -> OutRows \cup {None}]
    /\ payments \in Seq(Paid) /\ forgotten \in 0 .. Len(payments)
    /\ clients \in [Clients -> OutCalls]
    /\ \A c \in Clients : clients[c].pc # "free" => clients[c].key # None /\ clients[c].body # None
    /\ sweep \in [todo : SUBSET OutRows, held : Holdings] /\ push \in Holdings
    /\ restarts \in Nat

\* A row is that of its key, and what it shows was announced.
RowsAreAnnounced ==
    \A i \in Instructions : instructions[i] # None =>
        /\ instructions[i] \in OutRows /\ instructions[i].id = i
        /\ instructions[i].status \in Final => <<i, instructions[i].status>> \in outbox

\* The rail has paid under the reference ref, for the instruction i.
IsPaid(i, ref) == \E n \in 1 .. Len(payments) : payments[n].instruction = i /\ payments[n].ref = ref

\* The rail has said so under a reference of the instruction i.
HasSaid(i, outcome) ==
    \E m, n \in 1 .. Len(payments) :
        /\ payments[m].instruction = i
        /\ payments[n].ref = payments[m].ref /\ outcome \in payments[n].said
        /\ m = n \/ restarts > 0

References ==
    /\ restarts = 0 => forgotten = 0
    /\ \A n \in Live : payments[n].ref = n - forgotten
    /\ \A i \in Instructions : instructions[i] # None => IsPaid(i, instructions[i].ref)
    /\ \A row \in sweep.todo : IsPaid(row.id, row.ref)
    /\ \A h \in {sweep.held, push} : h # NothingHeld => IsPaid(h.row.id, h.row.ref)
    /\ \A c \in Clients : clients[c].pc = "save" => IsPaid(clients[c].key, clients[c].ref)

RailsWord ==
    /\ \A h \in {sweep.held, push} : h # NothingHeld => HasSaid(h.row.id, h.outcome)
    /\ \A e \in outbox : HasSaid(e[1], e[2])

\* What a payment came to was said of it.
OutcomesAreSaid ==
    \A n \in 1 .. Len(payments) : payments[n].outcome # "Pending" => payments[n].outcome \in payments[n].said

OutInv ==
    /\ OutTypeOK /\ RowsAreAnnounced /\ OnePaymentPerLife /\ OutcomesAreSaid
    /\ References /\ RailsWord
-----------------------------------------------------------------------------
(* Types.                                                                  *)

USE DEF outdb, rail, outwork, outuse

LEMMA FreeTyped == Free \in OutCalls /\ Free.pc = "free"
BY DEF Free, OutCalls, Stages

LEMMA InitHolds == OutInit => OutInv
<1> SUFFICES ASSUME OutInit PROVE OutInv
  OBVIOUS
<1>1. OutTypeOK
  BY FreeTyped DEF OutInit, OutTypeOK, Holdings
<1>2. RowsAreAnnounced /\ OutcomesAreSaid
  BY DEF OutInit, RowsAreAnnounced, OutcomesAreSaid
<1>3. OnePaymentPerLife
  BY DEF OutInit, OnePaymentPerLife, Live
<1>4. References /\ RailsWord
  BY FreeTyped DEF OutInit, References, RailsWord, Live
<1> QED
  BY <1>1, <1>2, <1>3, <1>4 DEF OutInv

\* A client's next place in its request.
LEMMA ClientTyped ==
    ASSUME OutTypeOK, NEW c \in Clients, NEW call \in OutCalls,
           call.pc # "free" => call.key # None /\ call.body # None,
           clients' = [clients EXCEPT ![c] = call]
    PROVE  /\ clients' \in [Clients -> OutCalls]
           /\ \A d \in Clients : clients'[d].pc # "free" => clients'[d].key # None /\ clients'[d].body # None
BY DEF OutTypeOK

LEMMA FinishTyped ==
    ASSUME OutTypeOK, NEW c \in Clients, Finish(c)
    PROVE  /\ clients' \in [Clients -> OutCalls]
           /\ \A d \in Clients : clients'[d].pc # "free" => clients'[d].key # None /\ clients'[d].body # None
BY ClientTyped, FreeTyped DEF Finish

LEMMA StepTyped ==
    ASSUME OutTypeOK, NEW c \in Clients, NEW pc \in Stages, clients[c].pc # "free", Step(c, pc)
    PROVE  /\ clients' \in [Clients -> OutCalls]
           /\ \A d \in Clients : clients'[d].pc # "free" => clients'[d].key # None /\ clients'[d].body # None
BY DEF OutTypeOK, OutCalls, Step

\* What a call is about.
LEMMA CallTyped ==
    ASSUME OutTypeOK, NEW c \in Clients, clients[c].pc # "free"
    PROVE  /\ clients[c].key \in Instructions /\ clients[c].body \in {o[2] : o \in Orders}
           /\ clients[c].ref \in Int
BY DEF OutTypeOK, OutCalls

LEMMA SendTyped ==
    ASSUME OutTypeOK, NEW c \in Clients, NEW o \in Orders, Send(c, o[1], o[2])
    PROVE  OutTypeOK'
<1> DEFINE call(pc) == [pc |-> pc, key |-> o[1], body |-> o[2], ref |-> 0]
<1>1. ASSUME NEW pc \in {"rail", "remember"}, clients' = [clients EXCEPT ![c] = call(pc)]
      PROVE  OutTypeOK'
  <2>1. call(pc) \in OutCalls /\ call(pc).key # None /\ call(pc).body # None
    BY OutAssumption DEF OutCalls, Stages
  <2> HIDE DEF call
  <2>2. /\ clients' \in [Clients -> OutCalls]
        /\ \A d \in Clients : clients'[d].pc # "free" => clients'[d].key # None /\ clients'[d].body # None
    BY <1>1, <2>1, ClientTyped
  <2> QED
    BY <2>2 DEF Send, OutTypeOK
<1>2. CASE UNCHANGED clients
  BY <1>2 DEF Send, OutTypeOK
<1> QED
  BY <1>1, <1>2 DEF Send

LEMMA CallRailTyped == ASSUME OutTypeOK, NEW c \in Clients, CallRail(c) PROVE OutTypeOK'
<1> DEFINE r == clients[c]
           call(ref) == [r EXCEPT !.pc = "save", !.ref = ref]
<1>1. /\ r.pc = "rail" /\ r.key \in Instructions /\ r.body \in {o[2] : o \in Orders}
      /\ r \in OutCalls /\ r.key # None /\ r.body # None
      /\ clients \in [Clients -> OutCalls] /\ forgotten \in Nat /\ Len(payments) \in Nat
      /\ forgotten \in 0 .. Len(payments) /\ payments \in Seq(Paid)
  BY CallTyped DEF CallRail, OutTypeOK
<1>2. ASSUME NEW ref \in Int, clients' = [clients EXCEPT ![c].pc = "save", ![c].ref = ref]
      PROVE  /\ clients' \in [Clients -> OutCalls]
             /\ \A d \in Clients : clients'[d].pc # "free" => clients'[d].key # None /\ clients'[d].body # None
  <2>1. call(ref) \in OutCalls /\ call(ref).key # None /\ call(ref).body # None
    BY <1>1 DEF OutCalls, Stages
  <2>2. clients' = [clients EXCEPT ![c] = call(ref)]
    BY <1>1, <1>2
  <2> QED
    BY <2>1, <2>2, ClientTyped
<1>3. CASE /\ \E outcome \in Outcomes : payments' = Append(payments, Payment(r.key, r.body, outcome))
           /\ clients' = [clients EXCEPT ![c].pc = "save", ![c].ref = Len(payments) + 1 - forgotten]
  <2>1. PICK outcome \in Outcomes : payments' = Append(payments, Payment(r.key, r.body, outcome))
    BY <1>3
  <2>2. Payment(r.key, r.body, outcome) \in Paid
    BY <1>1 DEF Payment, Paid, Outcomes, Final
  <2>3. payments' \in Seq(Paid) /\ forgotten \in 0 .. Len(payments')
    BY <1>1, <2>1, <2>2
  <2>4. Len(payments) + 1 - forgotten \in Int
    BY <1>1
  <2> QED
    BY <1>2, <1>3, <2>3, <2>4 DEF CallRail, OutTypeOK
<1>4. ASSUME NEW n \in Accepted(r.key), UNCHANGED payments,
             IF payments[n].body = r.body
             THEN clients' = [clients EXCEPT ![c].pc = "save", ![c].ref = Reference(n)]
             ELSE Finish(c)
      PROVE  OutTypeOK'
  <2>1. Reference(n) \in Int
    BY <1>1 DEF Accepted, Live, Reference
  <2> QED
    BY <1>2, <1>4, <2>1, FinishTyped DEF CallRail, OutTypeOK
<1> QED
  BY <1>3, <1>4 DEF CallRail

LEMMA SaveSubmittedTyped == ASSUME OutTypeOK, NEW c \in Clients, SaveSubmitted(c) PROVE OutTypeOK'
<1> DEFINE row == Submitted(clients[c])
<1>1. row \in OutRows /\ clients[c].pc = "save"
  BY CallTyped DEF SaveSubmitted, Submitted, OutRows
<1>2. instructions' \in [Instructions -> OutRows \cup {None}]
  BY <1>1 DEF SaveSubmitted, OutTypeOK
<1>3. Step(c, "remember") \/ Finish(c)
  BY DEF SaveSubmitted
<1> QED
  BY <1>1, <1>2, <1>3, StepTyped, FinishTyped DEF SaveSubmitted, OutTypeOK, Stages

\* Applying an outcome to a row writes that row.
LEMMA ApplyTyped ==
    ASSUME OutTypeOK, NEW row \in OutRows, NEW outcome \in Final, Apply(row, outcome)
    PROVE  instructions' \in [Instructions -> OutRows \cup {None}]
<1>1. [row EXCEPT !.status = outcome] \in OutRows
  BY DEF OutRows
<1> QED
  BY <1>1 DEF Apply, OutTypeOK

\* A report changes one payment, and only adds to what was said of it.
LEMMA SettledPayment ==
    ASSUME OutTypeOK, NEW n \in 1 .. Len(payments), NEW outcome \in Final, Settle(n, outcome)
    PROVE  /\ payments' \in Seq(Paid) /\ Len(payments') = Len(payments)
           /\ \A m \in 1 .. Len(payments) : m # n => payments'[m] = payments[m]
           /\ payments'[n].instruction = payments[n].instruction /\ payments'[n].ref = payments[n].ref
           /\ payments'[n].outcome = outcome /\ payments'[n].said = payments[n].said \cup {outcome}
<1> DEFINE settled == [payments[n] EXCEPT !.outcome = outcome, !.said = @ \cup {outcome}]
<1>1. payments \in Seq(Paid) /\ payments[n] \in Paid
  BY ElementOfSeq DEF OutTypeOK
<1>2. settled \in Paid
  BY <1>1 DEF Paid
<1>3. payments' = [payments EXCEPT ![n] = settled]
  BY <1>1, LenProperties DEF Settle, Paid
<1>4. /\ payments' \in Seq(Paid) /\ Len(payments') = Len(payments)
      /\ \A m \in 1 .. Len(payments) : payments'[m] = IF m = n THEN settled ELSE payments[m]
  <2> HIDE DEF settled
  <2> QED
    BY <1>1, <1>2, <1>3, ExceptSeq
<1>5. /\ settled.instruction = payments[n].instruction /\ settled.ref = payments[n].ref
      /\ settled.outcome = outcome /\ settled.said = payments[n].said \cup {outcome}
  BY <1>1 DEF Paid
<1> HIDE DEF settled
<1> QED
  BY <1>4, <1>5

LEMMA NextTyped == OutTypeOK /\ [OutNext]_outVars => OutTypeOK'
<1> SUFFICES ASSUME OutTypeOK, [OutNext]_outVars PROVE OutTypeOK'
  OBVIOUS
<1>1. ASSUME NEW c \in Clients, NEW o \in Orders, Send(c, o[1], o[2]) PROVE OutTypeOK'
  BY <1>1, SendTyped
<1>2. ASSUME NEW c \in Clients, CallRail(c) \/ SaveSubmitted(c) PROVE OutTypeOK'
  BY <1>2, CallRailTyped, SaveSubmittedTyped
<1>3. ASSUME NEW c \in Clients, Remember(c) \/ RequestFails(c) PROVE OutTypeOK'
  BY <1>3, FinishTyped DEF Remember, RequestFails, OutTypeOK
<1>4. ASSUME NEW n \in 1 .. Len(payments), NEW outcome \in Final, Settle(n, outcome) PROVE OutTypeOK'
  BY <1>4, SettledPayment DEF Settle, OutTypeOK
<1>5. ASSUME NEW n \in 1 .. Len(payments), NEW outcome \in Final, Push(n, outcome) PROVE OutTypeOK'
  <2>1. push' = push \/ \E i \in Instructions :
           instructions[i] # None /\ push' = [row |-> instructions[i], outcome |-> outcome]
    BY <1>5 DEF Push
  <2>2. push' \in Holdings
    BY <2>1 DEF OutTypeOK, Holdings
  <2> QED
    BY <1>5, <2>2 DEF Push, OutTypeOK
<1>6. CASE BeginSweep
  <2>1. ListSubmitted \subseteq OutRows
    BY DEF ListSubmitted, OutTypeOK
  <2> QED
    BY <1>6, <2>1 DEF BeginSweep, OutTypeOK
<1>7. CASE Ask
  <2>1. PICK row \in sweep.todo :
           \/ sweep' = [sweep EXCEPT !.todo = sweep.todo \ {row}]
           \/ /\ forgotten + row.ref \in Live
              /\ LET outcome == payments[forgotten + row.ref].outcome
                 IN  sweep' = [todo |-> sweep.todo \ {row},
                               held |-> IF outcome = "Pending" THEN NothingHeld
                                        ELSE [row |-> row, outcome |-> outcome]]
    BY <1>7 DEF Ask, Target
  <2>2. ASSUME forgotten + row.ref \in Live
        PROVE  payments[forgotten + row.ref].outcome \in Final \cup {"Pending"}
    <3>1. forgotten + row.ref \in 1 .. Len(payments)
      BY <2>2 DEF OutTypeOK, Live
    <3>2. payments[forgotten + row.ref] \in Paid
      BY <3>1, ElementOfSeq DEF OutTypeOK
    <3> QED
      BY <3>2 DEF Paid, Outcomes, Final
  <2>3. row \in OutRows /\ NothingHeld \in Holdings
    BY DEF OutTypeOK, Holdings
  <2>4. sweep' \in [todo : SUBSET OutRows, held : Holdings]
    BY <2>1, <2>2, <2>3 DEF OutTypeOK, Holdings
  <2> QED
    BY <1>7, <2>4 DEF Ask, OutTypeOK
<1>8. NothingHeld \in Holdings
  BY DEF Holdings
<1>9. CASE ApplySwept
  <2>1. sweep.held.row \in OutRows /\ sweep.held.outcome \in Final
    BY <1>9 DEF ApplySwept, OutTypeOK, Holdings
  <2>2. instructions' \in [Instructions -> OutRows \cup {None}]
    BY <1>9, <2>1, ApplyTyped DEF ApplySwept, OutTypeOK
  <2>3. sweep' \in [todo : SUBSET OutRows, held : Holdings]
    BY <1>8, <1>9 DEF ApplySwept, Abort, OutTypeOK
  <2> QED
    BY <1>9, <2>2, <2>3 DEF ApplySwept, OutTypeOK
<1>10. CASE ApplyPushed
  <2>1. push.row \in OutRows /\ push.outcome \in Final
    BY <1>10 DEF ApplyPushed, OutTypeOK, Holdings
  <2>2. instructions' \in [Instructions -> OutRows \cup {None}]
    BY <1>10, <2>1, ApplyTyped DEF ApplyPushed, OutTypeOK
  <2> QED
    BY <1>8, <1>10, <2>2 DEF ApplyPushed, OutTypeOK
<1>11. CASE SweepFails
  BY <1>8, <1>11 DEF SweepFails, Abort, OutTypeOK
<1>12. CASE Restart
  BY <1>8, <1>12, FreeTyped DEF Restart, Abort, OutTypeOK
<1>13. CASE UNCHANGED outVars
  BY <1>13 DEF outVars, OutTypeOK
<1> QED
  BY <1>1, <1>2, <1>3, <1>4, <1>5, <1>6, <1>7, <1>9, <1>10, <1>11, <1>12, <1>13 DEF OutNext, SweepStep
-----------------------------------------------------------------------------
(* The rail.                                                               *)

\* Only a call, a report and a restart concern the rail.
LEMMA RailSteps ==
    ASSUME [OutNext]_outVars
    PROVE  \/ UNCHANGED <<payments, forgotten, restarts>>
           \/ \E c \in Clients : /\ CallRail(c) /\ Accepted(clients[c].key) = {}
                                 /\ \E outcome \in Outcomes :
                                       payments' = Append(payments, Payment(clients[c].key, clients[c].body, outcome))
           \/ \E n \in 1 .. Len(payments), outcome \in Final : Settle(n, outcome)
           \/ Restart
<1>1. ASSUME NEW c \in Clients, NEW o \in Orders, Send(c, o[1], o[2])
      PROVE  UNCHANGED <<payments, forgotten, restarts>>
  BY <1>1 DEF Send
<1>2. ASSUME NEW c \in Clients, SaveSubmitted(c) \/ Remember(c) \/ RequestFails(c)
      PROVE  UNCHANGED <<payments, forgotten, restarts>>
  BY <1>2 DEF SaveSubmitted, Remember, RequestFails
<1>3. ASSUME NEW n \in 1 .. Len(payments), NEW outcome \in Final, Push(n, outcome)
      PROVE  UNCHANGED <<payments, forgotten, restarts>>
  BY <1>3 DEF Push
<1>4. ASSUME SweepStep \/ SweepFails \/ ApplyPushed
      PROVE  UNCHANGED <<payments, forgotten, restarts>>
  BY <1>4 DEF SweepStep, BeginSweep, Ask, ApplySwept, SweepFails, ApplyPushed
<1>5. ASSUME NEW c \in Clients, CallRail(c)
      PROVE  \/ UNCHANGED <<payments, forgotten, restarts>>
             \/ /\ Accepted(clients[c].key) = {}
                /\ \E outcome \in Outcomes :
                      payments' = Append(payments, Payment(clients[c].key, clients[c].body, outcome))
  BY <1>5 DEF CallRail
<1> QED
  BY <1>1, <1>2, <1>3, <1>4, <1>5 DEF OutNext, outVars

LEMMA CallRailPays ==
    ASSUME OutTypeOK, NEW c \in Clients, CallRail(c), NEW outcome \in Outcomes,
           payments' = Append(payments, Payment(clients[c].key, clients[c].body, outcome))
    PROVE  /\ clients[c].key \in Instructions
           /\ Len(payments) \in Nat /\ Len(payments') = Len(payments) + 1
           /\ \A n \in 1 .. Len(payments) : payments'[n] = payments[n]
           /\ payments'[Len(payments) + 1] = Payment(clients[c].key, clients[c].body, outcome)
           /\ UNCHANGED <<forgotten, restarts>>
<1>1. payments \in Seq(Paid) /\ clients[c].key \in Instructions
  BY CallTyped DEF CallRail, OutTypeOK
<1> QED
  BY <1>1, LenProperties DEF CallRail

\* What was paid stays paid, and what the rail has said is not unsaid.
LEMMA PaymentsGrow ==
    ASSUME OutTypeOK, [OutNext]_outVars, NEW n \in 1 .. Len(payments)
    PROVE  /\ n \in 1 .. Len(payments')
           /\ payments'[n].instruction = payments[n].instruction
           /\ payments'[n].ref = payments[n].ref
           /\ payments[n].said \subseteq payments'[n].said
<1>1. CASE UNCHANGED <<payments, forgotten, restarts>>
  BY <1>1
<1>2. ASSUME NEW c \in Clients, CallRail(c), NEW outcome \in Outcomes,
             payments' = Append(payments, Payment(clients[c].key, clients[c].body, outcome))
      PROVE  payments'[n] = payments[n] /\ n \in 1 .. Len(payments')
  BY <1>2, CallRailPays
<1>3. ASSUME NEW m \in 1 .. Len(payments), NEW outcome \in Final, Settle(m, outcome)
      PROVE  /\ n \in 1 .. Len(payments')
             /\ payments'[n].instruction = payments[n].instruction
             /\ payments'[n].ref = payments[n].ref
             /\ payments[n].said \subseteq payments'[n].said
  BY <1>3, SettledPayment
<1>4. CASE Restart
  BY <1>4 DEF Restart
<1> QED
  BY <1>1, <1>2, <1>3, <1>4, RailSteps

\* A call adds one payment, and only for an instruction that has none that the
\* adapter remembers; a restart leaves none of them.
LEMMA StepPaidOnce == OutTypeOK /\ OnePaymentPerLife /\ [OutNext]_outVars => OnePaymentPerLife'
<1> SUFFICES ASSUME OutTypeOK, OnePaymentPerLife, [OutNext]_outVars PROVE OnePaymentPerLife'
  OBVIOUS
<1>0. Len(payments) \in Nat /\ forgotten \in 0 .. Len(payments)
  BY DEF OutTypeOK
<1>1. CASE UNCHANGED <<payments, forgotten, restarts>>
  BY <1>1 DEF OnePaymentPerLife, Live
<1>2. ASSUME NEW n \in 1 .. Len(payments), NEW outcome \in Final, Settle(n, outcome)
      PROVE  OnePaymentPerLife'
  <2>1. \A m \in 1 .. Len(payments) : payments'[m].instruction = payments[m].instruction
    BY <1>2, PaymentsGrow
  <2>2. Len(payments') = Len(payments) /\ UNCHANGED forgotten
    BY <1>2, SettledPayment DEF Settle
  <2> QED
    BY <1>0, <2>1, <2>2 DEF OnePaymentPerLife, Live
<1>3. ASSUME NEW c \in Clients, CallRail(c), Accepted(clients[c].key) = {}, NEW outcome \in Outcomes,
             payments' = Append(payments, Payment(clients[c].key, clients[c].body, outcome))
      PROVE  OnePaymentPerLife'
  <2> DEFINE new == Len(payments) + 1
  <2>1. /\ Len(payments') = new /\ UNCHANGED forgotten
        /\ \A n \in 1 .. Len(payments) : payments'[n] = payments[n]
        /\ payments'[new].instruction = clients[c].key
    BY <1>3, CallRailPays DEF Payment
  <2>2. \A n \in Live : payments[n].instruction # clients[c].key
    BY <1>3 DEF Accepted
  <2>3. \A n \in Live' : n = new \/ (n \in Live /\ n \in 1 .. Len(payments))
    BY <1>0, <2>1 DEF Live
  <2> QED
    BY <1>0, <2>1, <2>2, <2>3 DEF OnePaymentPerLife
<1>4. CASE Restart
  BY <1>0, <1>4 DEF Restart, OnePaymentPerLife, Live
<1> QED
  BY <1>1, <1>2, <1>3, <1>4, RailSteps

LEMMA StepOutcomesSaid == OutTypeOK /\ OutcomesAreSaid /\ [OutNext]_outVars => OutcomesAreSaid'
<1> SUFFICES ASSUME OutTypeOK, OutcomesAreSaid, [OutNext]_outVars PROVE OutcomesAreSaid'
  OBVIOUS
<1>1. ASSUME NEW c \in Clients, CallRail(c), NEW outcome \in Outcomes,
             payments' = Append(payments, Payment(clients[c].key, clients[c].body, outcome))
      PROVE  OutcomesAreSaid'
  BY <1>1, CallRailPays DEF OutcomesAreSaid, Payment
<1>2. ASSUME NEW n \in 1 .. Len(payments), NEW outcome \in Final, Settle(n, outcome)
      PROVE  OutcomesAreSaid'
  BY <1>2, SettledPayment DEF OutcomesAreSaid
<1>3. CASE UNCHANGED payments
  BY <1>3 DEF OutcomesAreSaid
<1> QED
  BY <1>1, <1>2, <1>3, RailSteps DEF Restart
-----------------------------------------------------------------------------
(* The rows.                                                               *)

\* A row is written by a request, or over a row held by a sweep or a push.
LEMMA RowSteps ==
    ASSUME [OutNext]_outVars
    PROVE  \/ UNCHANGED <<instructions, outbox>>
           \/ \E c \in Clients : SaveSubmitted(c)
           \/ \E h \in {sweep.held, push} : h # NothingHeld /\ Apply(h.row, h.outcome)
<1>1. ASSUME NEW c \in Clients, NEW o \in Orders, Send(c, o[1], o[2])
      PROVE  UNCHANGED <<instructions, outbox>>
  BY <1>1 DEF Send
<1>2. ASSUME NEW c \in Clients, CallRail(c) \/ Remember(c) \/ RequestFails(c)
      PROVE  UNCHANGED <<instructions, outbox>>
  BY <1>2 DEF CallRail, Remember, RequestFails
<1>3. ASSUME NEW n \in 1 .. Len(payments), NEW outcome \in Final, Push(n, outcome) \/ Settle(n, outcome)
      PROVE  UNCHANGED <<instructions, outbox>>
  BY <1>3 DEF Push, Settle
<1>4. ASSUME BeginSweep \/ Ask \/ SweepFails \/ Restart
      PROVE  UNCHANGED <<instructions, outbox>>
  BY <1>4 DEF BeginSweep, Ask, SweepFails, Restart
<1>5. ASSUME ApplySwept \/ ApplyPushed
      PROVE  \/ UNCHANGED <<instructions, outbox>>
             \/ \E h \in {sweep.held, push} : h # NothingHeld /\ Apply(h.row, h.outcome)
  BY <1>5 DEF ApplySwept, ApplyPushed
<1> QED
  BY <1>1, <1>2, <1>3, <1>4, <1>5 DEF OutNext, SweepStep, outVars

LEMMA HeldTyped ==
    ASSUME OutTypeOK, NEW h \in {sweep.held, push}, h # NothingHeld
    PROVE  h.row \in OutRows /\ h.outcome \in Final /\ h.row.id \in Instructions
BY DEF OutTypeOK, Holdings, OutRows

LEMMA StepRowsAnnounced == OutTypeOK /\ RowsAreAnnounced /\ [OutNext]_outVars => RowsAreAnnounced'
<1> SUFFICES ASSUME OutTypeOK, RowsAreAnnounced, [OutNext]_outVars PROVE RowsAreAnnounced'
  OBVIOUS
<1>1. CASE UNCHANGED <<instructions, outbox>>
  BY <1>1 DEF RowsAreAnnounced
<1>2. ASSUME NEW c \in Clients, SaveSubmitted(c) PROVE RowsAreAnnounced'
  <2>1. PICK row \in OutRows : row = Submitted(clients[c]) /\ row.status \notin Final
    BY <1>2, CallTyped DEF SaveSubmitted, Submitted, OutRows, Final
  <2>2. outbox' = outbox /\ (instructions' = instructions \/ instructions' = [instructions EXCEPT ![row.id] = row])
    BY <1>2, <2>1 DEF SaveSubmitted
  <2> QED
    BY <2>1, <2>2 DEF RowsAreAnnounced, OutTypeOK
<1>3. ASSUME NEW h \in {sweep.held, push}, h # NothingHeld, Apply(h.row, h.outcome)
      PROVE  RowsAreAnnounced'
  <2>1. PICK row, outcome : row = h.row /\ outcome = h.outcome
    OBVIOUS
  <2>2. row \in OutRows /\ outcome \in Final /\ Apply(row, outcome)
    BY <1>3, <2>1, HeldTyped
  <2>3. CASE UNCHANGED <<instructions, outbox>>
    BY <1>1, <2>3
  <2>4. CASE /\ instructions' = [instructions EXCEPT ![row.id] = [row EXCEPT !.status = outcome]]
             /\ outbox' = outbox \cup {<<row.id, outcome>>}
    <3>1. PICK new \in OutRows : /\ new = [row EXCEPT !.status = outcome]
                                 /\ new.id = row.id /\ new.status = outcome
      <4>1. /\ [row EXCEPT !.status = outcome] \in OutRows
            /\ [row EXCEPT !.status = outcome].id = row.id /\ [row EXCEPT !.status = outcome].status = outcome
        BY <2>2 DEF OutRows
      <4> QED
        BY <4>1
    <3> QED
      BY <2>4, <3>1 DEF RowsAreAnnounced, OutTypeOK
  <2> QED
    BY <2>2, <2>3, <2>4 DEF Apply
<1> QED
  BY <1>1, <1>2, <1>3, RowSteps
-----------------------------------------------------------------------------
(* The references.                                                         *)

LEMMA PaidStaysPaid ==
    ASSUME OutTypeOK, [OutNext]_outVars
    PROVE  /\ restarts' \in Nat /\ restarts' >= restarts
           /\ \A i, ref : IsPaid(i, ref) => IsPaid(i, ref)'
           /\ \A i, outcome : HasSaid(i, outcome) => HasSaid(i, outcome)'
<1>1. restarts' \in Nat /\ restarts' >= restarts
  <2>1. \/ UNCHANGED restarts
        \/ restarts' = restarts + 1
    <3>1. ASSUME NEW c \in Clients, CallRail(c) PROVE UNCHANGED restarts
      BY <3>1 DEF CallRail
    <3>2. ASSUME NEW n \in 1 .. Len(payments), NEW outcome \in Final, Settle(n, outcome)
          PROVE  UNCHANGED restarts
      BY <3>2 DEF Settle
    <3>3. CASE Restart
      BY <3>3 DEF Restart
    <3> QED
      BY <3>1, <3>2, <3>3, RailSteps
  <2> QED
    BY <2>1 DEF OutTypeOK
<1>2. ASSUME NEW i, NEW ref, IsPaid(i, ref) PROVE IsPaid(i, ref)'
  BY <1>2, PaymentsGrow DEF IsPaid
<1>3. ASSUME NEW i, NEW outcome, HasSaid(i, outcome) PROVE HasSaid(i, outcome)'
  <2>1. PICK m, n \in 1 .. Len(payments) :
           /\ payments[m].instruction = i
           /\ payments[n].ref = payments[m].ref /\ outcome \in payments[n].said
           /\ m = n \/ restarts > 0
    BY <1>3 DEF HasSaid
  <2>2. m \in 1 .. Len(payments') /\ n \in 1 .. Len(payments')
    BY PaymentsGrow
  <2>3. /\ payments'[m].instruction = i
        /\ payments'[n].ref = payments'[m].ref /\ outcome \in payments'[n].said
    BY <2>1, PaymentsGrow
  <2>4. m = n \/ restarts' > 0
    BY <1>1, <2>1 DEF OutTypeOK
  <2> QED
    BY <2>2, <2>3, <2>4 DEF HasSaid
<1> QED
  BY <1>1, <1>2, <1>3

\* Before the first restart a reference is the place of its payment, so that
\* what is said under it is said of that very payment.
LEMMA SaidUnderReference ==
    ASSUME OutTypeOK, References, NEW i, NEW n \in 1 .. Len(payments), IsPaid(i, payments[n].ref),
           NEW outcome \in payments[n].said
    PROVE  HasSaid(i, outcome)
<1>1. PICK m \in 1 .. Len(payments) : payments[m].instruction = i /\ payments[m].ref = payments[n].ref
  BY DEF IsPaid
<1>2. ASSUME restarts = 0 PROVE m = n
  BY <1>1, <1>2 DEF References, Live, OutTypeOK
<1> QED
  BY <1>1, <1>2 DEF HasSaid, OutTypeOK

\* A request about to be saved has just come from the rail.
LEMMA ClientSteps ==
    ASSUME OutTypeOK, [OutNext]_outVars, NEW c \in Clients, clients'[c].pc = "save", clients'[c] # clients[c]
    PROVE  /\ CallRail(c) /\ clients'[c].key = clients[c].key
           /\ \/ /\ clients'[c].ref = Len(payments) + 1 - forgotten
                 /\ \E outcome \in Outcomes :
                       payments' = Append(payments, Payment(clients[c].key, clients[c].body, outcome))
              \/ /\ payments' = payments
                 /\ \E n \in Accepted(clients[c].key) : clients'[c].ref = Reference(n)
<1>1. ASSUME NEW d \in Clients, NEW o \in Orders, Send(d, o[1], o[2]) PROVE FALSE
  BY <1>1 DEF Send, OutTypeOK
<1>2. ASSUME NEW d \in Clients, SaveSubmitted(d) \/ Remember(d) \/ RequestFails(d) PROVE FALSE
  <2>1. Step(d, "remember") \/ Finish(d)
    BY <1>2 DEF SaveSubmitted, Remember, RequestFails
  <2>2. clients \in [Clients -> OutCalls]
    BY DEF OutTypeOK
  <2>3. CASE Finish(d)
    BY <2>2, <2>3 DEF Finish, Free
  <2>4. CASE Step(d, "remember")
    BY <2>2, <2>4 DEF Step, OutCalls
  <2> QED
    BY <2>1, <2>3, <2>4
<1>3. ASSUME NEW n \in 1 .. Len(payments), NEW outcome \in Final, Settle(n, outcome) \/ Push(n, outcome)
      PROVE  FALSE
  BY <1>3 DEF Settle, Push
<1>4. ASSUME SweepStep \/ SweepFails \/ ApplyPushed \/ Restart PROVE FALSE
  <2>1. CASE Restart
    BY <2>1 DEF Restart, Free
  <2>2. ASSUME SweepStep \/ SweepFails \/ ApplyPushed PROVE UNCHANGED clients
    BY <2>2 DEF SweepStep, BeginSweep, Ask, ApplySwept, SweepFails, ApplyPushed
  <2> QED
    BY <1>4, <2>1, <2>2
<1>5. PICK d \in Clients : CallRail(d)
  BY <1>1, <1>2, <1>3, <1>4 DEF OutNext, outVars
<1>6. d = c
  BY <1>5 DEF CallRail, Finish, OutTypeOK
<1>7. clients \in [Clients -> OutCalls]
  BY DEF OutTypeOK
<1> QED
  BY <1>5, <1>6, <1>7 DEF CallRail, Finish, Free, OutCalls

\* What a sweep and a push hold.
LEMMA HoldingSteps ==
    ASSUME OutTypeOK, [OutNext]_outVars
    PROVE  /\ sweep'.todo \subseteq sweep.todo \/ sweep'.todo = ListSubmitted
           /\ \/ sweep'.held \in {sweep.held, NothingHeld}
              \/ \E row \in sweep.todo : LET n == forgotten + row.ref IN
                    /\ n \in Live /\ payments[n].outcome # "Pending"
                    /\ sweep'.held = [row |-> row, outcome |-> payments[n].outcome]
           /\ \/ push' \in {push, NothingHeld}
              \/ \E n \in 1 .. Len(payments), i \in Instructions : \E outcome \in payments[n].said :
                    /\ instructions[i] # None /\ instructions[i].ref = payments[n].ref
                    /\ push' = [row |-> instructions[i], outcome |-> outcome]
<1> DEFINE Unmoved == UNCHANGED <<sweep, push>>
<1>1. ASSUME NEW c \in Clients, NEW o \in Orders, Send(c, o[1], o[2]) PROVE Unmoved
  BY <1>1 DEF Send
<1>2. ASSUME NEW c \in Clients, CallRail(c) \/ SaveSubmitted(c) \/ Remember(c) \/ RequestFails(c)
      PROVE  Unmoved
  BY <1>2 DEF CallRail, SaveSubmitted, Remember, RequestFails
<1>3. ASSUME NEW n \in 1 .. Len(payments), NEW outcome \in Final, Settle(n, outcome) PROVE Unmoved
  BY <1>3 DEF Settle
<1>4. ASSUME NEW n \in 1 .. Len(payments), NEW outcome \in Final, Push(n, outcome)
      PROVE  /\ sweep' = sweep
             /\ \/ push' = push
                \/ \E i \in Instructions :
                      /\ instructions[i] # None /\ instructions[i].ref = payments[n].ref
                      /\ push' = [row |-> instructions[i], outcome |-> outcome]
             /\ outcome \in payments[n].said
  BY <1>4 DEF Push
<1>5. sweep \in [todo : SUBSET OutRows, held : Holdings]
  BY DEF OutTypeOK
<1>6. ASSUME BeginSweep
      PROVE  sweep'.todo = ListSubmitted /\ sweep'.held = sweep.held /\ push' = push
  BY <1>5, <1>6 DEF BeginSweep
<1>7. ASSUME Ask
      PROVE  /\ push' = push
             /\ \E row \in sweep.todo : LET n == forgotten + row.ref IN
                   /\ sweep'.todo = sweep.todo \ {row}
                   /\ \/ sweep'.held \in {sweep.held, NothingHeld}
                      \/ /\ n \in Live /\ payments[n].outcome # "Pending"
                         /\ sweep'.held = [row |-> row, outcome |-> payments[n].outcome]
  <2>1. PICK row \in sweep.todo : LET n == forgotten + row.ref IN
           \/ sweep' = [sweep EXCEPT !.todo = sweep.todo \ {row}]
           \/ /\ n \in Live
              /\ sweep' = [todo |-> sweep.todo \ {row},
                            held |-> IF payments[n].outcome = "Pending" THEN NothingHeld
                                     ELSE [row |-> row, outcome |-> payments[n].outcome]]
    BY <1>7 DEF Ask, Target
  <2>2. push' = push
    BY <1>7 DEF Ask
  <2>3. CASE sweep' = [sweep EXCEPT !.todo = sweep.todo \ {row}]
    <3>1. sweep'.todo = sweep.todo \ {row} /\ sweep'.held = sweep.held
      BY <1>5, <2>3
    <3> QED
      BY <2>2, <3>1
  <2>4. ASSUME sweep' # [sweep EXCEPT !.todo = sweep.todo \ {row}]
        PROVE  LET n == forgotten + row.ref IN
                  /\ sweep'.todo = sweep.todo \ {row}
                  /\ \/ sweep'.held = NothingHeld
                     \/ /\ n \in Live /\ payments[n].outcome # "Pending"
                        /\ sweep'.held = [row |-> row, outcome |-> payments[n].outcome]
    BY <2>1, <2>4
  <2> QED
    BY <2>2, <2>3, <2>4
<1>8. ASSUME ApplySwept \/ SweepFails \/ ApplyPushed \/ Restart
      PROVE  /\ sweep'.todo \subseteq sweep.todo /\ sweep'.held \in {sweep.held, NothingHeld}
             /\ push' \in {push, NothingHeld}
  BY <1>5, <1>8 DEF ApplySwept, SweepFails, ApplyPushed, Restart, Abort
<1> QED
  BY <1>1, <1>2, <1>3, <1>4, <1>6, <1>7, <1>8 DEF OutNext, SweepStep, outVars

LEMMA StepReferences ==
    ASSUME OutInv, [OutNext]_outVars
    PROVE  References' /\ RailsWord'
<1>1. /\ OutTypeOK /\ RowsAreAnnounced /\ OutcomesAreSaid /\ References /\ RailsWord
      /\ Len(payments) \in Nat /\ forgotten \in 0 .. Len(payments) /\ restarts \in Nat
  BY DEF OutInv, OutTypeOK
<1>2. /\ restarts' = 0 => forgotten' = 0
      /\ \A n \in Live' : payments'[n].ref = n - forgotten'
  <2>1. CASE UNCHANGED <<payments, forgotten, restarts>>
    BY <1>1, <2>1 DEF References, Live
  <2>2. ASSUME NEW c \in Clients, CallRail(c), NEW outcome \in Outcomes,
               payments' = Append(payments, Payment(clients[c].key, clients[c].body, outcome))
        PROVE  /\ UNCHANGED <<forgotten, restarts>>
               /\ \A n \in Live' : payments'[n].ref = n - forgotten'
    <3>1. /\ Len(payments') = Len(payments) + 1 /\ UNCHANGED <<forgotten, restarts>>
          /\ \A n \in 1 .. Len(payments) : payments'[n] = payments[n]
          /\ payments'[Len(payments) + 1].ref = Len(payments) + 1 - forgotten
      BY <1>1, <2>2, CallRailPays DEF Payment
    <3>2. Len(payments) \in Nat /\ forgotten \in 0 .. Len(payments)
      BY <1>1, LenProperties DEF OutTypeOK
    <3>3. ASSUME NEW n \in Live' PROVE payments'[n].ref = n - forgotten'
      <4>1. n = Len(payments) + 1 \/ (n \in Live /\ n \in 1 .. Len(payments))
        BY <3>1, <3>2, <3>3 DEF Live
      <4> QED
        BY <1>1, <3>1, <4>1 DEF References
    <3> QED
      BY <3>1, <3>3
  <2>3. ASSUME NEW n \in 1 .. Len(payments), NEW outcome \in Final, Settle(n, outcome)
        PROVE  /\ UNCHANGED <<forgotten, restarts>>
               /\ \A m \in Live' : payments'[m].ref = m - forgotten'
    <3>1. /\ Len(payments') = Len(payments) /\ UNCHANGED <<forgotten, restarts>>
          /\ \A m \in 1 .. Len(payments) : payments'[m].ref = payments[m].ref
      BY <1>1, <2>3, SettledPayment DEF Settle
    <3> QED
      BY <1>1, <3>1 DEF References, Live
  <2>4. CASE Restart
    BY <1>1, <2>4 DEF Restart, Live
  <2> QED
    BY <1>1, <2>1, <2>2, <2>3, <2>4, RailSteps DEF References
<1>3. \A i, ref : IsPaid(i, ref) => IsPaid(i, ref)'
  BY <1>1, PaidStaysPaid
<1>4. \A i, outcome : HasSaid(i, outcome) => HasSaid(i, outcome)'
  BY <1>1, PaidStaysPaid
<1>5. ASSUME NEW c \in Clients, clients'[c].pc = "save"
      PROVE  IsPaid(clients[c].key, clients[c].ref)'
  <2>1. PICK key, ref : key = clients'[c].key /\ ref = clients'[c].ref
    OBVIOUS
  <2>2. CASE clients'[c] = clients[c]
    <3>1. IsPaid(key, ref)
      BY <1>1, <1>5, <2>1, <2>2 DEF References
    <3> QED
      BY <1>3, <2>1, <3>1
  <2>3. CASE clients'[c] # clients[c]
    <3>1. CallRail(c) /\ key = clients[c].key
      BY <1>1, <1>5, <2>1, <2>3, ClientSteps
    <3>2. ASSUME ref = Len(payments) + 1 - forgotten, NEW outcome \in Outcomes,
                 payments' = Append(payments, Payment(clients[c].key, clients[c].body, outcome))
          PROVE  IsPaid(key, ref)'
      <4>1. /\ Len(payments) \in Nat /\ Len(payments') = Len(payments) + 1
            /\ payments'[Len(payments) + 1].instruction = key
            /\ payments'[Len(payments) + 1].ref = ref
        BY <1>1, <3>1, <3>2, CallRailPays DEF Payment
      <4> QED
        BY <4>1 DEF IsPaid
    <3>3. ASSUME NEW n \in Accepted(clients[c].key), ref = Reference(n)
          PROVE  IsPaid(key, ref)'
      <4>1. n \in 1 .. Len(payments) /\ ref = payments[n].ref /\ payments[n].instruction = key
        BY <1>1, <3>1, <3>3 DEF Accepted, Live, Reference, References
      <4>2. IsPaid(key, ref)
        BY <4>1 DEF IsPaid
      <4> QED
        BY <1>3, <4>2
    <3>4. IsPaid(key, ref)'
      BY <1>1, <1>5, <2>1, <2>3, <3>2, <3>3, ClientSteps
    <3> QED
      BY <2>1, <3>4
  <2> QED
    BY <2>2, <2>3
<1>6. ASSUME NEW i \in Instructions, instructions[i] # None
      PROVE  /\ instructions[i] \in OutRows /\ instructions[i].id = i
             /\ IsPaid(i, instructions[i].ref)
  BY <1>1, <1>6 DEF RowsAreAnnounced, References
<1>7. ASSUME NEW row \in sweep'.todo PROVE IsPaid(row.id, row.ref)'
  <2>1. IsPaid(row.id, row.ref)
    BY <1>1, <1>6, <1>7, HoldingSteps DEF References, ListSubmitted
  <2> QED
    BY <1>3, <2>1
<1>8. ASSUME NEW h \in {sweep.held, push}', h # NothingHeld
      PROVE  IsPaid(h.row.id, h.row.ref)' /\ HasSaid(h.row.id, h.outcome)'
  <2>1. ASSUME NEW row \in sweep.todo, LET n == forgotten + row.ref IN
                  /\ n \in Live /\ payments[n].outcome # "Pending"
                  /\ h = [row |-> row, outcome |-> payments[n].outcome]
        PROVE  IsPaid(h.row.id, h.row.ref) /\ HasSaid(h.row.id, h.outcome)
    <3>1. PICK n : n = forgotten + row.ref
      OBVIOUS
    <3>2. row \in OutRows /\ IsPaid(row.id, row.ref)
      BY <1>1 DEF References, OutTypeOK
    <3>3. n \in Live /\ n \in 1 .. Len(payments) /\ payments[n].ref = row.ref
      BY <1>1, <2>1, <3>1, <3>2 DEF References, Live, OutRows
    <3>4. payments[n].outcome \in payments[n].said
      BY <1>1, <2>1, <3>1, <3>3 DEF OutcomesAreSaid
    <3>5. HasSaid(row.id, payments[n].outcome)
      BY <1>1, <3>2, <3>3, <3>4, SaidUnderReference
    <3> QED
      BY <2>1, <3>1, <3>2, <3>5
  <2>2. ASSUME NEW n \in 1 .. Len(payments), NEW i \in Instructions, NEW outcome \in payments[n].said,
               instructions[i] # None, instructions[i].ref = payments[n].ref,
               h = [row |-> instructions[i], outcome |-> outcome]
        PROVE  IsPaid(h.row.id, h.row.ref) /\ HasSaid(h.row.id, h.outcome)
    <3>1. IsPaid(i, payments[n].ref) /\ instructions[i].id = i
      BY <1>6, <2>2
    <3>2. HasSaid(i, outcome)
      BY <1>1, <3>1, SaidUnderReference
    <3> QED
      BY <2>2, <3>1, <3>2
  <2>3. IsPaid(h.row.id, h.row.ref) /\ HasSaid(h.row.id, h.outcome)
    <3>1. h \in {sweep'.held, push'}
      BY <1>8
    <3>2. ASSUME h \in {sweep.held, push}
          PROVE  IsPaid(h.row.id, h.row.ref) /\ HasSaid(h.row.id, h.outcome)
      BY <1>1, <1>8, <3>2 DEF References, RailsWord
    <3>3. CASE h = sweep'.held
      BY <1>1, <1>8, <2>1, <3>2, <3>3, HoldingSteps
    <3>4. CASE h = push'
      BY <1>1, <1>8, <2>2, <3>2, <3>4, HoldingSteps
    <3> QED
      BY <3>1, <3>3, <3>4
  <2> QED
    BY <1>3, <1>4, <2>3
<1>9. /\ \A i \in Instructions : instructions'[i] # None => IsPaid(i, instructions[i].ref)'
      /\ \A e \in outbox' : HasSaid(e[1], e[2])'
  <2>1. CASE UNCHANGED <<instructions, outbox>>
    BY <1>1, <1>3, <1>4, <2>1 DEF References, RailsWord
  <2>2. ASSUME NEW c \in Clients, SaveSubmitted(c)
        PROVE  \A i \in Instructions : instructions'[i] # None => IsPaid(i, instructions'[i].ref)
    <3>1. PICK row : row = Submitted(clients[c])
      OBVIOUS
    <3>2. IsPaid(row.id, row.ref)
      BY <1>1, <2>2, <3>1 DEF SaveSubmitted, Submitted, References
    <3>3. instructions' = instructions \/ instructions' = [instructions EXCEPT ![row.id] = row]
      BY <2>2, <3>1 DEF SaveSubmitted
    <3> QED
      BY <1>1, <3>2, <3>3 DEF References, OutTypeOK
  <2>3. ASSUME NEW h \in {sweep.held, push}, h # NothingHeld, Apply(h.row, h.outcome)
        PROVE  /\ \A i \in Instructions : instructions'[i] # None => IsPaid(i, instructions'[i].ref)
               /\ \A e \in outbox' : HasSaid(e[1], e[2])
    <3>1. /\ IsPaid(h.row.id, h.row.ref) /\ HasSaid(h.row.id, h.outcome)
          /\ h.row \in OutRows
      BY <1>1, <2>3, HeldTyped DEF References, RailsWord
    <3>2. [h.row EXCEPT !.status = h.outcome].ref = h.row.ref
      BY <3>1 DEF OutRows
    <3>3. PICK row : row = [h.row EXCEPT !.status = h.outcome]
      OBVIOUS
    <3>4. \/ UNCHANGED <<instructions, outbox>>
          \/ /\ instructions' = [instructions EXCEPT ![h.row.id] = row]
             /\ outbox' = outbox \cup {<<h.row.id, h.outcome>>}
      BY <2>3, <3>3 DEF Apply
    <3>5. \A i \in Instructions : instructions'[i] # None => IsPaid(i, instructions'[i].ref)
      BY <1>1, <3>1, <3>2, <3>3, <3>4 DEF References, OutTypeOK
    <3>6. \A e \in outbox' : HasSaid(e[1], e[2])
      BY <1>1, <3>1, <3>4 DEF RailsWord
    <3> QED
      BY <3>5, <3>6
  <2>4. ASSUME \A i \in Instructions : instructions'[i] # None => IsPaid(i, instructions'[i].ref)
        PROVE  \A i \in Instructions : instructions'[i] # None => IsPaid(i, instructions[i].ref)'
    <3> SUFFICES ASSUME NEW i \in Instructions, instructions'[i] # None, NEW ref, ref = instructions'[i].ref
                 PROVE  IsPaid(i, ref)'
      OBVIOUS
    <3> QED
      BY <1>3, <2>4
  <2>5. ASSUME \A e \in outbox' : HasSaid(e[1], e[2])
        PROVE  \A e \in outbox' : HasSaid(e[1], e[2])'
    BY <1>4, <2>5
  <2>6. ASSUME NEW c \in Clients, SaveSubmitted(c) PROVE \A e \in outbox' : HasSaid(e[1], e[2])
    BY <1>1, <2>6 DEF SaveSubmitted, RailsWord
  <2> QED
    BY <2>1, <2>2, <2>3, <2>4, <2>5, <2>6, RowSteps
<1> QED
  BY <1>1, <1>2, <1>5, <1>7, <1>8, <1>9 DEF References, RailsWord
-----------------------------------------------------------------------------
(* The theorems.                                                           *)

LEMMA OutInvHolds == OutSpec => []OutInv
<1>1. ASSUME OutInv, [OutNext]_outVars PROVE OutInv'
  <2>1. OutTypeOK' /\ RowsAreAnnounced' /\ OnePaymentPerLife' /\ OutcomesAreSaid'
    BY <1>1, NextTyped, StepRowsAnnounced, StepPaidOnce, StepOutcomesSaid DEF OutInv
  <2> QED
    BY <1>1, <2>1, StepReferences DEF OutInv
<1> QED
  BY <1>1, InitHolds, PTL DEF OutSpec

\* However many retries overlap and wherever they stop, the rail pays an
\* instruction once in every life of the process (InitiateDisbursement's lookup,
\* and the adapter's own ledger behind it).
THEOREM RailPaysOncePerLife == OutSpec => []OnePaymentPerLife
<1>1. OutInv => OnePaymentPerLife
  BY DEF OutInv
<1> QED
  BY <1>1, OutInvHolds, PTL

\* What an instruction shows it has announced, and what it announces the rail
\* has said under the reference of that instruction, and of that very payment
\* as long as there was no restart (applyOutcome on rows read earlier,
\* ProcessConfirmation out of order).
THEOREM AnnouncementsAreTheRails == OutSpec => []OutcomesComeFromTheRail
<1>1. OutInv => OutcomesComeFromTheRail
  BY DEF OutInv, RowsAreAnnounced, RailsWord, HasSaid, OutcomesComeFromTheRail
<1> QED
  BY <1>1, OutInvHolds, PTL
=============================================================================
