------------------------ MODULE InboundPayment_proofs ------------------------
(***************************************************************************)
(* Money coming in, for any credits and bounds: a receipt says of a credit *)
(* what LAS holds of it, and the cursor passes nothing that is not booked  *)
(* but what carries the time of a report that is.                          *)
(*                                                                         *)
(* Behind it: whoever is between its call to LAS and its transaction - the *)
(* poll at an answered event, a return at the rail - still holds a row and *)
(* an account as they were when it called, for nobody else may move them;  *)
(* and what a batch holds reaches back to the cursor without a gap.        *)
(***************************************************************************)
EXTENDS InboundPayment, TLAPS

Answers  == Findings \cup {"ReversalPending", "Reversed"}
Events   == [kind : {"received", "returned"}, credit : Credits, at : Nat]
Receipts == [status : {"Executed", "Returned"}, purpose : {"REPAYMENT", "PAYOFF"}]

InTypeOK ==
    /\ reports \subseteq Events /\ clock \in Nat /\ \A e \in reports : e.at <= clock
    /\ receipts \in [Credits -> Receipts \cup {Nil}] /\ cursor \in Nat /\ cursor <= clock
    /\ las \in [Credits -> Answers \cup {Nil}]
    /\ poll \in [todo : SUBSET reports, answered : reports \cup {Nil}]
    /\ sendback \in [pc : {"none", "rail", "save"}, credit : Credits \cup {Nil}]
    /\ sendback.pc # "none" => sendback.credit \in Credits

BeingReversed(c) == receipts[c] # Nil /\ las[c] \in {"ReversalPending", "Reversed"}

\* What LAS was asked for holds until it is recorded.
AnswersStand ==
    /\ poll.answered # Nil /\ poll.answered.kind = "received" =>
          receipts[poll.answered.credit] = Nil /\ las[poll.answered.credit] # Nil
    /\ poll.answered # Nil /\ poll.answered.kind = "returned" => BeingReversed(poll.answered.credit)
    /\ sendback.pc # "none" => BeingReversed(sendback.credit)

InInv == InTypeOK /\ AnswersStand /\ ReceiptsAgreeWithLas

Accounted(e) == Booked(e) \/ Tied(e)

\* Whatever was reported no later than an event of the batch is in it too, or
\* accounted for, and the event LAS has answered is the earliest of the batch.
NoGap ==
    /\ \A e \in poll.todo : poll.answered # Nil => poll.answered.at <= e.at
    /\ \A e \in poll.todo, f \in reports : f.at <= e.at => Accounted(f) \/ f \in poll.todo
    /\ \A e \in reports : e.at <= cursor => Accounted(e)
-----------------------------------------------------------------------------
(* Types.                                                                  *)

USE DEF inrail, indb, inwork, inuse

LEMMA NoPollTyped == NoPoll.todo = {} /\ NoPoll.answered = Nil
BY DEF NoPoll

LEMMA InInitHolds == InInit => InInv /\ NoGap
<1> SUFFICES ASSUME InInit PROVE InInv /\ NoGap
  OBVIOUS
<1>1. InTypeOK
  BY DEF InInit, InTypeOK, NoPoll, NoSendBack
<1>2. AnswersStand /\ ReceiptsAgreeWithLas /\ NoGap
  BY DEF InInit, AnswersStand, ReceiptsAgreeWithLas, NoGap, NoPoll, NoSendBack
<1> QED
  BY <1>1, <1>2 DEF InInv

LEMMA EventTyped ==
    ASSUME InTypeOK, NEW e \in reports
    PROVE  /\ e \in Events /\ e.credit \in Credits /\ e.at \in Nat /\ e.at <= clock
           /\ e.kind \in {"received", "returned"} /\ e # Nil
BY InAssumption DEF InTypeOK, Events

\* The events of the batch that a step takes one off.
LEMMA DoneTyped ==
    ASSUME InTypeOK, NEW e \in poll.todo, Done(e), cursor' = e.at, UNCHANGED <<reports, clock>>
    PROVE  /\ poll' \in [todo : SUBSET reports', answered : reports' \cup {Nil}]
           /\ cursor' \in Nat /\ cursor' <= clock'
<1>1. e \in reports /\ poll.todo \subseteq reports
  BY DEF InTypeOK
<1> QED
  BY <1>1, EventTyped DEF Done

LEMMA LasTyped ==
    ASSUME InTypeOK, NEW c \in Credits
    PROVE  /\ \A answer \in Answers : Notified(c, answer) => las' \in [Credits -> Answers \cup {Nil}]
           /\ Reversed(c) \/ HalfReversed(c) => las' \in [Credits -> Answers \cup {Nil}]
BY DEF InTypeOK, Notified, Reversed, HalfReversed, Answers

LEMMA InNextTyped == InTypeOK /\ [InNext]_inVars => InTypeOK'
<1> SUFFICES ASSUME InTypeOK, [InNext]_inVars PROVE InTypeOK'
  OBVIOUS
<1>0. /\ sendback \in [pc : {"none", "rail", "save"}, credit : Credits \cup {Nil}]
      /\ poll \in [todo : SUBSET reports, answered : reports \cup {Nil}]
      /\ NoPoll \in [todo : SUBSET reports, answered : reports \cup {Nil}]
      /\ NoSendBack \in [pc : {"none", "rail", "save"}, credit : Credits \cup {Nil}] /\ NoSendBack.pc = "none"
  BY DEF InTypeOK, NoPoll, NoSendBack
<1>1. ASSUME NEW cs \in SUBSET Credits, NEW kind \in {"received", "returned"}, Report(kind, cs)
      PROVE  InTypeOK'
  <2>1. {Event(kind, c, clock') : c \in cs} \subseteq Events
    BY <1>1 DEF Report, Event, Events, InTypeOK
  <2>2. \A e \in {Event(kind, c, clock') : c \in cs} : e.at = clock'
    BY DEF Event
  <2>3. clock \in Nat /\ clock' = clock + 1 /\ reports' = reports \cup {Event(kind, c, clock') : c \in cs}
    BY <1>1 DEF Report, InTypeOK
  <2>4. reports' \subseteq Events /\ clock' \in Nat /\ (\A e \in reports' : e.at <= clock') /\ cursor <= clock'
    BY <2>1, <2>2, <2>3, EventTyped DEF InTypeOK
  <2> QED
    BY <1>0, <1>1, <2>3, <2>4 DEF Report, InTypeOK
<1>2. ASSUME NEW c \in Credits, SendBack(c) PROVE InTypeOK'
  <2>1. las' \in [Credits -> Answers \cup {Nil}]
    BY <1>2, LasTyped DEF SendBack
  <2>2. sendback' \in {sendback, NoSendBack, [pc |-> "rail", credit |-> c]}
    BY <1>2 DEF SendBack
  <2> QED
    BY <1>0, <1>2, <2>1, <2>2 DEF SendBack, InTypeOK
<1>3. CASE Fetch
  BY <1>0, <1>3 DEF Fetch, Unseen, InTypeOK, NoPoll
<1>4. ASSUME NEW e \in poll.todo PROVE e \in reports /\ e.credit \in Credits
  BY EventTyped DEF InTypeOK
<1>5. ASSUME NEW e \in poll.todo, Recognise(e) PROVE InTypeOK'
  BY <1>4, <1>5, DoneTyped DEF Recognise, InTypeOK
<1>6. ASSUME NEW e \in poll.todo, Notify(e) PROVE InTypeOK'
  <2>1. las' \in [Credits -> Answers \cup {Nil}]
    BY <1>4, <1>6, LasTyped DEF Notify, Answers
  <2> QED
    BY <1>4, <1>6, <2>1 DEF Notify, InTypeOK
<1>7. ASSUME NEW e \in poll.todo, Record(e) PROVE InTypeOK'
  BY <1>4, <1>7, DoneTyped DEF Record, InTypeOK, Receipt, Receipts
<1>8. ASSUME NEW e \in poll.todo, Escalate(e) PROVE InTypeOK'
  <2>1. receipts' = receipts \/ receipts' = [receipts EXCEPT ![e.credit] = Receipt("Returned", "PAYOFF")]
    BY <1>4, <1>8 DEF Escalate, InTypeOK, Receipt
  <2> QED
    BY <1>4, <1>8, <2>1, DoneTyped DEF Escalate, InTypeOK, Receipt, Receipts
<1>9. ASSUME NEW e \in poll.todo, ReverseReturned(e) PROVE InTypeOK'
  BY <1>4, <1>9, LasTyped DEF ReverseReturned, InTypeOK
<1>10. ASSUME NEW e \in poll.todo, RecordReturn(e) PROVE InTypeOK'
  BY <1>4, <1>10, DoneTyped DEF RecordReturn, InTypeOK, Receipt, Receipts
<1>11. ASSUME NEW e \in poll.todo, Stop(e) PROVE InTypeOK'
  BY <1>0, <1>11 DEF Stop, InTypeOK
<1>12. CASE PollFails
  <2>1. las' \in [Credits -> Answers \cup {Nil}]
    BY <1>4, <1>12, LasTyped DEF PollFails, Answers, InTypeOK
  <2> QED
    BY <1>0, <1>12, <2>1 DEF PollFails, InTypeOK
<1>13. CASE TellRail
  BY <1>0, <1>13 DEF TellRail, SendBackStep, InTypeOK
<1>14. CASE RecordSentBack
  BY <1>0, <1>14 DEF RecordSentBack, InTypeOK, Receipt, Receipts
<1>15. CASE SendBackFails
  BY <1>0, <1>15 DEF SendBackFails, InTypeOK
<1>16. CASE Lose
  BY <1>0, <1>16, NoPollTyped DEF Lose, InTypeOK, NoPoll
<1>17. CASE UNCHANGED inVars
  BY <1>17 DEF inVars, InTypeOK
<1> QED
  BY <1>1, <1>2, <1>3, <1>5, <1>6, <1>7, <1>8, <1>9, <1>10, <1>11, <1>12, <1>13, <1>14, <1>15, <1>16, <1>17
     DEF InNext, PollStep
-----------------------------------------------------------------------------
(* What moves a receipt, and what moves the account behind it.             *)

\* LAS takes a credit nobody has a row of, or reverses a repayment.
LEMMA LasSteps ==
    ASSUME InTypeOK, [InNext]_inVars, NEW c \in Credits
    PROVE  \/ las'[c] = las[c]
           \/ las[c] = Nil /\ receipts[c] = Nil /\ las'[c] # Nil /\ receipts'[c] = receipts[c]
           \/ las[c] = "Posted" /\ las'[c] \in {"ReversalPending", "Reversed"} /\ receipts'[c] = receipts[c]
<1>1. ASSUME NEW cs \in SUBSET Credits, NEW kind \in {"received", "returned"}, Report(kind, cs)
      PROVE  las' = las
  BY <1>1 DEF Report
<1>2. ASSUME NEW d \in Credits, Reversed(d) \/ HalfReversed(d), receipts' = receipts
      PROVE  \/ las'[c] = las[c]
             \/ las[c] = "Posted" /\ las'[c] \in {"ReversalPending", "Reversed"} /\ receipts'[c] = receipts[c]
  BY <1>2 DEF Reversed, HalfReversed, InTypeOK
<1>3. ASSUME NEW d \in Credits, NEW answer \in Answers, Notified(d, answer), receipts[d] = Nil, receipts' = receipts
      PROVE  \/ las'[c] = las[c]
             \/ las[c] = Nil /\ receipts[c] = Nil /\ las'[c] # Nil /\ receipts'[c] = receipts[c]
  BY <1>3, InAssumption DEF Notified, InTypeOK, Findings
<1>4. ASSUME NEW e \in poll.todo PROVE e.credit \in Credits
  BY EventTyped DEF InTypeOK
<1>5. ASSUME NEW d \in Credits, SendBack(d)
      PROVE  (Reversed(d) \/ HalfReversed(d)) /\ receipts' = receipts
  BY <1>5 DEF SendBack
<1>6. ASSUME NEW e \in poll.todo, Notify(e)
      PROVE  /\ \E answer \in Answers : Notified(e.credit, answer)
             /\ receipts[e.credit] = Nil /\ receipts' = receipts
  BY <1>6 DEF Notify, Answers
<1>7. ASSUME NEW e \in poll.todo, ReverseReturned(e) PROVE Reversed(e.credit) /\ receipts' = receipts
  BY <1>7 DEF ReverseReturned
<1>8. ASSUME PollFails
      PROVE  /\ receipts' = receipts
             /\ \/ las' = las
                \/ \E e \in poll.todo :
                      \/ /\ receipts[e.credit] = Nil
                         /\ \E answer \in Answers : Notified(e.credit, answer)
                      \/ Reversed(e.credit) \/ HalfReversed(e.credit)
  BY <1>8 DEF PollFails, Answers
<1>9. ASSUME \/ Fetch \/ TellRail \/ RecordSentBack \/ SendBackFails \/ Lose
             \/ \E e \in poll.todo : Recognise(e) \/ Record(e) \/ Escalate(e) \/ RecordReturn(e) \/ Stop(e)
      PROVE  las' = las
  BY <1>9 DEF Fetch, TellRail, RecordSentBack, SendBackFails, Lose, Recognise, Record, Escalate, RecordReturn, Stop
<1>10. ASSUME PollFails
       PROVE  \/ las'[c] = las[c]
              \/ las[c] = Nil /\ receipts[c] = Nil /\ las'[c] # Nil /\ receipts'[c] = receipts[c]
              \/ las[c] = "Posted" /\ las'[c] \in {"ReversalPending", "Reversed"} /\ receipts'[c] = receipts[c]
  BY <1>2, <1>3, <1>4, <1>8, <1>10
<1> QED
  BY <1>1, <1>2, <1>3, <1>4, <1>5, <1>6, <1>7, <1>9, <1>10 DEF InNext, PollStep, inVars

\* A receipt is entered for an answered credit, returned for a reversed one,
\* or escalated.
LEMMA ReceiptSteps ==
    ASSUME InInv, [InNext]_inVars, NEW c \in Credits
    PROVE  /\ audit \subseteq audit' /\ escalated \subseteq escalated'
           /\ \/ receipts'[c] = receipts[c]
              \/ /\ las'[c] = las[c] /\ las[c] # Nil /\ receipts[c] = Nil /\ c \in audit'
                 /\ poll.answered # Nil /\ poll.answered.kind = "received" /\ poll.answered.credit = c
                 /\ receipts'[c] = Receipt("Executed", IF las[c] = "Payoff" THEN "PAYOFF" ELSE "REPAYMENT")
                 /\ poll'.answered = Nil /\ sendback' = sendback
              \/ /\ las'[c] = las[c] /\ <<c, "NO_COMPLIANT_REVERSAL_PATH">> \in escalated'
                 /\ receipts[c] = Receipt("Executed", "PAYOFF") /\ receipts'[c] = Receipt("Returned", "PAYOFF")
              \/ /\ las'[c] = las[c] /\ BeingReversed(c)
                 /\ receipts'[c] = Receipt("Returned", "REPAYMENT")
<1>1. ASSUME NEW cs \in SUBSET Credits, NEW kind \in {"received", "returned"}, Report(kind, cs)
      PROVE  UNCHANGED <<receipts, audit, escalated>>
  BY <1>1 DEF Report
<1>2. ASSUME NEW d \in Credits, SendBack(d) PROVE UNCHANGED <<receipts, audit, escalated>>
  BY <1>2 DEF SendBack
<1>3. ASSUME \/ Fetch \/ PollFails \/ TellRail \/ SendBackFails \/ Lose
             \/ \E e \in poll.todo : Recognise(e) \/ Notify(e) \/ ReverseReturned(e) \/ Stop(e)
      PROVE  UNCHANGED <<receipts, audit, escalated>>
  BY <1>3 DEF Fetch, PollFails, TellRail, SendBackFails, Lose, Recognise, Notify, ReverseReturned, Stop
<1>4. ASSUME NEW e \in poll.todo
      PROVE  e.credit \in Credits /\ e # Nil /\ receipts \in [Credits -> Receipts \cup {Nil}]
  BY EventTyped DEF InInv, InTypeOK
<1>5. ASSUME NEW e \in poll.todo, Record(e)
      PROVE  /\ UNCHANGED <<las, escalated, sendback>> /\ audit' = audit \cup {e.credit}
             /\ receipts' = [receipts EXCEPT ![e.credit] =
                   Receipt("Executed", IF las[e.credit] = "Payoff" THEN "PAYOFF" ELSE "REPAYMENT")]
             /\ las[e.credit] # Nil /\ receipts[e.credit] = Nil
             /\ poll.answered = e /\ e.kind = "received" /\ poll'.answered = Nil
  BY <1>4, <1>5 DEF Record, Done, InInv, AnswersStand
<1>6. ASSUME NEW e \in poll.todo, Escalate(e)
      PROVE  /\ UNCHANGED <<las, audit>> /\ escalated \subseteq escalated'
             /\ \/ receipts' = receipts
                \/ /\ receipts[e.credit] = Receipt("Executed", "PAYOFF")
                   /\ receipts' = [receipts EXCEPT ![e.credit] = Receipt("Returned", "PAYOFF")]
                   /\ <<e.credit, "NO_COMPLIANT_REVERSAL_PATH">> \in escalated'
  BY <1>4, <1>6 DEF Escalate, Receipt
<1>7. ASSUME NEW e \in poll.todo, RecordReturn(e)
      PROVE  /\ UNCHANGED <<las, audit, escalated>> /\ BeingReversed(e.credit)
             /\ receipts' = [receipts EXCEPT ![e.credit] = Receipt("Returned", "REPAYMENT")]
  BY <1>4, <1>7 DEF RecordReturn, InInv, AnswersStand
<1>8. ASSUME RecordSentBack
      PROVE  /\ UNCHANGED <<las, audit, escalated>> /\ BeingReversed(sendback.credit)
             /\ sendback.credit \in Credits
             /\ receipts' = [receipts EXCEPT ![sendback.credit] = Receipt("Returned", "REPAYMENT")]
  BY <1>8 DEF RecordSentBack, InInv, AnswersStand, InTypeOK
<1>9. receipts \in [Credits -> Receipts \cup {Nil}]
  BY DEF InInv, InTypeOK
<1> QED
  BY <1>1, <1>2, <1>3, <1>4, <1>5, <1>6, <1>7, <1>8, <1>9 DEF InNext, PollStep, inVars

LEMMA ReceiptIsSomething ==
    ASSUME NEW status \in {"Executed", "Returned"}, NEW purpose \in {"REPAYMENT", "PAYOFF"}
    PROVE  Receipt(status, purpose) # Nil
BY InAssumption DEF Receipt

LEMMA ReversalStands ==
    ASSUME InInv, [InNext]_inVars, NEW c \in Credits, BeingReversed(c)
    PROVE  BeingReversed(c)'
<1>1. receipts'[c] # Nil
  BY ReceiptSteps, ReceiptIsSomething DEF BeingReversed
<1>2. las'[c] \in {"ReversalPending", "Reversed"}
  BY LasSteps, InAssumption DEF BeingReversed, InInv
<1> QED
  BY <1>1, <1>2 DEF BeingReversed

\* What the poll and a return at the rail go by.
LEMMA AnsweredSteps ==
    ASSUME InTypeOK, [InNext]_inVars
    PROVE  /\ \/ poll'.answered \in {poll.answered, Nil}
              \/ \E e \in poll.todo : poll'.answered = e /\ (Notify(e) \/ ReverseReturned(e))
           /\ \/ sendback'.credit = sendback.credit /\ sendback.pc # "none"
              \/ sendback'.pc = "none"
              \/ \E c \in Credits : SendBack(c) /\ Reversed(c) /\ sendback'.credit = c
<1>0. /\ sendback \in [pc : {"none", "rail", "save"}, credit : Credits \cup {Nil}]
      /\ poll \in [todo : SUBSET reports, answered : reports \cup {Nil}]
      /\ NoSendBack.pc = "none" /\ NoPoll.answered = Nil
  BY DEF InTypeOK, NoPoll, NoSendBack
<1>1. ASSUME NEW cs \in SUBSET Credits, NEW kind \in {"received", "returned"}, Report(kind, cs)
      PROVE  UNCHANGED <<poll, sendback>>
  BY <1>1 DEF Report
<1>2. ASSUME NEW c \in Credits, SendBack(c)
      PROVE  /\ poll' = poll
             /\ \/ sendback' \in {sendback, NoSendBack}
                \/ Reversed(c) /\ sendback'.credit = c
  BY <1>2 DEF SendBack
<1>3. ASSUME NEW e \in poll.todo, Notify(e) \/ ReverseReturned(e)
      PROVE  poll'.answered = e /\ sendback' = sendback
  BY <1>0, <1>3 DEF Notify, ReverseReturned
<1>4. ASSUME \/ Fetch \/ PollFails
             \/ \E e \in poll.todo : Recognise(e) \/ Record(e) \/ Escalate(e) \/ RecordReturn(e) \/ Stop(e)
      PROVE  poll'.answered = Nil /\ sendback' = sendback
  <2>1. CASE Fetch \/ PollFails
    BY <2>1 DEF Fetch, PollFails, NoPoll
  <2>2. ASSUME NEW e \in poll.todo, Recognise(e) \/ Record(e) \/ Escalate(e) \/ RecordReturn(e)
        PROVE  poll'.answered = Nil /\ sendback' = sendback
    BY <2>2 DEF Recognise, Record, Escalate, RecordReturn, Done
  <2>3. ASSUME NEW e \in poll.todo, Stop(e) PROVE poll'.answered = Nil /\ sendback' = sendback
    BY <2>3 DEF Stop, NoPoll
  <2> QED
    BY <1>4, <2>1, <2>2, <2>3
<1>5. CASE TellRail
  BY <1>0, <1>5 DEF TellRail, SendBackStep
<1>6. CASE RecordSentBack \/ SendBackFails \/ Lose
  BY <1>0, <1>6 DEF RecordSentBack, SendBackFails, Lose
<1>7. CASE UNCHANGED inVars
  BY <1>0, <1>7 DEF inVars
<1> QED
  BY <1>0, <1>1, <1>2, <1>3, <1>4, <1>5, <1>6, <1>7 DEF InNext, PollStep

LEMMA StepAnswers == InInv /\ [InNext]_inVars => AnswersStand'
<1> SUFFICES ASSUME InInv, [InNext]_inVars PROVE AnswersStand'
  OBVIOUS
<1>0. InTypeOK /\ AnswersStand
  BY DEF InInv
<1>1. ASSUME poll'.answered = poll.answered, poll.answered # Nil
      PROVE  /\ poll.answered.kind = "received" =>
                   receipts'[poll.answered.credit] = Nil /\ las'[poll.answered.credit] # Nil
             /\ poll.answered.kind = "returned" => BeingReversed(poll.answered.credit)'
  <2>1. PICK c \in Credits : c = poll.answered.credit
    BY <1>0, <1>1, EventTyped DEF InTypeOK
  <2>2. CASE poll.answered.kind = "received"
    <3>1. receipts[c] = Nil /\ las[c] # Nil
      BY <1>0, <1>1, <2>1, <2>2 DEF AnswersStand
    <3>2. receipts'[c] = Nil
      BY <1>1, <3>1, ReceiptSteps, ReceiptIsSomething DEF BeingReversed
    <3>3. las'[c] # Nil
      BY <1>0, <3>1, LasSteps, InAssumption
    <3> QED
      BY <2>1, <2>2, <3>2, <3>3
  <2>3. CASE poll.answered.kind = "returned"
    <3>1. BeingReversed(c)'
      BY <1>0, <1>1, <2>1, <2>3, ReversalStands DEF AnswersStand
    <3> QED
      BY <1>1, <2>1, <2>3, <3>1 DEF BeingReversed
  <2> QED
    BY <2>2, <2>3
<1>2. ASSUME NEW e \in poll.todo, Notify(e)
      PROVE  e.kind = "received" /\ receipts'[e.credit] = Nil /\ las'[e.credit] # Nil
  BY <1>0, <1>2, EventTyped, InAssumption DEF Notify, Notified, Findings, InTypeOK
<1>3. ASSUME NEW c \in Credits, receipts[c] # Nil, Reversible(c), Reversed(c), receipts' = receipts
      PROVE  BeingReversed(c)'
  BY <1>0, <1>3 DEF Reversible, Reversed, BeingReversed, InTypeOK
<1>4. ASSUME NEW e \in poll.todo, ReverseReturned(e)
      PROVE  e.kind = "returned" /\ BeingReversed(e.credit)'
  <2>1. PICK c \in Credits : c = e.credit
    BY <1>0, EventTyped DEF InTypeOK
  <2>2. BeingReversed(c)'
    BY <1>3, <1>4, <2>1, ReceiptIsSomething DEF ReverseReturned, IsReversible
  <2> QED
    BY <1>4, <2>1, <2>2 DEF ReverseReturned, BeingReversed
<1>5. ASSUME sendback'.pc # "none" PROVE BeingReversed(sendback.credit)'
  <2>1. CASE sendback'.credit = sendback.credit /\ sendback.pc # "none"
    <3>1. PICK c \in Credits : c = sendback.credit
      BY <1>0, <2>1 DEF InTypeOK
    <3>2. BeingReversed(c)'
      BY <1>0, <2>1, <3>1, ReversalStands DEF AnswersStand
    <3> QED
      BY <2>1, <3>1, <3>2 DEF BeingReversed
  <2>2. ASSUME NEW c \in Credits, SendBack(c), Reversed(c), sendback'.credit = c
        PROVE  BeingReversed(sendback.credit)'
    BY <1>3, <2>2 DEF SendBack, BeingReversed
  <2> QED
    BY <1>0, <1>5, <2>1, <2>2, AnsweredSteps
<1>6. CASE poll'.answered = Nil
  BY <1>5, <1>6 DEF AnswersStand
<1>7. CASE poll'.answered = poll.answered /\ poll.answered # Nil
  BY <1>1, <1>5, <1>7 DEF AnswersStand, BeingReversed
<1>8. ASSUME NEW e \in poll.todo, poll'.answered = e, Notify(e) \/ ReverseReturned(e)
      PROVE  AnswersStand'
  BY <1>2, <1>4, <1>5, <1>8 DEF AnswersStand, BeingReversed
<1> QED
  BY <1>0, <1>6, <1>7, <1>8, AnsweredSteps

LEMMA StepAgree == InInv /\ [InNext]_inVars => ReceiptsAgreeWithLas'
<1> SUFFICES ASSUME InInv, [InNext]_inVars, NEW c \in Credits, receipts'[c] # Nil
             PROVE  /\ las'[c] # Nil /\ c \in audit'
                    /\ receipts'[c].purpose = "PAYOFF" <=> las'[c] = "Payoff"
                    /\ receipts'[c].status = "Returned" =>
                          \/ las'[c] \in {"ReversalPending", "Reversed"}
                          \/ <<c, "NO_COMPLIANT_REVERSAL_PATH">> \in escalated'
  BY DEF ReceiptsAgreeWithLas
<1>1. InTypeOK /\ ReceiptsAgreeWithLas /\ audit \subseteq audit' /\ escalated \subseteq escalated'
  BY ReceiptSteps DEF InInv
<1>2. ASSUME receipts[c] # Nil
      PROVE  /\ las[c] # Nil /\ c \in audit
             /\ receipts[c].purpose = "PAYOFF" <=> las[c] = "Payoff"
  BY <1>1, <1>2 DEF ReceiptsAgreeWithLas
<1>3. CASE receipts'[c] = receipts[c]
  BY <1>1, <1>3, LasSteps, InAssumption DEF ReceiptsAgreeWithLas
<1>4. CASE receipts'[c] # receipts[c]
  <2>1. ASSUME las'[c] = las[c], las[c] # Nil, c \in audit',
               receipts'[c] = Receipt("Executed", IF las[c] = "Payoff" THEN "PAYOFF" ELSE "REPAYMENT")
        PROVE  /\ receipts'[c].purpose = "PAYOFF" <=> las'[c] = "Payoff"
               /\ receipts'[c].status = "Executed"
    BY <2>1 DEF Receipt
  <2>2. ASSUME las'[c] = las[c], receipts[c] = Receipt("Executed", "PAYOFF"),
               receipts'[c] = Receipt("Returned", "PAYOFF")
        PROVE  las'[c] # Nil /\ c \in audit' /\ receipts'[c].purpose = "PAYOFF" /\ las'[c] = "Payoff"
    <3>1. receipts[c] # Nil /\ receipts[c].purpose = "PAYOFF" /\ receipts'[c].purpose = "PAYOFF"
      BY <2>2, ReceiptIsSomething DEF Receipt
    <3> QED
      BY <1>1, <1>2, <2>2, <3>1
  <2>3. ASSUME las'[c] = las[c], BeingReversed(c), receipts'[c] = Receipt("Returned", "REPAYMENT")
        PROVE  /\ las'[c] # Nil /\ c \in audit' /\ receipts'[c].purpose = "REPAYMENT"
               /\ las'[c] \in {"ReversalPending", "Reversed"}
    <3>1. receipts'[c].purpose = "REPAYMENT"
      BY <2>3 DEF Receipt
    <3>2. receipts[c] # Nil /\ las[c] \in {"ReversalPending", "Reversed"}
      BY <2>3 DEF BeingReversed
    <3> QED
      BY <1>1, <1>2, <2>3, <3>1, <3>2
  <2> QED
    BY <1>4, <2>1, <2>2, <2>3, ReceiptSteps
<1> QED
  BY <1>3, <1>4
-----------------------------------------------------------------------------
(* What the cursor passes.                                                 *)

LEMMA BookedStays ==
    ASSUME InInv, [InNext]_inVars, NEW e \in reports, Booked(e)
    PROVE  Booked(e)'
<1>1. e.credit \in Credits /\ escalated \subseteq escalated'
  BY EventTyped, ReceiptSteps DEF InInv
<1>2. ASSUME receipts[e.credit] # Nil
      PROVE  receipts'[e.credit] # Nil /\ (receipts[e.credit].status = "Returned" => receipts'[e.credit].status = "Returned")
  <2>1. ASSUME NEW purpose, receipts'[e.credit] = Receipt("Returned", purpose)
        PROVE  receipts'[e.credit].status = "Returned"
    BY <2>1 DEF Receipt
  <2>2. receipts'[e.credit] # Nil
    BY <1>1, <1>2, ReceiptSteps, ReceiptIsSomething
  <2>3. \/ receipts'[e.credit] = receipts[e.credit] \/ receipts[e.credit] = Nil
        \/ \E purpose : receipts'[e.credit] = Receipt("Returned", purpose)
    BY <1>1, ReceiptSteps
  <2> QED
    BY <1>2, <2>1, <2>2, <2>3
<1> QED
  BY <1>1, <1>2 DEF Booked

\* An event taken off the batch is booked.
LEMMA DoneIsBooked ==
    ASSUME InInv, NEW e \in poll.todo, Recognise(e) \/ Record(e) \/ Escalate(e) \/ RecordReturn(e)
    PROVE  /\ Booked(e)' /\ Done(e) /\ cursor' = e.at /\ UNCHANGED <<reports, clock>>
           /\ e \in reports
           /\ NextUp(e) \/ poll.answered = e
<1>1. e \in reports /\ e.credit \in Credits /\ receipts \in [Credits -> Receipts \cup {Nil}]
  BY EventTyped DEF InInv, InTypeOK
<1>2. CASE Recognise(e)
  BY <1>1, <1>2 DEF Recognise, Booked, Waiting
<1>3. CASE Record(e)
  BY <1>1, <1>3, ReceiptIsSomething DEF Record, Booked
<1>4. CASE Escalate(e)
  <2>1. ASSUME receipts[e.credit] = Receipt("Executed", "PAYOFF"),
               receipts' = [receipts EXCEPT ![e.credit].status = "Returned"]
        PROVE  receipts'[e.credit] = Receipt("Returned", "PAYOFF")
    BY <1>1, <2>1 DEF Receipt
  <2> QED
    BY <1>1, <1>4, <2>1, ReceiptIsSomething DEF Escalate, Booked, Waiting, Receipt
<1>5. CASE RecordReturn(e)
  BY <1>1, <1>5, ReceiptIsSomething DEF RecordReturn, Booked, Receipt
<1> QED
  BY <1>2, <1>3, <1>4, <1>5

\* The batch is as it was, or dropped, or one event shorter, or newly fetched.
LEMMA BatchSteps ==
    ASSUME InTypeOK, [InNext]_inVars
    PROVE  \/ /\ poll'.todo = poll.todo /\ cursor' = cursor
              /\ \/ poll'.answered = poll.answered
                 \/ \E e \in poll.todo : poll'.answered = e /\ NextUp(e)
              /\ \/ reports' = reports
                 \/ \E kind : \E cs \in SUBSET Credits : Report(kind, cs)
           \/ /\ poll' = NoPoll /\ cursor' = cursor /\ reports' \in {reports, {}}
           \/ /\ poll = NoPoll /\ poll'.todo = Unseen /\ poll'.answered = Nil
              /\ UNCHANGED <<reports, cursor, receipts, escalated>>
           \/ \E e \in poll.todo : Recognise(e) \/ Record(e) \/ Escalate(e) \/ RecordReturn(e)
<1>0. poll \in [todo : SUBSET reports, answered : reports \cup {Nil}] /\ NoPoll = [todo |-> {}, answered |-> Nil]
  BY DEF InTypeOK, NoPoll
<1>1. ASSUME NEW cs, NEW kind, Report(kind, cs) PROVE UNCHANGED <<poll, cursor>>
  BY <1>1 DEF Report
<1>2. ASSUME NEW c \in Credits, SendBack(c) PROVE UNCHANGED <<poll, cursor, reports>>
  BY <1>2 DEF SendBack
<1>3. CASE TellRail \/ RecordSentBack \/ SendBackFails
  BY <1>3 DEF TellRail, RecordSentBack, SendBackFails
<1>4. CASE Lose \/ PollFails \/ \E e \in poll.todo : Stop(e)
  BY <1>4 DEF Lose, PollFails, Stop
<1>5. CASE Fetch
  BY <1>0, <1>5 DEF Fetch
<1>6. ASSUME NEW e \in poll.todo, Notify(e) \/ ReverseReturned(e)
      PROVE  poll'.todo = poll.todo /\ cursor' = cursor /\ reports' = reports /\ poll'.answered = e /\ NextUp(e)
  BY <1>0, <1>6 DEF Notify, ReverseReturned, Waiting
<1>7. CASE UNCHANGED inVars
  BY <1>7 DEF inVars
<1> QED
  BY <1>1, <1>2, <1>3, <1>4, <1>5, <1>6, <1>7 DEF InNext, PollStep

\* An event taken off the batch accounts for every other of its instant.
LEMMA AccountedStays ==
    ASSUME InInv, [InNext]_inVars, reports \subseteq reports', NEW e \in reports, Accounted(e)
    PROVE  Accounted(e)'
<1>1. CASE Booked(e)
  BY <1>1, BookedStays DEF Accounted
<1>2. CASE Tied(e)
  <2>1. PICK f \in reports \ {e} : f.at = e.at /\ Booked(f)
    BY <1>2 DEF Tied
  <2>2. Booked(f)' /\ f \in reports' \ {e}
    BY <2>1, BookedStays
  <2> QED
    BY <2>1, <2>2 DEF Accounted, Tied
<1> QED
  BY <1>1, <1>2 DEF Accounted

LEMMA StepNoGap ==
    ASSUME InInv, NoGap, [InNext]_inVars
    PROVE  NoGap'
<1>0. /\ InTypeOK /\ poll.todo \subseteq reports
      /\ \A e \in reports : e.at \in Nat /\ e.at <= clock
      /\ clock \in Nat /\ cursor \in Nat /\ cursor <= clock
      /\ NoPoll.todo = {} /\ NoPoll.answered = Nil
  BY EventTyped, NoPollTyped DEF InInv, InTypeOK
<1>1. ASSUME reports \subseteq reports', NEW e \in reports, Accounted(e) PROVE Accounted(e)'
  BY <1>1, AccountedStays
<1>2. ASSUME reports' \in {reports, {}}, cursor' = cursor, poll' = NoPoll
      PROVE  NoGap'
  BY <1>0, <1>1, <1>2 DEF NoGap
<1>3. ASSUME poll'.todo = poll.todo, cursor' = cursor,
             \/ poll'.answered = poll.answered
             \/ \E e \in poll.todo : poll'.answered = e /\ NextUp(e)
      PROVE  \A e \in poll'.todo : poll'.answered # Nil => poll'.answered.at <= e.at
  BY <1>3 DEF NoGap, NextUp
<1>4. ASSUME reports' = reports, poll'.todo = poll.todo, cursor' = cursor,
             \A e \in poll'.todo : poll'.answered # Nil => poll'.answered.at <= e.at
      PROVE  NoGap'
  BY <1>1, <1>4 DEF NoGap
<1>5. ASSUME poll'.todo = poll.todo, cursor' = cursor, NEW kind, NEW cs \in SUBSET Credits, Report(kind, cs),
             \A e \in poll'.todo : poll'.answered # Nil => poll'.answered.at <= e.at
      PROVE  NoGap'
  <2>1. PICK new : reports' = reports \cup new /\ \A e \in new : e.at = clock + 1
    <3>1. clock' = clock + 1 /\ reports' = reports \cup {Event(kind, c, clock') : c \in cs}
      BY <1>5 DEF Report
    <3>2. \A e \in {Event(kind, c, clock') : c \in cs} : e.at = clock'
      BY DEF Event
    <3> QED
      BY <3>1, <3>2
  <2>2. \A f \in reports' : f \in reports \/ (f.at > cursor /\ \A e \in reports : f.at > e.at)
    BY <1>0, <2>1
  <2>3. \A f \in reports : Accounted(f) => Accounted(f)'
    BY <1>1, <2>1
  <2>4. ASSUME NEW e \in poll.todo, NEW f \in reports', f.at <= e.at
        PROVE  Accounted(f)' \/ f \in poll.todo
    <3>1. e \in reports /\ e.at \in Nat /\ f \in reports
      BY <1>0, <2>1, <2>4
    <3> QED
      BY <2>3, <2>4, <3>1 DEF NoGap
  <2>5. ASSUME NEW f \in reports', f.at <= cursor PROVE Accounted(f)'
    <3>1. f \in reports
      BY <1>0, <2>1, <2>5
    <3> QED
      BY <2>3, <2>5, <3>1 DEF NoGap
  <2> QED
    BY <1>5, <2>4, <2>5 DEF NoGap
<1>6. ASSUME poll = NoPoll, poll'.todo = Unseen, poll'.answered = Nil,
             UNCHANGED <<reports, cursor, receipts, escalated>>
      PROVE  NoGap'
  <2>1. \A e \in reports : Accounted(e) => Accounted(e)'
    BY <1>1, <1>6
  <2>2. \A e \in reports : e.at <= cursor \/ e \in Unseen
    BY <1>0 DEF Unseen
  <2> QED
    BY <1>0, <1>6, <2>1, <2>2 DEF NoGap
<1>7. ASSUME NEW e \in poll.todo, Recognise(e) \/ Record(e) \/ Escalate(e) \/ RecordReturn(e)
      PROVE  NoGap'
  <2>1. /\ Booked(e)' /\ poll' = [todo |-> poll.todo \ {e}, answered |-> Nil] /\ cursor' = e.at
        /\ reports' = reports /\ e \in reports
        /\ \A f \in poll.todo : e.at <= f.at
    BY <1>7, DoneIsBooked, EventTyped DEF Done, NextUp, NoGap, InInv, InTypeOK
  <2>2. \A f \in reports : f.at = e.at => Accounted(f)'
    BY <2>1 DEF Accounted, Tied
  <2>3. \A f \in reports : Accounted(f) => Accounted(f)'
    BY <1>1, <2>1
  <2>4. ASSUME NEW f \in reports, f.at <= e.at PROVE Accounted(f)'
    <3>1. Accounted(f) \/ f.at = e.at
      BY <1>0, <2>1, <2>4 DEF NoGap
    <3> QED
      BY <2>2, <2>3, <2>4, <3>1
  <2>5. ASSUME NEW g \in poll.todo \ {e}, NEW f \in reports, f.at <= g.at
        PROVE  Accounted(f)' \/ f \in poll.todo \ {e}
    BY <2>1, <2>2, <2>3, <2>5 DEF NoGap
  <2> QED
    BY <2>1, <2>4, <2>5 DEF NoGap
<1> QED
  BY <1>0, <1>2, <1>3, <1>4, <1>5, <1>6, <1>7, BatchSteps
-----------------------------------------------------------------------------
(* The theorems.                                                           *)

LEMMA InInvHolds == InSpec => []InInv
<1>1. InInv /\ [InNext]_inVars => InInv'
  BY InNextTyped, StepAnswers, StepAgree DEF InInv
<1> QED
  BY <1>1, InInitHolds, PTL DEF InSpec

\* A receipt is recorded only of money LAS was told of, and says of it what LAS
\* holds; one marked Returned is reversed there, being reversed, or with
\* operations (ReceiveInboundPayments, applyInboundReturn, ReturnInboundPayment).
THEOREM ReceiptsSayWhatLasHolds == InSpec => []ReceiptsAgreeWithLas
<1>1. InInv => ReceiptsAgreeWithLas
  BY DEF InInv
<1> QED
  BY <1>1, InInvHolds, PTL

\* The cursor passes nothing that is not booked, wherever a poll fails and
\* whatever operations send back meanwhile, but a report of the very instant of
\* another that is (ReceiveInboundPayments, the comparison e.at > cursor).
THEOREM OnlyTiesArePassedOver == InSpec => []CursorPassesOnlyTies
<1>1. InInv /\ NoGap /\ [InNext]_inVars => (InInv /\ NoGap)'
  BY InNextTyped, StepAnswers, StepAgree, StepNoGap DEF InInv
<1>2. NoGap => CursorPassesOnlyTies
  BY DEF NoGap, Accounted, CursorPassesOnlyTies
<1> QED
  BY <1>1, <1>2, InInitHolds, PTL DEF InSpec
=============================================================================
