----------------------------- MODULE MCCustomers -----------------------------
(* The services that know the customer, CRM and party, and the outbox relay *)
(* they and the other services run, for model checking.  They share no row  *)
(* and call each other nowhere, so that a behaviour is one of one of them   *)
(* while the others rest; and one of the CRM service is about its cases or  *)
(* about its other tables, which time does not touch.                       *)
EXTENDS ServiceCase, PartyIdentity, OutboxRelay

CONSTANTS k1, k2, r1, r2

OpenRequest(k, customer, reason) ==
    [op |-> "open", key |-> k, customer |-> customer, account |-> "L", reason |-> reason]

UpdateRequest(k, status, assignee) ==
    [op |-> "update", key |-> k, case |-> k1, expected |-> 1, status |-> status, assignee |-> assignee]

OpenSecond == OpenRequest(k2, "Q", "other")

\* Two customers claim one account; the two updates read one version.
CaseRequests ==
    {OpenRequest(k1, "P", "fraud"), OpenSecond,
     UpdateRequest("u1", "Resolved", Nobody), UpdateRequest("u2", Nobody, "ann"),
     [op |-> "close", key |-> "c1", case |-> k1], [op |-> "reopen", key |-> "r1", case |-> k1]}

\* What is asked of the other tables, a note of a case among it.
ContactRequests ==
    {OpenSecond, [op |-> "note", key |-> "n1", case |-> k2], [op |-> "log", key |-> "l1"],
     [op |-> "prefer", key |-> "p1", customer |-> "P", choice |-> "email"],
     [op |-> "assign", key |-> "a1", customer |-> "P", manager |-> "bob"],
     [op |-> "assign", key |-> "a2", customer |-> "P", manager |-> "eve"]}

AllCrmRequests == CaseRequests \cup ContactRequests

\* A case of fraud is due at once.
SLADurations == [fraud |-> 0, other |-> 1]

FindRequest(k, ssn, name, dob, email) ==
    [op |-> "find", key |-> k,
     person |-> [ssn |-> ssn, name |-> name, dob |-> dob, email |-> email, phone |-> ""]]

\* The third applicant has the SSN of the first and the name and date of birth
\* of the second; the fourth has no SSN and nearly the name of the second.
IdentityRequests ==
    {FindRequest("f1", "111", "ada", "1980", ""), FindRequest("f2", "222", "bob", "1990", "b"),
     FindRequest("f3", "111", "bob", "1990", ""), FindRequest("f4", "", "bod", "1990", "b"),
     [op |-> "update", key |-> "u1", party |-> 1, email |-> "b", phone |-> NotGiven],
     [op |-> "update", key |-> "u2", party |-> 1, email |-> NotGiven, phone |-> "5"],
     [op |-> "tombstone", key |-> "t1", party |-> 1],
     [op |-> "document", key |-> "d1", party |-> 1, type |-> "PASSPORT"],
     [op |-> "document", key |-> "d2", party |-> 1, type |-> "PASSPORT"]}

NearPairs == {{"bob", "bod"}}

\* Two of the events are created at the same instant.
ThreeEvents == {"booked", "disbursed", "repaid"}

TwoTies == [e \in ThreeEvents |-> IF e = "repaid" THEN 2 ELSE 1]

VARIABLE desk

Init == desk \in {"cases", "contacts", "party", "relay"} /\ CrmInit /\ PartyInit /\ RelayInit

AsksOnly(questions) == \A c \in Callers : callers'[c].asked \in questions \cup {Nobody}

Next == \/ desk = "cases"    /\ CrmNext /\ AsksOnly(CaseRequests) /\ UNCHANGED <<viewed, partyVars, relayVars, desk>>
        \/ desk = "contacts" /\ CrmNext /\ AsksOnly(ContactRequests) /\ UNCHANGED <<now, partyVars, relayVars, desk>>
        \/ desk = "party"    /\ PartyNext /\ UNCHANGED <<crmVars, relayVars, desk>>
        \/ desk = "relay"    /\ RelayNext /\ UNCHANGED <<crmVars, partyVars, desk>>

Spec == Init /\ [][Next]_<<crmVars, partyVars, relayVars, desk>> /\ CrmFairness /\ RelayFairness
=============================================================================
