----------------------------- MODULE ServiceCase ------------------------------
(***************************************************************************)
(* The customer service (CRM): cases with a deadline, notes, interactions, *)
(* contact preferences and relationship managers.                          *)
(*                                                                         *)
(* A request comes with an Idempotency-Key.  Send looks for a kept answer  *)
(* and reads what the handler reads outside its transaction; the           *)
(* transaction is a step of its own, and so is keeping the answer, so that *)
(* a retry may run the handler again.  Requests overlap.  A sweep          *)
(* escalates the cases past their deadline: it lists rows and writes back  *)
(* the rows it listed.  A case is only ever written over the version read. *)
(***************************************************************************)
EXTENDS Naturals, Sequences, FiniteSets

CONSTANTS CrmRequests,      \* what may be asked, each a record with an op and a key
          Cases,            \* case ids, which are the keys they were opened under
          Customers, Accounts,
          Watched,          \* the cases and customers somebody looks at
          SLADuration,      \* the time each reason code allows
          SweepLimit,       \* cases a sweep takes on
          Nobody,
          MaxCallers,       \* bound: requests in progress at once
          MaxSent,          \* bound: requests sent, retries included
          MaxCrmFaults,     \* bound: statements that fail, restarts
          MaxNow            \* bound: how far time goes

Statuses == {"Open", "InProgress", "Resolved", "Closed"}

Assignees == {Nobody} \cup {q.assignee : q \in {r \in CrmRequests : r.op = "update"}}

CaseRows ==
    [id : Cases, status : Statuses, reason : DOMAIN SLADuration, assigned : Assignees,
     version : Nat \ {0}, due : Nat, escalated : BOOLEAN]

OnCase(q) == q.op \in {"update", "close", "reopen"}

ASSUME CrmAssumption ==
    /\ SLADuration \in [DOMAIN SLADuration -> Nat] /\ SweepLimit \in Nat \ {0}
    /\ {MaxCallers, MaxSent, MaxCrmFaults, MaxNow} \subseteq Nat
    /\ \A q \in CrmRequests :
          /\ q.op = "open" => q.key \in Cases /\ q.reason \in DOMAIN SLADuration
          /\ OnCase(q) => q.case \in Cases
    /\ Nobody \notin CaseRows

VARIABLES
    now,
    cases,          \* the row of each case, or Nobody
    history,        \* the outbox rows about each case itself, in commit order
    links,          \* loan_account_links: the customer of each account, or Nobody
    preferences, managers,
    done,           \* how often each key was carried out on the other tables, notes and
                    \* interactions among them
    viewed,         \* case_note_access_log: the case or customer that was read
    kept,           \* idempotency_keys
    callers,        \* per caller: [pc, asked, row]
    slaSweep,       \* [at, todo]: when the sweep began, and the rows it has left
    sent, crmFaults

crmtables == <<links, preferences, managers, done, viewed, kept>>
crmdb   == <<cases, history, crmtables>>
crmuse  == <<sent, crmFaults>>
crmVars == <<now, crmdb, callers, slaSweep, crmuse>>

Callers == 1 .. MaxCallers
Keys    == {q.key : q \in CrmRequests}

Away == [pc |-> "away", asked |-> Nobody, row |-> Nobody]
NoSweep == [at |-> 0, todo |-> {}]

CrmInit ==
    /\ now = 0
    /\ cases = [k \in Cases |-> Nobody]
    /\ history = [k \in Cases |-> <<>>]
    /\ links = [a \in Accounts |-> Nobody]
    /\ preferences = [p \in Customers |-> Nobody] /\ managers = [p \in Customers |-> <<>>]
    /\ done = [k \in Keys |-> 0]
    /\ viewed = {} /\ kept = {}
    /\ callers = [c \in Callers |-> Away]
    /\ slaSweep = NoSweep
    /\ sent = 0 /\ crmFaults = 0

CrmFault == crmFaults < MaxCrmFaults /\ crmFaults' = crmFaults + 1

Tick ==
    /\ now < MaxNow /\ now' = now + 1
    /\ UNCHANGED <<crmdb, callers, slaSweep, crmuse>>
-----------------------------------------------------------------------------
(* A case.                                                                 *)

NewCase(k, reason) ==
    [id |-> k, status |-> "Open", reason |-> reason, assigned |-> Nobody, version |-> 1,
     due |-> now + SLADuration[reason], escalated |-> FALSE]

updatableTransitions == {<<"Open", "InProgress">>, <<"Open", "Resolved">>, <<"InProgress", "Resolved">>}

NextVersion(row) == [row EXCEPT !.version = @ + 1]

MayUpdate(row, q) ==
    /\ row.version = q.expected /\ row.status # "Closed"
    /\ q.status \in {Nobody, row.status} \/ <<row.status, q.status>> \in updatableTransitions

Given(value, default) == IF value = Nobody THEN default ELSE value

Update(row, q) == [row EXCEPT !.status = Given(q.status, @), !.assigned = Given(q.assignee, @)]

Close(row) == [row EXCEPT !.status = "Closed"]

Reopen(row) ==
    [row EXCEPT !.status = "Open", !.escalated = FALSE, !.due = now + SLADuration[row.reason]]

Active(row) == row.status \in {"Open", "InProgress"}

\* Mutant: a resolved case is still escalated.
IsPastSLAUnlessClosed(row, at) == row.status # "Closed" /\ ~row.escalated /\ at > row.due

IsPastSLA(row, at) == Active(row) /\ ~row.escalated /\ at > row.due
-----------------------------------------------------------------------------
(* A request.                                                              *)

Goto(c, pc) == callers' = [callers EXCEPT ![c].pc = pc]
Leave(c)    == callers' = [callers EXCEPT ![c] = Away]

Latest(p) == IF managers[p] = <<>> THEN Nobody ELSE managers[p][Len(managers[p])]

\* What the handler does with what it reads: the row it will write, the row as
\* it is when nothing changes, or Nobody when it refuses.
Prepared(q) ==
    CASE q.op = "update" -> IF MayUpdate(cases[q.case], q) THEN Update(cases[q.case], q) ELSE Nobody
      [] q.op = "close"  -> Close(cases[q.case])
      [] q.op = "reopen" -> IF cases[q.case].status = "Closed" THEN Reopen(cases[q.case]) ELSE Nobody

\* A key with an answer is replayed, or refused when the body differs.
Ring(c, q) ==
    /\ callers[c].pc = "away" /\ \A d \in 1 .. c - 1 : callers[d].pc # "away"
    /\ sent < MaxSent /\ sent' = sent + 1
    /\ LET goOn(pc, row) == callers' = [callers EXCEPT ![c] = [pc |-> pc, asked |-> q, row |-> row]]
       IN  \/ q.key \in kept /\ UNCHANGED callers
           \/ /\ q.key \notin kept /\ OnCase(q) /\ cases[q.case] = Nobody
              /\ UNCHANGED callers
           \/ /\ q.key \notin kept /\ OnCase(q) /\ cases[q.case] # Nobody
              /\ LET old == cases[q.case]
                     new == Prepared(q)
                 IN  \/ new = Nobody /\ UNCHANGED callers
                     \/ new = old /\ goOn("keep", Nobody)
                     \/ new \notin {old, Nobody} /\ goOn("write", NextVersion(new))
           \/ /\ q.key \notin kept /\ q.op = "assign"
              /\ goOn(IF Latest(q.customer) = q.manager THEN "keep" ELSE "write", Nobody)
           \/ /\ q.key \notin kept /\ q.op \in {"open", "note", "log", "prefer"}
              /\ goOn("write", Nobody)
    /\ UNCHANGED <<now, crmdb, slaSweep, crmFaults>>

Say(topic, row) ==
    history' = [history EXCEPT ![row.id] = Append(@, [topic |-> topic, status |-> row.status])]

\* openCase.  The key is the primary key: a retry that finds its own row fails.
OpenCase(c) ==
    LET q == callers[c].asked
        row == NewCase(q.key, q.reason)
    IN  /\ callers[c].pc = "write" /\ q.op = "open"
        /\ \/ cases[q.key] # Nobody /\ Leave(c) /\ UNCHANGED <<cases, history, links>>
           \/ /\ cases[q.key] = Nobody
              /\ links' = IF q.account # Nobody /\ links[q.account] = Nobody
                          THEN [links EXCEPT ![q.account] = q.customer] ELSE links
              /\ cases' = [cases EXCEPT ![q.key] = row] /\ Say("opened", row)
              /\ Goto(c, "keep")
        /\ UNCHANGED <<now, preferences, managers, done, viewed, kept, slaSweep, crmuse>>

\* Mutant: the row is written whatever version it has.
UnchangedAlways(row) == TRUE

\* UPDATE ... WHERE version = the version before.
Unchanged(row) == cases[row.id].version + 1 = row.version

Topic == [update |-> "updated", close |-> "closed", reopen |-> "reopened"]

\* The prepared row, if the stored one still has the version read.
WriteCase(c, op) ==
    LET row == callers[c].row
    IN  /\ callers[c].pc = "write" /\ callers[c].asked.op = op
        /\ \/ ~Unchanged(row) /\ Leave(c) /\ UNCHANGED <<cases, history>>
           \/ /\ Unchanged(row)
              /\ cases' = [cases EXCEPT ![row.id] = row] /\ Say(Topic[op], row)
              /\ Goto(c, "keep")
        /\ UNCHANGED <<now, crmtables, slaSweep, crmuse>>

UpdateCase(c) == WriteCase(c, "update")
CloseCase(c)  == WriteCase(c, "close")
ReopenCase(c) == WriteCase(c, "reopen")

\* A row of another table and its event.
WriteOther(c, op) ==
    /\ callers[c].pc = "write" /\ callers[c].asked.op = op
    /\ done' = [done EXCEPT ![callers[c].asked.key] = @ + 1]
    /\ Goto(c, "keep")
    /\ UNCHANGED <<now, cases, history, links, viewed, kept, slaSweep, crmuse>>

LogInteraction(c) == WriteOther(c, "log") /\ UNCHANGED <<preferences, managers>>

\* A note needs its case: the foreign key refuses it otherwise.
AddCaseNote(c) ==
    LET known == cases[callers[c].asked.case] # Nobody
    IN  \/ WriteOther(c, "note") /\ known /\ UNCHANGED <<preferences, managers>>
        \/ /\ callers[c].pc = "write" /\ callers[c].asked.op = "note" /\ ~known
           /\ Leave(c)
           /\ UNCHANGED <<now, crmdb, slaSweep, crmuse>>

UpdateCommunicationPreferences(c) ==
    LET q == callers[c].asked
    IN  /\ WriteOther(c, "prefer")
        /\ preferences' = [preferences EXCEPT ![q.customer] = q.choice]
        /\ UNCHANGED managers

AssignRelationshipManager(c) ==
    LET q == callers[c].asked
    IN  /\ WriteOther(c, "assign")
        /\ managers' = [managers EXCEPT ![q.customer] = Append(@, q.manager)]
        /\ UNCHANGED preferences

\* The middleware keeps the answer, in a transaction of its own.
Keep(c) ==
    /\ callers[c].pc = "keep" /\ Leave(c)
    /\ kept' = kept \cup {callers[c].asked.key}
    /\ UNCHANGED <<now, cases, history, links, preferences, managers, done, viewed, slaSweep, crmuse>>

\* A statement fails.
CallFails(c) ==
    /\ callers[c].pc # "away" /\ CrmFault /\ Leave(c)
    /\ UNCHANGED <<now, crmdb, slaSweep, sent>>

\* Who looked is written down before the answer is given.
Look(subject) ==
    /\ viewed' = viewed \cup {subject}
    /\ UNCHANGED <<now, cases, history, links, preferences, managers, done, kept, callers, slaSweep, crmuse>>

ListCaseNotes == \E k \in Cases \cap Watched : Look(k)

GetCustomer360 == \E p \in Customers \cap Watched : Look(p)
-----------------------------------------------------------------------------
(* EvaluateSLABreaches.                                                    *)

\* Mutant: the list does not leave out what was escalated before.
OverdueEverEscalated(at) ==
    {cases[k] : k \in {j \in Cases : cases[j] # Nobody /\ Active(cases[j]) /\ at > cases[j].due}}

Overdue(at) == {cases[k] : k \in {j \in Cases : cases[j] # Nobody /\ IsPastSLA(cases[j], at)}}

\* The first of them by deadline, in any order where deadlines are equal.
Oldest(rows, picked) ==
    /\ picked \subseteq rows
    /\ Cardinality(picked) = SweepLimit \/ (picked = rows /\ Cardinality(rows) < SweepLimit)
    /\ \A r \in picked, r2 \in rows \ picked : r.due <= r2.due

BeginSLASweep ==
    /\ slaSweep.todo = {} /\ Overdue(now) # {}
    /\ \E picked \in SUBSET Overdue(now) :
          Oldest(Overdue(now), picked) /\ slaSweep' = [at |-> now, todo |-> picked]
    /\ UNCHANGED <<now, crmdb, callers, crmuse>>

\* A case somebody else has written meanwhile is left to the next sweep.
Escalate ==
    \E row \in slaSweep.todo :
        LET new == NextVersion([row EXCEPT !.escalated = TRUE])
        IN  /\ \A r \in slaSweep.todo : row.due <= r.due
            /\ slaSweep' = IF slaSweep.todo = {row} THEN NoSweep
                           ELSE [slaSweep EXCEPT !.todo = @ \ {row}]
            /\ IF IsPastSLA(row, slaSweep.at) /\ Unchanged(new)
               THEN cases' = [cases EXCEPT ![row.id] = new] /\ Say("escalated", new)
               ELSE UNCHANGED <<cases, history>>
            /\ UNCHANGED <<now, crmtables, callers, crmuse>>

\* One case that cannot be written does not end the sweep.
EscalateFails ==
    /\ CrmFault
    /\ \E row \in slaSweep.todo :
          slaSweep' = IF slaSweep.todo = {row} THEN NoSweep ELSE [slaSweep EXCEPT !.todo = @ \ {row}]
    /\ UNCHANGED <<now, crmdb, callers, sent>>
-----------------------------------------------------------------------------
CrmRestart ==
    /\ CrmFault
    /\ callers' = [c \in Callers |-> Away] /\ slaSweep' = NoSweep
    /\ UNCHANGED <<now, crmdb, sent>>

SLASweepStep == BeginSLASweep \/ Escalate

CrmNext ==
    \/ \E c \in Callers :
          \/ \E q \in CrmRequests : Ring(c, q)
          \/ OpenCase(c) \/ UpdateCase(c) \/ CloseCase(c) \/ ReopenCase(c)
          \/ LogInteraction(c) \/ AddCaseNote(c)
          \/ UpdateCommunicationPreferences(c) \/ AssignRelationshipManager(c)
          \/ Keep(c) \/ CallFails(c)
    \/ ListCaseNotes \/ GetCustomer360
    \/ SLASweepStep \/ EscalateFails
    \/ CrmRestart \/ Tick

\* The sweep runs on a timer and goes on after an error (runSLASweep).
CrmFairness == WF_crmVars(SLASweepStep)

CrmSpec == CrmInit /\ [][CrmNext]_crmVars /\ CrmFairness
-----------------------------------------------------------------------------
(* Properties.                                                             *)

\* Every version of a case was announced once, by the event of the step that
\* made it (UpdateCaseConditional): of two writers that read one version, one
\* is refused, whether they are requests or the sweep.
OneEventPerVersion ==
    \A k \in Cases : Len(history[k]) = IF cases[k] = Nobody THEN 0 ELSE cases[k].version

\* Since event n of a case its clock was not started again.
SameClock(k, n, m) == \A i \in n + 1 .. m : history[k][i].topic # "reopened"

\* In the order of its versions a case is opened once, is closed before it is
\* reopened and reopened before anything else happens to it, and is escalated
\* only while it is worked on and once for each clock (Close, Reopen,
\* IsPastSLA), however requests, retries and the sweep overlap.
LifecycleIsLawful ==
    \A k \in Cases : \A n \in 1 .. Len(history[k]) :
        LET e == history[k]
        IN  /\ n = 1 <=> e[n].topic = "opened"
            /\ n > 1 => (e[n].topic = "reopened" <=> e[n - 1].topic = "closed")
            /\ e[n].topic = "escalated" =>
                  /\ e[n - 1].status \in {"Open", "InProgress"}
                  /\ \A m \in 1 .. n - 1 : e[m].topic = "escalated" => ~SameClock(k, m, n)

Breached(k) ==
    /\ cases[k] # Nobody /\ Active(cases[k]) /\ now > cases[k].due
    /\ \A m \in 1 .. Len(history[k]) : history[k][m].topic = "escalated" => ~SameClock(k, m, Len(history[k]))

\* An active case past its deadline is escalated in the end, or no longer
\* active, or has a new deadline (runSLASweep), although a sweep takes on a
\* few cases only and loses those that others write meanwhile.
BreachesAreEscalated == \A k \in Cases : Breached(k) ~> ~Breached(k)
=============================================================================
