-------------------------- MODULE ServiceCase_proofs --------------------------
(***************************************************************************)
(* The life of a case, for any requests, callers, faults and times.        *)
(*                                                                         *)
(* A request and the sweep write a whole row over the version they read.   *)
(* Hence CrmInv: the row that somebody holds is never more than one version*)
(* ahead of the stored one, and if it is exactly one ahead the stored row  *)
(* is still the row it was made from (HeldRowsFollow, ListedRowsAreStored).*)
(* Together with what the history tells of the stored row (RowsAreTold)    *)
(* this makes every write a lawful step.                                   *)
(***************************************************************************)
EXTENDS ServiceCase, TLAPS

Announcements ==
    [topic : {"opened", "updated", "closed", "reopened", "escalated"}, status : Statuses]

Calls ==
    [pc : {"away", "write", "keep"}, asked : CrmRequests \cup {Nobody}, row : CaseRows \cup {Nobody}]

TablesOK ==
    /\ now \in Nat
    /\ cases \in [Cases -> CaseRows \cup {Nobody}]
    /\ \A k \in Cases : cases[k] # Nobody => cases[k].id = k
    /\ history \in [Cases -> Seq(Announcements)]

WorkOK ==
    /\ callers \in [Callers -> Calls]
    /\ \A c \in Callers : callers[c].pc # "away" => callers[c].asked \in CrmRequests
    /\ slaSweep \in [at : Nat, todo : SUBSET CaseRows]

\* The steps in the life of a case, from the stored row to the next one.
Follows(topic, old, new) ==
    /\ new.version = old.version + 1
    /\ \/ /\ topic = "updated" /\ old.status # "Closed" /\ new.status # "Closed"
          /\ new.escalated = old.escalated
       \/ /\ topic = "closed" /\ old.status # "Closed" /\ new.status = "Closed"
          /\ new.escalated = old.escalated
       \/ topic = "reopened" /\ old.status = "Closed" /\ new.status = "Open" /\ ~new.escalated
       \/ /\ topic = "escalated" /\ Active(old) /\ new.status = old.status
          /\ ~old.escalated /\ new.escalated

Holds(c) == callers[c].pc = "write" /\ OnCase(callers[c].asked)

RowFollows(c) ==
    LET row == callers[c].row
    IN  /\ row \in CaseRows /\ cases[row.id] # Nobody
        /\ row.version <= cases[row.id].version + 1
        /\ Unchanged(row) => Follows(Topic[callers[c].asked.op], cases[row.id], row)

HeldRowsFollow == \A c \in Callers : Holds(c) => RowFollows(c)

RowIsStored(row) ==
    /\ cases[row.id] # Nobody
    /\ row.version <= cases[row.id].version
    /\ row.version = cases[row.id].version => row = cases[row.id]

ListedRowsAreStored == \A row \in slaSweep.todo : RowIsStored(row)

IsTold(k) ==
    LET n == Len(history[k])
    IN  /\ cases[k] = Nobody => n = 0
        /\ cases[k] # Nobody =>
              /\ n = cases[k].version
              /\ history[k][n].status = cases[k].status
              /\ history[k][n].topic = "closed" <=> cases[k].status = "Closed"
              /\ ~cases[k].escalated =>
                    \A m \in 1 .. n : history[k][m].topic = "escalated" => ~SameClock(k, m, n)

RowsAreTold == \A k \in Cases : IsTold(k)

IsLawful(k) ==
    \A n \in 1 .. Len(history[k]) :
        LET e == history[k]
        IN  /\ n = 1 <=> e[n].topic = "opened"
            /\ n > 1 => (e[n].topic = "reopened" <=> e[n - 1].topic = "closed")
            /\ e[n].topic = "escalated" =>
                  /\ e[n - 1].status \in {"Open", "InProgress"}
                  /\ \A m \in 1 .. n - 1 : e[m].topic = "escalated" => ~SameClock(k, m, n)

CrmInv ==
    /\ TablesOK /\ WorkOK
    /\ HeldRowsFollow /\ ListedRowsAreStored
    /\ RowsAreTold /\ LifecycleIsLawful
-----------------------------------------------------------------------------
\* Writing a lawful next row with its event keeps the tables, and what the
\* history tells of them, lawful.
LEMMA CaseWritten ==
    ASSUME TablesOK, RowsAreTold, LifecycleIsLawful, now' \in Nat,
           NEW k \in Cases, NEW row \in CaseRows, row.id = k,
           NEW topic \in {"opened", "updated", "closed", "reopened", "escalated"},
           cases' = [cases EXCEPT ![k] = row],
           history' = [history EXCEPT ![k] = Append(@, [topic |-> topic, status |-> row.status])],
           \/ /\ cases[k] = Nobody /\ topic = "opened"
              /\ row.version = 1 /\ row.status = "Open" /\ ~row.escalated
           \/ cases[k] # Nobody /\ Follows(topic, cases[k], row)
    PROVE  TablesOK' /\ RowsAreTold' /\ LifecycleIsLawful'
<1> DEFINE event == [topic |-> topic, status |-> row.status]
           len == Len(history[k])
<1>1. /\ Nobody \notin CaseRows /\ row # Nobody
      /\ row.version \in Nat \ {0} /\ row.status \in Statuses /\ row.escalated \in BOOLEAN
  BY CrmAssumption DEF CaseRows
<1>2. history[k] \in Seq(Announcements) /\ len \in Nat /\ event \in Announcements
  <2>1. history[k] \in Seq(Announcements)
    BY DEF TablesOK
  <2>2. len \in Nat
    BY <2>1
  <2>3. event \in Announcements
    BY <1>1 DEF Announcements
  <2> QED
    BY <2>1, <2>2, <2>3
<1>3. TablesOK'
  BY <1>1, <1>2 DEF TablesOK
<1>4. \A j \in Cases \ {k} : history'[j] = history[j] /\ cases'[j] = cases[j]
  BY DEF TablesOK
<1>5. /\ history'[k] = Append(history[k], event) /\ cases'[k] = row
      /\ Len(history'[k]) = len + 1 /\ history'[k][len + 1] = event
      /\ \A i \in 1 .. len : history'[k][i] = history[k][i]
  BY <1>2 DEF TablesOK
<1>6. /\ cases[k] # Nobody => cases[k] \in CaseRows /\ len = cases[k].version /\ len >= 1
      /\ cases[k] = Nobody => len = 0
  BY <1>1 DEF TablesOK, RowsAreTold, IsTold, CaseRows
<1>7. \A m, n \in 1 .. len : SameClock(k, m, n)' <=> SameClock(k, m, n)
  <2> SUFFICES ASSUME NEW m \in 1 .. len, NEW n \in 1 .. len
               PROVE  SameClock(k, m, n)' <=> SameClock(k, m, n)
    OBVIOUS
  <2>1. \A i \in m + 1 .. n : i \in 1 .. len
    BY <1>2
  <2>2. \A i \in m + 1 .. n : history'[k][i] = history[k][i]
    BY <2>1, <1>5
  <2> QED
    BY <2>2 DEF SameClock
<1>8. ASSUME NEW m \in 1 .. len, NEW n, n = len + 1, topic = "reopened" \/ ~SameClock(k, m, len)
      PROVE  ~SameClock(k, m, n)'
  <2>1. PICK i \in m + 1 .. n : history'[k][i].topic = "reopened"
    <3>1. CASE topic = "reopened"
      <4>1. n \in m + 1 .. n /\ history'[k][n].topic = "reopened"
        BY <3>1, <1>2, <1>5, <1>8
      <4> QED
        BY <4>1
    <3>2. CASE ~SameClock(k, m, len)
      <4>1. PICK i \in m + 1 .. len : history[k][i].topic = "reopened"
        BY <3>2 DEF SameClock
      <4>2. i \in m + 1 .. n /\ history'[k][i].topic = "reopened"
        BY <4>1, <1>2, <1>5, <1>8
      <4> QED
        BY <4>2
    <3> QED
      BY <3>1, <3>2, <1>8
  <2> QED
    BY <2>1 DEF SameClock
<1>9. IsTold(k)'
  <2>1. row.version = len + 1
    BY <1>6 DEF Follows
  <2>2. topic = "closed" <=> row.status = "Closed"
    BY DEF Follows, Active
  <2>3. ASSUME ~row.escalated, NEW n, n = len + 1, NEW m \in 1 .. n,
               history'[k][m].topic = "escalated"
        PROVE  ~SameClock(k, m, n)'
    <3>1. topic # "escalated"
      BY <2>3 DEF Follows
    <3>2. m \in 1 .. len
      BY <3>1, <2>3, <1>2, <1>5
    <3>3. history[k][m].topic = "escalated"
      BY <3>2, <2>3, <1>5
    <3>4. cases[k] # Nobody
      BY <3>2, <1>6
    <3>5. CASE topic = "reopened"
      BY <3>5, <3>2, <2>3, <1>8
    <3>6. CASE topic # "reopened"
      <4>1. ~cases[k].escalated
        BY <3>1, <3>4, <3>6, <2>3 DEF Follows
      <4>2. ~SameClock(k, m, len)
        BY <4>1, <3>2, <3>3, <3>4 DEF RowsAreTold, IsTold
      <4> QED
        BY <4>2, <3>2, <2>3, <1>8
    <3> QED
      BY <3>5, <3>6
  <2> QED
    BY <2>1, <2>2, <2>3, <1>1, <1>5 DEF IsTold, SameClock
<1>10. IsLawful(k)'
  <2> SUFFICES ASSUME NEW n \in 1 .. len + 1
               PROVE  LET e == history'[k]
                      IN  /\ n = 1 <=> e[n].topic = "opened"
                          /\ n > 1 => (e[n].topic = "reopened" <=> e[n - 1].topic = "closed")
                          /\ e[n].topic = "escalated" =>
                                /\ e[n - 1].status \in {"Open", "InProgress"}
                                /\ \A m \in 1 .. n - 1 :
                                      e[m].topic = "escalated" => ~SameClock(k, m, n)'
    BY <1>5 DEF IsLawful
  <2>1. CASE n \in 1 .. len
    <3>1. /\ n = 1 <=> history[k][n].topic = "opened"
          /\ n > 1 => (history[k][n].topic = "reopened" <=> history[k][n - 1].topic = "closed")
          /\ history[k][n].topic = "escalated" =>
                /\ history[k][n - 1].status \in {"Open", "InProgress"}
                /\ \A m \in 1 .. n - 1 : history[k][m].topic = "escalated" => ~SameClock(k, m, n)
      BY <2>1 DEF LifecycleIsLawful
    <3>2. history'[k][n] = history[k][n] /\ \A m \in 1 .. n - 1 : history'[k][m] = history[k][m] /\ m \in 1 .. len
      BY <2>1, <1>2, <1>5
    <3>3. n > 1 => history'[k][n - 1] = history[k][n - 1]
      BY <3>2, <2>1, <1>2
    <3> QED
      BY <3>1, <3>2, <3>3, <1>7, <2>1, <1>2
  <2>2. CASE n = len + 1
    <3>1. CASE cases[k] = Nobody
      BY <3>1, <2>2, <1>5, <1>6
    <3>2. CASE cases[k] # Nobody
      <4>1. /\ Follows(topic, cases[k], row) /\ n > 1 /\ n - 1 = len
            /\ history'[k][n - 1] = history[k][len] /\ history'[k][n] = event
        BY <3>2, <2>2, <1>2, <1>5, <1>6
      <4>2. /\ history[k][len].status = cases[k].status
            /\ history[k][len].topic = "closed" <=> cases[k].status = "Closed"
            /\ ~cases[k].escalated =>
                  \A m \in 1 .. len : history[k][m].topic = "escalated" => ~SameClock(k, m, len)
        BY <3>2 DEF RowsAreTold, IsTold
      <4>3. topic # "opened" /\ (topic = "reopened" <=> cases[k].status = "Closed")
        BY <4>1 DEF Follows, Active
      <4>4. ASSUME topic = "escalated"
            PROVE  /\ cases[k].status \in {"Open", "InProgress"}
                   /\ \A m \in 1 .. len : history'[k][m].topic = "escalated" => ~SameClock(k, m, n)'
        <5>1. Active(cases[k]) /\ ~cases[k].escalated
          BY <4>1, <4>4 DEF Follows
        <5>2. ASSUME NEW m \in 1 .. len, history'[k][m].topic = "escalated"
              PROVE  ~SameClock(k, m, n)'
          <6>1. history[k][m].topic = "escalated"
            BY <5>2, <1>5
          <6>2. ~SameClock(k, m, len)
            BY <6>1, <5>1, <4>2
          <6> QED
            BY <6>2, <2>2, <1>8
        <5> QED
          BY <5>1, <5>2 DEF Active
      <4> QED
        BY <4>1, <4>2, <4>3, <4>4
    <3> QED
      BY <3>1, <3>2
  <2> QED
    BY <2>1, <2>2, <1>2
<1>11. \A j \in Cases \ {k} : IsTold(j)' /\ IsLawful(j)'
  <2> SUFFICES ASSUME NEW j \in Cases \ {k}
               PROVE  IsTold(j)' /\ IsLawful(j)'
    OBVIOUS
  <2>1. IsTold(j) /\ IsLawful(j)
    BY DEF RowsAreTold, LifecycleIsLawful, IsLawful
  <2> QED
    BY <2>1, <1>4 DEF IsTold, IsLawful, SameClock
<1> QED
  BY <1>3, <1>9, <1>10, <1>11 DEF RowsAreTold, LifecycleIsLawful, IsLawful

\* Whoever holds a row of the case just written is now behind it.
LEMMA OthersFallBehind ==
    ASSUME TablesOK, NEW k \in Cases, NEW row \in CaseRows,
           cases' = [cases EXCEPT ![k] = row],
           cases[k] = Nobody \/ row.version = cases[k].version + 1
    PROVE  /\ \A c \in Callers : Holds(c) /\ RowFollows(c) /\ callers'[c] = callers[c] => RowFollows(c)'
           /\ \A r \in CaseRows : RowIsStored(r) => RowIsStored(r)'
<1>1. row # Nobody /\ row.version \in Nat
  BY CrmAssumption DEF CaseRows
<1>2. ASSUME NEW j \in Cases, cases[j] # Nobody
      PROVE  /\ cases'[j] # Nobody /\ cases[j].version \in Nat
             /\ cases'[j] = cases[j] \/ cases'[j].version = cases[j].version + 1
  BY <1>1, <1>2 DEF TablesOK, CaseRows
<1>3. ASSUME NEW c \in Callers, Holds(c), RowFollows(c), callers'[c] = callers[c]
      PROVE  RowFollows(c)'
  <2> DEFINE r == callers[c].row
  <2>1. r \in CaseRows /\ r.id \in Cases /\ r.version \in Nat /\ cases[r.id] # Nobody
    BY <1>3 DEF RowFollows, CaseRows
  <2>2. CASE cases'[r.id] = cases[r.id]
    BY <2>1, <2>2, <1>3 DEF RowFollows, Unchanged
  <2>3. CASE cases'[r.id].version = cases[r.id].version + 1
    BY <2>1, <2>3, <1>2, <1>3 DEF RowFollows, Unchanged
  <2> QED
    BY <2>1, <2>2, <2>3, <1>2
<1>4. ASSUME NEW r \in CaseRows, RowIsStored(r)
      PROVE  RowIsStored(r)'
  <2>1. r.id \in Cases /\ r.version \in Nat /\ cases[r.id] # Nobody
    BY <1>4 DEF RowIsStored, CaseRows
  <2> QED
    BY <2>1, <1>2, <1>4 DEF RowIsStored
<1> QED
  BY <1>3, <1>4

\* What a request has read makes the next row in the life of its case.
LEMMA PreparedFollows ==
    ASSUME TablesOK, NEW q \in CrmRequests, OnCase(q), cases[q.case] # Nobody,
           Prepared(q) # Nobody, Prepared(q) # cases[q.case]
    PROVE  /\ NextVersion(Prepared(q)) \in CaseRows
           /\ NextVersion(Prepared(q)).id = q.case
           /\ Follows(Topic[q.op], cases[q.case], NextVersion(Prepared(q)))
<1> DEFINE old == cases[q.case]
           new == Prepared(q)
<1>1. q.case \in Cases /\ old \in CaseRows /\ old.id = q.case
  BY CrmAssumption DEF TablesOK
<1>2. ASSUME new \in CaseRows, new.version = old.version
      PROVE  /\ NextVersion(new) \in CaseRows /\ NextVersion(new).version = old.version + 1
             /\ NextVersion(new).id = new.id /\ NextVersion(new).status = new.status
             /\ NextVersion(new).escalated = new.escalated
  BY <1>2 DEF NextVersion, CaseRows
<1>3. CASE q.op = "update"
  <2>1. MayUpdate(old, q) /\ new = Update(old, q)
    BY <1>3 DEF Prepared
  <2>2. /\ old.status # "Closed" /\ Given(q.status, old.status) # "Closed"
        /\ Given(q.status, old.status) \in Statuses
    BY <2>1, <1>1 DEF MayUpdate, Given, updatableTransitions, Statuses, CaseRows
  <2>3. Given(q.assignee, old.assigned) \in Assignees
    BY <1>1, <1>3 DEF Given, Assignees, CaseRows
  <2>4. /\ new \in CaseRows /\ new.version = old.version /\ new.id = old.id
        /\ new.status = Given(q.status, old.status) /\ new.escalated = old.escalated
    BY <2>1, <2>2, <2>3, <1>1 DEF Update, CaseRows
  <2> QED
    BY <1>1, <1>2, <1>3, <2>2, <2>4 DEF Follows, Topic
<1>4. CASE q.op = "close"
  <2>1. new = Close(old)
    BY <1>4 DEF Prepared
  <2>2. /\ new \in CaseRows /\ new.version = old.version /\ new.id = old.id
        /\ new.status = "Closed" /\ new.escalated = old.escalated
    BY <2>1, <1>1 DEF Close, CaseRows, Statuses
  <2>3. old.status = "Closed" => new = old
    BY <2>1, <1>1 DEF Close, CaseRows
  <2> QED
    BY <1>1, <1>2, <1>4, <2>2, <2>3 DEF Follows, Topic
<1>5. CASE q.op = "reopen"
  <2>1. old.status = "Closed" /\ new = Reopen(old)
    BY <1>5 DEF Prepared
  <2>2. now + SLADuration[old.reason] \in Nat
    BY <1>1, CrmAssumption DEF TablesOK, CaseRows
  <2>3. /\ new \in CaseRows /\ new.version = old.version /\ new.id = old.id
        /\ new.status = "Open" /\ new.escalated = FALSE
    BY <2>1, <2>2, <1>1 DEF Reopen, CaseRows, Statuses
  <2> QED
    BY <1>1, <1>2, <1>5, <2>1, <2>3 DEF Follows, Topic
<1> QED
  BY <1>3, <1>4, <1>5 DEF OnCase

\* A step that writes no case keeps the invariant if it keeps what is held.
LEMMA NothingWritten ==
    ASSUME CrmInv, cases' = cases, history' = history, now' \in Nat,
           WorkOK', HeldRowsFollow', ListedRowsAreStored'
    PROVE  CrmInv'
<1>1. TablesOK'
  BY DEF CrmInv, TablesOK
<1>2. RowsAreTold' /\ LifecycleIsLawful'
  BY DEF CrmInv, RowsAreTold, IsTold, LifecycleIsLawful, SameClock
<1> QED
  BY <1>1, <1>2 DEF CrmInv
-----------------------------------------------------------------------------
LEMMA InitHolds == CrmInit => CrmInv
<1> SUFFICES ASSUME CrmInit PROVE CrmInv
  OBVIOUS
<1>1. TablesOK
  BY DEF CrmInit, TablesOK
<1>2. WorkOK /\ HeldRowsFollow /\ ListedRowsAreStored
  BY DEF CrmInit, WorkOK, Calls, Away, NoSweep, HeldRowsFollow, Holds, ListedRowsAreStored
<1>3. RowsAreTold /\ LifecycleIsLawful
  BY DEF CrmInit, RowsAreTold, IsTold, LifecycleIsLawful
<1> QED
  BY <1>1, <1>2, <1>3 DEF CrmInv

\* A caller that goes on holding nothing, or leaves.
LEMMA CallerMoves ==
    ASSUME CrmInv, NEW c \in Callers, NEW call \in Calls,
           callers' = [callers EXCEPT ![c] = call],
           call.pc # "away" => call.asked \in CrmRequests,
           slaSweep' = slaSweep
    PROVE  /\ WorkOK' /\ \A d \in Callers \ {c} : callers'[d] = callers[d]
           /\ callers'[c] = call
BY DEF CrmInv, WorkOK

\* A step of caller c that writes no case and leaves c without a row to write.
LEMMA CallerOnly ==
    ASSUME CrmInv, NEW c \in Callers, NEW call \in Calls,
           callers' = [callers EXCEPT ![c] = call],
           call.pc # "away" => call.asked \in CrmRequests,
           ~(call.pc = "write" /\ OnCase(call.asked)),
           slaSweep' = slaSweep, cases' = cases, history' = history, now' = now
    PROVE  CrmInv'
<1>1. /\ WorkOK' /\ \A d \in Callers \ {c} : callers'[d] = callers[d]
      /\ callers'[c] = call
  BY CallerMoves
<1>2. HeldRowsFollow'
  BY <1>1 DEF CrmInv, HeldRowsFollow, Holds, RowFollows, Unchanged
<1>3. ListedRowsAreStored'
  BY DEF CrmInv, ListedRowsAreStored, RowIsStored
<1>4. now' \in Nat
  BY DEF CrmInv, TablesOK
<1> QED
  BY <1>1, <1>2, <1>3, <1>4, NothingWritten

\* A step of caller c that writes the next row of a case.
LEMMA CallerWrites ==
    ASSUME CrmInv, NEW c \in Callers, callers[c].pc = "write", Goto(c, "keep"),
           slaSweep' = slaSweep, now' = now,
           NEW row \in CaseRows,
           NEW topic \in {"opened", "updated", "closed", "reopened"},
           cases' = [cases EXCEPT ![row.id] = row], Say(topic, row),
           \/ /\ cases[row.id] = Nobody /\ topic = "opened"
              /\ row.version = 1 /\ row.status = "Open" /\ ~row.escalated
           \/ cases[row.id] # Nobody /\ Follows(topic, cases[row.id], row)
    PROVE  CrmInv'
<1>1. row.id \in Cases /\ TablesOK /\ now' \in Nat
  BY DEF CaseRows, CrmInv, TablesOK
<1>2. TablesOK' /\ RowsAreTold' /\ LifecycleIsLawful'
  BY <1>1, CaseWritten DEF CrmInv, Say
<1>3. /\ WorkOK' /\ \A d \in Callers \ {c} : callers'[d] = callers[d]
      /\ callers'[c].pc = "keep"
  BY DEF CrmInv, WorkOK, Calls, Goto
<1>4. cases[row.id] = Nobody \/ row.version = cases[row.id].version + 1
  BY DEF Follows
<1>5. /\ \A d \in Callers : Holds(d) /\ RowFollows(d) /\ callers'[d] = callers[d] => RowFollows(d)'
      /\ \A r \in CaseRows : RowIsStored(r) => RowIsStored(r)'
  BY <1>1, <1>4, OthersFallBehind
<1>6. HeldRowsFollow'
  <2> SUFFICES ASSUME NEW d \in Callers, Holds(d)'
               PROVE  RowFollows(d)'
    BY DEF HeldRowsFollow
  <2>1. d # c /\ callers'[d] = callers[d] /\ Holds(d)
    BY <1>3 DEF Holds
  <2> QED
    BY <2>1, <1>5 DEF CrmInv, HeldRowsFollow
<1>7. ListedRowsAreStored'
  BY <1>5 DEF CrmInv, WorkOK, ListedRowsAreStored
<1> QED
  BY <1>2, <1>3, <1>6, <1>7 DEF CrmInv

LEMMA RingKeeps == ASSUME CrmInv, NEW c \in Callers, NEW q \in CrmRequests, Ring(c, q) PROVE CrmInv'
<1> DEFINE call(pc, row) == [pc |-> pc, asked |-> q, row |-> row]
<1>1. slaSweep' = slaSweep /\ cases' = cases /\ history' = history /\ now' = now
  BY DEF Ring, crmdb
<1>2. CASE UNCHANGED callers
  <2>1. WorkOK' /\ now' \in Nat
    BY <1>1, <1>2 DEF CrmInv, WorkOK, TablesOK
  <2>2. HeldRowsFollow' /\ ListedRowsAreStored'
    BY <1>1, <1>2 DEF CrmInv, HeldRowsFollow, Holds, RowFollows, Unchanged, ListedRowsAreStored, RowIsStored
  <2> QED
    BY <2>1, <2>2, <1>1, NothingWritten
<1>3. ASSUME NEW pc \in {"keep", "write"}, callers' = [callers EXCEPT ![c] = call(pc, Nobody)],
             ~(pc = "write" /\ OnCase(q))
      PROVE  CrmInv'
  <2>1. call(pc, Nobody) \in Calls
    BY DEF Calls
  <2> QED
    BY <2>1, <1>1, <1>3, CallerOnly
<1>4. ASSUME OnCase(q), cases[q.case] # Nobody, Prepared(q) # Nobody, Prepared(q) # cases[q.case],
             callers' = [callers EXCEPT ![c] = call("write", NextVersion(Prepared(q)))]
      PROVE  CrmInv'
  <2> DEFINE row == NextVersion(Prepared(q))
  <2>1. /\ row \in CaseRows /\ row.id = q.case
        /\ Follows(Topic[q.op], cases[q.case], row)
    BY <1>4, PreparedFollows DEF CrmInv
  <2>2. call("write", row) \in Calls
    BY <2>1 DEF Calls
  <2> HIDE DEF row
  <2>3. /\ WorkOK' /\ \A d \in Callers \ {c} : callers'[d] = callers[d]
        /\ callers'[c] = call("write", row)
    BY <2>2, <1>1, <1>4, CallerMoves DEF row
  <2>4. RowFollows(c)'
    <3>1. row.version = cases[q.case].version + 1
      BY <2>1 DEF Follows
    <3>2. row.version \in Nat
      BY <2>1 DEF CaseRows
    <3>3. cases'[row.id] # Nobody /\ row.version <= cases'[row.id].version + 1
      BY <3>1, <3>2, <2>1, <1>1, <1>4
    <3>4. Follows(Topic[q.op], cases'[row.id], row)
      BY <2>1, <1>1
    <3> QED
      BY <3>3, <3>4, <2>1, <2>3, <1>1 DEF RowFollows, Unchanged
  <2>5. \A d \in Callers \ {c} : Holds(d)' => RowFollows(d)'
    BY <2>3, <1>1 DEF CrmInv, HeldRowsFollow, Holds, RowFollows, Unchanged
  <2>6. ListedRowsAreStored' /\ now' \in Nat
    BY <1>1 DEF CrmInv, ListedRowsAreStored, RowIsStored, TablesOK
  <2> QED
    BY <2>3, <2>4, <2>5, <2>6, <1>1, NothingWritten DEF HeldRowsFollow
<1>5. CASE q.op = "assign" \/ q.op \in {"open", "note", "log", "prefer"}
  <2>1. ~OnCase(q)
    BY <1>5 DEF OnCase
  <2>2. \/ UNCHANGED callers
        \/ \E pc \in {"keep", "write"} : callers' = [callers EXCEPT ![c] = call(pc, Nobody)]
    BY <2>1 DEF Ring
  <2> QED
    BY <2>1, <2>2, <1>2, <1>3
<1>6. CASE OnCase(q)
  <2>1. \/ UNCHANGED callers
        \/ callers' = [callers EXCEPT ![c] = call("keep", Nobody)]
        \/ /\ cases[q.case] # Nobody /\ Prepared(q) # Nobody /\ Prepared(q) # cases[q.case]
           /\ callers' = [callers EXCEPT ![c] = call("write", NextVersion(Prepared(q)))]
    BY <1>6 DEF Ring, OnCase
  <2> QED
    BY <2>1, <1>2, <1>3, <1>4, <1>6
<1>7. CASE UNCHANGED callers \/ OnCase(q) \/ q.op = "assign" \/ q.op \in {"open", "note", "log", "prefer"}
  BY <1>2, <1>5, <1>6, <1>7
<1> QED
  BY <1>7 DEF Ring

LEMMA OpenCaseKeeps == ASSUME CrmInv, NEW c \in Callers, OpenCase(c) PROVE CrmInv'
<1> DEFINE q == callers[c].asked
           row == NewCase(q.key, q.reason)
<1>1. /\ callers[c].pc = "write" /\ q.op = "open" /\ q \in CrmRequests
      /\ slaSweep' = slaSweep /\ now' = now /\ Away \in Calls /\ Away.pc = "away"
  BY DEF OpenCase, CrmInv, WorkOK, Away, Calls
<1>2. CASE cases[q.key] # Nobody /\ Leave(c) /\ UNCHANGED <<cases, history, links>>
  BY <1>1, <1>2, CallerOnly DEF Leave
<1>3. CASE /\ cases[q.key] = Nobody /\ cases' = [cases EXCEPT ![q.key] = row]
           /\ Say("opened", row) /\ Goto(c, "keep")
  <2>1. /\ row \in CaseRows /\ row.id = q.key /\ row.version = 1
        /\ row.status = "Open" /\ ~row.escalated
    <3>1. q.key \in Cases /\ q.reason \in DOMAIN SLADuration
      BY <1>1, CrmAssumption
    <3>2. now + SLADuration[q.reason] \in Nat
      BY <3>1, CrmAssumption DEF CrmInv, TablesOK
    <3> QED
      BY <3>1, <3>2 DEF NewCase, CaseRows, Statuses, Assignees
  <2> HIDE DEF row
  <2> QED
    BY <2>1, <1>1, <1>3, CallerWrites
<1> QED
  BY <1>2, <1>3 DEF OpenCase

LEMMA WriteCaseKeeps ==
    ASSUME CrmInv, NEW c \in Callers, NEW op \in {"update", "close", "reopen"}, WriteCase(c, op)
    PROVE  CrmInv'
<1> DEFINE row == callers[c].row
<1>1. /\ callers[c].pc = "write" /\ callers[c].asked.op = op /\ Holds(c) /\ RowFollows(c)
      /\ slaSweep' = slaSweep /\ now' = now /\ Away \in Calls /\ Away.pc = "away"
  BY DEF WriteCase, CrmInv, HeldRowsFollow, Holds, OnCase, Away, Calls
<1>2. CASE Leave(c) /\ UNCHANGED <<cases, history>>
  BY <1>1, <1>2, CallerOnly DEF Leave
<1>3. CASE /\ Unchanged(row) /\ cases' = [cases EXCEPT ![row.id] = row]
           /\ Say(Topic[op], row) /\ Goto(c, "keep")
  <2>1. /\ row \in CaseRows /\ cases[row.id] # Nobody /\ Follows(Topic[op], cases[row.id], row)
        /\ Topic[op] \in {"opened", "updated", "closed", "reopened"}
    BY <1>1, <1>3 DEF RowFollows, Topic
  <2> QED
    BY <2>1, <1>1, <1>3, CallerWrites
<1> QED
  BY <1>2, <1>3 DEF WriteCase

\* The other steps of a caller write no case and hold none.
LEMMA WriteOtherKeeps ==
    ASSUME CrmInv, NEW c \in Callers, NEW op \in {"log", "note", "prefer", "assign"}, WriteOther(c, op)
    PROVE  CrmInv'
<1> DEFINE call == [callers[c] EXCEPT !.pc = "keep"]
<1>1. /\ callers[c] \in Calls /\ callers[c].asked \in CrmRequests
      /\ slaSweep' = slaSweep /\ now' = now /\ cases' = cases /\ history' = history
      /\ callers' = [callers EXCEPT ![c].pc = "keep"]
  BY DEF WriteOther, Goto, CrmInv, WorkOK
<1>2. /\ call \in Calls /\ call.pc = "keep" /\ call.asked = callers[c].asked
      /\ callers' = [callers EXCEPT ![c] = call]
  BY <1>1 DEF Calls
<1> HIDE DEF call
<1> QED
  BY <1>1, <1>2, CallerOnly

\* A caller that leaves.
LEMMA LeaveKeeps ==
    ASSUME CrmInv, NEW c \in Callers, Leave(c),
           slaSweep' = slaSweep, now' = now, cases' = cases, history' = history
    PROVE  CrmInv'
<1>1. Away \in Calls /\ Away.pc = "away"
  BY DEF Away, Calls
<1> QED
  BY <1>1, CallerOnly DEF Leave

LEMMA EscalateKeeps == ASSUME CrmInv, Escalate PROVE CrmInv'
<1>1. PICK row \in slaSweep.todo :
         LET new == NextVersion([row EXCEPT !.escalated = TRUE])
         IN  /\ slaSweep' = IF slaSweep.todo = {row} THEN NoSweep
                            ELSE [slaSweep EXCEPT !.todo = @ \ {row}]
             /\ IF IsPastSLA(row, slaSweep.at) /\ Unchanged(new)
                THEN cases' = [cases EXCEPT ![row.id] = new] /\ Say("escalated", new)
                ELSE UNCHANGED <<cases, history>>
             /\ now' = now /\ callers' = callers
  BY DEF Escalate
<1> DEFINE new == NextVersion([row EXCEPT !.escalated = TRUE])
<1>2. /\ row \in CaseRows /\ row.id \in Cases /\ RowIsStored(row) /\ now' \in Nat
      /\ row.version \in Nat
  BY <1>1 DEF CrmInv, WorkOK, ListedRowsAreStored, TablesOK, CaseRows
<1>3. WorkOK' /\ slaSweep'.todo \subseteq slaSweep.todo
  BY <1>1 DEF CrmInv, WorkOK, NoSweep
<1>4. CASE UNCHANGED <<cases, history>>
  <2>1. HeldRowsFollow' /\ ListedRowsAreStored'
    BY <1>1, <1>3, <1>4 DEF CrmInv, HeldRowsFollow, Holds, RowFollows, Unchanged, ListedRowsAreStored, RowIsStored
  <2> QED
    BY <2>1, <1>2, <1>3, <1>4, NothingWritten
<1>5. CASE /\ IsPastSLA(row, slaSweep.at) /\ Unchanged(new)
           /\ cases' = [cases EXCEPT ![row.id] = new] /\ Say("escalated", new)
  <2>1. /\ new \in CaseRows /\ new.id = row.id /\ new.version = row.version + 1
        /\ new.status = row.status /\ new.escalated = TRUE
    <3> DEFINE marked == [row EXCEPT !.escalated = TRUE]
    <3>1. /\ marked \in CaseRows /\ marked.id = row.id /\ marked.version = row.version
          /\ marked.status = row.status /\ marked.escalated = TRUE
      BY <1>2 DEF CaseRows
    <3>2. new = [marked EXCEPT !.version = @ + 1]
      BY DEF NextVersion
    <3> HIDE DEF marked
    <3> QED
      BY <3>1, <3>2 DEF CaseRows
  <2>2. row = cases[row.id] /\ cases[row.id] # Nobody
    <3>1. cases[row.id].version + 1 = row.version + 1 /\ cases[row.id] # Nobody
      BY <2>1, <1>2, <1>5 DEF Unchanged, RowIsStored
    <3>2. cases[row.id].version \in Nat
      BY <3>1, <1>2 DEF CrmInv, TablesOK, CaseRows
    <3> QED
      BY <3>1, <3>2, <1>2 DEF RowIsStored
  <2>3. Follows("escalated", cases[row.id], new)
    BY <2>1, <2>2, <1>5 DEF IsPastSLA, Follows
  <2> HIDE DEF new
  <2>4. TablesOK' /\ RowsAreTold' /\ LifecycleIsLawful'
    BY <2>1, <2>2, <2>3, <1>2, <1>5, CaseWritten DEF CrmInv, Say
  <2>5. /\ \A d \in Callers : Holds(d) /\ RowFollows(d) /\ callers'[d] = callers[d] => RowFollows(d)'
        /\ \A r \in CaseRows : RowIsStored(r) => RowIsStored(r)'
    <3>1. new.version = cases[row.id].version + 1
      BY <2>3 DEF Follows
    <3> QED
      BY <3>1, <2>1, <1>2, <1>5, OthersFallBehind DEF CrmInv
  <2>6. HeldRowsFollow'
    BY <2>5, <1>1 DEF CrmInv, HeldRowsFollow, Holds
  <2>7. ListedRowsAreStored'
    BY <2>5, <1>3 DEF CrmInv, WorkOK, ListedRowsAreStored
  <2> QED
    BY <2>4, <2>6, <2>7, <1>3 DEF CrmInv
<1> QED
  BY <1>1, <1>4, <1>5

\* The steps of the sweep that write nothing, a restart, and time.
LEMMA RestKeeps ==
    ASSUME CrmInv, cases' = cases, history' = history, now' \in Nat, WorkOK',
           \A c \in Callers : callers'[c] = callers[c] \/ callers'[c] = Away,
           slaSweep'.todo \subseteq slaSweep.todo \cup Overdue(now)
    PROVE  CrmInv'
<1>1. HeldRowsFollow'
  BY DEF CrmInv, HeldRowsFollow, Holds, RowFollows, Unchanged, Away
<1>2. \A r \in Overdue(now) : RowIsStored(r)
  BY DEF CrmInv, TablesOK, Overdue, RowIsStored, CaseRows
<1>3. ListedRowsAreStored'
  BY <1>2 DEF CrmInv, ListedRowsAreStored, RowIsStored
<1> QED
  BY <1>1, <1>3, NothingWritten
-----------------------------------------------------------------------------
LEMMA StepKeeps == CrmInv /\ [CrmNext]_crmVars => CrmInv'
<1> SUFFICES ASSUME CrmInv, [CrmNext]_crmVars PROVE CrmInv'
  OBVIOUS
<1>0. now \in Nat /\ WorkOK
  BY DEF CrmInv, TablesOK
<1>1. ASSUME NEW c \in Callers, NEW q \in CrmRequests, Ring(c, q) PROVE CrmInv'
  BY <1>1, RingKeeps
<1>2. ASSUME NEW c \in Callers, OpenCase(c) PROVE CrmInv'
  BY <1>2, OpenCaseKeeps
<1>3. ASSUME NEW c \in Callers, UpdateCase(c) \/ CloseCase(c) \/ ReopenCase(c) PROVE CrmInv'
  BY <1>3, WriteCaseKeeps DEF UpdateCase, CloseCase, ReopenCase
<1>4. ASSUME NEW c \in Callers,
             \/ LogInteraction(c) \/ UpdateCommunicationPreferences(c) \/ AssignRelationshipManager(c)
      PROVE  CrmInv'
  BY <1>4, WriteOtherKeeps
     DEF LogInteraction, UpdateCommunicationPreferences, AssignRelationshipManager
<1>5. ASSUME NEW c \in Callers, AddCaseNote(c) PROVE CrmInv'
  <2>1. CASE WriteOther(c, "note")
    BY <2>1, WriteOtherKeeps
  <2>2. CASE Leave(c) /\ UNCHANGED <<now, crmdb, slaSweep, crmuse>>
    BY <2>2, LeaveKeeps DEF crmdb
  <2> QED
    BY <1>5, <2>1, <2>2 DEF AddCaseNote
<1>6. ASSUME NEW c \in Callers, Keep(c) \/ CallFails(c) PROVE CrmInv'
  BY <1>6, LeaveKeeps DEF Keep, CallFails, crmdb
<1>7. CASE ListCaseNotes \/ GetCustomer360
  <2>1. UNCHANGED <<now, cases, history, callers, slaSweep>>
    BY <1>7 DEF ListCaseNotes, GetCustomer360, Look
  <2> QED
    BY <2>1, <1>0, RestKeeps DEF WorkOK
<1>8. CASE BeginSLASweep
  <2>1. UNCHANGED <<now, cases, history, callers>> /\ slaSweep' \in [at : {now}, todo : SUBSET Overdue(now)]
    BY <1>8 DEF BeginSLASweep, crmdb
  <2>2. Overdue(now) \subseteq CaseRows
    BY DEF Overdue, CrmInv, TablesOK
  <2>3. WorkOK' /\ slaSweep'.todo \subseteq Overdue(now)
    BY <2>1, <2>2, <1>0 DEF WorkOK
  <2> QED
    BY <2>1, <2>3, <1>0, RestKeeps
<1>9. CASE Escalate
  BY <1>9, EscalateKeeps
<1>10. CASE EscalateFails
  <2>1. PICK row \in slaSweep.todo :
           slaSweep' = IF slaSweep.todo = {row} THEN NoSweep ELSE [slaSweep EXCEPT !.todo = @ \ {row}]
    BY <1>10 DEF EscalateFails
  <2>2. UNCHANGED <<now, cases, history, callers>>
    BY <1>10 DEF EscalateFails, crmdb
  <2>3. WorkOK' /\ slaSweep'.todo \subseteq slaSweep.todo
    BY <2>1, <2>2, <1>0 DEF WorkOK, NoSweep
  <2> QED
    BY <2>2, <2>3, <1>0, RestKeeps
<1>11. CASE CrmRestart
  <2>1. /\ UNCHANGED <<now, cases, history>> /\ slaSweep' = NoSweep
        /\ callers' = [c \in Callers |-> Away]
    BY <1>11 DEF CrmRestart, crmdb
  <2>2. WorkOK' /\ slaSweep'.todo = {} /\ \A c \in Callers : callers'[c] = Away
    BY <2>1 DEF WorkOK, NoSweep, Away, Calls
  <2> QED
    BY <2>1, <2>2, <1>0, RestKeeps
<1>12. CASE Tick
  BY <1>12, <1>0, RestKeeps DEF Tick, crmdb, WorkOK
<1>13. CASE UNCHANGED crmVars
  BY <1>13, <1>0, RestKeeps DEF crmVars, crmdb, WorkOK
<1> QED
  BY <1>1, <1>2, <1>3, <1>4, <1>5, <1>6, <1>7, <1>8, <1>9, <1>10, <1>11, <1>12, <1>13
     DEF CrmNext, SLASweepStep

\* CrmInv holds however requests, retries, the sweep, failures and restarts
\* overlap (UpdateCaseConditional).
THEOREM CaseInvariant == CrmSpec => []CrmInv
<1>1. CrmInit => CrmInv
  BY InitHolds
<1>2. CrmInv /\ [CrmNext]_crmVars => CrmInv'
  BY StepKeeps
<1> QED
  BY <1>1, <1>2, PTL DEF CrmSpec

\* Every version of a case was announced once.
THEOREM VersionsAreAnnounced == CrmSpec => []OneEventPerVersion
<1>1. CrmInv => OneEventPerVersion
  BY DEF CrmInv, RowsAreTold, IsTold, OneEventPerVersion
<1> QED
  BY <1>1, CaseInvariant, PTL

\* In the order of its versions a case leads a lawful life.
THEOREM CasesLeadLawfulLives == CrmSpec => []LifecycleIsLawful
<1>1. CrmInv => LifecycleIsLawful
  BY DEF CrmInv
<1> QED
  BY <1>1, CaseInvariant, PTL
=============================================================================
