------------------------- MODULE LoanServicing_proofs -------------------------
(***************************************************************************)
(* Part 1.  Whatever its concurrent workers save over one another, and     *)
(* whichever call of a handler fails, the subledger is never ahead of the  *)
(* GL: no row, event or account status claims what was not posted, and     *)
(* what is settled is announced.  For any number of workers, accounts,     *)
(* requests and faults.                                                    *)
(*                                                                         *)
(* The invariant says what a handler in flight may rely on.  It holds rows *)
(* that may be stale, so it is stated of facts that only grow: the book    *)
(* and the outbox lose nothing, and a disbursement row keeps its account.  *)
(*                                                                         *)
(* Part 2.  Types, among them that an entry's id in a row is in the book.  *)
(*                                                                         *)
(* Part 3.  What overlapping requests leave: what a handler has read still *)
(* holds when it moves on itself, and when one of another account does.    *)
(* What a request reads, posts and saves of one account is told here one   *)
(* promise at a time: postings applied and undone, loans out, terms.       *)
(*                                                                         *)
(* Part 4.  The induction of LoanOverlaps: an account stays in order until *)
(* two requests touch it at once, whatever overlaps elsewhere, and its     *)
(* status and its entries in the GL go through the life LoanLife describes.*)
(***************************************************************************)
EXTENDS LoanOverlaps, FiniteSums_proofs

Steps == {"idle", "account", "fee", "balance", "pending", "post", "correct",
          "savefee", "savecorrection", "commit"}

Ops == {"create", "confirm", "reverse", "undo", "chargeoff", "waive", "delinquency", "modify",
        "notify", "accrue", "quote"}

\* The steps a handler takes, "post" and what follows it if the GL answers.  A
\* waiver is refused there: it names its target by the entry's id.
Path == [create |-> {"account", "commit"},
         confirm |-> {"account", "post", "commit"},
         reverse |-> {"account", "pending", "post", "commit"},
         undo |-> {"pending", "post", "correct", "savecorrection", "commit"},
         chargeoff |-> {"account", "balance", "pending", "post", "commit"},
         waive |-> {"pending", "post"},
         delinquency |-> {"account", "fee", "post", "savefee", "commit"},
         modify |-> {"account", "post", "commit"},
         notify |-> {"account", "balance", "post", "commit"},
         accrue |-> {"account", "balance", "post"},
         quote |-> {"account", "balance"}]

AccountRows == [status : Statuses, bucket : Buckets]
RowFields   == {"status", "acct", "value", "entry"}
DraftFields == {"account", "row", "term", "rule", "value"}
PaymentRules == {"REPAY01", "PAYOFF01", "CHGOFF02"}
-----------------------------------------------------------------------------
(* The state at rest.                                                      *)

Tabled ==
    /\ account \in [Accounts -> AccountRows]
    /\ \A k \in DOMAIN rows : k[1] \in Tables /\ RowFields \subseteq DOMAIN rows[k]

Manned ==
    /\ pc \in [Workers -> Steps]
    /\ req \in [Workers -> Requests \cup {None}]
    /\ DOMAIN draft = Workers
    /\ \A w \in Workers : DOMAIN draft[w] = DraftFields

\* The posting at key k is what request r asked for.
AskedBy(k, r) ==
    LET p == book[k]
    IN  CASE r.op = "confirm"     -> k = <<"disb", r.id>> /\ p.rule = "DISB01"
          [] r.op = "reverse"     -> k = <<"raw", r.key>> /\ p.target = <<"disb", r.id>>
          [] r.op = "undo"        -> \/ k = <<"raw", r.key>> /\ p.target = <<"repay", r.id>>
                                     \/ k = <<"correction", r.id>> /\ p.rule = "REPAY01"
                                          /\ r.to # None /\ p.acct = r.to
          [] r.op = "chargeoff"   -> k = <<"raw", r.id>> /\ p.rule = "CHGOFF01" /\ p.acct = r.acct
          [] r.op = "delinquency" -> k = <<"late-fee", r.id>> /\ p.rule = "DELINQ01" /\ p.acct = r.acct
          [] r.op = "modify"      -> k = <<"raw", r.id>> /\ p.rule = "MOD01" /\ p.acct = r.acct
          [] r.op = "notify"      -> /\ p.acct = r.acct /\ r.acct \in Accounts
                                     /\ \/ k = <<"repay", r.id>> /\ p.rule = "REPAY01"
                                        \/ k = <<"raw", r.id>> /\ p.rule \in Lump
          [] r.op = "accrue"      -> k = <<"accr", r.id>>
          [] OTHER                -> FALSE

\* Every posting was asked for, and a disbursement is posted on the account
\* of its row.
BookIsAsked ==
    \A k \in DOMAIN book :
        /\ \E r \in Requests : AskedBy(k, r)
        /\ k[1] = "disb" => /\ <<"disbursement", k[2]>> \in DOMAIN rows
                            /\ book[k].acct = rows[<<"disbursement", k[2]>>].acct

\* A request asked for the row: its key names it, and its account.
AskedFor(op, id, a) == \E r \in Requests : r.op = op /\ r.id = id /\ r.acct = a

\* What the upserts keep of the rows of each table.
RowsKeep ==
    \A k \in DOMAIN rows :
        /\ k[1] = "disbursement" => rows[k].acct \in Accounts /\ AskedFor("create", k[2], rows[k].acct)
        /\ k[1] = "modification" => AskedFor("modify", k[2], rows[k].acct)
        /\ k[1] = "chargeoff" => \E r \in Requests : r.op = "chargeoff" /\ r.id = k[2] /\ r.acct = rows[k].acct
        /\ k[1] = "fee" => rows[k].entry = EntryId(<<"late-fee", k[2]>>)
-----------------------------------------------------------------------------
(* A handler in flight.                                                    *)

\* The account row it will save claims no more than the book.
Stands(status, a) ==
    /\ status \in {"Disbursed", "Closed", "ChargedOff"} => PostedOn(a, "DISB01")
    /\ status = "ChargedOff" => PostedOn(a, "CHGOFF01")

Where(w) ==
    IF pc[w] = "idle" THEN req[w] = None ELSE req[w] \in Requests /\ pc[w] \in Path[req[w].op]

Plans(w) ==
    LET r == req[w]
        d == draft[w]
    IN  /\ r.op \in DOMAIN RuleOf => d.rule = RuleOf[r.op]
        /\ r.op = "modify" => d.value = r.capital
        /\ r.op = "notify" =>
              /\ pc[w] = "account" => r.acct \in Accounts
              /\ pc[w] = "balance" => d.rule = "REPAY01"
              /\ pc[w] \in {"balance", "post"} => d.rule \in PaymentRules /\ r.acct \in Accounts
              /\ pc[w] = "commit" => d.rule = None \/ (d.rule \in PaymentRules /\ r.acct \in Accounts)

HoldsRow(w) ==
    LET r == req[w]
        d == draft[w]
    IN  r.op \in DOMAIN Required =>
          /\ RowFields \subseteq DOMAIN d.row
          /\ RowKey(r) \in DOMAIN rows
          /\ r.op \in {"confirm", "reverse"} => d.row.acct = rows[RowKey(r)].acct
          /\ r.op = "reverse" => /\ Has(<<"disb", r.id>>, {"DISB01"}, d.row.acct)
                                 /\ <<"disbursed", r.id>> \in outbox
          /\ r.op = "undo" => \/ Has(<<"repay", r.id>>, {"REPAY01"}, d.row.acct)
                              \/ Corrects(r.id, d.row.acct)
          /\ r.op = "waive" => d.row.entry = EntryId(<<"late-fee", r.id>>)

HoldsAccount(w) ==
    LET r == req[w]
        d == draft[w]
    IN  pc[w] # "account" /\ (r.op \in DOMAIN Into \cup {"delinquency", "modify"} \/ IsPayoff(w)) =>
          /\ AccountOf(w) \in Accounts
          /\ d.account \in AccountRows
          /\ Stands(d.account.status, AccountOf(w))
          /\ r.op = "chargeoff" \/ IsPayoff(w) => d.account.status = "Disbursed"

\* What the GL must have posted before the step after its answer.
Posted(r, d) ==
    CASE r.op = "confirm"     -> Has(<<"disb", r.id>>, {"DISB01"}, d.row.acct)
      [] r.op = "reverse"     -> Undone(<<"disb", r.id>>)
      [] r.op = "undo"        -> Undone(<<"repay", r.id>>)
      [] r.op = "chargeoff"   -> Has(<<"raw", r.id>>, {"CHGOFF01"}, r.acct)
      [] r.op = "delinquency" -> Has(<<"late-fee", r.id>>, {"DELINQ01"}, r.acct)
      [] r.op = "modify"      -> Has(<<"raw", r.id>>, {"MOD01"}, r.acct)
      [] r.op = "notify"      -> IF d.rule = "REPAY01" THEN Has(<<"repay", r.id>>, {"REPAY01"}, r.acct)
                                 ELSE Has(<<"raw", r.id>>, Lump, r.acct)
      [] OTHER                -> TRUE

\* A delinquency commits without a fee, a modification without capital and an
\* unmatched payment without any posting.
NeedsPosting(w) ==
    \/ pc[w] \in {"savefee", "correct", "savecorrection"}
    \/ /\ pc[w] = "commit" /\ req[w].op # "delinquency"
       /\ req[w].op = "modify" => req[w].capital # Nothing
       /\ req[w].op = "notify" => draft[w].rule # None

Corrected(w) ==
    req[w].op = "undo" =>
        /\ pc[w] \in {"correct", "savecorrection"} => req[w].to # None
        /\ pc[w] = "savecorrection" =>
               \E a \in CorrectedTo(req[w].id) : Has(<<"correction", req[w].id>>, {"REPAY01"}, a)
        /\ pc[w] = "commit" /\ req[w].to # None => <<"correction", req[w].id>> \in DOMAIN book

InFlight(w) ==
    pc[w] # "idle" =>
        Plans(w) /\ HoldsRow(w) /\ HoldsAccount(w) /\ (NeedsPosting(w) => Posted(req[w], draft[w])) /\ Corrected(w)

AtRest == /\ Tabled /\ BookIsAsked /\ RowsKeep
          /\ RowsAreBehindTheBook /\ EventsAreBehindTheBook /\ StatusIsBehindTheBook /\ SettledIsAnnounced

LasInv == AtRest /\ Manned /\ \A w \in Workers : Where(w) /\ InFlight(w)
-----------------------------------------------------------------------------
(* What every step keeps.                                                  *)

Grows ==
    /\ \A k \in DOMAIN book : k \in DOMAIN book' /\ book'[k] = book[k]
    /\ outbox \subseteq outbox'
    /\ \A k \in DOMAIN rows : /\ k \in DOMAIN rows'
                              /\ k[1] = "disbursement" => rows'[k].acct = rows[k].acct

OthersStay(w) == \A u \in Workers \ {w} : pc'[u] = pc[u] /\ req'[u] = req[u] /\ draft'[u] = draft[u]

LEMMA HasGrows ==
    ASSUME Grows, NEW k, NEW allowed, NEW a, Has(k, allowed, a)
    PROVE  Has(k, allowed, a)'
BY DEF Grows, Has

LEMMA CorrectsGrows ==
    ASSUME Grows, NEW id, NEW a, Corrects(id, a)
    PROVE  Corrects(id, a)'
BY HasGrows DEF Corrects

LEMMA CorrectsStays ==
    ASSUME book' = book, NEW id, NEW a, Corrects(id, a)
    PROVE  Corrects(id, a)'
BY DEF Corrects, Has

LEMMA FoundedStays ==
    ASSUME book' = book, NEW k, rows'[k] = rows[k], k[1] \in Tables, Founded(k)
    PROVE  Founded(k)'
<1>1. CASE k[1] = "repayment"
  <2>1. ASSUME NEW x, NEW a, Corrects(x, a) PROVE Corrects(x, a)'
    BY <2>1, CorrectsStays
  <2> QED BY <1>1, <2>1 DEF Founded, Has, Undone
<1>2. CASE k[1] # "repayment"
  BY <1>2 DEF Founded, Has, Undone, Tables
<1> QED BY <1>1, <1>2

LEMMA UndoneGrows ==
    ASSUME Grows, NEW k, Undone(k)
    PROVE  Undone(k)'
BY DEF Grows, Undone

\* A handler keeps what it relies on while others work.
LEMMA InFlightStays ==
    ASSUME Grows, NEW u \in Workers, pc'[u] = pc[u], req'[u] = req[u], draft'[u] = draft[u],
           Where(u), InFlight(u)
    PROVE  Where(u)' /\ InFlight(u)'
<1>1. Where(u)'
  BY DEF Where
<1>2. SUFFICES ASSUME pc[u] # "idle" PROVE InFlight(u)'
  BY <1>1 DEF InFlight
<1>3. req[u] \in Requests /\ Shaped(req[u])
  BY <1>2, RequestsAssumption DEF Where
<1>4. Plans(u)'
  BY <1>2 DEF InFlight, Plans
<1>5. HoldsRow(u)'
  <2>1. CASE req[u].op = "confirm"
    BY <1>2, <2>1 DEF InFlight, HoldsRow, Grows, RowKey, Required, Table
  <2>2. CASE req[u].op = "reverse"
    BY <1>2, <2>2 DEF InFlight, HoldsRow, Grows, RowKey, Required, Table, Has
  <2>3. CASE req[u].op = "undo"
    BY <1>2, <2>3, HasGrows, CorrectsGrows DEF InFlight, HoldsRow, Grows, RowKey, Required, Table
  <2>4. CASE req[u].op = "waive"
    BY <1>2, <2>4 DEF InFlight, HoldsRow, Grows, RowKey, Required, Table
  <2> QED BY <2>1, <2>2, <2>3, <2>4 DEF HoldsRow, Required
<1>6. HoldsAccount(u)'
  BY <1>2 DEF InFlight, HoldsAccount, AccountOf, IsPayoff, Grows, Stands, PostedOn
<1>7. NeedsPosting(u)' => Posted(req[u], draft[u])'
  <2>1. SUFFICES ASSUME Posted(req[u], draft[u]) PROVE Posted(req[u], draft[u])'
    BY <1>2 DEF InFlight, NeedsPosting
  <2> QED BY <2>1 DEF Posted, Has, Undone, Grows
<1>8. Corrected(u)'
  BY <1>2, HasGrows DEF InFlight, Corrected, Grows
<1> QED BY <1>1, <1>4, <1>5, <1>6, <1>7, <1>8 DEF InFlight

\* So a step is sound if its state is, and its own worker.
LEMMA StepIsSound ==
    ASSUME LasInv, NEW w \in Workers, Grows, OthersStay(w), AtRest', Manned', Where(w)', InFlight(w)'
    PROVE  LasInv'
<1>1. ASSUME NEW u \in Workers PROVE Where(u)' /\ InFlight(u)'
  <2>1. CASE u = w
    BY <2>1
  <2>2. CASE u # w
    BY <2>2, InFlightStays DEF LasInv, OthersStay
  <2> QED BY <2>1, <2>2
<1> QED BY <1>1 DEF LasInv

LEMMA Released ==
    ASSUME LasInv, NEW w \in Workers, Release(w)
    PROVE  OthersStay(w) /\ Manned' /\ Where(w)' /\ InFlight(w)'
<1>1. Manned' /\ OthersStay(w)
  BY DEF LasInv, Manned, OthersStay, Release, Goto, EmptyDraft, DraftFields, Steps
<1>2. pc'[w] = "idle" /\ req'[w] = None
  BY DEF LasInv, Manned, Release, Goto
<1> QED BY <1>1, <1>2 DEF Where, InFlight

LEMMA RestStays ==
    ASSUME LasInv, UNCHANGED <<lasdb, book>>
    PROVE  AtRest' /\ Grows
<1>1. Tabled' /\ BookIsAsked' /\ RowsKeep'
  BY DEF LasInv, AtRest, Tabled, BookIsAsked, RowsKeep, AskedBy, lasdb
<1>2. RowsAreBehindTheBook' /\ SettledIsAnnounced'
  BY FoundedStays DEF LasInv, AtRest, Tabled, RowsAreBehindTheBook, SettledIsAnnounced, lasdb
<1>3. EventsAreBehindTheBook'
  <2>1. outbox' = outbox /\ book' = book
    BY DEF lasdb
  <2> QED BY <2>1 DEF LasInv, AtRest, EventsAreBehindTheBook, Has, PostingOf
<1>5. StatusIsBehindTheBook'
  BY DEF LasInv, AtRest, StatusIsBehindTheBook, PostedOn, lasdb
<1>4. Grows
  BY DEF Grows, lasdb
<1> QED BY <1>1, <1>2, <1>3, <1>4, <1>5 DEF AtRest
-----------------------------------------------------------------------------
(* The steps that touch neither the tables nor the book.                   *)

LEMMA ReceiveKeeps ==
    ASSUME LasInv, NEW w \in Workers, NEW r \in Requests, Receive(w, r)
    PROVE  LasInv'
<1>1. AtRest' /\ Grows
  BY RestStays DEF Receive
<1>2. CASE UNCHANGED job
  <2>1. OthersStay(w) /\ Manned' /\ Where(w)'
    BY <1>2 DEF LasInv, Manned, Where, OthersStay, job
  <2>2. InFlight(w)'
    BY <1>1, <1>2, InFlightStays DEF LasInv, job
  <2> QED BY <1>1, <2>1, <2>2, StepIsSound
<1>3. CASE ~UNCHANGED job
  <2>1. /\ IsServable(r)
        /\ Goto(w, FirstStep(r))
        /\ req' = [req EXCEPT ![w] = r]
        /\ draft'[w].row = IF r.op \in DOMAIN Required THEN rows[RowKey(r)] ELSE None
        /\ r.op = "modify" => draft'[w].value = r.capital
        /\ draft'[w].rule = IF r.op \in DOMAIN RuleOf THEN RuleOf[r.op] ELSE None
        /\ DOMAIN draft' = Workers
        /\ \A u \in Workers \ {w} : draft'[u] = draft[u]
        /\ DOMAIN draft'[w] = DraftFields
    BY <1>3 DEF LasInv, Manned, DraftFields, Receive, Required
  <2>2. Shaped(r)
    BY RequestsAssumption
  <2>3. pc'[w] = FirstStep(r) /\ req'[w] = r /\ r # None
    BY <2>1, ConstantsAssumption DEF LasInv, Manned, Goto
  <2>4. FirstStep(r) \in Path[r.op] /\ FirstStep(r) \in {"pending", "commit", "account"}
    BY <2>2 DEF Shaped, FirstStep, Path, Table
  <2>5. Where(w)' /\ OthersStay(w) /\ Manned'
    BY <2>1, <2>3, <2>4 DEF Where, OthersStay, Manned, LasInv, Goto, Steps
  <2>6. Plans(w)'
    BY <2>1, <2>2, <2>3 DEF Plans, FirstStep, Shaped, RuleOf
  <2>7. HoldsRow(w)'
    <3>1. SUFFICES ASSUME r.op \in DOMAIN Required
                   PROVE  HoldsRow(w)'
      BY <2>3 DEF HoldsRow
    <3>2. /\ RowKey(r) \in DOMAIN rows /\ rows[RowKey(r)].status = Required[r.op]
          /\ draft'[w].row = rows[RowKey(r)] /\ rows' = rows /\ book' = book /\ outbox' = outbox
          /\ RowFields \subseteq DOMAIN rows[RowKey(r)]
      BY <3>1, <2>1 DEF IsServable, LasInv, AtRest, Tabled, Receive, lasdb
    <3>3. CASE r.op = "confirm"
      BY <3>2, <3>3, <2>3 DEF HoldsRow
    <3>4. CASE r.op = "reverse"
      <4>1. RowKey(r) = <<"disbursement", r.id>> /\ rows[RowKey(r)].status = "Disbursed"
        BY <3>2, <3>4 DEF RowKey, Table, Required
      <4>2. Has(<<"disb", r.id>>, {"DISB01"}, rows[RowKey(r)].acct) /\ <<"disbursed", r.id>> \in outbox
        <5>1. Founded(RowKey(r)) /\ RowKey(r)[1] = "disbursement" /\ RowKey(r)[2] = r.id
          BY <3>2, <4>1 DEF LasInv, AtRest, RowsAreBehindTheBook
        <5>2. Has(<<"disb", r.id>>, {"DISB01"}, rows[RowKey(r)].acct)
          BY <5>1, <4>1 DEF Founded
        <5> QED BY <5>1, <5>2, <3>2, <4>1 DEF LasInv, AtRest, SettledIsAnnounced
      <4> QED BY <3>2, <3>4, <4>2, <2>3 DEF HoldsRow, Has
    <3>5. CASE r.op = "undo"
      <4>1. RowKey(r) = <<"repayment", r.id>> /\ rows[RowKey(r)].status = "Posted"
        BY <3>2, <3>5 DEF RowKey, Table, Required
      <4>2. \/ Has(<<"repay", r.id>>, {"REPAY01"}, rows[RowKey(r)].acct)
            \/ Corrects(r.id, rows[RowKey(r)].acct)
        <5>1. Founded(RowKey(r)) /\ RowKey(r)[1] = "repayment" /\ RowKey(r)[2] = r.id
          BY <3>2, <4>1 DEF LasInv, AtRest, RowsAreBehindTheBook
        <5> QED BY <5>1, <4>1 DEF Founded
      <4> QED BY <1>1, <3>2, <3>5, <4>2, <2>3, HasGrows, CorrectsGrows DEF HoldsRow
    <3>6. CASE r.op = "waive"
      <4>1. RowKey(r) = <<"fee", r.id>>
        BY <3>6 DEF RowKey, Table
      <4>2. rows[RowKey(r)].entry = EntryId(<<"late-fee", r.id>>)
        BY <3>2, <4>1 DEF LasInv, AtRest, RowsKeep
      <4> QED BY <3>2, <3>6, <4>2, <2>3 DEF HoldsRow
    <3> QED BY <3>1, <3>3, <3>4, <3>5, <3>6 DEF Required
  <2>8. HoldsAccount(w)' /\ (NeedsPosting(w)' => Posted(req[w], draft[w])') /\ Corrected(w)'
    BY <2>1, <2>2, <2>3, NoneIsNothing DEF HoldsAccount, NeedsPosting, Corrected, FirstStep, IsPayoff, Into, RuleOf, Prefix
  <2> QED BY <1>1, <2>5, <2>6, <2>7, <2>8, StepIsSound DEF InFlight
<1> QED BY <1>2, <1>3

LEMMA IssueQuoteKeeps ==
    ASSUME LasInv, NEW w \in Workers, IssueQuote(w)
    PROVE  LasInv'
BY RestStays, Released, StepIsSound DEF IssueQuote, lasdb

LEMMA GLRefusesKeeps ==
    ASSUME LasInv, NEW w \in Workers, GLRefuses(w)
    PROVE  LasInv'
BY RestStays, Released, StepIsSound DEF GLRefuses, lasdb

LEMMA GivesUpKeeps ==
    ASSUME LasInv, NEW w \in Workers, GivesUp(w)
    PROVE  LasInv'
BY RestStays, Released, StepIsSound DEF GivesUp, lasdb

\* A handler that goes on, its request the same.
LEMMA GoesOn ==
    ASSUME LasInv, NEW w \in Workers, NEW step \in Steps \ {"idle"}, pc[w] # "idle", step \in Path[req[w].op],
           Goto(w, step), UNCHANGED req, DOMAIN draft' = Workers,
           \A u \in Workers \ {w} : draft'[u] = draft[u],
           DOMAIN draft'[w] = DraftFields
    PROVE  OthersStay(w) /\ Manned' /\ Where(w)' /\ pc'[w] = step
BY DEF LasInv, Manned, OthersStay, Goto, Where

LEMMA ReadFeeKeeps ==
    ASSUME LasInv, NEW w \in Workers, ReadFee(w)
    PROVE  LasInv'
<1>1. AtRest' /\ Grows
  BY RestStays DEF ReadFee, lasdb
<1>2. PICK step \in {"commit", "post"} : Goto(w, step)
  BY DEF ReadFee
<1>3. req[w].op = "delinquency" /\ req[w] \in Requests /\ InFlight(w) /\ pc[w] = "fee"
  BY RequestsAssumption DEF ReadFee, At, LasInv, Where, Path, Shaped, Table
<1>4. /\ DOMAIN draft' = Workers /\ DOMAIN draft'[w] = DraftFields
      /\ \A u \in Workers \ {w} : draft'[u] = draft[u]
      /\ draft'[w].rule = draft[w].rule /\ draft'[w].account = draft[w].account
  BY DEF ReadFee, LasInv, Manned, DraftFields
<1>5. OthersStay(w) /\ Manned' /\ Where(w)' /\ pc'[w] = step /\ req' = req
  BY <1>2, <1>3, <1>4, GoesOn DEF ReadFee, Path, Steps
<1>6. book' = book
  BY DEF ReadFee
<1>7. InFlight(w)'
  <2>1. Plans(w)' /\ HoldsRow(w)' /\ Corrected(w)' /\ ~NeedsPosting(w)'
    BY <1>3, <1>4, <1>5 DEF InFlight, Plans, HoldsRow, Corrected, NeedsPosting, Required
  <2>2. HoldsAccount(w)'
    BY <1>3, <1>4, <1>5, <1>6 DEF InFlight, HoldsAccount, AccountOf, IsPayoff, Stands, PostedOn, Required
  <2> QED BY <2>1, <2>2 DEF InFlight
<1> QED BY <1>1, <1>5, <1>7, StepIsSound

LEMMA ReadBalanceKeeps ==
    ASSUME LasInv, NEW w \in Workers, ReadBalance(w)
    PROVE  LasInv'
<1>1. AtRest' /\ Grows
  BY RestStays DEF ReadBalance, lasdb
<1>2. CASE Release(w)
  BY <1>1, <1>2, Released, StepIsSound
<1>3. CASE ~Release(w)
  <2>1. PICK step \in {"pending", "post"} : Goto(w, step) /\ (step = "pending" <=> req[w].op = "chargeoff")
    BY <1>3 DEF ReadBalance
  <2>2. req[w].op \in {"notify", "chargeoff", "accrue"} /\ req[w] \in Requests /\ InFlight(w) /\ pc[w] = "balance"
    BY <1>3, RequestsAssumption DEF ReadBalance, At, LasInv, Where, Path, Shaped, Table
  <2>4. /\ DOMAIN draft' = Workers /\ DOMAIN draft'[w] = DraftFields
        /\ \A u \in Workers \ {w} : draft'[u] = draft[u]
        /\ draft'[w].rule = draft[w].rule /\ draft'[w].account = draft[w].account
    BY <1>3 DEF ReadBalance, LasInv, Manned, DraftFields
  <2>5. OthersStay(w) /\ Manned' /\ Where(w)' /\ pc'[w] = step /\ req' = req
    <3>1. step \in Path[req[w].op] /\ step \in Steps \ {"idle"}
      BY <2>1, <2>2 DEF Path, Steps
    <3> QED BY <1>3, <3>1, <2>1, <2>2, <2>4, GoesOn DEF ReadBalance
  <2>6. book' = book
    BY DEF ReadBalance
  <2>7. InFlight(w)'
    <3>1. Plans(w)' /\ HoldsRow(w)' /\ Corrected(w)' /\ ~NeedsPosting(w)'
      BY <2>1, <2>2, <2>4, <2>5 DEF InFlight, Plans, HoldsRow, Corrected, NeedsPosting, Required
    <3>2. HoldsAccount(w)'
      BY <2>1, <2>2, <2>4, <2>5, <2>6 DEF InFlight, HoldsAccount, AccountOf, IsPayoff, Stands, PostedOn, Required
    <3> QED BY <3>1, <3>2 DEF InFlight
  <2> QED BY <1>1, <2>5, <2>7, StepIsSound
<1> QED BY <1>2, <1>3

\* A payment is settled only where TransitionTo allows it, and each read
\* account row claims what the book then holds.
LEMMA ReadAccountKeeps ==
    ASSUME LasInv, NEW w \in Workers, ReadAccount(w)
    PROVE  LasInv'
<1>1. AtRest' /\ Grows
  BY RestStays DEF ReadAccount, lasdb
<1>2. CASE Release(w)
  BY <1>1, <1>2, Released, StepIsSound
<1>3. CASE ~Release(w)
  <2> DEFINE r == req[w]
             a == account[AccountOf(w)]
  <2>1. PICK settled : /\ r.op = "notify" \/ settled = {}
                       /\ Admits(r, a, settled)
                       /\ Goto(w, StepAfterAccount(r, a, settled))
                       /\ draft' = [draft EXCEPT
                            ![w].account = a,
                            ![w].term  = IF r.op \in {"create", "modify"} THEN CurrentTermVersion(r.acct) ELSE None,
                            ![w].rule  = IF r.op = "notify" THEN PaymentRule(r, a, settled) ELSE @,
                            ![w].value = IF r.op = "notify" THEN PaymentValue(r, a, settled) ELSE @]
                       /\ UNCHANGED req
    BY <1>3 DEF ReadAccount
  <2>2. r \in Requests /\ Shaped(r) /\ pc[w] = "account" /\ "account" \in Path[r.op] /\ InFlight(w)
    BY RequestsAssumption DEF ReadAccount, At, LasInv, Where
  <2>3. r.op \in {"create", "confirm", "reverse", "chargeoff", "delinquency", "modify", "notify", "accrue", "quote"}
    BY <2>2 DEF Shaped, Path, Table
  <2>4. /\ DOMAIN draft' = Workers /\ DOMAIN draft'[w] = DraftFields
        /\ \A u \in Workers \ {w} : draft'[u] = draft[u]
        /\ draft'[w].row = draft[w].row /\ draft'[w].account = a
        /\ draft'[w].rule  = IF r.op = "notify" THEN PaymentRule(r, a, settled) ELSE draft[w].rule
        /\ r.op # "notify" => draft'[w].value = draft[w].value
    BY <2>1 DEF LasInv, Manned, DraftFields
  <2> DEFINE step == StepAfterAccount(r, a, settled)
  <2>5. step \in Path[r.op] \ {"idle", "account", "correct", "savecorrection", "savefee"}
    BY <2>3 DEF StepAfterAccount, Path
  <2>6. OthersStay(w) /\ Manned' /\ Where(w)' /\ pc'[w] = step /\ req' = req
    <3>1. step \in Steps \ {"idle"}
      BY <2>3 DEF StepAfterAccount, Steps
    <3> HIDE DEF step
    <3> QED BY <3>1, <2>1, <2>2, <2>4, <2>5, GoesOn DEF step
  <2>7. book' = book /\ rows' = rows /\ outbox' = outbox /\ account' = account
    BY DEF ReadAccount, lasdb
  <2>8. Plans(w)'
    <3>1. CASE r.op = "notify"
      <4>1. step \in {"post", "balance"} /\ draft'[w].rule \in PaymentRules /\ r.acct \in Accounts
        BY <3>1, <2>2, <2>4 DEF StepAfterAccount, PaymentRule, PaymentRules, InFlight, Plans
      <4>2. step = "balance" => draft'[w].rule = "REPAY01"
        BY <3>1, <2>4 DEF StepAfterAccount, PaymentRule
      <4> HIDE DEF step
      <4> QED BY <3>1, <4>1, <4>2, <2>6 DEF Plans, RuleOf
    <3>2. CASE r.op # "notify"
      BY <3>2, <2>2, <2>4, <2>6 DEF Plans, InFlight
    <3> QED BY <3>1, <3>2
  <2>9. HoldsRow(w)'
    BY <1>1, <2>2, <2>4, <2>6, <2>7, HasGrows, CorrectsGrows DEF InFlight, HoldsRow
  <2>10. HoldsAccount(w)'
    <3>1. SUFFICES ASSUME r.op \in DOMAIN Into \cup {"delinquency", "modify"} \/ IsPayoff(w)'
                   PROVE  HoldsAccount(w)'
      BY <2>6 DEF HoldsAccount
    <3>2. AccountOf(w)' = AccountOf(w)
      BY <2>4, <2>6 DEF AccountOf
    <3>3. AccountOf(w) \in Accounts
      <4>1. CASE r.op \in {"confirm", "reverse"}
        <5>1. RowKey(r) \in DOMAIN rows /\ draft[w].row.acct = rows[RowKey(r)].acct
          BY <4>1, <2>2 DEF InFlight, HoldsRow, Required
        <5>2. RowKey(r)[1] = "disbursement"
          BY <4>1 DEF RowKey, Table
        <5> QED BY <4>1, <5>1, <5>2 DEF AccountOf, Required, LasInv, AtRest, RowsKeep
      <4>2. CASE r.op \in {"create", "chargeoff", "delinquency", "modify"}
        BY <4>2, <2>2 DEF Shaped, AccountOf, Required
      <4>3. CASE r.op = "notify"
        BY <4>3, <2>2 DEF InFlight, Plans, AccountOf, Required
      <4> QED BY <3>1, <4>1, <4>2, <4>3, <2>6 DEF Into, IsPayoff
    <3>4. a \in AccountRows /\ Stands(a.status, AccountOf(w))
      BY <3>3 DEF LasInv, AtRest, Tabled, StatusIsBehindTheBook, Stands
    <3>5. r.op = "chargeoff" \/ IsPayoff(w)' => a.status = "Disbursed"
      <4>1. CASE r.op = "chargeoff"
        <5>1. CanTransition(a.status, "ChargedOff")
          BY <4>1, <2>1 DEF Admits, Into
        <5> QED BY <5>1 DEF CanTransition, validTransitions
      <4>2. CASE IsPayoff(w)'
        <5>1. r.op = "notify" /\ PaymentRule(r, a, settled) = "PAYOFF01"
          BY <4>2, <2>4, <2>6 DEF IsPayoff
        <5>2. ~IsRecovery(r, a) /\ settled # {}
          BY <5>1 DEF PaymentRule
        <5>3. CanTransition(a.status, "Closed")
          BY <5>1, <5>2, <2>1 DEF Admits, Into
        <5> QED BY <5>3 DEF CanTransition, validTransitions
      <4> QED BY <4>1, <4>2, <2>6
    <3> HIDE DEF a
    <3> QED BY <3>2, <3>3, <3>4, <3>5, <2>4, <2>6, <2>7 DEF HoldsAccount, Stands, PostedOn
  <2>11. NeedsPosting(w)' => Posted(req[w], draft[w])'
    <3>1. CASE r.op = "create"
      BY <3>1, <2>6 DEF Posted
    <3>2. CASE r.op # "create"
      BY <2>3, <3>2, <2>6, NoneIsNothing DEF NeedsPosting, StepAfterAccount
    <3> QED BY <3>1, <3>2
  <2>12. Corrected(w)'
    BY <2>3, <2>6 DEF Corrected
  <2> QED BY <1>1, <2>6, <2>8, <2>9, <2>10, <2>11, <2>12, StepIsSound DEF InFlight
<1> QED BY <1>2, <1>3
-----------------------------------------------------------------------------
(* The calls to the GL.                                                    *)

BookKeeps(key, p) ==
    /\ key \in DOMAIN book'
    /\ \A k \in DOMAIN book : k \in DOMAIN book' /\ book'[k] = book[k]
    /\ \A k \in DOMAIN book' : k \in DOMAIN book \/ (k = key /\ book'[k] = p /\ GLAccepts(p))

LEMMA KeepsIsKept ==
    ASSUME NEW w \in Workers, Keeps(w), NEW key, key = Call(w)[1], NEW p, p = Call(w)[2]
    PROVE  BookKeeps(key, p)
<1>1. CASE key \in DOMAIN book
  BY <1>1 DEF Keeps, BookKeeps
<1>2. CASE key \notin DOMAIN book
  <2>1. book' = Insert(book, key, p) /\ GLAccepts(p)
    BY <1>2 DEF Keeps
  <2>2. /\ DOMAIN book' = DOMAIN book \cup {key}
        /\ book'[key] = p
        /\ \A k \in DOMAIN book : book'[k] = book[k]
    BY <1>2, <2>1 DEF Insert
  <2> QED BY <2>1, <2>2 DEF BookKeeps
<1> QED BY <1>1, <1>2

\* The rows stand by a book that grows.
LEMMA BookGrows ==
    ASSUME LasInv, UNCHANGED lasdb, BookIsAsked',
           \A k \in DOMAIN book : k \in DOMAIN book' /\ book'[k] = book[k]
    PROVE  AtRest' /\ Grows
<1>1. rows' = rows /\ outbox' = outbox /\ account' = account
  BY DEF lasdb
<1>2. Grows
  BY <1>1 DEF Grows
<1>3. Tabled' /\ RowsKeep' /\ SettledIsAnnounced'
  BY <1>1 DEF LasInv, AtRest, Tabled, RowsKeep, SettledIsAnnounced
<1>4. StatusIsBehindTheBook'
  BY <1>1 DEF LasInv, AtRest, StatusIsBehindTheBook, PostedOn
<1>5. EventsAreBehindTheBook'
  BY <1>1 DEF LasInv, AtRest, EventsAreBehindTheBook, Has, PostingOf
<1>6. RowsAreBehindTheBook'
  <2>1. SUFFICES ASSUME NEW k \in DOMAIN rows, Founded(k) PROVE Founded(k)'
    BY <1>1 DEF LasInv, AtRest, RowsAreBehindTheBook
  <2>2. ASSUME NEW x, NEW allowed, NEW b, Has(x, allowed, b) PROVE Has(x, allowed, b)'
    BY <1>2, <2>2, HasGrows
  <2>3. ASSUME NEW x, Undone(x) PROVE Undone(x)'
    BY <1>2, <2>3, UndoneGrows
  <2>9. ASSUME NEW x, NEW b, Corrects(x, b) PROVE Corrects(x, b)'
    BY <1>2, <2>9, CorrectsGrows
  <2>4. CASE k[1] = "disbursement"
    BY <1>1, <2>1, <2>2, <2>3, <2>4 DEF Founded
  <2>5. CASE k[1] = "repayment"
    BY <1>1, <2>1, <2>2, <2>3, <2>5, <2>9 DEF Founded
  <2>6. CASE k[1] \in {"payoff", "recovery"}
    BY <1>1, <2>1, <2>2, <2>6 DEF Founded
  <2>7. CASE k[1] \in {"chargeoff", "fee", "modification", "terms"}
    BY <1>1, <2>1, <2>2, <2>3, <2>7 DEF Founded
  <2>8. k[1] \in Tables
    BY DEF LasInv, AtRest, Tabled
  <2> QED BY <2>4, <2>5, <2>6, <2>7, <2>8 DEF Tables
<1> QED BY <1>2, <1>3, <1>4, <1>5, <1>6 DEF AtRest

\* A key names one request, so the posting at its key is the handler's own,
\* now or from an attempt before.
LEMMA PostingIsItsOwn ==
    ASSUME BookIsAsked', NEW r \in Requests, NEW d, r.op # "waive",
           r.op \in DOMAIN RuleOf => d.rule = RuleOf[r.op],
           r.op = "notify" => d.rule \in PaymentRules,
           r.op = "confirm" => d.row.acct = rows'[<<"disbursement", r.id>>].acct,
           SourceEvent(d.rule, r) \in DOMAIN book'
    PROVE  Posted(r, d)'
<1> DEFINE key == SourceEvent(d.rule, r)
<1>1. PICK s \in Requests : AskedBy(key, s)'
  BY DEF BookIsAsked
<1>2. Shaped(r) /\ Shaped(s)
  BY RequestsAssumption
<1>3. CASE r.op = "confirm"
  <2>1. key = <<"disb", r.id>>
    BY <1>3 DEF SourceEvent, RuleOf, Prefix, KeyOf, Reversals
  <2>2. book'[key].rule = "DISB01"
    BY <1>1, <2>1 DEF AskedBy
  <2>3. book'[key].acct = d.row.acct
    BY <1>3, <2>1 DEF BookIsAsked
  <2> QED BY <1>3, <2>1, <2>2, <2>3 DEF Posted, Has
<1>4. CASE r.op \in {"reverse", "undo"}
  <2>1. key = <<"raw", r.key>>
    BY <1>4 DEF SourceEvent, RuleOf, Prefix, KeyOf, Reversals
  <2>2. s.op \in Reversals \cup Keyed /\ KeyOf(s) = r.key
    BY <1>1, <2>1 DEF AskedBy, KeyOf, Reversals, Keyed
  <2>3. s.op = r.op /\ s.id = r.id
    BY <1>4, <2>2, RequestsAssumption DEF KeyOf, Reversals
  <2>4. book'[key].target = IF r.op = "reverse" THEN <<"disb", r.id>> ELSE <<"repay", r.id>>
    BY <1>1, <1>4, <2>1, <2>3 DEF AskedBy
  <2> QED BY <1>4, <2>4 DEF Posted, Undone
<1>5. CASE r.op = "delinquency"
  <2>1. key = <<"late-fee", r.id>>
    BY <1>5 DEF SourceEvent, RuleOf, Prefix, KeyOf, Reversals
  <2>2. s.op = "delinquency" /\ s.id = r.id /\ book'[key].rule = "DELINQ01" /\ book'[key].acct = s.acct
    BY <1>1, <2>1 DEF AskedBy
  <2> QED BY <1>5, <2>1, <2>2, RequestsAssumption DEF Posted, Has
<1>6. CASE r.op \in {"chargeoff", "modify"} \/ (r.op = "notify" /\ d.rule # "REPAY01")
  <2>1. key = <<"raw", r.id>>
    BY <1>6 DEF SourceEvent, RuleOf, Prefix, KeyOf, Reversals, PaymentRules
  <2>2. s.op \in Reversals \cup Keyed /\ KeyOf(s) = r.id
    BY <1>1, <2>1 DEF AskedBy, KeyOf, Reversals, Keyed
  <2>3. s.op = r.op /\ s.id = r.id /\ s.acct = r.acct
    BY <1>6, <2>2, RequestsAssumption DEF KeyOf, Reversals, Keyed
  <2>4. AskedBy(key, r)'
    BY <1>1, <1>6, <2>3 DEF AskedBy
  <2> QED BY <1>6, <2>1, <2>4 DEF Posted, Has, AskedBy
<1>7. CASE r.op = "notify" /\ d.rule = "REPAY01"
  <2>1. key = <<"repay", r.id>>
    BY <1>7 DEF SourceEvent, Prefix, KeyOf, Reversals
  <2>2. s.op = "notify" /\ s.id = r.id /\ book'[key].rule = "REPAY01" /\ book'[key].acct = s.acct
    BY <1>1, <2>1 DEF AskedBy
  <2>3. s.acct = r.acct
    BY <1>7, <2>2, RequestsAssumption DEF KeyOf, Reversals, Keyed
  <2> QED BY <1>7, <2>1, <2>2, <2>3 DEF Posted, Has
<1>8. CASE r.op \in {"create", "accrue", "quote"}
  BY <1>8 DEF Posted
<1> QED BY <1>2, <1>3, <1>4, <1>5, <1>6, <1>7, <1>8 DEF Shaped, Table

\* A waiver names its target by the entry's id, which is no source event: the
\* GL never makes its posting.
LEMMA WaiversAreRefused ==
    ASSUME LasInv, NEW w \in Workers, pc[w] = "post", req[w].op = "waive"
    PROVE  ~Keeps(w)
<1> DEFINE r == req[w]
<1>1. r \in Requests /\ draft[w].rule = "DELINQ02" /\ draft[w].row.entry = EntryId(<<"late-fee", r.id>>)
  <2>1. r \in Requests /\ Plans(w) /\ HoldsRow(w)
    BY DEF LasInv, Where, InFlight
  <2> QED BY <2>1 DEF Plans, HoldsRow, RuleOf, Required
<1>2. Call(w)[1] = <<"raw", r.key>> /\ Call(w)[2].target = <<"entry", <<"late-fee", r.id>>>>
  BY <1>1 DEF Call, SourceEvent, Prefix, KeyOf, Reversals, TargetOf, EntryId
<1>3. <<"raw", r.key>> \notin DOMAIN book
  <2>1. SUFFICES ASSUME NEW s \in Requests, AskedBy(<<"raw", r.key>>, s) PROVE FALSE
    BY DEF LasInv, AtRest, BookIsAsked
  <2>2. s.op \in Reversals \cup Keyed /\ KeyOf(s) = r.key /\ s.op # "waive"
    BY <2>1 DEF AskedBy, KeyOf, Reversals, Keyed
  <2> QED BY <1>1, <2>2, RequestsAssumption DEF KeyOf, Reversals
<1>4. <<"entry", <<"late-fee", r.id>>>> \notin DOMAIN book
  BY DEF LasInv, AtRest, BookIsAsked, AskedBy
<1>5. <<"entry", <<"late-fee", r.id>>>> # None
  BY <1>1, NoneIsNothing DEF EntryId
<1> QED BY <1>2, <1>3, <1>4, <1>5 DEF Keeps, GLAccepts

\* A posting the GL makes is what the handler asked for.
LEMMA PostedAsAsked ==
    ASSUME LasInv, NEW w \in Workers, pc[w] = "post", Keeps(w), UNCHANGED lasdb,
           NEW r, r = req[w], NEW d, d = draft[w]
    PROVE  AtRest' /\ Grows /\ Posted(r, d)'
<1>1. /\ r \in Requests /\ Shaped(r) /\ "post" \in Path[r.op]
      /\ r.op \in DOMAIN RuleOf => d.rule = RuleOf[r.op]
      /\ r.op = "notify" => d.rule \in PaymentRules /\ r.acct \in Accounts
  <2>1. r \in Requests /\ Where(w) /\ Plans(w)
    BY DEF LasInv, Where, InFlight
  <2> QED BY <2>1, RequestsAssumption DEF Where, Plans
<1>2. r.op \in {"confirm", "reverse", "undo", "chargeoff", "delinquency", "modify", "notify", "accrue"}
  BY <1>1, WaiversAreRefused DEF Shaped, Path, Table
<1>3. r.op = "confirm" => /\ <<"disbursement", r.id>> \in DOMAIN rows
                          /\ d.row.acct = rows[<<"disbursement", r.id>>].acct
  <2>1. HoldsRow(w)
    BY DEF LasInv, InFlight
  <2> QED BY <2>1 DEF HoldsRow, RowKey, Table, Required
<1> DEFINE a == IF r.op \in {"confirm", "reverse", "undo"} THEN d.row.acct ELSE r.acct
<1>4. PICK key, p : /\ key = Call(w)[1] /\ p = Call(w)[2]
                    /\ key = SourceEvent(d.rule, r)
                    /\ p.rule = d.rule /\ p.acct = a
                    /\ r.op = "reverse" => p.target = <<"disb", r.id>>
                    /\ r.op = "undo" => p.target = <<"repay", r.id>>
  <2>1. Call(w) = <<SourceEvent(d.rule, r), [rule |-> d.rule, acct |-> AccountOf(w), value |-> d.value,
                                            target |-> TargetOf(w)]>>
    BY DEF Call
  <2>2. AccountOf(w) = a
    BY <1>2 DEF AccountOf, Required
  <2>3. /\ r.op = "reverse" => TargetOf(w) = <<"disb", r.id>>
        /\ r.op = "undo" => TargetOf(w) = <<"repay", r.id>>
    BY <1>1 DEF TargetOf, RuleOf
  <2>4. \E x, y : x = Call(w)[1] /\ y = Call(w)[2]
    OBVIOUS
  <2> QED BY <2>1, <2>2, <2>3, <2>4
<1>5. BookKeeps(key, p) /\ rows' = rows
  BY <1>4, KeepsIsKept DEF lasdb
<1>6. /\ AskedBy(key, r)' \/ key \in DOMAIN book
      /\ key[1] = "disb" => r.op = "confirm" /\ key[2] = r.id
  <2>1. CASE r.op = "confirm"
    BY <2>1, <1>1, <1>4, <1>5 DEF BookKeeps, AskedBy, SourceEvent, RuleOf, Prefix, KeyOf, Reversals
  <2>2. CASE r.op \in {"reverse", "undo"}
    BY <2>2, <1>1, <1>4, <1>5 DEF BookKeeps, AskedBy, SourceEvent, RuleOf, Prefix, KeyOf, Reversals
  <2>3. CASE r.op \in {"chargeoff", "modify", "delinquency", "accrue"}
    BY <2>3, <1>1, <1>4, <1>5 DEF BookKeeps, AskedBy, SourceEvent, RuleOf, Prefix, KeyOf, Reversals
  <2>4. CASE r.op = "notify"
    BY <2>4, <1>1, <1>4, <1>5 DEF BookKeeps, AskedBy, SourceEvent, Prefix, KeyOf, Reversals, PaymentRules, Lump
  <2> QED BY <1>2, <2>1, <2>2, <2>3, <2>4
<1>7. BookIsAsked'
  <2>1. SUFFICES ASSUME NEW k \in DOMAIN book'
                 PROVE  /\ \E s \in Requests : AskedBy(k, s)'
                        /\ k[1] = "disb" => /\ <<"disbursement", k[2]>> \in DOMAIN rows
                                            /\ book'[k].acct = rows[<<"disbursement", k[2]>>].acct
    BY <1>5 DEF BookIsAsked
  <2>2. CASE k \in DOMAIN book
    <3>1. PICK s \in Requests : AskedBy(k, s)
      BY <2>2 DEF LasInv, AtRest, BookIsAsked
    <3>2. book'[k] = book[k]
      BY <1>5, <2>2 DEF BookKeeps
    <3>3. AskedBy(k, s)'
      BY <3>1, <3>2 DEF AskedBy
    <3> QED BY <2>2, <3>2, <3>3 DEF LasInv, AtRest, BookIsAsked
  <2>3. CASE k \notin DOMAIN book
    <3>1. k = key /\ book'[k] = p
      BY <1>5, <2>3 DEF BookKeeps
    <3> QED BY <1>1, <1>3, <1>4, <1>6, <2>3, <3>1
  <2> QED BY <2>2, <2>3
<1>8. AtRest' /\ Grows
  BY <1>5, <1>7, BookGrows DEF BookKeeps
<1>9. Posted(r, d)'
  BY <1>1, <1>2, <1>3, <1>4, <1>5, <1>7, PostingIsItsOwn DEF BookKeeps
<1> QED BY <1>8, <1>9

LEMMA CorrectedAsAsked ==
    ASSUME LasInv, NEW w \in Workers, pc[w] = "correct", Keeps(w), UNCHANGED lasdb,
           NEW r, r = req[w]
    PROVE  AtRest' /\ Grows /\ \E a \in CorrectedTo(r.id) : Has(<<"correction", r.id>>, {"REPAY01"}, a)'
<1>1. r \in Requests /\ r.op = "undo" /\ r.to # None
  <2>1. r \in Requests /\ Where(w) /\ Corrected(w)
    BY DEF LasInv, Where, InFlight
  <2> QED BY <2>1, RequestsAssumption DEF Where, Corrected, Path, Shaped, Table
<1>2. PICK key, p : /\ key = Call(w)[1] /\ p = Call(w)[2] /\ key = <<"correction", r.id>>
                    /\ p.rule = "REPAY01" /\ p.acct = r.to
  <2>1. Call(w) = <<<<"correction", r.id>>, [rule |-> "REPAY01", acct |-> r.to, value |-> draft[w].value,
                                            target |-> None]>>
    BY DEF Call
  <2>2. \E x, y : x = Call(w)[1] /\ y = Call(w)[2]
    OBVIOUS
  <2> QED BY <2>1, <2>2
<1>3. BookKeeps(key, p) /\ rows' = rows
  BY <1>2, KeepsIsKept DEF lasdb
<1>4. AskedBy(key, r)' \/ key \in DOMAIN book
  BY <1>1, <1>2, <1>3 DEF BookKeeps, AskedBy
<1>5. BookIsAsked'
  <2>1. SUFFICES ASSUME NEW k \in DOMAIN book'
                 PROVE  /\ \E s \in Requests : AskedBy(k, s)'
                        /\ k[1] = "disb" => /\ <<"disbursement", k[2]>> \in DOMAIN rows
                                            /\ book'[k].acct = rows[<<"disbursement", k[2]>>].acct
    BY <1>3 DEF BookIsAsked
  <2>2. CASE k \in DOMAIN book
    <3>1. PICK s \in Requests : AskedBy(k, s)
      BY <2>2 DEF LasInv, AtRest, BookIsAsked
    <3>2. book'[k] = book[k]
      BY <1>3, <2>2 DEF BookKeeps
    <3>3. AskedBy(k, s)'
      BY <3>1, <3>2 DEF AskedBy
    <3> QED BY <2>2, <3>2, <3>3 DEF LasInv, AtRest, BookIsAsked
  <2>3. CASE k \notin DOMAIN book
    BY <1>1, <1>2, <1>3, <1>4, <2>3 DEF BookKeeps
  <2> QED BY <2>2, <2>3
<1>6. AtRest' /\ Grows
  BY <1>3, <1>5, BookGrows DEF BookKeeps
<1>7. PICK s \in Requests : AskedBy(key, s)'
  BY <1>3, <1>5 DEF BookKeeps, BookIsAsked
<1>8. s.op = "undo" /\ s.id = r.id /\ s.to # None /\ book'[key].rule = "REPAY01" /\ book'[key].acct = s.to
  BY <1>2, <1>7 DEF AskedBy
<1>9. s.to \in CorrectedTo(r.id)
  BY <1>8 DEF CorrectedTo
<1> QED BY <1>2, <1>3, <1>6, <1>8, <1>9 DEF BookKeeps, Has

LEMMA StillHolds ==
    ASSUME LasInv, NEW w \in Workers, Grows, pc[w] \notin {"idle", "account"}, req'[w] = req[w], draft'[w] = draft[w]
    PROVE  HoldsRow(w)' /\ HoldsAccount(w)'
<1>1. InFlight(w) /\ HoldsRow(w) /\ HoldsAccount(w)
  BY DEF LasInv, InFlight
<1>2. HoldsRow(w)'
  <2>1. CASE req[w].op = "confirm"
    BY <1>1, <2>1 DEF HoldsRow, Grows, RowKey, Required, Table
  <2>2. CASE req[w].op = "reverse"
    BY <1>1, <2>2 DEF HoldsRow, Grows, RowKey, Required, Table, Has
  <2>3. CASE req[w].op = "undo"
    BY <1>1, <2>3, HasGrows, CorrectsGrows DEF HoldsRow, Grows, RowKey, Required, Table
  <2>4. CASE req[w].op = "waive"
    BY <1>1, <2>4 DEF HoldsRow, Grows, RowKey, Required, Table
  <2> QED BY <2>1, <2>2, <2>3, <2>4 DEF HoldsRow, Required
<1>3. HoldsAccount(w)'
  BY <1>1 DEF HoldsAccount, AccountOf, IsPayoff, Grows, Stands, PostedOn
<1> QED BY <1>2, <1>3

LEMMA PostToGLKeeps ==
    ASSUME LasInv, NEW w \in Workers, PostToGL(w)
    PROVE  LasInv'
<1> DEFINE step == StepAfterPosting(w)
<1>1. /\ Keeps(w) /\ UNCHANGED lasdb /\ pc[w] \in {"post", "correct"}
      /\ Release(w) \/ (req[w].op # "accrue" /\ Goto(w, step) /\ UNCHANGED <<req, draft>>)
  BY DEF PostToGL, Calling, At
<1>2. PICK r, d : r = req[w] /\ d = draft[w]
  OBVIOUS
<1>3. /\ AtRest' /\ Grows
      /\ pc[w] = "post" => Posted(r, d)'
      /\ pc[w] = "correct" => \E a \in CorrectedTo(r.id) : Has(<<"correction", r.id>>, {"REPAY01"}, a)'
  BY <1>1, <1>2, PostedAsAsked, CorrectedAsAsked
<1>4. CASE Release(w)
  BY <1>3, <1>4, Released, StepIsSound
<1>5. CASE ~Release(w)
  <2>1. /\ r \in Requests /\ Shaped(r) /\ pc[w] \in Path[r.op] /\ Plans(w) /\ Corrected(w)
        /\ NeedsPosting(w) => Posted(r, d)
    BY <1>1, <1>2, RequestsAssumption DEF LasInv, Where, InFlight
  <2>2. r.op \in {"confirm", "reverse", "undo", "chargeoff", "delinquency", "modify", "notify"}
    BY <1>1, <1>2, <1>5, <2>1, WaiversAreRefused DEF Shaped, Path, Table
  <2>3. PICK s : s = step
    OBVIOUS
  <2>4. /\ s \in Path[r.op] /\ s \in {"savecorrection", "correct", "savefee", "commit"}
        /\ s = "correct" => pc[w] = "post" /\ r.op = "undo" /\ r.to # None
        /\ s = "savecorrection" <=> pc[w] = "correct"
        /\ s = "savefee" <=> r.op = "delinquency"
        /\ s = "commit" /\ r.op = "undo" => r.to = None
        /\ pc[w] = "correct" => r.op = "undo"
    BY <1>1, <1>2, <2>1, <2>2, <2>3 DEF StepAfterPosting, Path
  <2>5. OthersStay(w) /\ Manned' /\ Where(w)' /\ pc'[w] = s /\ req' = req /\ draft' = draft
    BY <1>1, <1>2, <1>5, <2>3, <2>4, GoesOn DEF LasInv, Manned, Steps
  <2>6. Posted(r, d)'
    <3>1. CASE pc[w] = "correct"
      <4>1. Posted(r, d) /\ r.op = "undo"
        BY <2>1, <2>4, <3>1 DEF NeedsPosting
      <4> QED BY <1>3, <4>1 DEF Posted, Undone, Grows
    <3> QED BY <1>1, <1>3, <3>1
  <2>7. HoldsRow(w)' /\ HoldsAccount(w)'
    BY <1>1, <1>3, <2>5, StillHolds
  <2>8. Plans(w)' /\ Corrected(w)'
    BY <1>1, <1>2, <1>3, <2>1, <2>4, <2>5 DEF Plans, Corrected
  <2> QED BY <1>2, <1>3, <2>5, <2>6, <2>7, <2>8, StepIsSound DEF InFlight
<1> QED BY <1>4, <1>5

LEMMA AnswerLostKeeps ==
    ASSUME LasInv, NEW w \in Workers, AnswerLost(w)
    PROVE  LasInv'
<1>1. Keeps(w) /\ UNCHANGED lasdb /\ pc[w] \in {"post", "correct"} /\ Release(w)
  BY DEF AnswerLost, Calling, At
<1>2. PICK r, d : r = req[w] /\ d = draft[w]
  OBVIOUS
<1>3. AtRest' /\ Grows
  BY <1>1, <1>2, PostedAsAsked, CorrectedAsAsked
<1> QED BY <1>1, <1>3, Released, StepIsSound
-----------------------------------------------------------------------------
(* The rows that are saved.                                                *)

KeptRow(k) ==
    /\ k[1] = "disbursement" => rows[k].acct \in Accounts /\ AskedFor("create", k[2], rows[k].acct)
    /\ k[1] = "modification" => AskedFor("modify", k[2], rows[k].acct)
    /\ k[1] = "chargeoff" => \E r \in Requests : r.op = "chargeoff" /\ r.id = k[2] /\ r.acct = rows[k].acct
    /\ k[1] = "fee" => rows[k].entry = EntryId(<<"late-fee", k[2]>>)

Announced(k) ==
    /\ k[1] = "disbursement" /\ rows[k].status \in {"Disbursed", "ReversalPending", "Reversed"} =>
           <<"disbursed", k[2]>> \in outbox
    /\ k[1] = "payoff" => <<"closed", k[2]>> \in outbox
    /\ k[1] = "chargeoff" /\ rows[k].status = "ChargedOff" => <<"chargedoff", k[2]>> \in outbox

GoodRow(k) ==
    /\ k[1] \in Tables /\ RowFields \subseteq DOMAIN rows[k]
    /\ KeptRow(k) /\ Announced(k) /\ Founded(k)

LEMMA RowsAreGood ==
    ASSUME LasInv, NEW k \in DOMAIN rows
    PROVE  GoodRow(k)
BY DEF LasInv, AtRest, Tabled, RowsKeep, RowsAreBehindTheBook, SettledIsAnnounced, GoodRow, KeptRow, Announced

\* Rows saved well leave good tables.
LEMMA RowsSaved ==
    ASSUME NEW K, LasInv, UNCHANGED book, outbox \subseteq outbox',
           DOMAIN rows' = DOMAIN rows \cup K,
           \A x \in DOMAIN rows \ K : rows'[x] = rows[x],
           \A x \in K : /\ GoodRow(x)'
                        /\ x \in DOMAIN rows /\ x[1] = "disbursement" => rows'[x].acct = rows[x].acct
    PROVE  /\ BookIsAsked' /\ RowsKeep' /\ RowsAreBehindTheBook' /\ SettledIsAnnounced' /\ Grows
           /\ \A k \in DOMAIN rows' : k[1] \in Tables /\ RowFields \subseteq DOMAIN rows'[k]
<1>1. Grows
  BY DEF Grows
<1>2. ASSUME NEW k \in DOMAIN rows' PROVE GoodRow(k)'
  <2>1. CASE k \in K
    BY <2>1
  <2>2. CASE k \notin K
    <3>1. GoodRow(k) /\ rows'[k] = rows[k]
      BY <1>2, <2>2, RowsAreGood
    <3>2. Founded(k)'
      BY <3>1, FoundedStays DEF GoodRow
    <3> QED BY <3>1, <3>2 DEF GoodRow, KeptRow, Announced
  <2> QED BY <2>1, <2>2
<1>3. RowsKeep' /\ RowsAreBehindTheBook' /\ SettledIsAnnounced'
  BY <1>2 DEF RowsKeep, RowsAreBehindTheBook, SettledIsAnnounced, GoodRow, KeptRow, Announced
<1>4. \A k \in DOMAIN rows' : k[1] \in Tables /\ RowFields \subseteq DOMAIN rows'[k]
  BY <1>2 DEF GoodRow
<1>5. BookIsAsked'
  <2>1. SUFFICES ASSUME NEW k \in DOMAIN book
                 PROVE  /\ \E r \in Requests : AskedBy(k, r)'
                        /\ k[1] = "disb" => /\ <<"disbursement", k[2]>> \in DOMAIN rows'
                                            /\ book[k].acct = rows'[<<"disbursement", k[2]>>].acct
    BY DEF BookIsAsked
  <2>2. \E r \in Requests : AskedBy(k, r)
    BY DEF LasInv, AtRest, BookIsAsked
  <2>3. k[1] = "disb" => /\ <<"disbursement", k[2]>> \in DOMAIN rows
                         /\ book[k].acct = rows[<<"disbursement", k[2]>>].acct
    BY DEF LasInv, AtRest, BookIsAsked
  <2> QED BY <1>1, <2>2, <2>3 DEF Grows, AskedBy
<1> QED BY <1>1, <1>3, <1>4, <1>5

\* What an upsert of one row into f leaves.
Saves(f, k, row) ==
    /\ DOMAIN rows' = DOMAIN f \cup {k}
    /\ \A x \in DOMAIN f \ {k} : rows'[x] = f[x]
    /\ RowFields \subseteq DOMAIN rows'[k]
    /\ rows'[k].status = row.status /\ rows'[k].entry = row.entry
    /\ rows'[k].acct = IF k \notin DOMAIN f \/ k[1] = "repayment" THEN row.acct ELSE f[k].acct
    /\ rows'[k].value = IF k \notin DOMAIN f \/ k[1] \in {"repayment", "payoff"} THEN row.value ELSE f[k].value

LEMMA Upserted ==
    ASSUME NEW f, NEW k, NEW row, RowFields \subseteq DOMAIN row, rows' = Upsert(f, k, row),
           k \in DOMAIN f => RowFields \subseteq DOMAIN f[k]
    PROVE  Saves(f, k, row)
<1> DEFINE new == IF k \notin DOMAIN f \/ k[1] = "repayment" THEN row
                  ELSE [row EXCEPT !.acct = f[k].acct, !.value = IF k[1] = "payoff" THEN @ ELSE f[k].value]
<1>1. rows' = Insert(f, k, new)
  BY DEF Upsert
<1>2. /\ RowFields \subseteq DOMAIN new
      /\ new.status = row.status /\ new.entry = row.entry
      /\ new.acct = IF k \notin DOMAIN f \/ k[1] = "repayment" THEN row.acct ELSE f[k].acct
      /\ new.value = IF k \notin DOMAIN f \/ k[1] \in {"repayment", "payoff"} THEN row.value ELSE f[k].value
  BY DEF RowFields
<1> HIDE DEF new
<1>3. /\ DOMAIN rows' = DOMAIN f \cup {k}
      /\ \A x \in DOMAIN f \ {k} : rows'[x] = f[x]
      /\ rows'[k] = new
  BY <1>1 DEF Insert
<1> QED BY <1>2, <1>3 DEF Saves

LEMMA RowUpserted ==
    ASSUME NEW k, NEW row, LasInv, RowFields \subseteq DOMAIN row, rows' = Upsert(rows, k, row)
    PROVE  Saves(rows, k, row)
<1>1. k \in DOMAIN rows => RowFields \subseteq DOMAIN rows[k]
  BY DEF LasInv, AtRest, Tabled
<1> QED BY <1>1, Upserted

\* A row saved between two steps of a handler: accounts and events are as before.
LEMMA RowSavedBetween ==
    ASSUME NEW k, NEW row, LasInv, UNCHANGED <<account, outbox, book>>, RowFields \subseteq DOMAIN row,
           rows' = Upsert(rows, k, row),
           GoodRow(k)', k \in DOMAIN rows /\ k[1] = "disbursement" => rows'[k].acct = rows[k].acct
    PROVE  AtRest' /\ Grows
<1>1. DOMAIN rows' = DOMAIN rows \cup {k} /\ \A x \in DOMAIN rows \ {k} : rows'[x] = rows[x]
  BY RowUpserted DEF Saves
<1>2. /\ BookIsAsked' /\ RowsKeep' /\ RowsAreBehindTheBook' /\ SettledIsAnnounced' /\ Grows
      /\ \A x \in DOMAIN rows' : x[1] \in Tables /\ RowFields \subseteq DOMAIN rows'[x]
  <2>1. PICK K : K = {k}
    OBVIOUS
  <2>2. DOMAIN rows' = DOMAIN rows \cup K /\ \A x \in DOMAIN rows \ K : rows'[x] = rows[x]
    BY <1>1, <2>1
  <2>3. \A x \in K : /\ GoodRow(x)'
                     /\ x \in DOMAIN rows /\ x[1] = "disbursement" => rows'[x].acct = rows[x].acct
    BY <2>1
  <2> QED BY <2>2, <2>3, RowsSaved
<1>3. Tabled'
  BY <1>2 DEF LasInv, AtRest, Tabled
<1>4. EventsAreBehindTheBook'
  BY DEF LasInv, AtRest, EventsAreBehindTheBook, Has, PostingOf
<1>5. StatusIsBehindTheBook'
  BY DEF LasInv, AtRest, StatusIsBehindTheBook, PostedOn
<1> QED BY <1>2, <1>3, <1>4, <1>5 DEF AtRest

LEMMA SavePendingKeeps ==
    ASSUME LasInv, NEW w \in Workers, SavePending(w)
    PROVE  LasInv'
<1>1. PICK r, d, k : r = req[w] /\ d = draft[w] /\ k = RowKey(r)
  OBVIOUS
<1> DEFINE row == IF r.op = "chargeoff" THEN Row("PendingChargeOff", r.acct, d.value, None)
                  ELSE [d.row EXCEPT !.status = Pending[r.op]]
<1>2. /\ r \in Requests /\ Shaped(r) /\ pc[w] = "pending" /\ "pending" \in Path[r.op]
      /\ Plans(w) /\ HoldsRow(w)
  BY <1>1, RequestsAssumption DEF SavePending, At, LasInv, Where, InFlight
<1>3. r.op \in {"reverse", "undo", "chargeoff", "waive"}
  BY <1>2 DEF Shaped, Path, Table
<1>4. /\ rows' = Upsert(rows, k, row) /\ UNCHANGED <<account, outbox, book, req, draft>>
      /\ Goto(w, "post")
  BY <1>1 DEF SavePending
<1>5. /\ r.op # "chargeoff" => RowFields \subseteq DOMAIN d.row /\ k \in DOMAIN rows
      /\ RowFields \subseteq DOMAIN row
      /\ row.status = CASE r.op = "chargeoff" -> "PendingChargeOff"
                        [] r.op = "waive" -> "WaivePending"
                        [] OTHER -> "ReversalPending"
      /\ row.acct = IF r.op = "chargeoff" THEN r.acct ELSE d.row.acct
      /\ row.entry = IF r.op = "chargeoff" THEN None ELSE d.row.entry
  BY <1>1, <1>2, <1>3 DEF HoldsRow, Required, Row, RowFields, Pending
<1>6. k \in DOMAIN rows => GoodRow(k) /\ RowFields \subseteq DOMAIN rows[k]
  BY RowsAreGood DEF GoodRow
<1> HIDE DEF row
<1>7. /\ k \in DOMAIN rows'
      /\ RowFields \subseteq DOMAIN rows'[k]
      /\ rows'[k].status = row.status /\ rows'[k].entry = row.entry
      /\ rows'[k].acct = IF k \notin DOMAIN rows \/ k[1] = "repayment" THEN row.acct ELSE rows[k].acct
  <2>1. Saves(rows, k, row)
    BY <1>4, <1>5, RowUpserted
  <2> QED BY <2>1 DEF Saves
<1>8. GoodRow(k)' /\ (k \in DOMAIN rows /\ k[1] = "disbursement" => rows'[k].acct = rows[k].acct)
  <2>1. CASE r.op = "reverse"
    <3>1. k = <<"disbursement", r.id>> /\ k \in DOMAIN rows
      BY <1>1, <1>5, <2>1 DEF RowKey, Table
    <3>2. /\ rows'[k].status = "ReversalPending" /\ rows'[k].acct = rows[k].acct
      BY <1>5, <1>7, <2>1, <3>1
    <3>3. Has(<<"disb", r.id>>, {"DISB01"}, rows[k].acct) /\ <<"disbursed", r.id>> \in outbox
      BY <1>1, <1>2, <2>1 DEF HoldsRow, Required
    <3>4. Founded(k)'
      BY <1>4, <3>1, <3>2, <3>3 DEF Founded, Has
    <3> QED BY <1>4, <1>6, <1>7, <3>1, <3>2, <3>3, <3>4 DEF GoodRow, KeptRow, Announced
  <2>2. CASE r.op = "undo"
    <3>1. k = <<"repayment", r.id>> /\ k \in DOMAIN rows
      BY <1>1, <1>5, <2>2 DEF RowKey, Table
    <3>2. /\ rows'[k].status = "ReversalPending" /\ rows'[k].acct = d.row.acct
      BY <1>5, <1>7, <2>2, <3>1
    <3>3. Has(<<"repay", r.id>>, {"REPAY01"}, d.row.acct) \/ Corrects(r.id, d.row.acct)
      BY <1>1, <1>2, <2>2 DEF HoldsRow, Required
    <3>4. Founded(k)'
      BY <1>4, <3>1, <3>2, <3>3, CorrectsStays DEF Founded, Has
    <3> QED BY <1>6, <1>7, <3>1, <3>4 DEF GoodRow, KeptRow, Announced
  <2>3. CASE r.op = "chargeoff"
    <3>1. k = <<"chargeoff", r.id>>
      BY <1>1, <2>3 DEF RowKey, Table
    <3>2. /\ rows'[k].status = "PendingChargeOff"
          /\ rows'[k].acct = IF k \in DOMAIN rows THEN rows[k].acct ELSE r.acct
      BY <1>5, <1>7, <2>3, <3>1
    <3>3. KeptRow(k)'
      BY <1>2, <1>6, <2>3, <3>1, <3>2 DEF GoodRow, KeptRow
    <3> QED BY <1>7, <3>1, <3>2, <3>3 DEF GoodRow, Announced, Founded, Tables
  <2>4. CASE r.op = "waive"
    <3>1. k = <<"fee", r.id>> /\ k \in DOMAIN rows
      BY <1>1, <1>5, <2>4 DEF RowKey, Table
    <3>2. /\ rows'[k].status = "WaivePending" /\ rows'[k].acct = rows[k].acct
          /\ rows'[k].entry = d.row.entry
      BY <1>5, <1>7, <2>4, <3>1
    <3>3. d.row.entry = EntryId(<<"late-fee", r.id>>)
      BY <1>1, <1>2, <2>4 DEF HoldsRow, Required
    <3>4. Founded(k)'
      BY <1>4, <1>6, <3>1, <3>2 DEF GoodRow, Founded, Has
    <3> QED BY <1>6, <1>7, <3>1, <3>2, <3>3, <3>4 DEF GoodRow, KeptRow, Announced
  <2> QED BY <1>3, <2>1, <2>2, <2>3, <2>4
<1>9. AtRest' /\ Grows
  BY <1>4, <1>5, <1>8, RowSavedBetween
<1>10. OthersStay(w) /\ Manned' /\ Where(w)' /\ pc'[w] = "post"
  BY <1>1, <1>2, <1>3, <1>4, GoesOn DEF Steps, Path, LasInv, Manned
<1>11. HoldsRow(w)' /\ HoldsAccount(w)'
  BY <1>2, <1>4, <1>9, StillHolds
<1>12. Plans(w)' /\ Corrected(w)' /\ ~NeedsPosting(w)'
  BY <1>1, <1>2, <1>3, <1>4, <1>10 DEF Plans, Corrected, NeedsPosting
<1> QED BY <1>9, <1>10, <1>11, <1>12, StepIsSound DEF InFlight

LEMMA SaveFeeKeeps ==
    ASSUME LasInv, NEW w \in Workers, SaveFee(w)
    PROVE  LasInv'
<1>1. PICK r, d, k : r = req[w] /\ d = draft[w] /\ k = RowKey(r)
  OBVIOUS
<1>2. PICK row : row = Row("Assessed", r.acct, d.value, EntryId(<<"late-fee", r.id>>))
  OBVIOUS
<1>3. /\ r \in Requests /\ Shaped(r) /\ pc[w] = "savefee" /\ "savefee" \in Path[r.op]
      /\ Plans(w) /\ NeedsPosting(w) /\ Posted(r, d)
  BY <1>1, RequestsAssumption DEF SaveFee, At, LasInv, Where, InFlight, NeedsPosting
<1>4. r.op = "delinquency" /\ Has(<<"late-fee", r.id>>, {"DELINQ01"}, r.acct)
  BY <1>3 DEF Shaped, Path, Table, Posted
<1>5. /\ rows' = Upsert(rows, k, row) /\ UNCHANGED <<account, outbox, book, req, draft>>
      /\ Goto(w, "commit")
  BY <1>1, <1>2 DEF SaveFee
<1>6. /\ RowFields \subseteq DOMAIN row /\ row.status = "Assessed" /\ row.acct = r.acct
      /\ row.entry = EntryId(<<"late-fee", r.id>>)
  BY <1>2 DEF Row, RowFields
<1>7. k = <<"fee", r.id>>
  BY <1>1, <1>4 DEF RowKey, Table
<1>8. k \in DOMAIN rows => GoodRow(k) /\ RowFields \subseteq DOMAIN rows[k]
  BY RowsAreGood DEF GoodRow
<1>9. /\ RowFields \subseteq DOMAIN rows'[k]
      /\ rows'[k].status = "Assessed" /\ rows'[k].entry = row.entry
      /\ rows'[k].acct = IF k \notin DOMAIN rows THEN r.acct ELSE rows[k].acct
  <2>1. RowFields \subseteq DOMAIN row /\ rows' = Upsert(rows, k, row) /\ k[1] # "repayment"
    BY <1>5, <1>6, <1>7
  <2>2. /\ RowFields \subseteq DOMAIN rows'[k]
        /\ rows'[k].status = row.status /\ rows'[k].entry = row.entry
        /\ rows'[k].acct = IF k \notin DOMAIN rows \/ k[1] = "repayment" THEN row.acct ELSE rows[k].acct
    BY <2>1, RowUpserted DEF Saves
  <2> QED BY <1>6, <2>1, <2>2
<1>10. Founded(k)'
  BY <1>4, <1>5, <1>7, <1>8, <1>9 DEF GoodRow, Founded, Has
<1>11. GoodRow(k)'
  BY <1>6, <1>7, <1>9, <1>10 DEF GoodRow, KeptRow, Announced, Tables
<1>12. AtRest' /\ Grows
  BY <1>5, <1>6, <1>7, <1>11, RowSavedBetween
<1>13. OthersStay(w) /\ Manned' /\ Where(w)' /\ pc'[w] = "commit"
  BY <1>1, <1>3, <1>4, <1>5, GoesOn DEF Steps, Path, LasInv, Manned
<1>14. HoldsRow(w)' /\ HoldsAccount(w)'
  BY <1>3, <1>5, <1>12, StillHolds
<1>15. Plans(w)' /\ Corrected(w)' /\ ~NeedsPosting(w)'
  BY <1>1, <1>3, <1>4, <1>5, <1>13 DEF Plans, Corrected, NeedsPosting
<1> QED BY <1>12, <1>13, <1>14, <1>15, StepIsSound DEF InFlight

LEMMA SaveCorrectionKeeps ==
    ASSUME LasInv, NEW w \in Workers, SaveCorrection(w)
    PROVE  LasInv'
<1>1. PICK r, d, k : r = req[w] /\ d = draft[w] /\ k = <<"repayment", <<"correction", r.id>>>>
  OBVIOUS
<1>2. PICK row : row = Row("Posted", r.to, d.value, EntryId(<<"correction", r.id>>))
  OBVIOUS
<1>3. /\ r \in Requests /\ Shaped(r) /\ pc[w] = "savecorrection" /\ "savecorrection" \in Path[r.op]
      /\ Plans(w) /\ Corrected(w) /\ Posted(r, d)
  BY <1>1, RequestsAssumption DEF SaveCorrection, At, LasInv, Where, InFlight, NeedsPosting
<1>4. /\ r.op = "undo" /\ r.to # None
      /\ \E a \in CorrectedTo(r.id) : Has(<<"correction", r.id>>, {"REPAY01"}, a)
  BY <1>1, <1>3 DEF Shaped, Path, Table, Corrected
<1>5. /\ rows' = Upsert(rows, k, row) /\ UNCHANGED <<account, outbox, book, req, draft>>
      /\ Goto(w, "commit")
  BY <1>1, <1>2 DEF SaveCorrection
<1>6. RowFields \subseteq DOMAIN row /\ row.status = "Posted" /\ row.acct = r.to
  BY <1>2 DEF Row, RowFields
<1>7. k \in DOMAIN rows => RowFields \subseteq DOMAIN rows[k]
  BY RowsAreGood DEF GoodRow
<1>8. RowFields \subseteq DOMAIN rows'[k] /\ rows'[k].status = "Posted" /\ rows'[k].acct = r.to
  <2>1. RowFields \subseteq DOMAIN row /\ rows' = Upsert(rows, k, row) /\ k[1] = "repayment"
    BY <1>1, <1>5, <1>6
  <2>2. /\ RowFields \subseteq DOMAIN rows'[k]
        /\ rows'[k].status = row.status
        /\ rows'[k].acct = IF k \notin DOMAIN rows \/ k[1] = "repayment" THEN row.acct ELSE rows[k].acct
    BY <2>1, RowUpserted DEF Saves
  <2> QED BY <1>6, <2>1, <2>2
<1>9. Founded(k)'
  <2>1. r.to \in CorrectedTo(r.id)
    BY <1>3, <1>4 DEF CorrectedTo
  <2>2. Corrects(<<"correction", r.id>>, r.to)
    BY <1>3, <1>4, <2>1 DEF Corrects
  <2>3. Corrects(<<"correction", r.id>>, r.to)'
    BY <1>5, <2>2, CorrectsStays
  <2> QED BY <1>1, <1>8, <2>3 DEF Founded
<1>10. GoodRow(k)'
  BY <1>1, <1>8, <1>9 DEF GoodRow, KeptRow, Announced, Tables
<1>11. AtRest' /\ Grows
  BY <1>1, <1>5, <1>6, <1>10, RowSavedBetween
<1>12. OthersStay(w) /\ Manned' /\ Where(w)' /\ pc'[w] = "commit"
  BY <1>1, <1>3, <1>4, <1>5, GoesOn DEF Steps, Path, LasInv, Manned
<1>13. HoldsRow(w)' /\ HoldsAccount(w)'
  BY <1>3, <1>5, <1>11, StillHolds
<1>14. Plans(w)' /\ Corrected(w)' /\ Posted(req[w], draft[w])'
  <2>1. Plans(w)' /\ Corrected(w)'
    BY <1>1, <1>3, <1>4, <1>5, <1>12 DEF Plans, Corrected, Has
  <2>2. Posted(req[w], draft[w])'
    BY <1>1, <1>3, <1>4, <1>5 DEF Posted, Undone
  <2> QED BY <2>1, <2>2
<1> QED BY <1>11, <1>12, <1>13, <1>14, StepIsSound DEF InFlight
-----------------------------------------------------------------------------
(* The last transaction.                                                   *)

\* What a handler that commits knows.
LEMMA AtCommit ==
    ASSUME LasInv, NEW w \in Workers, pc[w] = "commit", NEW r, r = req[w], NEW d, d = draft[w]
    PROVE  /\ r \in Requests /\ Shaped(r) /\ r.op \in Ops \ {"waive", "accrue", "quote"}
           /\ Plans(w) /\ HoldsRow(w) /\ HoldsAccount(w) /\ Corrected(w)
           /\ r.op \in {"create", "confirm", "reverse", "undo", "chargeoff"} => Posted(r, d)
           /\ r.op = "modify" /\ r.capital # Nothing => Posted(r, d)
           /\ r.op = "notify" /\ d.rule # None => Posted(r, d) /\ d.rule \in PaymentRules /\ r.acct \in Accounts
<1>1. /\ r \in Requests /\ Shaped(r) /\ "commit" \in Path[r.op]
      /\ Plans(w) /\ HoldsRow(w) /\ HoldsAccount(w) /\ Corrected(w)
      /\ NeedsPosting(w) => Posted(r, d)
  BY RequestsAssumption DEF LasInv, Where, InFlight
<1>2. r.op \in Ops \ {"waive", "accrue", "quote"}
  BY <1>1 DEF Shaped, Path, Ops, Table
<1>3. r.op = "notify" /\ d.rule # None => d.rule \in PaymentRules /\ r.acct \in Accounts
  BY <1>1 DEF Plans
<1> QED BY <1>1, <1>2, <1>3 DEF NeedsPosting

LEMMA CommitSavesTheAccount ==
    ASSUME LasInv, NEW w \in Workers, pc[w] = "commit", book' = book,
           account' = IF SavesAccount(w) THEN [account EXCEPT ![AccountOf(w)] = SavedAccount(w)] ELSE account
    PROVE  account' \in [Accounts -> AccountRows] /\ StatusIsBehindTheBook'
<1>1. PICK r, d, a, s : r = req[w] /\ d = draft[w] /\ a = AccountOf(w) /\ s = SavedAccount(w)
  OBVIOUS
<1>2. account \in [Accounts -> AccountRows] /\ StatusIsBehindTheBook
  BY DEF LasInv, AtRest, Tabled
<1>3. CASE ~SavesAccount(w)
  BY <1>2, <1>3 DEF StatusIsBehindTheBook, PostedOn
<1>4. CASE SavesAccount(w)
  <2>1. /\ r.op \in Ops \ {"waive", "accrue", "quote"} /\ Shaped(r) /\ HoldsAccount(w)
        /\ r.op \in {"confirm", "chargeoff"} => Posted(r, d)
    BY <1>1, AtCommit
  <2>2. /\ a \in Accounts /\ d.account \in AccountRows /\ Stands(d.account.status, a)
        /\ r.op = "chargeoff" \/ IsPayoff(w) => d.account.status = "Disbursed"
    BY <1>1, <1>4, <2>1 DEF HoldsAccount, SavesAccount
  <2>3. s \in AccountRows /\ Stands(s.status, a)
    <3>1. CASE r.op \in {"create", "reverse"}
      <4>1. s \in AccountRows /\ s.status \in {"PendingDisbursement", "Approved"}
        BY <1>1, <2>2, <3>1 DEF SavedAccount, IsPayoff, Into, AccountRows, Statuses
      <4> QED BY <4>1 DEF Stands
    <3>2. CASE r.op = "confirm"
      <4>1. s \in AccountRows /\ s.status = "Disbursed"
        BY <1>1, <2>2, <3>2 DEF SavedAccount, IsPayoff, Into, AccountRows, Statuses
      <4>2. PostedOn(a, "DISB01")
        BY <1>1, <2>1, <3>2 DEF Posted, Has, PostedOn, AccountOf, Required
      <4> QED BY <4>1, <4>2 DEF Stands
    <3>3. CASE r.op = "chargeoff"
      <4>1. s \in AccountRows /\ s.status = "ChargedOff"
        BY <1>1, <2>2, <3>3 DEF SavedAccount, IsPayoff, Into, AccountRows, Statuses
      <4>2. PostedOn(a, "CHGOFF01")
        BY <1>1, <2>1, <3>3 DEF Posted, Has, PostedOn, AccountOf, Required
      <4> QED BY <2>2, <3>3, <4>1, <4>2 DEF Stands
    <3>4. CASE r.op = "delinquency"
      <4>1. s \in AccountRows /\ s.status = d.account.status
        BY <1>1, <2>1, <2>2, <3>4 DEF SavedAccount, IsPayoff, Into, AccountRows, Shaped
      <4> QED BY <2>2, <4>1
    <3>5. CASE r.op = "modify"
      BY <1>1, <2>2, <3>5 DEF SavedAccount, IsPayoff, Into
    <3>6. CASE r.op = "notify"
      <4>1. IsPayoff(w)
        BY <1>1, <1>4, <3>6 DEF SavesAccount, Into
      <4>2. s \in AccountRows /\ s.status = "Closed"
        BY <1>1, <2>2, <3>6, <4>1 DEF SavedAccount, IsPayoff, Into, AccountRows, Statuses
      <4> QED BY <2>2, <4>1, <4>2 DEF Stands
    <3>7. r.op # "undo"
      BY <1>1, <1>4 DEF SavesAccount, Into, IsPayoff
    <3> QED BY <2>1, <3>1, <3>2, <3>3, <3>4, <3>5, <3>6, <3>7 DEF Ops
  <2>4. account' = [account EXCEPT ![a] = s]
    BY <1>1, <1>4
  <2>5. account' \in [Accounts -> AccountRows]
    BY <1>2, <2>3, <2>4
  <2>6. ASSUME NEW x \in Accounts PROVE Stands(account'[x].status, x)
    <3>1. Stands(account[x].status, x)
      BY <1>2 DEF StatusIsBehindTheBook, Stands
    <3> QED BY <1>2, <2>2, <2>3, <2>4, <3>1
  <2> QED BY <2>5, <2>6 DEF StatusIsBehindTheBook, Stands, PostedOn
<1> QED BY <1>3, <1>4

LEMMA CommitTellsTheBook ==
    ASSUME LasInv, NEW w \in Workers, pc[w] = "commit", book' = book, outbox' = outbox \cup EventOf(w)
    PROVE  EventsAreBehindTheBook'
<1>1. PICK r, d : r = req[w] /\ d = draft[w]
  OBVIOUS
<1>2. SUFFICES ASSUME NEW e \in EventOf(w), e[1] \notin {"unmatched", "modified"}
               PROVE  \E a \in Accounts : Has(PostingOf(e)[1], PostingOf(e)[2], a)
  BY DEF LasInv, AtRest, EventsAreBehindTheBook, Has, PostingOf
<1>3. /\ r.op \in Ops \ {"waive", "accrue", "quote"} /\ Shaped(r) /\ HoldsRow(w)
      /\ r.op \in {"confirm", "chargeoff"} => Posted(r, d)
      /\ r.op = "notify" /\ d.rule # None => Posted(r, d) /\ d.rule \in PaymentRules /\ r.acct \in Accounts
  BY <1>1, AtCommit
<1>4. CASE r.op = "confirm"
  <2>1. e = <<"disbursed", r.id>>
    BY <1>1, <1>4 DEF EventOf
  <2>2. Has(<<"disb", r.id>>, {"DISB01"}, d.row.acct)
    BY <1>3, <1>4 DEF Posted
  <2>3. d.row.acct \in Accounts
    <3>1. <<"disbursement", r.id>> \in DOMAIN rows /\ d.row.acct = rows[<<"disbursement", r.id>>].acct
      BY <1>1, <1>3, <1>4 DEF HoldsRow, RowKey, Required, Table
    <3> QED BY <3>1 DEF LasInv, AtRest, RowsKeep
  <2> QED BY <2>1, <2>2, <2>3 DEF PostingOf
<1>5. CASE r.op = "chargeoff"
  <2>1. e = <<"chargedoff", r.id>>
    BY <1>1, <1>5 DEF EventOf
  <2>2. Has(<<"raw", r.id>>, {"CHGOFF01"}, r.acct) /\ r.acct \in Accounts
    BY <1>3, <1>5 DEF Posted, Shaped
  <2> QED BY <2>1, <2>2 DEF PostingOf
<1>6. CASE r.op = "notify"
  <2>1. d.rule \in {"REPAY01", "PAYOFF01"} /\ d.rule # None
    <3>1. CASE d.rule = None
      <4>1. e = <<"unmatched", r.id>>
        BY <1>1, <1>6, <3>1, NoneIsNothing DEF EventOf, Prefix
      <4> QED BY <1>2, <4>1
    <3>2. CASE d.rule = "CHGOFF02"
      BY <1>1, <1>6, <3>1, <3>2 DEF EventOf
    <3> QED BY <1>3, <1>6, <3>1, <3>2 DEF PaymentRules
  <2>2. CASE d.rule = "REPAY01"
    <3>1. e = <<"posted", r.id>>
      BY <1>1, <1>6, <2>1, <2>2 DEF EventOf
    <3>2. Has(<<"repay", r.id>>, {"REPAY01"}, r.acct)
      BY <1>3, <1>6, <2>1, <2>2 DEF Posted
    <3> QED BY <1>3, <1>6, <2>1, <3>1, <3>2 DEF PostingOf
  <2>3. CASE d.rule = "PAYOFF01"
    <3>1. e = <<"closed", r.id>>
      BY <1>1, <1>6, <2>1, <2>3 DEF EventOf
    <3>2. Has(<<"raw", r.id>>, Lump, r.acct)
      BY <1>3, <1>6, <2>1, <2>3 DEF Posted
    <3> QED BY <1>3, <1>6, <2>1, <3>1, <3>2 DEF PostingOf
  <2> QED BY <2>1, <2>2, <2>3
<1>7. CASE r.op \in {"create", "reverse", "undo", "delinquency", "modify"}
  BY <1>1, <1>2, <1>7 DEF EventOf
<1> QED BY <1>3, <1>4, <1>5, <1>6, <1>7 DEF Ops

\* The row each operation saves is good: what it claims was posted, and its
\* event leaves with it.
LEMMA SavedRowIsGood ==
    ASSUME NEW w \in Workers, NEW f, NEW k, NEW row, LasInv, pc[w] = "commit", book' = book,
           outbox' = outbox \cup EventOf(w), req[w].op # "delinquency",
           k = SavedRow(w)[1], row = SavedRow(w)[2], RowFields \subseteq DOMAIN row, Saves(f, k, row),
           k \in DOMAIN f <=> k \in DOMAIN rows, k \in DOMAIN rows => f[k] = rows[k]
    PROVE  GoodRow(k)' /\ (k \in DOMAIN rows /\ k[1] = "disbursement" => rows'[k].acct = rows[k].acct)
<1>1. PICK r, d : r = req[w] /\ d = draft[w]
  OBVIOUS
<1>2. /\ r \in Requests /\ Shaped(r) /\ r.op \in Ops \ {"waive", "accrue", "quote", "delinquency"}
      /\ HoldsRow(w) /\ Corrected(w)
      /\ r.op \in {"create", "confirm", "reverse", "undo", "chargeoff"} => Posted(r, d)
      /\ r.op = "modify" /\ r.capital # Nothing => Posted(r, d)
      /\ r.op = "notify" /\ d.rule # None => Posted(r, d) /\ d.rule \in PaymentRules /\ r.acct \in Accounts
  BY <1>1, AtCommit
<1>3. k \in DOMAIN rows => GoodRow(k)
  BY RowsAreGood
<1>4. /\ RowFields \subseteq DOMAIN rows'[k]
      /\ rows'[k].status = row.status /\ rows'[k].entry = row.entry
      /\ rows'[k].acct = IF k \notin DOMAIN rows \/ k[1] = "repayment" THEN row.acct ELSE rows[k].acct
      /\ rows'[k].value = IF k \notin DOMAIN rows \/ k[1] \in {"repayment", "payoff"} THEN row.value ELSE rows[k].value
  BY DEF Saves
<1>5. CASE r.op = "create"
  <2>1. k = <<"disbursement", r.id>> /\ row.status = "PendingDisbursement" /\ row.acct = r.acct
    BY <1>1, <1>5 DEF SavedRow, RowKey, Table, Row
  <2>2. KeptRow(k)'
    BY <1>2, <1>3, <1>4, <1>5, <2>1 DEF GoodRow, KeptRow, AskedFor, Shaped
  <2> QED BY <1>4, <2>1, <2>2 DEF GoodRow, Announced, Founded, Tables
<1>6. CASE r.op \in {"confirm", "reverse"}
  <2>1. k = <<"disbursement", r.id>> /\ k \in DOMAIN rows /\ d.row.acct = rows[k].acct /\ RowFields \subseteq DOMAIN d.row
    <3>1. RowKey(r) = <<"disbursement", r.id>>
      BY <1>6 DEF RowKey, Table
    <3>2. k = RowKey(r)
      BY <1>1, <1>6 DEF SavedRow
    <3> QED BY <1>1, <1>2, <1>6, <3>1, <3>2 DEF HoldsRow, Required
  <2>2. row.status = IF r.op = "confirm" THEN "Disbursed" ELSE "Reversed"
    BY <1>1, <1>6, <2>1 DEF SavedRow, RowFields
  <2>3. Has(<<"disb", r.id>>, {"DISB01"}, rows[k].acct)
    BY <1>1, <1>2, <1>6, <2>1 DEF Posted, HoldsRow, Required
  <2>4. r.op = "reverse" => Undone(<<"disb", r.id>>)
    BY <1>2 DEF Posted
  <2>5. <<"disbursed", r.id>> \in outbox'
    <3>1. CASE r.op = "confirm"
      BY <1>1, <3>1 DEF EventOf
    <3>2. CASE r.op = "reverse"
      BY <1>1, <1>2, <3>2 DEF HoldsRow, Required
    <3> QED BY <1>6, <3>1, <3>2
  <2>6. rows'[k].acct = rows[k].acct
    BY <1>4, <2>1
  <2>7. Founded(k)'
    BY <1>4, <1>6, <2>1, <2>2, <2>3, <2>4, <2>6 DEF Founded, Has, Undone
  <2> QED BY <1>3, <1>4, <2>1, <2>5, <2>6, <2>7 DEF GoodRow, KeptRow, Announced
<1>7. CASE r.op = "undo"
  <2>1. k = <<"repayment", r.id>> /\ RowFields \subseteq DOMAIN d.row
    BY <1>1, <1>2, <1>7 DEF SavedRow, RowKey, Table, HoldsRow, Required
  <2>2. row.status = (IF r.to = None THEN "Reversed" ELSE "Corrected") /\ row.acct = d.row.acct
    BY <1>1, <1>7, <2>1 DEF SavedRow, RowFields
  <2>3. Has(<<"repay", r.id>>, {"REPAY01"}, d.row.acct) \/ Corrects(r.id, d.row.acct)
    BY <1>1, <1>2, <1>7 DEF HoldsRow, Required
  <2>4. Undone(<<"repay", r.id>>)
    BY <1>2, <1>7 DEF Posted
  <2>5. r.to # None => <<"correction", r.id>> \in DOMAIN book
    BY <1>1, <1>2, <1>7 DEF Corrected
  <2>6. rows'[k].acct = d.row.acct /\ rows'[k].status = row.status
    BY <1>4, <2>1, <2>2
  <2>7. Founded(k)'
    BY <2>1, <2>2, <2>3, <2>4, <2>5, <2>6, CorrectsStays DEF Founded, Has, Undone
  <2> QED BY <1>4, <2>1, <2>7 DEF GoodRow, KeptRow, Announced, Tables
<1>8. CASE r.op = "chargeoff"
  <2>1. k = <<"chargeoff", r.id>> /\ row.status = "ChargedOff" /\ row.acct = r.acct
    BY <1>1, <1>8 DEF SavedRow, RowKey, Table, Row
  <2>2. rows'[k].acct = r.acct
    <3>1. CASE k \notin DOMAIN rows
      BY <1>4, <2>1, <3>1
    <3>2. CASE k \in DOMAIN rows
      <4>1. PICK s \in Requests : s.op = "chargeoff" /\ s.id = r.id /\ s.acct = rows[k].acct
        BY <1>3, <2>1, <3>2 DEF GoodRow, KeptRow
      <4>2. s.acct = r.acct
        BY <1>2, <1>8, <4>1, RequestsAssumption DEF KeyOf, Reversals, Keyed
      <4> QED BY <1>4, <2>1, <3>2, <4>1, <4>2
    <3> QED BY <3>1, <3>2
  <2>3. Founded(k)'
    BY <1>2, <1>8, <2>1, <2>2 DEF Founded, Posted, Has
  <2>4. <<"chargedoff", r.id>> \in outbox'
    BY <1>1, <1>8 DEF EventOf
  <2> QED BY <1>2, <1>4, <1>8, <2>1, <2>2, <2>3, <2>4 DEF GoodRow, KeptRow, Announced, Tables
<1>9. CASE r.op = "modify"
  <2>1. k = <<"modification", r.id>> /\ row.acct = r.acct /\ row.value = r.capital
    BY <1>1, <1>9 DEF SavedRow, RowKey, Table, ModificationRow
  <2>2. Founded(k)'
    <3>1. CASE k \notin DOMAIN rows
      BY <1>2, <1>4, <1>9, <2>1, <3>1 DEF Founded, Posted, Has
    <3>2. CASE k \in DOMAIN rows
      <4>1. rows'[k].acct = rows[k].acct /\ rows'[k].value = rows[k].value
        BY <1>4, <2>1, <3>2
      <4> QED BY <1>3, <2>1, <3>2, <4>1 DEF GoodRow, Founded, Has
    <3> QED BY <3>1, <3>2
  <2>3. KeptRow(k)'
    BY <1>2, <1>3, <1>4, <1>9, <2>1 DEF GoodRow, KeptRow, AskedFor
  <2> QED BY <1>4, <2>1, <2>2, <2>3 DEF GoodRow, Announced, Tables
<1>10. CASE r.op = "notify" /\ d.rule = None
  <2>1. k = <<"repayment", r.id>> /\ row.status = "Unmatched"
    BY <1>1, <1>10 DEF SavedRow, Row
  <2>2. Founded(k)'
    BY <1>4, <2>1 DEF Founded
  <2> QED BY <1>4, <2>1, <2>2 DEF GoodRow, KeptRow, Announced, Tables
<1>11. CASE r.op = "notify" /\ d.rule # None
  <2>1. /\ k = <<PaymentTable[d.rule], r.id>> /\ row.status = PaymentStatus[d.rule] /\ row.acct = r.acct
        /\ Posted(r, d) /\ d.rule \in PaymentRules
    BY <1>1, <1>2, <1>11 DEF SavedRow, Row
  <2>2. CASE d.rule = "REPAY01"
    <3>1. k = <<"repayment", r.id>>
      BY <2>1, <2>2 DEF PaymentTable
    <3>2. rows'[k].acct = r.acct /\ rows'[k].status = "Posted"
      BY <1>4, <2>1, <2>2, <3>1 DEF PaymentStatus
    <3>3. Founded(k)'
      <4>1. Has(<<"repay", r.id>>, {"REPAY01"}, r.acct)
        BY <1>11, <2>1, <2>2 DEF Posted
      <4>2. Has(<<"repay", r.id>>, {"REPAY01"}, r.acct)'
        BY <4>1 DEF Has
      <4> QED BY <3>1, <3>2, <4>2 DEF Founded, Has
    <3> QED BY <1>4, <3>1, <3>3 DEF GoodRow, KeptRow, Announced, Tables
  <2>3. CASE d.rule \in {"PAYOFF01", "CHGOFF02"}
    <3>1. k = <<IF d.rule = "PAYOFF01" THEN "payoff" ELSE "recovery", r.id>>
      BY <2>1, <2>3 DEF PaymentTable
    <3>2. Has(<<"raw", r.id>>, Lump, r.acct)
      BY <1>11, <2>1, <2>3 DEF Posted
    <3>3. Founded(k)'
      <4>1. CASE k \notin DOMAIN rows
        <5>1. rows'[k].acct = r.acct
          BY <1>4, <2>1, <4>1
        <5>2. Has(<<"raw", r.id>>, Lump, r.acct)'
          BY <3>2 DEF Has
        <5> QED BY <2>3, <3>1, <5>1, <5>2 DEF Founded, Has
      <4>2. CASE k \in DOMAIN rows
        <5>1. rows'[k].acct = rows[k].acct
          BY <1>4, <3>1, <4>2
        <5> QED BY <1>3, <3>1, <4>2, <5>1 DEF GoodRow, Founded, Has
      <4> QED BY <4>1, <4>2
    <3>4. d.rule = "PAYOFF01" => <<"closed", r.id>> \in outbox'
      BY <1>1, <1>11 DEF EventOf
    <3> QED BY <1>4, <3>1, <3>3, <3>4 DEF GoodRow, KeptRow, Announced, Tables
  <2> QED BY <2>1, <2>2, <2>3 DEF PaymentRules
<1> QED BY <1>2, <1>5, <1>6, <1>7, <1>8, <1>9, <1>10, <1>11 DEF Ops

LEMMA SavedRowIsShaped ==
    ASSUME NEW w \in Workers, LasInv, pc[w] = "commit", req[w].op # "delinquency"
    PROVE  RowFields \subseteq DOMAIN SavedRow(w)[2]
<1>1. PICK r, d : r = req[w] /\ d = draft[w]
  OBVIOUS
<1>2. /\ r.op \in Ops \ {"waive", "accrue", "quote", "delinquency"} /\ HoldsRow(w)
      /\ r.op \in {"confirm", "reverse", "undo"} => RowFields \subseteq DOMAIN d.row
  <2>1. r.op \in Ops \ {"waive", "accrue", "quote"} /\ HoldsRow(w)
    BY <1>1, AtCommit
  <2> QED BY <1>1, <2>1 DEF HoldsRow, Required
<1>3. CASE r.op \in {"confirm", "reverse", "undo"}
  BY <1>1, <1>2, <1>3 DEF SavedRow
<1>4. CASE r.op \in {"create", "chargeoff"}
  BY <1>1, <1>4 DEF SavedRow, Row, RowFields
<1>5. CASE r.op = "modify"
  BY <1>1, <1>5 DEF SavedRow, ModificationRow, RowFields
<1>6. CASE r.op = "notify"
  BY <1>1, <1>6 DEF SavedRow, Row, RowFields
<1> QED BY <1>2, <1>3, <1>4, <1>5, <1>6 DEF Ops

AddsTerms(f, T) ==
    /\ DOMAIN f = DOMAIN rows \cup T /\ T \cap DOMAIN rows = {}
    /\ \A x \in DOMAIN rows : f[x] = rows[x]
    /\ \A x \in T : x[1] = "terms" /\ RowFields \subseteq DOMAIN f[x]

\* A term version is added or it is there: no other row changes.
LEMMA TermIsAdded ==
    ASSUME NEW w \in Workers, NEW f, LasInv, f = AddTermVersion(w)
    PROVE  \E T : AddsTerms(f, T)
<1>1. CASE req[w].op # "modify" \/ TermKey(w) \in DOMAIN rows
  <2>1. f = rows
    BY <1>1 DEF AddTermVersion
  <2>2. AddsTerms(f, {})
    BY <2>1 DEF AddsTerms
  <2> QED BY <2>2
<1>2. CASE ~(req[w].op # "modify" \/ TermKey(w) \in DOMAIN rows)
  <2>1. PICK k, row : /\ k = TermKey(w) /\ k[1] = "terms" /\ RowFields \subseteq DOMAIN row
                      /\ f = Insert(rows, k, row)
    BY <1>2 DEF AddTermVersion, TermKey, Row, RowFields
  <2>2. DOMAIN f = DOMAIN rows \cup {k} /\ f[k] = row /\ \A x \in DOMAIN rows : x # k => f[x] = rows[x]
    BY <2>1 DEF Insert
  <2>3. k \notin DOMAIN rows
    BY <1>2, <2>1
  <2>4. AddsTerms(f, {k})
    BY <2>1, <2>2, <2>3 DEF AddsTerms
  <2> QED BY <2>4
<1> QED BY <1>1, <1>2

LEMMA CommitSavesTheRow ==
    ASSUME NEW w \in Workers, LasInv, pc[w] = "commit", book' = book, outbox' = outbox \cup EventOf(w),
           rows' = IF req[w].op = "delinquency" THEN rows
                   ELSE Upsert(AddTermVersion(w), SavedRow(w)[1], SavedRow(w)[2])
    PROVE  /\ BookIsAsked' /\ RowsKeep' /\ RowsAreBehindTheBook' /\ SettledIsAnnounced' /\ Grows
           /\ \A k \in DOMAIN rows' : k[1] \in Tables /\ RowFields \subseteq DOMAIN rows'[k]
<1>1. CASE req[w].op = "delinquency"
  <2>1. PICK K : K = {}
    OBVIOUS
  <2>2. /\ DOMAIN rows' = DOMAIN rows \cup K /\ \A x \in DOMAIN rows \ K : rows'[x] = rows[x]
        /\ \A x \in K : /\ GoodRow(x)'
                        /\ x \in DOMAIN rows /\ x[1] = "disbursement" => rows'[x].acct = rows[x].acct
    BY <1>1, <2>1
  <2> QED BY <2>2, RowsSaved
<1>2. CASE req[w].op # "delinquency"
  <2>1. PICK f, k, row : f = AddTermVersion(w) /\ k = SavedRow(w)[1] /\ row = SavedRow(w)[2]
    OBVIOUS
  <2>0. PICK T : AddsTerms(f, T)
    BY <2>1, TermIsAdded
  <2>2. /\ DOMAIN f = DOMAIN rows \cup T /\ T \cap DOMAIN rows = {}
        /\ \A x \in DOMAIN rows : f[x] = rows[x]
        /\ \A x \in T : x[1] = "terms" /\ RowFields \subseteq DOMAIN f[x]
    BY <2>0 DEF AddsTerms
  <2>3. k[1] # "terms"
    <3>1. PICK r, d : r = req[w] /\ d = draft[w]
      OBVIOUS
    <3>2. /\ r.op \in Ops \ {"waive", "accrue", "quote", "delinquency"}
          /\ r.op = "notify" /\ d.rule # None => d.rule \in PaymentRules
      BY <1>2, <3>1, AtCommit
    <3>3. CASE r.op = "notify"
      BY <2>1, <3>1, <3>2, <3>3 DEF SavedRow, PaymentRules, PaymentTable
    <3>4. CASE r.op # "notify"
      <4>1. k = RowKey(r)
        BY <2>1, <3>1, <3>2, <3>4 DEF SavedRow, Ops
      <4> QED BY <3>2, <3>4, <4>1 DEF RowKey, Table, Ops
    <3> QED BY <3>3, <3>4
  <2>4. RowFields \subseteq DOMAIN row /\ \A x \in DOMAIN f : RowFields \subseteq DOMAIN f[x]
    <3>1. RowFields \subseteq DOMAIN row
      BY <1>2, <2>1, SavedRowIsShaped
    <3>2. \A x \in DOMAIN rows : RowFields \subseteq DOMAIN rows[x]
      BY DEF LasInv, AtRest, Tabled
    <3> QED BY <2>2, <3>1, <3>2
  <2>5. rows' = Upsert(f, k, row)
    BY <1>2, <2>1
  <2>6. Saves(f, k, row)
    BY <2>4, <2>5, Upserted
  <2>7. k \notin T
    BY <2>2, <2>3
  <2>8. GoodRow(k)' /\ (k \in DOMAIN rows /\ k[1] = "disbursement" => rows'[k].acct = rows[k].acct)
    <3>1. (k \in DOMAIN f <=> k \in DOMAIN rows) /\ (k \in DOMAIN rows => f[k] = rows[k])
      BY <2>2, <2>7
    <3> QED BY <1>2, <2>1, <2>4, <2>6, <3>1, SavedRowIsGood
  <2>9. PICK K : K = T \cup {k}
    OBVIOUS
  <2>10. DOMAIN rows' = DOMAIN rows \cup K /\ \A x \in DOMAIN rows \ K : rows'[x] = rows[x]
    BY <2>2, <2>6, <2>9 DEF Saves
  <2>11. ASSUME NEW x \in T PROVE GoodRow(x)' /\ x[1] # "disbursement"
    <3>1. x[1] = "terms" /\ RowFields \subseteq DOMAIN rows'[x]
      BY <2>2, <2>6, <2>7 DEF Saves
    <3> QED BY <3>1 DEF GoodRow, KeptRow, Announced, Founded, Tables
  <2>12. \A x \in K : /\ GoodRow(x)'
                      /\ x \in DOMAIN rows /\ x[1] = "disbursement" => rows'[x].acct = rows[x].acct
    BY <2>8, <2>9, <2>11
  <2>13. outbox \subseteq outbox'
    OBVIOUS
  <2> QED BY <2>10, <2>12, <2>13, RowsSaved
<1> QED BY <1>1, <1>2

LEMMA CommitKeeps ==
    ASSUME LasInv, NEW w \in Workers, Commit(w)
    PROVE  LasInv'
<1>1. Release(w) /\ pc[w] = "commit" /\ book' = book
  BY DEF Commit, At
<1>2. CASE UNCHANGED lasdb
  BY <1>1, <1>2, RestStays, Released, StepIsSound
<1>3. CASE ~UNCHANGED lasdb
  <2>1. /\ outbox' = outbox \cup EventOf(w)
        /\ account' = IF SavesAccount(w) THEN [account EXCEPT ![AccountOf(w)] = SavedAccount(w)] ELSE account
        /\ rows' = IF req[w].op = "delinquency" THEN rows
                   ELSE Upsert(AddTermVersion(w), SavedRow(w)[1], SavedRow(w)[2])
    BY <1>3 DEF Commit
  <2>2. account' \in [Accounts -> AccountRows] /\ StatusIsBehindTheBook'
    BY <1>1, <2>1, CommitSavesTheAccount
  <2>3. EventsAreBehindTheBook'
    BY <1>1, <2>1, CommitTellsTheBook
  <2>4. /\ BookIsAsked' /\ RowsKeep' /\ RowsAreBehindTheBook' /\ SettledIsAnnounced' /\ Grows
        /\ \A k \in DOMAIN rows' : k[1] \in Tables /\ RowFields \subseteq DOMAIN rows'[k]
    BY <1>1, <2>1, CommitSavesTheRow
  <2>5. AtRest'
    BY <2>2, <2>3, <2>4 DEF AtRest, Tabled
  <2> QED BY <1>1, <2>4, <2>5, Released, StepIsSound
<1> QED BY <1>2, <1>3
-----------------------------------------------------------------------------
LEMMA LasInvStarts ==
    ASSUME Init
    PROVE  LasInv
<1>1. AtRest
  BY DEF Init, AtRest, Tabled, AccountRows, Booked, Statuses, Buckets, BookIsAsked, RowsKeep,
         RowsAreBehindTheBook, EventsAreBehindTheBook, StatusIsBehindTheBook, SettledIsAnnounced
<1>2. Manned
  BY DEF Init, Manned, EmptyDraft, DraftFields, Steps
<1>3. \A w \in Workers : Where(w) /\ InFlight(w)
  BY DEF Init, Where, InFlight
<1> QED BY <1>1, <1>2, <1>3 DEF LasInv

LEMMA LasInvStutters ==
    ASSUME LasInv, UNCHANGED vars
    PROVE  LasInv'
<1>1. AtRest' /\ Grows
  BY RestStays DEF vars
<1>2. ASSUME NEW w \in Workers PROVE Where(w)' /\ InFlight(w)'
  BY <1>1, InFlightStays DEF LasInv, vars, job
<1>3. Manned'
  BY DEF LasInv, Manned, vars, job
<1> QED BY <1>1, <1>2, <1>3 DEF LasInv

LEMMA LasInvStep ==
    ASSUME LasInv, [Next]_vars
    PROVE  LasInv'
<1>1. CASE UNCHANGED vars
  BY <1>1, LasInvStutters
<1>2. ASSUME NEW w \in Workers, NEW r \in Requests, Receive(w, r) PROVE LasInv'
  BY <1>2, ReceiveKeeps
<1>3. ASSUME NEW w \in Workers, ReadAccount(w) \/ ReadFee(w) \/ ReadBalance(w) \/ IssueQuote(w) PROVE LasInv'
  BY <1>3, ReadAccountKeeps, ReadFeeKeeps, ReadBalanceKeeps, IssueQuoteKeeps
<1>4. ASSUME NEW w \in Workers, PostToGL(w) \/ GLRefuses(w) \/ AnswerLost(w) \/ GivesUp(w) PROVE LasInv'
  BY <1>4, PostToGLKeeps, GLRefusesKeeps, AnswerLostKeeps, GivesUpKeeps
<1>5. ASSUME NEW w \in Workers, SavePending(w) \/ SaveFee(w) \/ SaveCorrection(w) \/ Commit(w) PROVE LasInv'
  BY <1>5, SavePendingKeeps, SaveFeeKeeps, SaveCorrectionKeeps, CommitKeeps
<1> QED BY <1>1, <1>2, <1>3, <1>4, <1>5 DEF Next

\* The inductive invariant, for any number of workers, faults and requests.
THEOREM ServicingInvariant == Spec => []LasInv
<1>1. Init => LasInv
  BY LasInvStarts
<1>2. LasInv /\ [Next]_vars => LasInv'
  BY LasInvStep
<1> QED BY <1>1, <1>2, PTL DEF Spec

\* No row claims what the GL has not posted, whatever stale row is saved over
\* it and whichever call of its handler fails (RowsAreBehindTheBook).
THEOREM RowsFollowTheBook == Spec => []RowsAreBehindTheBook
<1>1. LasInv => RowsAreBehindTheBook
  BY DEF LasInv, AtRest
<1> QED BY <1>1, ServicingInvariant, PTL

\* What is published of a loan was posted, also when a retry took over from an
\* attempt whose answer was lost (EventsAreBehindTheBook).
THEOREM EventsFollowTheBook == Spec => []EventsAreBehindTheBook
<1>1. LasInv => EventsAreBehindTheBook
  BY DEF LasInv, AtRest
<1> QED BY <1>1, ServicingInvariant, PTL

\* No account is Disbursed or ChargedOff ahead of the GL, whatever two handlers
\* save over one another (StatusIsBehindTheBook).
THEOREM StatusFollowsTheBook == Spec => []StatusIsBehindTheBook
<1>1. LasInv => StatusIsBehindTheBook
  BY DEF LasInv, AtRest
<1> QED BY <1>1, ServicingInvariant, PTL

\* What the tables show as settled was announced (SettledIsAnnounced).
THEOREM SettlementsAreAnnounced == Spec => []SettledIsAnnounced
<1>1. LasInv => SettledIsAnnounced
  BY DEF LasInv, AtRest
<1> QED BY <1>1, ServicingInvariant, PTL
-----------------------------------------------------------------------------
(* Part 2.  Types.                                                         *)

Terms == [version : Nat, principal : Int]

RowIsTyped(k, row) == row \in IF k[1] = "modification" THEN Modifications ELSE Rows

TypedBook ==
    /\ IsFiniteSet(DOMAIN book)
    /\ \A k \in DOMAIN book : book[k].value \in Values /\ book[k].target \in {None} \cup DOMAIN book

TypedRows ==
    /\ IsFiniteSet(DOMAIN rows)
    /\ \A k \in DOMAIN rows : RowIsTyped(k, rows[k])
    /\ \A k \in DOMAIN rows : k[1] = "terms" => \E a, v : v \in Nat /\ k = <<"terms", <<a, v>>>>

TypedBudget == sent \in Nat /\ sent <= MaxSends /\ faults \in Nat /\ faults <= MaxFaults

\* A handler holds rows and values of the tables' types, and saves no id of
\* an entry that the book does not have.
TypedDraft(w) ==
    LET r == req[w]
        d == draft[w]
    IN  pc[w] # "idle" =>
          /\ d.value \in Values
          /\ r.op \in DOMAIN Required => d.row \in Rows
          /\ pc[w] # "account" /\ r.op \in {"create", "modify"} => d.term \in Terms
          /\ pc[w] = "commit" /\ r.op = "reverse" => SourceEvent("DISB02", r) \in DOMAIN book

TypesInv ==
    /\ TypedBook /\ TypedRows /\ TypedBudget
    /\ \A q \in quotes : q.value \in Values
    /\ \A w \in Workers : TypedDraft(w)

LEMMA ValuesTyped ==
    /\ Nothing \in Values
    /\ \A n \in Int : OfPrincipal(n) \in Values /\ OfInterest(n) \in Values /\ OfFee(n) \in Values
    /\ \A v \in Values : Total(v) \in Int /\ DOMAIN v = {"fee", "interest", "principal"}
BY DEF Nothing, Values, OfPrincipal, OfInterest, OfFee, Total

LEMMA ScaleTyped ==
    ASSUME NEW v \in Values, NEW n \in Int
    PROVE  Scale(v, n) \in Values
<1>1. DOMAIN v = {"fee", "interest", "principal"} /\ \A c \in DOMAIN v : v[c] \in Int
  BY DEF Values
<1>2. Scale(v, n) = [c \in {"fee", "interest", "principal"} |-> n * v[c]]
  BY <1>1 DEF Scale
<1>3. \A c \in {"fee", "interest", "principal"} : n * v[c] \in Int
  BY <1>1
<1> QED BY <1>2, <1>3 DEF Values

LEMMA ForwardEffectTyped ==
    ASSUME NEW p, p.value \in Values
    PROVE  ForwardEffect(p) \in Values
<1>1. CASE p.rule \in Raises
  BY <1>1 DEF ForwardEffect, Raises, Lowers
<1>2. CASE p.rule \in Lowers
  <2>1. ForwardEffect(p) = Scale(p.value, -1)
    BY <1>2 DEF ForwardEffect, Raises, Lowers
  <2> QED BY <2>1, ScaleTyped
<1>3. CASE p.rule = "MOD01"
  <2>1. ForwardEffect(p) = [Scale(p.value, -1) EXCEPT !.principal = Total(p.value)]
    BY <1>3 DEF ForwardEffect, Raises, Lowers
  <2>2. PICK v, u, n : v = p.value /\ v \in Values /\ u = Scale(v, -1) /\ n = Total(v)
    OBVIOUS
  <2>3. u \in Values
    BY <2>2, ScaleTyped
  <2>4. n \in Int
    BY <2>2, ValuesTyped
  <2>5. ForwardEffect(p) = [u EXCEPT !.principal = n]
    BY <2>1, <2>2
  <2> QED BY <2>3, <2>4, <2>5 DEF Values
<1>4. CASE p.rule \notin Raises \cup Lowers \cup {"MOD01"}
  <2>1. ForwardEffect(p) = Nothing
    BY <1>4 DEF ForwardEffect
  <2> QED BY <2>1, ValuesTyped
<1> QED BY <1>1, <1>2, <1>3, <1>4

LEMMA EffectTyped ==
    ASSUME TypedBook, NEW k \in DOMAIN book
    PROVE  Effect(book[k]) \in Values
<1>1. book[k].value \in Values /\ book[k].target \in {None} \cup DOMAIN book
  BY DEF TypedBook
<1>2. CASE book[k].target = None
  BY <1>1, <1>2, ForwardEffectTyped DEF Effect
<1>3. CASE book[k].target # None
  <2>1. ForwardEffect(book[book[k].target]) \in Values
    BY <1>1, <1>3, ForwardEffectTyped DEF TypedBook
  <2> QED BY <1>3, <2>1, ScaleTyped DEF Effect
<1> QED BY <1>2, <1>3

LEMMA OwedTyped ==
    ASSUME TypedBook, NEW a
    PROVE  Owed(a) \in Values
<1> DEFINE keys == {k \in DOMAIN book : book[k].acct = a}
           sum(c) == SumFunctionOnSet([k \in keys |-> Effect(book[k])[c]], keys)
<1>1. IsFiniteSet(keys)
  BY FS_Subset DEF TypedBook
<1>2. ASSUME NEW c \in {"fee", "interest", "principal"} PROVE sum(c) \in Int
  <2>1. PICK K, f : K = keys /\ f = [k \in keys |-> Effect(book[k])[c]]
    OBVIOUS
  <2>2. \A k \in K : f[k] \in Int
    BY <2>1, EffectTyped DEF Values
  <2>3. SumFunctionOnSet(f, K) \in Int
    BY <1>1, <2>1, <2>2, SumType
  <2> QED BY <2>1, <2>3
<1>3. Owed(a) = [fee |-> sum("fee"), interest |-> sum("interest"), principal |-> sum("principal")]
  BY DEF Owed
<1> HIDE DEF sum
<1> QED BY <1>2, <1>3 DEF Values

LEMMA TakeTyped ==
    ASSUME NEW amount \in Int, NEW owed \in Int
    PROVE  Take(amount, owed) \in Int /\ (Take(amount, owed) > 0 => Take(amount, owed) <= owed)
BY DEF Take

\* Each category takes no more than is owed of it.
LEMMA WaterfallTyped ==
    ASSUME NEW amount \in Int, NEW owed \in Values
    PROVE  /\ Waterfall(amount, owed) \in Values
           /\ \A c \in {"fee", "interest", "principal"} :
                 Waterfall(amount, owed)[c] > 0 => Waterfall(amount, owed)[c] <= owed[c]
<1>1. owed.fee \in Int /\ owed.interest \in Int /\ owed.principal \in Int
  BY DEF Values
<1>2. PICK f \in Int : f = Take(amount, owed.fee) /\ (f > 0 => f <= owed.fee)
  BY <1>1, TakeTyped
<1>3. PICK i \in Int : i = Take(amount - f, owed.interest) /\ (i > 0 => i <= owed.interest)
  <2>1. PICK n \in Int : n = amount - f
    BY <1>2
  <2> QED BY <1>1, <2>1, TakeTyped
<1>4. PICK p \in Int : p = Take(amount - f - i, owed.principal) /\ (p > 0 => p <= owed.principal)
  <2>1. PICK n \in Int : n = amount - f - i
    BY <1>2, <1>3
  <2> QED BY <1>1, <2>1, TakeTyped
<1>5. Waterfall(amount, owed) = [fee |-> f, interest |-> i, principal |-> p]
  BY <1>2, <1>3, <1>4 DEF Waterfall
<1> QED BY <1>2, <1>3, <1>4, <1>5 DEF Values

\* The rows a query of the term versions finds have a last one.
LEMMA CurrentTermTyped ==
    ASSUME TypedRows, NEW a
    PROVE  /\ CurrentTermVersion(a) \in Terms
           /\ Versions(a) \subseteq Nat
           /\ Max(Versions(a)) \in Versions(a)
           /\ \A v \in Versions(a) : v <= Max(Versions(a))
<1>1. PICK K, f : K = {t \in DOMAIN rows : t[1] = "terms" /\ t[2][1] = a} /\ f = [t \in K |-> t[2][2]]
  OBVIOUS
<1>2. IsFiniteSet(K)
  BY <1>1, FS_Subset DEF TypedRows
<1>3. /\ \A t \in K : f[t] \in Nat /\ t = <<"terms", <<a, f[t]>>>> /\ t \in DOMAIN rows
      /\ Versions(a) = {1} \cup {f[t] : t \in K}
  <2>1. \A t \in K : f[t] \in Nat /\ t = <<"terms", <<a, f[t]>>>> /\ t \in DOMAIN rows
    BY <1>1 DEF TypedRows
  <2>2. {t[2][2] : t \in K} = {f[t] : t \in K}
    BY <1>1
  <2> QED BY <1>1, <2>1, <2>2 DEF Versions
<1>4. \E m \in Versions(a) : \A v \in Versions(a) : v <= m
  <2>1. CASE K = {}
    <3>1. Versions(a) = {1}
      BY <1>3, <2>1
    <3> QED BY <3>1
  <2>2. CASE K # {}
    <3>1. PICK t \in K : \A u \in K : f[u] <= f[t]
      BY <1>2, <1>3, <2>2, GreatestBy
    <3>2. CASE f[t] >= 1
      BY <1>3, <3>1, <3>2
    <3>3. CASE ~(f[t] >= 1)
      BY <1>3, <3>1, <3>3
    <3> QED BY <3>2, <3>3
  <2> QED BY <2>1, <2>2
<1>5. \A v \in Versions(a) : v \in Nat /\ (v = 1 \/ <<"terms", <<a, v>>>> \in DOMAIN rows)
  BY <1>3
<1>6. PICK V, top : V = Versions(a) /\ top = Max(V)
  OBVIOUS
<1>7. top \in V /\ \A v \in V : v <= top
  <2>1. \E m \in V : \A v \in V : m >= v
    BY <1>4, <1>5, <1>6
  <2>2. top \in V /\ \A v \in V : top >= v
    BY <1>6, <2>1 DEF Max
  <2> QED BY <1>5, <1>6, <2>2
<1>8. PrincipalOf(a, top) \in Int
  <2>1. CASE top = 1
    BY <2>1, ConstantsAssumption DEF PrincipalOf
  <2>2. CASE top # 1
    <3>1. <<"terms", <<a, top>>>> \in DOMAIN rows
      BY <1>5, <1>6, <1>7, <2>2
    <3>2. rows[<<"terms", <<a, top>>>>] \in Rows
      BY <3>1 DEF TypedRows, RowIsTyped
    <3> QED BY <2>2, <3>2 DEF PrincipalOf, Rows, Values
  <2> QED BY <2>1, <2>2
<1>9. top \in Nat
  BY <1>5, <1>6, <1>7
<1> QED BY <1>5, <1>6, <1>7, <1>8, <1>9 DEF CurrentTermVersion, Terms

Moves(w) ==
    \/ \E r \in Requests : Receive(w, r)
    \/ ReadAccount(w) \/ ReadFee(w) \/ ReadBalance(w) \/ IssueQuote(w)
    \/ SavePending(w) \/ PostToGL(w) \/ GLRefuses(w) \/ AnswerLost(w)
    \/ SaveFee(w) \/ SaveCorrection(w) \/ Commit(w)
    \/ GivesUp(w)

\* A step is its own worker's.
LEMMA OthersRest ==
    ASSUME LasInv, NEW w \in Workers, Moves(w)
    PROVE  OthersStay(w)
<1>1. /\ pc \in [Workers -> Steps] /\ req \in [Workers -> Requests \cup {None}] /\ DOMAIN draft = Workers
      /\ \A u \in Workers : DOMAIN draft[u] = DraftFields
  BY DEF LasInv, Manned
<1>2. CASE Release(w)
  BY <1>2, Released
<1>3. CASE \E r \in Requests : Receive(w, r)
  <2>1. PICK r \in Requests : Receive(w, r)
    BY <1>3
  <2>2. CASE UNCHANGED job
    BY <2>2 DEF job, OthersStay
  <2>3. CASE ~UNCHANGED job
    <3>1. /\ Goto(w, FirstStep(r)) /\ req' = [req EXCEPT ![w] = r]
          /\ \A u \in Workers \ {w} : draft'[u] = draft[u]
      BY <1>1, <2>1, <2>3 DEF Receive
    <3> QED BY <1>1, <3>1 DEF Goto, OthersStay
  <2> QED BY <2>2, <2>3
<1>4. CASE ReadAccount(w) /\ ~Release(w)
  <2>1. \E step : Goto(w, step) /\ UNCHANGED req /\ \A u \in Workers \ {w} : draft'[u] = draft[u]
    BY <1>1, <1>4 DEF ReadAccount
  <2> QED BY <1>1, <2>1 DEF Goto, OthersStay
<1>5. CASE (ReadFee(w) \/ ReadBalance(w)) /\ ~Release(w)
  <2>1. PICK step, value : Goto(w, step) /\ UNCHANGED req /\ draft' = [draft EXCEPT ![w].value = value]
    BY <1>5 DEF ReadFee, ReadBalance
  <2> QED BY <1>1, <2>1 DEF Goto, OthersStay
<1>6. CASE (SavePending(w) \/ PostToGL(w) \/ SaveFee(w) \/ SaveCorrection(w)) /\ ~Release(w)
  <2>1. PICK step : Goto(w, step) /\ UNCHANGED <<req, draft>>
    BY <1>6 DEF SavePending, PostToGL, SaveFee, SaveCorrection
  <2> QED BY <1>1, <2>1 DEF Goto, OthersStay
<1>7. IssueQuote(w) \/ GLRefuses(w) \/ AnswerLost(w) \/ Commit(w) \/ GivesUp(w) => Release(w)
  BY DEF IssueQuote, GLRefuses, AnswerLost, Commit, GivesUp
<1> QED BY <1>2, <1>3, <1>4, <1>5, <1>6, <1>7 DEF Moves

LEMMA RowTypeGrows ==
    ASSUME DOMAIN book \subseteq DOMAIN book', NEW k, NEW row, RowIsTyped(k, row)
    PROVE  RowIsTyped(k, row)'
BY DEF RowIsTyped, Rows, Modifications

LEMMA DraftTypeStays ==
    ASSUME DOMAIN book \subseteq DOMAIN book', NEW u \in Workers, TypedDraft(u),
           pc'[u] = pc[u], req'[u] = req[u], draft'[u] = draft[u]
    PROVE  TypedDraft(u)'
<1>1. \A row \in Rows : row \in Rows'
  BY DEF Rows
<1> QED BY <1>1 DEF TypedDraft

LEMMA TypesStep ==
    ASSUME LasInv, TypesInv, NEW w \in Workers, Moves(w), DOMAIN book \subseteq DOMAIN book',
           TypedBook', TypedRows', TypedBudget', \A q \in quotes' : q.value \in Values,
           TypedDraft(w)' \/ Release(w)
    PROVE  TypesInv'
<1>1. ASSUME NEW u \in Workers PROVE TypedDraft(u)'
  <2>1. CASE u = w /\ Release(w)
    <3>1. pc'[w] = "idle"
      BY <2>1 DEF LasInv, Manned, Release, Goto
    <3> QED BY <2>1, <3>1 DEF TypedDraft
  <2>2. CASE u # w
    BY <2>2, OthersRest, DraftTypeStays DEF OthersStay, TypesInv
  <2> QED BY <2>1, <2>2
<1> QED BY <1>1 DEF TypesInv

\* The steps that write neither to the tables nor to the GL.
LEMMA TypesAtRest ==
    ASSUME LasInv, TypesInv, NEW w \in Workers, Moves(w), UNCHANGED <<rows, book>>, TypedBudget',
           \A q \in quotes' : q.value \in Values,
           TypedDraft(w)' \/ Release(w)
    PROVE  TypesInv'
<1>1. TypedBook'
  BY DEF TypesInv, TypedBook
<1>2. TypedRows'
  BY DEF TypesInv, TypedRows, RowIsTyped, Rows, Modifications
<1> QED BY <1>1, <1>2, TypesStep

LEMMA ReceiveTypes ==
    ASSUME LasInv, TypesInv, NEW w \in Workers, NEW r \in Requests, Receive(w, r)
    PROVE  TypesInv'
<1>1. Moves(w) /\ UNCHANGED <<rows, book, quotes>> /\ TypedBudget'
  <2>1. /\ UNCHANGED <<rows, book, quotes, faults>> /\ sent < MaxSends /\ sent' = sent + 1
        /\ Moves(w)
    BY DEF Moves, Receive, lasdb
  <2> QED BY <2>1, ConstantsAssumption DEF TypesInv, TypedBudget
<1>2. CASE UNCHANGED job
  <2>1. TypedDraft(w)'
    BY <1>1, <1>2, DraftTypeStays DEF job, TypesInv
  <2> QED BY <1>1, <2>1, TypesAtRest DEF TypesInv
<1>3. CASE ~UNCHANGED job
  <2>1. /\ IsServable(r) /\ Goto(w, FirstStep(r)) /\ req' = [req EXCEPT ![w] = r]
        /\ draft' = [draft EXCEPT
                ![w].row   = IF r.op \in DOMAIN Required THEN rows[RowKey(r)] ELSE None,
                ![w].value = CASE r.op \in DOMAIN Required -> rows[RowKey(r)].value
                               [] r.op = "modify"           -> r.capital
                               [] OTHER                     -> Nothing,
                ![w].rule  = IF r.op \in DOMAIN RuleOf THEN RuleOf[r.op] ELSE None]
    BY <1>3 DEF Receive
  <2>2. PICK row, value : /\ row = draft'[w].row /\ value = draft'[w].value
    OBVIOUS
  <2>3. /\ pc'[w] = FirstStep(r) /\ req'[w] = r
        /\ r.op \in DOMAIN Required => row = rows[RowKey(r)] /\ value = rows[RowKey(r)].value
        /\ r.op \notin DOMAIN Required /\ r.op # "modify" => value = Nothing
        /\ r.op = "modify" => value = r.capital
    <3>1. pc'[w] = FirstStep(r) /\ req'[w] = r
      BY <2>1 DEF LasInv, Manned, Goto
    <3>2. "modify" \notin DOMAIN Required
      BY DEF Required
    <3>3. DOMAIN draft = Workers /\ DOMAIN draft[w] = {"account", "row", "term", "rule", "value"}
      BY DEF LasInv, Manned, DraftFields
    <3>4. r.op \in DOMAIN Required => row = rows[RowKey(r)] /\ value = rows[RowKey(r)].value
      BY <2>1, <2>2, <3>2, <3>3
    <3>5. r.op \notin DOMAIN Required => value = IF r.op = "modify" THEN r.capital ELSE Nothing
      BY <2>1, <2>2, <3>3
    <3> QED BY <3>1, <3>2, <3>4, <3>5
  <2>4. r.op \in DOMAIN Required => row \in Rows
    <3>1. r.op \in DOMAIN Required => RowKey(r) \in DOMAIN rows /\ RowKey(r)[1] # "modification"
      BY <2>1 DEF IsServable, RowKey, Table, Required
    <3> QED BY <2>3, <3>1 DEF TypesInv, TypedRows, RowIsTyped
  <2>5. value \in Values
    <3>1. Shaped(r)
      BY RequestsAssumption
    <3> QED BY <2>3, <2>4, <3>1, ValuesTyped DEF Shaped, Rows
  <2>6. FirstStep(r) \in {"pending", "account"} \/ (FirstStep(r) = "commit" /\ r.op = "notify")
    BY DEF FirstStep
  <2>7. FirstStep(r) = "pending" => r.op \in {"undo", "waive"}
    BY DEF FirstStep
  <2>8. TypedDraft(w)'
    <3>1. row \in Rows => row \in Rows'
      BY <1>1 DEF Rows
    <3> QED BY <2>2, <2>3, <2>4, <2>5, <2>6, <2>7, <3>1 DEF TypedDraft
  <2> QED BY <1>1, <2>8, TypesAtRest DEF TypesInv
<1> QED BY <1>2, <1>3

LEMMA ReadAccountTypes ==
    ASSUME LasInv, TypesInv, NEW w \in Workers, ReadAccount(w)
    PROVE  TypesInv'
<1>1. Moves(w) /\ UNCHANGED <<rows, book, quotes>> /\ TypedBudget'
  BY DEF Moves, ReadAccount, lasdb, budget, TypesInv, TypedBudget
<1>2. CASE Release(w)
  BY <1>1, <1>2, TypesAtRest DEF TypesInv
<1>3. CASE ~Release(w)
  <2> DEFINE r == req[w]
             a == account[AccountOf(w)]
  <2>1. PICK known \in {quotes, {}} :
          LET settled == IF r.op = "notify" THEN Settled(r, known) ELSE {}
          IN  /\ Goto(w, StepAfterAccount(r, a, settled))
              /\ draft' = [draft EXCEPT
                   ![w].account = a,
                   ![w].term  = IF r.op \in {"create", "modify"} THEN CurrentTermVersion(r.acct) ELSE None,
                   ![w].rule  = IF r.op = "notify" THEN PaymentRule(r, a, settled) ELSE @,
                   ![w].value = IF r.op = "notify" THEN PaymentValue(r, a, settled) ELSE @]
              /\ UNCHANGED req
    BY <1>3 DEF ReadAccount
  <2>2. PICK settled : settled = IF r.op = "notify" THEN Settled(r, known) ELSE {}
    OBVIOUS
  <2>3. \A q \in settled : q.value \in Values
    BY <2>2 DEF Settled, TypesInv
  <2>4. r \in Requests /\ Shaped(r) /\ pc[w] = "account" /\ TypedDraft(w)
    BY RequestsAssumption DEF ReadAccount, At, LasInv, Where, TypesInv
  <2>5. PICK row, value, term : row = draft[w].row /\ value = draft'[w].value /\ term = draft'[w].term
    OBVIOUS
  <2>6. /\ pc'[w] = StepAfterAccount(r, a, settled) /\ req' = req /\ draft'[w].row = row
        /\ r.op = "notify" => value = PaymentValue(r, a, settled)
        /\ r.op # "notify" => value = draft[w].value
        /\ r.op \in {"create", "modify"} => term = CurrentTermVersion(r.acct)
    BY <2>1, <2>2, <2>5 DEF LasInv, Manned, Goto, DraftFields
  <2>7. value \in Values
    <3>1. CASE r.op = "notify"
      <4>1. r.amount \in Int
        BY <2>4, <3>1 DEF Shaped
      <4>2. settled # {} => (CHOOSE q \in settled : TRUE) \in settled
        OBVIOUS
      <4> QED BY <2>3, <2>6, <3>1, <4>1, <4>2, ValuesTyped DEF PaymentValue
    <3>2. CASE r.op # "notify"
      BY <2>4, <2>6, <3>2 DEF TypedDraft
    <3> QED BY <3>1, <3>2
  <2>8. r.op \in {"create", "modify"} => term \in Terms
    BY <2>6, CurrentTermTyped DEF TypesInv
  <2>9. r.op = "reverse" => pc'[w] = "pending"
    BY <2>6 DEF StepAfterAccount
  <2>10. TypedDraft(w)'
    <3>1. r.op \in DOMAIN Required => row \in Rows
      BY <2>4, <2>5 DEF TypedDraft
    <3>2. row \in Rows => row \in Rows'
      BY <1>1 DEF Rows
    <3> HIDE DEF a
    <3> QED BY <2>5, <2>6, <2>7, <2>8, <2>9, <3>1, <3>2 DEF TypedDraft
  <2> QED BY <1>1, <2>10, TypesAtRest DEF TypesInv
<1> QED BY <1>2, <1>3

LEMMA ReadFeeTypes ==
    ASSUME LasInv, TypesInv, NEW w \in Workers, ReadFee(w)
    PROVE  TypesInv'
<1>1. Moves(w) /\ UNCHANGED <<rows, book, quotes>> /\ TypedBudget'
  BY DEF Moves, ReadFee, lasdb, budget, TypesInv, TypedBudget
<1>2. pc[w] = "fee" /\ req[w] \in Requests /\ req[w].op = "delinquency"
  BY RequestsAssumption DEF ReadFee, At, LasInv, Where, Path, Shaped, Table
<1>3. pc'[w] \in {"commit", "post"} /\ req' = req /\ draft'[w].value = OfFee(LateFee)
  BY DEF ReadFee, Goto, LasInv, Manned, DraftFields
<1>4. TypedDraft(w)'
  BY <1>2, <1>3, ValuesTyped, ConstantsAssumption DEF TypedDraft, Required
<1> QED BY <1>1, <1>4, TypesAtRest DEF TypesInv

LEMMA ReadBalanceTypes ==
    ASSUME LasInv, TypesInv, NEW w \in Workers, ReadBalance(w)
    PROVE  TypesInv'
<1>1. Moves(w) /\ UNCHANGED <<rows, book, quotes>> /\ TypedBudget'
  BY DEF Moves, ReadBalance, lasdb, budget, TypesInv, TypedBudget
<1>2. CASE Release(w)
  BY <1>1, <1>2, TypesAtRest DEF TypesInv
<1>3. CASE ~Release(w)
  <2>1. PICK r, owed : r = req[w] /\ owed = Owed(AccountOf(w))
    OBVIOUS
  <2>2. /\ pc'[w] \in {"pending", "post"} /\ req' = req /\ draft'[w].value = ValueOf(r, owed)
        /\ pc[w] = "balance" /\ r.op # "quote"
    BY <1>3, <2>1 DEF ReadBalance, At, Goto, LasInv, Manned, DraftFields
  <2>3. r \in Requests /\ Shaped(r) /\ r.op \in {"notify", "chargeoff", "accrue"}
    BY <2>1, <2>2, RequestsAssumption DEF LasInv, Where, Path, Shaped, Table
  <2>4. owed \in Values
    BY <2>1, OwedTyped DEF TypesInv
  <2>5. ValueOf(r, owed) \in Values
    <3>1. CASE r.op = "notify"
      <4>1. r.amount \in Int
        BY <2>3, <3>1 DEF Shaped
      <4> QED BY <2>4, <3>1, <4>1, WaterfallTyped DEF ValueOf
    <3>2. CASE r.op # "notify"
      BY <2>3, <2>4, <3>2, ValuesTyped, ConstantsAssumption DEF ValueOf
    <3> QED BY <3>1, <3>2
  <2>6. TypedDraft(w)'
    BY <2>1, <2>2, <2>3, <2>5 DEF TypedDraft, Required
  <2> QED BY <1>1, <2>6, TypesAtRest DEF TypesInv
<1> QED BY <1>2, <1>3

LEMMA QuoteTypes ==
    ASSUME LasInv, TypesInv, NEW w \in Workers, IssueQuote(w)
    PROVE  TypesInv'
<1>1. Moves(w) /\ Release(w) /\ UNCHANGED <<rows, book>> /\ TypedBudget'
  BY DEF Moves, IssueQuote, lasdb, budget, TypesInv, TypedBudget
<1>2. PICK q : quotes' = quotes \cup {q} /\ q.value = Owed(req[w].acct)
  <2>1. PICK owed, q : owed = Owed(req[w].acct) /\ q = [id |-> req[w].id, acct |-> req[w].acct, value |-> owed]
    OBVIOUS
  <2>2. quotes' = quotes \cup {q} /\ q.value = owed
    BY <2>1 DEF IssueQuote
  <2> QED BY <2>1, <2>2
<1>3. q.value \in Values
  BY <1>2, OwedTyped DEF TypesInv
<1> QED BY <1>1, <1>2, <1>3, TypesAtRest DEF TypesInv

LEMMA ReturnTypes ==
    ASSUME LasInv, TypesInv, NEW w \in Workers, GLRefuses(w) \/ GivesUp(w)
    PROVE  TypesInv'
<1>1. Moves(w) /\ Release(w) /\ UNCHANGED <<rows, book, quotes>> /\ TypedBudget'
  BY ConstantsAssumption DEF Moves, GLRefuses, GivesUp, lasdb, budget, TypesInv, TypedBudget
<1> QED BY <1>1, TypesAtRest DEF TypesInv

\* A posting the GL makes has a typed value, and its target is in the book.
LEMMA KeepsTypes ==
    ASSUME TypesInv, NEW w \in Workers, pc[w] # "idle", Keeps(w)
    PROVE  TypedBook' /\ DOMAIN book \subseteq DOMAIN book' /\ Call(w)[1] \in DOMAIN book'
<1>1. PICK key, p : key = Call(w)[1] /\ p = Call(w)[2]
  OBVIOUS
<1>2. BookKeeps(key, p) /\ (book' = book \/ book' = Insert(book, key, p))
  BY <1>1, KeepsIsKept DEF Keeps
<1>3. p.value = draft[w].value
  BY <1>1 DEF Call
<1>4. p.value \in Values
  BY <1>3 DEF TypesInv, TypedDraft
<1>5. GLAccepts(p) => p.target \in {None} \cup DOMAIN book
  BY DEF GLAccepts
<1>6. IsFiniteSet(DOMAIN book')
  <2>1. IsFiniteSet(DOMAIN book)
    BY DEF TypesInv, TypedBook
  <2>2. DOMAIN Insert(book, key, p) = DOMAIN book \cup {key}
    BY DEF Insert
  <2>3. IsFiniteSet(DOMAIN book \cup {key})
    BY <2>1, FS_AddElement
  <2> QED BY <1>2, <2>1, <2>2, <2>3
<1>7. ASSUME NEW k \in DOMAIN book' PROVE book'[k].value \in Values /\ book'[k].target \in {None} \cup DOMAIN book'
  <2>1. CASE k \in DOMAIN book
    BY <1>2, <2>1 DEF BookKeeps, TypesInv, TypedBook
  <2>2. CASE k \notin DOMAIN book
    BY <1>2, <1>4, <1>5, <2>2 DEF BookKeeps
  <2> QED BY <2>1, <2>2
<1> QED BY <1>1, <1>2, <1>6, <1>7 DEF TypedBook, BookKeeps

LEMMA RowsStayTyped ==
    ASSUME TypesInv, UNCHANGED rows, DOMAIN book \subseteq DOMAIN book'
    PROVE  TypedRows'
<1>1. \A k \in DOMAIN rows : RowIsTyped(k, rows[k])'
  BY RowTypeGrows DEF TypesInv, TypedRows
<1> QED BY <1>1 DEF TypesInv, TypedRows, RowIsTyped

LEMMA PostToGLTypes ==
    ASSUME LasInv, TypesInv, NEW w \in Workers, PostToGL(w)
    PROVE  TypesInv'
<1>1. /\ Keeps(w) /\ UNCHANGED <<rows, quotes>> /\ pc[w] \in {"post", "correct"} /\ Moves(w) /\ TypedBudget'
      /\ Release(w) \/ (Goto(w, StepAfterPosting(w)) /\ UNCHANGED <<req, draft>>)
  BY DEF PostToGL, Calling, At, Moves, lasdb, budget, TypesInv, TypedBudget
<1>2. TypedBook' /\ TypedRows' /\ DOMAIN book \subseteq DOMAIN book' /\ Call(w)[1] \in DOMAIN book'
  BY <1>1, KeepsTypes, RowsStayTyped
<1>3. CASE ~Release(w)
  <2>1. PICK r, d : r = req[w] /\ d = draft[w]
    OBVIOUS
  <2>2. /\ pc'[w] = StepAfterPosting(w) /\ req' = req /\ draft' = draft
        /\ r \in Requests /\ Shaped(r) /\ pc[w] \in Path[r.op] /\ Plans(w) /\ TypedDraft(w)
    BY <1>1, <1>3, <2>1, RequestsAssumption DEF Goto, LasInv, Manned, Where, InFlight, TypesInv
  <2>3. pc'[w] = "commit" /\ r.op = "reverse" => SourceEvent("DISB02", r) \in DOMAIN book'
    <3>1. SUFFICES ASSUME r.op = "reverse" PROVE SourceEvent("DISB02", r) \in DOMAIN book'
      OBVIOUS
    <3>2. pc[w] = "post" /\ d.rule = "DISB02"
      BY <1>1, <2>1, <2>2, <3>1 DEF Plans, RuleOf, Path
    <3>3. Call(w)[1] = SourceEvent("DISB02", r)
      BY <2>1, <3>2 DEF Call
    <3> QED BY <1>2, <3>3
  <2>4. \A row \in Rows : row \in Rows'
    BY <1>2 DEF Rows
  <2>5. TypedDraft(w)'
    BY <1>1, <2>1, <2>2, <2>3, <2>4 DEF TypedDraft
  <2> QED BY <1>1, <1>2, <2>5, TypesStep DEF TypesInv
<1> QED BY <1>1, <1>2, <1>3, TypesStep DEF TypesInv

LEMMA AnswerLostTypes ==
    ASSUME LasInv, TypesInv, NEW w \in Workers, AnswerLost(w)
    PROVE  TypesInv'
<1>1. /\ Keeps(w) /\ UNCHANGED <<rows, quotes>> /\ pc[w] \in {"post", "correct"} /\ Moves(w) /\ Release(w)
      /\ faults < MaxFaults /\ faults' = faults + 1 /\ sent' = sent
  BY DEF AnswerLost, Calling, At, Moves, lasdb
<1>2. TypedBook' /\ TypedRows' /\ DOMAIN book \subseteq DOMAIN book'
  BY <1>1, KeepsTypes, RowsStayTyped
<1>3. TypedBudget'
  BY <1>1, ConstantsAssumption DEF TypesInv, TypedBudget
<1> QED BY <1>1, <1>2, <1>3, TypesStep DEF TypesInv

\* An upsert of a typed row leaves a typed table.
LEMMA UpsertTypes ==
    ASSUME NEW f, NEW k, NEW row, rows' = Upsert(f, k, row), UNCHANGED book, RowIsTyped(k, row), k[1] # "terms",
           IsFiniteSet(DOMAIN f), \A x \in DOMAIN f : RowIsTyped(x, f[x]),
           \A x \in DOMAIN f : x[1] = "terms" => \E a, v : v \in Nat /\ x = <<"terms", <<a, v>>>>
    PROVE  TypedRows'
<1>1. PICK new : new = IF k \notin DOMAIN f \/ k[1] = "repayment" THEN row
                       ELSE [row EXCEPT !.acct = f[k].acct, !.value = IF k[1] = "payoff" THEN @ ELSE f[k].value]
  OBVIOUS
<1>2. rows' = Insert(f, k, new)
  BY <1>1 DEF Upsert
<1>3. RowIsTyped(k, new)
  <2>1. CASE k \notin DOMAIN f \/ k[1] = "repayment"
    BY <1>1, <2>1
  <2>2. CASE k \in DOMAIN f /\ k[1] # "repayment"
    <3>1. PICK old, value : old = f[k] /\ value = (IF k[1] = "payoff" THEN row.value ELSE old.value)
      OBVIOUS
    <3>2. new = [row EXCEPT !.acct = old.acct, !.value = value]
      BY <1>1, <2>2, <3>1
    <3>3. RowIsTyped(k, old)
      BY <2>2, <3>1
    <3>4. CASE k[1] = "modification"
      BY <3>1, <3>2, <3>3, <3>4 DEF RowIsTyped, Modifications
    <3>5. CASE k[1] # "modification"
      BY <3>1, <3>2, <3>3, <3>5 DEF RowIsTyped, Rows
    <3> QED BY <3>4, <3>5
  <2> QED BY <2>1, <2>2
<1>4. /\ DOMAIN rows' = DOMAIN f \cup {k} /\ rows'[k] = new
      /\ \A x \in DOMAIN f \ {k} : rows'[x] = f[x]
  BY <1>2 DEF Insert
<1>5. IsFiniteSet(DOMAIN rows')
  BY <1>4, FS_AddElement
<1>6. \A x \in DOMAIN rows' : RowIsTyped(x, rows'[x])
  BY <1>3, <1>4
<1>7. \A x \in DOMAIN rows' : x[1] = "terms" => \E a, v : v \in Nat /\ x = <<"terms", <<a, v>>>>
  BY <1>4
<1> QED BY <1>5, <1>6, <1>7 DEF TypedRows, RowIsTyped, Rows, Modifications

\* A row saved between two steps of a handler.
LEMMA SaveTypes ==
    ASSUME LasInv, TypesInv, NEW w \in Workers, Moves(w), NEW k, NEW row, NEW step, step \in {"post", "commit"},
           UNCHANGED <<quotes, book, budget, req, draft>>, Goto(w, step), rows' = Upsert(rows, k, row),
           RowIsTyped(k, row), k[1] # "terms", pc[w] # "account", step = "commit" => req[w].op # "reverse",
           pc[w] # "idle"
    PROVE  TypesInv'
<1>1. TypedRows'
  BY UpsertTypes DEF TypesInv, TypedRows
<1>2. TypedBook' /\ TypedBudget' /\ book' = book
  BY DEF TypesInv, TypedBook, TypedBudget, budget
<1>3. TypedDraft(w)'
  <2>1. TypedDraft(w) /\ pc'[w] = step
    BY DEF TypesInv, LasInv, Manned, Goto
  <2> QED BY <1>2, <2>1 DEF TypedDraft, Rows
<1> QED BY <1>1, <1>2, <1>3, TypesStep DEF TypesInv

LEMMA SavePendingTypes ==
    ASSUME LasInv, TypesInv, NEW w \in Workers, SavePending(w)
    PROVE  TypesInv'
<1>1. PICK r, d, k : r = req[w] /\ d = draft[w] /\ k = RowKey(r)
  OBVIOUS
<1>2. PICK row : row = IF r.op = "chargeoff" THEN Row("PendingChargeOff", r.acct, d.value, None)
                       ELSE [d.row EXCEPT !.status = Pending[r.op]]
  OBVIOUS
<1>3. /\ r \in Requests /\ Shaped(r) /\ pc[w] = "pending" /\ "pending" \in Path[r.op] /\ TypedDraft(w)
  BY <1>1, RequestsAssumption DEF SavePending, At, LasInv, Where, TypesInv
<1>4. r.op \in {"reverse", "undo", "chargeoff", "waive"}
  BY <1>3 DEF Shaped, Path, Table
<1>5. /\ rows' = Upsert(rows, k, row) /\ UNCHANGED <<quotes, book, budget, req, draft>> /\ Goto(w, "post") /\ Moves(w)
  BY <1>1, <1>2 DEF SavePending, Moves
<1>6. k[1] \notin {"terms", "modification"}
  BY <1>1, <1>4 DEF RowKey, Table
<1>7. row \in Rows
  <2>1. CASE r.op = "chargeoff"
    <3>1. row = Row("PendingChargeOff", r.acct, d.value, None) /\ r.acct \in Accounts /\ d.value \in Values
      BY <1>1, <1>2, <1>3, <2>1 DEF Shaped, TypedDraft
    <3> QED BY <3>1 DEF Row, Rows, RowStatuses
  <2>2. CASE r.op # "chargeoff"
    <3>1. d.row \in Rows /\ Pending[r.op] \in RowStatuses
      BY <1>1, <1>3, <1>4, <2>2 DEF TypedDraft, Required, Pending, RowStatuses
    <3> QED BY <1>2, <2>2, <3>1 DEF Rows
  <2> QED BY <2>1, <2>2
<1>8. RowIsTyped(k, row)
  BY <1>6, <1>7 DEF RowIsTyped
<1> QED BY <1>3, <1>5, <1>6, <1>8, SaveTypes

LEMMA SaveFeeTypes ==
    ASSUME LasInv, TypesInv, NEW w \in Workers, SaveFee(w)
    PROVE  TypesInv'
<1>1. PICK r, d, k : r = req[w] /\ d = draft[w] /\ k = RowKey(r)
  OBVIOUS
<1>2. PICK row : row = Row("Assessed", r.acct, d.value, EntryId(<<"late-fee", r.id>>))
  OBVIOUS
<1>3. /\ r \in Requests /\ Shaped(r) /\ pc[w] = "savefee" /\ "savefee" \in Path[r.op]
      /\ Posted(r, d) /\ TypedDraft(w)
  BY <1>1, RequestsAssumption DEF SaveFee, At, LasInv, Where, InFlight, NeedsPosting, TypesInv
<1>4. r.op = "delinquency" /\ <<"late-fee", r.id>> \in DOMAIN book /\ r.acct \in Accounts /\ d.value \in Values
  BY <1>1, <1>3 DEF Shaped, Path, Table, Posted, Has, TypedDraft
<1>5. rows' = Upsert(rows, k, row) /\ UNCHANGED <<quotes, book, budget, req, draft>> /\ Goto(w, "commit") /\ Moves(w)
  BY <1>1, <1>2 DEF SaveFee, Moves
<1>6. k[1] = "fee"
  BY <1>1, <1>4 DEF RowKey, Table
<1>7. RowIsTyped(k, row)
  BY <1>2, <1>4, <1>6 DEF RowIsTyped, Row, Rows, RowStatuses
<1> QED BY <1>1, <1>3, <1>4, <1>5, <1>6, <1>7, SaveTypes

LEMMA SaveCorrectionTypes ==
    ASSUME LasInv, TypesInv, NEW w \in Workers, SaveCorrection(w)
    PROVE  TypesInv'
<1>1. PICK r, d, k : r = req[w] /\ d = draft[w] /\ k = <<"repayment", <<"correction", r.id>>>>
  OBVIOUS
<1>2. PICK row : row = Row("Posted", r.to, d.value, EntryId(<<"correction", r.id>>))
  OBVIOUS
<1>3. /\ r \in Requests /\ Shaped(r) /\ pc[w] = "savecorrection" /\ "savecorrection" \in Path[r.op]
      /\ Corrected(w) /\ TypedDraft(w)
  BY <1>1, RequestsAssumption DEF SaveCorrection, At, LasInv, Where, InFlight, TypesInv
<1>4. r.op = "undo" /\ <<"correction", r.id>> \in DOMAIN book /\ r.to \in Accounts \cup {None} /\ d.value \in Values
  BY <1>1, <1>3 DEF Shaped, Path, Table, Corrected, Has, TypedDraft
<1>5. rows' = Upsert(rows, k, row) /\ UNCHANGED <<quotes, book, budget, req, draft>> /\ Goto(w, "commit") /\ Moves(w)
  BY <1>1, <1>2 DEF SaveCorrection, Moves
<1>6. k[1] = "repayment"
  BY <1>1
<1>7. RowIsTyped(k, row)
  BY <1>2, <1>4, <1>6 DEF RowIsTyped, Row, Rows, RowStatuses
<1> QED BY <1>1, <1>3, <1>4, <1>5, <1>6, <1>7, SaveTypes

LEMMA SavedRowTypes ==
    ASSUME LasInv, TypesInv, NEW w \in Workers, pc[w] = "commit", req[w].op # "delinquency",
           NEW k, k = SavedRow(w)[1], NEW row, row = SavedRow(w)[2]
    PROVE  RowIsTyped(k, row) /\ k[1] # "terms"
<1>1. PICK r, d : r = req[w] /\ d = draft[w]
  OBVIOUS
<1>2. PICK id : id = EntryId(SourceEvent(d.rule, r))
  OBVIOUS
<1>3. /\ r \in Requests /\ Shaped(r) /\ r.op \in Ops \ {"waive", "accrue", "quote", "delinquency"}
      /\ Plans(w)
      /\ r.op \in {"confirm", "reverse", "undo", "chargeoff"} => Posted(r, d)
      /\ r.op = "modify" /\ r.capital # Nothing => Posted(r, d)
      /\ r.op = "notify" /\ d.rule # None => Posted(r, d) /\ d.rule \in PaymentRules /\ r.acct \in Accounts
  BY <1>1, AtCommit
<1>4. TypedDraft(w)
  BY DEF TypesInv
<1>5. CASE r.op = "create"
  <2>1. k = RowKey(r) /\ row = Row("PendingDisbursement", r.acct, OfPrincipal(d.term.principal), None)
    BY <1>1, <1>5 DEF SavedRow
  <2>2. d.term \in Terms /\ r.acct \in Accounts
    BY <1>1, <1>3, <1>4, <1>5 DEF TypedDraft, Shaped
  <2>3. OfPrincipal(d.term.principal) \in Values
    BY <2>2, ValuesTyped DEF Terms
  <2>4. k[1] = "disbursement"
    BY <1>5, <2>1 DEF RowKey, Table
  <2> QED BY <2>1, <2>2, <2>3, <2>4 DEF RowIsTyped, Row, Rows, RowStatuses
<1>6. CASE r.op \in {"confirm", "reverse"}
  <2>1. k = RowKey(r) /\ row = [d.row EXCEPT !.status = IF r.op = "confirm" THEN "Disbursed" ELSE "Reversed", !.entry = id]
    BY <1>1, <1>2, <1>6 DEF SavedRow
  <2>2. d.row \in Rows
    BY <1>1, <1>4, <1>6 DEF TypedDraft, Required
  <2>3. SourceEvent(d.rule, r) \in DOMAIN book
    <3>1. CASE r.op = "confirm"
      <4>1. SourceEvent(d.rule, r) = <<"disb", r.id>>
        BY <1>1, <1>3, <3>1 DEF Plans, RuleOf, SourceEvent, Prefix, KeyOf, Reversals
      <4> QED BY <1>3, <3>1, <4>1 DEF Posted, Has
    <3>2. CASE r.op = "reverse"
      <4>1. d.rule = "DISB02"
        BY <1>1, <1>3, <3>2 DEF Plans, RuleOf
      <4> QED BY <1>1, <1>4, <3>2, <4>1 DEF TypedDraft
    <3> QED BY <1>6, <3>1, <3>2
  <2>4. k[1] = "disbursement"
    BY <1>6, <2>1 DEF RowKey, Table
  <2> QED BY <1>2, <2>1, <2>2, <2>3, <2>4 DEF RowIsTyped, Rows, RowStatuses
<1>7. CASE r.op = "undo"
  <2>1. k = RowKey(r) /\ row = [d.row EXCEPT !.status = IF r.to = None THEN "Reversed" ELSE "Corrected"]
    BY <1>1, <1>7 DEF SavedRow
  <2>2. d.row \in Rows
    BY <1>1, <1>4, <1>7 DEF TypedDraft, Required
  <2>3. k[1] = "repayment"
    BY <1>7, <2>1 DEF RowKey, Table
  <2> QED BY <2>1, <2>2, <2>3 DEF RowIsTyped, Rows, RowStatuses
<1>8. CASE r.op = "chargeoff"
  <2>1. k = RowKey(r) /\ row = Row("ChargedOff", r.acct, d.value, id)
    BY <1>1, <1>2, <1>8 DEF SavedRow
  <2>2. SourceEvent(d.rule, r) = <<"raw", r.id>>
    BY <1>1, <1>3, <1>8 DEF Plans, RuleOf, SourceEvent, Prefix, KeyOf, Reversals
  <2>3. SourceEvent(d.rule, r) \in DOMAIN book /\ r.acct \in Accounts /\ d.value \in Values
    BY <1>1, <1>3, <1>4, <1>8, <2>2 DEF Posted, Has, Shaped, TypedDraft
  <2>4. k[1] = "chargeoff"
    BY <1>8, <2>1 DEF RowKey, Table
  <2> QED BY <1>2, <2>1, <2>3, <2>4 DEF RowIsTyped, Row, Rows, RowStatuses
<1>9. CASE r.op = "modify"
  <2>1. k = RowKey(r) /\ row = ModificationRow(w)
    BY <1>1, <1>9 DEF SavedRow
  <2>2. PICK e : e = IF r.capital = Nothing THEN None ELSE EntryId(SourceEvent("MOD01", r))
    OBVIOUS
  <2>3. e \in {None} \cup {EntryId(x) : x \in DOMAIN book}
    <3>1. SourceEvent("MOD01", r) = <<"raw", r.id>>
      BY <1>9 DEF SourceEvent, Prefix, KeyOf, Reversals
    <3> QED BY <1>3, <1>9, <2>2, <3>1 DEF Posted, Has
  <2>4. d.term.version + 1 \in Nat /\ r.acct \in Accounts /\ r.capital \in Values
    BY <1>1, <1>3, <1>4, <1>9 DEF TypedDraft, Terms, Shaped
  <2>5. row = [status |-> "Applied", acct |-> r.acct, value |-> r.capital, entry |-> e, version |-> d.term.version + 1]
    BY <1>1, <2>1, <2>2 DEF ModificationRow
  <2>6. k[1] = "modification"
    BY <1>9, <2>1 DEF RowKey, Table
  <2> QED BY <2>3, <2>4, <2>5, <2>6 DEF RowIsTyped, Modifications
<1>10. CASE r.op = "notify" /\ d.rule = None
  <2>1. k = <<"repayment", r.id>> /\ row = Row("Unmatched", None, Nothing, None)
    BY <1>1, <1>10 DEF SavedRow
  <2> QED BY <2>1, ValuesTyped DEF RowIsTyped, Row, Rows, RowStatuses
<1>11. CASE r.op = "notify" /\ d.rule # None
  <2>1. k = <<PaymentTable[d.rule], r.id>> /\ row = Row(PaymentStatus[d.rule], r.acct, d.value, id)
    BY <1>1, <1>2, <1>11 DEF SavedRow
  <2>2. d.rule \in PaymentRules /\ r.acct \in Accounts /\ Posted(r, d) /\ d.value \in Values
    BY <1>1, <1>3, <1>4, <1>11 DEF TypedDraft
  <2>3. SourceEvent(d.rule, r) \in DOMAIN book
    <3>1. SourceEvent(d.rule, r) = <<IF d.rule = "REPAY01" THEN "repay" ELSE "raw", r.id>>
      BY <1>11, <2>2 DEF PaymentRules, SourceEvent, Prefix, KeyOf, Reversals
    <3> QED BY <1>11, <2>2, <3>1 DEF Posted, Has
  <2>4. PICK table, status : table = PaymentTable[d.rule] /\ status = PaymentStatus[d.rule]
    OBVIOUS
  <2>5. table \in {"repayment", "payoff", "recovery"} /\ status \in RowStatuses
    BY <2>2, <2>4 DEF PaymentTable, PaymentStatus, PaymentRules, RowStatuses
  <2>6. row \in Rows
    BY <1>2, <2>1, <2>2, <2>3, <2>4, <2>5 DEF Row, Rows
  <2> QED BY <2>1, <2>4, <2>5, <2>6 DEF RowIsTyped
<1> QED BY <1>3, <1>5, <1>6, <1>7, <1>8, <1>9, <1>10, <1>11 DEF Ops

LEMMA TermTypes ==
    ASSUME LasInv, TypesInv, NEW w \in Workers, pc[w] = "commit", NEW f, f = AddTermVersion(w)
    PROVE  /\ IsFiniteSet(DOMAIN f)
           /\ \A x \in DOMAIN f : RowIsTyped(x, f[x])
           /\ \A x \in DOMAIN f : x[1] = "terms" => \E a, v : v \in Nat /\ x = <<"terms", <<a, v>>>>
<1>1. TypedRows
  BY DEF TypesInv
<1>2. CASE req[w].op # "modify" \/ TermKey(w) \in DOMAIN rows
  <2>1. f = rows
    BY <1>2 DEF AddTermVersion
  <2> QED BY <1>1, <2>1 DEF TypedRows
<1>3. CASE ~(req[w].op # "modify" \/ TermKey(w) \in DOMAIN rows)
  <2>1. PICK r, n, v, k, row :
           /\ r = req[w] /\ n = GrownPrincipal(w) /\ v = draft[w].term.version + 1
           /\ k = TermKey(w) /\ row = Row("InForce", r.acct, OfPrincipal(n), None)
    OBVIOUS
  <2>2. f = Insert(rows, k, row) /\ k = <<"terms", <<r.acct, v>>>>
    BY <1>3, <2>1 DEF AddTermVersion, TermKey
  <2>3. r \in Requests /\ Shaped(r) /\ r.op = "modify" /\ draft[w].term \in Terms
    BY <1>3, <2>1, RequestsAssumption DEF LasInv, Where, TypesInv, TypedDraft
  <2>4. n \in Int /\ v \in Nat
    <3>1. PICK t, u : t = draft[w].term /\ u = Total(r.capital)
      OBVIOUS
    <3>2. t.principal \in Int /\ t.version \in Nat /\ u \in Int
      BY <2>3, <3>1, ValuesTyped DEF Shaped, Terms
    <3> QED BY <2>1, <3>1, <3>2 DEF GrownPrincipal
  <2>5. RowIsTyped(k, row)
    <3>1. OfPrincipal(n) \in Values /\ r.acct \in Accounts
      BY <2>3, <2>4, ValuesTyped DEF Shaped
    <3> QED BY <2>1, <2>2, <3>1 DEF RowIsTyped, Row, Rows, RowStatuses
  <2>6. DOMAIN f = DOMAIN rows \cup {k} /\ f[k] = row /\ \A x \in DOMAIN rows \ {k} : f[x] = rows[x]
    BY <2>2 DEF Insert
  <2>7. IsFiniteSet(DOMAIN f)
    BY <1>1, <2>6, FS_AddElement DEF TypedRows
  <2>8. \A x \in DOMAIN f : RowIsTyped(x, f[x])
    BY <1>1, <2>5, <2>6 DEF TypedRows
  <2>9. \A x \in DOMAIN f : x[1] = "terms" => \E a, n1 : n1 \in Nat /\ x = <<"terms", <<a, n1>>>>
    <3>1. ASSUME NEW x \in DOMAIN f, x[1] = "terms" PROVE \E a, n1 : n1 \in Nat /\ x = <<"terms", <<a, n1>>>>
      <4>1. CASE x = k
        BY <2>2, <2>4, <4>1
      <4>2. CASE x # k
        BY <1>1, <2>6, <3>1, <4>2 DEF TypedRows
      <4> QED BY <4>1, <4>2
    <3> QED BY <3>1
  <2> QED BY <2>7, <2>8, <2>9
<1> QED BY <1>2, <1>3

LEMMA CommitTypes ==
    ASSUME LasInv, TypesInv, NEW w \in Workers, Commit(w)
    PROVE  TypesInv'
<1>1. Release(w) /\ pc[w] = "commit" /\ book' = book /\ quotes' = quotes /\ TypedBudget' /\ Moves(w)
  BY DEF Commit, At, budget, TypesInv, TypedBudget, Moves
<1>2. TypedBook'
  BY <1>1 DEF TypesInv, TypedBook
<1>3. TypedRows'
  <2>1. CASE rows' = rows
    BY <1>1, <2>1, RowsStayTyped
  <2>2. CASE rows' # rows
    <3>1. PICK f, k, row : f = AddTermVersion(w) /\ k = SavedRow(w)[1] /\ row = SavedRow(w)[2]
      OBVIOUS
    <3>2. req[w].op # "delinquency" /\ rows' = Upsert(f, k, row)
      BY <2>2, <3>1 DEF Commit, lasdb
    <3>3. RowIsTyped(k, row) /\ k[1] # "terms"
      BY <1>1, <3>1, <3>2, SavedRowTypes
    <3>4. /\ IsFiniteSet(DOMAIN f)
          /\ \A x \in DOMAIN f : RowIsTyped(x, f[x])
          /\ \A x \in DOMAIN f : x[1] = "terms" => \E a, v : v \in Nat /\ x = <<"terms", <<a, v>>>>
      BY <1>1, <3>1, TermTypes
    <3> QED BY <1>1, <3>2, <3>3, <3>4, UpsertTypes
  <2> QED BY <2>1, <2>2
<1> QED BY <1>1, <1>2, <1>3, TypesStep DEF TypesInv

LEMMA TypesStart ==
    ASSUME Init
    PROVE  TypesInv
<1>1. DOMAIN book = {} /\ DOMAIN rows = {} /\ quotes = {} /\ sent = 0 /\ faults = 0 /\ \A w \in Workers : pc[w] = "idle"
  BY DEF Init
<1>2. TypedBook /\ TypedRows
  BY <1>1, FS_EmptySet DEF TypedBook, TypedRows
<1> QED BY <1>1, <1>2, ConstantsAssumption DEF TypesInv, TypedBudget, TypedDraft

LEMMA TypesInvStep ==
    ASSUME LasInv, TypesInv, [Next]_vars
    PROVE  TypesInv'
<1>1. CASE UNCHANGED vars
  <2>1. TypedBook' /\ TypedBudget' /\ TypedRows' /\ quotes' = quotes
    BY <1>1, RowsStayTyped DEF vars, lasdb, budget, TypesInv, TypedBook, TypedBudget
  <2>2. \A w \in Workers : TypedDraft(w)'
    BY <1>1, DraftTypeStays DEF vars, job, TypesInv
  <2> QED BY <2>1, <2>2 DEF TypesInv
<1>2. ASSUME NEW w \in Workers, NEW r \in Requests, Receive(w, r) PROVE TypesInv'
  BY <1>2, ReceiveTypes
<1>3. ASSUME NEW w \in Workers, ReadAccount(w) \/ ReadFee(w) \/ ReadBalance(w) \/ IssueQuote(w) PROVE TypesInv'
  BY <1>3, ReadAccountTypes, ReadFeeTypes, ReadBalanceTypes, QuoteTypes
<1>4. ASSUME NEW w \in Workers, PostToGL(w) \/ GLRefuses(w) \/ AnswerLost(w) \/ GivesUp(w) PROVE TypesInv'
  BY <1>4, PostToGLTypes, AnswerLostTypes, ReturnTypes
<1>5. ASSUME NEW w \in Workers, SavePending(w) \/ SaveFee(w) \/ SaveCorrection(w) \/ Commit(w) PROVE TypesInv'
  BY <1>5, SavePendingTypes, SaveFeeTypes, SaveCorrectionTypes, CommitTypes
<1> QED BY <1>1, <1>2, <1>3, <1>4, <1>5 DEF Next

\* Types are invariant with what the handlers may rely on.
THEOREM ServicingTypes == Spec => [](LasInv /\ TypesInv)
<1>1. Init => LasInv /\ TypesInv
  BY LasInvStarts, TypesStart
<1>2. LasInv /\ TypesInv /\ [Next]_vars => LasInv' /\ TypesInv'
  BY LasInvStep, TypesInvStep
<1> QED BY <1>1, <1>2, PTL DEF Spec

\* Every table holds rows of its shape, whatever stale row an upsert falls on,
\* and every journal entry id a row carries is one the GL handed out (TypeOK).
THEOREM TypeCorrectness == Spec => []TypeOK
<1>1. LasInv /\ TypesInv => TypeOK
  <2> SUFFICES ASSUME LasInv, TypesInv PROVE TypeOK
    OBVIOUS
  <2>1. account \in [Accounts -> [status : Statuses, bucket : Buckets]] /\ \A k \in DOMAIN rows : k[1] \in Tables
    BY DEF LasInv, AtRest, Tabled, AccountRows
  <2>2. \A k \in DOMAIN rows : rows[k] \in IF k[1] = "modification" THEN Modifications ELSE Rows
    BY DEF TypesInv, TypedRows, RowIsTyped
  <2>3. pc \in [Workers -> Steps] /\ req \in [Workers -> Requests \cup {None}]
    BY DEF LasInv, Manned
  <2>5. sent <= MaxSends /\ faults <= MaxFaults
    BY DEF TypesInv, TypedBudget
  <2> QED BY <2>1, <2>2, <2>3, <2>5 DEF TypeOK, Steps
<1> QED BY <1>1, ServicingTypes, PTL
-----------------------------------------------------------------------------
(* Part 3.  What overlaps leave: the steps of a handler, and whose they are. *)

\* The steps of a handler that goes on.
Works(w) ==
    ReadFee(w) \/ ReadBalance(w) \/ SavePending(w) \/ PostToGL(w) \/ SaveFee(w) \/ SaveCorrection(w)

\* After it read the account a handler changes nothing it holds but the value.
LEMMA WorkKeepsTheDraft ==
    ASSUME LasInv, NEW w \in Workers, Works(w), ~Release(w)
    PROVE  /\ pc[w] \notin {"idle", "account", "commit"} /\ account' = account /\ req' = req
           /\ pc'[w] \notin {"idle", "account"}
           /\ draft'[w].account = draft[w].account /\ draft'[w].row = draft[w].row
           /\ draft'[w].term = draft[w].term /\ draft'[w].rule = draft[w].rule
           /\ pc[w] \notin {"fee", "balance"} => draft' = draft
<1>1. /\ pc \in [Workers -> Steps] /\ req \in [Workers -> Requests \cup {None}] /\ DOMAIN draft = Workers
      /\ DOMAIN draft[w] = DraftFields
  BY DEF LasInv, Manned
<1>2. CASE ReadFee(w) \/ ReadBalance(w)
  <2>1. PICK step, value : /\ Goto(w, step) /\ UNCHANGED <<req, account>> /\ draft' = [draft EXCEPT ![w].value = value]
                           /\ pc[w] \in {"fee", "balance"} /\ step \in {"pending", "post", "commit"}
    BY <1>2 DEF ReadFee, ReadBalance, lasdb, At
  <2> QED BY <1>1, <2>1 DEF Goto, DraftFields
<1>3. CASE SavePending(w) \/ PostToGL(w) \/ SaveFee(w) \/ SaveCorrection(w)
  <2>1. PICK step : /\ Goto(w, step) /\ UNCHANGED <<req, draft, account>>
                    /\ pc[w] \in {"pending", "post", "correct", "savefee", "savecorrection"}
                    /\ step \in {"post", "commit", "correct", "savefee", "savecorrection"}
    BY <1>3 DEF SavePending, PostToGL, SaveFee, SaveCorrection, At, Calling, lasdb, StepAfterPosting
  <2> QED BY <1>1, <2>1 DEF Goto
<1> QED BY <1>2, <1>3 DEF Works

LEMMA ReceiveTells ==
    ASSUME LasInv, NEW w \in Workers, NEW r \in Requests, Receive(w, r)
    PROVE  /\ UNCHANGED <<account, rows, book>>
           /\ \/ UNCHANGED job /\ pc[w] = "idle"
              \/ /\ ~IsReplay(r) /\ IsServable(r) /\ req'[w] = r /\ pc'[w] = FirstStep(r)
                 /\ r.op \in DOMAIN Required => draft'[w].row = rows[RowKey(r)]
                 /\ FirstStep(r) \in {"account", "pending", "commit"}
                 /\ FirstStep(r) = "pending" <=> r.op \in {"undo", "waive"}
                 /\ FirstStep(r) = "commit" => r.op = "notify" /\ draft'[w].rule = None
<1>1. UNCHANGED <<account, rows, book>> /\ pc[w] = "idle"
  BY DEF Receive, lasdb, At
<1>2. CASE UNCHANGED job
  BY <1>1, <1>2
<1>3. CASE ~UNCHANGED job
  <2>1. DOMAIN draft = Workers /\ DOMAIN draft[w] = DraftFields /\ pc \in [Workers -> Steps]
        /\ req \in [Workers -> Requests \cup {None}]
    BY DEF LasInv, Manned
  <2>2. /\ ~IsReplay(r) /\ IsServable(r) /\ Goto(w, FirstStep(r)) /\ req' = [req EXCEPT ![w] = r]
        /\ draft'[w].row = IF r.op \in DOMAIN Required THEN rows[RowKey(r)] ELSE None
        /\ draft'[w].rule = IF r.op \in DOMAIN RuleOf THEN RuleOf[r.op] ELSE None
    BY <1>3, <2>1 DEF Receive, DraftFields
  <2>3. /\ FirstStep(r) \in {"account", "pending", "commit"}
        /\ FirstStep(r) = "pending" <=> r.op \in {"undo", "waive"}
        /\ FirstStep(r) = "commit" => r.op = "notify"
    BY DEF FirstStep
  <2>4. r.op = "notify" => draft'[w].rule = None
    BY <2>2 DEF RuleOf
  <2> QED BY <1>1, <2>1, <2>2, <2>3, <2>4 DEF Goto
<1> QED BY <1>2, <1>3

LEMMA ReadAccountTells ==
    ASSUME LasInv, NEW w \in Workers, ReadAccount(w), ~Release(w)
    PROVE  LET r == req[w]
               a == account[AccountOf(w)]
           IN  /\ UNCHANGED <<account, rows, book>> /\ pc[w] = "account" /\ req' = req
               /\ draft'[w].account = a /\ draft'[w].row = draft[w].row
               /\ r.op \in {"create", "modify"} => draft'[w].term = CurrentTermVersion(r.acct)
               /\ \E settled : /\ Admits(r, a, settled) /\ pc'[w] = StepAfterAccount(r, a, settled)
                               /\ draft'[w].rule = IF r.op = "notify" THEN PaymentRule(r, a, settled)
                                                   ELSE draft[w].rule
<1> DEFINE r == req[w]
           a == account[AccountOf(w)]
<1>1. PICK known \in {quotes, {}} :
        LET settled == IF r.op = "notify" THEN Settled(r, known) ELSE {}
        IN  /\ Admits(r, a, settled)
            /\ Goto(w, StepAfterAccount(r, a, settled))
            /\ draft' = [draft EXCEPT
                 ![w].account = a,
                 ![w].term  = IF r.op \in {"create", "modify"} THEN CurrentTermVersion(r.acct) ELSE None,
                 ![w].rule  = IF r.op = "notify" THEN PaymentRule(r, a, settled) ELSE @,
                 ![w].value = IF r.op = "notify" THEN PaymentValue(r, a, settled) ELSE @]
            /\ UNCHANGED req
  BY DEF ReadAccount
<1>2. PICK settled : settled = IF r.op = "notify" THEN Settled(r, known) ELSE {}
  OBVIOUS
<1>3. DOMAIN draft = Workers /\ DOMAIN draft[w] = DraftFields /\ pc \in [Workers -> Steps]
  BY DEF LasInv, Manned
<1>4. /\ Admits(r, a, settled) /\ pc'[w] = StepAfterAccount(r, a, settled) /\ req' = req
      /\ draft'[w].account = a /\ draft'[w].row = draft[w].row
      /\ r.op \in {"create", "modify"} => draft'[w].term = CurrentTermVersion(r.acct)
      /\ draft'[w].rule = IF r.op = "notify" THEN PaymentRule(r, a, settled) ELSE draft[w].rule
  BY <1>1, <1>2, <1>3 DEF Goto, DraftFields
<1>5. UNCHANGED <<account, rows, book>> /\ pc[w] = "account"
  BY DEF ReadAccount, lasdb, At
<1> QED BY <1>4, <1>5

\* Who moves, and how.
LEMMA OneMoves ==
    ASSUME LasInv, NEW u \in Workers, Moves(u)
    PROVE  \/ \E r \in Requests : Receive(u, r)
           \/ ReadAccount(u) /\ ~Release(u)
           \/ Works(u) /\ ~Release(u)
           \/ AnswerLost(u)
           \/ Commit(u)
           \/ Release(u) /\ UNCHANGED <<account, rows>> /\ (UNCHANGED book \/ PostToGL(u))
<1>1. ReadAccount(u) \/ ReadFee(u) \/ ReadBalance(u) \/ IssueQuote(u) \/ GLRefuses(u) \/ GivesUp(u) =>
          UNCHANGED <<account, rows, book>>
  BY DEF ReadAccount, ReadFee, ReadBalance, IssueQuote, GLRefuses, GivesUp, lasdb
<1>2. PostToGL(u) => UNCHANGED <<account, rows>>
  BY DEF PostToGL, lasdb
<1>3. IssueQuote(u) \/ GLRefuses(u) \/ GivesUp(u) => Release(u)
  BY DEF IssueQuote, GLRefuses, GivesUp
<1>4. SavePending(u) \/ SaveFee(u) \/ SaveCorrection(u) => ~Release(u)
  <2>1. SavePending(u) \/ SaveFee(u) \/ SaveCorrection(u) => \E step : step # "idle" /\ Goto(u, step)
    BY DEF SavePending, SaveFee, SaveCorrection
  <2> QED BY <2>1 DEF Release, Goto, LasInv, Manned
<1> QED BY <1>1, <1>2, <1>3, <1>4 DEF Moves, Works

\* Nothing but a call to the GL changes the book, and it changes nothing else.
LEMMA BookMoves ==
    ASSUME LasInv, NEW u \in Workers, Moves(u)
    PROVE  \/ book' = book
           \/ Keeps(u) /\ pc[u] \in {"post", "correct"} /\ UNCHANGED <<account, rows>>
<1>1. \A r \in Requests : Receive(u, r) => book' = book
  BY DEF Receive
<1>2. ReadAccount(u) \/ ReadFee(u) \/ ReadBalance(u) \/ IssueQuote(u) => book' = book
  BY DEF ReadAccount, ReadFee, ReadBalance, IssueQuote
<1>3. SavePending(u) \/ SaveFee(u) \/ SaveCorrection(u) \/ Commit(u) \/ GLRefuses(u) \/ GivesUp(u) => book' = book
  BY DEF SavePending, SaveFee, SaveCorrection, Commit, GLRefuses, GivesUp
<1>4. PostToGL(u) \/ AnswerLost(u) => Keeps(u) /\ pc[u] \in {"post", "correct"} /\ UNCHANGED <<account, rows>>
  BY DEF PostToGL, AnswerLost, Calling, At, lasdb
<1> QED BY <1>1, <1>2, <1>3, <1>4 DEF Moves

\* Only a commit changes an account, and only a save a row.
LEMMA TablesMove ==
    ASSUME LasInv, NEW u \in Workers, Moves(u)
    PROVE  /\ account' = account \/ Commit(u)
           /\ rows' = rows \/ Commit(u) \/ SavePending(u) \/ SaveFee(u) \/ SaveCorrection(u)
<1>1. \A r \in Requests : Receive(u, r) => UNCHANGED <<account, rows>>
  BY DEF Receive, lasdb
<1>2. ReadAccount(u) \/ ReadFee(u) \/ ReadBalance(u) \/ IssueQuote(u) => UNCHANGED <<account, rows>>
  BY DEF ReadAccount, ReadFee, ReadBalance, IssueQuote, lasdb
<1>3. PostToGL(u) \/ GLRefuses(u) \/ AnswerLost(u) \/ GivesUp(u) => UNCHANGED <<account, rows>>
  BY DEF PostToGL, GLRefuses, AnswerLost, GivesUp, lasdb
<1>4. SavePending(u) \/ SaveFee(u) \/ SaveCorrection(u) => account' = account
  BY DEF SavePending, SaveFee, SaveCorrection
<1> QED BY <1>1, <1>2, <1>3, <1>4 DEF Moves

LEMMA Serves ==
    ASSUME LasInv, NEW w \in Workers, pc[w] # "idle", NEW r, r = req[w]
    PROVE  r \in Requests /\ Shaped(r) /\ pc[w] \in Path[r.op] /\ Plans(w) /\ HoldsRow(w) /\ HoldsAccount(w)
BY RequestsAssumption DEF LasInv, Where, InFlight

\* Only a request that is taken finds its worker idle.
LEMMA MovesAtWork ==
    ASSUME LasInv, NEW u \in Workers, Moves(u), pc[u] = "idle"
    PROVE  \E r \in Requests : Receive(u, r)
<1>1. ~(ReadAccount(u) \/ ReadFee(u) \/ ReadBalance(u) \/ IssueQuote(u))
  BY DEF ReadAccount, ReadFee, ReadBalance, IssueQuote, At
<1>2. ~(SavePending(u) \/ SaveFee(u) \/ SaveCorrection(u) \/ Commit(u))
  BY DEF SavePending, SaveFee, SaveCorrection, Commit, At
<1>3. ~(PostToGL(u) \/ GLRefuses(u) \/ AnswerLost(u) \/ GivesUp(u))
  BY DEF PostToGL, GLRefuses, AnswerLost, GivesUp, Calling, At
<1> QED BY <1>1, <1>2, <1>3 DEF Moves

-----------------------------------------------------------------------------
(* The rows a handler saves are of its account.                            *)

\* What a commit leaves of the tables: term versions it added, and one row.
Commits(k, row, T) ==
    /\ \A x \in T : x[1] = "terms" /\ x \notin DOMAIN rows
    /\ k[1] # "terms"
    /\ DOMAIN rows' = DOMAIN rows \cup T \cup {k}
    /\ \A x \in DOMAIN rows \ (T \cup {k}) : rows'[x] = rows[x]
    /\ rows'[k].status = row.status
    /\ rows'[k].acct = IF k \notin DOMAIN rows \/ k[1] = "repayment" THEN row.acct ELSE rows[k].acct

LEMMA CommitsOneRow ==
    ASSUME LasInv, NEW w \in Workers, pc[w] = "commit", req[w].op # "delinquency",
           NEW k, k = SavedRow(w)[1], NEW row, row = SavedRow(w)[2],
           rows' = Upsert(AddTermVersion(w), k, row)
    PROVE  \E T : Commits(k, row, T)
<1>2. PICK f : f = AddTermVersion(w)
  OBVIOUS
<1>3. PICK T : AddsTerms(f, T)
  BY <1>2, TermIsAdded
<1>4. /\ DOMAIN f = DOMAIN rows \cup T /\ T \cap DOMAIN rows = {}
      /\ \A x \in DOMAIN rows : f[x] = rows[x]
      /\ \A x \in T : x[1] = "terms" /\ RowFields \subseteq DOMAIN f[x]
  BY <1>3 DEF AddsTerms
<1>5. k[1] # "terms"
  <2>1. PICK r, d : r = req[w] /\ d = draft[w]
    OBVIOUS
  <2>2. /\ r.op \in Ops \ {"waive", "accrue", "quote", "delinquency"}
        /\ r.op = "notify" /\ d.rule # None => d.rule \in PaymentRules
    BY <2>1, AtCommit
  <2>3. CASE r.op = "notify"
    BY <2>1, <2>2, <2>3 DEF SavedRow, PaymentRules, PaymentTable
  <2>4. CASE r.op # "notify"
    <3>1. k = RowKey(r)
      BY <2>1, <2>2, <2>4 DEF SavedRow, Ops
    <3> QED BY <2>2, <2>4, <3>1 DEF RowKey, Table, Ops
  <2> QED BY <2>3, <2>4
<1>6. Saves(f, k, row)
  <2>1. RowFields \subseteq DOMAIN row
    BY SavedRowIsShaped
  <2>2. \A x \in DOMAIN rows : RowFields \subseteq DOMAIN rows[x]
    BY DEF LasInv, AtRest, Tabled
  <2>3. k \in DOMAIN f => RowFields \subseteq DOMAIN f[k]
    BY <1>4, <2>2
  <2>4. rows' = Upsert(f, k, row)
    BY <1>2
  <2> QED BY <2>1, <2>3, <2>4, Upserted
<1>7. (k \in DOMAIN f <=> k \in DOMAIN rows) /\ (k \in DOMAIN rows => f[k] = rows[k])
  BY <1>4, <1>5
<1>8. \A x \in DOMAIN rows \ (T \cup {k}) : rows'[x] = rows[x]
  BY <1>4, <1>6 DEF Saves
<1>9. Commits(k, row, T)
  BY <1>4, <1>5, <1>6, <1>7, <1>8 DEF Saves, Commits
<1> QED BY <1>9

\* The key a handler commits, and the status it gives it.
LEMMA CommitsAs ==
    ASSUME LasInv, NEW w \in Workers, pc[w] = "commit", req[w].op # "delinquency",
           NEW r, r = req[w], NEW k, k = SavedRow(w)[1], NEW row, row = SavedRow(w)[2]
    PROVE  /\ r.op \in {"create", "confirm", "reverse", "undo", "chargeoff", "modify", "notify"}
           /\ r.op = "create"  => k = <<"disbursement", r.id>> /\ row.status = "PendingDisbursement" /\ row.acct = r.acct
           /\ r.op = "confirm" => k = <<"disbursement", r.id>> /\ row.status = "Disbursed"
           /\ r.op = "reverse" => k = <<"disbursement", r.id>> /\ row.status = "Reversed"
           /\ r.op = "undo"    => k = <<"repayment", r.id>> /\ row.status \in {"Reversed", "Corrected"}
           /\ r.op = "chargeoff" => k = <<"chargeoff", r.id>>
           /\ r.op = "modify"  => k = <<"modification", r.id>>
           /\ r.op = "notify"  => k \in Named(r) /\ k[2] = r.id /\ k[1] \in {"repayment", "payoff", "recovery"}
<1>1. PICK d : d = draft[w]
  OBVIOUS
<1>2. /\ r.op \in Ops \ {"waive", "accrue", "quote", "delinquency"} /\ HoldsRow(w)
      /\ r.op = "notify" /\ d.rule # None => d.rule \in PaymentRules
  BY <1>1, AtCommit
<1>3. r.op \in {"create", "confirm", "reverse", "undo", "chargeoff", "modify", "notify"}
  BY <1>2 DEF Ops
<1>4. r.op \in {"confirm", "reverse", "undo"} => RowFields \subseteq DOMAIN draft[w].row
  BY <1>2 DEF HoldsRow, Required
<1>5. r.op = "create"  => k = <<"disbursement", r.id>> /\ row.status = "PendingDisbursement" /\ row.acct = r.acct
  BY DEF SavedRow, Row, RowKey, Table
<1>6. r.op \in {"confirm", "reverse"} =>
          k = <<"disbursement", r.id>> /\ row.status = IF r.op = "confirm" THEN "Disbursed" ELSE "Reversed"
  BY <1>4 DEF SavedRow, RowKey, Table, RowFields
<1>7. r.op = "undo" => k = <<"repayment", r.id>> /\ row.status \in {"Reversed", "Corrected"}
  BY <1>4 DEF SavedRow, RowKey, Table, RowFields
<1>8. /\ r.op = "chargeoff" => k = <<"chargeoff", r.id>>
      /\ r.op = "modify" => k = <<"modification", r.id>>
  BY DEF SavedRow, RowKey, Table
<1>9. r.op = "notify" => k \in Named(r) /\ k[2] = r.id /\ k[1] \in {"repayment", "payoff", "recovery"}
  <2>1. CASE r.op = "notify" /\ d.rule = None
    BY <1>1, <2>1 DEF SavedRow, Named
  <2>2. CASE r.op = "notify" /\ d.rule # None
    <3>1. PICK table : table = PaymentTable[d.rule]
      OBVIOUS
    <3>2. table \in {"repayment", "payoff", "recovery"}
      BY <1>2, <2>2, <3>1 DEF PaymentTable, PaymentRules
    <3>3. k = <<table, r.id>>
      BY <1>1, <2>2, <3>1 DEF SavedRow
    <3> QED BY <2>2, <3>2, <3>3 DEF Named
  <2> QED BY <2>1, <2>2
<1> QED BY <1>3, <1>5, <1>6, <1>7, <1>8, <1>9

Halted == {"ReversalPending", "Reversed", "Corrected"}

RowIn(k, statuses) == k \in DOMAIN rows /\ rows[k].status \in statuses

CorrectionOf(s) == <<"repayment", <<"correction", s.id>>>>

\* The id of a row that a correction saved, and never of a payment received.
IsCorrection(id) == \E s \in Requests : s.op = "undo" /\ id = <<"correction", s.id>>

\* The rows a handler may save.
Writes(u, k) ==
    /\ pc[u] # "idle"
    /\ \/ req[u].op \notin {"accrue", "quote"} /\ k \in Named(req[u])
       \/ req[u].op = "modify" /\ k = TermKey(u)
       \/ req[u].op = "undo" /\ k = CorrectionOf(req[u])

LEMMA InsertedApart ==
    ASSUME NEW f, NEW k, NEW row, NEW g, g = Insert(f, k, row), NEW x, x # k
    PROVE  (x \in DOMAIN g <=> x \in DOMAIN f) /\ (x \in DOMAIN f => g[x] = f[x])
BY DEF Insert

\* It leaves every other row as it is.
LEMMA OtherRowsStay ==
    ASSUME LasInv, NEW u \in Workers, Moves(u), NEW x, ~Writes(u, x)
    PROVE  (x \in DOMAIN rows' <=> x \in DOMAIN rows) /\ (x \in DOMAIN rows => rows'[x] = rows[x])
<1>1. PICK r : r = req[u]
  OBVIOUS
<1>2. CASE rows' = rows
  BY <1>2
<1>3. CASE SavePending(u) \/ SaveFee(u)
  <2>1. pc[u] \in {"pending", "savefee"}
    BY <1>3 DEF SavePending, SaveFee, At
  <2>2. r.op \in {"reverse", "undo", "chargeoff", "waive", "delinquency"}
    BY <1>1, <2>1, Serves DEF Shaped, Path, Table
  <2>3. x # RowKey(r)
    BY <1>1, <2>1, <2>2 DEF Writes, Named
  <2>4. PICK row : rows' = Upsert(rows, RowKey(r), row)
    BY <1>1, <1>3 DEF SavePending, SaveFee
  <2> QED BY <2>3, <2>4, InsertedApart DEF Upsert
<1>4. CASE SaveCorrection(u)
  <2>1. pc[u] = "savecorrection"
    BY <1>4 DEF SaveCorrection, At
  <2>2. r.op = "undo"
    BY <1>1, <2>1, Serves DEF Shaped, Path, Table
  <2>3. x # CorrectionOf(r)
    BY <1>1, <2>1, <2>2 DEF Writes
  <2>4. PICK row : rows' = Upsert(rows, CorrectionOf(r), row)
    BY <1>1, <1>4 DEF SaveCorrection, CorrectionOf
  <2> QED BY <2>3, <2>4, InsertedApart DEF Upsert
<1>5. CASE Commit(u) /\ rows' # rows
  <2>1. PICK f, k, row : f = AddTermVersion(u) /\ k = SavedRow(u)[1] /\ row = SavedRow(u)[2]
    OBVIOUS
  <2>2. pc[u] = "commit" /\ r.op # "delinquency" /\ rows' = Upsert(f, k, row)
    BY <1>1, <1>5, <2>1 DEF Commit, At, lasdb
  <2>3. k \in Named(r) /\ r.op \notin {"accrue", "quote"}
    BY <1>1, <2>1, <2>2, CommitsAs DEF Named, RowKey, Table
  <2>4. x # k
    BY <1>1, <2>2, <2>3 DEF Writes
  <2>5. (x \in DOMAIN f <=> x \in DOMAIN rows) /\ (x \in DOMAIN rows => f[x] = rows[x])
    <3>1. CASE f = rows
      BY <3>1
    <3>2. CASE f # rows
      <4>1. r.op = "modify"
        BY <1>1, <2>1, <3>2 DEF AddTermVersion
      <4>2. PICK term : f = Insert(rows, TermKey(u), term)
        BY <1>1, <2>1, <3>2 DEF AddTermVersion
      <4>3. x # TermKey(u)
        BY <1>1, <2>2, <4>1 DEF Writes
      <4> QED BY <4>2, <4>3, InsertedApart
    <3> QED BY <3>1, <3>2
  <2> QED BY <2>2, <2>4, <2>5, InsertedApart DEF Upsert
<1> QED BY <1>2, <1>3, <1>4, <1>5, TablesMove

LEMMA AskedOnce ==
    ASSUME NEW op \in {"create", "modify"}, NEW id, NEW a, NEW b, AskedFor(op, id, a), AskedFor(op, id, b)
    PROVE  a = b
BY RequestsAssumption DEF AskedFor, KeyOf, Reversals, Keyed

\* A disbursement and a modification are saved by handlers of their account.
LEMMA WrittenOnItsAccount ==
    ASSUME LasInv, NEW u \in Workers, NEW x, x[1] \in {"disbursement", "modification"}, Writes(u, x),
           NEW a, AskedFor(IF x[1] = "disbursement" THEN "create" ELSE "modify", x[2], a)
    PROVE  a = AccountOf(u)
<1>1. PICK r : r = req[u]
  OBVIOUS
<1>2. r \in Requests /\ Shaped(r) /\ HoldsRow(u)
  BY <1>1, Serves DEF Writes
<1>3. x = RowKey(r) /\ r.op \in DOMAIN Table
  BY <1>1, <1>2 DEF Writes, Named, TermKey, CorrectionOf, Shaped
<1>4. CASE r.op \in {"create", "modify"}
  <2>1. x = <<IF r.op = "create" THEN "disbursement" ELSE "modification", r.id>>
    BY <1>3, <1>4 DEF RowKey, Table
  <2>2. AskedFor(r.op, x[2], r.acct) /\ AskedFor(r.op, x[2], a)
    BY <1>2, <1>4, <2>1 DEF AskedFor
  <2>3. a = r.acct
    BY <1>4, <2>2, AskedOnce
  <2> QED BY <1>1, <1>4, <2>3 DEF AccountOf, Required
<1>5. CASE r.op \in {"confirm", "reverse"}
  <2>1. x[1] = "disbursement" /\ x \in DOMAIN rows /\ rows[x].acct = AccountOf(u)
    BY <1>1, <1>2, <1>3, <1>5 DEF HoldsRow, Required, AccountOf, RowKey, Table
  <2>2. AskedFor("create", x[2], rows[x].acct)
    BY <2>1 DEF LasInv, AtRest, RowsKeep
  <2> QED BY <2>1, <2>2, AskedOnce
<1>6. r.op \in {"create", "modify", "confirm", "reverse"}
  BY <1>3 DEF RowKey, Table
<1> QED BY <1>4, <1>5, <1>6

\* What the book has of a disbursement or a repayment is of the account whose
\* handler saves its row: the row of a correction is of no payment.
LEMMA BookedOnItsAccount ==
    ASSUME LasInv, NEW u \in Workers, NEW id, NEW a,
           \/ Writes(u, <<"disbursement", id>>) /\ <<"disb", id>> \in DOMAIN book /\ a = book[<<"disb", id>>].acct
           \/ Writes(u, <<"repayment", id>>) /\ <<"repay", id>> \in DOMAIN book /\ a = book[<<"repay", id>>].acct
    PROVE  a = AccountOf(u) /\ a \in Accounts
<1>1. PICK r : r = req[u]
  OBVIOUS
<1>2. CASE Writes(u, <<"disbursement", id>>) /\ <<"disb", id>> \in DOMAIN book /\ a = book[<<"disb", id>>].acct
  <2>1. PICK x, t : x = <<"disbursement", id>> /\ t = <<"disb", id>>
    OBVIOUS
  <2>2. t[1] = "disb" /\ t[2] = id /\ x[1] = "disbursement" /\ x[2] = id
    BY <2>1
  <2>3. x \in DOMAIN rows /\ a = rows[x].acct
    BY <1>2, <2>1, <2>2 DEF LasInv, AtRest, BookIsAsked
  <2>4. AskedFor("create", id, a) /\ a \in Accounts
    BY <2>2, <2>3 DEF LasInv, AtRest, RowsKeep
  <2> QED BY <1>2, <2>1, <2>2, <2>4, WrittenOnItsAccount
<1>3. CASE Writes(u, <<"repayment", id>>) /\ <<"repay", id>> \in DOMAIN book /\ a = book[<<"repay", id>>].acct
  <2>1. PICK x, t : x = <<"repayment", id>> /\ t = <<"repay", id>>
    OBVIOUS
  <2>2. t[1] = "repay" /\ t[2] = id /\ x[1] = "repayment" /\ x[2] = id /\ t \in DOMAIN book /\ a = book[t].acct
    BY <1>3, <2>1
  <2>3. PICK s \in Requests : AskedBy(t, s)
    BY <2>2 DEF LasInv, AtRest, BookIsAsked
  <2>4. s.op = "notify" /\ s.id = id /\ s.acct = a /\ a \in Accounts
    BY <2>2, <2>3 DEF AskedBy
  <2>5. r \in Requests /\ Shaped(r) /\ HoldsRow(u) /\ pc[u] # "idle"
    BY <1>1, <1>3, Serves DEF Writes
  <2>6. ~IsCorrection(id)
    BY <2>4, RequestsAssumption DEF IsCorrection
  <2>7. r.id = id /\ r.op \in {"notify", "undo"}
    <3>1. ~(r.op = "undo" /\ x = CorrectionOf(r))
      BY <2>1, <2>5, <2>6 DEF CorrectionOf, IsCorrection
    <3>2. r.op \notin {"accrue", "quote"} /\ x \in Named(r)
      BY <1>1, <1>3, <2>1, <2>2, <3>1 DEF Writes, TermKey
    <3> QED BY <2>1, <2>5, <3>2 DEF Named, RowKey, Table, Shaped
  <2>8. CASE r.op = "notify"
    <3>1. r.acct = s.acct
      BY <2>4, <2>5, <2>7, <2>8, RequestsAssumption DEF KeyOf, Keyed, Reversals
    <3> QED BY <1>1, <2>4, <2>8, <3>1 DEF AccountOf, Required
  <2>9. CASE r.op = "undo"
    <3>1. Has(t, {"REPAY01"}, draft[u].row.acct) \/ Corrects(id, draft[u].row.acct)
      BY <1>1, <2>1, <2>5, <2>7, <2>9 DEF HoldsRow, Required
    <3>2. ~Corrects(id, draft[u].row.acct)
      BY <2>6 DEF Corrects, IsCorrection
    <3>3. a = draft[u].row.acct
      BY <2>2, <3>1, <3>2 DEF Has
    <3> QED BY <1>1, <2>4, <2>9, <3>3 DEF AccountOf, Required
  <2> QED BY <2>7, <2>8, <2>9
<1> QED BY <1>2, <1>3

\* What a handler that nobody overlaps has read of its resource still holds;
\* a correction is not reversed, for the GL has no repayment of its id.
FreshRow(w) ==
    LET r == req[w]
    IN  pc[w] # "idle" =>
          /\ r.op \in {"create", "modify", "notify"} => Named(r) \cap DOMAIN rows = {}
          /\ r.op = "confirm" \/ (r.op = "reverse" /\ pc[w] \in {"account", "pending"}) =>
                 RowIn(RowKey(r), {Required[r.op]})
          /\ r.op = "reverse" /\ pc[w] \notin {"account", "pending"} => RowIn(RowKey(r), {"ReversalPending"})
          /\ r.op = "reverse" /\ pc[w] \in {"account", "pending", "post"} => ~Undone(<<"disb", r.id>>)
          /\ r.op = "undo" /\ ~IsCorrection(r.id) =>
                 /\ pc[w] # "pending" => RowIn(RowKey(r), {"ReversalPending"})
                 /\ pc[w] \in {"pending", "post"} => ~Undone(<<"repay", r.id>>)

\* A row that is marked as undone goes on being marked.
LEMMA HaltedStays ==
    ASSUME LasInv, NEW u \in Workers, Moves(u), NEW x, RowIn(x, Halted),
           x[1] = "disbursement" \/ (x[1] = "repayment" /\ ~IsCorrection(x[2])),
           Writes(u, x) => FreshRow(u)
    PROVE  RowIn(x, Halted)'
<1>1. PICK r : r = req[u]
  OBVIOUS
<1>2. CASE ~Writes(u, x)
  BY <1>2, OtherRowsStay DEF RowIn
<1>3. CASE Writes(u, x)
  <2>1. pc[u] # "idle" /\ FreshRow(u) /\ x \in DOMAIN rows
    BY <1>3 DEF Writes, RowIn
  <2>2. r \in Requests /\ Shaped(r) /\ pc[u] \in Path[r.op] /\ HoldsRow(u)
    BY <1>1, <2>1, Serves
  <2>3. CASE rows' = rows
    BY <2>3 DEF RowIn
  <2>4. CASE SavePending(u)
    <3>1. PICK k, row : /\ k = RowKey(r)
                        /\ row = IF r.op = "chargeoff" THEN Row("PendingChargeOff", r.acct, draft[u].value, None)
                                 ELSE [draft[u].row EXCEPT !.status = Pending[r.op]]
      OBVIOUS
    <3>2. pc[u] = "pending" /\ rows' = Upsert(rows, k, row)
      BY <1>1, <2>4, <3>1 DEF SavePending, At
    <3>3. r.op \in {"reverse", "undo", "chargeoff", "waive"}
      BY <2>2, <3>2 DEF Shaped, Path, Table
    <3>4. /\ RowFields \subseteq DOMAIN row
          /\ r.op \in {"reverse", "undo"} => row.status = "ReversalPending"
          /\ r.op \in {"chargeoff", "waive"} => k[1] \in {"chargeoff", "fee"}
      BY <1>1, <2>2, <3>1, <3>3 DEF HoldsRow, Required, Row, RowFields, Pending, RowKey, Table
    <3>5. Saves(rows, k, row)
      BY <3>2, <3>4, RowUpserted
    <3> QED BY <2>1, <3>3, <3>4, <3>5 DEF Saves, RowIn, Halted
  <2>5. CASE SaveFee(u)
    <3>1. PICK k, row : k = RowKey(r) /\ rows' = Upsert(rows, k, row)
      BY <1>1, <2>5 DEF SaveFee
    <3>2. r.op = "delinquency"
      BY <2>2, <2>5 DEF SaveFee, At, Shaped, Path, Table
    <3>3. k # x
      BY <3>1, <3>2 DEF RowKey, Table
    <3> QED BY <3>1, <3>3, InsertedApart DEF Upsert, RowIn
  <2>6. CASE SaveCorrection(u)
    <3>1. PICK k, row : k = CorrectionOf(r) /\ rows' = Upsert(rows, k, row)
      BY <1>1, <2>6 DEF SaveCorrection, CorrectionOf
    <3>2. r.op = "undo"
      BY <2>2, <2>6 DEF SaveCorrection, At, Shaped, Path, Table
    <3>3. k # x
      BY <2>2, <3>1, <3>2 DEF CorrectionOf, IsCorrection
    <3> QED BY <3>1, <3>3, InsertedApart DEF Upsert, RowIn
  <2>7. CASE Commit(u) /\ rows' # rows
    <3>1. PICK k, row : k = SavedRow(u)[1] /\ row = SavedRow(u)[2]
      OBVIOUS
    <3>2. pc[u] = "commit" /\ r.op # "delinquency" /\ rows' = Upsert(AddTermVersion(u), k, row)
      BY <1>1, <2>7, <3>1 DEF Commit, At, lasdb
    <3>3. PICK T : Commits(k, row, T)
      BY <1>1, <3>1, <3>2, CommitsOneRow
    <3>4. x # k => RowIn(x, Halted)'
      BY <3>3 DEF Commits, RowIn
    <3>5. ASSUME x = k PROVE row.status \in Halted
      <4>1. r.op \in {"create", "confirm", "reverse", "undo", "chargeoff", "modify", "notify"}
        BY <1>1, <3>1, <3>2, CommitsAs
      <4>2. r.op \notin {"create", "notify"}
        <5>1. r.op \in {"create", "notify"} => Named(r) \cap DOMAIN rows = {}
          BY <1>1, <2>1 DEF FreshRow
        <5>2. r.op \in {"create", "notify"} => k \in Named(r)
          BY <1>1, <3>1, <3>2, CommitsAs DEF Named, RowKey, Table
        <5> QED BY <2>1, <3>5, <5>1, <5>2
      <4>3. r.op # "confirm"
        <5>1. r.op = "confirm" => RowIn(RowKey(r), {Required[r.op]})
          BY <1>1, <2>1 DEF FreshRow
        <5>2. r.op = "confirm" => k = RowKey(r)
          BY <1>1, <3>1, <3>2, CommitsAs DEF RowKey, Table
        <5> QED BY <3>5, <5>1, <5>2 DEF Required, RowIn, Halted
      <4>4. r.op \notin {"chargeoff", "modify"}
        BY <1>1, <3>1, <3>2, <3>5, CommitsAs
      <4> QED BY <1>1, <3>1, <3>2, <4>1, <4>2, <4>3, <4>4, CommitsAs DEF Halted
    <3> QED BY <3>3, <3>4, <3>5 DEF Commits, RowIn
  <2> QED BY <2>3, <2>4, <2>5, <2>6, <2>7, TablesMove
<1> QED BY <1>2, <1>3

-----------------------------------------------------------------------------
(* What a handler posts.                                                   *)

\* What a handler posts: a repayment or a correction, or what its operation
\* posts, on the account it is about.
Asks(w, r, d, p) ==
    /\ pc[w] = "post" /\ p.acct = AccountOf(w)
    /\ r.op \in {"confirm", "reverse", "undo", "chargeoff", "delinquency", "modify", "notify", "accrue"}
    /\ r.op \in DOMAIN RuleOf => p.rule = RuleOf[r.op]
    /\ r.op = "notify" => p.rule = d.rule /\ d.rule \in {"PAYOFF01", "CHGOFF02"} /\ r.acct \in Accounts
    /\ p.target = CASE r.op = "reverse" -> <<"disb", r.id>>
                    [] r.op = "undo"    -> <<"repay", r.id>>
                    [] OTHER            -> None

LEMMA PostingIsAsked ==
    ASSUME LasInv, NEW w \in Workers, pc[w] \in {"post", "correct"}, Keeps(w),
           NEW r, r = req[w], NEW d, d = draft[w], NEW p, p = Call(w)[2]
    PROVE  (p.rule = "REPAY01" /\ p.target = None) \/ Asks(w, r, d, p)
<1>1. CASE pc[w] = "correct"
  BY <1>1 DEF Call
<1>2. CASE pc[w] = "post"
  <2>1. p.target = TargetOf(w) /\ p.rule = d.rule /\ p.acct = AccountOf(w)
    BY <1>2 DEF Call
  <2>2. /\ r \in Requests /\ Shaped(r) /\ pc[w] \in Path[r.op] /\ Plans(w)
    BY <1>2, RequestsAssumption DEF LasInv, Where, InFlight
  <2>3. /\ r.op \in {"confirm", "reverse", "undo", "chargeoff", "delinquency", "modify", "notify", "accrue"}
        /\ r.op \in DOMAIN RuleOf => d.rule = RuleOf[r.op]
        /\ r.op = "notify" => d.rule \in PaymentRules /\ r.acct \in Accounts
    BY <1>2, <2>2, WaiversAreRefused DEF Shaped, Path, Table, Plans
  <2>4. CASE r.op \in {"reverse", "undo"}
    <3>1. p.target = CASE r.op = "reverse" -> <<"disb", r.id>>
                       [] r.op = "undo"    -> <<"repay", r.id>>
                       [] OTHER            -> None
      BY <2>1, <2>3, <2>4 DEF TargetOf, RuleOf
    <3> QED BY <1>2, <2>1, <2>3, <2>4, <3>1 DEF Asks
  <2>5. CASE r.op \notin {"reverse", "undo"}
    <3>1. d.rule \notin {"DISB02", "REPAY02", "DELINQ02"}
      BY <2>3, <2>5 DEF RuleOf, PaymentRules
    <3>2. p.target = None
      BY <2>1, <3>1 DEF TargetOf
    <3> QED BY <1>2, <2>1, <2>3, <2>5, <3>2 DEF Asks, PaymentRules
  <2> QED BY <2>4, <2>5
<1> QED BY <1>1, <1>2

LEMMA BookStays ==
    ASSUME LasInv, NEW u \in Workers, Moves(u), NEW k \in DOMAIN book
    PROVE  k \in DOMAIN book' /\ book'[k] = book[k]
BY BookMoves, KeepsIsKept DEF BookKeeps

LEMMA NewPosting ==
    ASSUME LasInv, NEW u \in Workers, Moves(u), NEW k \in DOMAIN book' \ DOMAIN book, NEW p, p = book'[k]
    PROVE  /\ pc[u] \in {"post", "correct"} /\ Keeps(u) /\ UNCHANGED <<account, rows>>
           /\ k = Call(u)[1] /\ p = Call(u)[2] /\ GLAccepts(p)
           /\ (p.rule = "REPAY01" /\ p.target = None) \/ Asks(u, req[u], draft[u], p)
<1>1. Keeps(u) /\ pc[u] \in {"post", "correct"} /\ UNCHANGED <<account, rows>>
  BY BookMoves
<1>2. k = Call(u)[1] /\ p = Call(u)[2] /\ GLAccepts(p)
  BY <1>1, KeepsIsKept DEF BookKeeps
<1> QED BY <1>1, <1>2, PostingIsAsked

\* The GL has no repayment under the id of a correction.
LEMMA RepaidIsNoCorrection ==
    ASSUME LasInv, NEW id, <<"repay", id>> \in DOMAIN book
    PROVE  ~IsCorrection(id)
<1>1. PICK t : t = <<"repay", id>>
  OBVIOUS
<1>2. t[1] = "repay" /\ t[2] = id /\ t \in DOMAIN book
  BY <1>1
<1>3. PICK s \in Requests : AskedBy(t, s)
  BY <1>2 DEF LasInv, AtRest, BookIsAsked
<1>4. s.op = "notify" /\ s.id = id
  BY <1>2, <1>3 DEF AskedBy
<1> QED BY <1>4, RequestsAssumption DEF IsCorrection

\* A reversal undoes a posting of its handler's account.
LEMMA UndoesItsOwn ==
    ASSUME LasInv, NEW u \in Workers, Moves(u), NEW t, t # None, Undone(t)', ~Undone(t), NEW r, r = req[u]
    PROVE  /\ pc[u] = "post" /\ UNCHANGED <<account, rows>>
           /\ r \in Requests /\ r.op \in {"reverse", "undo"}
           /\ t = IF r.op = "reverse" THEN <<"disb", r.id>> ELSE <<"repay", r.id>>
           /\ t \in DOMAIN book /\ book[t].acct = AccountOf(u) /\ AccountOf(u) \in Accounts
           /\ r.op = "undo" => ~IsCorrection(r.id)
<1>1. PICK k, p : k \in DOMAIN book' /\ p = book'[k] /\ p.target = t
  BY DEF Undone
<1>2. k \notin DOMAIN book
  BY <1>1, BookStays DEF Undone
<1>3. Asks(u, r, draft[u], p) /\ GLAccepts(p) /\ UNCHANGED <<account, rows>>
  BY <1>1, <1>2, NewPosting
<1>4. /\ pc[u] = "post" /\ r.op \in {"reverse", "undo"}
      /\ t = IF r.op = "reverse" THEN <<"disb", r.id>> ELSE <<"repay", r.id>>
  BY <1>1, <1>3 DEF Asks
<1>5. t \in DOMAIN book
  BY <1>1, <1>3 DEF GLAccepts
<1>6. r \in Requests
  BY <1>4, Serves
<1>7. CASE r.op = "reverse"
  <2>1. Writes(u, <<"disbursement", r.id>>)
    BY <1>4, <1>7 DEF Writes, Named, RowKey, Table
  <2> QED BY <1>3, <1>4, <1>5, <1>6, <1>7, <2>1, BookedOnItsAccount
<1>8. CASE r.op = "undo"
  <2>1. Writes(u, <<"repayment", r.id>>)
    BY <1>4, <1>8 DEF Writes, Named, RowKey, Table
  <2> QED BY <1>3, <1>4, <1>5, <1>6, <1>8, <2>1, BookedOnItsAccount, RepaidIsNoCorrection
<1> QED BY <1>4, <1>7, <1>8

\* What was undone on an account is marked so.
Marked(a) ==
    \A r \in Requests :
        /\ <<"disb", r.id>> \in DOMAIN book /\ book[<<"disb", r.id>>].acct = a /\ Undone(<<"disb", r.id>>) =>
               RowIn(<<"disbursement", r.id>>, Halted)
        /\ <<"repay", r.id>> \in DOMAIN book /\ book[<<"repay", r.id>>].acct = a /\ Undone(<<"repay", r.id>>) =>
               RowIn(<<"repayment", r.id>>, Halted)

LEMMA MarkedStays ==
    ASSUME LasInv, TypesInv, NEW u \in Workers, Moves(u), NEW a, Marked(a),
           pc[u] # "idle" /\ a = AccountOf(u) => FreshRow(u)
    PROVE  Marked(a)'
<1>1. ASSUME NEW s \in Requests, NEW t, NEW x,
             \/ t = <<"disb", s.id>> /\ x = <<"disbursement", s.id>>
             \/ t = <<"repay", s.id>> /\ x = <<"repayment", s.id>>,
             t \in DOMAIN book', book'[t].acct = a, Undone(t)'
      PROVE  RowIn(x, Halted)'
  <2>1. t # None
    BY <1>1, NoneIsNothing
  <2>2. PICK r : r = req[u]
    OBVIOUS
  <2>3. CASE Undone(t)
    <3>1. t \in DOMAIN book
      BY <2>1, <2>3 DEF Undone, TypesInv, TypedBook
    <3>2. book[t].acct = a
      BY <1>1, <3>1, BookStays
    <3>3. RowIn(x, Halted)
      BY <1>1, <2>3, <3>1, <3>2 DEF Marked
    <3>4. x[1] = "disbursement" \/ (x[1] = "repayment" /\ ~IsCorrection(x[2]))
      BY <1>1, <3>1, RepaidIsNoCorrection
    <3>5. Writes(u, x) => FreshRow(u)
      <4>1. Writes(u, x) => pc[u] # "idle"
        BY DEF Writes
      <4>2. Writes(u, x) => a = AccountOf(u)
        BY <1>1, <3>1, <3>2, BookedOnItsAccount
      <4> QED BY <4>1, <4>2
    <3> QED BY <3>3, <3>4, <3>5, HaltedStays
  <2>4. CASE ~Undone(t)
    <3>1. /\ pc[u] = "post" /\ rows' = rows
          /\ r.op \in {"reverse", "undo"} /\ t = IF r.op = "reverse" THEN <<"disb", r.id>> ELSE <<"repay", r.id>>
          /\ t \in DOMAIN book /\ book[t].acct = AccountOf(u)
          /\ r.op = "undo" => ~IsCorrection(r.id)
      BY <1>1, <2>1, <2>2, <2>4, UndoesItsOwn
    <3>2. a = AccountOf(u)
      BY <1>1, <3>1, BookStays
    <3>3. RowIn(RowKey(r), {"ReversalPending"})
      BY <2>2, <3>1, <3>2 DEF FreshRow
    <3>4. x = RowKey(r)
      BY <1>1, <3>1 DEF RowKey, Table
    <3> QED BY <3>1, <3>3, <3>4 DEF RowIn, Halted
  <2> QED BY <2>3, <2>4
<1> QED BY <1>1 DEF Marked

\* The row that a handler has read is not saved by one of another account.
LEMMA NamedApart ==
    ASSUME LasInv, NEW w \in Workers, NEW u \in Workers, pc[w] # "idle", pc[u] # "idle",
           AccountOf(w) \in Accounts, AccountOf(w) # AccountOf(u), FreshRow(w), NEW r, r = req[w],
           NEW x \in Named(r),
           r.op \in {"create", "modify", "notify", "confirm", "reverse"} \/ (r.op = "undo" /\ ~IsCorrection(r.id))
    PROVE  ~Writes(u, x)
<1>1. r \in Requests /\ Shaped(r) /\ HoldsRow(w)
  BY Serves
<1>2. CASE r.op \in {"create", "modify"}
  <2>1. x = <<Table[r.op], r.id>> /\ Table[r.op] = IF r.op = "create" THEN "disbursement" ELSE "modification"
    BY <1>2 DEF Named, RowKey, Table
  <2>2. AskedFor(r.op, r.id, r.acct) /\ AccountOf(w) = r.acct
    BY <1>1, <1>2 DEF AskedFor, AccountOf, Required
  <2> QED BY <1>2, <2>1, <2>2, WrittenOnItsAccount
<1>3. CASE r.op \in {"confirm", "reverse"}
  <2>1. x = <<"disbursement", r.id>>
    BY <1>3 DEF Named, RowKey, Table
  <2>2. x \in DOMAIN rows /\ AccountOf(w) = rows[x].acct
    BY <1>1, <1>3, <2>1 DEF AccountOf, Required, HoldsRow, RowKey, Table
  <2>3. AskedFor("create", r.id, AccountOf(w))
    BY <2>1, <2>2 DEF LasInv, AtRest, RowsKeep
  <2> QED BY <2>1, <2>3, WrittenOnItsAccount
<1>4. CASE r.op = "undo" /\ ~IsCorrection(r.id)
  <2>1. x = <<"repayment", r.id>>
    BY <1>4 DEF Named, RowKey, Table
  <2>2. Has(<<"repay", r.id>>, {"REPAY01"}, AccountOf(w)) \/ Corrects(r.id, AccountOf(w))
    BY <1>1, <1>4 DEF HoldsRow, Required, AccountOf
  <2>3. ~Corrects(r.id, AccountOf(w))
    BY <1>4 DEF Corrects, IsCorrection
  <2>4. <<"repay", r.id>> \in DOMAIN book /\ book[<<"repay", r.id>>].acct = AccountOf(w)
    BY <2>2, <2>3 DEF Has
  <2> QED BY <2>1, <2>4, BookedOnItsAccount
<1>5. CASE r.op = "notify"
  <2>1. SUFFICES ASSUME Writes(u, x) PROVE FALSE
    OBVIOUS
  <2>2. PICK s : s = req[u]
    OBVIOUS
  <2>3. s \in Requests /\ Shaped(s) /\ HoldsRow(u)
    BY <2>2, Serves
  <2>4. x[1] \in {"repayment", "payoff", "recovery"} /\ x[2] = r.id /\ x \notin DOMAIN rows
    BY <1>5 DEF Named, FreshRow
  <2>5. ~(s.op = "undo" /\ x = CorrectionOf(s))
    BY <1>1, <1>5, <2>3, <2>4, RequestsAssumption DEF CorrectionOf
  <2>6. s.op \notin {"accrue", "quote"} /\ x \in Named(s)
    BY <2>1, <2>2, <2>4, <2>5 DEF Writes, TermKey
  <2>7. CASE s.op = "notify"
    <3>1. s.id = r.id
      BY <2>4, <2>6, <2>7 DEF Named
    <3>2. s.acct = r.acct
      BY <1>1, <1>5, <2>3, <2>7, <3>1, RequestsAssumption DEF KeyOf, Keyed, Reversals
    <3> QED BY <1>5, <2>2, <2>7, <3>2 DEF AccountOf, Required
  <2>8. CASE s.op # "notify"
    <3>1. x = RowKey(s)
      BY <2>6, <2>8 DEF Named
    <3>2. s.op = "undo"
      BY <2>3, <2>4, <2>6, <2>8, <3>1 DEF RowKey, Table, Shaped
    <3> QED BY <2>2, <2>3, <2>4, <3>1, <3>2 DEF HoldsRow, Required
  <2> QED BY <2>7, <2>8
<1> QED BY <1>2, <1>3, <1>4, <1>5

LEMMA OthersRowStays ==
    ASSUME LasInv, NEW u \in Workers, Moves(u), NEW w \in Workers \ {u}, AccountOf(w) \in Accounts,
           pc[w] # "idle" => FreshRow(w), pc[u] # "idle" => AccountOf(w) # AccountOf(u)
    PROVE  FreshRow(w)'
<1>1. PICK r : r = req[w] /\ r = req'[w]
  BY OthersRest DEF OthersStay
<1>2. pc'[w] = pc[w]
  BY OthersRest DEF OthersStay
<1>3. SUFFICES ASSUME pc[w] # "idle" PROVE FreshRow(w)'
  BY <1>2 DEF FreshRow
<1>4. r \in Requests /\ Shaped(r) /\ HoldsRow(w) /\ FreshRow(w)
  BY <1>1, <1>3, Serves
<1>5. ASSUME NEW x \in Named(r),
             r.op \in {"create", "modify", "notify", "confirm", "reverse"} \/ (r.op = "undo" /\ ~IsCorrection(r.id))
      PROVE  (x \in DOMAIN rows' <=> x \in DOMAIN rows) /\ (x \in DOMAIN rows => rows'[x] = rows[x])
  <2>1. ~Writes(u, x)
    <3>1. CASE pc[u] = "idle"
      BY <3>1 DEF Writes
    <3>2. CASE pc[u] # "idle"
      BY <1>1, <1>3, <1>4, <1>5, <3>2, NamedApart
    <3> QED BY <3>1, <3>2
  <2> QED BY <2>1, OtherRowsStay
<1>6. r.op \in {"confirm", "reverse", "undo"} => RowKey(r) \in Named(r)
  BY DEF Named
<1>7. ASSUME NEW statuses, r.op \in {"confirm", "reverse"} \/ (r.op = "undo" /\ ~IsCorrection(r.id)),
             RowIn(RowKey(r), statuses)
      PROVE  RowIn(RowKey(r), statuses)'
  BY <1>5, <1>6, <1>7 DEF RowIn
<1>8. r.op \in {"create", "modify", "notify"} /\ Named(r) \cap DOMAIN rows = {} => Named(r) \cap DOMAIN rows' = {}
  BY <1>5
<1>9. ASSUME NEW t, \/ r.op = "reverse" /\ t = <<"disb", r.id>>
                    \/ r.op = "undo" /\ ~IsCorrection(r.id) /\ t = <<"repay", r.id>>,
             ~Undone(t)
      PROVE  ~Undone(t)'
  <2>1. SUFFICES ASSUME Undone(t)' PROVE FALSE
    OBVIOUS
  <2>2. t # None
    BY <1>4, <1>9, NoneIsNothing
  <2>3. t \in DOMAIN book /\ book[t].acct = AccountOf(u) /\ pc[u] = "post"
    BY <1>9, <2>1, <2>2, UndoesItsOwn
  <2>4. Has(t, {"DISB01"}, AccountOf(w)) \/ Has(t, {"REPAY01"}, AccountOf(w))
    BY <1>1, <1>4, <1>9 DEF HoldsRow, Required, AccountOf, Corrects, IsCorrection
  <2> QED BY <2>3, <2>4 DEF Has
<1> QED BY <1>1, <1>2, <1>4, <1>7, <1>8, <1>9 DEF FreshRow, Named, RowKey

-----------------------------------------------------------------------------
(* What a handler has read of its account and of its resource still holds  *)
(* when it moves itself.                                                   *)

LEMMA Returns ==
    ASSUME LasInv, NEW w \in Workers, Release(w)
    PROVE  pc'[w] = "idle"
BY DEF LasInv, Manned, Release, Goto

\* What a handler that nobody overlaps has read of its account still holds.
FreshAccount(w) ==
    LET r == req[w]
        d == draft[w]
    IN  pc[w] \notin {"idle", "account"} =>
          /\ r.op \in DOMAIN Into \cup {"delinquency", "modify"} \/ IsPayoff(w) =>
                d.account = account[AccountOf(w)]
          /\ r.op \in {"create", "confirm", "reverse"} => CanTransition(d.account.status, Into[r.op])

LEMMA FreshAccountStep ==
    ASSUME LasInv, NEW w \in Workers, FreshAccount(w), Moves(w)
    PROVE  FreshAccount(w)'
<1>2. CASE Release(w)
  BY <1>2, Returns DEF FreshAccount
<1>3. ASSUME NEW r \in Requests, Receive(w, r) PROVE FreshAccount(w)'
  <2>1. CASE UNCHANGED job /\ pc[w] = "idle"
    BY <2>1 DEF FreshAccount, job
  <2>2. CASE ~(UNCHANGED job /\ pc[w] = "idle")
    <3>1. /\ req'[w] = r /\ pc'[w] \in {"account", "pending", "commit"}
          /\ pc'[w] = "pending" => r.op \in {"undo", "waive"}
          /\ pc'[w] = "commit" => r.op = "notify" /\ draft'[w].rule = None
      BY <1>3, <2>2, ReceiveTells
    <3> QED BY <3>1, NoneIsNothing DEF FreshAccount, IsPayoff, Into, Prefix
  <2> QED BY <2>1, <2>2
<1>4. CASE ReadAccount(w) /\ ~Release(w)
  <2>1. PICK r, a : r = req[w] /\ a = account[AccountOf(w)]
    OBVIOUS
  <2>2. /\ account' = account /\ req' = req /\ draft'[w].account = a /\ draft'[w].row = draft[w].row
        /\ \E settled : Admits(r, a, settled)
    BY <1>4, <2>1, ReadAccountTells
  <2>3. AccountOf(w)' = AccountOf(w)
    BY <2>2 DEF AccountOf
  <2>4. r.op \in {"create", "confirm", "reverse"} => CanTransition(a.status, Into[r.op])
    BY <2>2 DEF Admits, Into
  <2> QED BY <2>1, <2>2, <2>3, <2>4 DEF FreshAccount
<1>5. CASE Works(w) /\ ~Release(w)
  BY <1>5, WorkKeepsTheDraft DEF FreshAccount, AccountOf, IsPayoff
<1>6. AnswerLost(w) \/ Commit(w) => Release(w)
  BY DEF AnswerLost, Commit
<1> QED BY <1>2, <1>3, <1>4, <1>5, <1>6, OneMoves

\* What let a handler through still holds of its account when it posts.
StillAdmitted(w) ==
    LET r == req[w]
        a == account[AccountOf(w)]
    IN  pc[w] \notin {"idle", "account"} =>
          /\ r.op = "delinquency" => a.status \notin Terminal
          /\ r.op \in {"accrue", "modify"} => a.status = "Disbursed"
          /\ r.op = "notify" /\ draft[w].rule = "CHGOFF02" => a.status = "ChargedOff"

LEMMA StillAdmittedStep ==
    ASSUME LasInv, NEW w \in Workers, StillAdmitted(w), Moves(w)
    PROVE  StillAdmitted(w)'
<1>2. CASE Release(w)
  BY <1>2, Returns DEF StillAdmitted
<1>3. ASSUME NEW r \in Requests, Receive(w, r) PROVE StillAdmitted(w)'
  <2>1. CASE UNCHANGED job /\ pc[w] = "idle"
    BY <2>1 DEF StillAdmitted, job
  <2>2. CASE ~(UNCHANGED job /\ pc[w] = "idle")
    <3>1. /\ req'[w] = r /\ pc'[w] \in {"account", "pending", "commit"}
          /\ pc'[w] = "pending" => r.op \in {"undo", "waive"}
          /\ pc'[w] = "commit" => r.op = "notify" /\ draft'[w].rule = None
      BY <1>3, <2>2, ReceiveTells
    <3> QED BY <3>1, NoneIsNothing DEF StillAdmitted, Prefix
  <2> QED BY <2>1, <2>2
<1>4. CASE ReadAccount(w) /\ ~Release(w)
  <2>1. PICK r, a : r = req[w] /\ a = account[AccountOf(w)]
    OBVIOUS
  <2>2. /\ account' = account /\ req' = req /\ draft'[w].row = draft[w].row
        /\ \E settled : /\ Admits(r, a, settled)
                        /\ r.op = "notify" => draft'[w].rule = PaymentRule(r, a, settled)
    BY <1>4, <2>1, ReadAccountTells
  <2>3. AccountOf(w)' = AccountOf(w)
    BY <2>2 DEF AccountOf
  <2>4. /\ r.op = "delinquency" => a.status \notin Terminal
        /\ r.op \in {"accrue", "modify"} => a.status = "Disbursed"
    BY <2>2 DEF Admits, Into
  <2>5. r.op = "notify" /\ draft'[w].rule = "CHGOFF02" => a.status = "ChargedOff"
    BY <2>2 DEF PaymentRule, IsRecovery
  <2> QED BY <2>1, <2>2, <2>3, <2>4, <2>5 DEF StillAdmitted
<1>5. CASE Works(w) /\ ~Release(w)
  BY <1>5, WorkKeepsTheDraft DEF StillAdmitted, AccountOf
<1>6. AnswerLost(w) \/ Commit(w) => Release(w)
  BY DEF AnswerLost, Commit
<1> QED BY <1>2, <1>3, <1>4, <1>5, <1>6, OneMoves

\* The value a handler takes from the balance of its account is still that.
FreshValue(w) ==
    \/ pc[w] = "post" /\ req[w].op = "notify" /\ draft[w].rule = "REPAY01"
    \/ pc[w] \in {"pending", "post"} /\ req[w].op = "chargeoff"
    => draft[w].value = ValueOf(req[w], Owed(AccountOf(w)))

LEMMA OwedStays ==
    ASSUME UNCHANGED book, NEW a
    PROVE  Owed(a)' = Owed(a)
BY DEF Owed, Effect, ForwardEffect

LEMMA FreshValueStep ==
    ASSUME LasInv, NEW w \in Workers, FreshValue(w), Moves(w)
    PROVE  FreshValue(w)'
<1>2. CASE Release(w)
  BY <1>2, Returns DEF FreshValue
<1>3. ASSUME NEW r \in Requests, Receive(w, r) PROVE FreshValue(w)'
  <2>1. CASE UNCHANGED job /\ pc[w] = "idle"
    BY <2>1 DEF FreshValue, job
  <2>2. CASE ~(UNCHANGED job /\ pc[w] = "idle")
    <3>1. /\ req'[w] = r /\ pc'[w] \in {"account", "pending", "commit"}
          /\ pc'[w] = "pending" => r.op \in {"undo", "waive"}
      BY <1>3, <2>2, ReceiveTells
    <3> QED BY <3>1 DEF FreshValue
  <2> QED BY <2>1, <2>2
<1>4. CASE ReadAccount(w) /\ ~Release(w)
  <2>1. PICK r, a : r = req[w] /\ a = account[AccountOf(w)]
    OBVIOUS
  <2>2. PICK settled : /\ req' = req /\ pc'[w] = StepAfterAccount(r, a, settled)
                       /\ r.op = "notify" => draft'[w].rule = PaymentRule(r, a, settled)
    BY <1>4, <2>1, ReadAccountTells
  <2>3. r.op = "chargeoff" => pc'[w] = "balance"
    BY <2>2 DEF StepAfterAccount
  <2>4. r.op = "notify" /\ pc'[w] = "post" => draft'[w].rule # "REPAY01"
    BY <2>2 DEF StepAfterAccount, PaymentRule
  <2> QED BY <2>1, <2>2, <2>3, <2>4 DEF FreshValue
<1>5. CASE Works(w) /\ ~Release(w)
  <2>1. /\ pc[w] \notin {"idle", "account", "commit"} /\ req' = req /\ draft'[w].row = draft[w].row
        /\ draft'[w].rule = draft[w].rule
        /\ pc[w] \notin {"fee", "balance"} => draft' = draft
    BY <1>5, WorkKeepsTheDraft
  <2>2. pc[w] \in Path[req[w].op] /\ req[w] \in Requests /\ Shaped(req[w])
    BY <2>1, RequestsAssumption DEF LasInv, Where
  <2>3. PICK a : a = AccountOf(w) /\ a = AccountOf(w)'
    BY <2>1 DEF AccountOf
  <2>4. CASE ReadBalance(w)
    <3>1. draft'[w].value = ValueOf(req[w], Owed(a)) /\ UNCHANGED book
      <4>1. UNCHANGED book /\ draft' = [draft EXCEPT ![w].value = ValueOf(req[w], Owed(AccountOf(w)))]
        BY <1>5, <2>4 DEF ReadBalance
      <4> QED BY <2>3, <4>1 DEF LasInv, Manned, DraftFields
    <3>2. Owed(a)' = Owed(a)
      BY <3>1, OwedStays
    <3> QED BY <2>1, <2>3, <3>1, <3>2 DEF FreshValue, ValueOf
  <2>5. CASE SavePending(w)
    <3>1. UNCHANGED <<book, req, draft>> /\ pc[w] = "pending"
      BY <2>5 DEF SavePending, At
    <3>2. Owed(a)' = Owed(a)
      BY <3>1, OwedStays
    <3>3. req[w].op # "notify"
      BY <2>2, <3>1 DEF Path
    <3> QED BY <2>3, <3>1, <3>2, <3>3 DEF FreshValue, ValueOf
  <2>6. CASE ReadFee(w) \/ SaveFee(w)
    <3>1. pc[w] \in {"fee", "savefee"}
      BY <2>6 DEF ReadFee, SaveFee, At
    <3> QED BY <2>1, <2>2, <3>1 DEF FreshValue, Path, Shaped, Table
  <2>7. CASE PostToGL(w) \/ SaveCorrection(w)
    <3>1. pc'[w] # "post" /\ pc'[w] # "pending"
      <4>1. \E step : Goto(w, step) /\ step \notin {"post", "pending"}
        BY <1>5, <2>7 DEF PostToGL, SaveCorrection, StepAfterPosting
      <4> QED BY <4>1 DEF Goto, LasInv, Manned
    <3> QED BY <3>1 DEF FreshValue
  <2> QED BY <1>5, <2>4, <2>5, <2>6, <2>7 DEF Works
<1>6. AnswerLost(w) \/ Commit(w) => Release(w)
  BY DEF AnswerLost, Commit
<1> QED BY <1>2, <1>3, <1>4, <1>5, <1>6, OneMoves

\* A request is taken in a state of its account in which what was undone is
\* marked, so what it finds unmarked was not undone.
LEMMA ReceivesFresh ==
    ASSUME LasInv, TypesInv, NEW w \in Workers, NEW r \in Requests, Receive(w, r), ~UNCHANGED job,
           NEW a, a = AccountOf(w)', Marked(a)
    PROVE  FreshRow(w)'
<1>1. /\ ~IsReplay(r) /\ IsServable(r) /\ req'[w] = r /\ pc'[w] = FirstStep(r)
      /\ FirstStep(r) \in {"account", "pending", "commit"}
      /\ FirstStep(r) = "pending" <=> r.op \in {"undo", "waive"}
      /\ FirstStep(r) = "commit" => r.op = "notify"
      /\ r.op \in DOMAIN Required => draft'[w].row = rows[RowKey(r)]
      /\ UNCHANGED <<rows, book>>
  <2>1. ~(UNCHANGED job /\ pc[w] = "idle")
    OBVIOUS
  <2> QED BY <2>1, ReceiveTells
<1>2. r.op \in {"create", "modify", "notify"} => Named(r) \cap DOMAIN rows = {}
  BY <1>1 DEF IsReplay
<1>3. r.op \in {"confirm", "reverse", "undo"} =>
          RowIn(RowKey(r), {Required[r.op]}) /\ a = rows[RowKey(r)].acct
  BY <1>1 DEF IsServable, RowIn, Required, AccountOf
<1>4. /\ r.op \in {"confirm", "reverse"} => RowKey(r) = <<"disbursement", r.id>>
      /\ r.op = "undo" => RowKey(r) = <<"repayment", r.id>>
  BY DEF RowKey, Table
<1>5. ASSUME NEW t, t # None, Undone(t) PROVE t \in DOMAIN book
  BY <1>5 DEF Undone, TypesInv, TypedBook
<1>6. r.op = "reverse" => ~Undone(<<"disb", r.id>>)
  <2>1. SUFFICES ASSUME r.op = "reverse", Undone(<<"disb", r.id>>) PROVE FALSE
    OBVIOUS
  <2>2. PICK t, x : t = <<"disb", r.id>> /\ x = <<"disbursement", r.id>>
    OBVIOUS
  <2>3. t \in DOMAIN book /\ t[1] = "disb" /\ t[2] = r.id
    BY <1>5, <2>1, <2>2, NoneIsNothing
  <2>4. book[t].acct = rows[x].acct
    BY <2>2, <2>3 DEF LasInv, AtRest, BookIsAsked
  <2>5. RowIn(x, Halted)
    BY <1>3, <1>4, <2>1, <2>2, <2>3, <2>4 DEF Marked
  <2> QED BY <1>3, <1>4, <2>1, <2>2, <2>5 DEF RowIn, Halted, Required
<1>7. r.op = "undo" /\ ~IsCorrection(r.id) => ~Undone(<<"repay", r.id>>)
  <2>1. SUFFICES ASSUME r.op = "undo", ~IsCorrection(r.id), Undone(<<"repay", r.id>>) PROVE FALSE
    OBVIOUS
  <2>2. PICK t, x : t = <<"repay", r.id>> /\ x = <<"repayment", r.id>>
    OBVIOUS
  <2>3. x \in DOMAIN rows /\ rows[x].status = "Posted" /\ a = rows[x].acct /\ x[1] = "repayment" /\ x[2] = r.id
    BY <1>3, <1>4, <2>1, <2>2 DEF RowIn, Required
  <2>4. Has(t, {"REPAY01"}, a) \/ Corrects(r.id, a)
    <3>1. Founded(x)
      BY <2>3 DEF LasInv, AtRest, RowsAreBehindTheBook
    <3> QED BY <2>2, <2>3, <3>1 DEF Founded
  <2>5. ~Corrects(r.id, a)
    BY <2>1 DEF Corrects, IsCorrection
  <2>6. RowIn(x, Halted)
    BY <2>1, <2>2, <2>4, <2>5 DEF Has, Marked
  <2> QED BY <2>3, <2>6 DEF RowIn, Halted
<1>8. /\ \A k, s : RowIn(k, s) => RowIn(k, s)'
      /\ \A t : Undone(t)' <=> Undone(t)
  BY <1>1 DEF RowIn, Undone
<1> QED BY <1>1, <1>2, <1>3, <1>6, <1>7, <1>8 DEF FreshRow, Named, RowKey

LEMMA FreshRowStep ==
    ASSUME LasInv, TypesInv, NEW w \in Workers, FreshRow(w), Moves(w), NEW a, a = AccountOf(w)', Marked(a)
    PROVE  FreshRow(w)'
<1>1. PICK r : r = req[w]
  OBVIOUS
<1>2. CASE Release(w)
  BY <1>2, Returns DEF FreshRow
<1>3. ASSUME NEW s \in Requests, Receive(w, s) PROVE FreshRow(w)'
  <2>1. CASE UNCHANGED job
    <3>1. UNCHANGED <<rows, book>>
      BY <1>3 DEF Receive, lasdb
    <3> QED BY <2>1, <3>1 DEF job, FreshRow, RowIn, Undone, Named, RowKey, IsCorrection
  <2>2. CASE ~UNCHANGED job
    BY <1>3, <2>2, ReceivesFresh
  <2> QED BY <2>1, <2>2
<1>4. CASE ReadAccount(w) /\ ~Release(w)
  <2>1. PICK a0 : a0 = account[AccountOf(w)]
    OBVIOUS
  <2>2. PICK settled : pc[w] = "account" /\ req' = req /\ pc'[w] = StepAfterAccount(r, a0, settled)
    BY <1>1, <1>4, <2>1, ReadAccountTells
  <2>3. r.op # "undo"
    BY <1>1, <2>2, Serves DEF Path
  <2>4. r.op = "reverse" => pc'[w] = "pending"
    BY <2>2 DEF StepAfterAccount
  <2>5. UNCHANGED <<rows, book>>
    BY <1>4 DEF ReadAccount, lasdb
  <2> QED BY <1>1, <2>2, <2>3, <2>4, <2>5 DEF FreshRow, RowIn, Undone, Named, RowKey
<1>5. CASE (ReadFee(w) \/ ReadBalance(w)) /\ ~Release(w)
  <2>1. pc[w] \in {"fee", "balance"} /\ req' = req /\ UNCHANGED <<rows, book>>
    BY <1>5 DEF ReadFee, ReadBalance, At, lasdb
  <2>2. r.op \notin {"confirm", "reverse", "undo"}
    BY <1>1, <2>1, Serves DEF Path
  <2> QED BY <1>1, <2>1, <2>2 DEF FreshRow, Named, RowKey
<1>6. CASE PostToGL(w) /\ ~Release(w)
  <2>1. /\ pc[w] \in {"post", "correct"} /\ Goto(w, StepAfterPosting(w)) /\ UNCHANGED <<req, rows>>
    BY <1>6 DEF PostToGL, Calling, At, lasdb
  <2>2. PICK step : step = pc'[w] /\ step \in {"commit", "correct", "savefee", "savecorrection"}
    BY <2>1 DEF Goto, StepAfterPosting, LasInv, Manned
  <2> QED BY <1>1, <2>1, <2>2 DEF FreshRow, RowIn, RowKey, Named
<1>7. CASE SavePending(w)
  <2>1. PICK k, row : /\ k = RowKey(r)
                      /\ row = IF r.op = "chargeoff" THEN Row("PendingChargeOff", r.acct, draft[w].value, None)
                               ELSE [draft[w].row EXCEPT !.status = Pending[r.op]]
    OBVIOUS
  <2>2. pc[w] = "pending" /\ rows' = Upsert(rows, k, row) /\ pc'[w] = "post" /\ UNCHANGED <<book, req>>
    BY <1>1, <1>7, <2>1 DEF SavePending, At, Goto, LasInv, Manned
  <2>3. r \in Requests /\ Shaped(r) /\ pc[w] \in Path[r.op] /\ HoldsRow(w)
    BY <1>1, <2>2, Serves
  <2>4. r.op \in {"reverse", "undo", "chargeoff", "waive"}
    BY <2>2, <2>3 DEF Shaped, Path, Table
  <2>5. /\ RowFields \subseteq DOMAIN row
        /\ r.op \in {"reverse", "undo"} => row.status = "ReversalPending"
    BY <1>1, <2>1, <2>3, <2>4 DEF HoldsRow, Required, Row, RowFields, Pending
  <2>6. Saves(rows, k, row)
    BY <2>2, <2>5, RowUpserted
  <2>7. r.op \in {"reverse", "undo"} => RowIn(k, {"ReversalPending"})'
    BY <2>5, <2>6 DEF Saves, RowIn
  <2>8. \A t : Undone(t)' <=> Undone(t)
    BY <2>2 DEF Undone
  <2> QED BY <1>1, <2>1, <2>2, <2>4, <2>7, <2>8 DEF FreshRow, RowKey
<1>8. CASE SaveFee(w)
  <2>1. pc[w] = "savefee" /\ req' = req
    BY <1>8 DEF SaveFee, At
  <2>2. r.op = "delinquency"
    BY <1>1, <2>1, Serves DEF Shaped, Path, Table
  <2> QED BY <1>1, <2>1, <2>2 DEF FreshRow
<1>9. CASE SaveCorrection(w)
  <2>1. PICK k, row : k = CorrectionOf(r) /\ rows' = Upsert(rows, k, row)
    BY <1>1, <1>9 DEF SaveCorrection, CorrectionOf
  <2>2. pc[w] = "savecorrection" /\ pc'[w] = "commit" /\ req' = req
    BY <1>9 DEF SaveCorrection, At, Goto, LasInv, Manned
  <2>3. r.op = "undo" /\ r \in Requests
    BY <1>1, <2>2, Serves DEF Shaped, Path, Table
  <2>4. ~IsCorrection(r.id) => RowKey(r) # k
    BY <2>1, <2>3 DEF RowKey, CorrectionOf, IsCorrection
  <2>5. ~IsCorrection(r.id) => RowIn(RowKey(r), {"ReversalPending"})
    BY <1>1, <2>2, <2>3 DEF FreshRow
  <2>6. ~IsCorrection(r.id) => RowIn(RowKey(r), {"ReversalPending"})'
    BY <2>1, <2>4, <2>5, InsertedApart DEF Upsert, RowIn
  <2> QED BY <1>1, <2>2, <2>3, <2>6 DEF FreshRow, RowKey, IsCorrection
<1>10. AnswerLost(w) \/ Commit(w) => Release(w)
  BY DEF AnswerLost, Commit
<1> QED BY <1>2, <1>3, <1>4, <1>5, <1>6, <1>7, <1>8, <1>9, <1>10, OneMoves DEF Works

-----------------------------------------------------------------------------
(* What a handler has read still holds when one of another account moves.  *)

LEMMA OtherAccountsStay ==
    ASSUME LasInv, NEW u \in Workers, Moves(u), NEW a \in Accounts, pc[u] # "idle" => a # AccountOf(u)
    PROVE  account'[a] = account[a]
<1>1. CASE account' = account
  BY <1>1
<1>2. CASE Commit(u) /\ account' # account
  <2>1. pc[u] = "commit" /\ account' = [account EXCEPT ![AccountOf(u)] = SavedAccount(u)]
    BY <1>2 DEF Commit, At, lasdb
  <2>2. DOMAIN account = Accounts
    BY DEF LasInv, AtRest, Tabled
  <2> QED BY <2>1, <2>2
<1> QED BY <1>1, <1>2, TablesMove

LEMMA OthersAccountStays ==
    ASSUME LasInv, NEW u \in Workers, Moves(u), NEW w \in Workers \ {u}, FreshAccount(w), StillAdmitted(w),
           pc[w] # "idle" => AccountOf(w) \in Accounts /\ (pc[u] # "idle" => AccountOf(w) # AccountOf(u))
    PROVE  FreshAccount(w)' /\ StillAdmitted(w)'
<1>1. pc'[w] = pc[w] /\ req'[w] = req[w] /\ draft'[w] = draft[w]
  BY OthersRest DEF OthersStay
<1>2. CASE pc[w] = "idle"
  BY <1>1, <1>2 DEF FreshAccount, StillAdmitted
<1>3. CASE pc[w] # "idle"
  <2>1. PICK a : a = AccountOf(w) /\ a = AccountOf(w)' /\ a \in Accounts
    BY <1>1, <1>3 DEF AccountOf
  <2>2. account'[a] = account[a]
    BY <1>3, <2>1, OtherAccountsStay
  <2>3. FreshAccount(w)'
    BY <1>1, <2>1, <2>2 DEF FreshAccount, IsPayoff
  <2>4. StillAdmitted(w)'
    BY <1>1, <2>1, <2>2 DEF StillAdmitted
  <2> QED BY <2>3, <2>4
<1> QED BY <1>2, <1>3

\* A posting is made on the account of its handler, or on the one a correction goes to.
LEMMA PostsOnWhatItTouches ==
    ASSUME LasInv, NEW u \in Workers, Moves(u), NEW k \in DOMAIN book' \ DOMAIN book
    PROVE  book'[k].acct \in Touches(u)
<1>1. pc[u] \in {"post", "correct"} /\ book'[k] = Call(u)[2]
  BY NewPosting
<1>2. pc[u] = "correct" => req[u].op = "undo"
  BY Serves DEF Shaped, Path, Table
<1>3. book'[k].acct = IF pc[u] = "correct" THEN req[u].to ELSE AccountOf(u)
  BY <1>1 DEF Call
<1> QED BY <1>1, <1>2, <1>3 DEF Touches

LEMMA OwedApart ==
    ASSUME LasInv, TypesInv, NEW u \in Workers, Moves(u), NEW a, a \notin Touches(u)
    PROVE  Owed(a)' = Owed(a)
<1>1. PICK keys : keys = {k \in DOMAIN book : book[k].acct = a}
  OBVIOUS
<1>2. keys = {k \in DOMAIN book' : book'[k].acct = a}
  BY <1>1, BookStays, PostsOnWhatItTouches
<1>3. ASSUME NEW k \in keys PROVE Effect(book[k])' = Effect(book[k])
  <2>1. k \in DOMAIN book /\ book'[k] = book[k] /\ book[k].target \in {None} \cup DOMAIN book
    BY <1>1, <1>3, BookStays DEF TypesInv, TypedBook
  <2>2. book[k].target # None => book'[book[k].target] = book[book[k].target]
    BY <2>1, BookStays
  <2> QED BY <2>1, <2>2 DEF Effect
<1>4. ASSUME NEW c PROVE [k \in keys |-> Effect(book[k])'[c]] = [k \in keys |-> Effect(book[k])[c]]
  BY <1>3
<1> QED BY <1>1, <1>2, <1>4 DEF Owed

LEMMA OthersValueStays ==
    ASSUME LasInv, TypesInv, NEW u \in Workers, Moves(u), NEW w \in Workers \ {u}, FreshValue(w),
           pc[w] # "idle" => AccountOf(w) \notin Touches(u)
    PROVE  FreshValue(w)'
<1>1. pc'[w] = pc[w] /\ req'[w] = req[w] /\ draft'[w] = draft[w]
  BY OthersRest DEF OthersStay
<1>2. CASE pc[w] = "idle"
  BY <1>1, <1>2 DEF FreshValue
<1>3. CASE pc[w] # "idle"
  <2>1. PICK a : a = AccountOf(w) /\ a = AccountOf(w)'
    BY <1>1 DEF AccountOf
  <2>2. Owed(a)' = Owed(a)
    BY <1>3, <2>1, OwedApart
  <2> QED BY <1>1, <2>1, <2>2 DEF FreshValue, ValueOf
<1> QED BY <1>2, <1>3

-----------------------------------------------------------------------------
(* What a handler that nobody overlaps applies and undoes.                 *)

\* What the GL newly books in the name of a payment or of a charge-off is what
\* its handler split from the balance the account still has.
LEMMA AppliesStep ==
    ASSUME LasInv, TypesInv, NEW u \in Workers, Moves(u),
           NEW k \in DOMAIN book' \ DOMAIN book, k[1] = "repay" \/ book'[k].rule = "CHGOFF01",
           book'[k].acct = AccountOf(u) => FreshValue(u),
           NEW owed, owed = Owed(book'[k].acct)
    PROVE  \A c \in DOMAIN owed : book'[k].value[c] > 0 => book'[k].value[c] <= owed[c]
<1>1. PICK r, d, p : r = req[u] /\ d = draft[u] /\ p = book'[k]
  OBVIOUS
<1>2. pc[u] \in {"post", "correct"} /\ k = Call(u)[1] /\ p = Call(u)[2]
  BY <1>1, NewPosting
<1>3. r \in Requests /\ Shaped(r) /\ pc[u] \in Path[r.op] /\ Plans(u)
  BY <1>1, <1>2, Serves
<1>4. pc[u] = "post"
  <2>1. pc[u] = "correct" => k[1] = "correction" /\ p.rule = "REPAY01"
    BY <1>1, <1>2 DEF Call
  <2> QED BY <1>1, <1>2, <2>1
<1>5. k = SourceEvent(d.rule, r) /\ p.rule = d.rule /\ p.value = d.value /\ p.acct = AccountOf(u)
  BY <1>1, <1>2, <1>4 DEF Call
<1>6. (r.op = "notify" /\ d.rule = "REPAY01") \/ r.op = "chargeoff"
  <2>1. r.op \in {"confirm", "reverse", "undo", "chargeoff", "waive", "delinquency", "modify", "notify", "accrue"}
    BY <1>3, <1>4 DEF Shaped, Path, Table
  <2>2. /\ r.op \in DOMAIN RuleOf => d.rule = RuleOf[r.op]
        /\ r.op = "notify" => d.rule \in PaymentRules
    BY <1>1, <1>3, <1>4 DEF Plans
  <2>3. Prefix[d.rule] = "repay" \/ d.rule = "CHGOFF01"
    BY <1>1, <1>5 DEF SourceEvent
  <2> QED BY <2>1, <2>2, <2>3 DEF RuleOf, Prefix, PaymentRules
<1>7. d.value = ValueOf(r, owed)
  BY <1>1, <1>4, <1>5, <1>6 DEF FreshValue
<1>8. owed \in Values
  BY OwedTyped DEF TypesInv
<1>9. DOMAIN owed = {"fee", "interest", "principal"}
  BY <1>8 DEF Values
<1>10. CASE r.op = "notify"
  <2>1. d.value = Waterfall(r.amount, owed) /\ r.amount \in Int
    BY <1>3, <1>7, <1>10 DEF ValueOf, Shaped
  <2> QED BY <1>1, <1>5, <1>8, <1>9, <2>1, WaterfallTyped
<1>11. CASE r.op = "chargeoff"
  <2>1. d.value = owed
    BY <1>7, <1>11 DEF ValueOf
  <2>2. \A c \in DOMAIN owed : owed[c] \in Int
    BY <1>8 DEF Values
  <2> QED BY <1>1, <1>5, <2>1, <2>2
<1> QED BY <1>6, <1>10, <1>11

LEMMA ReversedOnceStep ==
    ASSUME LasInv, NEW u \in Workers, Moves(u), ReversedOnce, contended \subseteq contended',
           AccountOf(u) \in Accounts \ contended /\ pc[u] = "post" => FreshRow(u)
    PROVE  ReversedOnce'
<1>1. ASSUME NEW i \in DOMAIN book' \ DOMAIN book, book'[i].target # None, book'[i].acct \notin contended
      PROVE  ~Undone(book'[i].target) /\ i = Call(u)[1]
  <2>1. PICK r, p, t : r = req[u] /\ p = book'[i] /\ t = p.target
    OBVIOUS
  <2>2. Asks(u, r, draft[u], p) /\ i = Call(u)[1] /\ p = Call(u)[2] /\ GLAccepts(p)
    BY <1>1, <2>1, NewPosting
  <2>3. /\ pc[u] = "post" /\ r.op \in {"reverse", "undo"}
        /\ t = IF r.op = "reverse" THEN <<"disb", r.id>> ELSE <<"repay", r.id>>
    BY <1>1, <2>1, <2>2 DEF Asks
  <2>4. FreshRow(u)
    <3>1. t \in DOMAIN book
      BY <1>1, <2>1, <2>2 DEF GLAccepts
    <3>2. /\ r.op = "reverse" => Writes(u, <<"disbursement", r.id>>) /\ t = <<"disb", r.id>>
          /\ r.op = "undo" => Writes(u, <<"repayment", r.id>>) /\ t = <<"repay", r.id>>
      BY <2>1, <2>3 DEF Writes, Named, RowKey, Table
    <3>3. AccountOf(u) \in Accounts
      <4>1. CASE r.op = "reverse"
        BY <3>1, <3>2, <4>1, BookedOnItsAccount
      <4>2. CASE r.op = "undo"
        BY <3>1, <3>2, <4>2, BookedOnItsAccount
      <4> QED BY <2>3, <4>1, <4>2
    <3> QED BY <1>1, <2>1, <2>2, <2>3, <3>3 DEF Call
  <2>5. r.op = "undo" => ~IsCorrection(r.id)
    BY <1>1, <2>1, <2>2, <2>3, RepaidIsNoCorrection DEF GLAccepts
  <2> QED BY <2>1, <2>2, <2>3, <2>4, <2>5 DEF FreshRow
<1>2. SUFFICES ASSUME NEW i \in DOMAIN book', NEW j \in DOMAIN book',
                      book'[i].target # None, book'[i].target = book'[j].target,
                      book'[i].acct \notin contended, book'[j].acct \notin contended
               PROVE  i = j
  BY DEF ReversedOnce
<1>3. CASE i \in DOMAIN book /\ j \in DOMAIN book
  BY <1>2, <1>3, BookStays DEF ReversedOnce
<1>4. CASE i \notin DOMAIN book
  BY <1>1, <1>2, <1>4, BookStays DEF Undone
<1>5. CASE j \notin DOMAIN book
  BY <1>1, <1>2, <1>5, BookStays DEF Undone
<1> QED BY <1>3, <1>4, <1>5

-----------------------------------------------------------------------------
(* One loan out.                                                           *)

LiveOn(x, a) ==
    /\ x[1] = "disbursement" /\ RowIn(x, {"PendingDisbursement", "Disbursed", "ReversalPending"})
    /\ rows[x].acct = a

\* An account has one disbursement on its way or out, and none while it is
\* Approved; a disbursement that is posted and not undone is on its way or out.
LoansOut(a) ==
    /\ \A j, k \in DOMAIN rows : LiveOn(j, a) /\ LiveOn(k, a) => j = k
    /\ \A k \in DOMAIN rows : LiveOn(k, a) => account[a].status # "Approved"
    /\ \A k \in DOMAIN book : book[k].acct = a /\ book[k].rule = "DISB01" =>
          /\ k = <<"disb", k[2]>>
          /\ Undone(k) \/ LiveOn(<<"disbursement", k[2]>>, a)

\* A disbursement is no longer out only when it was undone, and an account is
\* Approved again only when it has none.
LEMMA LoansStayOut ==
    ASSUME NEW a, LoansOut(a),
           \A k \in DOMAIN book' : book'[k].acct = a /\ book'[k].rule = "DISB01" =>
               k \in DOMAIN book /\ book'[k] = book[k],
           \A k : Undone(k) => Undone(k)',
           \A x : LiveOn(x, a)' => LiveOn(x, a),
           \A x : LiveOn(x, a) => LiveOn(x, a)' \/ Undone(<<"disb", x[2]>>),
           \A x : LiveOn(x, a)' /\ account'[a].status = "Approved" => account[a].status = "Approved"
    PROVE  LoansOut(a)'
<1>1. \A x : LiveOn(x, a) => x \in DOMAIN rows
  BY DEF LiveOn, RowIn
<1>2. ASSUME NEW j \in DOMAIN rows', NEW k \in DOMAIN rows', LiveOn(j, a)', LiveOn(k, a)' PROVE j = k
  BY <1>1, <1>2 DEF LoansOut
<1>3. ASSUME NEW k \in DOMAIN rows', LiveOn(k, a)' PROVE account'[a].status # "Approved"
  BY <1>1, <1>3 DEF LoansOut
<1>4. ASSUME NEW k \in DOMAIN book', book'[k].acct = a, book'[k].rule = "DISB01"
      PROVE  k = <<"disb", k[2]>> /\ (Undone(k)' \/ LiveOn(<<"disbursement", k[2]>>, a)')
  <2>1. k = <<"disb", k[2]>> /\ (Undone(k) \/ LiveOn(<<"disbursement", k[2]>>, a))
    BY <1>4 DEF LoansOut
  <2>2. PICK i : i = k[2]
    OBVIOUS
  <2>3. PICK x : x = <<"disbursement", i>>
    OBVIOUS
  <2>4. LiveOn(x, a) => LiveOn(x, a)' \/ Undone(<<"disb", i>>)
    <3>1. x[2] = i
      BY <2>3
    <3> QED BY <3>1
  <2>5. LiveOn(<<"disbursement", k[2]>>, a)' <=> LiveOn(x, a)'
    BY <2>2, <2>3
  <2> QED BY <2>1, <2>2, <2>3, <2>4, <2>5
<1> QED BY <1>2, <1>3, <1>4 DEF LoansOut

LEMMA UndoneStays ==
    ASSUME LasInv, NEW u \in Workers, Moves(u), NEW k, Undone(k)
    PROVE  Undone(k)'
BY BookStays DEF Undone

\* A disbursement is posted on the account of its handler.
LEMMA DisbursesItsOwn ==
    ASSUME LasInv, NEW u \in Workers, Moves(u), NEW k \in DOMAIN book' \ DOMAIN book, book'[k].rule = "DISB01"
    PROVE  /\ pc[u] = "post" /\ req[u].op = "confirm" /\ book'[k].acct = AccountOf(u)
           /\ k = <<"disb", req[u].id>> /\ UNCHANGED <<account, rows>>
<1>1. PICK r, p : r = req[u] /\ p = book'[k]
  OBVIOUS
<1>2. Asks(u, r, draft[u], p) /\ k = Call(u)[1] /\ p = Call(u)[2] /\ UNCHANGED <<account, rows>>
  BY <1>1, NewPosting
<1>3. pc[u] = "post" /\ r.op = "confirm" /\ p.acct = AccountOf(u)
  BY <1>1, <1>2 DEF Asks, RuleOf
<1>4. k = <<"disb", r.id>>
  <2>1. draft[u].rule = "DISB01"
    BY <1>1, <1>2, <1>3 DEF Call
  <2> QED BY <1>1, <1>2, <1>3, <2>1 DEF Call, SourceEvent, Prefix, KeyOf, Reversals
<1> QED BY <1>1, <1>2, <1>3, <1>4

LEMMA LiveApart ==
    ASSUME LasInv, LasInv', NEW u \in Workers, Moves(u), NEW a, pc[u] # "idle" => a # AccountOf(u), NEW x
    PROVE  LiveOn(x, a)' <=> LiveOn(x, a)
<1>1. ASSUME x[1] = "disbursement", AskedFor("create", x[2], a) PROVE ~Writes(u, x)
  <2>1. Writes(u, x) => a = AccountOf(u)
    BY <1>1, WrittenOnItsAccount
  <2> QED BY <2>1 DEF Writes
<1>2. CASE LiveOn(x, a)
  <2>1. x[1] = "disbursement" /\ AskedFor("create", x[2], a)
    BY <1>2 DEF LiveOn, RowIn, LasInv, AtRest, RowsKeep
  <2> QED BY <1>1, <1>2, <2>1, OtherRowsStay DEF LiveOn, RowIn
<1>3. CASE LiveOn(x, a)'
  <2>1. x[1] = "disbursement" /\ AskedFor("create", x[2], a)
    <3>1. x \in DOMAIN rows' /\ rows'[x].acct = a /\ x[1] = "disbursement"
      BY <1>3 DEF LiveOn, RowIn
    <3>2. RowsKeep'
      BY DEF LasInv, AtRest
    <3> QED BY <3>1, <3>2 DEF RowsKeep, AskedFor
  <2> QED BY <1>1, <1>3, <2>1, OtherRowsStay DEF LiveOn, RowIn
<1> QED BY <1>2, <1>3

LEMMA LoansOutApart ==
    ASSUME LasInv, LasInv', NEW u \in Workers, Moves(u), NEW a \in Accounts, LoansOut(a),
           pc[u] # "idle" => a # AccountOf(u)
    PROVE  LoansOut(a)'
<1>1. \A x : LiveOn(x, a)' <=> LiveOn(x, a)
  BY LiveApart
<1>2. account'[a] = account[a]
  BY OtherAccountsStay
<1>3. ASSUME NEW k \in DOMAIN book', book'[k].acct = a, book'[k].rule = "DISB01"
      PROVE  k \in DOMAIN book /\ book'[k] = book[k]
  BY <1>3, BookStays, DisbursesItsOwn
<1> QED BY <1>1, <1>2, <1>3, UndoneStays, LoansStayOut

LEMMA PostLeavesLoansOut ==
    ASSUME LasInv, NEW u \in Workers, Moves(u), NEW a, LoansOut(a), a = AccountOf(u), FreshRow(u),
           UNCHANGED <<account, rows>>
    PROVE  LoansOut(a)'
<1>1. \A x : LiveOn(x, a)' <=> LiveOn(x, a)
  BY DEF LiveOn, RowIn
<1>2. ASSUME NEW k \in DOMAIN book', book'[k].acct = a, book'[k].rule = "DISB01"
      PROVE  k = <<"disb", k[2]>> /\ (Undone(k)' \/ LiveOn(<<"disbursement", k[2]>>, a))
  <2>1. CASE k \in DOMAIN book
    <3>1. book'[k] = book[k]
      BY <2>1, BookStays
    <3>2. k = <<"disb", k[2]>> /\ (Undone(k) \/ LiveOn(<<"disbursement", k[2]>>, a))
      BY <1>2, <2>1, <3>1 DEF LoansOut
    <3> QED BY <3>2, UndoneStays
  <2>2. CASE k \notin DOMAIN book
    <3>1. PICK r, x : r = req[u] /\ x = <<"disbursement", r.id>>
      OBVIOUS
    <3>2. pc[u] = "post" /\ r.op = "confirm" /\ k = <<"disb", r.id>>
      BY <1>2, <2>2, <3>1, DisbursesItsOwn
    <3>3. RowKey(r) = x
      BY <3>1, <3>2 DEF RowKey, Table
    <3>4. RowIn(x, {"PendingDisbursement"})
      BY <3>1, <3>2, <3>3 DEF FreshRow, Required
    <3>5. rows[x].acct = a
      BY <3>1, <3>2, <3>3, Serves DEF HoldsRow, Required, AccountOf
    <3> QED BY <3>1, <3>2, <3>4, <3>5 DEF LiveOn, RowIn
  <2> QED BY <2>1, <2>2
<1>3. ASSUME NEW k PROVE LiveOn(<<"disbursement", k[2]>>, a)' <=> LiveOn(<<"disbursement", k[2]>>, a)
  BY <1>1
<1> QED BY <1>1, <1>2, <1>3 DEF LoansOut

LEMMA SaveLeavesLoansOut ==
    ASSUME LasInv, NEW u \in Workers, NEW a, LoansOut(a), FreshRow(u), SavePending(u) \/ SaveFee(u) \/ SaveCorrection(u)
    PROVE  LoansOut(a)'
<1>1. PICK r, d : r = req[u] /\ d = draft[u]
  OBVIOUS
<1>2. pc[u] # "idle" /\ UNCHANGED <<book, account>>
  BY DEF SavePending, SaveFee, SaveCorrection, At
<1>3. r \in Requests /\ Shaped(r) /\ pc[u] \in Path[r.op] /\ HoldsRow(u)
  BY <1>1, <1>2, Serves
<1>4. PICK k, row : /\ Saves(rows, k, row)
                    /\ k[1] = "disbursement" => /\ row.status = "ReversalPending" /\ k \in DOMAIN rows
                                                /\ rows[k].status = "Disbursed"
  <2>1. CASE SavePending(u)
    <3>1. PICK k, row : /\ k = RowKey(r)
                        /\ row = IF r.op = "chargeoff" THEN Row("PendingChargeOff", r.acct, d.value, None)
                                 ELSE [d.row EXCEPT !.status = Pending[r.op]]
      OBVIOUS
    <3>2. pc[u] = "pending" /\ rows' = Upsert(rows, k, row)
      BY <1>1, <2>1, <3>1 DEF SavePending, At
    <3>3. r.op \in {"reverse", "undo", "chargeoff", "waive"}
      BY <1>3, <3>2 DEF Shaped, Path, Table
    <3>4. /\ RowFields \subseteq DOMAIN row
          /\ r.op = "reverse" => row.status = "ReversalPending"
          /\ r.op # "reverse" => k[1] # "disbursement"
      BY <1>1, <1>3, <3>1, <3>3 DEF HoldsRow, Required, Row, RowFields, Pending, RowKey, Table
    <3>5. r.op = "reverse" => k \in DOMAIN rows /\ rows[k].status = "Disbursed"
      <4>1. r.op = "reverse" => RowIn(RowKey(r), {Required[r.op]})
        BY <1>1, <3>2 DEF FreshRow
      <4> QED BY <3>1, <4>1 DEF RowIn, Required
    <3>6. Saves(rows, k, row)
      BY <3>2, <3>4, RowUpserted
    <3> QED BY <3>4, <3>5, <3>6
  <2>2. CASE SaveFee(u)
    <3>1. PICK k, row : k = RowKey(r) /\ row = Row("Assessed", r.acct, d.value, EntryId(<<"late-fee", r.id>>))
      OBVIOUS
    <3>2. pc[u] = "savefee" /\ rows' = Upsert(rows, k, row)
      BY <1>1, <2>2, <3>1 DEF SaveFee, At
    <3>3. k[1] = "fee" /\ RowFields \subseteq DOMAIN row
      BY <1>3, <3>1, <3>2 DEF Shaped, Path, RowKey, Table, Row, RowFields
    <3> QED BY <3>2, <3>3, RowUpserted
  <2>3. CASE SaveCorrection(u)
    <3>1. PICK k, row : /\ k = <<"repayment", <<"correction", r.id>>>>
                        /\ row = Row("Posted", r.to, d.value, EntryId(<<"correction", r.id>>))
      OBVIOUS
    <3>2. rows' = Upsert(rows, k, row)
      BY <1>1, <2>3, <3>1 DEF SaveCorrection
    <3>3. k[1] = "repayment" /\ RowFields \subseteq DOMAIN row
      BY <3>1 DEF Row, RowFields
    <3> QED BY <3>2, <3>3, RowUpserted
  <2> QED BY <2>1, <2>2, <2>3
<1>5. ASSUME NEW x PROVE LiveOn(x, a)' <=> LiveOn(x, a)
  <2>1. CASE x = k
    BY <1>4, <2>1 DEF Saves, LiveOn, RowIn
  <2>2. CASE x # k
    BY <1>4, <2>2 DEF Saves, LiveOn, RowIn
  <2> QED BY <2>1, <2>2
<1>6. \A j : Undone(j) => Undone(j)'
  BY <1>2 DEF Undone
<1> QED BY <1>2, <1>5, <1>6, LoansStayOut

AccountSaved(b, a) == account' = [account EXCEPT ![b] = a]

\* Only a reversal makes an account Approved again.
LEMMA ApprovedAgain ==
    ASSUME LasInv, NEW w \in Workers, FreshAccount(w), pc[w] = "commit", SavesAccount(w),
           NEW r, r = req[w], NEW b, b = AccountOf(w), AccountSaved(b, SavedAccount(w))
    PROVE  /\ \A a \in Accounts : account'[a].status = "Approved" =>
                  account[a].status = "Approved" \/ (a = b /\ r.op = "reverse")
           /\ r.op = "create" => /\ b = r.acct /\ account[b].status = "Approved"
                                 /\ account'[b].status = "PendingDisbursement"
<1>1. PICK d : d = draft[w]
  OBVIOUS
<1>3. /\ d.account = account[b] /\ b \in Accounts
      /\ r.op = "create" => CanTransition(d.account.status, Into[r.op])
  BY <1>1 DEF LasInv, InFlight, HoldsAccount, FreshAccount, SavesAccount
<1>4. account \in [Accounts -> AccountRows]
  BY DEF LasInv, AtRest, Tabled
<1>5. r.op \in DOMAIN Into \cup {"delinquency", "modify"} \/ IsPayoff(w)
  BY DEF SavesAccount
<1>6. DOMAIN d.account = {"status", "bucket"}
  BY <1>3, <1>4 DEF AccountRows
<1>7. CASE r.op \in DOMAIN Into
  <2>1. SavedAccount(w) = [d.account EXCEPT !.status = Into[r.op]]
    <3>1. r.op \in {"create", "confirm", "reverse", "chargeoff"}
      BY <1>7 DEF Into
    <3> QED BY <1>1, <1>7, <3>1 DEF SavedAccount, Into, IsPayoff
  <2>2. account'[b].status = Into[r.op] /\ \A a \in Accounts : a # b => account'[a] = account[a]
    BY <1>3, <1>4, <1>6, <2>1 DEF AccountSaved
  <2>3. r.op = "create" => b = r.acct /\ account[b].status = "Approved"
    BY <1>3 DEF AccountOf, Required, Into, CanTransition, validTransitions
  <2> QED BY <1>7, <2>2, <2>3 DEF Into
<1>8. CASE r.op \in {"delinquency", "modify"} \/ IsPayoff(w)
  <2>1. SavedAccount(w) = CASE r.op = "delinquency" -> [d.account EXCEPT !.bucket = r.bucket]
                            [] r.op = "modify" -> d.account
                            [] OTHER -> [d.account EXCEPT !.status = "Closed"]
    BY <1>1, <1>8 DEF SavedAccount, Into, IsPayoff
  <2>2. SavedAccount(w).status = d.account.status \/ SavedAccount(w).status = "Closed"
    BY <1>6, <2>1
  <2>3. r.op # "create"
    BY <1>8 DEF IsPayoff
  <2> QED BY <1>3, <1>4, <2>2, <2>3 DEF AccountSaved
<1> QED BY <1>5, <1>7, <1>8

\* A commit touches no disbursement but the one it saves.
LEMMA CommittedApart ==
    ASSUME NEW k, NEW row, NEW T, Commits(k, row, T), NEW a, NEW x, x # k
    PROVE  LiveOn(x, a)' <=> LiveOn(x, a)
<1>1. x \in T => x[1] = "terms"
  BY DEF Commits
<1>2. CASE x \in T
  BY <1>1, <1>2 DEF LiveOn
<1>3. CASE x \notin T
  BY <1>3 DEF Commits, LiveOn, RowIn
<1> QED BY <1>2, <1>3

LEMMA CreateLeavesLoansOut ==
    ASSUME NEW a, LoansOut(a), UNCHANGED book, NEW k, NEW row, NEW T, Commits(k, row, T),
           k \notin DOMAIN rows, account[a].status = "Approved", account'[a].status # "Approved"
    PROVE  LoansOut(a)'
<1>1. \A x : ~LiveOn(x, a)
  BY DEF LiveOn, RowIn, LoansOut
<1>2. \A x : LiveOn(x, a)' => x = k
  BY <1>1, CommittedApart
<1>3. \A x : Undone(x)' <=> Undone(x)
  BY DEF Undone
<1>4. ASSUME NEW x \in DOMAIN book', book'[x].acct = a, book'[x].rule = "DISB01"
      PROVE  x = <<"disb", x[2]>> /\ Undone(x)'
  BY <1>1, <1>3, <1>4 DEF LoansOut
<1> QED BY <1>2, <1>4 DEF LoansOut

LEMMA CommitLeavesLoansOut ==
    ASSUME LasInv, NEW w \in Workers, NEW b \in Accounts, b = AccountOf(w), LoansOut(b), FreshRow(w),
           FreshAccount(w), Commit(w)
    PROVE  LoansOut(b)'
<1>1. PICK r, d : r = req[w] /\ d = draft[w]
  OBVIOUS
<1>2. pc[w] = "commit" /\ book' = book /\ \A x : Undone(x) => Undone(x)'
  BY DEF Commit, At, Undone
<1>3. /\ r \in Requests /\ HoldsRow(w) /\ HoldsAccount(w)
      /\ r.op = "reverse" => Posted(r, d)
  BY <1>1, <1>2, AtCommit
<1>5. CASE UNCHANGED lasdb
  <2>1. \A x : LiveOn(x, b)' <=> LiveOn(x, b)
    BY <1>5 DEF LiveOn, RowIn, lasdb
  <2> QED BY <1>2, <1>5, <2>1, LoansStayOut DEF lasdb
<1>6. CASE ~UNCHANGED lasdb
  <2>1. /\ account' = IF SavesAccount(w) THEN [account EXCEPT ![b] = SavedAccount(w)] ELSE account
        /\ rows' = IF r.op = "delinquency" THEN rows ELSE Upsert(AddTermVersion(w), SavedRow(w)[1], SavedRow(w)[2])
    BY <1>1, <1>6 DEF Commit
  <2>2. account'[b].status = "Approved" => account[b].status = "Approved" \/ r.op = "reverse"
    <3>1. CASE SavesAccount(w)
      <4>1. AccountSaved(b, SavedAccount(w))
        BY <2>1, <3>1 DEF AccountSaved
      <4> QED BY <1>1, <1>2, <3>1, <4>1, ApprovedAgain
    <3>2. CASE ~SavesAccount(w)
      BY <2>1, <3>2
    <3> QED BY <3>1, <3>2
  <2>3. CASE r.op = "delinquency"
    <3>1. \A x : LiveOn(x, b)' <=> LiveOn(x, b)
      BY <2>1, <2>3 DEF LiveOn, RowIn
    <3> QED BY <1>2, <2>2, <2>3, <3>1, LoansStayOut
  <2>4. CASE r.op # "delinquency"
    <3>1. PICK k, row : k = SavedRow(w)[1] /\ row = SavedRow(w)[2]
      OBVIOUS
    <3>2. rows' = Upsert(AddTermVersion(w), k, row)
      BY <2>1, <2>4, <3>1
    <3>3. PICK T : Commits(k, row, T)
      BY <1>1, <1>2, <2>4, <3>1, <3>2, CommitsOneRow
    <3>4. /\ r.op \in {"create", "confirm", "reverse", "undo", "chargeoff", "modify", "notify"}
          /\ r.op = "create"  => k = <<"disbursement", r.id>> /\ row.acct = r.acct
          /\ r.op = "confirm" => k = <<"disbursement", r.id>> /\ row.status = "Disbursed"
          /\ r.op = "reverse" => k = <<"disbursement", r.id>> /\ row.status = "Reversed"
          /\ r.op \in {"undo", "chargeoff", "modify", "notify"} => k[1] # "disbursement"
      BY <1>1, <1>2, <2>4, <3>1, CommitsAs
    <3>5. ASSUME NEW x, x # k PROVE LiveOn(x, b)' <=> LiveOn(x, b)
      BY <3>3, <3>5, CommittedApart
    <3>7. CASE r.op = "create"
      <4>1. k \notin DOMAIN rows
        BY <1>1, <1>2, <3>4, <3>7 DEF FreshRow, Named, RowKey, Table
      <4>2. SavesAccount(w)
        BY <1>1, <3>7 DEF SavesAccount, Into
      <4>3. account[b].status = "Approved" /\ account'[b].status = "PendingDisbursement"
        <5>1. AccountSaved(b, SavedAccount(w))
          BY <2>1, <4>2 DEF AccountSaved
        <5> QED BY <1>1, <1>2, <3>7, <4>2, <5>1, ApprovedAgain
      <4> QED BY <1>2, <3>3, <4>1, <4>3, CreateLeavesLoansOut
    <3>8. CASE r.op = "confirm"
      <4>1. RowIn(k, {"PendingDisbursement"}) /\ k[1] = "disbursement"
        BY <1>1, <1>2, <3>4, <3>8 DEF FreshRow, RowKey, Table, Required
      <4>2. LiveOn(k, b)' <=> LiveOn(k, b)
        BY <3>3, <3>4, <3>8, <4>1 DEF LiveOn, RowIn, Commits
      <4>3. \A x : LiveOn(x, b)' <=> LiveOn(x, b)
        BY <3>5, <4>2
      <4> QED BY <1>2, <2>2, <3>8, <4>3, LoansStayOut
    <3>9. CASE r.op = "reverse"
      <4>1. RowIn(k, {"ReversalPending"}) /\ k[1] = "disbursement"
        BY <1>1, <1>2, <3>4, <3>9 DEF FreshRow, RowKey, Table
      <4>3. rows[k].acct = b
        BY <1>1, <1>3, <3>4, <3>9 DEF HoldsRow, Required, AccountOf, RowKey, Table
      <4>2. LiveOn(k, b) /\ ~LiveOn(k, b)'
        <5>1. LiveOn(k, b)
          BY <4>1, <4>3 DEF LiveOn, RowIn
        <5>2. rows'[k].status = "Reversed"
          BY <3>3, <3>4, <3>9 DEF Commits
        <5> QED BY <5>1, <5>2 DEF LiveOn, RowIn
      <4>4. \A x : LiveOn(x, b) => x = k
        BY <4>2 DEF LoansOut, LiveOn, RowIn
      <4>5. \A x : ~LiveOn(x, b)'
        BY <3>5, <4>2, <4>4
      <4>6. Undone(<<"disb", r.id>>)'
        BY <1>2, <1>3, <3>9 DEF Posted
      <4>7. ASSUME NEW x, LiveOn(x, b) PROVE Undone(<<"disb", x[2]>>)'
        <5>1. x[2] = r.id
          BY <3>4, <3>9, <4>4, <4>7
        <5> QED BY <4>6, <5>1
      <4>8. /\ \A x : LiveOn(x, b)' => LiveOn(x, b)
            /\ \A x : LiveOn(x, b)' /\ account'[b].status = "Approved" => account[b].status = "Approved"
        BY <4>5
      <4>9. \A x : LiveOn(x, b) => LiveOn(x, b)' \/ Undone(<<"disb", x[2]>>)
        BY <1>2, <4>7 DEF Undone
      <4> QED BY <1>2, <4>8, <4>9, LoansStayOut
    <3>10. CASE r.op \in {"undo", "chargeoff", "modify", "notify"}
      <4>1. \A x : LiveOn(x, b) \/ LiveOn(x, b)' => x # k
        BY <3>4, <3>10 DEF LiveOn
      <4>2. \A x : LiveOn(x, b)' <=> LiveOn(x, b)
        BY <3>5, <4>1
      <4> QED BY <1>2, <2>2, <3>10, <4>2, LoansStayOut
    <3> QED BY <3>4, <3>7, <3>8, <3>9, <3>10
  <2> QED BY <2>3, <2>4
<1> QED BY <1>5, <1>6

LEMMA LoansOutStep ==
    ASSUME LasInv, LasInv', NEW u \in Workers, Moves(u), NEW a \in Accounts, LoansOut(a),
           pc[u] # "idle" /\ a = AccountOf(u) => FreshRow(u) /\ FreshAccount(u)
    PROVE  LoansOut(a)'
<1>1. CASE pc[u] = "idle" \/ a # AccountOf(u)
  BY <1>1, LoansOutApart
<1>2. CASE pc[u] # "idle" /\ a = AccountOf(u)
  <2>1. CASE UNCHANGED <<account, rows>>
    BY <1>2, <2>1, PostLeavesLoansOut
  <2>2. CASE Commit(u)
    BY <1>2, <2>2, CommitLeavesLoansOut
  <2>3. CASE SavePending(u) \/ SaveFee(u) \/ SaveCorrection(u)
    BY <1>2, <2>3, SaveLeavesLoansOut
  <2> QED BY <2>1, <2>2, <2>3, TablesMove
<1> QED BY <1>1, <1>2

\* Two disbursements that are out have live rows of one account.
LEMMA OneIsOut ==
    ASSUME NEW a, LoansOut(a)
    PROVE  Cardinality(Outstanding(a)) <= 1
<1>1. ASSUME NEW j \in Outstanding(a), NEW k \in Outstanding(a) PROVE j = k
  <2>1. /\ j \in DOMAIN book /\ book[j].rule = "DISB01" /\ book[j].acct = a /\ ~Undone(j)
        /\ k \in DOMAIN book /\ book[k].rule = "DISB01" /\ book[k].acct = a /\ ~Undone(k)
    BY DEF Outstanding
  <2>2. PICK x, y : x = <<"disbursement", j[2]>> /\ y = <<"disbursement", k[2]>>
    OBVIOUS
  <2>3. j = <<"disb", j[2]>> /\ k = <<"disb", k[2]>> /\ LiveOn(x, a) /\ LiveOn(y, a)
    BY <2>1, <2>2 DEF LoansOut
  <2>4. x = y
    BY <2>3 DEF LoansOut, LiveOn, RowIn
  <2> QED BY <2>2, <2>3, <2>4
<1>2. CASE Outstanding(a) = {}
  BY <1>2, FS_EmptySet
<1>3. CASE Outstanding(a) # {}
  <2>1. PICK k : k \in Outstanding(a)
    BY <1>3
  <2>2. Outstanding(a) = {k}
    BY <1>1, <2>1
  <2>3. Cardinality({k}) = 1
    BY FS_Singleton
  <2> QED BY <2>2, <2>3
<1> QED BY <1>2, <1>3

-----------------------------------------------------------------------------
(* The terms modifications build.                                          *)

ModificationsOf(a) == {k \in DOMAIN rows : k[1] = "modification" /\ rows[k].acct = a}

\* The versions of a's terms are 1 to n, each after the first with the one
\* modification that made it and its principal.
GrownBy(a, v, amount) == PrincipalOf(a, v) = PrincipalOf(a, v - 1) + amount

TermsBuilt(a, n) ==
    /\ n \in Nat \ {0} /\ Versions(a) = 1 .. n
    /\ \A k \in ModificationsOf(a) :
          rows[k].version \in 2 .. n /\ GrownBy(a, rows[k].version, Total(rows[k].value))
    /\ \A v \in 2 .. n : \E k \in ModificationsOf(a) : rows[k].version = v
    /\ IsFiniteSet(ModificationsOf(a)) /\ Cardinality(ModificationsOf(a)) = n - 1

Built(a) == \E n : TermsBuilt(a, n)

\* A modification that nobody overlaps builds on the version in force.
FreshTerm(w) ==
    pc[w] \notin {"idle", "account"} /\ req[w].op = "modify" => draft[w].term = CurrentTermVersion(req[w].acct)

\* Nothing of a's terms changes.
TermRowsStay(a) ==
    /\ \A x : x[1] = "terms" /\ x[2][1] = a =>
          (x \in DOMAIN rows' <=> x \in DOMAIN rows) /\ (x \in DOMAIN rows => rows'[x] = rows[x])
    /\ \A x : x[1] = "modification" =>
          /\ x \in DOMAIN rows /\ rows[x].acct = a => x \in DOMAIN rows' /\ rows'[x] = rows[x]
          /\ x \in DOMAIN rows' /\ rows'[x].acct = a => x \in DOMAIN rows /\ rows[x].acct = a

LEMMA KeysOfVersions ==
    ASSUME NEW f, NEW a, NEW v, \A t \in DOMAIN f : t[1] = "terms" => \E b, u : t = <<"terms", <<b, u>>>>
    PROVE  v \in {1} \cup {k[2][2] : k \in {t \in DOMAIN f : t[1] = "terms" /\ t[2][1] = a}}
               <=> v = 1 \/ <<"terms", <<a, v>>>> \in DOMAIN f
<1>1. \A t \in DOMAIN f : t[1] = "terms" /\ t[2][1] = a => t = <<"terms", <<a, t[2][2]>>>>
  OBVIOUS
<1>2. ASSUME <<"terms", <<a, v>>>> \in DOMAIN f
      PROVE  v \in {k[2][2] : k \in {t \in DOMAIN f : t[1] = "terms" /\ t[2][1] = a}}
  <2>1. PICK t : t = <<"terms", <<a, v>>>>
    OBVIOUS
  <2>2. t \in DOMAIN f /\ t[1] = "terms" /\ t[2][1] = a /\ t[2][2] = v
    BY <1>2, <2>1
  <2> QED BY <2>2
<1> QED BY <1>1, <1>2

LEMMA TermOfVersion ==
    ASSUME TypedRows, NEW a, NEW v
    PROVE  v \in Versions(a) <=> v = 1 \/ <<"terms", <<a, v>>>> \in DOMAIN rows
<1>1. \A t \in DOMAIN rows : t[1] = "terms" => \E b, u : t = <<"terms", <<b, u>>>>
  BY DEF TypedRows
<1> QED BY <1>1, KeysOfVersions DEF Versions

\* The same of the state a step leads to.
LEMMA TermOfVersionNext ==
    ASSUME TypedRows', NEW a, NEW v
    PROVE  v \in Versions(a)' <=> v = 1 \/ <<"terms", <<a, v>>>> \in DOMAIN rows'
<1>1. PICK f : f = rows'
  OBVIOUS
<1>2. \A t \in DOMAIN f : t[1] = "terms" => \E b, u : t = <<"terms", <<b, u>>>>
  BY <1>1 DEF TypedRows
<1> QED BY <1>1, <1>2, KeysOfVersions DEF Versions

LEMMA CurrentOfBuilt ==
    ASSUME TypedRows, NEW a, NEW n, TermsBuilt(a, n)
    PROVE  CurrentTermVersion(a) = [version |-> n, principal |-> PrincipalOf(a, n)]
<1>1. PICK top : top = Max(Versions(a))
  OBVIOUS
<1>2. top \in 1 .. n /\ \A v \in 1 .. n : v <= top
  BY <1>1, CurrentTermTyped DEF TermsBuilt
<1>3. top = n
  BY <1>2 DEF TermsBuilt
<1> QED BY <1>1, <1>3 DEF CurrentTermVersion

LEMMA TermsStayBuilt ==
    ASSUME TypedRows, TypedRows', NEW a, TermRowsStay(a), NEW n, TermsBuilt(a, n)
    PROVE  TermsBuilt(a, n)' /\ CurrentTermVersion(a)' = CurrentTermVersion(a)
<1>1. Versions(a)' = Versions(a)
  <2>1. ASSUME NEW v PROVE v \in Versions(a)' <=> v \in Versions(a)
    <3>1. PICK t : t = <<"terms", <<a, v>>>>
      OBVIOUS
    <3>2. t[1] = "terms" /\ t[2][1] = a
      BY <3>1
    <3>3. t \in DOMAIN rows' <=> t \in DOMAIN rows
      BY <3>2 DEF TermRowsStay
    <3>4. v \in Versions(a) <=> v = 1 \/ t \in DOMAIN rows
      BY <3>1, TermOfVersion
    <3>5. v \in Versions(a)' <=> v = 1 \/ t \in DOMAIN rows'
      BY <3>1, TermOfVersionNext
    <3> QED BY <3>3, <3>4, <3>5
  <2> QED BY <2>1
<1>2. ModificationsOf(a)' = ModificationsOf(a) /\ \A k \in ModificationsOf(a) : rows'[k] = rows[k]
  BY DEF ModificationsOf, TermRowsStay
<1>3. ASSUME NEW v \in 1 .. n PROVE PrincipalOf(a, v)' = PrincipalOf(a, v)
  <2>1. PICK t : t = <<"terms", <<a, v>>>>
    OBVIOUS
  <2>2. t[1] = "terms" /\ t[2][1] = a
    BY <2>1
  <2>3. v # 1 => rows'[t] = rows[t]
    BY <2>1, <2>2, TermOfVersion DEF TermRowsStay, TermsBuilt
  <2> QED BY <2>1, <2>3 DEF PrincipalOf
<1>4. TermsBuilt(a, n)'
  <2>1. n \in Nat \ {0} /\ Versions(a)' = 1 .. n
    BY <1>1 DEF TermsBuilt
  <2>2. ASSUME NEW k \in ModificationsOf(a), NEW v, v = rows[k].version, NEW amount, amount = Total(rows[k].value)
        PROVE  v \in 2 .. n /\ GrownBy(a, v, amount)'
    <3>1. v \in 2 .. n /\ GrownBy(a, v, amount)
      BY <2>2 DEF TermsBuilt
    <3>2. v \in 1 .. n /\ v - 1 \in 1 .. n
      BY <2>1, <3>1
    <3> QED BY <1>3, <3>1, <3>2 DEF GrownBy
  <2>3. \A k \in ModificationsOf(a)' : rows'[k].version \in 2 .. n /\ GrownBy(a, rows[k].version, Total(rows[k].value))'
    BY <1>2, <2>2 DEF GrownBy
  <2>4. \A v \in 2 .. n : \E k \in ModificationsOf(a)' : rows'[k].version = v
    BY <1>2 DEF TermsBuilt
  <2>5. IsFiniteSet(ModificationsOf(a)') /\ Cardinality(ModificationsOf(a)') = n - 1
    BY <1>2 DEF TermsBuilt
  <2> QED BY <2>1, <2>3, <2>4, <2>5 DEF TermsBuilt
<1>5. CurrentTermVersion(a)' = CurrentTermVersion(a)
  <2>1. CurrentTermVersion(a) = [version |-> n, principal |-> PrincipalOf(a, n)]
    BY CurrentOfBuilt
  <2>2. Max(Versions(a))' = Max(Versions(a))
    BY <1>1
  <2>3. PICK top : top = Max(Versions(a))
    OBVIOUS
  <2>4. top \in 1 .. n
    BY <2>3, CurrentTermTyped DEF TermsBuilt
  <2> QED BY <1>3, <2>2, <2>3, <2>4 DEF CurrentTermVersion
<1> QED BY <1>4, <1>5

\* The rows a modification adds.
TermsAdded(a, n, m, amount) ==
    LET t == <<"terms", <<a, n + 1>>>>
    IN  /\ m[1] = "modification" /\ m \notin DOMAIN rows /\ t \notin DOMAIN rows
        /\ DOMAIN rows' = DOMAIN rows \cup {t, m}
        /\ \A x \in DOMAIN rows : rows'[x] = rows[x]
        /\ rows'[t].value.principal = PrincipalOf(a, n) + amount
        /\ rows'[m].acct = a /\ rows'[m].version = n + 1 /\ Total(rows'[m].value) = amount

LEMMA TermsGrow ==
    ASSUME TypedRows, TypedRows', NEW a, NEW n, TermsBuilt(a, n), NEW m, NEW amount, TermsAdded(a, n, m, amount)
    PROVE  TermsBuilt(a, n + 1)'
<1>1. PICK t : t = <<"terms", <<a, n + 1>>>>
  OBVIOUS
<1>2. t[1] = "terms" /\ n \in Nat \ {0}
  BY <1>1 DEF TermsBuilt
<1>3. /\ m[1] = "modification" /\ m \notin DOMAIN rows /\ t \notin DOMAIN rows
      /\ DOMAIN rows' = DOMAIN rows \cup {t, m}
      /\ \A x \in DOMAIN rows : rows'[x] = rows[x]
      /\ rows'[t].value.principal = PrincipalOf(a, n) + amount
      /\ rows'[m].acct = a /\ rows'[m].version = n + 1 /\ Total(rows'[m].value) = amount
  BY <1>1 DEF TermsAdded
<1>4. Versions(a)' = 1 .. n + 1
  <2>1. ASSUME NEW v PROVE v \in Versions(a)' <=> v \in 1 .. n + 1
    <3>1. PICK u : u = <<"terms", <<a, v>>>>
      OBVIOUS
    <3>2. u[1] = "terms"
      BY <3>1
    <3>3. u = t <=> v = n + 1
      BY <1>1, <3>1
    <3>4. u \in DOMAIN rows' <=> u \in DOMAIN rows \/ v = n + 1
      BY <1>3, <3>2, <3>3
    <3>5. v \in Versions(a)' <=> v = 1 \/ u \in DOMAIN rows'
      BY <3>1, TermOfVersionNext
    <3>6. v \in 1 .. n <=> v = 1 \/ u \in DOMAIN rows
      BY <3>1, TermOfVersion DEF TermsBuilt
    <3>7. v \in 1 .. n + 1 <=> v \in 1 .. n \/ v = n + 1
      BY <1>2
    <3> QED BY <3>4, <3>5, <3>6, <3>7
  <2> QED BY <2>1
<1>5. ASSUME NEW v \in 1 .. n PROVE PrincipalOf(a, v)' = PrincipalOf(a, v)
  <2>1. PICK u : u = <<"terms", <<a, v>>>>
    OBVIOUS
  <2>2. v # 1 => rows'[u] = rows[u]
    BY <1>3, <2>1, TermOfVersion DEF TermsBuilt
  <2> QED BY <2>1, <2>2 DEF PrincipalOf
<1>6. PrincipalOf(a, n + 1)' = PrincipalOf(a, n) + amount
  <2>1. n + 1 # 1
    BY <1>2
  <2> QED BY <1>1, <1>3, <2>1 DEF PrincipalOf
<1>7. ModificationsOf(a)' = ModificationsOf(a) \cup {m} /\ m \notin ModificationsOf(a)
  BY <1>2, <1>3 DEF ModificationsOf
<1>8. ASSUME NEW k \in ModificationsOf(a)', NEW v, v = rows'[k].version, NEW sum, sum = Total(rows'[k].value)
      PROVE  v \in 2 .. n + 1 /\ GrownBy(a, v, sum)'
  <2>1. CASE k \in ModificationsOf(a)
    <3>1. v = rows[k].version /\ sum = Total(rows[k].value)
      BY <1>3, <1>8, <2>1 DEF ModificationsOf
    <3>2. v \in 2 .. n /\ GrownBy(a, v, sum)
      BY <2>1, <3>1 DEF TermsBuilt
    <3>3. v \in 1 .. n /\ v - 1 \in 1 .. n /\ v \in 2 .. n + 1
      BY <1>2, <3>2
    <3> QED BY <1>5, <3>2, <3>3 DEF GrownBy
  <2>2. CASE k = m
    <3>1. v = n + 1 /\ sum = amount
      BY <1>3, <1>8, <2>2
    <3>2. v - 1 = n /\ n \in 1 .. n /\ v \in 2 .. n + 1
      BY <1>2, <3>1
    <3>3. PrincipalOf(a, v)' = PrincipalOf(a, n)' + sum
      BY <1>5, <1>6, <3>1, <3>2
    <3> QED BY <3>2, <3>3 DEF GrownBy
  <2> QED BY <1>7, <2>1, <2>2
<1>9. ASSUME NEW v \in 2 .. n + 1 PROVE \E k \in ModificationsOf(a)' : rows'[k].version = v
  <2>1. CASE v = n + 1
    BY <1>3, <1>7, <2>1
  <2>2. CASE v # n + 1
    <3>1. v \in 2 .. n
      BY <1>2, <2>2
    <3>2. PICK k \in ModificationsOf(a) : rows[k].version = v
      BY <3>1 DEF TermsBuilt
    <3>3. rows'[k].version = v
      BY <1>3, <3>2 DEF ModificationsOf
    <3> QED BY <1>7, <3>2, <3>3
  <2> QED BY <2>1, <2>2
<1>10. IsFiniteSet(ModificationsOf(a)') /\ Cardinality(ModificationsOf(a)') = (n + 1) - 1
  <2>1. PICK S, c : S = ModificationsOf(a) /\ c = Cardinality(S)
    OBVIOUS
  <2>2. IsFiniteSet(S) /\ c = n - 1
    BY <2>1 DEF TermsBuilt
  <2>3. IsFiniteSet(S \cup {m}) /\ Cardinality(S \cup {m}) = c + 1
    BY <1>7, <2>1, <2>2, FS_AddElement
  <2> QED BY <1>2, <1>7, <2>1, <2>2, <2>3
<1>11. \A k \in ModificationsOf(a)' : rows'[k].version \in 2 .. n + 1 /\ GrownBy(a, rows[k].version, Total(rows[k].value))'
  BY <1>8 DEF GrownBy
<1>12. n + 1 \in Nat \ {0}
  BY <1>2
<1> QED BY <1>4, <1>9, <1>10, <1>11, <1>12 DEF TermsBuilt

\* The transaction of a modification adds the next version and its own row.
LEMMA ModifyAddsTerms ==
    ASSUME LasInv, TypesInv, NEW w \in Workers, FreshRow(w), FreshTerm(w), pc[w] = "commit", req[w].op = "modify",
           rows' = Upsert(AddTermVersion(w), SavedRow(w)[1], SavedRow(w)[2]), NEW n, TermsBuilt(req[w].acct, n)
    PROVE  TermsAdded(req[w].acct, n, RowKey(req[w]), Total(req[w].capital))
<1>1. PICK r, d, a : r = req[w] /\ d = draft[w] /\ a = r.acct
  OBVIOUS
<1>2. PICK t, m : t = <<"terms", <<a, n + 1>>>> /\ m = RowKey(r)
  OBVIOUS
<1>3. d.term.version = n /\ d.term.principal = PrincipalOf(a, n) /\ n \in Nat \ {0}
  <2>1. d.term = CurrentTermVersion(a)
    BY <1>1 DEF FreshTerm
  <2>2. CurrentTermVersion(a) = [version |-> n, principal |-> PrincipalOf(a, n)]
    BY <1>1, CurrentOfBuilt DEF TypesInv
  <2> QED BY <1>1, <2>1, <2>2 DEF TermsBuilt
<1>4. t \notin DOMAIN rows
  <2>1. n + 1 \notin Versions(a)
    BY <1>1, <1>3 DEF TermsBuilt
  <2> QED BY <1>2, <2>1, TermOfVersion DEF TypesInv
<1>5. m \notin DOMAIN rows /\ m = <<"modification", r.id>>
  BY <1>1, <1>2 DEF FreshRow, Named, RowKey, Table
<1>6. PICK f, trow : /\ trow = Row("InForce", a, OfPrincipal(PrincipalOf(a, n) + Total(r.capital)), None)
                     /\ f = Insert(rows, t, trow) /\ f = AddTermVersion(w)
  <2>1. TermKey(w) = t
    BY <1>1, <1>2, <1>3 DEF TermKey
  <2>2. GrownPrincipal(w) = PrincipalOf(a, n) + Total(r.capital)
    BY <1>1, <1>3 DEF GrownPrincipal
  <2> QED BY <1>1, <1>4, <2>1, <2>2 DEF AddTermVersion
<1>7. PICK mrow : mrow = ModificationRow(w)
  OBVIOUS
<1>13. mrow.acct = a /\ mrow.version = n + 1 /\ mrow.value = r.capital
  BY <1>1, <1>3, <1>7 DEF ModificationRow
<1>8. m \notin DOMAIN f /\ rows' = Insert(f, m, mrow)
  <2>1. m \notin DOMAIN f
    BY <1>2, <1>4, <1>5, <1>6 DEF Insert
  <2>2. rows' = Upsert(f, m, mrow)
    BY <1>1, <1>2, <1>6, <1>7 DEF SavedRow
  <2> QED BY <2>1, <2>2 DEF Upsert
<1>9. trow.value.principal = PrincipalOf(a, n) + Total(r.capital)
  BY <1>6 DEF Row, OfPrincipal, Nothing
<1>10. /\ DOMAIN f = DOMAIN rows \cup {t} /\ f[t] = trow
       /\ \A x \in DOMAIN rows : f[x] = rows[x]
  BY <1>4, <1>6 DEF Insert
<1>11. /\ DOMAIN rows' = DOMAIN f \cup {m} /\ rows'[m] = mrow
       /\ \A x \in DOMAIN f : rows'[x] = f[x]
  BY <1>8 DEF Insert
<1>12. /\ m[1] = "modification" /\ DOMAIN rows' = DOMAIN rows \cup {t, m}
       /\ \A x \in DOMAIN rows : rows'[x] = rows[x]
       /\ rows'[t] = trow
  BY <1>5, <1>10, <1>11
<1> QED BY <1>1, <1>2, <1>4, <1>5, <1>9, <1>11, <1>12, <1>13 DEF TermsAdded

\* Only a modification of the account changes its terms, and only its commit.
LEMMA TermsApart ==
    ASSUME LasInv, LasInv', NEW u \in Workers, Moves(u), NEW a,
           pc[u] # "idle" /\ a = AccountOf(u) => req[u].op # "modify" \/ ~Commit(u)
    PROVE  TermRowsStay(a)
<1>1. PICK r : r = req[u]
  OBVIOUS
<1>2. CASE rows' = rows
  BY <1>2 DEF TermRowsStay
<1>3. CASE rows' # rows
  <2>1. pc[u] \in {"pending", "savefee", "savecorrection", "commit"}
    BY <1>3, TablesMove DEF Commit, SavePending, SaveFee, SaveCorrection, At
  <2>2. r \in Requests /\ Shaped(r) /\ pc[u] \in Path[r.op]
    BY <1>1, <2>1, Serves
  <2>3. r.op # "modify" \/ a # AccountOf(u)
    <3>1. r.op = "modify" => ~(SavePending(u) \/ SaveFee(u) \/ SaveCorrection(u))
      BY <2>2 DEF SavePending, SaveFee, SaveCorrection, At, Path
    <3> QED BY <1>1, <1>3, <2>1, <3>1, TablesMove
  <2>4. \A k : k \in Named(r) => k[1] # "terms" /\ (k[1] = "modification" => r.op = "modify")
    <3>1. CASE r.op = "notify"
      BY <3>1 DEF Named
    <3>2. CASE r.op # "notify"
      <4>1. r.op \in DOMAIN Table \cup {"accrue", "quote"}
        BY <2>2, <3>2 DEF Shaped
      <4>2. r.op \notin {"accrue", "quote"}
        BY <2>1, <2>2, <4>1 DEF Path
      <4>3. Named(r) = {RowKey(r)} /\ RowKey(r)[1] = Table[r.op]
        BY <3>2 DEF Named, RowKey
      <4> QED BY <4>1, <4>2, <4>3 DEF Table
    <3> QED BY <3>1, <3>2
  <2>5. ASSUME NEW x, x[1] = "terms", x[2][1] = a PROVE ~Writes(u, x)
    <3>1. SUFFICES ASSUME Writes(u, x) PROVE FALSE
      OBVIOUS
    <3>2. r.op = "modify" /\ x = TermKey(u)
      BY <1>1, <2>4, <2>5, <3>1 DEF Writes, CorrectionOf
    <3>3. x[2][1] = r.acct
      BY <1>1, <3>2 DEF TermKey
    <3> QED BY <1>1, <2>3, <2>5, <3>2, <3>3 DEF AccountOf, Required
  <2>6. ASSUME NEW x, x[1] = "modification", AskedFor("modify", x[2], a) PROVE ~Writes(u, x)
    <3>1. SUFFICES ASSUME Writes(u, x) PROVE FALSE
      OBVIOUS
    <3>2. a = AccountOf(u)
      BY <2>6, <3>1, WrittenOnItsAccount
    <3>3. x \in Named(r)
      BY <1>1, <2>6, <3>1 DEF Writes, TermKey, CorrectionOf
    <3> QED BY <2>3, <2>4, <2>6, <3>2, <3>3
  <2>7. ASSUME NEW x, x[1] = "terms", x[2][1] = a
        PROVE  (x \in DOMAIN rows' <=> x \in DOMAIN rows) /\ (x \in DOMAIN rows => rows'[x] = rows[x])
    BY <2>5, <2>7, OtherRowsStay
  <2>8. ASSUME NEW x, x[1] = "modification", x \in DOMAIN rows, rows[x].acct = a
        PROVE  x \in DOMAIN rows' /\ rows'[x] = rows[x]
    <3>1. AskedFor("modify", x[2], a)
      BY <2>8 DEF LasInv, AtRest, RowsKeep
    <3> QED BY <2>6, <2>8, <3>1, OtherRowsStay
  <2>9. ASSUME NEW x, x[1] = "modification", x \in DOMAIN rows', rows'[x].acct = a
        PROVE  x \in DOMAIN rows /\ rows[x].acct = a
    <3>1. AskedFor("modify", x[2], a)
      <4>1. RowsKeep'
        BY DEF LasInv, AtRest
      <4> QED BY <2>9, <4>1 DEF RowsKeep, AskedFor
    <3> QED BY <2>6, <2>9, <3>1, OtherRowsStay
  <2> QED BY <2>7, <2>8, <2>9 DEF TermRowsStay
<1> QED BY <1>2, <1>3

LEMMA BuiltStep ==
    ASSUME LasInv, LasInv', TypesInv, TypesInv', NEW u \in Workers, Moves(u), NEW a, Built(a),
           pc[u] # "idle" /\ a = AccountOf(u) => FreshRow(u) /\ FreshTerm(u)
    PROVE  Built(a)'
<1>1. PICK n : TermsBuilt(a, n)
  BY DEF Built
<1>2. CASE TermRowsStay(a)
  BY <1>1, <1>2, TermsStayBuilt DEF TypesInv, Built
<1>3. CASE ~TermRowsStay(a)
  <2>1. pc[u] # "idle" /\ a = AccountOf(u) /\ req[u].op = "modify" /\ Commit(u)
    BY <1>3, TermsApart
  <2>2. pc[u] = "commit" /\ a = req[u].acct
    BY <2>1 DEF Commit, At, AccountOf, Required
  <2>3. rows' # rows
    BY <1>3 DEF TermRowsStay
  <2>4. rows' = Upsert(AddTermVersion(u), SavedRow(u)[1], SavedRow(u)[2])
    BY <2>1, <2>3 DEF Commit, lasdb
  <2>5. TermsAdded(a, n, RowKey(req[u]), Total(req[u].capital))
    BY <1>1, <2>1, <2>2, <2>4, ModifyAddsTerms
  <2>6. TermsBuilt(a, n + 1)'
    BY <1>1, <2>5, TermsGrow DEF TypesInv
  <2> QED BY <2>6 DEF Built
<1> QED BY <1>2, <1>3

LEMMA FreshTermStep ==
    ASSUME LasInv, NEW w \in Workers, FreshTerm(w), Moves(w)
    PROVE  FreshTerm(w)'
<1>1. PICK r : r = req[w]
  OBVIOUS
<1>2. CASE Release(w)
  BY <1>2, Returns DEF FreshTerm
<1>3. ASSUME NEW s \in Requests, Receive(w, s) PROVE FreshTerm(w)'
  <2>1. rows' = rows
    BY <1>3, ReceiveTells
  <2>2. CASE UNCHANGED job /\ pc[w] = "idle"
    BY <2>2 DEF FreshTerm, job
  <2>3. CASE ~(UNCHANGED job /\ pc[w] = "idle")
    <3>1. req'[w] = s /\ pc'[w] = FirstStep(s)
      BY <1>3, <2>3, ReceiveTells
    <3>2. s.op = "modify" => pc'[w] = "account"
      BY <3>1 DEF FirstStep
    <3> QED BY <3>1, <3>2 DEF FreshTerm
  <2> QED BY <2>2, <2>3
<1>4. CASE ReadAccount(w) /\ ~Release(w)
  <2>1. PICK a : a = r.acct
    OBVIOUS
  <2>2. rows' = rows /\ req' = req /\ (r.op = "modify" => draft'[w].term = CurrentTermVersion(a))
    BY <1>1, <1>4, <2>1, ReadAccountTells
  <2> QED BY <1>1, <2>1, <2>2 DEF FreshTerm, CurrentTermVersion, Versions, PrincipalOf
<1>5. CASE Works(w) /\ ~Release(w)
  <2>1. pc[w] \notin {"idle", "account", "commit"} /\ req' = req /\ draft'[w].term = draft[w].term
    BY <1>5, WorkKeepsTheDraft
  <2>2. r.op = "modify" => rows' = rows
    <3>1. r.op = "modify" => pc[w] = "post"
      BY <1>1, <2>1, Serves DEF Path
    <3> QED BY <3>1, <2>1, TablesMove DEF SavePending, SaveFee, SaveCorrection, Commit, At
  <2> QED BY <1>1, <2>1, <2>2 DEF FreshTerm, CurrentTermVersion, Versions, PrincipalOf
<1>6. AnswerLost(w) \/ Commit(w) => Release(w)
  BY DEF AnswerLost, Commit
<1> QED BY <1>2, <1>3, <1>4, <1>5, <1>6, OneMoves

LEMMA OthersTermStays ==
    ASSUME LasInv, LasInv', TypesInv, TypesInv', NEW u \in Workers, Moves(u), NEW w \in Workers \ {u}, FreshTerm(w),
           pc[w] # "idle" => Built(AccountOf(w)) /\ (pc[u] # "idle" => AccountOf(w) # AccountOf(u))
    PROVE  FreshTerm(w)'
<1>1. PICK r, a : r = req[w] /\ r = req'[w] /\ a = r.acct
  BY OthersRest DEF OthersStay
<1>2. pc'[w] = pc[w] /\ draft'[w] = draft[w]
  BY OthersRest DEF OthersStay
<1>3. SUFFICES ASSUME pc[w] \notin {"idle", "account"}, r.op = "modify" PROVE FreshTerm(w)'
  BY <1>1, <1>2 DEF FreshTerm
<1>4. a = AccountOf(w)
  BY <1>1, <1>3 DEF AccountOf, Required
<1>5. TermRowsStay(a)
  BY <1>3, <1>4, TermsApart
<1>6. CurrentTermVersion(a)' = CurrentTermVersion(a)
  <2>1. PICK n : TermsBuilt(a, n)
    BY <1>3, <1>4 DEF Built
  <2> QED BY <1>5, <2>1, TermsStayBuilt DEF TypesInv
<1>7. draft'[w].term = CurrentTermVersion(a)'
  BY <1>1, <1>2, <1>3, <1>6 DEF FreshTerm
<1> QED BY <1>1, <1>7 DEF FreshTerm, CurrentTermVersion, Versions, PrincipalOf

\* What was built is what ModificationsBuildTheTerms says of an account.
LEMMA BuiltTermsAreTheModifications ==
    ASSUME LasInv, TypesInv, NEW a, Built(a), NEW ms, ms = {k \in DOMAIN rows : k[1] = "modification" /\ rows[k].acct = a}
    PROVE  /\ {rows[k].version : k \in ms} = Versions(a) \ {1}
           /\ Cardinality(ms) = Max(Versions(a)) - 1
           /\ \A k \in ms :
                 /\ PrincipalOf(a, rows[k].version) = PrincipalOf(a, rows[k].version - 1) + Total(rows[k].value)
                 /\ rows[k].value # Nothing => Has(<<"raw", k[2]>>, {"MOD01"}, a)
<1>1. \A k \in ms : k \in DOMAIN rows /\ k[1] = "modification" /\ rows[k].acct = a
  OBVIOUS
<1>2. PICK n : TermsBuilt(a, n)
  BY DEF Built
<1>3. ms = ModificationsOf(a) /\ n \in Nat \ {0} /\ Versions(a) = 1 .. n
  BY <1>1, <1>2 DEF ModificationsOf, TermsBuilt
<1>4. {rows[k].version : k \in ms} = Versions(a) \ {1}
  <2>1. \A v : v \in {rows[k].version : k \in ms} <=> v \in 2 .. n
    BY <1>2, <1>3 DEF TermsBuilt
  <2>2. \A v : v \in 2 .. n <=> v \in (1 .. n) \ {1}
    BY <1>3
  <2> QED BY <1>3, <2>1, <2>2
<1>5. Cardinality(ms) = Max(Versions(a)) - 1
  <2>1. PICK top : top = Max(Versions(a))
    OBVIOUS
  <2>2. top \in 1 .. n /\ \A v \in 1 .. n : v <= top
    BY <1>3, <2>1, CurrentTermTyped DEF TypesInv
  <2>3. top = n
    BY <1>3, <2>2
  <2> QED BY <1>2, <1>3, <2>1, <2>3 DEF TermsBuilt
<1>6. \A k \in ms : PrincipalOf(a, rows[k].version) = PrincipalOf(a, rows[k].version - 1) + Total(rows[k].value)
  BY <1>2, <1>3 DEF TermsBuilt, GrownBy
<1>7. ASSUME NEW k \in ms, rows[k].value # Nothing PROVE Has(<<"raw", k[2]>>, {"MOD01"}, a)
  <2>1. Founded(k)
    BY <1>1 DEF LasInv, AtRest, RowsAreBehindTheBook
  <2> QED BY <1>1, <1>7, <2>1 DEF Founded
<1> QED BY <1>4, <1>5, <1>6, <1>7

-----------------------------------------------------------------------------
(* Terminal accounts, and what is recovered on them.                       *)

\* A handler that nobody overlaps and that saves its account saves one that is
\* not terminal, or saves the status it has.
LEMMA TerminalStep ==
    ASSUME LasInv, NEW u \in Workers, Moves(u), NEW a \in Accounts, account[a].status \in Terminal,
           pc[u] # "idle" /\ a = AccountOf(u) => FreshAccount(u)
    PROVE  account'[a].status = account[a].status
<1>1. CASE ~(pc[u] # "idle" /\ a = AccountOf(u)) \/ account' = account
  <2>1. ~(pc[u] # "idle" /\ a = AccountOf(u)) => account'[a] = account[a]
    BY OtherAccountsStay
  <2> QED BY <1>1, <2>1
<1>2. CASE pc[u] # "idle" /\ a = AccountOf(u) /\ account' # account
  <2>1. PICK r, d : r = req[u] /\ d = draft[u]
    OBVIOUS
  <2>2. Commit(u)
    BY <1>2, TablesMove
  <2>3. SavesAccount(u) /\ account' = [account EXCEPT ![a] = SavedAccount(u)] /\ pc[u] = "commit"
    BY <1>2, <2>2 DEF Commit, At, lasdb
  <2>4. /\ d.account = account[a]
        /\ r.op \in {"create", "confirm", "reverse"} => CanTransition(d.account.status, Into[r.op])
        /\ r.op = "chargeoff" \/ IsPayoff(u) => d.account.status = "Disbursed"
    BY <1>2, <2>1, <2>3 DEF LasInv, InFlight, HoldsAccount, FreshAccount, SavesAccount
  <2>5. account \in [Accounts -> AccountRows]
    BY DEF LasInv, AtRest, Tabled
  <2>6. d.account.status \in Terminal
    BY <2>4
  <2>7. r.op \notin DOMAIN Into /\ ~IsPayoff(u)
    BY <2>4, <2>6 DEF Terminal, CanTransition, validTransitions, Into
  <2>8. r.op \in {"delinquency", "modify"}
    BY <2>1, <2>3, <2>7 DEF SavesAccount
  <2>9. SavedAccount(u) = IF r.op = "delinquency" THEN [d.account EXCEPT !.bucket = r.bucket] ELSE d.account
    BY <2>1, <2>8 DEF SavedAccount, Into, IsPayoff
  <2> QED BY <2>3, <2>4, <2>5, <2>9 DEF AccountRows
<1> QED BY <1>1, <1>2

\* What was recovered on an account was recovered on one charged off.
Recovered(a) == \A k \in DOMAIN book : book[k].acct = a /\ book[k].rule = "CHGOFF02" => account[a].status = "ChargedOff"

LEMMA RecoveredStep ==
    ASSUME LasInv, NEW u \in Workers, Moves(u), NEW a \in Accounts, Recovered(a),
           pc[u] # "idle" /\ a = AccountOf(u) => FreshAccount(u) /\ StillAdmitted(u)
    PROVE  Recovered(a)'
<1>1. SUFFICES ASSUME NEW k \in DOMAIN book', book'[k].acct = a, book'[k].rule = "CHGOFF02"
               PROVE  account'[a].status = "ChargedOff"
  BY DEF Recovered
<1>2. CASE k \in DOMAIN book
  <2>1. account[a].status = "ChargedOff"
    BY <1>1, <1>2, BookStays DEF Recovered
  <2> QED BY <2>1, TerminalStep DEF Terminal
<1>3. CASE k \notin DOMAIN book
  <2>1. PICK r, d, p : r = req[u] /\ d = draft[u] /\ p = book'[k]
    OBVIOUS
  <2>2. Asks(u, r, d, p) /\ account' = account
    BY <1>1, <1>3, <2>1, NewPosting
  <2>3. r.op = "notify" /\ d.rule = "CHGOFF02" /\ p.acct = AccountOf(u) /\ pc[u] = "post"
    BY <1>1, <2>1, <2>2 DEF Asks, RuleOf
  <2> QED BY <1>1, <2>1, <2>2, <2>3 DEF StillAdmitted
<1> QED BY <1>2, <1>3

\* What is out on an account is the disbursement whose row is live.
LEMMA OutHasTheLiveRow ==
    ASSUME NEW b, LoansOut(b), NEW j \in Outstanding(b)
    PROVE  j = <<"disb", j[2]>> /\ LiveOn(<<"disbursement", j[2]>>, b) /\ <<"disbursement", j[2]>> \in DOMAIN rows
<1>1. j \in DOMAIN book /\ book[j].rule = "DISB01" /\ book[j].acct = b /\ ~Undone(j)
  BY DEF Outstanding
<1>2. j = <<"disb", j[2]>> /\ LiveOn(<<"disbursement", j[2]>>, b)
  BY <1>1 DEF LoansOut
<1> QED BY <1>2 DEF LiveOn, RowIn

LEMMA OnlyItsRowIsOut ==
    ASSUME NEW b, LoansOut(b), NEW j \in Outstanding(b), NEW id, NEW k, k = <<"disbursement", id>>, LiveOn(k, b)
    PROVE  j = <<"disb", id>>
<1>1. PICK x : x = <<"disbursement", j[2]>> /\ j = <<"disb", j[2]>> /\ LiveOn(x, b) /\ x \in DOMAIN rows
  BY OutHasTheLiveRow
<1>2. x = k
  BY <1>1 DEF LoansOut, LiveOn, RowIn
<1> QED BY <1>1, <1>2

-----------------------------------------------------------------------------
(* A posting and a commit are steps of the loan life.                      *)

\* LoanLife's Admissible, of a posting.
IsInOrder(p) ==
    /\ p.rule \in DOMAIN Life!When => p.acct \in Accounts /\ account[p.acct].status \in Life!When[p.rule]
    /\ p.rule = "DISB01" => Outstanding(p.acct) = {}
    /\ p.rule = "DISB02" => p.target \in Outstanding(p.acct)
    /\ p.target # None => p.target \in DOMAIN book /\ ~Undone(p.target)

LEMMA PostingIsInOrder ==
    ASSUME LasInv, NEW w \in Workers, Moves(w), NEW key \in DOMAIN book' \ DOMAIN book, NEW p, p = book'[key],
           NEW b, b = AccountOf(w),
           p.acct = b /\ b \in Accounts => LoansOut(b) /\ FreshAccount(w) /\ FreshRow(w) /\ StillAdmitted(w)
    PROVE  IsInOrder(p)
<1>1. PICK r, d : r = req[w] /\ d = draft[w]
  OBVIOUS
<1>2. /\ (p.rule = "REPAY01" /\ p.target = None) \/ Asks(w, r, d, p)
      /\ pc[w] \in {"post", "correct"} /\ key = Call(w)[1] /\ p = Call(w)[2] /\ GLAccepts(p)
  BY <1>1, NewPosting
<1>3. CASE p.rule = "REPAY01" /\ p.target = None
  BY <1>3 DEF IsInOrder, Life!When
<1>4. CASE Asks(w, r, d, p)
  <2>1. /\ pc[w] = "post" /\ p.acct = b
        /\ r.op \in {"confirm", "reverse", "undo", "chargeoff", "delinquency", "modify", "notify", "accrue"}
        /\ r.op \in DOMAIN RuleOf => p.rule = RuleOf[r.op]
        /\ r.op = "notify" => p.rule = d.rule /\ d.rule \in {"PAYOFF01", "CHGOFF02"} /\ r.acct \in Accounts
    BY <1>1, <1>4 DEF Asks
  <2>2. r \in Requests /\ Shaped(r) /\ HoldsRow(w) /\ HoldsAccount(w)
    BY <1>1, <2>1, Serves
  <2>3. r.op \notin {"reverse", "undo"} => p.target = None
    BY <1>4 DEF Asks
  <2>4. r.op \in {"chargeoff", "delinquency", "modify", "notify", "accrue"} => b = r.acct /\ b \in Accounts
    BY <1>1, <2>1, <2>2 DEF AccountOf, Required, Shaped
  <2>5. r.op \in {"confirm", "reverse"} => b \in Accounts
    BY <1>1, <2>1, <2>2 DEF HoldsAccount, Into
  <2>6. r.op = "undo" => /\ p.rule = "REPAY02" /\ p.target = <<"repay", r.id>>
                         /\ p.target \in DOMAIN book /\ b \in Accounts /\ ~IsCorrection(r.id)
    <3>1. SUFFICES ASSUME r.op = "undo"
                   PROVE  /\ p.rule = "REPAY02" /\ p.target = <<"repay", r.id>>
                          /\ p.target \in DOMAIN book /\ b \in Accounts /\ ~IsCorrection(r.id)
      OBVIOUS
    <3>2. p.rule = "REPAY02" /\ p.target = <<"repay", r.id>>
      BY <1>4, <2>1, <3>1 DEF Asks, RuleOf
    <3>3. p.target # None
      BY <2>2, <3>2, NoneIsNothing
    <3>4. p.target \in DOMAIN book
      BY <1>2, <3>3 DEF GLAccepts
    <3>5. Writes(w, <<"repayment", r.id>>)
      BY <1>1, <2>1, <3>1 DEF Writes, Named, RowKey, Table
    <3>6. b \in Accounts
      BY <3>2, <3>4, <3>5, BookedOnItsAccount
    <3>7. ~IsCorrection(r.id)
      BY <3>2, <3>4, RepaidIsNoCorrection
    <3> QED BY <3>2, <3>4, <3>6, <3>7
  <2>7. b \in Accounts /\ LoansOut(b) /\ FreshAccount(w) /\ FreshRow(w) /\ StillAdmitted(w)
    BY <2>1, <2>4, <2>5, <2>6
  <2>8. CASE r.op = "confirm"
    <3>1. p.rule = "DISB01" /\ p.target = None
      BY <2>1, <2>3, <2>8 DEF RuleOf
    <3>2. account[b].status = "PendingDisbursement"
      BY <1>1, <2>1, <2>2, <2>7, <2>8 DEF HoldsAccount, FreshAccount, Into, CanTransition, validTransitions
    <3>3. key = <<"disb", r.id>>
      <4>1. key = SourceEvent(d.rule, r) /\ d.rule = p.rule
        BY <1>1, <1>2, <2>1 DEF Call
      <4> QED BY <2>8, <3>1, <4>1 DEF SourceEvent, Prefix, KeyOf, Reversals
    <3>4. PICK k : k = <<"disbursement", r.id>>
      OBVIOUS
    <3>5. LiveOn(k, b)
      <4>1. RowIn(RowKey(r), {Required[r.op]}) /\ d.row.acct = rows[RowKey(r)].acct
        BY <1>1, <2>1, <2>2, <2>7, <2>8 DEF FreshRow, HoldsRow, Required
      <4>2. RowKey(r) = k /\ b = d.row.acct
        BY <1>1, <2>8, <3>4 DEF RowKey, Table, AccountOf, Required
      <4> QED BY <2>8, <3>4, <4>1, <4>2 DEF LiveOn, RowIn, Required
    <3>6. ASSUME NEW j \in Outstanding(b) PROVE FALSE
      <4>1. j = <<"disb", r.id>>
        BY <2>7, <3>4, <3>5, OnlyItsRowIsOut
      <4> QED BY <3>3, <4>1 DEF Outstanding
    <3> QED BY <2>1, <2>7, <3>1, <3>2, <3>6 DEF IsInOrder, Life!When
  <2>9. CASE r.op = "reverse"
    <3>1. p.rule = "DISB02" /\ p.target = <<"disb", r.id>>
      BY <1>4, <2>1, <2>9 DEF Asks, RuleOf
    <3>2. account[b].status = "Disbursed"
      BY <1>1, <2>1, <2>2, <2>7, <2>9 DEF HoldsAccount, FreshAccount, Into, CanTransition, validTransitions
    <3>3. Has(<<"disb", r.id>>, {"DISB01"}, b) /\ ~Undone(<<"disb", r.id>>)
      BY <1>1, <2>1, <2>2, <2>7, <2>9 DEF HoldsRow, FreshRow, Required, AccountOf
    <3>4. p.target \in Outstanding(b)
      BY <3>1, <3>3 DEF Has, Outstanding
    <3> QED BY <2>1, <2>7, <3>1, <3>2, <3>4 DEF IsInOrder, Life!When, Outstanding
  <2>10. CASE r.op = "undo"
    <3>1. ~Undone(<<"repay", r.id>>)
      BY <1>1, <2>1, <2>6, <2>7, <2>10 DEF FreshRow
    <3> QED BY <2>6, <2>10, <3>1 DEF IsInOrder, Life!When
  <2>11. CASE r.op = "chargeoff"
    <3>1. p.rule = "CHGOFF01" /\ p.target = None
      BY <2>1, <2>3, <2>11 DEF RuleOf
    <3>2. account[b].status = "Disbursed"
      BY <1>1, <2>1, <2>2, <2>7, <2>11 DEF HoldsAccount, FreshAccount, Into
    <3> QED BY <2>1, <2>7, <2>11, <3>1, <3>2 DEF IsInOrder, Life!When
  <2>12. CASE r.op \in {"delinquency", "modify", "accrue"}
    <3>1. /\ p.target = None
          /\ p.rule = IF r.op = "delinquency" THEN "DELINQ01" ELSE IF r.op = "modify" THEN "MOD01" ELSE "ACCR01"
      BY <2>1, <2>3, <2>12 DEF RuleOf
    <3>2. /\ r.op = "delinquency" => account[b].status \notin Terminal
          /\ r.op # "delinquency" => account[b].status = "Disbursed"
      BY <1>1, <2>1, <2>7, <2>12 DEF StillAdmitted
    <3>3. account[b].status \in Statuses
      BY <2>7 DEF LasInv, AtRest, Tabled, AccountRows
    <3> QED BY <2>1, <2>7, <2>12, <3>1, <3>2, <3>3 DEF IsInOrder, Life!When, Statuses, Terminal
  <2>13. CASE r.op = "notify"
    <3>1. p.rule \in {"PAYOFF01", "CHGOFF02"} /\ p.target = None /\ d.rule = p.rule
      BY <2>1, <2>3, <2>13
    <3>2. p.rule = "PAYOFF01" => account[b].status = "Disbursed"
      BY <1>1, <2>1, <2>2, <2>7, <2>13, <3>1 DEF HoldsAccount, FreshAccount, IsPayoff
    <3>3. p.rule = "CHGOFF02" => account[b].status = "ChargedOff"
      BY <1>1, <2>1, <2>7, <2>13, <3>1 DEF StillAdmitted
    <3> QED BY <2>1, <2>7, <2>13, <3>1, <3>2, <3>3 DEF IsInOrder, Life!When
  <2> QED BY <2>1, <2>8, <2>9, <2>10, <2>11, <2>12, <2>13
<1> QED BY <1>2, <1>3, <1>4

\* What LoanLife reads of the entries is what the book says.
LEMMA EntriesTell ==
    /\ DOMAIN EntriesOf = DOMAIN book
    /\ \A k \in DOMAIN book : /\ EntriesOf[k].rule = book[k].rule /\ EntriesOf[k].acct = book[k].acct
                              /\ EntriesOf[k].target = book[k].target
    /\ \A k : Life!Undone(k) <=> Undone(k)
    /\ \A a : Life!Out(a) = Outstanding(a)
    /\ \A a, rule : Life!Has(a, rule) <=> PostedOn(a, rule)
<1>1. /\ DOMAIN EntriesOf = DOMAIN book
      /\ \A k \in DOMAIN book : /\ EntriesOf[k].rule = book[k].rule /\ EntriesOf[k].acct = book[k].acct
                                /\ EntriesOf[k].target = book[k].target
  BY DEF EntriesOf
<1>2. \A k : Life!Undone(k) <=> Undone(k)
  BY <1>1 DEF Life!Undone, Undone
<1>3. \A a : Life!Out(a) = Outstanding(a)
  BY <1>1, <1>2 DEF Life!Out, Outstanding
<1>4. \A a, rule : Life!Has(a, rule) <=> PostedOn(a, rule)
  BY <1>1 DEF Life!Has, PostedOn
<1> QED BY <1>1, <1>2, <1>3, <1>4

LEMMA PostingLives ==
    ASSUME LasInv, NEW w \in Workers, Moves(w), contended' = contended, NEW key \in DOMAIN book' \ DOMAIN book,
           AccountOf(w) \in Accounts \ contended =>
               LoansOut(AccountOf(w)) /\ FreshAccount(w) /\ FreshRow(w) /\ StillAdmitted(w)
    PROVE  Life!Next
<1>1. PICK p, b : p = book'[key] /\ b = AccountOf(w)
  OBVIOUS
<1>2. Keeps(w) /\ UNCHANGED <<account, rows>> /\ key = Call(w)[1] /\ p = Call(w)[2]
  BY <1>1, NewPosting
<1>3. /\ DOMAIN book' = DOMAIN book \cup {key} /\ book'[key] = p
      /\ \A k \in DOMAIN book : book'[k] = book[k]
  BY <1>2 DEF Keeps, Insert
<1>4. p.acct \notin contended => IsInOrder(p)
  BY <1>1, PostingIsInOrder
<1>5. DOMAIN EntriesOf = DOMAIN book /\ DOMAIN EntriesOf' = DOMAIN book'
  BY DEF EntriesOf
<1>6. /\ EntriesOf'[key] = [rule |-> p.rule, acct |-> p.acct, target |-> p.target]
      /\ \A k \in DOMAIN EntriesOf : EntriesOf'[k] = EntriesOf[k]
  BY <1>3 DEF EntriesOf
<1>7. EntriesOf'[key].acct \notin contended => Life!Admissible(EntriesOf'[key])
  <2>1. PICK e : e = EntriesOf'[key] /\ e.rule = p.rule /\ e.acct = p.acct /\ e.target = p.target
    BY <1>6
  <2>2. SUFFICES ASSUME p.acct \notin contended PROVE Life!Admissible(e)
    BY <2>1
  <2>3. e.rule \in DOMAIN Life!When => e.acct \in Accounts /\ StatusOf[e.acct] \in Life!When[e.rule]
    BY <1>4, <2>1, <2>2 DEF IsInOrder, StatusOf
  <2>4. /\ e.rule = "DISB01" => Life!Out(e.acct) = {}
        /\ e.rule = "DISB02" => e.target \in Life!Out(e.acct)
        /\ e.target # None => e.target \in DOMAIN EntriesOf /\ ~Life!Undone(e.target)
    BY <1>4, <2>1, <2>2, EntriesTell DEF IsInOrder
  <2> QED BY <2>1, <2>3, <2>4 DEF Life!Admissible
<1>8. StatusOf' = StatusOf
  BY <1>2 DEF StatusOf
<1>9. Life!Post(key)
  BY <1>3, <1>5, <1>6, <1>7, <1>8 DEF Life!Post
<1>10. key \in DOMAIN EntriesOf' \ DOMAIN EntriesOf
  BY <1>5
<1> QED BY <1>9, <1>10 DEF Life!Next

\* The status a commit gives its account, and the one it takes it from.
Passes(w, r, from, to) ==
    \/ r.op = "create" /\ from = "Approved" /\ to = "PendingDisbursement"
    \/ r.op = "confirm" /\ from = "PendingDisbursement" /\ to = "Disbursed"
    \/ r.op = "reverse" /\ from = "Disbursed" /\ to = "Approved"
    \/ r.op = "chargeoff" /\ from = "Disbursed" /\ to = "ChargedOff"
    \/ IsPayoff(w) /\ from = "Disbursed" /\ to = "Closed"

LEMMA StatusSaved ==
    ASSUME LasInv, NEW w \in Workers, pc[w] = "commit", SavesAccount(w), NEW r, r = req[w],
           NEW b \in Accounts, b = AccountOf(w), FreshAccount(w), AccountSaved(b, SavedAccount(w))
    PROVE  account'[b].status = account[b].status \/ Passes(w, r, account[b].status, account'[b].status)
<1>1. PICK d, a : d = draft[w] /\ a = account[b]
  OBVIOUS
<1>2. /\ d.account = a
      /\ r.op \in {"create", "confirm", "reverse"} => CanTransition(a.status, Into[r.op])
      /\ r.op = "chargeoff" \/ IsPayoff(w) => a.status = "Disbursed"
  BY <1>1 DEF LasInv, InFlight, HoldsAccount, FreshAccount, SavesAccount
<1>3. account \in [Accounts -> AccountRows] /\ DOMAIN a = {"status", "bucket"}
  BY <1>1 DEF LasInv, AtRest, Tabled, AccountRows
<1>4. account'[b] = SavedAccount(w)
  BY <1>3 DEF AccountSaved
<1>5. r.op \in DOMAIN Into \cup {"delinquency", "modify"} \/ IsPayoff(w)
  BY DEF SavesAccount
<1>6. CASE r.op \in DOMAIN Into
  <2>1. r.op \in {"create", "confirm", "reverse", "chargeoff"}
    BY <1>6 DEF Into
  <2>2. SavedAccount(w) = [a EXCEPT !.status = Into[r.op]]
    BY <1>1, <1>2, <1>6, <2>1 DEF SavedAccount, Into, IsPayoff
  <2>3. account'[b].status = Into[r.op]
    BY <1>3, <1>4, <2>2
  <2>4. Passes(w, r, a.status, Into[r.op])
    BY <1>2, <2>1 DEF Passes, Into, CanTransition, validTransitions
  <2> QED BY <1>1, <2>3, <2>4
<1>7. CASE r.op \in {"delinquency", "modify"}
  <2>1. SavedAccount(w) = IF r.op = "delinquency" THEN [a EXCEPT !.bucket = r.bucket] ELSE a
    BY <1>1, <1>2, <1>7 DEF SavedAccount, Into, IsPayoff
  <2>2. SavedAccount(w).status = a.status
    BY <1>3, <2>1
  <2> QED BY <1>1, <1>4, <2>2
<1>8. CASE IsPayoff(w)
  <2>1. SavedAccount(w) = [a EXCEPT !.status = "Closed"]
    BY <1>1, <1>2, <1>8 DEF SavedAccount, Into, IsPayoff
  <2>2. account'[b].status = "Closed"
    BY <1>3, <1>4, <2>1
  <2> QED BY <1>1, <1>2, <1>8, <2>2 DEF Passes
<1> QED BY <1>5, <1>6, <1>7, <1>8

LEMMA SaveIsWarranted ==
    ASSUME LasInv, NEW w \in Workers, pc[w] = "commit", NEW r, r = req[w], NEW b \in Accounts, b = AccountOf(w),
           LoansOut(b), Marked(b), Recovered(b), FreshRow(w), NEW to, Passes(w, r, account[b].status, to)
    PROVE  Life!Warranted(b, account[b].status, to)
<1>1. PICK d, from : d = draft[w] /\ from = account[b].status
  OBVIOUS
<1>2. /\ r \in Requests /\ Shaped(r) /\ HoldsRow(w)
      /\ r.op \in {"create", "confirm", "reverse", "chargeoff"} => Posted(r, d)
      /\ r.op = "notify" /\ d.rule # None => Posted(r, d)
  BY <1>1, AtCommit
<1>3. PICK k : k = <<"disbursement", r.id>>
  OBVIOUS
<1>4. r.op \in {"confirm", "reverse"} => RowKey(r) = k /\ b = d.row.acct /\ rows[k].acct = b
  BY <1>1, <1>2, <1>3 DEF RowKey, Table, AccountOf, Required, HoldsRow
<1>5. CASE r.op = "create" /\ from = "Approved" /\ to = "PendingDisbursement"
  <2>1. ASSUME NEW j \in Outstanding(b) PROVE FALSE
    <3>1. PICK x : LiveOn(x, b) /\ x \in DOMAIN rows
      BY OutHasTheLiveRow
    <3> QED BY <1>1, <1>5, <3>1 DEF LoansOut
  <2>2. Life!Out(b) = {}
    BY <2>1, EntriesTell
  <2> QED BY <1>1, <1>5, <2>2 DEF Life!Warranted
<1>6. CASE r.op = "confirm" /\ from = "PendingDisbursement" /\ to = "Disbursed"
  <2>1. Has(<<"disb", r.id>>, {"DISB01"}, b)
    BY <1>2, <1>4, <1>6 DEF Posted
  <2>2. ~Undone(<<"disb", r.id>>)
    <3>1. RowIn(k, {"PendingDisbursement"})
      BY <1>1, <1>4, <1>6 DEF FreshRow, Required
    <3>2. ~RowIn(k, Halted)
      BY <3>1 DEF RowIn, Halted
    <3> QED BY <1>2, <1>3, <2>1, <3>2 DEF Marked, Has
  <2>3. <<"disb", r.id>> \in Outstanding(b)
    BY <2>1, <2>2 DEF Has, Outstanding
  <2>4. Life!Out(b) # {}
    BY <2>3, EntriesTell
  <2> QED BY <1>1, <1>6, <2>4 DEF Life!Warranted
<1>7. CASE r.op = "reverse" /\ from = "Disbursed" /\ to = "Approved"
  <2>1. Undone(<<"disb", r.id>>)
    BY <1>2, <1>7 DEF Posted
  <2>2. LiveOn(k, b)
    BY <1>1, <1>3, <1>4, <1>7 DEF FreshRow, LiveOn, RowIn
  <2>3. ASSUME NEW j \in Outstanding(b) PROVE FALSE
    <3>1. j = <<"disb", r.id>>
      BY <1>3, <2>2, OnlyItsRowIsOut
    <3> QED BY <2>1, <3>1 DEF Outstanding
  <2>4. Life!Out(b) = {}
    BY <2>3, EntriesTell
  <2> QED BY <1>1, <1>7, <2>4 DEF Life!Warranted
<1>8. CASE r.op = "chargeoff" /\ from = "Disbursed" /\ to = "ChargedOff"
  <2>1. b = r.acct
    BY <1>1, <1>8 DEF AccountOf, Required
  <2>2. PostedOn(b, "CHGOFF01")
    BY <1>2, <1>8, <2>1 DEF Posted, Has, PostedOn
  <2>3. Life!Has(b, "CHGOFF01")
    BY <2>2, EntriesTell
  <2> QED BY <1>1, <1>8, <2>3 DEF Life!Warranted
<1>9. CASE IsPayoff(w) /\ from = "Disbursed" /\ to = "Closed"
  <2>1. r.op = "notify" /\ d.rule = "PAYOFF01"
    BY <1>1, <1>9 DEF IsPayoff
  <2>2. b = r.acct /\ Has(<<"raw", r.id>>, Lump, b)
    BY <1>1, <1>2, <2>1, NoneIsNothing DEF AccountOf, Required, Posted, Prefix
  <2>3. PICK x : x \in DOMAIN book /\ book[x].rule \in {"PAYOFF01", "CHGOFF02"} /\ book[x].acct = b
    BY <2>2 DEF Has, Lump
  <2>4. book[x].rule # "CHGOFF02"
    BY <1>1, <1>9, <2>3 DEF Recovered
  <2>5. PostedOn(b, "PAYOFF01")
    BY <2>3, <2>4 DEF PostedOn
  <2>6. Life!Has(b, "PAYOFF01")
    BY <2>5, EntriesTell
  <2> QED BY <1>1, <1>9, <2>6 DEF Life!Warranted
<1> QED BY <1>1, <1>5, <1>6, <1>7, <1>8, <1>9 DEF Passes

LEMMA CommitLives ==
    ASSUME LasInv, NEW w \in Workers, Commit(w), contended' = contended, NEW b, b = AccountOf(w),
           b \in Accounts \ contended =>
               LoansOut(b) /\ Marked(b) /\ Recovered(b) /\ FreshAccount(w) /\ FreshRow(w)
    PROVE  Life!Next
<1>1. pc[w] = "commit" /\ book' = book
  BY DEF Commit, At
<1>2. EntriesOf' = EntriesOf
  BY <1>1 DEF EntriesOf
<1>3. CASE account' = account
  BY <1>2, <1>3 DEF StatusOf, Life!Next, Life!Contend
<1>4. CASE account' # account
  <2>1. PICK r : r = req[w]
    OBVIOUS
  <2>2. SavesAccount(w) /\ AccountSaved(b, SavedAccount(w))
    BY <1>4 DEF Commit, AccountSaved, lasdb
  <2>3. b \in Accounts /\ \A a \in Accounts \ {b} : account'[a] = account[a]
    <3>1. b \in Accounts
      BY <1>1, <2>2 DEF LasInv, InFlight, HoldsAccount, SavesAccount
    <3> QED BY <1>1, <2>2, <3>1 DEF AccountSaved, LasInv, AtRest, Tabled
  <2>4. b \notin contended =>
           account'[b].status = account[b].status \/ Passes(w, r, account[b].status, account'[b].status)
    BY <1>1, <2>1, <2>2, <2>3, StatusSaved
  <2>5. CASE account'[b].status = account[b].status
    <3>1. \A a \in Accounts : account'[a].status = account[a].status
      BY <2>3, <2>5
    <3>2. StatusOf' = StatusOf
      BY <3>1 DEF StatusOf
    <3> QED BY <1>2, <3>2 DEF Life!Next, Life!Contend
  <2>6. CASE account'[b].status # account[b].status
    <3>1. PICK to : to = account'[b].status
      OBVIOUS
    <3>2. b \notin contended => Life!Warranted(b, account[b].status, to)
      <4>1. SUFFICES ASSUME b \notin contended PROVE Life!Warranted(b, account[b].status, to)
        OBVIOUS
      <4>2. Passes(w, r, account[b].status, to)
        BY <2>4, <2>6, <3>1, <4>1
      <4> QED BY <1>1, <2>1, <2>3, <4>1, <4>2, SaveIsWarranted
    <3>3. StatusOf[b] = account[b].status /\ StatusOf'[b] = to
      BY <2>3, <3>1 DEF StatusOf
    <3>4. StatusOf' = [StatusOf EXCEPT ![b] = StatusOf'[b]]
      BY <2>3 DEF StatusOf
    <3>5. Life!Move(b)
      BY <1>2, <3>2, <3>3, <3>4 DEF Life!Move
    <3> QED BY <2>3, <3>5 DEF Life!Next
  <2> QED BY <2>5, <2>6
<1> QED BY <1>3, <1>4

-----------------------------------------------------------------------------
(* Part 4.  The accounts that no two requests touched at once: what a      *)
(* request has read of one still holds, and what is saved of one is in     *)
(* order.                                                                  *)

Fresh(w) == FreshAccount(w) /\ StillAdmitted(w) /\ FreshValue(w) /\ FreshRow(w) /\ FreshTerm(w)

InOrder(a) == Marked(a) /\ LoansOut(a) /\ Built(a) /\ Recovered(a)

Quiet == Accounts \ contended

Alone(w) == pc[w] # "idle" /\ AccountOf(w) \in Quiet

OverlapsInv ==
    /\ Crossings \subseteq contended /\ contended \subseteq Accounts
    /\ \A w \in Workers : Alone(w) => Fresh(w)
    /\ \A a \in Quiet : InOrder(a)
    /\ ReversedOnce

\* Another handler touches nothing of the account of one that is alone.
LEMMA AloneIsApart ==
    ASSUME Crossings \subseteq contended, NEW w \in Workers, Alone(w), NEW u \in Workers \ {w}
    PROVE  AccountOf(w) \notin Touches(u) /\ (pc[u] # "idle" => AccountOf(w) # AccountOf(u))
<1>1. AccountOf(w) \in Accounts \ contended /\ AccountOf(w) \in Touches(w)
  BY DEF Alone, Quiet, Touches
<1>2. AccountOf(w) \notin Touches(u)
  BY <1>1 DEF Crossings
<1> QED BY <1>2 DEF Touches

\* A request stays on the account it was taken for.
LEMMA StaysOnItsAccount ==
    ASSUME LasInv, NEW u \in Workers, Moves(u), pc[u] # "idle", pc'[u] # "idle"
    PROVE  AccountOf(u)' = AccountOf(u) /\ req'[u] = req[u]
<1>1. \A r \in Requests : ~Receive(u, r)
  BY DEF Receive, At
<1>2. ~Release(u)
  BY Returns
<1>3. AnswerLost(u) \/ Commit(u) => Release(u)
  BY DEF AnswerLost, Commit
<1>4. CASE ReadAccount(u) /\ ~Release(u)
  <2>1. PICK r, a : r = req[u] /\ a = account[AccountOf(u)]
    OBVIOUS
  <2>2. req' = req /\ draft'[u].row = draft[u].row
    BY <1>4, <2>1, ReadAccountTells
  <2> QED BY <2>2 DEF AccountOf
<1>5. CASE Works(u) /\ ~Release(u)
  BY <1>5, WorkKeepsTheDraft DEF AccountOf
<1> QED BY <1>1, <1>2, <1>3, <1>4, <1>5, OneMoves

\* Accounts cross only when a request is taken.
LEMMA CrossingsShrink ==
    ASSUME LasInv, NEW u \in Workers, Moves(u), pc[u] # "idle"
    PROVE  Crossings' \subseteq Crossings
<1>1. ASSUME NEW w \in Workers PROVE Touches(w)' \subseteq Touches(w)
  <2>1. CASE w = u
    <3>1. CASE pc'[u] = "idle"
      BY <2>1, <3>1 DEF Touches
    <3>2. CASE pc'[u] # "idle"
      BY <2>1, <3>2, StaysOnItsAccount DEF Touches
    <3> QED BY <3>1, <3>2
  <2>2. CASE w # u
    <3>1. pc'[w] = pc[w] /\ req'[w] = req[w] /\ draft'[w] = draft[w]
      BY <2>2, OthersRest DEF OthersStay
    <3> QED BY <3>1 DEF Touches, AccountOf
  <2> QED BY <2>1, <2>2
<1> QED BY <1>1 DEF Crossings

LEMMA AloneStaysFresh ==
    ASSUME LasInv, TypesInv, LasInv', TypesInv', OverlapsInv, NEW u \in Workers, Moves(u), contended \subseteq contended',
           NEW w \in Workers, Alone(w)'
    PROVE  Fresh(w)'
<1>1. PICK a : a = AccountOf(w)'
  OBVIOUS
<1>2. a \in Quiet /\ InOrder(a)
  <2>1. a \in Quiet
    BY <1>1 DEF Alone, Quiet
  <2> QED BY <2>1 DEF OverlapsInv
<1>3. CASE w = u
  <2>1. Fresh(u)
    <3>1. CASE pc[u] = "idle"
      BY <3>1 DEF Fresh, FreshAccount, StillAdmitted, FreshValue, FreshRow, FreshTerm
    <3>2. CASE pc[u] # "idle"
      <4>1. AccountOf(u) = a
        BY <1>1, <1>3, <3>2, StaysOnItsAccount DEF Alone
      <4> QED BY <1>2, <3>2, <4>1 DEF Alone, OverlapsInv
    <3> QED BY <3>1, <3>2
  <2>2. FreshAccount(u)' /\ StillAdmitted(u)' /\ FreshValue(u)' /\ FreshTerm(u)'
    BY <2>1, FreshAccountStep, StillAdmittedStep, FreshValueStep, FreshTermStep DEF Fresh
  <2>3. FreshRow(u)'
    <3>1. a = AccountOf(u)' /\ Marked(a) /\ FreshRow(u)
      BY <1>1, <1>2, <1>3, <2>1 DEF InOrder, Fresh
    <3> QED BY <3>1, FreshRowStep
  <2> QED BY <1>3, <2>2, <2>3 DEF Fresh
<1>4. CASE w # u
  <2>1. pc'[w] = pc[w] /\ a = AccountOf(w)
    BY <1>1, <1>4, OthersRest DEF OthersStay, AccountOf
  <2>2. Alone(w)
    BY <1>2, <2>1 DEF Alone
  <2>3. Fresh(w) /\ a \in Accounts /\ Built(a)
    BY <1>2, <2>2 DEF OverlapsInv, Quiet, InOrder
  <2>4. AccountOf(w) \notin Touches(u) /\ (pc[u] # "idle" => AccountOf(w) # AccountOf(u))
    BY <1>4, <2>2, AloneIsApart DEF OverlapsInv
  <2>5. FreshAccount(w)' /\ StillAdmitted(w)'
    <3>1. FreshAccount(w) /\ StillAdmitted(w)
      BY <2>3 DEF Fresh
    <3>2. pc[w] # "idle" => AccountOf(w) \in Accounts /\ (pc[u] # "idle" => AccountOf(w) # AccountOf(u))
      BY <2>1, <2>3, <2>4
    <3> QED BY <1>4, <3>1, <3>2, OthersAccountStays
  <2>6. FreshValue(w)'
    <3>1. FreshValue(w) /\ (pc[w] # "idle" => AccountOf(w) \notin Touches(u))
      BY <2>3, <2>4 DEF Fresh
    <3> QED BY <1>4, <3>1, OthersValueStays
  <2>7. FreshRow(w)'
    <3>1. /\ AccountOf(w) \in Accounts
          /\ pc[w] # "idle" => FreshRow(w)
          /\ pc[u] # "idle" => AccountOf(w) # AccountOf(u)
      BY <2>1, <2>3, <2>4 DEF Fresh
    <3> QED BY <1>4, <3>1, OthersRowStays
  <2>8. FreshTerm(w)'
    <3>1. /\ FreshTerm(w)
          /\ pc[w] # "idle" => Built(AccountOf(w)) /\ (pc[u] # "idle" => AccountOf(w) # AccountOf(u))
      BY <2>1, <2>3, <2>4 DEF Fresh
    <3> QED BY <1>4, <3>1, OthersTermStays
  <2> QED BY <2>5, <2>6, <2>7, <2>8 DEF Fresh
<1> QED BY <1>3, <1>4

LEMMA QuietStaysInOrder ==
    ASSUME LasInv, TypesInv, LasInv', TypesInv', OverlapsInv, NEW u \in Workers, Moves(u), NEW a \in Quiet
    PROVE  InOrder(a)'
<1>1. InOrder(a) /\ a \in Accounts
  BY DEF OverlapsInv, Quiet
<1>2. pc[u] # "idle" /\ a = AccountOf(u) => Fresh(u)
  BY DEF OverlapsInv, Alone
<1>3. Marked(a)'
  <2>1. Marked(a) /\ (pc[u] # "idle" /\ a = AccountOf(u) => FreshRow(u))
    BY <1>1, <1>2 DEF InOrder, Fresh
  <2> QED BY <2>1, MarkedStays
<1>4. LoansOut(a)'
  <2>1. LoansOut(a) /\ (pc[u] # "idle" /\ a = AccountOf(u) => FreshRow(u) /\ FreshAccount(u))
    BY <1>1, <1>2 DEF InOrder, Fresh
  <2> QED BY <1>1, <2>1, LoansOutStep
<1>5. Built(a)'
  <2>1. Built(a) /\ (pc[u] # "idle" /\ a = AccountOf(u) => FreshRow(u) /\ FreshTerm(u))
    BY <1>1, <1>2 DEF InOrder, Fresh
  <2> QED BY <2>1, BuiltStep
<1>6. Recovered(a)'
  <2>1. Recovered(a) /\ (pc[u] # "idle" /\ a = AccountOf(u) => FreshAccount(u) /\ StillAdmitted(u))
    BY <1>1, <1>2 DEF InOrder, Fresh
  <2> QED BY <1>1, <2>1, RecoveredStep
<1> QED BY <1>3, <1>4, <1>5, <1>6 DEF InOrder

LEMMA OverlapsStep ==
    ASSUME LasInv, TypesInv, LasInv', TypesInv', OverlapsInv, NEW u \in Workers, Moves(u),
           contended' = contended \cup Crossings'
    PROVE  OverlapsInv'
<1>1. Crossings' \subseteq contended' /\ contended' \subseteq Accounts
  BY DEF OverlapsInv, Crossings
<1>2. \A w \in Workers : Alone(w)' => Fresh(w)'
  BY AloneStaysFresh
<1>3. \A a \in Quiet' : InOrder(a)'
  <2>1. Quiet' \subseteq Quiet
    BY DEF Quiet
  <2> QED BY <2>1, QuietStaysInOrder
<1>4. ReversedOnce'
  <2>1. ReversedOnce /\ contended \subseteq contended'
    BY DEF OverlapsInv
  <2>2. AccountOf(u) \in Accounts \ contended /\ pc[u] = "post" => FreshRow(u)
    BY DEF OverlapsInv, Alone, Quiet, Fresh
  <2> QED BY <2>1, <2>2, ReversedOnceStep
<1> QED BY <1>1, <1>2, <1>3, <1>4 DEF OverlapsInv

LEMMA OverlapsStart ==
    ASSUME OverlapsInit
    PROVE  OverlapsInv
<1>1. /\ contended = {} /\ book = <<>> /\ rows = <<>>
      /\ DOMAIN book = {} /\ DOMAIN rows = {} /\ \A w \in Workers : pc[w] = "idle"
  BY DEF OverlapsInit, Init
<1>2. Crossings = {}
  BY <1>1 DEF Crossings, Touches
<1>3. ASSUME NEW a \in Accounts PROVE InOrder(a)
  <2>1. Marked(a) /\ LoansOut(a) /\ Recovered(a)
    BY <1>1 DEF Marked, LoansOut, Recovered
  <2>2. Built(a)
    <3>1. Versions(a) = 1 .. 1 /\ ModificationsOf(a) = {}
      BY <1>1 DEF Versions, ModificationsOf
    <3>2. TermsBuilt(a, 1)
      BY <3>1, FS_EmptySet DEF TermsBuilt
    <3> QED BY <3>2 DEF Built
  <2> QED BY <2>1, <2>2 DEF InOrder
<1>4. ReversedOnce
  BY <1>1 DEF ReversedOnce
<1> QED BY <1>1, <1>2, <1>3, <1>4 DEF OverlapsInv, Quiet, Alone

LEMMA OverlapsStutter ==
    ASSUME TypesInv, TypesInv', OverlapsInv, UNCHANGED overlapVars
    PROVE  OverlapsInv'
<1>1. UNCHANGED <<account, rows, book, pc, req, draft, contended>>
  BY DEF overlapVars, vars, lasdb, job
<1>2. Crossings' = Crossings /\ ReversedOnce'
  BY <1>1 DEF Crossings, Touches, AccountOf, OverlapsInv, ReversedOnce
<1>3. ASSUME NEW a PROVE CurrentTermVersion(a)' = CurrentTermVersion(a) /\ Owed(a)' = Owed(a)
  BY <1>1, OwedStays DEF CurrentTermVersion, Versions, PrincipalOf
<1>4. ASSUME NEW w \in Workers, Alone(w)' PROVE Fresh(w)'
  <2>1. Fresh(w)
    BY <1>1, <1>4 DEF Alone, AccountOf, Quiet, OverlapsInv
  <2>2. FreshAccount(w)' /\ StillAdmitted(w)' /\ FreshRow(w)'
    BY <1>1, <2>1 DEF Fresh, FreshAccount, StillAdmitted, AccountOf, IsPayoff, FreshRow, RowIn, RowKey, Named, Undone
  <2>3. FreshValue(w)' /\ FreshTerm(w)'
    <3>1. PICK a : a = AccountOf(w) /\ a = AccountOf(w)'
      BY <1>1 DEF AccountOf
    <3>2. Owed(a)' = Owed(a) /\ CurrentTermVersion(req[w].acct)' = CurrentTermVersion(req[w].acct)
      BY <1>1, <1>3 DEF CurrentTermVersion, Versions, PrincipalOf
    <3>3. FreshValue(w)'
      BY <1>1, <2>1, <3>1, <3>2 DEF Fresh, FreshValue, ValueOf
    <3>4. FreshTerm(w)'
      BY <1>1, <2>1, <3>2 DEF Fresh, FreshTerm
    <3> QED BY <3>3, <3>4
  <2> QED BY <2>2, <2>3 DEF Fresh
<1>5. ASSUME NEW a \in Quiet' PROVE InOrder(a)'
  <2>1. InOrder(a)
    BY <1>1, <1>5 DEF Quiet, OverlapsInv
  <2>2. Marked(a)' /\ LoansOut(a)' /\ Recovered(a)'
    BY <1>1, <2>1 DEF InOrder, Marked, LoansOut, LiveOn, Recovered, RowIn, Undone
  <2>3. Built(a)'
    <3>1. TermRowsStay(a)
      BY <1>1 DEF TermRowsStay
    <3>2. PICK n : TermsBuilt(a, n)
      BY <2>1 DEF InOrder, Built
    <3>3. TermsBuilt(a, n)'
      BY <3>1, <3>2, TermsStayBuilt DEF TypesInv
    <3> QED BY <3>3 DEF Built
  <2> QED BY <2>2, <2>3 DEF InOrder
<1> QED BY <1>1, <1>2, <1>4, <1>5 DEF OverlapsInv

\* A step is a step of one handler.
LEMMA OneIsMoving ==
    ASSUME Next
    PROVE  \E u \in Workers : Moves(u)
BY DEF Next, Moves

\* What overlapping requests leave of an account, for any number of them: what
\* a request alone on its account has read still holds, and what is saved and
\* booked of the account is in order.
THEOREM OverlapsLeaveOrder == OverlapsSpec => [](LasInv /\ TypesInv /\ OverlapsInv)
<1>1. OverlapsSpec => Spec
  <2>1. OverlapsInit => Init
    BY DEF OverlapsInit
  <2>2. [OverlapsNext]_overlapVars => [Next]_vars
    BY DEF OverlapsNext, overlapVars
  <2> QED BY <2>1, <2>2, PTL DEF OverlapsSpec, Spec
<1>2. OverlapsInit => OverlapsInv
  BY OverlapsStart
<1>3. LasInv /\ TypesInv /\ LasInv' /\ TypesInv' /\ OverlapsInv /\ [OverlapsNext]_overlapVars => OverlapsInv'
  <2> SUFFICES ASSUME LasInv, TypesInv, LasInv', TypesInv', OverlapsInv, [OverlapsNext]_overlapVars
               PROVE  OverlapsInv'
    OBVIOUS
  <2>1. CASE UNCHANGED overlapVars
    BY <2>1, OverlapsStutter
  <2>2. CASE OverlapsNext
    <3>1. PICK u \in Workers : Moves(u)
      BY <2>2, OneIsMoving DEF OverlapsNext
    <3>2. contended' = contended \cup Crossings'
      BY <2>2 DEF OverlapsNext
    <3> QED BY <3>1, <3>2, OverlapsStep
  <2> QED BY <2>1, <2>2
<1> QED BY <1>1, <1>2, <1>3, ServicingTypes, PTL DEF OverlapsSpec

\* An account that no two requests touched at once has one disbursement out at
\* a time, through lost answers, retries and reversals that stop half way
\* (OneLoanOut).
THEOREM OneLoanIsOut == OverlapsSpec => []OneLoanOut
<1>1. OverlapsInv => OneLoanOut
  <2> SUFFICES ASSUME OverlapsInv, NEW a \in Accounts \ contended PROVE Cardinality(Outstanding(a)) <= 1
    BY DEF OneLoanOut
  <2>1. LoansOut(a)
    BY DEF OverlapsInv, Quiet, InOrder
  <2> QED BY <2>1, OneIsOut
<1> QED BY <1>1, OverlapsLeaveOrder, PTL

\* On accounts that no two requests touched at once a posting is undone once
\* (ReversedOnce): a reversal that stopped half way leaves its row where no
\* later one starts.
THEOREM PostingsAreReversedOnce == OverlapsSpec => []ReversedOnce
<1>1. OverlapsInv => ReversedOnce
  BY DEF OverlapsInv
<1> QED BY <1>1, OverlapsLeaveOrder, PTL

\* The term versions of an account that no two requests touched at once are its
\* modifications in a row, each growing the principal by what it capitalised
\* (ModificationsBuildTheTerms).
THEOREM TermsAreTheModifications == OverlapsSpec => []ModificationsBuildTheTerms
<1>1. LasInv /\ TypesInv /\ OverlapsInv => ModificationsBuildTheTerms
  <2> SUFFICES ASSUME LasInv, TypesInv, OverlapsInv PROVE ModificationsBuildTheTerms
    OBVIOUS
  <2>1. \A a \in Accounts \ contended : Built(a)
    BY DEF OverlapsInv, Quiet, InOrder
  <2> QED BY <2>1, BuiltTermsAreTheModifications DEF ModificationsBuildTheTerms
<1> QED BY <1>1, OverlapsLeaveOrder, PTL

\* A payment or a charge-off credits no more than what is owed of each
\* receivable of an account that no two requests touched at once, also when a
\* first attempt of it was posted and its answer lost (AppliesOnlyWhatIsOwed).
THEOREM OnlyWhatIsOwedIsApplied == OverlapsSpec => AppliesOnlyWhatIsOwed
<1> DEFINE Applies == \A k \in DOMAIN book' \ DOMAIN book :
           (k[1] = "repay" \/ book'[k].rule = "CHGOFF01") /\ book'[k].acct \notin contended =>
               LET owed == Owed(book'[k].acct)
               IN  \A c \in DOMAIN owed : book'[k].value[c] > 0 => book'[k].value[c] <= owed[c]
<1>1. LasInv /\ TypesInv /\ LasInv' /\ OverlapsInv /\ [OverlapsNext]_overlapVars => [Applies]_vars
  <2> SUFFICES ASSUME LasInv, TypesInv, LasInv', OverlapsInv, Next, NEW k \in DOMAIN book' \ DOMAIN book,
                      k[1] = "repay" \/ book'[k].rule = "CHGOFF01", book'[k].acct \notin contended,
                      NEW owed, owed = Owed(book'[k].acct)
               PROVE  \A c \in DOMAIN owed : book'[k].value[c] > 0 => book'[k].value[c] <= owed[c]
    BY DEF OverlapsNext, overlapVars
  <2>1. PICK u \in Workers : Moves(u)
    BY OneIsMoving
  <2>2. pc[u] # "idle" /\ ((book'[k].rule = "REPAY01" /\ book'[k].target = None) \/ Asks(u, req[u], draft[u], book'[k]))
    BY <2>1, NewPosting
  <2>3. book'[k].acct \in Accounts
    <3>1. CASE k[1] = "repay"
      <4>1. PICK s \in Requests : AskedBy(k, s)'
        BY DEF LasInv, AtRest, BookIsAsked
      <4> QED BY <3>1, <4>1 DEF AskedBy
    <3>2. CASE book'[k].rule = "CHGOFF01"
      <4>1. Asks(u, req[u], draft[u], book'[k])
        BY <2>2, <3>2
      <4>2. req[u].op = "chargeoff" /\ book'[k].acct = AccountOf(u)
        BY <3>2, <4>1 DEF Asks, RuleOf
      <4> QED BY <2>1, <2>2, <4>2, Serves DEF Shaped, AccountOf, Required
    <3> QED BY <3>1, <3>2
  <2>4. book'[k].acct = AccountOf(u) => FreshValue(u)
    BY <2>2, <2>3 DEF OverlapsInv, Alone, Quiet, Fresh
  <2> QED BY <2>1, <2>4, AppliesStep
<1> HIDE DEF Applies
<1>2. OverlapsSpec => [][Applies]_vars
  BY <1>1, OverlapsLeaveOrder, PTL DEF OverlapsSpec
<1> QED BY <1>2, PTL DEF AppliesOnlyWhatIsOwed, Applies

LEMMA StepLives ==
    ASSUME LasInv, OverlapsInv, OverlapsNext
    PROVE  Life!Next
<1>1. PICK u \in Workers : Moves(u)
  BY OneIsMoving DEF OverlapsNext
<1>2. contended' = contended \cup Crossings'
  BY DEF OverlapsNext
<1>3. CASE UNCHANGED <<account, book>>
  BY <1>2, <1>3 DEF Life!Next, Life!Contend, StatusOf, EntriesOf
<1>4. CASE ~UNCHANGED <<account, book>>
  <2>1. pc[u] # "idle"
    <3>1. \A r \in Requests : Receive(u, r) => UNCHANGED <<account, book>>
      BY DEF Receive, lasdb
    <3> QED BY <1>1, <1>4, <3>1, MovesAtWork
  <2>2. contended' = contended
    BY <1>1, <1>2, <2>1, CrossingsShrink DEF OverlapsInv
  <2>3. PICK b : b = AccountOf(u)
    OBVIOUS
  <2>4. b \in Accounts \ contended => Fresh(u) /\ InOrder(b)
    BY <2>1, <2>3 DEF OverlapsInv, Alone, Quiet
  <2>5. CASE book' # book
    <3>1. Keeps(u) /\ pc[u] \in {"post", "correct"}
      BY <1>1, <2>5, BookMoves
    <3>2. PICK key : key \in DOMAIN book' \ DOMAIN book
      BY <2>5, <3>1 DEF Keeps, Insert
    <3>3. AccountOf(u) \in Accounts \ contended =>
              LoansOut(AccountOf(u)) /\ FreshAccount(u) /\ FreshRow(u) /\ StillAdmitted(u)
      BY <2>3, <2>4 DEF Fresh, InOrder
    <3> QED BY <1>1, <2>2, <3>2, <3>3, PostingLives
  <2>6. CASE book' = book
    <3>1. Commit(u)
      BY <1>1, <1>4, <2>6, TablesMove
    <3>2. b \in Accounts \ contended =>
              LoansOut(b) /\ Marked(b) /\ Recovered(b) /\ FreshAccount(u) /\ FreshRow(u)
      BY <2>4 DEF Fresh, InOrder
    <3> QED BY <2>2, <2>3, <3>1, <3>2, CommitLives
  <2> QED BY <2>5, <2>6
<1> QED BY <1>3, <1>4

\* Requests that overlap, fail, are retried and are cut short anywhere
\* implement LoanLife (ImplementsLoanLife): of an account that no two of them
\* touched at once the GL is asked for a posting only in the status it belongs
\* to, and a status follows its posting.
THEOREM ServingImplementsTheLoanLife == OverlapsSpec => ImplementsLoanLife
<1>1. OverlapsInit => Life!Init
  BY DEF OverlapsInit, Init, Booked, Life!Init, StatusOf, EntriesOf
<1>2. LasInv /\ OverlapsInv /\ [OverlapsNext]_overlapVars => [Life!Next]_<<StatusOf, EntriesOf, contended>>
  <2> SUFFICES ASSUME LasInv, OverlapsInv, [OverlapsNext]_overlapVars
               PROVE  [Life!Next]_<<StatusOf, EntriesOf, contended>>
    OBVIOUS
  <2>1. CASE OverlapsNext
    BY <2>1, StepLives
  <2>2. CASE UNCHANGED overlapVars
    BY <2>2 DEF overlapVars, vars, lasdb, StatusOf, EntriesOf
  <2> QED BY <2>1, <2>2
<1> QED BY <1>1, <1>2, OverlapsLeaveOrder, PTL DEF OverlapsSpec, ImplementsLoanLife, Life!Spec
=============================================================================
