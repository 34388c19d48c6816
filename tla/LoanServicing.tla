---------------------------- MODULE LoanServicing ----------------------------
(***************************************************************************)
(* The loan account subledger (LAS): the requests that move money or the   *)
(* status of a loan account, served by concurrent workers over one         *)
(* database, each through at most two postings in the GL.                  *)
(*                                                                         *)
(* A row is read whole and saved whole: nothing is locked between a        *)
(* handler's read, its call to the GL and its transaction.  The steps of   *)
(* one request are Receive (which reads the resource the request names),   *)
(* ReadAccount, ReadFee, ReadBalance, SavePending, PostToGL, SaveFee or    *)
(* Correct and SaveCorrection, and Commit; each operation takes those it   *)
(* needs, in this order.  A transaction is the instant of its commit.      *)
(*                                                                         *)
(* The GL is its book: what it keeps of each source event, and its answer. *)
(* How it comes to that answer is GLPosting's subject.                     *)
(***************************************************************************)
EXTENDS Integers, FiniteSets, FiniteSetsExt

CONSTANTS Accounts, Workers,
          Requests,        \* the requests a client may send, any of them again
          None,            \* a nil pointer, a missing row
          Principal,       \* what a loan is disbursed for
          DailyInterest,   \* one day's interest on a balance that is owed
          LateFee,
          MaxSends,        \* bound: requests sent, retries included
          MaxFaults        \* bound: calls that fail, answers lost, workers that die

Statuses == {"Approved", "PendingDisbursement", "Disbursed", "Closed", "ChargedOff"}
Terminal == {"Closed", "ChargedOff"}

\* Mutant: a disbursement can be reversed after its loan was written off.
validTransitionsReinstating ==
    {<<"Approved", "PendingDisbursement">>, <<"PendingDisbursement", "Disbursed">>,
     <<"Disbursed", "Approved">>, <<"Disbursed", "Closed">>, <<"Disbursed", "ChargedOff">>,
     <<"ChargedOff", "Approved">>}

validTransitions ==
    {<<"Approved", "PendingDisbursement">>, <<"PendingDisbursement", "Disbursed">>,
     <<"Disbursed", "Approved">>, <<"Disbursed", "Closed">>, <<"Disbursed", "ChargedOff">>}

CanTransition(from, to) == <<from, to>> \in validTransitions

\* dpd is kept as its bucket; non-accrual is the flag of the last one.
Buckets == {"Current", "1-29", "90+"}

\* An amount of money by category, as an allocation splits it.
Values == [fee : Int, interest : Int, principal : Int]
Nothing == [fee |-> 0, interest |-> 0, principal |-> 0]
OfPrincipal(n) == [Nothing EXCEPT !.principal = n]
OfInterest(n)  == [Nothing EXCEPT !.interest = n]
OfFee(n)       == [Nothing EXCEPT !.fee = n]
Total(v) == v.fee + v.interest + v.principal

ASSUME ConstantsAssumption ==
    /\ Principal \in Nat \ {0} /\ DailyInterest \in Nat /\ LateFee \in Nat
    /\ MaxSends \in Nat /\ MaxFaults \in Nat
    /\ None \notin Accounts /\ None \notin Requests

VARIABLES
    account,   \* loan_accounts: the status and the delinquency bucket of each
    rows,      \* the resource tables: a function from <<table, id>> to a row
    outbox,    \* the ids of the outbox rows
    quotes,    \* the payoff quotes this process has issued
    book,      \* the GL: a function from a source event to its posting
    sent, faults,
    pc, req,   \* per worker: where it is and what it serves
    draft      \* per worker: the rows it read, the rule and value it will post

lasdb  == <<account, rows, outbox>>
budget == <<sent, faults>>
job    == <<pc, req, draft>>
vars   == <<lasdb, quotes, book, budget, job>>

EmptyDraft == [account |-> None, row |-> None, term |-> None, rule |-> None, value |-> Nothing]

Booked == [status |-> "Approved", bucket |-> "Current"]

Init ==
    /\ account = [a \in Accounts |-> Booked]
    /\ rows = <<>> /\ outbox = {} /\ quotes = {}
    /\ book = <<>>
    /\ sent = 0 /\ faults = 0
    /\ pc = [w \in Workers |-> "idle"]
    /\ req = [w \in Workers |-> None]
    /\ draft = [w \in Workers |-> EmptyDraft]

\* term_versions: the booked terms are version one, each later one is a row.
Versions(a) == {1} \cup {k[2][2] : k \in {t \in DOMAIN rows : t[1] = "terms" /\ t[2][1] = a}}

PrincipalOf(a, v) == IF v = 1 THEN Principal ELSE rows[<<"terms", <<a, v>>>>].value.principal

CurrentTermVersion(a) == [version |-> Max(Versions(a)), principal |-> PrincipalOf(a, Max(Versions(a)))]

Insert(f, k, v) == [x \in DOMAIN f \cup {k} |-> IF x = k THEN v ELSE f[x]]

\* INSERT ... ON CONFLICT (id) DO UPDATE: a repayment keeps nothing of the row
\* it falls on, the other tables its account and all but a payoff its amount.
Upsert(f, k, row) ==
    Insert(f, k, IF k \notin DOMAIN f \/ k[1] = "repayment" THEN row
                 ELSE [row EXCEPT !.acct = f[k].acct,
                                  !.value = IF k[1] = "payoff" THEN @ ELSE f[k].value])
-----------------------------------------------------------------------------
(* The GL as its caller sees it.                                           *)

Raises == {"DISB01", "ACCR01", "DELINQ01"}
Lowers == {"REPAY01", "PAYOFF01", "CHGOFF01"}

Scale(v, n) == [c \in DOMAIN v |-> n * v[c]]

ForwardEffect(p) ==
    CASE p.rule \in Raises -> p.value
      [] p.rule \in Lowers -> Scale(p.value, -1)
      [] p.rule = "MOD01"   -> [Scale(p.value, -1) EXCEPT !.principal = Total(p.value)]
      [] OTHER             -> Nothing

\* What a posting does to the receivables of its account.  A reversal undoes
\* the lines of its target, whatever split of the total the request carried.
Effect(p) == IF p.target = None THEN ForwardEffect(p)
             ELSE Scale(ForwardEffect(book[p.target]), -1)

\* RebuildFromLines over the statement of the account.
Owed(a) ==
    LET keys   == {k \in DOMAIN book : book[k].acct = a}
        sum(c) == SumFunctionOnSet([k \in keys |-> Effect(book[k])[c]], keys)
    IN  [fee |-> sum("fee"), interest |-> sum("interest"), principal |-> sum("principal")]

\* The GL refuses lines that make no entry, and a reversal whose target it
\* does not have or whose total is another.
GLAccepts(p) ==
    /\ \A c \in DOMAIN p.value : p.value[c] >= 0
    /\ Total(p.value) > 0
    /\ p.target # None => /\ p.target \in DOMAIN book
                          /\ Total(p.value) = Total(book[p.target].value)
-----------------------------------------------------------------------------
(* Requests: the resource each one names, the status that resource must    *)
(* have, and the statuses that make the request a replay.                  *)

Table == [create |-> "disbursement", confirm |-> "disbursement", reverse |-> "disbursement",
          undo |-> "repayment", chargeoff |-> "chargeoff", waive |-> "fee", delinquency |-> "fee",
          modify |-> "modification"]

\* What a client may send.  An Idempotency-Key is drawn for one request and
\* names it: the id of a disbursement, a payment, a charge-off or a
\* modification, the key of a reversal.  A late fee's id is made of its account
\* and due date, a correction's of the id of its payment and a suffix no
\* client's own id has.
Shaped(r) ==
    /\ r.op \in DOMAIN Table \cup {"notify", "accrue", "quote"}
    /\ r.op \in {"create", "chargeoff", "delinquency", "accrue", "modify", "quote"} => r.acct \in Accounts
    /\ r.op = "notify"      => r.acct \in Accounts \cup {None} /\ r.amount \in Int
    /\ r.op = "undo"        => r.to \in Accounts \cup {None}
    /\ r.op = "delinquency" => r.bucket \in Buckets
    /\ r.op = "modify"      => r.capital \in Values

Reversals == {"reverse", "undo", "waive"}
Keyed     == {"create", "notify", "chargeoff", "modify"}

KeyOf(r) == IF r.op \in Reversals THEN r.key ELSE r.id

ASSUME RequestsAssumption ==
    /\ \A r \in Requests : Shaped(r)
    /\ \A r, s \in Requests :
          {r.op, s.op} \subseteq Reversals \cup Keyed /\ KeyOf(r) = KeyOf(s) =>
              r.op = s.op /\ r.id = s.id /\ (r.op \in Keyed => r.acct = s.acct)
    /\ \A r, s \in Requests :
          r.op = "delinquency" /\ s.op = "delinquency" /\ r.id = s.id => r.acct = s.acct
    /\ \A r, s \in Requests : r.op = "notify" /\ s.op = "undo" => r.id # <<"correction", s.id>>

RowKey(r) == <<Table[r.op], r.id>>

\* One payment is looked up as a repayment, then a payoff, then a recovery.
Named(r) == IF r.op = "notify" THEN {"repayment", "payoff", "recovery"} \X {r.id} ELSE {RowKey(r)}

Required == [confirm |-> "PendingDisbursement", reverse |-> "Disbursed",
             undo |-> "Posted", waive |-> "Assessed"]

Replayed == [confirm |-> {"Disbursed"},
             reverse |-> {"ReversalPending", "Reversed"},
             undo    |-> {"ReversalPending", "Reversed", "Corrected"},
             waive   |-> {"WaivePending", "Waived"}]

IsReplay(r) ==
    \/ r.op \in {"create", "notify", "chargeoff", "modify"} /\ Named(r) \cap DOMAIN rows # {}
    \/ /\ r.op \in DOMAIN Replayed /\ RowKey(r) \in DOMAIN rows
       /\ rows[RowKey(r)].status \in Replayed[r.op]

IsServable(r) ==
    r.op \in DOMAIN Required =>
        RowKey(r) \in DOMAIN rows /\ rows[RowKey(r)].status = Required[r.op]

\* The account a request is about: the one in its body or that of its row.
AccountOf(w) == IF req[w].op \in DOMAIN Required THEN draft[w].row.acct ELSE req[w].acct

\* The Idempotency-Key of each rule.  "raw": the request's own key, unmarked,
\* which is the id of a payment, a charge-off or a modification and any other
\* of a reversal.
Prefix == [DISB01 |-> "disb", REPAY01 |-> "repay", DELINQ01 |-> "late-fee", ACCR01 |-> "accr",
           DISB02 |-> "raw", REPAY02 |-> "raw", PAYOFF01 |-> "raw", CHGOFF01 |-> "raw",
           CHGOFF02 |-> "raw", DELINQ02 |-> "raw", MOD01 |-> "raw"]

SourceEvent(rule, r) ==
    <<Prefix[rule], KeyOf(r)>>

RuleOf == [confirm |-> "DISB01", reverse |-> "DISB02", undo |-> "REPAY02", chargeoff |-> "CHGOFF01",
           delinquency |-> "DELINQ01", waive |-> "DELINQ02", accrue |-> "ACCR01", modify |-> "MOD01"]

EntryId(key) == <<"entry", key>>

ASSUME NoneIsNothing ==
    /\ None \notin DOMAIN Prefix
    /\ None \notin {EntryId(<<"late-fee", r.id>>) : r \in Requests}
    /\ None \notin {"disb", "repay"} \X {r.id : r \in Requests}

\* A reversal names its target by source event, a waiver by the entry's id.
TargetOf(w) ==
    CASE draft[w].rule = "DISB02"   -> <<"disb", req[w].id>>
      [] draft[w].rule = "REPAY02"  -> <<"repay", req[w].id>>
      [] draft[w].rule = "DELINQ02" -> draft[w].row.entry
      [] OTHER                      -> None

\* <<the key, the posting>> of the call the worker is about to make.
Call(w) ==
    IF pc[w] = "correct"
    THEN <<<<"correction", req[w].id>>,
           [rule |-> "REPAY01", acct |-> req[w].to, value |-> draft[w].value, target |-> None]>>
    ELSE <<SourceEvent(draft[w].rule, req[w]),
           [rule |-> draft[w].rule, acct |-> AccountOf(w), value |-> draft[w].value,
            target |-> TargetOf(w)]>>
-----------------------------------------------------------------------------
(* The worker's bookkeeping.                                               *)

Goto(w, step) == pc' = [pc EXCEPT ![w] = step]

\* The handler returns, whatever it answers.
Release(w) ==
    /\ Goto(w, "idle")
    /\ req' = [req EXCEPT ![w] = None]
    /\ draft' = [draft EXCEPT ![w] = EmptyDraft]

At(w, step) == pc[w] = step
-----------------------------------------------------------------------------
(* Receive and the reads.                                                  *)

FirstStep(r) ==
    CASE r.op \in {"undo", "waive"}              -> "pending"
      [] r.op = "notify" /\ r.acct = None        -> "commit"
      [] OTHER                                   -> "account"

\* A quote has a fresh id: a quote request is not sent twice.
IsFresh(r) == r.op = "quote" => /\ \A q \in quotes : q.id # r.id
                                /\ \A w \in Workers : req[w] # r

Receive(w, r) ==
    /\ At(w, "idle") /\ IsFresh(r)
    /\ sent < MaxSends /\ sent' = sent + 1
    /\ \/ (IsReplay(r) \/ ~IsServable(r)) /\ UNCHANGED job
       \/ /\ ~IsReplay(r) /\ IsServable(r)
          /\ Goto(w, FirstStep(r))
          /\ req' = [req EXCEPT ![w] = r]
          /\ draft' = [draft EXCEPT
                ![w].row   = IF r.op \in DOMAIN Required THEN rows[RowKey(r)] ELSE None,
                ![w].value = CASE r.op \in DOMAIN Required -> rows[RowKey(r)].value
                               [] r.op = "modify"           -> r.capital
                               [] OTHER                     -> Nothing,
                ![w].rule  = IF r.op \in DOMAIN RuleOf THEN RuleOf[r.op] ELSE None]
    /\ UNCHANGED <<lasdb, quotes, book, faults>>

Into == [create |-> "PendingDisbursement", confirm |-> "Disbursed",
         reverse |-> "Approved", chargeoff |-> "ChargedOff"]

\* Of the quotes this replica has, those a payment settles.
Settled(r, known) == {q \in known : q.id = r.quote /\ q.acct = r.acct /\ r.amount >= Total(q.value)}

IsRecovery(r, a) == a.status = "ChargedOff"

\* Mutant: the next status is set without TransitionTo.
AdmitsAnyTransition(r, a, settled) ==
    CASE r.op = "notify"                   -> a.status # "Closed"
      [] r.op \in {"delinquency", "quote"} -> a.status \notin Terminal
      [] r.op = "accrue"                   -> a.status = "Disbursed" /\ a.bucket # "90+"
      [] OTHER                             -> a.status \notin Terminal

Admits(r, a, settled) ==
    CASE r.op \in DOMAIN Into              -> CanTransition(a.status, Into[r.op])
      [] r.op = "notify"                   -> \/ IsRecovery(r, a)
                                              \/ a.status # "Closed" /\ settled = {}
                                              \/ CanTransition(a.status, "Closed")
      [] r.op \in {"delinquency", "quote"} -> a.status \notin Terminal
      [] r.op = "accrue"                   -> a.status = "Disbursed" /\ a.bucket # "90+"
      [] r.op = "modify"                   -> a.status = "Disbursed"

NewlyPastDue(r, a) == a.bucket = "Current" /\ r.bucket # "Current" /\ r.id # None

\* Mutant: a confirmed disbursement is saved without being posted.
StepAfterAccountUnposted(r, a, settled) ==
    CASE r.op \in {"create", "confirm"} -> "commit"
      [] r.op = "reverse"     -> "pending"
      [] r.op = "delinquency" -> IF NewlyPastDue(r, a) THEN "fee" ELSE "commit"
      [] r.op = "notify"      -> IF IsRecovery(r, a) \/ settled # {} THEN "post" ELSE "balance"
      [] OTHER                -> "balance"

StepAfterAccount(r, a, settled) ==
    CASE r.op = "create"      -> "commit"
      [] r.op = "confirm"     -> "post"
      [] r.op = "reverse"     -> "pending"
      [] r.op = "delinquency" -> IF NewlyPastDue(r, a) THEN "fee" ELSE "commit"
      [] r.op = "modify"      -> IF r.capital = Nothing THEN "commit" ELSE "post"
      [] r.op = "notify"      -> IF IsRecovery(r, a) \/ settled # {} THEN "post" ELSE "balance"
      [] OTHER                -> "balance"

\* The rule a payment is posted by, decided by the account just read.
PaymentRule(r, a, settled) == IF IsRecovery(r, a) THEN "CHGOFF02"
                              ELSE IF settled # {} THEN "PAYOFF01" ELSE "REPAY01"

PaymentValue(r, a, settled) == IF IsRecovery(r, a) THEN OfPrincipal(r.amount)
                               ELSE IF settled # {} THEN (CHOOSE q \in settled : TRUE).value
                               ELSE Nothing

\* known: a quote is remembered by the replica that issued it, until it stops.
ReadAccount(w) ==
    LET r == req[w]
        a == account[AccountOf(w)]
    IN  /\ At(w, "account")
        /\ \E known \in {quotes, {}} :
             LET settled == IF r.op = "notify" THEN Settled(r, known) ELSE {}
             IN  \/ ~Admits(r, a, settled) /\ Release(w)
                 \/ /\ Admits(r, a, settled)
                    /\ Goto(w, StepAfterAccount(r, a, settled))
                    /\ draft' = [draft EXCEPT
                          ![w].account = a,
                          ![w].term  = IF r.op \in {"create", "modify"} THEN CurrentTermVersion(r.acct) ELSE None,
                          ![w].rule  = IF r.op = "notify" THEN PaymentRule(r, a, settled) ELSE @,
                          ![w].value = IF r.op = "notify" THEN PaymentValue(r, a, settled) ELSE @]
                    /\ UNCHANGED req
        /\ UNCHANGED <<lasdb, quotes, book, budget>>

\* Mutant: a late fee is saved without being posted.
ReadFeeUnposted(w) ==
    /\ At(w, "fee")
    /\ Goto(w, IF RowKey(req[w]) \in DOMAIN rows THEN "commit" ELSE "savefee")
    /\ draft' = [draft EXCEPT ![w].value = OfFee(LateFee)]
    /\ UNCHANGED <<lasdb, quotes, book, budget, req>>

\* A late fee is charged once for a due date.
ReadFee(w) ==
    /\ At(w, "fee")
    /\ Goto(w, IF RowKey(req[w]) \in DOMAIN rows THEN "commit" ELSE "post")
    /\ draft' = [draft EXCEPT ![w].value = OfFee(LateFee)]
    /\ UNCHANGED <<lasdb, quotes, book, budget, req>>

\* Mutant: a category takes all that is left of the payment.
TakeUncapped(amount, owed) == IF amount <= 0 \/ owed <= 0 THEN 0 ELSE amount

Take(amount, owed) == IF amount <= 0 \/ owed <= 0 THEN 0
                      ELSE IF amount >= owed THEN owed ELSE amount

\* Fees first, then interest, then principal; the rest goes to suspense.
Waterfall(amount, owed) ==
    LET f == Take(amount, owed.fee)
        i == Take(amount - f, owed.interest)
    IN  [fee |-> f, interest |-> i, principal |-> Take(amount - f - i, owed.principal)]

ValueOf(r, owed) ==
    CASE r.op = "notify"    -> Waterfall(r.amount, owed)
      [] r.op = "chargeoff" -> owed
      [] r.op = "accrue"    -> OfInterest(DailyInterest)

ReadBalance(w) ==
    LET r    == req[w]
        owed == Owed(AccountOf(w))
    IN  /\ At(w, "balance")
        /\ \/ r.op = "accrue" /\ (owed.principal <= 0 \/ DailyInterest = 0) /\ Release(w)
           \/ /\ r.op # "quote"
              /\ r.op = "accrue" => owed.principal > 0 /\ DailyInterest > 0
              /\ Goto(w, IF r.op = "chargeoff" THEN "pending" ELSE "post")
              /\ draft' = [draft EXCEPT ![w].value = ValueOf(r, owed)]
              /\ UNCHANGED req
        /\ UNCHANGED <<lasdb, quotes, book, budget>>

IssueQuote(w) ==
    LET r == req[w]
    IN  /\ At(w, "balance") /\ r.op = "quote"
        /\ quotes' = quotes \cup {[id |-> r.id, acct |-> r.acct, value |-> Owed(r.acct)]}
        /\ Release(w)
        /\ UNCHANGED <<lasdb, book, budget>>
-----------------------------------------------------------------------------
(* The intermediate status, the postings, and what is saved after them.    *)

\* Mutant: the status before the GL is called is the old one.
PendingUnmarked == [reverse |-> "Disbursed", undo |-> "Posted", waive |-> "Assessed"]

Pending == [reverse |-> "ReversalPending", undo |-> "ReversalPending", waive |-> "WaivePending"]

Row(status, acct, value, entry) ==
    [status |-> status, acct |-> acct, value |-> value, entry |-> entry]

\* The upsert of a row as the handler holds it, over whatever is there.
SavePending(w) ==
    LET r == req[w]
    IN  /\ At(w, "pending")
        /\ rows' = Upsert(rows, RowKey(r),
                          IF r.op = "chargeoff"
                          THEN Row("PendingChargeOff", r.acct, draft[w].value, None)
                          ELSE [draft[w].row EXCEPT !.status = Pending[r.op]])
        /\ Goto(w, "post")
        /\ UNCHANGED <<account, outbox, quotes, book, budget, req, draft>>

StepAfterPosting(w) ==
    CASE pc[w] = "correct"                                      -> "savecorrection"
      [] pc[w] = "post" /\ req[w].op = "undo" /\ req[w].to # None -> "correct"
      [] pc[w] = "post" /\ req[w].op = "delinquency"              -> "savefee"
      [] OTHER                                                    -> "commit"

Calling(w) == At(w, "post") \/ At(w, "correct")

\* The GL keeps the posting, unless it already has one of that key.
Keeps(w) ==
    LET key == Call(w)[1]  p == Call(w)[2]
    IN  IF key \in DOMAIN book THEN UNCHANGED book
        ELSE GLAccepts(p) /\ book' = Insert(book, key, p)

\* The entry comes back: the new one, or the one the key already has.
PostToGL(w) ==
    /\ Calling(w)
    /\ Keeps(w)
    /\ IF req[w].op = "accrue" THEN Release(w)
       ELSE Goto(w, StepAfterPosting(w)) /\ UNCHANGED <<req, draft>>
    /\ UNCHANGED <<lasdb, quotes, budget>>

\* Mutant: the GL's error is not looked at.
GLRefusalIgnored(w) ==
    LET key == Call(w)[1]  p == Call(w)[2]
    IN  /\ Calling(w)
        /\ IF key \in DOMAIN book THEN book[key] # p ELSE ~GLAccepts(p)
        /\ Goto(w, StepAfterPosting(w))
        /\ UNCHANGED <<lasdb, quotes, book, budget, req, draft>>

\* 422, or 409 for a key the GL remembers with another body.
GLRefuses(w) ==
    LET key == Call(w)[1]  p == Call(w)[2]
    IN  /\ Calling(w)
        /\ IF key \in DOMAIN book THEN book[key] # p ELSE ~GLAccepts(p)
        /\ Release(w)
        /\ UNCHANGED <<lasdb, quotes, book, budget>>

\* The GL keeps the posting and its answer is lost.
AnswerLost(w) ==
    /\ Calling(w)
    /\ Keeps(w)
    /\ faults < MaxFaults /\ faults' = faults + 1
    /\ Release(w)
    /\ UNCHANGED <<lasdb, quotes, sent>>

SaveFee(w) ==
    LET r == req[w]
    IN  /\ At(w, "savefee")
        /\ rows' = Upsert(rows, RowKey(r),
                          Row("Assessed", r.acct, draft[w].value, EntryId(<<"late-fee", r.id>>)))
        /\ Goto(w, "commit")
        /\ UNCHANGED <<account, outbox, quotes, book, budget, req, draft>>

\* The repayment the money should have been, on the account it belongs to.
SaveCorrection(w) ==
    LET key == <<"correction", req[w].id>>
    IN  /\ At(w, "savecorrection")
        /\ rows' = Upsert(rows, <<"repayment", key>>,
                          Row("Posted", req[w].to, draft[w].value, EntryId(key)))
        /\ Goto(w, "commit")
        /\ UNCHANGED <<account, outbox, quotes, book, budget, req, draft>>
-----------------------------------------------------------------------------
(* The last transaction: the account row, the resource row and the event.  *)

IsPayoff(w) == req[w].op = "notify" /\ draft[w].rule = "PAYOFF01"

SavesAccount(w) == req[w].op \in DOMAIN Into \cup {"delinquency", "modify"} \/ IsPayoff(w)

SavedAccount(w) ==
    LET a == draft[w].account
    IN  CASE req[w].op \in DOMAIN Into   -> [a EXCEPT !.status = Into[req[w].op]]
          [] req[w].op = "delinquency"   -> [a EXCEPT !.bucket = req[w].bucket]
          [] req[w].op = "modify"        -> a
          [] IsPayoff(w)                 -> [a EXCEPT !.status = "Closed"]

PaymentTable == [REPAY01 |-> "repayment", PAYOFF01 |-> "payoff", CHGOFF02 |-> "recovery"]

PaymentStatus == [REPAY01 |-> "Posted", PAYOFF01 |-> "Closed", CHGOFF02 |-> "Received"]

\* Mutant: capitalised interest and fees do not grow the principal.
GrownPrincipalForgotten(w) == draft[w].term.principal

\* The principal of the next term version.
GrownPrincipal(w) == draft[w].term.principal + Total(req[w].capital)

TermKey(w) == <<"terms", <<req[w].acct, draft[w].term.version + 1>>>>

ModificationRow(w) ==
    [status |-> "Applied", acct |-> req[w].acct, value |-> req[w].capital,
     entry |-> IF req[w].capital = Nothing THEN None ELSE EntryId(SourceEvent("MOD01", req[w])),
     version |-> draft[w].term.version + 1]

\* INSERT ... ON CONFLICT DO NOTHING: a version that is there stays.
AddTermVersion(w) ==
    IF req[w].op # "modify" \/ TermKey(w) \in DOMAIN rows THEN rows
    ELSE Insert(rows, TermKey(w), Row("InForce", req[w].acct, OfPrincipal(GrownPrincipal(w)), None))

\* The row the transaction saves, as <<key, row>>.
SavedRow(w) ==
    LET r    == req[w]
        d    == draft[w]
        id   == EntryId(SourceEvent(d.rule, r))
    IN  CASE r.op = "create"    -> <<RowKey(r), Row("PendingDisbursement", r.acct, OfPrincipal(d.term.principal), None)>>
          [] r.op = "confirm"   -> <<RowKey(r), [d.row EXCEPT !.status = "Disbursed", !.entry = id]>>
          [] r.op = "reverse"   -> <<RowKey(r), [d.row EXCEPT !.status = "Reversed", !.entry = id]>>
          [] r.op = "undo"      -> <<RowKey(r), [d.row EXCEPT !.status = IF r.to = None THEN "Reversed" ELSE "Corrected"]>>
          [] r.op = "waive"     -> <<RowKey(r), [d.row EXCEPT !.status = "Waived"]>>
          [] r.op = "chargeoff" -> <<RowKey(r), Row("ChargedOff", r.acct, d.value, id)>>
          [] r.op = "modify"    -> <<RowKey(r), ModificationRow(w)>>
          [] r.op = "notify"    ->
               IF d.rule = None THEN <<<<"repayment", r.id>>, Row("Unmatched", None, Nothing, None)>>
               ELSE <<<<PaymentTable[d.rule], r.id>>, Row(PaymentStatus[d.rule], r.acct, d.value, id)>>

\* Mutant: a charge-off is not announced.
EventOfUnannounced(w) ==
    LET r == req[w]
    IN  CASE r.op = "confirm" -> {<<"disbursed", r.id>>}
          [] r.op = "notify"  ->
               CASE draft[w].rule = None       -> {<<"unmatched", r.id>>}
                 [] draft[w].rule = "REPAY01"  -> {<<"posted", r.id>>}
                 [] draft[w].rule = "PAYOFF01" -> {<<"closed", r.id>>}
                 [] OTHER                      -> {}
          [] OTHER            -> {}

\* The event, whose id is its primary key; a delinquency's are dated and
\* never collide, so they are left out.
EventOf(w) ==
    LET r == req[w]
    IN  CASE r.op = "confirm"   -> {<<"disbursed", r.id>>}
          [] r.op = "chargeoff" -> {<<"chargedoff", r.id>>}
          [] r.op = "modify"    -> {<<"modified", r.id>>}
          [] r.op = "notify"    ->
               CASE draft[w].rule = None       -> {<<"unmatched", r.id>>}
                 [] draft[w].rule = "REPAY01"  -> {<<"posted", r.id>>}
                 [] draft[w].rule = "PAYOFF01" -> {<<"closed", r.id>>}
                 [] OTHER                      -> {}
          [] OTHER              -> {}

Commit(w) ==
    /\ At(w, "commit")
    /\ \/ EventOf(w) \cap outbox # {} /\ UNCHANGED lasdb
       \/ /\ EventOf(w) \cap outbox = {}
          /\ outbox' = outbox \cup EventOf(w)
          /\ account' = IF SavesAccount(w) THEN [account EXCEPT ![AccountOf(w)] = SavedAccount(w)]
                        ELSE account
          /\ rows' = IF req[w].op = "delinquency" THEN rows
                     ELSE Upsert(AddTermVersion(w), SavedRow(w)[1], SavedRow(w)[2])
    /\ Release(w)
    /\ UNCHANGED <<quotes, book, budget>>
-----------------------------------------------------------------------------
\* A statement fails, the GL is not reached, or the worker's replica dies.
GivesUp(w) ==
    /\ ~At(w, "idle")
    /\ faults < MaxFaults /\ faults' = faults + 1
    /\ Release(w)
    /\ UNCHANGED <<lasdb, quotes, book, sent>>

Next == \E w \in Workers :
    \/ \E r \in Requests : Receive(w, r)
    \/ ReadAccount(w) \/ ReadFee(w) \/ ReadBalance(w) \/ IssueQuote(w)
    \/ SavePending(w) \/ PostToGL(w) \/ GLRefuses(w) \/ AnswerLost(w)
    \/ SaveFee(w) \/ SaveCorrection(w) \/ Commit(w)
    \/ GivesUp(w)

Spec == Init /\ [][Next]_vars
-----------------------------------------------------------------------------
(* Properties.                                                             *)

Tables == {"disbursement", "repayment", "payoff", "recovery", "chargeoff", "fee", "terms", "modification"}

RowStatuses == {"PendingDisbursement", "Disbursed", "ReversalPending", "Reversed", "Posted", "Unmatched",
                "Corrected", "Closed", "Received", "PendingChargeOff", "ChargedOff", "Assessed",
                "WaivePending", "Waived", "InForce"}

Rows == [status : RowStatuses, acct : Accounts \cup {None}, value : Values,
         entry : {None} \cup {EntryId(k) : k \in DOMAIN book}]

Modifications == [status : {"Applied"}, acct : Accounts, value : Values,
                  entry : {None} \cup {EntryId(k) : k \in DOMAIN book}, version : Nat]

\* Every table holds rows of its shape, and every journal entry id a row
\* carries is one the GL handed out.
TypeOK ==
    /\ account \in [Accounts -> [status : Statuses, bucket : Buckets]]
    /\ \A k \in DOMAIN rows : k[1] \in Tables /\ rows[k] \in IF k[1] = "modification" THEN Modifications ELSE Rows
    /\ pc \in [Workers -> {"idle", "account", "fee", "balance", "pending", "post", "correct",
                           "savefee", "savecorrection", "commit"}]
    /\ req \in [Workers -> Requests \cup {None}]
    /\ sent <= MaxSends /\ faults <= MaxFaults

Has(key, allowed, acct) == key \in DOMAIN book /\ book[key].rule \in allowed /\ book[key].acct = acct

\* A payoff and a recovery post under the payment's own reference, so what
\* one of them finds there may be the other's.
Lump == {"PAYOFF01", "CHGOFF02"}

Undone(target) == \E k \in DOMAIN book : book[k].target = target

\* The accounts that reversals of a payment say it belongs to.
CorrectedTo(id) == {r.to : r \in {x \in Requests : x.op = "undo" /\ x.id = id /\ x.to # None}}

\* The row of a correction: the posting has one of those accounts and the row
\* has one, which is another when two reversals of the payment each name one
\* and run together, for the GL answers both with the entry it has.
Corrects(id, acct) ==
    \E s \in Requests : /\ s.op = "undo" /\ id = <<"correction", s.id>> /\ acct \in CorrectedTo(s.id)
                        /\ \E a \in CorrectedTo(s.id) : Has(id, {"REPAY01"}, a)

\* What the GL must have posted for the row at k to claim what it claims.
Founded(k) ==
    LET row == rows[k]
    IN  CASE k[1] = "disbursement" ->
               /\ row.status # "PendingDisbursement" => Has(<<"disb", k[2]>>, {"DISB01"}, row.acct)
               /\ row.status = "Reversed" => Undone(<<"disb", k[2]>>)
          [] k[1] = "repayment" ->
               /\ row.status # "Unmatched" => \/ Has(<<"repay", k[2]>>, {"REPAY01"}, row.acct)
                                              \/ Corrects(k[2], row.acct)
               /\ row.status \in {"Reversed", "Corrected"} => Undone(<<"repay", k[2]>>)
               /\ row.status = "Corrected" => <<"correction", k[2]>> \in DOMAIN book
          [] k[1] \in {"payoff", "recovery"} -> Has(<<"raw", k[2]>>, Lump, row.acct)
          [] k[1] = "chargeoff" -> row.status = "ChargedOff" => Has(<<"raw", k[2]>>, {"CHGOFF01"}, row.acct)
          [] k[1] = "fee"       -> Has(<<"late-fee", k[2]>>, {"DELINQ01"}, row.acct)
          [] k[1] = "modification" -> row.value # Nothing => Has(<<"raw", k[2]>>, {"MOD01"}, row.acct)
          [] k[1] = "terms"     -> TRUE

\* A disbursement, repayment, payoff, recovery, charge-off, fee or modification
\* only claims what the GL has posted, by that rule: whatever stale row is
\* saved over it and whichever call of a handler fails, no row is ahead of the
\* book.  It is posted on the row's own account, but for a correction: when
\* overlapping reversals of one payment name two accounts, the row may show
\* the one and the posting be on the other (Corrects).
RowsAreBehindTheBook == \A k \in DOMAIN rows : Founded(k)

PostingOf(e) ==
    CASE e[1] = "disbursed"  -> <<<<"disb", e[2]>>, {"DISB01"}>>
      [] e[1] = "posted"     -> <<<<"repay", e[2]>>, {"REPAY01"}>>
      [] e[1] = "closed"     -> <<<<"raw", e[2]>>, Lump>>
      [] e[1] = "chargedoff" -> <<<<"raw", e[2]>>, {"CHGOFF01"}>>

\* loan.account.disbursed, loan.repayment.posted, loan.account.closed and
\* loan.account.chargedoff are published of postings the GL has made, also
\* when the answer of a first attempt was lost and a retry took over.
EventsAreBehindTheBook ==
    \A e \in outbox : e[1] \notin {"unmatched", "modified"} =>
        \E a \in Accounts : Has(PostingOf(e)[1], PostingOf(e)[2], a)

PostedOn(a, rule) == \E k \in DOMAIN book : book[k].acct = a /\ book[k].rule = rule

\* An account is Disbursed or beyond only after the GL has posted a
\* disbursement of it, and ChargedOff only after it has written it off,
\* whatever two handlers save over one another.
StatusIsBehindTheBook ==
    \A a \in Accounts :
        /\ account[a].status \in {"Disbursed", "Closed", "ChargedOff"} => PostedOn(a, "DISB01")
        /\ account[a].status = "ChargedOff" => PostedOn(a, "CHGOFF01")

\* What the tables show as settled was announced: no disbursement is funded,
\* no loan paid off or charged off without the event Payment and CRM wait for.
SettledIsAnnounced ==
    \A k \in DOMAIN rows :
        /\ k[1] = "disbursement" /\ rows[k].status \in {"Disbursed", "ReversalPending", "Reversed"} =>
               <<"disbursed", k[2]>> \in outbox
        /\ k[1] = "payoff" => <<"closed", k[2]>> \in outbox
        /\ k[1] = "chargeoff" /\ rows[k].status = "ChargedOff" => <<"chargedoff", k[2]>> \in outbox
-----------------------------------------------------------------------------
(* What the repository says of the service and the code does not do.       *)

\* One payment moves money once, also when its answer is lost and it is sent
\* again (loan-account-subledger.yaml, receiveRepaymentNotification).
OnePostingPerPayment ==
    \A p \in {r \in Requests : r.op = "notify"} :
        ~({<<"repay", p.id>>, <<"raw", p.id>>} \subseteq DOMAIN book)
=============================================================================
