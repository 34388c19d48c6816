------------------------------ MODULE GLPosting ------------------------------
(***************************************************************************)
(* The GL service: postJournalEntry and closePeriod, as the workers of an  *)
(* HTTP server run them against one PostgreSQL database.                   *)
(*                                                                         *)
(* A worker handles one request at a time, and every access to the         *)
(* database is a step of its own, since nothing in the code holds a lock   *)
(* from one statement to the next.  A transaction is one step: it is the   *)
(* instant of its commit.  A worker may crash between any two steps, a     *)
(* statement may fail, and a commit may succeed although the service sees  *)
(* it fail.                                                                *)
(*                                                                         *)
(* The steps of one post:   Receive, LookupCache, Build, Stamp,            *)
(* CheckPeriod, ReadBalance (once per line), Commit, Reply, SaveCache;     *)
(* of one close:            Receive, LookupCache, CheckOrder, ReadPeriod,  *)
(* CommitClose, Reply, SaveCache.                                          *)
(***************************************************************************)
EXTENDS PostingRules, FiniteSets

CONSTANTS Workers,       \* the goroutines serving requests
          Requests,      \* the requests a client may send, any of them again
          Keys,          \* the Idempotency-Key values those requests carry
          None,          \* "no value": a nil pointer, a missing row
          MaxMonth,      \* bound: the calendar runs over periods 1 .. MaxMonth
          MaxSends,      \* bound: requests sent, retries included
          MaxFaults,     \* bound: failed statements and lost commit replies
          MaxCrashes     \* bound: workers that die while serving a request

Periods == 1 .. MaxMonth

(***************************************************************************)
(* A post's body: the rule, the shape of the value it carries, whether the *)
(* rule's metadata keys are present, the loan account, the source event it *)
(* reverses and the closed period it adjusts (None when absent).           *)
(* A close's body is the closedBy alone: the period is in the URL, which   *)
(* the middleware's hash does not cover.                                   *)
(***************************************************************************)
Bodies == [rule : STRING, shape : STRING, metadata : BOOLEAN, acct : STRING, value : Values,
           target : Keys \cup {None}, adjusts : Periods \cup {None}]

PostRequests  == [op : {"post"}, key : Keys, body : Bodies]
CloseRequests == [op : {"close"}, key : Keys, period : Periods, closedBy : STRING]

ASSUME ConstantsAssumption ==
    /\ MaxMonth \in Nat \ {0}
    /\ MaxSends \in Nat /\ MaxFaults \in Nat /\ MaxCrashes \in Nat
    /\ None \notin Keys /\ None \notin Periods /\ None \notin Requests
    /\ Requests \subseteq PostRequests \cup CloseRequests

Hash(r) == IF r.op = "post" THEN r.body ELSE [closedBy |-> r.closedBy]

IsPost(r)     == r.op = "post"
IsReversal(r) == r.body.rule \in ReversalRules
-----------------------------------------------------------------------------
VARIABLES
    journal,     \* journal_entries with their lines: a set of entries
    periods,     \* the periods table; a period without a row reads as Open
    outbox,      \* the outbox table: a set of events
    cache,       \* idempotency_keys: the saved envelope of a key, or None
    month,       \* the current calendar period
    clock,       \* ticks at every reading of time, so no two readings tie
    sent,        \* how many requests were sent; numbers the attempts
    faults, crashes,
    pc, req, attempt,   \* per worker: where it is, what it serves, which attempt
    draft,       \* per worker: the entry or the period row being prepared
    answer,      \* per worker: the reply about to be written
    replies      \* history: every reply a client received

db      == <<journal, periods, outbox, cache>>
world   == <<month, clock>>
budget  == <<sent, faults, crashes>>
job     == <<pc, req, attempt, draft, answer>>
vars    == <<db, world, budget, job, replies>>

OpenPeriod == [status |-> "Open", closedAt |-> None, closedBy |-> None]

\* What the attempt n has in hand before it has computed anything.
EmptyDraft == [lines |-> <<>>, balances |-> <<>>, postedAt |-> 0, period |-> 0]

NoAnswer == [status |-> 0, value |-> None]

Init ==
    /\ journal = {} /\ outbox = {}
    /\ periods = [p \in Periods |-> OpenPeriod]
    /\ cache = [k \in Keys |-> None]
    /\ month = 1 /\ clock = 1
    /\ sent = 0 /\ faults = 0 /\ crashes = 0
    /\ pc = [w \in Workers |-> "idle"]
    /\ req = [w \in Workers |-> None]
    /\ attempt = [w \in Workers |-> 0]
    /\ draft = [w \in Workers |-> EmptyDraft]
    /\ answer = [w \in Workers |-> NoAnswer]
    /\ replies = {}
-----------------------------------------------------------------------------
(* Reads.                                                                  *)

Posted(key) == \E e \in journal : e.key = key

FindBySourceEventID(key) == CHOOSE e \in journal : e.key = key

GetPeriod(p) == periods[p]

\* The row ORDER BY posted_at DESC, line_order DESC LIMIT 1 picks, whatever
\* its currency; zero when the account has no line yet.
LinesOf(acct, gl) ==
    {a \in journal \X (1 .. 4) :
        a[1].acct = acct /\ a[2] \in DOMAIN a[1].lines /\ a[1].lines[a[2]].account = gl}

Later(a, b) == \/ a[1].postedAt > b[1].postedAt
               \/ a[1].postedAt = b[1].postedAt /\ a[2] >= b[2]

BalanceAt(a) == a[1].balances[a[2]]

\* Mutant: the query does not ask for the loan account.
GetLatestBalanceOfAnyLoan(acct, gl) ==
    LET rows == UNION {LinesOf(e.acct, gl) : e \in journal}
        last == {a \in rows : \A b \in rows : Later(a, b)}
    IN  IF last = {} THEN 0 ELSE BalanceAt(CHOOSE a \in last : TRUE)

GetLatestRunningBalance(acct, gl) ==
    LET rows == LinesOf(acct, gl)
        last == {a \in rows : \A b \in rows : Later(a, b)}
    IN  IF last = {} THEN 0 ELSE BalanceAt(CHOOSE a \in last : TRUE)

\* Earlier periods with a posted entry and no Closed row.
OpenBefore(p) == {e.period : e \in {x \in journal : x.period < p /\ periods[x.period].status # "Closed"}}
-----------------------------------------------------------------------------
(* The worker's bookkeeping.                                               *)

\* The worker will write the reply next; nothing else can change it.
Answer(w, status, value) ==
    /\ pc' = [pc EXCEPT ![w] = "reply"]
    /\ answer' = [answer EXCEPT ![w] = [status |-> status, value |-> value]]

\* The worker is free again and forgets what it held.
Release(w) ==
    /\ pc' = [pc EXCEPT ![w] = "idle"]
    /\ req' = [req EXCEPT ![w] = None]
    /\ attempt' = [attempt EXCEPT ![w] = 0]
    /\ draft' = [draft EXCEPT ![w] = EmptyDraft]
    /\ answer' = [answer EXCEPT ![w] = NoAnswer]

Goto(w, label) == pc' = [pc EXCEPT ![w] = label]

Receive(w) ==
    /\ pc[w] = "idle"
    /\ sent < MaxSends
    /\ \E r \in Requests : req' = [req EXCEPT ![w] = r]
    /\ sent' = sent + 1
    /\ attempt' = [attempt EXCEPT ![w] = sent + 1]
    /\ Goto(w, "lookup")
    /\ UNCHANGED <<db, world, faults, crashes, draft, answer, replies>>

\* withIdempotency, before the handler: a hit replays, a hit saved for
\* another payload is refused, a miss runs the handler.
LookupCache(w) ==
    /\ pc[w] = "lookup"
    /\ LET hit == cache[req[w].key]
       IN  IF hit = None
           THEN /\ Goto(w, IF IsPost(req[w]) THEN "build" ELSE "order")
                /\ UNCHANGED answer
           ELSE IF hit.hash # Hash(req[w])
           THEN Answer(w, 409, None)
           ELSE Answer(w, hit.status, hit.value)
    /\ UNCHANGED <<db, world, budget, req, attempt, draft, replies>>

\* The reply reaches the client before the middleware saves anything.  Only
\* a success is saved, and a key that already has an envelope keeps it: that
\* is every replay, and a handler whose save would meet ON CONFLICT DO NOTHING.
Reply(w) ==
    /\ pc[w] = "reply"
    /\ replies' = replies \cup
         {[n |-> attempt[w], req |-> req[w], status |-> answer[w].status, value |-> answer[w].value]}
    /\ IF answer[w].status \in 200 .. 299 /\ cache[req[w].key] = None
       THEN Goto(w, "save") /\ UNCHANGED <<req, attempt, draft, answer>>
       ELSE Release(w)
    /\ UNCHANGED <<db, world, budget>>
-----------------------------------------------------------------------------
(* postJournalEntry.                                                       *)

\* Mutant: the shape is not compared with the rule's.
MalformedUnlessAnyShape(b) ==
    \/ b.rule \notin RuleCodes
    \/ b.rule \in ReversalRules /\ b.target = None
    \/ b.rule \in NeedsMetadata /\ ~b.metadata

\* Refused from the request alone: an unknown rule, a value of the wrong
\* shape, a reversal without its target, or missing metadata.
Malformed(b) ==
    \/ b.rule \notin RuleCodes
    \/ b.shape # ShapeFor(b.rule)
    \/ b.rule \in ReversalRules /\ b.target = None
    \/ b.rule \in NeedsMetadata /\ ~b.metadata

RejectMalformed(w) ==
    /\ pc[w] = "build"
    /\ Malformed(req[w].body)
    /\ Answer(w, 400, None)
    /\ UNCHANGED <<db, world, budget, req, attempt, draft, replies>>

Prepare(w, lines) ==
    /\ draft' = [draft EXCEPT ![w].lines = lines]
    /\ Goto(w, "stamp")
    /\ UNCHANGED answer

BuildForward(w) ==
    LET b == req[w].body
    IN  /\ pc[w] = "build"
        /\ ~Malformed(b) /\ ~IsReversal(req[w])
        /\ IF CurrenciesAgree(b.rule, b.value)
           THEN Prepare(w, ForwardLines(b.rule, b.value))
           ELSE Answer(w, 400, None) /\ UNCHANGED draft
        /\ UNCHANGED <<db, world, budget, req, attempt, replies>>

\* Mutant: the target's period is not looked at.
BuildReversalOfAnyPeriod(w) ==
    LET b == req[w].body
        original == FindBySourceEventID(b.target)
    IN  /\ pc[w] = "build"
        /\ ~Malformed(b) /\ IsReversal(req[w])
        /\ IF /\ Posted(b.target)
              /\ SuppliedTotal(b.rule, b.value) = Wrap(Total(original.lines, "DEBIT"))
           THEN Prepare(w, MirrorForReversal(original.lines))
           ELSE Answer(w, 422, None) /\ UNCHANGED draft
        /\ UNCHANGED <<db, world, budget, req, attempt, replies>>

\* Two statements, the target and then its period, in one step: an entry
\* that is found stays found and never changes, so they could as well have
\* been read together at the later instant.
BuildReversal(w) ==
    LET b == req[w].body
        original == FindBySourceEventID(b.target)
    IN  /\ pc[w] = "build"
        /\ ~Malformed(b) /\ IsReversal(req[w])
        /\ IF /\ Posted(b.target)
              /\ GetPeriod(original.period).status # "Closed"
              /\ SuppliedTotal(b.rule, b.value) = Wrap(Total(original.lines, "DEBIT"))
           THEN Prepare(w, MirrorForReversal(original.lines))
           ELSE Answer(w, 422, None) /\ UNCHANGED draft
        /\ UNCHANGED <<db, world, budget, req, attempt, replies>>

\* now := s.now(); the entry's period is the calendar's at that instant.
Stamp(w) ==
    /\ pc[w] = "stamp"
    /\ draft' = [draft EXCEPT ![w].postedAt = clock, ![w].period = month]
    /\ clock' = clock + 1
    /\ Goto(w, "period")
    /\ UNCHANGED <<db, month, budget, req, attempt, answer, replies>>

\* Mutant: the current period is not looked at.
PeriodAcceptsAlways(b, period) ==
    b.adjusts # None => GetPeriod(b.adjusts).status = "Closed"

PeriodAccepts(b, period) ==
    IF b.adjusts # None THEN GetPeriod(b.adjusts).status = "Closed"
    ELSE GetPeriod(period).status # "Closed"

CheckPeriod(w) ==
    /\ pc[w] = "period"
    /\ IF PeriodAccepts(req[w].body, draft[w].period)
       THEN Goto(w, "balance") /\ UNCHANGED answer
       ELSE Answer(w, 422, None)
    /\ UNCHANGED <<db, world, budget, req, attempt, draft, replies>>

\* One line's running balance: the latest posted one, or the one an earlier
\* line of this very entry has just reached.
ReadBalance(w) ==
    LET d == draft[w]
        i == Len(d.balances) + 1
        l == d.lines[i]
        mine == {j \in DOMAIN d.balances : d.lines[j].account = l.account}
        last == {j \in mine : \A k \in mine : k <= j}
        before == IF last = {} THEN GetLatestRunningBalance(req[w].body.acct, l.account)
                  ELSE d.balances[CHOOSE j \in last : TRUE]
        after == Wrap(IF l.direction = "DEBIT" THEN before + l.amount ELSE before - l.amount)
    IN  /\ pc[w] = "balance"
        /\ draft' = [draft EXCEPT ![w].balances = Append(@, after)]
        /\ IF i = Len(d.lines) THEN Goto(w, "commit") ELSE UNCHANGED pc
        /\ UNCHANGED <<db, world, budget, req, attempt, answer, replies>>

Entry(w) ==
    [id |-> attempt[w], key |-> req[w].key, rule |-> req[w].body.rule, acct |-> req[w].body.acct,
     lines |-> draft[w].lines, balances |-> draft[w].balances,
     postedAt |-> draft[w].postedAt, period |-> draft[w].period,
     adjusts |-> req[w].body.adjusts, reverses |-> req[w].body.target]

\* Mutant: no UNIQUE constraint.
SourceEventUnconstrained(key) == key \in Keys

\* The UNIQUE constraint on journal_entries.source_event_id.
SourceEventIsFree(key) == ~Posted(key)

\* The foreign key of reversal_of_source_event_id, which a row may satisfy
\* by pointing at itself.
TargetExists(e) == e.reverses \in {None, e.key} \/ Posted(e.reverses)

\* NewJournalEntry refuses, or the insert or the trigger does.
RejectEntry(w) ==
    /\ pc[w] = "commit"
    /\ \/ ~ValidateBalanced(draft[w].lines)
       \/ /\ SourceEventIsFree(req[w].key)
          /\ ~(TargetExists(Entry(w)) /\ TriggerAccepts(draft[w].lines))
    /\ Answer(w, 400, None)
    /\ UNCHANGED <<db, world, budget, req, attempt, draft, replies>>

\* Mutant: the loser answers with the entry it failed to insert.
ReturnLoser(w) ==
    /\ pc[w] = "commit"
    /\ ValidateBalanced(draft[w].lines)
    /\ ~SourceEventIsFree(req[w].key)
    /\ Answer(w, 201, Entry(w))
    /\ UNCHANGED <<db, world, budget, req, attempt, draft, replies>>

\* A concurrent or an earlier attempt posted this key: its entry is the
\* answer, read by a second statement whose result is already settled.
ReturnWinner(w) ==
    /\ pc[w] = "commit"
    /\ ValidateBalanced(draft[w].lines)
    /\ ~SourceEventIsFree(req[w].key)
    /\ Answer(w, 201, FindBySourceEventID(req[w].key))
    /\ UNCHANGED <<db, world, budget, req, attempt, draft, replies>>

\* Mutant: the event is left out of the transaction.
InsertWithoutEvent(w) ==
    /\ ValidateBalanced(draft[w].lines)
    /\ SourceEventIsFree(req[w].key)
    /\ TargetExists(Entry(w))
    /\ TriggerAccepts(draft[w].lines)
    /\ journal' = journal \cup {Entry(w)}
    /\ UNCHANGED <<periods, outbox, cache>>

\* The transaction: the entry with all its lines, and its event.
Insert(w) ==
    /\ ValidateBalanced(draft[w].lines)
    /\ SourceEventIsFree(req[w].key)
    /\ TargetExists(Entry(w))
    /\ TriggerAccepts(draft[w].lines)
    /\ journal' = journal \cup {Entry(w)}
    /\ outbox' = outbox \cup {[topic |-> "gl.entry.posted", about |-> Entry(w)]}
    /\ UNCHANGED <<periods, cache>>

CommitEntry(w) ==
    /\ pc[w] = "commit"
    /\ Insert(w)
    /\ Answer(w, 201, Entry(w))
    /\ UNCHANGED <<world, budget, req, attempt, draft, replies>>
-----------------------------------------------------------------------------
(* closePeriod.                                                            *)

CheckOrder(w) ==
    /\ pc[w] = "order"
    /\ IF OpenBefore(req[w].period) = {}
       THEN Goto(w, "row") /\ UNCHANGED answer
       ELSE Answer(w, 409, None)
    /\ UNCHANGED <<db, world, budget, req, attempt, draft, replies>>

ClosedRow(p, row) == [period |-> p, row |-> row]

ReadPeriod(w) ==
    LET p == req[w].period
    IN  /\ pc[w] = "row"
        /\ IF GetPeriod(p).status = "Closed"
           THEN Answer(w, 200, ClosedRow(p, GetPeriod(p))) /\ UNCHANGED draft
           ELSE /\ draft' = [draft EXCEPT ![w].postedAt = clock]
                /\ Goto(w, "close")
                /\ UNCHANGED answer
        /\ clock' = clock + 1
        /\ UNCHANGED <<db, month, budget, req, attempt, replies>>

\* The upsert does not look at the row it overwrites.
Upsert(w) ==
    LET p == req[w].period
        row == [status |-> "Closed", closedAt |-> draft[w].postedAt, closedBy |-> req[w].closedBy]
    IN  /\ periods' = [periods EXCEPT ![p] = row]
        /\ outbox' = outbox \cup {[topic |-> "gl.period.closed", about |-> ClosedRow(p, row)]}
        /\ UNCHANGED <<journal, cache>>

CommitClose(w) ==
    /\ pc[w] = "close"
    /\ Upsert(w)
    /\ Answer(w, 200, ClosedRow(req[w].period, periods'[req[w].period]))
    /\ UNCHANGED <<world, budget, req, attempt, draft, replies>>
-----------------------------------------------------------------------------
(* After the reply, and what goes wrong.                                   *)

\* INSERT ... ON CONFLICT DO NOTHING, in a transaction of its own.
SaveCache(w) ==
    /\ pc[w] = "save"
    /\ LET k == req[w].key
           envelope == [hash |-> Hash(req[w]), status |-> answer[w].status, value |-> answer[w].value]
       IN  cache' = [cache EXCEPT ![k] = IF @ = None THEN envelope ELSE @]
    /\ Release(w)
    /\ UNCHANGED <<journal, periods, outbox, world, budget, replies>>

UsesDatabase(w) == \/ pc[w] \in {"lookup", "period", "balance", "commit", "order", "row", "close"}
                   \/ pc[w] = "build" /\ ~Malformed(req[w].body) /\ IsReversal(req[w])

\* The status a store error becomes: 500 from the middleware and from a
\* close, but 400 from writePostJournalEntryError's default case.
FaultStatus(w) == IF pc[w] = "lookup" \/ ~IsPost(req[w]) THEN 500 ELSE 400

\* A statement or a whole transaction fails and changes nothing.
StatementFails(w) ==
    /\ faults < MaxFaults
    /\ UsesDatabase(w)
    /\ faults' = faults + 1
    /\ Answer(w, FaultStatus(w), None)
    /\ UNCHANGED <<db, world, sent, crashes, req, attempt, draft, replies>>

\* The database commits, but the service gets an error for an answer.
CommitReplyLost(w) ==
    /\ faults < MaxFaults
    /\ \/ pc[w] = "commit" /\ Insert(w)
       \/ pc[w] = "close" /\ Upsert(w)
    /\ faults' = faults + 1
    /\ Answer(w, FaultStatus(w), None)
    /\ UNCHANGED <<world, sent, crashes, req, attempt, draft, replies>>

\* The error of the cache's own transaction is ignored.
SaveFails(w) ==
    /\ faults < MaxFaults
    /\ pc[w] = "save"
    /\ faults' = faults + 1
    /\ Release(w)
    /\ UNCHANGED <<db, world, sent, crashes, replies>>

\* The process dies: the client hears nothing, the database keeps what it
\* committed.
Crash(w) ==
    /\ crashes < MaxCrashes
    /\ pc[w] # "idle"
    /\ crashes' = crashes + 1
    /\ Release(w)
    /\ UNCHANGED <<db, world, sent, faults, replies>>

NextMonth ==
    /\ month < MaxMonth
    /\ month' = month + 1
    /\ UNCHANGED <<db, clock, budget, job, replies>>
-----------------------------------------------------------------------------
Step(w) ==
    \/ Receive(w) \/ LookupCache(w) \/ Reply(w) \/ SaveCache(w)
    \/ RejectMalformed(w) \/ BuildForward(w) \/ BuildReversal(w)
    \/ Stamp(w) \/ CheckPeriod(w) \/ ReadBalance(w)
    \/ RejectEntry(w) \/ ReturnWinner(w) \/ CommitEntry(w)
    \/ CheckOrder(w) \/ ReadPeriod(w) \/ CommitClose(w)
    \/ StatementFails(w) \/ CommitReplyLost(w) \/ SaveFails(w) \/ Crash(w)

Next == NextMonth \/ \E w \in Workers : Step(w)

Spec == Init /\ [][Next]_vars
-----------------------------------------------------------------------------
(* Types.                                                                  *)

Entries == [id : Nat, key : Keys, rule : STRING, acct : STRING,
            lines : Seq(Lines), balances : Seq(Int), postedAt : Nat, period : Periods,
            adjusts : Periods \cup {None}, reverses : Keys \cup {None}]

Rows == [status : {"Open", "Closed"}, closedAt : Nat \cup {None}, closedBy : STRING \cup {None}]

ClosedRows == [period : Periods, row : Rows]

Results == Entries \cup ClosedRows \cup {None}

Statuses == {0, 200, 201, 400, 409, 422, 500}

Labels == {"idle", "lookup", "build", "stamp", "period", "balance", "commit",
           "order", "row", "close", "reply", "save"}

Events == [topic : {"gl.entry.posted"}, about : Entries]
            \cup [topic : {"gl.period.closed"}, about : ClosedRows]

Envelopes == [hash : {Hash(r) : r \in Requests}, status : {200, 201}, value : Results]

Drafts  == [lines : Seq(Lines), balances : Seq(Int), postedAt : Nat, period : Nat]
Answers == [status : Statuses, value : Results]
Replies == [n : Nat, req : Requests, status : Statuses, value : Results]

DbTypeOK ==
    /\ journal \subseteq Entries
    /\ periods \in [Periods -> Rows]
    /\ outbox \subseteq Events
    /\ cache \in [Keys -> {None} \cup Envelopes]

WorldTypeOK ==
    /\ month \in Periods /\ clock \in Nat
    /\ sent \in Nat /\ faults \in Nat /\ crashes \in Nat

JobTypeOK ==
    /\ pc \in [Workers -> Labels]
    /\ req \in [Workers -> Requests \cup {None}]
    /\ attempt \in [Workers -> Nat]
    /\ draft \in [Workers -> Drafts]
    /\ answer \in [Workers -> Answers]

\* Every variable ranges over the values the code's types allow.
TypeOK == DbTypeOK /\ WorldTypeOK /\ JobTypeOK /\ replies \subseteq Replies
-----------------------------------------------------------------------------
(* What holds whatever the workers do.                                     *)

\* A source event is posted at most once, however many attempts race, retry
\* or crash (invariant 4; the UNIQUE constraint of journal_entries).
OneEntryPerSourceEvent == \A e, f \in journal : e.key = f.key => e = f

\* Every client that is told 201 is told the one entry the ledger holds for
\* its key: a replay, a lost race and a retry after a crash all name it.
RepliesNameThePostedEntry ==
    \A r \in replies : r.status = 201 => r.value \in journal /\ r.value.key = r.req.key

\* A reversal entry names an entry posted before it and flips each of its
\* lines, same account, amount and currency (buildReversalLines).
ReversalsMirrorTheirTarget ==
    \A e \in journal : e.rule \in ReversalRules =>
        \E o \in journal :
            /\ o.key = e.reverses /\ o.postedAt < e.postedAt
            /\ DOMAIN e.lines = DOMAIN o.lines
            /\ \A i \in DOMAIN o.lines :
                 /\ e.lines[i].direction # o.lines[i].direction
                 /\ e.lines[i].account = o.lines[i].account
                 /\ e.lines[i].amount = o.lines[i].amount
                 /\ e.lines[i].currency = o.lines[i].currency

\* Debits equal credits in every entry, in exact arithmetic, so getTrialBalance
\* comes out even whatever it adds up (invariant 1): an allocation whose int64
\* sum wraps passes the constructor and must not reach the ledger.
DebitsEqualCredits ==
    \A e \in journal : Total(e.lines, "DEBIT") = Total(e.lines, "CREDIT")

\* The outbox tells of every entry, once, of nothing that was rolled back,
\* and of every close record the periods table holds (invariant 2).
OutboxTellsTheLedger ==
    /\ {x.about : x \in {y \in outbox : y.topic = "gl.entry.posted"}} = journal
    /\ \A p \in Periods : periods[p].status = "Closed" =>
          [topic |-> "gl.period.closed", about |-> ClosedRow(p, periods[p])] \in outbox
\* The requests no state of the ledger makes acceptable: an unknown rule, a
\* value of another shape, missing metadata, a reversal of nothing, or a
\* forward value the rule cannot post.
Illegal(b) ==
    ~ /\ b.rule \in RuleCodes
      /\ b.shape = ShapeFor(b.rule)
      /\ b.rule \in NeedsMetadata => b.metadata
      /\ IF b.rule \in ReversalRules THEN b.target # None ELSE Legal(b.rule, b.value)

\* No other request was ever given this one's key.
KeyIsItsOwn(r) == \A q \in Requests : q.key = r.key => q = r

\* A forward body may carry a target, which the entry then has to refer to.
NamesATarget(b) == b.rule \notin ReversalRules /\ b.target # None

RequestsAtFault  == {r \in Requests : IsPost(r) /\ (Illegal(r.body) \/ NamesATarget(r.body))}
HopelessRequests == {r \in Requests : IsPost(r) /\ Illegal(r.body) /\ KeyIsItsOwn(r)}

\* As long as no statement has failed, a post is answered 400 only if the
\* request itself is at fault: losing a race, a replay, a retry after a crash
\* is never reported as a bad request.  And a bad request is never posted nor
\* reported as a conflict, unless the client gave its key to another one; it
\* may be answered 422, since the period is looked at before the entry is, but
\* only if it names a period or one is closed (rejectIfPeriodClosed,
\* validateShape, writePostJournalEntryError).
BadRequestsAreIllegal ==
    faults = 0 =>
        \A r \in {x \in replies : IsPost(x.req)} :
            /\ r.status = 400 => r.req \in RequestsAtFault
            /\ r.req \in HopelessRequests =>
                  \/ r.status = 400
                  \/ /\ r.status = 422
                     /\ r.req.body.adjusts # None \/ \E p \in Periods : periods[p].status = "Closed"
-----------------------------------------------------------------------------
(* The inductive invariant behind the properties above.                    *)

HandlerLabels == {"build", "stamp", "period", "balance", "commit"}
CloseLabels   == {"order", "row", "close"}

\* A busy worker serves a request, in the handler that request is for, with
\* the stamp it took, one balance per line when it commits and a status
\* worth saving when it saves.
JobOK ==
    \A w \in Workers :
        /\ pc[w] \in {"idle", "lookup", "build", "stamp", "period"} => draft[w].balances = <<>>
        /\ pc[w] \in {"stamp", "period"} => Len(draft[w].lines) > 0
        /\ pc[w] = "balance" => Len(draft[w].balances) < Len(draft[w].lines)
        /\ pc[w] = "commit" => Len(draft[w].balances) = Len(draft[w].lines)
        /\ pc[w] # "idle" => req[w] \in Requests
        /\ pc[w] \in HandlerLabels => IsPost(req[w])
        /\ pc[w] \in CloseLabels => ~IsPost(req[w])
        /\ pc[w] \in {"period", "balance", "commit"} => draft[w].period \in Periods
        /\ pc[w] = "save" => answer[w].status \in {200, 201}

\* Time only moves forward: what is posted, or about to be, was stamped
\* before now.
PostedInThePast ==
    /\ \A e \in journal : e.postedAt < clock
    /\ \A w \in Workers : pc[w] \in {"period", "balance", "commit"} => draft[w].postedAt < clock

EntriesBalance == \A e \in journal : TriggerAccepts(e.lines)

EveryLineHasABalance == \A e \in journal : Len(e.balances) = Len(e.lines)

Mirrors(lines, target) == \E o \in journal : o.key = target /\ lines = MirrorForReversal(o.lines)

\* A reversal in progress holds the mirror image of its target, which is
\* in the journal and older than the stamp.
ReversalDrafts ==
    \A w \in Workers :
        /\ pc[w] \in {"stamp", "period", "balance", "commit"} /\ IsReversal(req[w])
             => Mirrors(draft[w].lines, req[w].body.target)
        /\ pc[w] \in {"period", "balance", "commit"} /\ IsReversal(req[w])
             => \A o \in journal : o.key = req[w].body.target => o.postedAt < draft[w].postedAt

ReversalsMirror ==
    \A e \in journal : e.rule \in ReversalRules =>
        \E o \in journal : /\ o.key = e.reverses /\ o.postedAt < e.postedAt
                           /\ e.lines = MirrorForReversal(o.lines)

\* A 201 in a worker's hand or in the cache names the posted entry too.
Names(key, result) == result \in journal /\ result.key = key

AnswersNameThePostedEntry ==
    /\ \A w \in Workers : pc[w] \in {"reply", "save"} /\ answer[w].status = 201
                             => Names(req[w].key, answer[w].value)
    /\ \A k \in Keys : cache[k] # None /\ cache[k].status = 201 => Names(k, cache[k].value)

IInv ==
    /\ TypeOK /\ JobOK
    /\ OneEntryPerSourceEvent /\ EntriesBalance /\ EveryLineHasABalance /\ PostedInThePast
    /\ ReversalDrafts /\ ReversalsMirror
    /\ AnswersNameThePostedEntry /\ RepliesNameThePostedEntry
-----------------------------------------------------------------------------
(* What the repository says of the service and a race breaks.              *)

\* A closed period never receives an ordinary posting (PostJournalEntry's
\* comment on ErrCurrentPeriodClosed).
NoOrdinaryPostingIntoClosedPeriod ==
    [][\A e \in journal' \ journal :
          e.adjusts = None => periods[e.period].status # "Closed"]_journal
-----------------------------------------------------------------------------
(* The ledger this implements: each key has at most one entry, and every   *)
(* success names it.                                                       *)

PostedKeys == {e.key : e \in journal}

PostedBook   == [k \in PostedKeys |-> FindBySourceEventID(k)]
GivenEntries == {<<r.req.key, r.value>> : r \in {x \in replies : x.status = 201}}

Book == INSTANCE Ledger WITH
    Reversals <- ReversalRules, Balanced <- TriggerAccepts, Mirror <- MirrorForReversal,
    book <- PostedBook, given <- GivenEntries

\* Workers, races, crashes and retries implement the ledger of Ledger.tla.
ImplementsLedger == Book!Spec
=============================================================================
