# A TLA+ model of core_banking_loan

`core_banking_loan` is a loan ledger made of five Go services, each with its own
PostgreSQL database. This directory holds TLA+ modules translated from their source,
TLC configurations that check them on small instances, and proofs that TLAPS checks
for every size. The paths below are relative to `src/services/`.

## 1. Inventory

| service | state | operations that change it | what must hold |
|---|---|---|---|
| **gl** General Ledger | `journal_entries` with lines, `periods`, `outbox`, `idempotency_keys` | `postJournalEntry`, `closePeriod` | debits equal credits; one entry per source event; a reversal mirrors its target; a closed period stays closed; a reply names what is posted |
| **las** Loan Account Subledger | loan accounts with terms and delinquency, disbursements, repayments, payoffs, recoveries, fees, charge-offs, modifications, balance projections, in-process payoff quotes, outbox | booking, create/confirm/reverse disbursement, repayment notification (waterfall, payoff, recovery), reverse repayment, delinquency update, waive fee, charge off, modify, accrue | an account's status follows what the GL has posted; money is posted once; a reversal is made once; terminal accounts stay terminal |
| **payment** | payment instructions, reconciliation exceptions, inbound cursor, the rail adapter's own ledger (in memory), outbox | initiate a disbursement, pushed confirmation, reconciliation sweep, inbound poll, return of a credit | an instruction is paid once; an outcome is the rail's; nothing inbound is passed over; a receipt agrees with las |
| **crm** | service cases with versions, notes, interactions, preferences, manager assignments, access log, outbox | open/update/close/reopen a case, notes, interactions, evaluate SLA breaches, assign a manager, set preferences | no lost update of a case; a lawful life for each; a breach is escalated in the end |
| **party** | parties, dedup audit, identity documents, tombstones, outbox | find-or-create, update, tombstone, add a document | a duplicate party has an explanation; a tombstone is final; versions are a chain |
| **relay** (in las, payment, crm, party) | the `published_at` of outbox rows | poll, write to Kafka, mark | nothing lost; duplicates only for a reason; everything published in the end |

Interactions. The services call one another over HTTP with idempotency keys and retries: las
posts to the GL through `glclient`; payment tells las of money received and returned through
`accountclient`, and a rail of money to be paid through `railclient`. crm and party call
nobody. Events leave a service through its outbox table, written in the business
transaction, and the relay. The GL writes an outbox too, but starts no relay. All five
services share one idempotency middleware, which saves a response in a transaction of its
own after the handler's has committed.

What makes the system hard. Every handler reads what it needs with separate statements
outside its transaction, and the transactions take no lock on what was read: two requests
that overlap, or a request and a batch job, decide on the same old state. Rows are saved
whole. A crash between a commit and the cache's save re-runs the handler. A crash between
the GL's commit and the las transaction leaves a posting the subledger does not know of,
and the retry sees a balance the first attempt has changed. The `hazards` of
`PROJECT.json` list all of these at the line where they bite, with the property that is
about each, or the reason why none is.

## 2. Modules and what they correspond to

**`PostingRules.tla`**: `gl/internal/postingrules/rules.go`, `domain/journal_entry.go`,
`domain/money.go` and the balance trigger of `migrations/0001_init.up.sql`. Pure
operators: `ForwardLines` builds an entry's lines from a rule and a value,
`MirrorForReversal` undoes one, `ValidateBalanced` is the constructor's check with Go's
wrapping `int64` sums (`Wrap`), `TriggerAccepts` the database's with exact ones. The
integer width is the parameter `MaxInt`. `Legal` says without lines, over unbounded
integers, which requests a ledger of that width should take.

**`PostingRequests.tla`**: the catalog, one forward request at a time: an initial state is a
request, one step builds its lines. `Moves` is what each rule documents, account by account.

**`GLPosting.tla`**: the GL service. A worker is the goroutine of one HTTP request; every
access to the database is a step, and a transaction is one step, the instant of its
commit. A post goes through `Receive`, `LookupCache`, `BuildForward`/`BuildReversal` (or
`RejectMalformed`), `Stamp`, `CheckPeriod`, `ReadBalance` once per line, then one of
`CommitEntry`, `ReturnWinner`, `RejectEntry`, then `Reply` and `SaveCache`. A close goes
through `CheckOrder`, `ReadPeriod`, `CommitClose`. A statement may fail
(`StatementFails`), a commit may take effect and be reported as failed
(`CommitReplyLost`), the cache's save may fail (`SaveFails`), a worker may die between
any two steps (`Crash`), and the calendar moves on (`NextMonth`).

| variable | code |
|---|---|
| `journal`, `periods`, `outbox`, `cache` | the tables `journal_entries` + `journal_entry_lines`, `periods`, `outbox`, `idempotency_keys` |
| `month`, `clock` | `s.now()`: the period it falls in, and an instant distinct from all others |
| `pc`, `req`, `attempt`, `draft`, `answer` | the local variables of a request in flight |
| `replies` | history: what clients were told |
| `sent`, `faults`, `crashes` | counters for the bounds |

A body is abstracted to what the handler branches on: rule, shape, presence of required
metadata, account, value, reversal target, adjusted period. A close's body is `closedBy`:
the period is in the URL, which the middleware does not hash, and `Hash` keeps that. An
entry keeps the reversal pointer its request carried whatever its rule, as the code does.
Authorisation, JSON, event payloads and wording are left out. Reads that follow one
another and cannot be told apart are one step, and a comment says why (`BuildReversal`,
`ReturnWinner`).

**`GLOverlaps.tla`**: `GLPosting` watched. `met` keeps which attempts were at work at the
same time; it decides nothing. Its properties say what is left when nothing is locked: a
check or a balance is wrong only if the attempt met, while it was at work, the very request
that changed what it had read.

**`Ledger.tla`**: what the GL promises, without workers: a book that maps a source event
to at most one immutable, balanced entry, whose reversals mirror entries already in it,
and callers who are only given entries in the book.

**`OutboxRelay.tla`**: `internal/relay/kafka_publisher.go` with the queries of
`internal/store/postgres` and `runOutboxRelay`, the same code in four services.
`CommitEvent` is a business transaction's commit; `ListUnpublished`, `WriteMessages` and
`MarkPublished` are the three statements of a poll; `WriteFails` may deliver part of the
batch, `MarkFails` may have been applied. `CreatedAt` is taken before the commit, so the
commits come in any order, and two events may share it. A process that dies while idle
changes nothing; one that dies in a call is the failure of that call.

**`LoanServicing.tla`**: the requests of las that move money or the status of an account,
`las/internal/service` but for `booking.go`. A worker is one request
in flight. It reads the resource it names (`Receive`), the account (`ReadAccount`), the
fee or the balance (`ReadFee`, `ReadBalance`, `IssueQuote`), saves the intermediate status
(`SavePending`), posts (`PostToGL`, `GLRefuses`, `AnswerLost`), saves what comes between
two postings or after one (`SaveFee`, `SaveCorrection`), and saves account, resource and
event in one transaction (`Commit`); each operation takes the steps it needs. `GivesUp` is
a statement that fails, a GL that is not reached, or a replica that dies.

| variable | code |
|---|---|
| `account` | `loan_accounts`: status and delinquency bucket |
| `rows` | `disbursements`, `repayments`, `payoffs`, `recoveries`, `chargeoffs`, `fees`, `modifications`, `term_versions`, by table and id |
| `outbox` | the ids of the outbox rows, on which two commits of one event collide |
| `quotes` | `quoteCache`; a replica sees all of it or, another replica or a restarted one, nothing |
| `book` | the GL: a posting per source event |
| `pc`, `req`, `draft` | a request in flight: its step, its body, the rows and values it has read |
| `sent`, `faults` | counters for the bounds |

Amounts are kept per category (fee, interest, principal), since the waterfall, the balance
and a reversal are about them; what goes to suspense is what is left. A row keeps status,
account, value and journal entry. A GL entry's id is its source event under another name
(`EntryId`), so that sending the one where the other is meant is visible. Left out: the
replies; las' idempotency cache, so that a retry always reaches the handler, as it does when
the answer was lost; `balance_projections`, which every reader rebuilds before it reads;
delinquency events, whose ids carry the time; expiry of quotes, which is the choice whether
a replica still has one. `RequestsAssumption` is the API's contract: an Idempotency-Key is
drawn for one request, the id of a payment, charge-off or modification for one account, a
late fee's id is made of its account and due date, and no payment's own id is one that the
code makes for a correction. `ConfirmDisbursementFunding` and delinquency updates have no
caller yet (the batch's handler passes no updates); they are modelled as the callers their
comments announce would call them.

A modification reads the latest term version, posts what it capitalises (`PostToGL`) and
writes its successor with the grown principal (`AddTermVersion`: on conflict the version
that is there stays). One of rate or term only capitalises nothing and calls nobody; rate
and term are not kept.

**`LoanOverlaps.tla`**: `LoanServicing` watched. `contended` keeps the accounts that two
requests have touched at once (`Touches`: the account a request reads and saves, and the one
a correction is posted to); it decides nothing. On every other account, whatever overlaps
elsewhere, the promises that a race would break are kept.

**`LoanLife.tla`**: what las promises of an account, without handlers, tables or retries,
until the account is contended. Its state is an account's status and the GL's entries (key,
rule, account, target). `Post` makes an entry: of a rule only in the status the rule belongs
to (`When`), a disbursement only if none is out, its reversal only of one that is out on
that account, and no entry is undone twice. `Move` changes a status, and only on what the GL
has (`Warranted`): Disbursed when a disbursement is out, Approved again when none is, Closed
after a payoff, ChargedOff after a write-off; nothing moves an account after that.
Repayments are free of the status, since a correction books one on an account it never read.
That a payoff leaves nothing owed is not promised: the quote it settles may be older than
the balance.

**`OutboundPayment.tla`**: disbursements in `payment/internal`. A request is `Send` (the
middleware's look for a kept answer, the service's look for the row), `CallRail`,
`SaveSubmitted` and `Remember`; the sweep is `BeginSweep`, `Ask` for each row it listed and
`ApplySwept` or an exception filed; a push is `Push` and `ApplyPushed`. Both write back the
row they hold (`Apply`). `Restart` loses what is in flight and the adapter's memory, and the
rail's references count from one again.

| variable | code |
|---|---|
| `instructions`, `outbox`, `exceptions`, `cache` | `payment_instructions` (outbound), `outbox`, `reconciliation_exceptions`, `idempotency_keys` |
| `payments`, `forgotten` | everything the rail accepted, and how much of it came before the last restart: the adapters' maps |
| `clients`, `sweep`, `push` | what is in flight, with the row it holds |

**`InboundPayment.tla`**: the inbound poll and operations' return of a credit. `Fetch`
takes what the rail reports after the cursor; each event is handed to las (`Notify`,
`ReverseReturned`), whose answer may be lost, and then recorded with the cursor in one
transaction (`Record`, `RecordReturn`, `Recognise`, `Escalate`). las is seen as its client
sees it: a finding for each credit, and a reversal that marks the repayment before it is
done (`HalfReversed`, from `repayment.go:343`).

| variable | code |
|---|---|
| `reports`, `clock` | the adapter's inbound events and the times they carry |
| `receipts`, `cursor`, `audit`, `escalated` | the inbound rows of `payment_instructions`, `inbound_cursors`, outbox, `reconciliation_exceptions` |
| `las`, `sentBack` | what las and the rail hold of each credit |
| `poll`, `sendback` | the batch in work, and the return in progress |

The rail is what the sandbox and the ACH adapter share. `ProcessConfirmation` and
`ReturnInboundPayment` have no caller in the source; they are modelled as the webhook and
the operations call that their comments announce. An exception filed again is the same
element of a set. A rail never contradicts itself, and reports nothing late.

**`ServiceCase.tla`**: crm. `Ring` is the middleware's look for a kept answer and what the
handler reads and decides outside its transaction; then one action per operation, which is
its transaction, and `Keep`. A case is written over the version it was read with
(`Unchanged`), by requests and by the sweep (`BeginSLASweep`, `Escalate`). Notes and
interactions are how often a key was carried out (`done`); `viewed` is the access log.

| variable | code |
|---|---|
| `cases`, `links`, `preferences`, `managers`, `viewed`, `kept` | `cases`, `loan_account_links`, `communication_preferences`, `relationship_manager_assignments`, `case_note_access_log`, `idempotency_keys` |
| `history` | the outbox rows about each case, in commit order |
| `done` | `interactions`, `case_notes` and the outbox rows of the other tables, counted by key |
| `callers`, `slaSweep` | requests in flight and the sweep, with the rows they hold |
| `now` | the clock that deadlines are compared with |

**`PartyIdentity.tla`**: party. `Rule`, `Confidence`, `EvaluateAll` and `Matched` are
`domain/dedup.go` on fields that are given or not; `Candidates` is the query. `Knock` reads
(every read of a handler is outside its transaction, though the code stands inside
`WithinTx`), and one action per operation writes. Names are one field; hashing, encryption
and normalisation are left out, but an SSN without digits is stored as no hash and looked
for as the hash of nothing, which never match.

| variable | code |
|---|---|
| `parties`, `dedupAudit`, `documents`, `partyNews`, `remembered` | `parties`, `dedup_audit`, `identity_documents`, `outbox`, `idempotency_keys` |
| `parties[p].key`, `parties[p].knew` | history: the request that created the row, and how many parties its applicant was compared with |
| `visitors` | requests in flight, with what they have read |

`MC*.tla` give the constants their values. `MCPayments` holds the two halves of payment,
`MCCustomers` crm, party and the relay, which share no row: a behaviour is one of one of
them while the others rest, chosen in `Init`, so that the states of one do not multiply
those of another. `*_proofs.tla` hold the theorems.

## 3. Runs

| run | instance | what it shows |
|---|---|---|
| `gl_rules` | every forward request over 3-bit signed integers and two currencies | an accepted entry moves what its rule documents; exactly the legal requests are accepted; a reversal undoes its entry |
| `gl_race` | 2 workers within one month, 3 requests sent out of 6 (4 legal, 2 not), one fault, one crash | inductive invariant, one entry per key, replies, mirrors, balance, outbox; until a statement fails, 400 only for requests at fault, and nothing else for those no ledger could take, save a 422 about a period; the service implements `Ledger` |
| `gl_overlaps` | 2 workers, 2 months, 3 requests sent out of 6 on two loan accounts, one crash | a posting or a reversal gets past a close only if its attempt met that close; a running balance is wrong only on an account whose own posters met |
| `las_race` | 2 workers, 6 requests sent out of 14 that contend for one account and two a correction may name, one fault | no row, event or status is ahead of the GL's book; what is settled was announced |
| `las_overlaps` | 2 workers, 6 requests sent out of 15: the life of one account, and a disbursement of another; one fault | on an account no two requests have touched at once: one loan out at a time; nothing reversed twice; term versions are what the modifications make them; no more applied than owed; the service implements `LoanLife` |
| `payment` | out: 2 clients, 2 requests of 4, one fault or restart, one push; in: 3 reports about 2 credits, which may share an instant, one fault, one return by operations | an instruction is paid once in each life of the rail; outcomes come from the rail; the cursor passes nothing unbooked but what is tied with a booked report; receipts agree with las; answers and credits are booked in the end |
| `customers` | crm: 2 callers, 4 requests of 6, sweeps of one case, one fault or restart; party: 2 visitors, 4 requests of 9, one fault or restart; relay: 2 replicas, 3 events, batches of 2, two failures | one event per version; lawful lives; breaches are escalated; duplicates are explained; tombstones stand; versions are a chain; no event is lost, its duplicates are accounted for, and it is published in the end |

Five more runs each look for a violation of a sentence in the repository, and find it:

| run | the sentence | what the code does |
|---|---|---|
| `gl_closed_period_race` | service.go:114 a closed period never silently receives any new posting | the period is checked before the transaction, and a close commits in between |
| `las_pay_twice` | loan-account-subledger.yaml:969 a retried call never re-applies the payment | the retry of a payment whose answer was lost takes another branch and posts under another key |
| `pay_after_restart` | payment service.go:107 the adapter's ledger makes it safe to initiate again after a crash; a retried call never results in two payments | that ledger is a map in the process that crashed: the retry after the restart pays again |
| `pay_same_instant` | inbound.go:38 the cursor is not advanced past a failed event | it is a time: of two events of one instant the first one recorded moves it past the second |
| `pay_returned_unreversed` | inbound.go:130 a returned payment triggers a compensating reversal | the retry after a failed one finds las' mark, takes it for success and records Returned |

`gl_overlaps` and `las_overlaps` ask what survives the races the code leaves open. Two
posts on one loan account start from the same running balance (service.go:336), and a close
commits behind another's check (service.go:118, 240). In las two handlers save an account
over one another (a payoff that finds a recovery's entry under their shared key closes a
charged-off account), two reversals both pass the status check, two disbursements read one
Approved account, and two modifications write one version. So each property names what must
have happened before it fails, and TLC and TLAPS both show that nothing else makes it fail.

`RowsAreBehindTheBook` makes one exception, which `las_race` reaches. Two MISAPPLIED
reversals of one payment that name different accounts share the correction's key; when
they overlap, the second finds the posting of the first, and saves a repayment row on an
account that has no posting (repayment.go:366).

`AnswersAreBooked` and `CreditsAreBooked` say `~>` with the ways out the code leaves open: a
late retry puts an instruction back to Submitted although its outcome was announced
(service.go:114), and a return that can never be booked stops the cursor (inbound.go:155); a
report tied with a booked one is the subject of `pay_same_instant`. `DuplicatesAreExplained`
says what the dedup engine does promise: two applications that overlap, or one recognised as
two, do create a second party, although party's `api/idempotency.go:46` has every retry
converge. `DuplicatesHaveAReason` counts failed Kafka writes; kafka-go's writer retries
inside one `WriteMessages`, and each of those inner attempts is such a write.
`RepliesNameThePostedEntry` has the loser of an insert race answer 201 with the winner's
entry, also when its body differs from the winner's: the middleware's 409 is of a key whose
answer was saved before.

Bounds. Three attempts are what a race and its retry need: two that overlap and one that
comes after the crash or the lost commit, or a posting, its reversal and a retry. Two
workers suffice because every race in the code is between one read and one later write of
another request. `MaxInt` is 3 so that three categories overflow it and running balances
wrap. `gl_overlaps` has no failed statement, which would only end an attempt early;
`gl_race` has one. The workers are interchangeable in the `gl_` and `las_` runs of two,
which use symmetry and check no liveness. The other bounds are faults, crashes and months,
each in the guard of the action it limits. Deadlock is not checked since a bounded system
stops. In `las_race` six requests are a disbursement (two), a quote or a payment, and three
that contend; in `las_overlaps` a disbursement, its reversal and a second one, with one
attempt to spare, or a payment with its reversals after a disbursement. A loan of 2 with a
fee and a day's interest of 1 and payments of 2 and 3 reach every case of the waterfall:
nothing owed, part, all, and suspense. Three events for the relay with a batch of two leave
one out of the first poll, and two of them share a `created_at`. In `payment` two requests
are a disbursement and its overlapping retry, and three files are a credit, another, and the
return of one. In `customers` four requests are a case opened, and an update, a close and a
reopening that overlap or are retried; or two parties on file, a third applicant that is
like both, and one more request about any of them. A case is due at once or after one tick,
of two.

Fairness. The GL's, las' and party's properties are all safety. A client may never send and
a worker may die, so nothing is assumed of it. `OutboxRelay` assumes weak fairness of each
replica's poll: the ticker of `runOutboxRelay` fires for as long as the process lives, an
error is logged and never ends the loop, and a statement that was started ends.
`MaxFailures` says that Kafka and the database are not down for ever; a broker that refuses
one message for ever is not modelled. `OutFairness`, `InFairness` and `CrmFairness` assume
weak fairness of the steps of the sweep, of the poll and of the SLA sweep, each a goroutine
of `main` with a ticker, which logs an error and goes on; a failure of one of their steps is
bounded and not part of the fair action. No request, push or rail is assumed to come.

## 4. Proofs

Each module of theorems is about one component and has the same plan: an inductive
invariant, one lemma per action that keeps it, frame lemmas for what an action leaves
alone, then the theorems. All are for any number of workers, requests, faults and
restarts, concurrent wherever the code is, from the modules' named assumptions on the
constants alone: no theorem has a hypothesis that keeps requests from overlapping.

`FiniteSums_proofs`: the order in which `SumFunctionOnSet` adds does not matter
(`SumWithout`), one more summand adds itself (`SumWith`), and opposite summands cancel
(`SumOfOpposites`). Every sum of the models is one of these. Induction on a set is done by
a least counterexample (`SmallestSubset`).

`GLPosting_proofs`:

- `MirrorIsAccepted`: a balanced entry's mirror is accepted by both checks.
- `LedgerInvariant`: `IInv` is inductive.
- `TypeCorrectness`, `AtMostOneEntry`, `SuccessNamesTheEntry`, `LedgerIsBalanced`,
  `ReversalsAreMirrors`: the safety properties of `gl_race`.
- `WorkersImplementTheLedger`: `Spec => Ledger!Spec` under the mapping in `Book`.
- `LedgerIsAnnounced`: the outbox has one event for each entry and each close.
- `OnlyClosesMetAreOvertaken`, `OnlyTargetsClosesMetAreOvertaken`: a closed period takes a
  posting, or has one of its entries reversed, only by an attempt that met the request to
  close it.
- `BalancesApartAreSums`: the balance on each line of a loan account whose own posters never
  met is the sum of the account's lines up to it, as an int64 holds that sum.
- `LegalRequestsAreAccepted`, `AcceptedEntriesMoveWhatTheyShould` and `ReversalsUndo`: what
  `gl_rules` checks over three-bit integers and two currencies, for every width and any.
- `BadRequestsAreTold`: while no statement has failed, 400 is said only of a request at
  fault, and one that no ledger could take is told 400, or 422 when a period explains it.

The safety properties are not inductive. That a reply names the posted entry needs the same
of what a worker holds and of what the cache holds (`AnswersNameThePostedEntry`); that a
reversal mirrors its target needs it of the drafts, with the target's stamp in the past
(`ReversalDrafts`, `PostedInThePast`); types need to know which handler a worker is in and
how far its draft is (`JobOK`). For overlaps, `MeetingsKnown` says that whoever is at work
at once has met; `PeriodsSeen` that a period a worker has seen open is open, or its close
was met; `BalanceDraft` that as long as a worker has met no poster of its account (`Clear`),
its stamp is later than the stamps of the account's entries and its balances are carried on
from the last one. That the last one is the sum of all before it is `LatestIsTheSum`; that
an entry posted by a worker that is clear keeps the sums, and one posted by another ends the
account's being `Apart`, is `InsertKeepsBalances`.

The rules are proved without induction over the lines, since an entry has four at most:
`ComesTo` records what some lines come to (both totals, what they move on each account,
whether all are positive, their currency), `OneLineMoreComesTo` what one line more does to
it, and `AcceptedLines` reads the verdict of both checks off it. The debit of an allocation
is a wrapped sum and the trigger's credit total an exact one: they agree only if nothing
wrapped (`AllocationEntry`). `BadRequestsAreTold` needs that and `NoFaultJust`: a draft is
what its request asks for, what a worker is about to say is `Just`, and of a request that no
ledger could take, and whose key no other request has, there is neither an entry nor a saved
answer, so it is never replayed nor refused as a conflict. TLC has checked `NoFaultJust` on
the instance of `gl_race`.

`OutboxRelay_proofs`: `RelayInvariant`, `NothingIsLost` and `DuplicatesAreBounded`. The
bound on duplicates is not inductive by itself: `DeliveriesArePaidFor` adds to the
deliveries of an event the replicas that may still deliver it without a failure; each
delivery takes one of them away, and only a failure adds one.

`ServiceCase_proofs`: `CaseInvariant`, `VersionsAreAnnounced` and `CasesLeadLawfulLives`.
That a case's life is lawful is not inductive: a request writes a row it read long before.
`CrmInv` adds that a row somebody holds is at most one version ahead of the stored one,
and if it is one ahead was made from the row that is still stored (`HeldRowsFollow`), that
a row the sweep has listed is stored as long as its version is (`ListedRowsAreStored`),
and that the last event tells the stored status and whether this clock was escalated
(`RowsAreTold`). `CaseWritten` shows that a lawful next row keeps the history lawful,
`OthersFallBehind` that all who hold another row of the case are now behind it.

`LoanServicing_proofs`: `ServicingInvariant`, `RowsFollowTheBook`, `EventsFollowTheBook`,
`StatusFollowsTheBook`, `SettlementsAreAnnounced`. A handler saves rows that may be stale,
so `LasInv` states what it may rely on of facts that only grow (`Grows`): postings and
events are never taken back, and a disbursement row keeps its account. `InFlight` says, for
each operation and step, what the row and the account in the draft claim (`HoldsRow`,
`HoldsAccount`) and what the GL has already posted for them (`Posted`); `BookIsAsked` says
that every posting is one some request asked for, so that what a retry finds at its key is
its own; the row of a correction and its posting may be on two accounts that reversals of
the payment named (`Corrects`).

Its second part is `TypeCorrectness`: sums over the book are integers (`OwedTyped`, from
`FiniteSums_proofs`), there is a greatest term version because the rows are finitely many
(`CurrentTermTyped`), and a handler that will save an entry's id holds the key of one the
book has (`TypedDraft`).

Its third and fourth part are about `LoanOverlaps`, for any number of concurrent requests:
`OneLoanIsOut`, `PostingsAreReversedOnce`, `TermsAreTheModifications`,
`OnlyWhatIsOwedIsApplied` and `ServingImplementsTheLoanLife`. All come from one invariant,
`OverlapsInv` (`OverlapsLeaveOrder`): accounts touched by two requests at once are contended
(`Crossings`); an account that is not is `InOrder`; and what a handler of such an account
has read is `Fresh`. Its induction has two halves. A handler's own step keeps its account in
order because what it has read is fresh. The step of another handler leaves it alone,
because it is of another account, or the two have met and the account is contended
(`Alone`). Handlers stop half way, lose answers and are retried all the same, so what is in
order joins what is left behind with what was read. `Marked`: a posting that was undone has
its row in `ReversalPending`, `Reversed` or `Corrected`, from where no reversal starts;
`FreshRow`: a reversal that has not posted yet has not been posted by another. `LoansOut`:
an account has one disbursement row that is `Live`, none while it is Approved, and a
disbursement posted and not undone has a live row. `Built`: the term versions are 1 to n,
each after the first the work of one modification; `FreshTerm`: the version a modification
builds on is still the last. `FreshAccount`, `FreshValue`: the account a handler saves is
the one that is stored, and the value it posts is still that of the balance.
`StillAdmitted`: the status that let a handler through is still the account's when it posts.
`Recovered`: a payoff and a recovery share a key, so a retried payoff could take a
recovery's entry for its own and close an account no payoff was posted for; while the
account is in order it does not, since a recovery is posted only on an account that stays
charged off. `ReversedOnce` is in the invariant as it stands.

`ServingImplementsTheLoanLife`, `OverlapsSpec => LoanLife!Spec` under the mapping in `Life`,
reads the promise off this: a step that posts is a `Post`, a commit that changes a status is
a `Move` (`CommitLives`), and every other leaves both alone or is a `Contend`. A posting is
admissible, operation by operation, because what is out on an account is what has its live
row (`OnlyItsRowIsOut`), so a disbursement that is still to be paid out is alone.

`OutboundPayment_proofs`: `RailPaysOncePerLife` and `AnnouncementsAreTheRails`. Of what the
rail accepted since the last restart the references are the places (`References`), and every
row that is stored, listed, held or about to be saved carries a reference under which its
own instruction was paid (`IsPaid`). A restart lets the rail give a reference again, so an
outcome held or announced was said under a reference of its instruction, and of that very
payment as long as nothing restarted (`HasSaid`, `RailsWord`). That a restart costs the
other promise too, one payment per instruction, is `pay_after_restart`.

`InboundPayment_proofs`: `ReceiptsSayWhatLasHolds` and `OnlyTiesArePassedOver`.
`AnswersStand` says that between an answer of las and the transaction that records it nobody
moves the row or las' finding; `NoGap` that whatever was reported no later than an event of
the batch is in the batch too, or booked, or tied with a booked report.

`PartyIdentity_proofs`: `DuplicatesHaveAReason`, `TombstonesAreFinal` and
`DocumentsFormChains`. The handlers never read again what they write: `ReadingsHold` says
that a reading stays true because what a party is identified by is written once, and that
a held document version is at most the next one.

Only model-checked. Liveness (`EveryEventIsPublished`, `AnswersAreBooked`,
`CreditsAreBooked`, `BreachesAreEscalated`), which the prover does not reach.
Every safety invariant and action property of the passing runs is stated by a theorem.

## 5. Not modelled

Booking of a loan: one insert guarded by a unique approval reference. The statement
endpoint's filters and cursors, the other read endpoints that write nothing,
authentication, JSON and HTTP, NACHA and wire formats, PII encryption, migrations:
stateless, or formatting. The GL's outbox reader: nothing calls it. The design notes name
an end-of-day batch that has no code. Interest at the rate and term version in effect:
accrual posts a constant. Connections of the database pool, which party's handlers ask for
twice at once. Rows of one exception filed again. `PROJECT.json` lists each part.

## 6. Plan

Done: every module of section 2 and the proofs of section 4. Next, in order of weight:

1. An abstract specification for payment, as `LoanLife` is for las: an instruction, the
   rail's payment and what las is told of it.
2. Two representations of one return, asked of the composition of payment with las;
   `LoanServicing` with `Ledger` in place of its book.
