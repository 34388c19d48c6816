--------------------------- MODULE PostingRequests ---------------------------
(***************************************************************************)
(* The posting rules, one request at a time: each initial state is a       *)
(* forward request, and one step turns it into lines, or into no entry     *)
(* when the currencies differ.  The properties compare the lines, and what *)
(* the two balance checks make of them, with what the rules are documented *)
(* to do over unbounded integers.                                          *)
(***************************************************************************)
EXTENDS PostingRules

CONSTANT Currencies      \* the currencies a request may name

ASSUME CurrenciesAssumption == Currencies \subseteq STRING

Categories == {"fee", "interest", "principal"}

Amounts == [amount : Int64, currency : Currencies]

VARIABLES request, entry, built

rulesVars == <<request, entry, built>>

\* A body carries zero for the categories its rule does not read.
RulesInit ==
    /\ request \in [rule : ForwardRules,
                    value : [fee : Amounts, interest : Amounts, principal : Amounts]]
    /\ \A c \in Categories \ Reads(request.rule) : request.value[c].amount = 0
    /\ entry = <<>>
    /\ built = FALSE

Build ==
    /\ ~built
    /\ built' = TRUE
    /\ entry' = IF CurrenciesAgree(request.rule, request.value)
                THEN ForwardLines(request.rule, request.value) ELSE <<>>
    /\ UNCHANGED request

RulesNext == Build

RulesSpec == RulesInit /\ [][RulesNext]_rulesVars
-----------------------------------------------------------------------------
(* A reference for the catalog, per account: what each rule moves.         *)

Moves(rule, v) ==
    LET f == v.fee.amount
        i == v.interest.amount
        p == v.principal.amount
    IN  CASE rule = "DISB01"   -> [LoanReceivable |-> p, CashNostro |-> -p]
          [] rule = "ACCR01"   -> [InterestReceivable |-> p, InterestIncome |-> -p]
          [] rule = "DELINQ01" -> [FeeReceivable |-> p, FeeIncome |-> -p]
          [] rule = "CHGOFF02" -> [CashNostro |-> p, RecoveryIncome |-> -p]
          [] rule \in {"REPAY01", "PAYOFF01"} ->
               [CashNostro |-> f + i + p, FeeReceivable |-> -f,
                InterestReceivable |-> -i, LoanReceivable |-> -p]
          [] rule = "CHGOFF01" ->
               [AllowanceForLoanLosses |-> f + i + p, FeeReceivable |-> -f,
                InterestReceivable |-> -i, LoanReceivable |-> -p]
          [] rule = "MOD01" ->
               [LoanReceivable |-> i + f, InterestReceivable |-> -i, FeeReceivable |-> -f]

Moved(ls, account) ==
    SumFunctionOnSet([i \in DOMAIN ls |-> Signed(ls[i])],
                     {i \in DOMAIN ls : ls[i].account = account})

Accepted == built /\ ValidateBalanced(entry) /\ TriggerAccepts(entry)

\* An entry both checks accept moves on every account of the chart exactly
\* what its posting rule documents, with nothing lost to a wrapped sum
\* (rules.go: the eight PR*Lines functions and allocationSum).
AcceptedEntryMovesWhatTheRuleSays ==
    LET moves == Moves(request.rule, request.value)
    IN  Accepted => \A a \in GLAccounts :
            Moved(entry, a) = IF a \in DOMAIN moves THEN moves[a] ELSE 0

\* Between them the rules and the two checks accept a request exactly when
\* no category is negative, all share a currency, and the total is positive
\* and fits the ledger's integer: no legal posting is refused, and no
\* negative or overflowing one slips through a wrapped sum.
AcceptsExactlyTheLegalRequests ==
    built => (Accepted <=> Legal(request.rule, request.value))

\* Reversing an accepted entry is always accepted, leaves every account
\* where it was, and reversing the reversal moves what the entry moved
\* (domain.MirrorForReversal).
ReversalUndoesTheEntry ==
    LET mirror == MirrorForReversal(entry)
    IN  Accepted => /\ ValidateBalanced(mirror) /\ TriggerAccepts(mirror)
                    /\ \A a \in GLAccounts : Moved(entry, a) + Moved(mirror, a) = 0
                    /\ MirrorForReversal(mirror) = entry
=============================================================================
