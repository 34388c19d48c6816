---------------------------- MODULE PostingRules ----------------------------
(***************************************************************************)
(* The posting-rule catalog of the GL service: how a request body becomes  *)
(* the lines of a journal entry, and the two independent balance checks    *)
(* those lines meet (the constructor in memory, the deferred trigger in    *)
(* the database).  Pure operators, no state.                               *)
(*                                                                         *)
(* Go's int64 is an integer of the range -(MaxInt + 1) .. MaxInt whose     *)
(* additions wrap; PostgreSQL's bigint has the same range and its sums     *)
(* raise an error instead.  MaxInt is a parameter, so that TLC can reach   *)
(* the edge.                                                               *)
(***************************************************************************)
EXTENDS Integers, Sequences, Functions

CONSTANT MaxInt          \* the largest amount an int64 holds

ASSUME MaxIntAssumption == MaxInt \in Nat \ {0}

Int64 == -(MaxInt + 1) .. MaxInt

\* What an int64 register holds after an addition whose exact result is x.
Wrap(x) == ((x + MaxInt + 1) % (2 * (MaxInt + 1))) - (MaxInt + 1)

-----------------------------------------------------------------------------
(* Money, lines, and the accounts of the chart the rules name.             *)

Money == [amount : Int64, currency : STRING]

GLAccounts == {"CashNostro", "LoanReceivable", "InterestReceivable",
               "FeeReceivable", "AllowanceForLoanLosses",
               "InterestIncome", "FeeIncome", "RecoveryIncome"}

Directions == {"DEBIT", "CREDIT"}

Opposite(d) == IF d = "DEBIT" THEN "CREDIT" ELSE "DEBIT"

Lines == [account : GLAccounts, direction : Directions, amount : Int, currency : STRING]

Values == [fee : Money, interest : Money, principal : Money]

Line(account, direction, money) ==
    [account |-> account, direction |-> direction,
     amount |-> money.amount, currency |-> money.currency]

-----------------------------------------------------------------------------
(* The rules.  TwoLineRules post one amount from one account to another;   *)
(* AllocationRules debit one account with the wrapped sum of the three     *)
(* categories and credit the three receivables; MOD-01 capitalizes.        *)

TwoLineRules == [DISB01   |-> [debit |-> "LoanReceivable",     credit |-> "CashNostro"],
                 ACCR01   |-> [debit |-> "InterestReceivable", credit |-> "InterestIncome"],
                 DELINQ01 |-> [debit |-> "FeeReceivable",      credit |-> "FeeIncome"],
                 CHGOFF02 |-> [debit |-> "CashNostro",         credit |-> "RecoveryIncome"]]

AllocationRules == [REPAY01  |-> "CashNostro",
                    PAYOFF01 |-> "CashNostro",
                    CHGOFF01 |-> "AllowanceForLoanLosses"]

ReversalRules == {"DISB02", "REPAY02", "DELINQ02"}

ForwardRules == DOMAIN TwoLineRules \cup DOMAIN AllocationRules \cup {"MOD01"}

RuleCodes == ForwardRules \cup ReversalRules

ShapeFor(rule) ==
    CASE rule \in DOMAIN TwoLineRules \cup {"DISB02", "DELINQ02"} -> "amount"
      [] rule \in DOMAIN AllocationRules \cup {"REPAY02"}         -> "allocation"
      [] rule = "MOD01"                                           -> "capitalization"

NeedsMetadata == {"ACCR01", "DELINQ02", "CHGOFF01"}

\* A body whose shape is "amount" carries it as its principal.
AllocationSum(v) ==
    [amount   |-> Wrap(Wrap(v.fee.amount + v.interest.amount) + v.principal.amount),
     currency |-> v.fee.currency]

CapitalizationSum(v) ==
    [amount   |-> Wrap(v.interest.amount + v.fee.amount),
     currency |-> v.interest.currency]

CreditUnlessZero(account, money) ==
    IF money.amount = 0 THEN <<>> ELSE <<Line(account, "CREDIT", money)>>

\* Mutant: the zero categories are posted as well.
CategoryLinesKeepZero(v) ==
    <<Line("FeeReceivable", "CREDIT", v.fee),
      Line("InterestReceivable", "CREDIT", v.interest),
      Line("LoanReceivable", "CREDIT", v.principal)>>

CategoryLines(v) ==
    CreditUnlessZero("FeeReceivable", v.fee) \o
    CreditUnlessZero("InterestReceivable", v.interest) \o
    CreditUnlessZero("LoanReceivable", v.principal)

\* Money.Add refuses two currencies, so the sums above are only taken when
\* the categories they add share one.
CurrenciesAgree(rule, v) ==
    /\ rule \in DOMAIN AllocationRules \cup {"MOD01"} => v.fee.currency = v.interest.currency
    /\ rule \in DOMAIN AllocationRules => v.interest.currency = v.principal.currency

\* Mutant: capitalized interest and fees swapped.
ForwardLinesSwapped(rule, v) ==
    CASE rule \in DOMAIN TwoLineRules ->
           <<Line(TwoLineRules[rule].debit, "DEBIT", v.principal),
             Line(TwoLineRules[rule].credit, "CREDIT", v.principal)>>
      [] rule \in DOMAIN AllocationRules ->
           <<Line(AllocationRules[rule], "DEBIT", AllocationSum(v))>> \o CategoryLines(v)
      [] rule = "MOD01" ->
           <<Line("LoanReceivable", "DEBIT", CapitalizationSum(v))>> \o
           CreditUnlessZero("FeeReceivable", v.interest) \o
           CreditUnlessZero("InterestReceivable", v.fee)

ForwardLines(rule, v) ==
    CASE rule \in DOMAIN TwoLineRules ->
           <<Line(TwoLineRules[rule].debit, "DEBIT", v.principal),
             Line(TwoLineRules[rule].credit, "CREDIT", v.principal)>>
      [] rule \in DOMAIN AllocationRules ->
           <<Line(AllocationRules[rule], "DEBIT", AllocationSum(v))>> \o CategoryLines(v)
      [] rule = "MOD01" ->
           <<Line("LoanReceivable", "DEBIT", CapitalizationSum(v))>> \o
           CreditUnlessZero("InterestReceivable", v.interest) \o
           CreditUnlessZero("FeeReceivable", v.fee)

\* Mutant: only the leading line is flipped.
MirrorFirstLineOnly(lines) ==
    [i \in DOMAIN lines |-> IF i = 1 THEN [lines[i] EXCEPT !.direction = Opposite(@)]
                            ELSE lines[i]]

\* Mutant: the lines are posted again instead of being flipped.
MirrorUnflipped(lines) == lines

\* A reversal flips every line of the entry it undoes, one for one.
MirrorForReversal(lines) ==
    [i \in DOMAIN lines |-> [lines[i] EXCEPT !.direction = Opposite(@)]]

-----------------------------------------------------------------------------
(* Totals and the two balance checks.                                      *)

Total(lines, d) == SumFunctionOnSet([i \in DOMAIN lines |-> lines[i].amount],
                                    {i \in DOMAIN lines : lines[i].direction = d})

LinesArePlausible(lines) ==
    /\ Len(lines) >= 2
    /\ \A i \in DOMAIN lines : lines[i].amount > 0
    /\ \A i, j \in DOMAIN lines : lines[i].currency = lines[j].currency

\* domain.ValidateBalanced: the totals are int64 registers, so what it
\* compares are the wrapped sums.
ValidateBalanced(lines) ==
    /\ LinesArePlausible(lines)
    /\ Wrap(Total(lines, "DEBIT")) = Wrap(Total(lines, "CREDIT"))

\* Mutant: the trigger's sums wrap as the constructor's do.
TriggerAcceptsWrapped(lines) ==
    /\ LinesArePlausible(lines)
    /\ Wrap(Total(lines, "DEBIT")) = Wrap(Total(lines, "CREDIT"))

\* The constraint trigger: exact sums, and an error when one is no bigint.
TriggerAccepts(lines) ==
    /\ LinesArePlausible(lines)
    /\ Total(lines, "DEBIT") = Total(lines, "CREDIT")
    /\ Total(lines, "DEBIT") <= MaxInt

\* The total a reversal request must repeat.
SuppliedTotal(rule, v) ==
    IF ShapeFor(rule) = "amount" THEN v.principal.amount
    ELSE Wrap(v.fee.amount + v.interest.amount + v.principal.amount)
-----------------------------------------------------------------------------
(* What the catalog is for, said without lines: the categories a rule      *)
(* reads, what a line adds to its account, and which requests a ledger     *)
(* that cannot hold more than MaxInt should take.                          *)

Reads(rule) == CASE ShapeFor(rule) = "amount"         -> {"principal"}
                 [] ShapeFor(rule) = "allocation"     -> {"fee", "interest", "principal"}
                 [] ShapeFor(rule) = "capitalization" -> {"fee", "interest"}

Signed(l) == IF l.direction = "DEBIT" THEN l.amount ELSE -l.amount

\* Sums over the categories a rule reads are exact, whatever an int64 holds.
Asked(rule, v) == SumFunctionOnSet([c \in Reads(rule) |-> v[c].amount], Reads(rule))

Legal(rule, v) ==
    /\ \A c \in Reads(rule) : v[c].amount >= 0
    /\ \A c, d \in Reads(rule) : v[c].currency = v[d].currency
    /\ Asked(rule, v) \in 1 .. MaxInt
=============================================================================
