---------------------------- MODULE LoanOverlaps -----------------------------
(***************************************************************************)
(* What the requests of LoanServicing keep although each is a read, a call *)
(* to the GL and a save with nothing held from one to the next: an account *)
(* keeps the promises below as long as no two requests that touch it have  *)
(* been served at once, whatever runs meanwhile on the other accounts, and *)
(* whichever calls fail, lose their answer or are sent again.              *)
(*                                                                         *)
(* contended is history: it decides nothing, and a behaviour of this       *)
(* module is one of LoanServicing, watched.                                *)
(***************************************************************************)
EXTENDS LoanServicing

VARIABLE contended    \* the accounts that two requests have touched at once

\* The account a request reads and saves, and the one a correction goes to.
Touches(w) == IF pc[w] = "idle" THEN {}
              ELSE {AccountOf(w)} \cup (IF req[w].op = "undo" THEN {req[w].to} ELSE {})

Crossings == {a \in Accounts : \E v, w \in Workers : v # w /\ a \in Touches(v) \cap Touches(w)}

overlapVars == <<vars, contended>>

OverlapsInit == Init /\ contended = {}

OverlapsNext == Next /\ contended' = contended \cup Crossings'

OverlapsSpec == OverlapsInit /\ [][OverlapsNext]_overlapVars
-----------------------------------------------------------------------------
(* Properties.                                                             *)

Outstanding(a) == {k \in DOMAIN book : book[k].acct = a /\ book[k].rule = "DISB01" /\ ~Undone(k)}

\* An account has one disbursement out at a time, through lost answers,
\* retries and reversals that stop half way (executeDisbursement).
OneLoanOut == \A a \in Accounts \ contended : Cardinality(Outstanding(a)) <= 1

\* A repayment or a charge-off credits each receivable with no more than what
\* is owed of it, also when a first attempt of it was posted and its answer
\* lost: the rest of a payment is suspense (AllocatePayment).
AppliesOnlyWhatIsOwed ==
    [][\A k \in DOMAIN book' \ DOMAIN book :
           (k[1] = "repay" \/ book'[k].rule = "CHGOFF01") /\ book'[k].acct \notin contended =>
               LET owed == Owed(book'[k].acct)
               IN  \A c \in DOMAIN owed : book'[k].value[c] > 0 => book'[k].value[c] <= owed[c]]_vars

\* The term versions of an account are its modifications in a row: each has a
\* version of its own, none is left out, and the principal of each exceeds the
\* one before by what that modification capitalised, which the GL has moved
\* (ApplyModification), also when a first attempt stopped after its posting.
ModificationsBuildTheTerms ==
    \A a \in Accounts \ contended :
        LET ms == {k \in DOMAIN rows : k[1] = "modification" /\ rows[k].acct = a}
        IN  /\ {rows[k].version : k \in ms} = Versions(a) \ {1}
            /\ Cardinality(ms) = Max(Versions(a)) - 1
            /\ \A k \in ms :
                  /\ PrincipalOf(a, rows[k].version) = PrincipalOf(a, rows[k].version - 1) + Total(rows[k].value)
                  /\ rows[k].value # Nothing => Has(<<"raw", k[2]>>, {"MOD01"}, a)

\* A posting is undone once, however often and under however many keys its
\* reversal is asked for: the GL itself would mirror it again
\* (reverseDisbursement, ReverseRepayment).
ReversedOnce ==
    \A j, k \in DOMAIN book :
        /\ book[j].target # None /\ book[j].target = book[k].target
        /\ {book[j].acct, book[k].acct} \cap contended = {}
        => j = k
-----------------------------------------------------------------------------
(* What an account's status and its entries in the GL have to do with one  *)
(* another.                                                                *)

StatusOf  == [a \in Accounts |-> account[a].status]
EntriesOf == [k \in DOMAIN book |-> [rule |-> book[k].rule, acct |-> book[k].acct, target |-> book[k].target]]

Life == INSTANCE LoanLife WITH status <- StatusOf, entries <- EntriesOf

\* Requests that fail, are retried and are cut short anywhere implement the
\* life of an account of LoanLife.tla: the GL is asked for a posting only in
\* the status it belongs to, and a status follows its posting, on every account
\* that two requests have not touched at once.
ImplementsLoanLife == Life!Spec
=============================================================================
