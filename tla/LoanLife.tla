------------------------------ MODULE LoanLife ------------------------------
(***************************************************************************)
(* What the loan account subledger promises of an account, without         *)
(* handlers, tables or retries: the statuses it goes through and the       *)
(* entries of the GL that may be made for it in each.  A status changes    *)
(* only on what the GL has posted, and the GL is asked for a posting only  *)
(* in the status it belongs to, so the two never tell different stories.   *)
(* The promise ends for an account once it is contended.                   *)
(***************************************************************************)
CONSTANTS Accounts,
          None             \* the target of an entry that undoes nothing

VARIABLES status,          \* a function from an account to its status
          entries,         \* a function from a key to [rule, acct, target]
          contended        \* the accounts that nothing is promised of any more

\* The statuses an entry of each rule is made in.  Repayments and reversals of
\* repayments come in any: a correction books one on an account it never read.
When == [DISB01   |-> {"PendingDisbursement"},
         DISB02   |-> {"Disbursed"},
         ACCR01   |-> {"Disbursed"},
         MOD01    |-> {"Disbursed"},
         PAYOFF01 |-> {"Disbursed"},
         CHGOFF01 |-> {"Disbursed"},
         CHGOFF02 |-> {"ChargedOff"},
         DELINQ01 |-> {"Approved", "PendingDisbursement", "Disbursed"}]

Undone(k) == \E j \in DOMAIN entries : entries[j].target = k

\* The disbursements of an account that were not taken back.
Out(a) == {k \in DOMAIN entries : entries[k].acct = a /\ entries[k].rule = "DISB01" /\ ~Undone(k)}

Has(a, rule) == \E k \in DOMAIN entries : entries[k].acct = a /\ entries[k].rule = rule

Init ==
    /\ status = [a \in Accounts |-> "Approved"]
    /\ DOMAIN entries = {}
    /\ contended = {}

\* A loan is paid out when the account has none out, a disbursement is taken
\* back from the account that has it, and nothing is undone twice.
Admissible(e) ==
    /\ e.rule \in DOMAIN When => e.acct \in Accounts /\ status[e.acct] \in When[e.rule]
    /\ e.rule = "DISB01" => Out(e.acct) = {}
    /\ e.rule = "DISB02" => e.target \in Out(e.acct)
    /\ e.target # None => e.target \in DOMAIN entries /\ ~Undone(e.target)

Post(k) ==
    /\ DOMAIN entries' = DOMAIN entries \cup {k}
    /\ \A j \in DOMAIN entries : entries'[j] = entries[j]
    /\ entries'[k].acct \notin contended => Admissible(entries'[k])
    /\ UNCHANGED <<status, contended>>

\* What the GL must have posted, or undone, for each change of status.
Warranted(a, from, to) ==
    \/ from = "Approved" /\ to = "PendingDisbursement" /\ Out(a) = {}
    \/ from = "PendingDisbursement" /\ to = "Disbursed" /\ Out(a) # {}
    \/ from = "Disbursed" /\ to = "Approved" /\ Out(a) = {}
    \/ from = "Disbursed" /\ to = "Closed" /\ Has(a, "PAYOFF01")
    \/ from = "Disbursed" /\ to = "ChargedOff" /\ Has(a, "CHGOFF01")

Move(a) ==
    /\ a \notin contended => Warranted(a, status[a], status'[a])
    /\ status' = [status EXCEPT ![a] = status'[a]]
    /\ UNCHANGED <<entries, contended>>

Contend == contended \subseteq contended' /\ UNCHANGED <<status, entries>>

Next ==
    \/ \E k \in DOMAIN entries' \ DOMAIN entries : Post(k)
    \/ \E a \in Accounts : Move(a)
    \/ Contend

Spec == Init /\ [][Next]_<<status, entries, contended>>
=============================================================================
