----------------------------- MODULE GLOverlaps ------------------------------
(***************************************************************************)
(* What GLPosting's workers keep although nothing in the code holds a lock *)
(* from one statement to the next: a period check, a target check and a    *)
(* running balance are right unless the attempt met, while it was at work, *)
(* another whose transaction concerns what it had read.                    *)
(*                                                                         *)
(* met is history: it decides nothing, and a behaviour of this module is   *)
(* one of GLPosting, watched.                                              *)
(***************************************************************************)
EXTENDS GLPosting

VARIABLE met    \* <<m, n, r>>: attempt m was at work while n was, on request r

\* From the request's arrival until its answer is decided.
AtWork(w) == pc[w] \notin {"idle", "reply", "save"}

Meetings ==
    {<<attempt[x[1]], attempt[x[2]], req[x[2]]>> :
        x \in {y \in Workers \X Workers : y[1] # y[2] /\ AtWork(y[1]) /\ AtWork(y[2])}}

overlapVars == <<vars, met>>

OverlapsInit == Init /\ met = {}

OverlapsNext == Next /\ met' = met \cup Meetings'

OverlapsSpec == OverlapsInit /\ [][OverlapsNext]_overlapVars
-----------------------------------------------------------------------------
(* Properties.                                                             *)

Met(m, n) == \E x \in met : x[1] = m /\ x[2] = n

MetCloseOf(n, p) == \E x \in met : x[1] = n /\ x[3].op = "close" /\ x[3].period = p

\* An ordinary entry enters a closed period only if the attempt that posts it
\* met a request to close that period (rejectIfPeriodClosed, and the insert that
\* comes statements later): every other posting is refused once the close has
\* committed, however many requests run.
OnlyItsCloseIsOvertaken ==
    [][\A e \in journal' \ journal :
          e.adjusts = None /\ periods[e.period].status = "Closed" => MetCloseOf(e.id, e.period)]_journal

\* An entry of a closed period is reversed only by an attempt that met a request
\* to close that very period (buildReversalLines).
OnlyItsTargetsCloseIsOvertaken ==
    [][\A e \in journal' \ journal : e.rule \in ReversalRules =>
          \A o \in journal : o.key = e.reverses /\ periods[o.period].status = "Closed"
                                => MetCloseOf(e.id, o.period)]_journal

\* No two attempts that posted on the loan account were ever at work together.
Apart(acct) ==
    \A e, f \in journal : e.acct = acct /\ f.acct = acct /\ e # f => ~Met(e.id, f.id)

\* The lines posted on a line's loan account and GL account up to and
\* including it.
LiveSum(e, i) ==
    LET upTo == {x \in LinesOf(e.acct, e.lines[i].account) : Later(<<e, i>>, x)}
    IN  SumFunctionOnSet([x \in upTo |-> Signed(x[1].lines[x[2]])], upTo)

\* Every running balance is the sum of what was posted up to its line, as an
\* int64 holds that sum, on every loan account whose own posters never met,
\* whatever the posters of other accounts do meanwhile (computeRunningBalances,
\* GetLatestRunningBalance).
BalancesOfApartAreSums ==
    \A e \in journal : Apart(e.acct) =>
        \A i \in DOMAIN e.lines : e.balances[i] = Wrap(LiveSum(e, i))
=============================================================================
