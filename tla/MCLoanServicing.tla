--------------------------- MODULE MCLoanServicing ---------------------------
EXTENDS LoanServicing
LOCAL INSTANCE TLC

CONSTANTS A, B, C, d1, d2, p1, p2, p3, c1, f1, q1, m1, m2, kd, kd2, kp, kp2, kp3, kc, kw, w1, w2

Create(d)      == [op |-> "create", id |-> d, acct |-> A]
Confirm(d)     == [op |-> "confirm", id |-> d]
Reverse(d, k)  == [op |-> "reverse", id |-> d, key |-> k]
Pay(p, q, n)   == [op |-> "notify", id |-> p, acct |-> A, quote |-> q, amount |-> n]
Unmatched(p)   == [Pay(p, None, 1) EXCEPT !.acct = None]
Undo(p, to, k) == [op |-> "undo", id |-> p, to |-> to, key |-> k]
ChargeOff(c)   == [op |-> "chargeoff", id |-> c, acct |-> A]
Late(b, f)     == [op |-> "delinquency", id |-> f, acct |-> A, bucket |-> b]
Waive(f)       == [op |-> "waive", id |-> f, key |-> kw]
Accrue(d)      == [op |-> "accrue", id |-> <<A, d>>, acct |-> A]
Modify(m, n)   == [op |-> "modify", id |-> m, acct |-> A, capital |-> OfInterest(n)]
Quote(q)       == [op |-> "quote", id |-> q, acct |-> A]

Everything ==
    {Create(d1), Create(d2), Confirm(d1), Confirm(d2), Reverse(d1, kd), Reverse(d1, kd2),
     Pay(p1, None, 2), Pay(p2, q1, 3), Undo(p1, None, kp), Undo(p1, B, kp2),
     Undo(<<"correction", p1>>, None, kc), Unmatched(p3), ChargeOff(c1),
     Late("1-29", f1), Late("90+", None), Late("Current", None), Waive(f1), Accrue(1), Quote(q1),
     Modify(m1, 1), Modify(m2, 0)}

\* For concurrent workers: one disbursement, and what contends for its account,
\* among it reversals of one payment that name two others.
Contending ==
    {Create(d1), Confirm(d1), Reverse(d1, kd), Pay(p1, None, 2), Pay(p2, q1, 3), Undo(p1, B, kp2),
     Undo(p1, C, kp3), Undo(p1, None, kp), ChargeOff(c1), Late("1-29", f1), Waive(f1), Quote(q1),
     Modify(m1, 1), Accrue(1)}

\* Workers differ in nothing but their names.
WorkerSymmetry == Permutations(Workers)
=============================================================================
