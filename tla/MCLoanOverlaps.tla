--------------------------- MODULE MCLoanOverlaps ----------------------------
EXTENDS MCLoanServicing, LoanOverlaps

CONSTANT d3

On(acct, r) == [r EXCEPT !.acct = acct]

\* The life of one account, its requests overlapping or not, with a request of
\* another account to be served meanwhile.
OneLife == {Create(d1), Create(d2), Confirm(d1), Confirm(d2), Reverse(d1, kd), Reverse(d1, kd2),
            Quote(q1), Pay(p1, q1, 3), Undo(p1, B, kp), Undo(p1, None, kp2), ChargeOff(c1),
            Accrue(1), Modify(m1, 1), Modify(m2, 0), On(B, Create(d3))}
=============================================================================
