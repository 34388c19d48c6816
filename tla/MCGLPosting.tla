----------------------------- MODULE MCGLPosting -----------------------------
(* Requests for model-checking GLPosting.                                  *)
EXTENDS GLPosting
LOCAL INSTANCE TLC

CONSTANTS w1, w2

USD(x) == [amount |-> x, currency |-> "USD"]

Allocated(f, i, p) == [fee |-> USD(f), interest |-> USD(i), principal |-> USD(p)]

Amount(p) == Allocated(0, 0, p)

Body(rule, value, target, adjusts) ==
    [rule |-> rule, shape |-> ShapeFor(rule), metadata |-> TRUE, acct |-> "L1",
     value |-> value, target |-> target, adjusts |-> adjusts]

Post(key, body) == [op |-> "post", key |-> key, body |-> body]

Close(key, p, by) == [op |-> "close", key |-> key, period |-> p, closedBy |-> by]

Disburse      == Post("disb", Body("DISB01", Amount(2), None, None))
DisburseOther == Post("disb", Body("DISB01", Amount(1), None, None))
TakeBack      == Post("back", Body("DISB02", Amount(2), "disb", None))
Repay         == Post("repay", Body("REPAY01", Allocated(0, 1, 1), None, None))
ReverseRepay  == Post("rev", Body("REPAY02", Allocated(0, 1, 1), "repay", None))
Overflow      == Post("big", Body("PAYOFF01", Allocated(3, 3, 3), None, None))
Shapeless     == Post("bad", [Body("ACCR01", Amount(1), None, None) EXCEPT !.shape = "allocation"])
AdjustAway    == Post("adj", [Body("DISB01", Amount(1), None, 1) EXCEPT !.acct = "L2"])
CloseFirst    == Close("c1", 1, "ann")
CloseSecond   == Close("c3", 2, "ann")

RaceRequests    == {Disburse, DisburseOther, TakeBack, Overflow, Shapeless, CloseFirst}
OverlapRequests == {Disburse, Repay, ReverseRepay, AdjustAway, CloseFirst, CloseSecond}
PostAndClose    == {Disburse, CloseFirst}

\* Workers differ in nothing but their names.
WorkerSymmetry == Permutations(Workers)

AllKeys == {"disb", "back", "repay", "rev", "big", "bad", "adj", "c1", "c3"}

\* A race within a month: the calendar stands still.
RaceSpec == Init /\ [][\E w \in Workers : Step(w)]_vars
=============================================================================
