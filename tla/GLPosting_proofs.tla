---------------------------- MODULE GLPosting_proofs ----------------------------
(***************************************************************************)
(* The GL service keeps IInv, for every set of workers, requests and keys  *)
(* and every bound; the safety properties and the refinement follow.       *)
(*                                                                         *)
(* After facts about the posting rules, part 1 shows that each action      *)
(* keeps the types and the workers' jobs, part 2 that each keeps the       *)
(* ledger's own invariants, part 3 concludes; part 4 is the refinement of  *)
(* Ledger, part 5 the outbox; part 6 is about closes that a posting        *)
(* overtakes and part 7 about running balances, both by what the attempts  *)
(* met; part 8 is about the posting rules alone, and part 9 uses it to say *)
(* what a client may be told.                                              *)
(***************************************************************************)
EXTENDS GLOverlaps, PostingRequests, FiniteSums_proofs, SequenceTheorems

(* The posting rules, for every integer width and every value.             *)

\* What an int64 register holds is an int64 (Go's wrapping addition).
LEMMA WrapIsInt64 ==
    ASSUME NEW x \in Int
    PROVE  Wrap(x) \in Int64
<1> DEFINE m == 2 * (MaxInt + 1)
<1>1. m \in Nat /\ m > 0  BY MaxIntAssumption
<1>2. (x + MaxInt + 1) % m \in 0 .. (m - 1)  BY <1>1, MaxIntAssumption
<1> HIDE DEF m
<1>3. ((x + MaxInt + 1) % m) - (MaxInt + 1) \in -(MaxInt + 1) .. (m - 1) - (MaxInt + 1)
  BY <1>1, <1>2, MaxIntAssumption
<1>4. (m - 1) - (MaxInt + 1) = MaxInt  BY MaxIntAssumption DEF m
<1> QED  BY <1>3, <1>4 DEF Wrap, Int64, m

LEMMA DivisionOfIntegers ==
    ASSUME NEW z \in Int, NEW m \in Nat \ {0}
    PROVE  \E q \in Int, a \in 0 .. (m - 1) : a = z % m /\ z = m * q + a
<1>1. z \div m \in Int /\ z % m \in 0 .. (m - 1) /\ z = m * (z \div m) + (z % m)
  OBVIOUS
<1> QED  BY <1>1

LEMMA RemainderIsUnique ==
    ASSUME NEW m \in Nat \ {0}, NEW k \in Int, NEW r \in 0 .. (m - 1), NEW s \in 0 .. (m - 1),
           m * k = r - s
    PROVE  r = s
<1>1. CASE k >= 1
  <2>1. m * k >= m  BY <1>1
  <2> QED  BY <2>1
<1>2. CASE k <= -1
  <2>1. m * k <= -m  BY <1>2
  <2> QED  BY <2>1
<1>3. CASE k = 0  BY <1>3
<1> QED  BY <1>1, <1>2, <1>3

LEMMA RemainderOfShifted ==
    ASSUME NEW z \in Int, NEW q \in Int, NEW m \in Nat \ {0}
    PROVE  (z + m * q) % m = z % m
<1>1. PICK t \in Int : t = z + m * q  OBVIOUS
<1>2. PICK p \in Int, r \in 0 .. (m - 1) : r = z % m /\ z = m * p + r
  BY DivisionOfIntegers
<1>3. PICK p2 \in Int, r2 \in 0 .. (m - 1) : r2 = t % m /\ t = m * p2 + r2
  BY <1>1, DivisionOfIntegers
<1>4. m * (p + q - p2) = r2 - r
  <2>1. PICK a \in Int, b \in Int, c \in Int, d \in Int :
            a = m * p /\ b = m * q /\ c = m * p2 /\ d = m * (p + q - p2)
    OBVIOUS
  <2>2. d = a + b - c  BY <2>1
  <2>3. a + r + b = c + r2  BY <1>1, <1>2, <1>3, <2>1
  <2> QED  BY <2>1, <2>2, <2>3
<1>5. r2 = r
  <2>1. p + q - p2 \in Int  OBVIOUS
  <2> QED  BY <1>4, <2>1, RemainderIsUnique
<1> QED  BY <1>1, <1>2, <1>3, <1>5

\* A chain of wrapping additions is the wrapped sum.
LEMMA WrapAbsorbsWrap ==
    ASSUME NEW x \in Int, NEW y \in Int
    PROVE  Wrap(Wrap(x) + y) = Wrap(x + y)
<1>1. PICK h, m : h = MaxInt + 1 /\ m = 2 * (MaxInt + 1)
  OBVIOUS
<1>2. h \in Int /\ m \in Nat \ {0}  BY <1>1, MaxIntAssumption
<1>3. PICK q \in Int, a \in 0 .. (m - 1) : a = (x + h) % m /\ x + h = m * q + a
  <2>1. x + h \in Int  BY <1>2
  <2> QED  BY <1>2, <2>1, DivisionOfIntegers
<1>4. Wrap(x) = a - h /\ Wrap(Wrap(x) + y) = ((Wrap(x) + y + h) % m) - h /\ Wrap(x + y) = ((x + y + h) % m) - h
  <2>1. x + h = x + MaxInt + 1 /\ Wrap(x) \in Int
    BY <1>1, WrapIsInt64, MaxIntAssumption DEF Int64
  <2>2. Wrap(x) + y + h = Wrap(x) + y + MaxInt + 1 /\ x + y + h = x + y + MaxInt + 1
    BY <1>1, <2>1, MaxIntAssumption
  <2>3. Wrap(x) = ((x + MaxInt + 1) % m) - h
    BY <1>1 DEF Wrap
  <2>4. Wrap(x + y) = ((x + y + MaxInt + 1) % m) - h
    BY <1>1 DEF Wrap
  <2>5. Wrap(Wrap(x) + y) = ((Wrap(x) + y + MaxInt + 1) % m) - h
    BY <1>1 DEF Wrap
  <2> QED  BY <1>3, <2>1, <2>2, <2>3, <2>4, <2>5
<1>5. Wrap(x) + y + h = a + y  BY <1>2, <1>3, <1>4
<1>6. x + y + h = (a + y) + m * q  BY <1>2, <1>3
<1>7. ((a + y) + m * q) % m = (a + y) % m
  <2>1. a + y \in Int  OBVIOUS
  <2> QED  BY <1>2, <2>1, RemainderOfShifted
<1> QED  BY <1>4, <1>5, <1>6, <1>7

\* What fits is not changed.
LEMMA WrapKeepsInt64 ==
    ASSUME NEW x \in Int64
    PROVE  Wrap(x) = x
<1>1. PICK h \in Int, m \in Nat \ {0} : h = MaxInt + 1 /\ m = 2 * (MaxInt + 1)
  BY MaxIntAssumption
<1>2. x \in Int /\ x + h \in 0 .. (m - 1) /\ x + MaxInt + 1 = x + h
  BY <1>1, MaxIntAssumption DEF Int64
<1>3. PICK p \in Int, r \in 0 .. (m - 1) : r = (x + h) % m /\ x + h = m * p + r
  <2>1. x + h \in Int  BY <1>1, <1>2
  <2> QED  BY <2>1, DivisionOfIntegers
<1>4. x + h = r
  <2>1. PICK t \in 0 .. (m - 1) : t = x + h  BY <1>2
  <2>2. m * p \in Int /\ m * p = t - r  BY <1>3, <2>1
  <2> QED  BY <2>1, <2>2, RemainderIsUnique
<1> QED  BY <1>1, <1>2, <1>3, <1>4 DEF Wrap

\* A line of an allocation or capitalization is dropped or well-typed.
LEMMA CreditUnlessZeroType ==
    ASSUME NEW account \in GLAccounts, NEW money \in Money
    PROVE  /\ CreditUnlessZero(account, money) \in Seq(Lines)
           /\ Len(CreditUnlessZero(account, money)) <= 1
<1>1. Line(account, "CREDIT", money) \in Lines
  BY MaxIntAssumption DEF Line, Lines, Money, Int64, Directions
<1> QED  BY <1>1 DEF CreditUnlessZero

\* No rule is of two kinds, so the catalog's CASE has one branch per rule.
LEMMA RuleKindsAreDisjoint ==
    /\ DOMAIN TwoLineRules \cap DOMAIN AllocationRules = {}
    /\ "MOD01" \notin DOMAIN TwoLineRules
    /\ "MOD01" \notin DOMAIN AllocationRules
BY DEF TwoLineRules, AllocationRules

\* Every forward rule builds at least one line and at most four
\* (buildForwardLines and the eight constructors of rules.go).
LEMMA ForwardLinesType ==
    ASSUME NEW rule \in ForwardRules, NEW v \in Values
    PROVE  /\ ForwardLines(rule, v) \in Seq(Lines)
           /\ Len(ForwardLines(rule, v)) > 0 /\ Len(ForwardLines(rule, v)) <= 4
<1>1. v.fee \in Money /\ v.interest \in Money /\ v.principal \in Money  BY DEF Values
<1>2. ASSUME NEW a \in GLAccounts, NEW d \in Directions, NEW m \in Money
      PROVE  Line(a, d, m) \in Lines
  BY <1>2, MaxIntAssumption DEF Line, Lines, Money, Int64
<1>3. "DEBIT" \in Directions /\ "CREDIT" \in Directions  BY DEF Directions
<1>4. CASE rule \in DOMAIN TwoLineRules
  <2>1. TwoLineRules[rule].debit \in GLAccounts /\ TwoLineRules[rule].credit \in GLAccounts
    BY <1>4 DEF TwoLineRules, GLAccounts
  <2>2. ForwardLines(rule, v) = <<Line(TwoLineRules[rule].debit, "DEBIT", v.principal),
                                  Line(TwoLineRules[rule].credit, "CREDIT", v.principal)>>
    <3>1. rule \notin DOMAIN AllocationRules /\ rule # "MOD01"
      BY <1>4, RuleKindsAreDisjoint
    <3> QED  BY <1>4, <3>1 DEF ForwardLines
  <2>3. /\ Line(TwoLineRules[rule].debit, "DEBIT", v.principal) \in Lines
        /\ Line(TwoLineRules[rule].credit, "CREDIT", v.principal) \in Lines
    BY <1>1, <1>2, <1>3, <2>1
  <2> QED  BY <2>2, <2>3
<1>5. CASE rule \in DOMAIN AllocationRules
  <2>1. AllocationRules[rule] \in GLAccounts  BY <1>5 DEF AllocationRules, GLAccounts
  <2>2. AllocationSum(v) \in Money
    <3>1. v.fee.amount + v.interest.amount \in Int
      BY <1>1, MaxIntAssumption DEF Money, Int64
    <3>2. Wrap(v.fee.amount + v.interest.amount) + v.principal.amount \in Int
      BY <1>1, <3>1, WrapIsInt64, MaxIntAssumption DEF Money, Int64
    <3> QED  BY <1>1, <3>2, WrapIsInt64 DEF AllocationSum, Money
  <2>3. CategoryLines(v) \in Seq(Lines) /\ Len(CategoryLines(v)) <= 3
    <3>0. PICK a, b, c : /\ a = CreditUnlessZero("FeeReceivable", v.fee)
                         /\ b = CreditUnlessZero("InterestReceivable", v.interest)
                         /\ c = CreditUnlessZero("LoanReceivable", v.principal)
      OBVIOUS
    <3>1. /\ a \in Seq(Lines) /\ Len(a) <= 1
          /\ b \in Seq(Lines) /\ Len(b) <= 1
          /\ c \in Seq(Lines) /\ Len(c) <= 1
      BY <1>1, <3>0, CreditUnlessZeroType DEF GLAccounts
    <3>2. PICK ab : ab = a \o b /\ ab \in Seq(Lines) /\ Len(ab) = Len(a) + Len(b)
      BY <3>1, ConcatProperties
    <3>3. PICK abc : abc = ab \o c /\ abc \in Seq(Lines) /\ Len(abc) = Len(ab) + Len(c)
      BY <3>1, <3>2, ConcatProperties
    <3>4. CategoryLines(v) = abc
      BY <3>0, <3>1, <3>2, <3>3, ConcatAssociative DEF CategoryLines
    <3> QED  BY <3>1, <3>2, <3>3, <3>4
  <2>4. <<Line(AllocationRules[rule], "DEBIT", AllocationSum(v))>> \in Seq(Lines)
    BY <1>2, <1>3, <2>1, <2>2
  <2>5. rule \notin DOMAIN TwoLineRules /\ rule # "MOD01"
    BY <1>5, RuleKindsAreDisjoint
  <2>6. ForwardLines(rule, v) =
          <<Line(AllocationRules[rule], "DEBIT", AllocationSum(v))>> \o CategoryLines(v)
    BY <1>5, <2>5 DEF ForwardLines
  <2>7. Len(<<Line(AllocationRules[rule], "DEBIT", AllocationSum(v))>>) = 1  OBVIOUS
  <2>8. PICK head, tail : head = <<Line(AllocationRules[rule], "DEBIT", AllocationSum(v))>> /\ tail = CategoryLines(v)
    OBVIOUS
  <2>9. (head \o tail) \in Seq(Lines) /\ Len(head \o tail) = 1 + Len(tail)
    BY <2>3, <2>4, <2>7, <2>8, ConcatProperties
  <2> QED  BY <2>3, <2>6, <2>8, <2>9
<1>6. CASE rule = "MOD01"
  <2> DEFINE head == <<Line("LoanReceivable", "DEBIT", CapitalizationSum(v))>>
             tail == CreditUnlessZero("InterestReceivable", v.interest) \o
                     CreditUnlessZero("FeeReceivable", v.fee)
  <2>1. CapitalizationSum(v) \in Money
    <3>1. v.interest.amount + v.fee.amount \in Int
      BY <1>1, MaxIntAssumption DEF Money, Int64
    <3> QED  BY <1>1, <3>1, WrapIsInt64 DEF CapitalizationSum, Money
  <2>2. head \in Seq(Lines) /\ Len(head) = 1  BY <1>2, <1>3, <2>1 DEF GLAccounts
  <2>3. /\ CreditUnlessZero("InterestReceivable", v.interest) \in Seq(Lines)
        /\ CreditUnlessZero("FeeReceivable", v.fee) \in Seq(Lines)
        /\ Len(CreditUnlessZero("InterestReceivable", v.interest)) <= 1
        /\ Len(CreditUnlessZero("FeeReceivable", v.fee)) <= 1
    BY <1>1, CreditUnlessZeroType DEF GLAccounts
  <2>4. tail \in Seq(Lines) /\ Len(tail) <= 2
    BY <2>3, ConcatProperties
  <2>5. ForwardLines(rule, v) = head \o tail
    <3>1. rule \notin DOMAIN TwoLineRules /\ rule \notin DOMAIN AllocationRules
      BY <1>6, RuleKindsAreDisjoint
    <3>2. ForwardLines(rule, v) = <<Line("LoanReceivable", "DEBIT", CapitalizationSum(v))>> \o
           CreditUnlessZero("InterestReceivable", v.interest) \o
           CreditUnlessZero("FeeReceivable", v.fee)
      BY <1>6, <3>1 DEF ForwardLines
    <3> QED  BY <2>2, <2>3, <3>2, ConcatAssociative
  <2> HIDE DEF head, tail
  <2>6. (head \o tail) \in Seq(Lines) /\ Len(head \o tail) = 1 + Len(tail)
    <3>1. PICK h \in Seq(Lines), t \in Seq(Lines) : h = head /\ t = tail
      BY <2>2, <2>4
    <3>2. h \o t \in Seq(Lines) /\ Len(h \o t) = Len(h) + Len(t)
      BY ONLY ConcatProperties, h \in Seq(Lines), t \in Seq(Lines)
    <3> QED  BY <2>2, <3>1, <3>2
  <2> QED  BY <2>4, <2>5, <2>6
<1> QED  BY <1>4, <1>5, <1>6 DEF ForwardRules

\* A mirror image has the same length and the same types
\* (domain.MirrorForReversal).
LEMMA MirrorType ==
    ASSUME NEW lines \in Seq(Lines)
    PROVE  /\ MirrorForReversal(lines) \in Seq(Lines)
           /\ Len(MirrorForReversal(lines)) = Len(lines)
<1>1. ASSUME NEW i \in 1 .. Len(lines)
      PROVE  [lines[i] EXCEPT !.direction = Opposite(@)] \in Lines
  <2>1. lines[i] \in Lines  BY ElementOfSeq
  <2>2. Opposite(lines[i].direction) \in Directions  BY <2>1 DEF Lines, Directions, Opposite
  <2> QED  BY <2>1, <2>2 DEF Lines
<1>2. MirrorForReversal(lines) = [i \in 1 .. Len(lines) |-> [lines[i] EXCEPT !.direction = Opposite(@)]]
  BY LenProperties DEF MirrorForReversal
<1> QED  BY <1>1, <1>2, IsASeq, LenProperties

\* Mirroring keeps the accounts, amounts and currencies and flips every
\* direction.
LEMMA MirrorFlipsEveryLine ==
    ASSUME NEW lines \in Seq(Lines), NEW i \in DOMAIN lines
    PROVE  LET l == MirrorForReversal(lines)[i]
           IN  /\ l.direction = Opposite(lines[i].direction)
               /\ l.direction # lines[i].direction
               /\ l.account = lines[i].account
               /\ l.amount = lines[i].amount
               /\ l.currency = lines[i].currency
<1>1. lines[i] \in Lines  BY ElementOfSeq, LenProperties
<1> QED  BY <1>1 DEF MirrorForReversal, Lines, Directions, Opposite

\* The debits of the mirror image are the credits of the lines, and the
\* other way round.
LEMMA MirrorSwapsTotals ==
    ASSUME NEW lines \in Seq(Lines)
    PROVE  /\ Total(MirrorForReversal(lines), "DEBIT") = Total(lines, "CREDIT")
           /\ Total(MirrorForReversal(lines), "CREDIT") = Total(lines, "DEBIT")
<1> DEFINE mirror == MirrorForReversal(lines)
<1>1. DOMAIN mirror = DOMAIN lines  BY DEF MirrorForReversal
<1>2. \A i \in DOMAIN lines : /\ mirror[i].amount = lines[i].amount
                              /\ mirror[i].direction = Opposite(lines[i].direction)
                              /\ lines[i].direction \in Directions
  <2> SUFFICES ASSUME NEW i \in DOMAIN lines
               PROVE  /\ mirror[i].amount = lines[i].amount
                      /\ mirror[i].direction = Opposite(lines[i].direction)
                      /\ lines[i].direction \in Directions
    OBVIOUS
  <2>1. lines[i] \in Lines  BY ElementOfSeq, LenProperties
  <2> QED  BY <2>1, MirrorFlipsEveryLine DEF Lines
<1> HIDE DEF mirror
<1>3. [i \in DOMAIN mirror |-> mirror[i].amount] = [i \in DOMAIN lines |-> lines[i].amount]
  BY <1>1, <1>2
<1>4. /\ {i \in DOMAIN mirror : mirror[i].direction = "DEBIT"}
           = {i \in DOMAIN lines : lines[i].direction = "CREDIT"}
      /\ {i \in DOMAIN mirror : mirror[i].direction = "CREDIT"}
           = {i \in DOMAIN lines : lines[i].direction = "DEBIT"}
  BY <1>1, <1>2 DEF Directions, Opposite
<1> QED  BY <1>3, <1>4 DEF Total, mirror

\* A reversal is never refused for its balance: if the database accepted an
\* entry, the constructor and the database accept its mirror image.
THEOREM MirrorIsAccepted ==
    ASSUME NEW lines \in Seq(Lines), TriggerAccepts(lines)
    PROVE  ValidateBalanced(MirrorForReversal(lines)) /\ TriggerAccepts(MirrorForReversal(lines))
<1> DEFINE mirror == MirrorForReversal(lines)
<1>1. Len(mirror) = Len(lines) /\ DOMAIN mirror = DOMAIN lines
  BY MirrorType DEF MirrorForReversal
<1>2. LinesArePlausible(mirror)
  BY <1>1, MirrorFlipsEveryLine DEF TriggerAccepts, LinesArePlausible
<1>3. Total(mirror, "DEBIT") = Total(mirror, "CREDIT") /\ Total(mirror, "DEBIT") <= MaxInt
  BY MirrorSwapsTotals DEF TriggerAccepts
<1> QED  BY <1>2, <1>3 DEF TriggerAccepts, ValidateBalanced
-----------------------------------------------------------------------------
(* The constants.                                                          *)

Typed == TypeOK /\ JobOK

\* A client's request, read as the record it is.
LEMMA RequestType ==
    ASSUME NEW r \in Requests
    PROVE  /\ r.key \in Keys
           /\ r.op \in {"post", "close"}
           /\ IsPost(r) => r.body \in Bodies
           /\ ~IsPost(r) => r.period \in Periods /\ r.closedBy \in STRING
BY ConstantsAssumption DEF PostRequests, CloseRequests, IsPost

LEMMA ConstantsTyped ==
    /\ 1 \in Periods
    /\ Periods \subseteq Nat
    /\ OpenPeriod \in Rows
    /\ EmptyDraft \in Drafts
    /\ EmptyDraft.balances = <<>>
    /\ NoAnswer \in Answers
    /\ None \in Results
    /\ {200, 201, 400, 409, 422, 500} \subseteq Statuses
<1>1. 1 \in Periods /\ Periods \subseteq Nat  BY ConstantsAssumption DEF Periods
<1>2. OpenPeriod \in Rows  BY DEF OpenPeriod, Rows
<1>3. EmptyDraft \in Drafts /\ EmptyDraft.balances = <<>>
  BY EmptySeq DEF EmptyDraft, Drafts
<1>4. NoAnswer \in Answers  BY DEF NoAnswer, Statuses, Results, Answers
<1>5. None \in Results /\ {200, 201, 400, 409, 422, 500} \subseteq Statuses
  BY DEF Results, Statuses
<1> QED  BY <1>1, <1>2, <1>3, <1>4, <1>5

-----------------------------------------------------------------------------
(* Part 1.  Types and jobs.                                                *)

LEMMA InitTyped == Init => Typed
<1> SUFFICES ASSUME Init PROVE Typed  OBVIOUS
<1>1. DbTypeOK  BY ConstantsTyped DEF Init, DbTypeOK
<1>2. WorldTypeOK  BY ConstantsTyped DEF Init, WorldTypeOK
<1>3. JobTypeOK  BY ConstantsTyped DEF Init, JobTypeOK, Labels
<1>4. replies \subseteq Replies  BY DEF Init
<1>5. JobOK  BY ConstantsTyped DEF Init, JobOK, HandlerLabels, CloseLabels
<1> QED  BY <1>1, <1>2, <1>3, <1>4, <1>5 DEF Typed, TypeOK

\* What an action leaves alone stays typed.
LEMMA UnchangedTyped ==
    ASSUME TypeOK
    PROVE  /\ UNCHANGED db => DbTypeOK'
           /\ UNCHANGED world /\ UNCHANGED budget => WorldTypeOK'
           /\ UNCHANGED replies => replies' \subseteq Replies
<1>1. UNCHANGED db => DbTypeOK'  BY DEF TypeOK, DbTypeOK, db
<1>2. UNCHANGED world /\ UNCHANGED budget => WorldTypeOK'
  BY DEF TypeOK, WorldTypeOK, world, budget
<1>3. UNCHANGED replies => replies' \subseteq Replies  BY DEF TypeOK
<1> QED  BY <1>1, <1>2, <1>3

\* Writing an answer keeps the types and the worker's job.
LEMMA AnswerTyped ==
    ASSUME Typed, NEW w \in Workers, pc[w] # "idle",
           NEW st \in Statuses, NEW value \in Results, Answer(w, st, value),
           UNCHANGED <<req, attempt, draft>>
    PROVE  JobTypeOK' /\ JobOK'
<1>1. [status |-> st, value |-> value] \in Answers  BY DEF Answers
<1>2. JobTypeOK'  BY <1>1 DEF Typed, TypeOK, JobTypeOK, Answer, Labels
<1>3. JobOK'  BY DEF Typed, TypeOK, JobTypeOK, JobOK, Answer, HandlerLabels, CloseLabels
<1> QED  BY <1>2, <1>3

\* So does letting the worker go.
LEMMA ReleaseTyped ==
    ASSUME Typed, NEW w \in Workers, Release(w)
    PROVE  JobTypeOK' /\ JobOK'
<1>1. JobTypeOK'  BY ConstantsTyped DEF Typed, TypeOK, JobTypeOK, Release, Labels
<1>2. JobOK'
  BY ConstantsTyped DEF Typed, TypeOK, JobTypeOK, JobOK, Release, HandlerLabels, CloseLabels
<1> QED  BY <1>1, <1>2

\* So does moving it on, if its draft is what the next label asks for.
LEMMA GotoTyped ==
    ASSUME Typed, NEW w \in Workers, NEW label \in Labels, Goto(w, label),
           NEW d \in Drafts, draft' = [draft EXCEPT ![w] = d],
           req[w] \in Requests,
           label \in HandlerLabels => IsPost(req[w]),
           label \in CloseLabels => ~IsPost(req[w]),
           label \in {"period", "balance", "commit"} => d.period \in Periods,
           label \in {"idle", "lookup", "build", "stamp", "period"} => d.balances = <<>>,
           label \in {"stamp", "period"} => Len(d.lines) > 0,
           label = "balance" => Len(d.balances) < Len(d.lines),
           label = "commit" => Len(d.balances) = Len(d.lines),
           label = "save" => answer[w].status \in {200, 201},
           UNCHANGED <<req, attempt, answer>>
    PROVE  JobTypeOK' /\ JobOK'
<1>1. JobTypeOK'  BY DEF Typed, TypeOK, JobTypeOK, Goto
<1>2. JobOK'
  <2> SUFFICES ASSUME NEW v \in Workers
               PROVE  /\ pc'[v] \in {"idle", "lookup", "build", "stamp", "period"}
                           => draft'[v].balances = <<>>
                      /\ pc'[v] \in {"stamp", "period"} => Len(draft'[v].lines) > 0
                      /\ pc'[v] = "balance" => Len(draft'[v].balances) < Len(draft'[v].lines)
                      /\ pc'[v] = "commit" => Len(draft'[v].balances) = Len(draft'[v].lines)
                      /\ pc'[v] # "idle" => req'[v] \in Requests
                      /\ pc'[v] \in HandlerLabels => IsPost(req'[v])
                      /\ pc'[v] \in CloseLabels => ~IsPost(req'[v])
                      /\ pc'[v] \in {"period", "balance", "commit"} => draft'[v].period \in Periods
                      /\ pc'[v] = "save" => answer'[v].status \in {200, 201}
    BY DEF JobOK, IsPost
  <2>1. CASE v = w
    <3>1. pc'[v] = label /\ draft'[v] = d /\ req'[v] = req[w] /\ answer'[v] = answer[w]
      BY <2>1 DEF Typed, TypeOK, JobTypeOK, Goto
    <3> QED  BY <3>1
  <2>2. CASE v # w
    <3>1. pc'[v] = pc[v] /\ draft'[v] = draft[v] /\ req'[v] = req[v] /\ answer'[v] = answer[v]
      BY <2>2 DEF Typed, TypeOK, JobTypeOK, Goto
    <3> QED  BY <3>1 DEF Typed, JobOK
  <2> QED  BY <2>1, <2>2
<1> QED  BY <1>1, <1>2

\* A busy worker's job, as its label says.
LEMMA BusyWorker ==
    ASSUME Typed, NEW w \in Workers, pc[w] # "idle"
    PROVE  /\ req[w] \in Requests /\ req[w].key \in Keys
           /\ draft[w] \in Drafts /\ answer[w] \in Answers
           /\ draft = [draft EXCEPT ![w] = draft[w]]
           /\ attempt[w] \in Nat
           /\ pc[w] \in HandlerLabels => IsPost(req[w]) /\ req[w].body \in Bodies
           /\ pc[w] \in CloseLabels => ~IsPost(req[w]) /\ req[w].period \in Periods
<1>1. req[w] \in Requests  BY DEF Typed, JobOK
<1>2. /\ draft[w] \in Drafts /\ answer[w] \in Answers
      /\ draft = [draft EXCEPT ![w] = draft[w]]
      /\ attempt[w] \in Nat
  BY DEF Typed, TypeOK, JobTypeOK
<1> QED  BY <1>1, <1>2, RequestType DEF Typed, JobOK

LEMMA ReceiveTyped ==
    ASSUME Typed, NEW w \in Workers, Receive(w)
    PROVE  Typed'
<1>1. WorldTypeOK'  BY DEF Typed, TypeOK, WorldTypeOK, Receive, world
<1>2. JobTypeOK'  BY DEF Typed, TypeOK, JobTypeOK, WorldTypeOK, Receive, Goto, Labels
<1>3. JobOK'
  BY DEF Typed, TypeOK, JobTypeOK, JobOK, Receive, Goto, HandlerLabels, CloseLabels
<1> QED  BY <1>1, <1>2, <1>3, UnchangedTyped DEF Typed, TypeOK, Receive

LEMMA LookupCacheTyped ==
    ASSUME Typed, NEW w \in Workers, LookupCache(w)
    PROVE  Typed'
<1> DEFINE hit == cache[req[w].key]
<1>1. /\ req[w] \in Requests /\ req[w].key \in Keys /\ draft[w] \in Drafts
      /\ draft = [draft EXCEPT ![w] = draft[w]] /\ draft[w].balances = <<>>
  BY BusyWorker DEF LookupCache, Typed, JobOK
<1>2. JobTypeOK' /\ JobOK'
  <2>1. CASE hit = None
    <3>1. Goto(w, IF IsPost(req[w]) THEN "build" ELSE "order") /\ UNCHANGED <<req, attempt, answer, draft>>
      BY <2>1 DEF LookupCache
    <3> QED  BY <1>1, <3>1, GotoTyped DEF HandlerLabels, CloseLabels, Labels
  <2>2. CASE hit # None
    <3>1. hit.status \in Statuses /\ hit.value \in Results
      BY <1>1, <2>2 DEF Typed, TypeOK, DbTypeOK, Envelopes, Statuses
    <3>2. \E st \in Statuses, value \in Results : Answer(w, st, value)
      BY <2>2, <3>1, ConstantsTyped DEF LookupCache
    <3>3. PICK st \in Statuses, value \in Results : Answer(w, st, value)  BY <3>2
    <3> QED  BY <3>3, AnswerTyped DEF LookupCache
  <2> QED  BY <2>1, <2>2
<1> QED  BY <1>2, UnchangedTyped DEF Typed, TypeOK, LookupCache

LEMMA ReplyTyped ==
    ASSUME Typed, NEW w \in Workers, Reply(w)
    PROVE  Typed'
<1>1. /\ req[w] \in Requests /\ draft[w] \in Drafts /\ answer[w] \in Answers
      /\ draft = [draft EXCEPT ![w] = draft[w]] /\ attempt[w] \in Nat
  BY BusyWorker DEF Reply
<1>2. replies' \subseteq Replies
  BY <1>1 DEF Reply, Typed, TypeOK, Replies, Answers
<1>3. JobTypeOK' /\ JobOK'
  <2>1. CASE answer[w].status \in 200 .. 299 /\ cache[req[w].key] = None
    <3>1. Goto(w, "save") /\ UNCHANGED <<req, attempt, draft, answer>>  BY <2>1 DEF Reply
    <3>2. answer[w].status \in {200, 201}  BY <1>1, <2>1 DEF Statuses, Answers
    <3> QED  BY <1>1, <3>1, <3>2, GotoTyped DEF HandlerLabels, CloseLabels, Labels
  <2>2. CASE ~(answer[w].status \in 200 .. 299 /\ cache[req[w].key] = None)
    BY <2>2, ReleaseTyped DEF Reply
  <2> QED  BY <2>1, <2>2
<1> QED  BY <1>2, <1>3, UnchangedTyped DEF Typed, TypeOK, Reply

LEMMA SaveCacheTyped ==
    ASSUME Typed, NEW w \in Workers, SaveCache(w)
    PROVE  Typed'
<1>1. /\ req[w] \in Requests /\ req[w].key \in Keys
      /\ answer[w].status \in {200, 201} /\ answer[w].value \in Results
  BY BusyWorker DEF SaveCache, Typed, JobOK, Answers
<1>2. [hash |-> Hash(req[w]), status |-> answer[w].status, value |-> answer[w].value] \in Envelopes
  BY <1>1 DEF Envelopes
<1>3. DbTypeOK'  BY <1>1, <1>2 DEF SaveCache, Typed, TypeOK, DbTypeOK
<1> QED  BY <1>3, ReleaseTyped, UnchangedTyped DEF SaveCache, Typed, TypeOK

LEMMA RejectMalformedTyped ==
    ASSUME Typed, NEW w \in Workers, RejectMalformed(w)
    PROVE  Typed'
<1>1. JobTypeOK' /\ JobOK'  BY ConstantsTyped, AnswerTyped DEF RejectMalformed
<1> QED  BY <1>1, UnchangedTyped DEF RejectMalformed, Typed, TypeOK

\* The lines a handler prepares are typed, and there is at least one.
LEMMA PrepareTyped ==
    ASSUME Typed, NEW w \in Workers, pc[w] = "build",
           NEW lines \in Seq(Lines), Len(lines) > 0, Prepare(w, lines),
           UNCHANGED <<req, attempt>>
    PROVE  JobTypeOK' /\ JobOK'
<1> DEFINE d == [draft[w] EXCEPT !.lines = lines]
<1>1. /\ req[w] \in Requests /\ IsPost(req[w]) /\ draft[w] \in Drafts
      /\ draft[w].balances = <<>>
  BY BusyWorker DEF HandlerLabels, Typed, JobOK
<1>2. d \in Drafts /\ d.balances = <<>> /\ d.lines = lines  BY <1>1 DEF Drafts
<1>3. draft' = [draft EXCEPT ![w] = d]  BY DEF Prepare
<1>4. Goto(w, "stamp") /\ UNCHANGED answer  BY DEF Prepare
<1> HIDE DEF d
<1> QED  BY <1>1, <1>2, <1>3, <1>4, GotoTyped DEF Labels, HandlerLabels, CloseLabels

\* The entry a posted key is read back as.
LEMMA FoundEntry ==
    ASSUME NEW key, Posted(key)
    PROVE  FindBySourceEventID(key) \in journal /\ FindBySourceEventID(key).key = key
BY DEF Posted, FindBySourceEventID

LEMMA BuildForwardTyped ==
    ASSUME Typed, NEW w \in Workers, BuildForward(w)
    PROVE  Typed'
<1> DEFINE b == req[w].body
<1>1. b \in Bodies  BY BusyWorker DEF BuildForward, HandlerLabels
<1>2. b.rule \in ForwardRules /\ b.value \in Values
  BY <1>1 DEF BuildForward, Malformed, IsReversal, RuleCodes, Bodies
<1>3. JobTypeOK' /\ JobOK'
  <2>1. CASE CurrenciesAgree(b.rule, b.value)
    <3>1. /\ ForwardLines(b.rule, b.value) \in Seq(Lines)
          /\ Len(ForwardLines(b.rule, b.value)) > 0
      BY <1>2, ForwardLinesType
    <3>2. Prepare(w, ForwardLines(b.rule, b.value))  BY <2>1 DEF BuildForward
    <3> QED  BY <3>1, <3>2, PrepareTyped DEF BuildForward
  <2>2. CASE ~CurrenciesAgree(b.rule, b.value)
    BY <2>2, ConstantsTyped, AnswerTyped DEF BuildForward
  <2> QED  BY <2>1, <2>2
<1> QED  BY <1>3, UnchangedTyped DEF BuildForward, Typed, TypeOK

LEMMA BuildReversalTyped ==
    ASSUME Typed, EntriesBalance, NEW w \in Workers, BuildReversal(w)
    PROVE  Typed'
<1> DEFINE b == req[w].body
           original == FindBySourceEventID(b.target)
           reversible == /\ Posted(b.target)
                         /\ GetPeriod(original.period).status # "Closed"
                         /\ SuppliedTotal(b.rule, b.value) = Wrap(Total(original.lines, "DEBIT"))
<1>1. JobTypeOK' /\ JobOK'
  <2>1. CASE reversible
    <3>1. original \in journal  BY <2>1, FoundEntry
    <3>2. original.lines \in Seq(Lines) /\ Len(original.lines) > 0
      BY <3>1 DEF Typed, TypeOK, DbTypeOK, Entries, EntriesBalance, TriggerAccepts, LinesArePlausible
    <3>3. /\ MirrorForReversal(original.lines) \in Seq(Lines)
          /\ Len(MirrorForReversal(original.lines)) > 0
      BY <3>2, MirrorType
    <3>4. Prepare(w, MirrorForReversal(original.lines))  BY <2>1 DEF BuildReversal
    <3> QED  BY <3>3, <3>4, PrepareTyped DEF BuildReversal
  <2>2. CASE ~reversible
    BY <2>2, ConstantsTyped, AnswerTyped DEF BuildReversal
  <2> QED  BY <2>1, <2>2
<1> QED  BY <1>1, UnchangedTyped DEF BuildReversal, Typed, TypeOK

LEMMA StampTyped ==
    ASSUME Typed, NEW w \in Workers, Stamp(w)
    PROVE  Typed'
<1> DEFINE d1 == [draft[w] EXCEPT !.postedAt = clock]
           d2 == [d1 EXCEPT !.period = month]
<1>1. month \in Periods /\ month \in Nat /\ clock \in Nat
  BY ConstantsTyped DEF Typed, TypeOK, WorldTypeOK
<1>2. /\ req[w] \in Requests /\ IsPost(req[w]) /\ draft[w] \in Drafts
      /\ draft[w].balances = <<>> /\ Len(draft[w].lines) > 0
  BY BusyWorker DEF HandlerLabels, Typed, JobOK, Stamp
<1>3. /\ d1 \in Drafts
      /\ d1.balances = draft[w].balances /\ d1.lines = draft[w].lines
  BY <1>1, <1>2 DEF Drafts
<1>4. draft' = [draft EXCEPT ![w] = d2]  BY DEF Stamp
<1> HIDE DEF d1
<1>5. /\ d2 \in Drafts
      /\ d2.balances = d1.balances /\ d2.lines = d1.lines /\ d2.period = month
  BY <1>1, <1>3 DEF Drafts
<1> HIDE DEF d2
<1>6. Goto(w, "period") /\ UNCHANGED <<req, attempt, answer>>  BY DEF Stamp
<1>7. JobTypeOK' /\ JobOK'
  BY <1>1, <1>2, <1>3, <1>4, <1>5, <1>6, GotoTyped DEF Labels, HandlerLabels, CloseLabels
<1>8. WorldTypeOK'  BY DEF Stamp, Typed, TypeOK, WorldTypeOK, budget
<1> QED  BY <1>7, <1>8, UnchangedTyped DEF Stamp, Typed, TypeOK

LEMMA CheckPeriodTyped ==
    ASSUME Typed, NEW w \in Workers, CheckPeriod(w)
    PROVE  Typed'
<1>1. /\ req[w] \in Requests /\ IsPost(req[w]) /\ draft[w] \in Drafts
      /\ draft = [draft EXCEPT ![w] = draft[w]]
      /\ draft[w].balances = <<>> /\ Len(draft[w].lines) > 0 /\ draft[w].period \in Periods
  BY BusyWorker DEF HandlerLabels, Typed, JobOK, CheckPeriod
<1>2. JobTypeOK' /\ JobOK'
  <2>1. CASE PeriodAccepts(req[w].body, draft[w].period)
    <3>1. Goto(w, "balance") /\ UNCHANGED <<req, attempt, draft, answer>>
      BY <2>1 DEF CheckPeriod
    <3>2. Len(draft[w].balances) < Len(draft[w].lines)  BY <1>1, EmptySeq
    <3> QED  BY <1>1, <3>1, <3>2, GotoTyped DEF Labels, HandlerLabels, CloseLabels
  <2>2. CASE ~PeriodAccepts(req[w].body, draft[w].period)
    BY <2>2, ConstantsTyped, AnswerTyped DEF CheckPeriod
  <2> QED  BY <2>1, <2>2
<1> QED  BY <1>2, UnchangedTyped DEF CheckPeriod, Typed, TypeOK

\* A posted line's running balance is a number.
LEMMA LatestBalanceIsInt ==
    ASSUME Typed, EveryLineHasABalance, NEW acct, NEW gl
    PROVE  GetLatestRunningBalance(acct, gl) \in Int
<1> DEFINE rows == LinesOf(acct, gl)
           last == {a \in rows : \A b \in rows : Later(a, b)}
<1>1. ASSUME NEW a \in rows
      PROVE  BalanceAt(a) \in Int
  <2>1. a \in journal \X (1 .. 4) /\ a[2] \in DOMAIN a[1].lines  BY <1>1 DEF LinesOf
  <2>2. a[1] \in journal /\ a[2] \in DOMAIN a[1].lines  BY <2>1
  <2>3. /\ a[1].lines \in Seq(Lines) /\ a[1].balances \in Seq(Int)
        /\ Len(a[1].balances) = Len(a[1].lines)
    BY <2>2 DEF EveryLineHasABalance, Typed, TypeOK, DbTypeOK, Entries
  <2>4. a[2] \in 1 .. Len(a[1].balances)  BY <2>2, <2>3, LenProperties
  <2>5. a[1].balances[a[2]] \in Int  BY <2>3, <2>4, ElementOfSeq
  <2> QED  BY <2>5 DEF BalanceAt
<1>2. CASE last = {}
  BY <1>2 DEF GetLatestRunningBalance
<1>3. CASE last # {}
  <2>1. (CHOOSE a \in last : TRUE) \in last  BY <1>3
  <2>2. BalanceAt(CHOOSE a \in last : TRUE) \in Int  BY <1>1, <2>1
  <2>3. GetLatestRunningBalance(acct, gl) = BalanceAt(CHOOSE a \in last : TRUE)
    BY <1>3 DEF GetLatestRunningBalance
  <2> QED  BY <2>2, <2>3
<1> QED  BY <1>2, <1>3

LEMMA ReadBalanceTyped ==
    ASSUME Typed, EveryLineHasABalance, NEW w \in Workers, ReadBalance(w)
    PROVE  Typed'
<1> DEFINE i == Len(draft[w].balances) + 1
           l == draft[w].lines[i]
           mine == {j \in DOMAIN draft[w].balances : draft[w].lines[j].account = l.account}
           last == {j \in mine : \A k \in mine : k <= j}
           before == IF last = {} THEN GetLatestRunningBalance(req[w].body.acct, l.account)
                     ELSE draft[w].balances[CHOOSE j \in last : TRUE]
           after == Wrap(IF l.direction = "DEBIT" THEN before + l.amount ELSE before - l.amount)
           d == [draft[w] EXCEPT !.balances = Append(@, after)]
           label == IF i = Len(draft[w].lines) THEN "commit" ELSE "balance"
<1>1. /\ req[w] \in Requests /\ IsPost(req[w]) /\ draft[w] \in Drafts
      /\ draft[w].period \in Periods
      /\ Len(draft[w].balances) < Len(draft[w].lines)
  BY BusyWorker DEF HandlerLabels, Typed, JobOK, ReadBalance
<1>2. draft[w].lines \in Seq(Lines) /\ draft[w].balances \in Seq(Int)  BY <1>1 DEF Drafts
<1>3. i \in 1 .. Len(draft[w].lines)  BY <1>1, <1>2, LenProperties
<1>4. l.amount \in Int
  <2>1. l \in Lines  BY <1>2, <1>3, ElementOfSeq
  <2> QED  BY <2>1 DEF Lines
<1>5. before \in Int
  <2>1. CASE last = {}  BY <2>1, LatestBalanceIsInt
  <2>2. CASE last # {}
    <3>1. (CHOOSE j \in last : TRUE) \in last  BY <2>2
    <3>2. (CHOOSE j \in last : TRUE) \in DOMAIN draft[w].balances  BY <3>1
    <3>3. ASSUME NEW j \in DOMAIN draft[w].balances
          PROVE  draft[w].balances[j] \in Int
      <4>1. j \in 1 .. Len(draft[w].balances)  BY <1>2, LenProperties
      <4> QED  BY <1>2, <4>1, ElementOfSeq
    <3> QED  BY <2>2, <3>2, <3>3
  <2> QED  BY <2>1, <2>2
<1>6. draft' = [draft EXCEPT ![w].balances = Append(@, after)] /\ UNCHANGED <<req, attempt, answer>>
  BY DEF ReadBalance
<1>7. IF i = Len(draft[w].lines) THEN Goto(w, "commit") ELSE UNCHANGED pc
  BY DEF ReadBalance
<1>8. pc[w] = "balance" /\ pc \in [Workers -> Labels]
  BY DEF ReadBalance, Typed, TypeOK, JobTypeOK
<1> HIDE DEF l, before, mine, last
<1>9. after \in Int
  <2>1. (IF l.direction = "DEBIT" THEN before + l.amount ELSE before - l.amount) \in Int
    BY <1>4, <1>5
  <2> QED  BY <2>1, WrapIsInt64, MaxIntAssumption DEF Int64
<1>10. draft' = [draft EXCEPT ![w] = d]  BY <1>6
<1> HIDE DEF after
<1>11. /\ d \in Drafts /\ d.lines = draft[w].lines /\ d.period = draft[w].period
       /\ d.balances = Append(draft[w].balances, after)
  BY <1>1, <1>2, <1>9, AppendProperties DEF Drafts
<1>12. Len(d.balances) = i  BY <1>2, <1>9, <1>11, AppendProperties
<1> HIDE DEF d
<1>13. Goto(w, label)  BY <1>7, <1>8 DEF Goto
<1>14. label = "balance" => Len(d.balances) < Len(d.lines)
  BY <1>3, <1>11, <1>12
<1>15. label = "commit" => Len(d.balances) = Len(d.lines)
  BY <1>11, <1>12
<1>16. label \in {"balance", "commit"}  OBVIOUS
<1> HIDE DEF label
<1>17. JobTypeOK' /\ JobOK'
  <2>1. label \in Labels /\ label \in HandlerLabels /\ label \notin CloseLabels
    BY <1>16 DEF Labels, HandlerLabels, CloseLabels
  <2> QED  BY <1>1, <1>6, <1>10, <1>11, <1>13, <1>14, <1>15, <1>16, <2>1, GotoTyped
<1> QED  BY <1>17, UnchangedTyped DEF ReadBalance, Typed, TypeOK

LEMMA RejectEntryTyped ==
    ASSUME Typed, NEW w \in Workers, RejectEntry(w)
    PROVE  Typed'
<1>1. JobTypeOK' /\ JobOK'  BY ConstantsTyped, AnswerTyped DEF RejectEntry
<1> QED  BY <1>1, UnchangedTyped DEF RejectEntry, Typed, TypeOK

LEMMA ReturnWinnerTyped ==
    ASSUME Typed, NEW w \in Workers, ReturnWinner(w)
    PROVE  Typed'
<1>1. FindBySourceEventID(req[w].key) \in Results
  BY FoundEntry DEF ReturnWinner, SourceEventIsFree, Typed, TypeOK, DbTypeOK, Results
<1>2. JobTypeOK' /\ JobOK'  BY <1>1, ConstantsTyped, AnswerTyped DEF ReturnWinner
<1> QED  BY <1>2, UnchangedTyped DEF ReturnWinner, Typed, TypeOK

\* The entry a worker is about to commit is well formed.
LEMMA EntryType ==
    ASSUME Typed, NEW w \in Workers, pc[w] = "commit"
    PROVE  /\ Entry(w) \in Entries /\ Entry(w).key = req[w].key
           /\ Entry(w).lines = draft[w].lines
           /\ Entry(w).postedAt = draft[w].postedAt
           /\ Entry(w).rule = req[w].body.rule /\ Entry(w).reverses = req[w].body.target
           /\ Len(Entry(w).balances) = Len(Entry(w).lines)
<1>1. /\ req[w].key \in Keys /\ req[w].body \in Bodies /\ draft[w] \in Drafts
      /\ attempt[w] \in Nat
      /\ draft[w].period \in Periods /\ Len(draft[w].balances) = Len(draft[w].lines)
  BY BusyWorker DEF HandlerLabels, Typed, JobOK
<1>2. Entry(w) \in Entries  BY <1>1 DEF Entry, Entries, Bodies, Drafts
<1> QED  BY <1>1, <1>2 DEF Entry

LEMMA InsertTyped ==
    ASSUME Typed, NEW w \in Workers, pc[w] = "commit", Insert(w)
    PROVE  DbTypeOK'
<1> DEFINE event == [topic |-> "gl.entry.posted", about |-> Entry(w)]
<1>1. Entry(w) \in Entries  BY EntryType
<1>2. event \in Events  BY <1>1 DEF Events
<1>3. /\ journal' = journal \cup {Entry(w)} /\ outbox' = outbox \cup {event}
      /\ UNCHANGED <<periods, cache>>
  BY DEF Insert
<1> HIDE DEF event
<1> QED  BY <1>1, <1>2, <1>3 DEF Typed, TypeOK, DbTypeOK

LEMMA CommitEntryTyped ==
    ASSUME Typed, NEW w \in Workers, CommitEntry(w)
    PROVE  Typed'
<1>1. Entry(w) \in Results  BY EntryType DEF CommitEntry, Results
<1>2. JobTypeOK' /\ JobOK'  BY <1>1, ConstantsTyped, AnswerTyped DEF CommitEntry
<1> QED  BY <1>2, InsertTyped, UnchangedTyped DEF CommitEntry, Typed, TypeOK

LEMMA CheckOrderTyped ==
    ASSUME Typed, NEW w \in Workers, CheckOrder(w)
    PROVE  Typed'
<1>1. /\ req[w] \in Requests /\ ~IsPost(req[w]) /\ draft[w] \in Drafts
      /\ draft = [draft EXCEPT ![w] = draft[w]]
  BY BusyWorker DEF CloseLabels, CheckOrder
<1>2. JobTypeOK' /\ JobOK'
  <2>1. CASE OpenBefore(req[w].period) = {}
    <3>1. Goto(w, "row") /\ UNCHANGED <<req, attempt, draft, answer>>  BY <2>1 DEF CheckOrder
    <3> QED  BY <1>1, <3>1, GotoTyped DEF Labels, HandlerLabels, CloseLabels
  <2>2. CASE OpenBefore(req[w].period) # {}
    BY <2>2, ConstantsTyped, AnswerTyped DEF CheckOrder
  <2> QED  BY <2>1, <2>2
<1> QED  BY <1>2, UnchangedTyped DEF CheckOrder, Typed, TypeOK

LEMMA ReadPeriodTyped ==
    ASSUME Typed, NEW w \in Workers, ReadPeriod(w)
    PROVE  Typed'
<1> DEFINE p == req[w].period
           d == [draft[w] EXCEPT !.postedAt = clock]
<1>1. /\ req[w] \in Requests /\ ~IsPost(req[w]) /\ p \in Periods /\ draft[w] \in Drafts
  BY BusyWorker DEF CloseLabels, ReadPeriod
<1>2. clock \in Nat  BY DEF Typed, TypeOK, WorldTypeOK
<1>3. JobTypeOK' /\ JobOK'
  <2>1. CASE GetPeriod(p).status = "Closed"
    <3>1. GetPeriod(p) \in Rows  BY <1>1 DEF GetPeriod, Typed, TypeOK, DbTypeOK
    <3>2. ClosedRow(p, GetPeriod(p)) \in Results
      BY <1>1, <3>1 DEF ClosedRow, ClosedRows, Results
    <3>3. Answer(w, 200, ClosedRow(p, GetPeriod(p))) /\ UNCHANGED draft
      BY <2>1 DEF ReadPeriod
    <3> QED  BY <3>2, <3>3, ConstantsTyped, AnswerTyped DEF ReadPeriod
  <2>2. CASE GetPeriod(p).status # "Closed"
    <3>1. d \in Drafts  BY <1>1, <1>2 DEF Drafts
    <3>2. draft' = [draft EXCEPT ![w] = d] /\ Goto(w, "close") /\ UNCHANGED <<req, attempt, answer>>
      BY <2>2 DEF ReadPeriod
    <3> HIDE DEF d
    <3> QED  BY <1>1, <3>1, <3>2, GotoTyped DEF Labels, HandlerLabels, CloseLabels
  <2> QED  BY <2>1, <2>2
<1>4. WorldTypeOK'  BY <1>2 DEF ReadPeriod, Typed, TypeOK, WorldTypeOK, budget
<1> QED  BY <1>3, <1>4, UnchangedTyped DEF ReadPeriod, Typed, TypeOK

LEMMA UpsertTyped ==
    ASSUME Typed, NEW w \in Workers, pc[w] = "close", Upsert(w)
    PROVE  DbTypeOK' /\ ClosedRow(req[w].period, periods'[req[w].period]) \in Results
<1> DEFINE p == req[w].period
           row == [status |-> "Closed", closedAt |-> draft[w].postedAt, closedBy |-> req[w].closedBy]
           event == [topic |-> "gl.period.closed", about |-> ClosedRow(p, row)]
<1>1. req[w] \in Requests /\ ~IsPost(req[w]) /\ p \in Periods /\ draft[w] \in Drafts
  BY BusyWorker DEF CloseLabels
<1>2. row \in Rows
  <2>1. draft[w].postedAt \in Nat /\ req[w].closedBy \in STRING
    BY <1>1, RequestType DEF Drafts
  <2> QED  BY <2>1 DEF Rows
<1>3. /\ periods' = [periods EXCEPT ![p] = row] /\ outbox' = outbox \cup {event}
      /\ UNCHANGED <<journal, cache>>
  BY DEF Upsert
<1> HIDE DEF row
<1>4. ClosedRow(p, row) \in ClosedRows  BY <1>1, <1>2 DEF ClosedRow, ClosedRows
<1>5. event \in Events  BY <1>4 DEF Events
<1> HIDE DEF event
<1>6. DbTypeOK'  BY <1>1, <1>2, <1>3, <1>5 DEF Typed, TypeOK, DbTypeOK
<1>7. periods'[p] = row  BY <1>1, <1>3 DEF Typed, TypeOK, DbTypeOK
<1> QED  BY <1>4, <1>6, <1>7 DEF Results

LEMMA CommitCloseTyped ==
    ASSUME Typed, NEW w \in Workers, CommitClose(w)
    PROVE  Typed'
<1>1. DbTypeOK' /\ ClosedRow(req[w].period, periods'[req[w].period]) \in Results
  BY UpsertTyped DEF CommitClose
<1>2. JobTypeOK' /\ JobOK'  BY <1>1, ConstantsTyped, AnswerTyped DEF CommitClose
<1> QED  BY <1>1, <1>2, UnchangedTyped DEF CommitClose, Typed, TypeOK

LEMMA FaultStatusTyped ==
    ASSUME NEW w
    PROVE  FaultStatus(w) \in {400, 500} /\ FaultStatus(w) \in Statuses
BY DEF FaultStatus, Statuses

LEMMA StatementFailsTyped ==
    ASSUME Typed, NEW w \in Workers, StatementFails(w)
    PROVE  Typed'
<1>1. pc[w] # "idle"  BY DEF StatementFails, UsesDatabase
<1>2. JobTypeOK' /\ JobOK'
  BY <1>1, ConstantsTyped, FaultStatusTyped, AnswerTyped DEF StatementFails
<1>3. WorldTypeOK'  BY DEF StatementFails, Typed, TypeOK, WorldTypeOK, world
<1> QED  BY <1>2, <1>3, UnchangedTyped DEF StatementFails, Typed, TypeOK

LEMMA CommitReplyLostTyped ==
    ASSUME Typed, NEW w \in Workers, CommitReplyLost(w)
    PROVE  Typed'
<1>1. pc[w] \in {"commit", "close"}  BY DEF CommitReplyLost
<1>2. JobTypeOK' /\ JobOK'
  BY <1>1, ConstantsTyped, FaultStatusTyped, AnswerTyped DEF CommitReplyLost
<1>3. WorldTypeOK'  BY DEF CommitReplyLost, Typed, TypeOK, WorldTypeOK, world
<1>4. DbTypeOK'  BY InsertTyped, UpsertTyped DEF CommitReplyLost
<1> QED  BY <1>2, <1>3, <1>4, UnchangedTyped DEF CommitReplyLost, Typed, TypeOK

LEMMA SaveFailsTyped ==
    ASSUME Typed, NEW w \in Workers, SaveFails(w)
    PROVE  Typed'
<1>1. WorldTypeOK'  BY DEF SaveFails, Typed, TypeOK, WorldTypeOK, world
<1> QED  BY <1>1, ReleaseTyped, UnchangedTyped DEF SaveFails, Typed, TypeOK

LEMMA CrashTyped ==
    ASSUME Typed, NEW w \in Workers, Crash(w)
    PROVE  Typed'
<1>1. WorldTypeOK'  BY DEF Crash, Typed, TypeOK, WorldTypeOK, world
<1> QED  BY <1>1, ReleaseTyped, UnchangedTyped DEF Crash, Typed, TypeOK

LEMMA NextMonthTyped ==
    ASSUME Typed, NextMonth
    PROVE  Typed'
<1>1. WorldTypeOK'
  <2>1. month + 1 \in Periods
    BY ConstantsAssumption DEF NextMonth, Typed, TypeOK, WorldTypeOK, Periods
  <2> QED  BY <2>1 DEF NextMonth, Typed, TypeOK, WorldTypeOK, budget
<1>2. JobTypeOK' /\ JobOK'
  BY DEF NextMonth, Typed, TypeOK, JobTypeOK, JobOK, job, HandlerLabels, CloseLabels, IsPost
<1> QED  BY <1>1, <1>2, UnchangedTyped DEF NextMonth, Typed, TypeOK

\* Every step keeps the types and the jobs.
LEMMA NextTyped ==
    ASSUME Typed, EntriesBalance, EveryLineHasABalance, [Next]_vars
    PROVE  Typed'
<1>1. CASE NextMonth  BY <1>1, NextMonthTyped
<1>2. ASSUME NEW w \in Workers, Step(w)
      PROVE  Typed'
  <2>1. CASE Receive(w)          BY <2>1, ReceiveTyped
  <2>2. CASE LookupCache(w)      BY <2>2, LookupCacheTyped
  <2>3. CASE Reply(w)            BY <2>3, ReplyTyped
  <2>4. CASE SaveCache(w)        BY <2>4, SaveCacheTyped
  <2>5. CASE RejectMalformed(w)  BY <2>5, RejectMalformedTyped
  <2>6. CASE BuildForward(w)     BY <2>6, BuildForwardTyped
  <2>7. CASE BuildReversal(w)    BY <2>7, BuildReversalTyped
  <2>8. CASE Stamp(w)            BY <2>8, StampTyped
  <2>9. CASE CheckPeriod(w)      BY <2>9, CheckPeriodTyped
  <2>10. CASE ReadBalance(w)     BY <2>10, ReadBalanceTyped
  <2>11. CASE RejectEntry(w)     BY <2>11, RejectEntryTyped
  <2>12. CASE ReturnWinner(w)    BY <2>12, ReturnWinnerTyped
  <2>13. CASE CommitEntry(w)     BY <2>13, CommitEntryTyped
  <2>14. CASE CheckOrder(w)      BY <2>14, CheckOrderTyped
  <2>15. CASE ReadPeriod(w)      BY <2>15, ReadPeriodTyped
  <2>16. CASE CommitClose(w)     BY <2>16, CommitCloseTyped
  <2>17. CASE StatementFails(w)  BY <2>17, StatementFailsTyped
  <2>18. CASE CommitReplyLost(w) BY <2>18, CommitReplyLostTyped
  <2>19. CASE SaveFails(w)       BY <2>19, SaveFailsTyped
  <2>20. CASE Crash(w)           BY <2>20, CrashTyped
  <2> QED  BY <1>2, <2>1, <2>2, <2>3, <2>4, <2>5, <2>6, <2>7, <2>8, <2>9, <2>10, <2>11,
              <2>12, <2>13, <2>14, <2>15, <2>16, <2>17, <2>18, <2>19, <2>20 DEF Step
<1>3. CASE UNCHANGED vars
  BY <1>3 DEF vars, db, world, budget, job, Typed, TypeOK, DbTypeOK, WorldTypeOK, JobTypeOK,
              JobOK, HandlerLabels, CloseLabels, IsPost
<1> QED  BY <1>1, <1>2, <1>3 DEF Next
-----------------------------------------------------------------------------
(* Part 2.  The ledger's own invariants.                                   *)

PreparingLabels == {"stamp", "period", "balance", "commit"}

\* A step of worker w touches no other worker's job.
LEMMA OthersWait ==
    ASSUME Typed, NEW w \in Workers, NEW v \in Workers, v # w, Step(w)
    PROVE  /\ pc'[v] = pc[v] /\ req'[v] = req[v] /\ attempt'[v] = attempt[v]
           /\ draft'[v] = draft[v] /\ answer'[v] = answer[v]
<1> USE DEF Goto, Answer, Release
<1>1. /\ pc \in [Workers -> Labels] /\ req \in [Workers -> Requests \cup {None}]
      /\ draft \in [Workers -> Drafts] /\ answer \in [Workers -> Answers]
      /\ attempt \in [Workers -> Nat]
  BY DEF Typed, TypeOK, JobTypeOK
<1>2. CASE Receive(w) \/ LookupCache(w) \/ Reply(w) \/ SaveCache(w)
  BY <1>1, <1>2 DEF Receive, LookupCache, Reply, SaveCache
<1>3. CASE RejectMalformed(w) \/ BuildForward(w) \/ BuildReversal(w)
  BY <1>1, <1>3 DEF RejectMalformed, BuildForward, BuildReversal, Prepare
<1>4. CASE Stamp(w) \/ CheckPeriod(w)
  BY <1>1, <1>4 DEF Stamp, CheckPeriod
<1>5. CASE ReadBalance(w)
  BY <1>1, <1>5 DEF ReadBalance
<1>6. CASE RejectEntry(w) \/ ReturnWinner(w) \/ CommitEntry(w)
  BY <1>1, <1>6 DEF RejectEntry, ReturnWinner, CommitEntry
<1>7. CASE CheckOrder(w) \/ ReadPeriod(w) \/ CommitClose(w)
  BY <1>1, <1>7 DEF CheckOrder, ReadPeriod, CommitClose
<1>8. CASE StatementFails(w) \/ CommitReplyLost(w)
  BY <1>1, <1>8 DEF StatementFails, CommitReplyLost
<1>9. CASE SaveFails(w) \/ Crash(w)
  BY <1>1, <1>9 DEF SaveFails, Crash
<1> QED  BY <1>2, <1>3, <1>4, <1>5, <1>6, <1>7, <1>8, <1>9 DEF Step

\* Only the posting transaction writes the journal.
LEMMA OnlyInsertPosts ==
    ASSUME NEW w \in Workers, Step(w)
    PROVE  \/ journal' = journal
           \/ pc[w] = "commit" /\ Insert(w) /\ clock' = clock
BY DEF Step, Receive, LookupCache, Reply, SaveCache, RejectMalformed, BuildForward,
       BuildReversal, Stamp, CheckPeriod, ReadBalance, RejectEntry, ReturnWinner, CommitEntry,
       CheckOrder, ReadPeriod, CommitClose, StatementFails, CommitReplyLost, SaveFails, Crash,
       Upsert, db, world

\* Time does not go back, only the middleware's save writes the cache, and
\* only a reply reaches a client.
LEMMA StepFrame ==
    ASSUME NEW w \in Workers, Step(w)
    PROVE  /\ clock' = clock \/ clock' = clock + 1
           /\ cache' = cache \/ SaveCache(w)
           /\ replies' = replies \/ Reply(w)
<1>1. CASE Receive(w) \/ LookupCache(w) \/ Reply(w) \/ SaveCache(w)
  BY <1>1 DEF Receive, LookupCache, Reply, SaveCache, db, world
<1>2. CASE RejectMalformed(w) \/ BuildForward(w) \/ BuildReversal(w) \/ Stamp(w)
              \/ CheckPeriod(w) \/ ReadBalance(w)
  BY <1>2 DEF RejectMalformed, BuildForward, BuildReversal, Stamp, CheckPeriod, ReadBalance,
              db, world
<1>3. CASE RejectEntry(w) \/ ReturnWinner(w) \/ CommitEntry(w) \/ CheckOrder(w)
              \/ ReadPeriod(w) \/ CommitClose(w)
  BY <1>3 DEF RejectEntry, ReturnWinner, CommitEntry, Insert, CheckOrder, ReadPeriod,
              CommitClose, Upsert, db, world
<1>4. CASE StatementFails(w) \/ CommitReplyLost(w) \/ SaveFails(w) \/ Crash(w)
  BY <1>4 DEF StatementFails, CommitReplyLost, Insert, Upsert, SaveFails, Crash, db, world
<1> QED  BY <1>1, <1>2, <1>3, <1>4 DEF Step

\* Which actions leave an entry in preparation.
LEMMA StepPrepares ==
    ASSUME Typed, NEW w \in Workers, Step(w), pc'[w] \in PreparingLabels
    PROVE  BuildForward(w) \/ BuildReversal(w) \/ Stamp(w) \/ CheckPeriod(w) \/ ReadBalance(w)
<1> USE DEF PreparingLabels, Goto, Answer, Release
<1>1. pc \in [Workers -> Labels]  BY DEF Typed, TypeOK, JobTypeOK
<1>2. ~Receive(w) /\ ~LookupCache(w) /\ ~Reply(w) /\ ~SaveCache(w)
  BY <1>1 DEF Receive, LookupCache, Reply, SaveCache
<1>3. ~RejectMalformed(w) /\ ~RejectEntry(w) /\ ~ReturnWinner(w) /\ ~CommitEntry(w)
  BY <1>1 DEF RejectMalformed, RejectEntry, ReturnWinner, CommitEntry
<1>4. ~CheckOrder(w) /\ ~ReadPeriod(w) /\ ~CommitClose(w)
  BY <1>1 DEF CheckOrder, ReadPeriod, CommitClose
<1>5. ~StatementFails(w) /\ ~CommitReplyLost(w) /\ ~SaveFails(w) /\ ~Crash(w)
  BY <1>1 DEF StatementFails, CommitReplyLost, SaveFails, Crash
<1> QED  BY <1>2, <1>3, <1>4, <1>5 DEF Step

\* Which actions leave a 201 in a worker's hand.
LEMMA StepAnswers201 ==
    ASSUME Typed, NEW w \in Workers, Step(w),
           pc'[w] \in {"reply", "save"}, answer'[w].status = 201
    PROVE  LookupCache(w) \/ Reply(w) \/ ReturnWinner(w) \/ CommitEntry(w)
<1> USE DEF Goto, Answer, Release
<1>1. pc \in [Workers -> Labels] /\ answer \in [Workers -> Answers]
  BY DEF Typed, TypeOK, JobTypeOK
<1>2. ~Receive(w) /\ ~SaveCache(w) /\ ~SaveFails(w) /\ ~Crash(w)
  BY <1>1 DEF Receive, SaveCache, SaveFails, Crash
<1>3. ~RejectMalformed(w) /\ ~RejectEntry(w)
  BY <1>1 DEF RejectMalformed, RejectEntry
<1>4. ~BuildForward(w) /\ ~BuildReversal(w)
  BY <1>1 DEF BuildForward, BuildReversal, Prepare
<1>5. ~Stamp(w) /\ ~CheckPeriod(w)
  BY <1>1 DEF Stamp, CheckPeriod
<1>6. ~ReadBalance(w)
  <2>1. ReadBalance(w) => pc[w] = "balance" /\ (Goto(w, "commit") \/ UNCHANGED pc)
    BY DEF ReadBalance
  <2> QED  BY <1>1, <2>1
<1>7. ~CheckOrder(w) /\ ~ReadPeriod(w) /\ ~CommitClose(w)
  BY <1>1 DEF CheckOrder, ReadPeriod, CommitClose
<1>8. ~StatementFails(w) /\ ~CommitReplyLost(w)
  BY <1>1, FaultStatusTyped DEF StatementFails, CommitReplyLost
<1> QED  BY <1>2, <1>3, <1>4, <1>5, <1>6, <1>7, <1>8 DEF Step

\* The UNIQUE constraint keeps one entry per source event.
LEMMA InsertKeepsOneEntry ==
    ASSUME IInv, NEW w \in Workers, pc[w] = "commit", Insert(w)
    PROVE  OneEntryPerSourceEvent'
<1>1. /\ journal' = journal \cup {Entry(w)} /\ Entry(w).key = req[w].key
      /\ \A e \in journal : e.key # req[w].key
  BY EntryType DEF IInv, Typed, Insert, SourceEventIsFree, Posted
<1> QED  BY <1>1 DEF IInv, OneEntryPerSourceEvent

LEMMA InsertKeepsEntries ==
    ASSUME IInv, NEW w \in Workers, pc[w] = "commit", Insert(w), clock' = clock
    PROVE  /\ EntriesBalance' /\ EveryLineHasABalance'
           /\ \A e \in journal' : e.postedAt < clock'
<1>1. /\ journal' = journal \cup {Entry(w)}
      /\ Entry(w).lines = draft[w].lines /\ Entry(w).postedAt = draft[w].postedAt
      /\ Len(Entry(w).balances) = Len(Entry(w).lines)
  BY EntryType DEF IInv, Typed, Insert
<1>2. EntriesBalance'  BY <1>1 DEF IInv, EntriesBalance, Insert
<1>3. EveryLineHasABalance'  BY <1>1 DEF IInv, EveryLineHasABalance
<1>4. \A e \in journal' : e.postedAt < clock'  BY <1>1 DEF IInv, PostedInThePast
<1> QED  BY <1>2, <1>3, <1>4

\* The entry of a reversal mirrors the target its draft was built from.
LEMMA InsertKeepsReversals ==
    ASSUME IInv, NEW w \in Workers, pc[w] = "commit", Insert(w)
    PROVE  ReversalsMirror'
<1>1. /\ journal' = journal \cup {Entry(w)}
      /\ Entry(w).rule = req[w].body.rule /\ Entry(w).reverses = req[w].body.target
      /\ Entry(w).lines = draft[w].lines /\ Entry(w).postedAt = draft[w].postedAt
  BY EntryType DEF IInv, Typed, Insert
<1>2. ASSUME Entry(w).rule \in ReversalRules
      PROVE  \E o \in journal : /\ o.key = Entry(w).reverses /\ o.postedAt < Entry(w).postedAt
                                /\ Entry(w).lines = MirrorForReversal(o.lines)
  <2>1. /\ Mirrors(draft[w].lines, req[w].body.target)
        /\ \A o \in journal : o.key = req[w].body.target => o.postedAt < draft[w].postedAt
    BY <1>1, <1>2 DEF IInv, ReversalDrafts, IsReversal
  <2> QED  BY <1>1, <2>1 DEF Mirrors
<1> QED  BY <1>1, <1>2 DEF IInv, ReversalsMirror

\* The journal's own invariants survive every step of a worker.
LEMMA StepKeepsJournal ==
    ASSUME IInv, NEW w \in Workers, Step(w)
    PROVE  /\ OneEntryPerSourceEvent' /\ EntriesBalance' /\ EveryLineHasABalance'
           /\ ReversalsMirror' /\ \A e \in journal' : e.postedAt < clock'
<1>1. CASE journal' = journal
  <2>1. \A e \in journal' : e.postedAt < clock'
    <3>1. clock' = clock \/ clock' = clock + 1  BY StepFrame
    <3>2. clock \in Nat /\ \A e \in journal : e.postedAt \in Nat
      BY DEF IInv, TypeOK, WorldTypeOK, DbTypeOK, Entries
    <3> QED  BY <1>1, <3>1, <3>2 DEF IInv, PostedInThePast
  <2> QED
    BY <1>1, <2>1 DEF IInv, OneEntryPerSourceEvent, EntriesBalance, EveryLineHasABalance,
                     ReversalsMirror
<1>2. CASE pc[w] = "commit" /\ Insert(w) /\ clock' = clock
  BY <1>2, InsertKeepsOneEntry, InsertKeepsEntries, InsertKeepsReversals
<1> QED  BY <1>1, <1>2, OnlyInsertPosts

\* An entry once in the journal stays there.
LEMMA JournalGrows ==
    ASSUME NEW w \in Workers, Step(w)
    PROVE  journal \subseteq journal'
BY OnlyInsertPosts DEF Insert

\* A stamp is taken from the clock and the clock moves on.
LEMMA StepKeepsStamps ==
    ASSUME IInv, NEW w \in Workers, Step(w)
    PROVE  PostedInThePast'
<1>1. \A e \in journal' : e.postedAt < clock'  BY StepKeepsJournal
<1>2. ASSUME NEW v \in Workers, pc'[v] \in {"period", "balance", "commit"}
      PROVE  draft'[v].postedAt < clock'
  <2>1. /\ clock' = clock \/ clock' = clock + 1
        /\ clock \in Nat /\ draft[v].postedAt \in Nat
    BY StepFrame DEF IInv, TypeOK, WorldTypeOK, JobTypeOK, Drafts
  <2>2. CASE v # w
    <3>1. pc'[v] = pc[v] /\ draft'[v] = draft[v]
      BY <2>2, OthersWait DEF IInv, Typed
    <3> QED  BY <1>2, <2>1, <3>1 DEF IInv, PostedInThePast
  <2>3. CASE v = w
    <3>1. pc \in [Workers -> Labels] /\ draft \in [Workers -> Drafts]
      BY DEF IInv, TypeOK, JobTypeOK
    <3>2. BuildForward(w) \/ BuildReversal(w) \/ Stamp(w) \/ CheckPeriod(w) \/ ReadBalance(w)
      BY <1>2, <2>3, StepPrepares DEF IInv, Typed, PreparingLabels
    <3>3. ~BuildForward(w) /\ ~BuildReversal(w)
      BY <1>2, <2>3, <3>1 DEF BuildForward, BuildReversal, Prepare, Goto, Answer
    <3>4. CASE Stamp(w)
      <4>1. draft'[w].postedAt = clock /\ clock' = clock + 1  BY <3>1, <3>4 DEF Stamp, Drafts
      <4> QED  BY <2>1, <2>3, <4>1
    <3>5. CASE CheckPeriod(w)
      <4>1. draft' = draft /\ pc[w] = "period"  BY <3>5 DEF CheckPeriod
      <4> QED  BY <2>1, <2>3, <4>1 DEF IInv, PostedInThePast
    <3>6. CASE ReadBalance(w)
      <4>1. draft'[w].postedAt = draft[w].postedAt /\ pc[w] = "balance"
        BY <3>1, <3>6 DEF ReadBalance, Drafts
      <4> QED  BY <2>1, <2>3, <4>1 DEF IInv, PostedInThePast
    <3> QED  BY <3>2, <3>3, <3>4, <3>5, <3>6
  <2> QED  BY <2>2, <2>3
<1> QED  BY <1>1, <1>2 DEF PostedInThePast

\* What a worker's draft says of the target of its reversal.
DraftOK(w) ==
    /\ pc[w] \in PreparingLabels /\ IsReversal(req[w])
         => Mirrors(draft[w].lines, req[w].body.target)
    /\ pc[w] \in {"period", "balance", "commit"} /\ IsReversal(req[w])
         => \A o \in journal : o.key = req[w].body.target => o.postedAt < draft[w].postedAt

\* Another worker's step does not disturb a draft: the target it mirrors is
\* in the journal, so no second entry can take the target's key.
LEMMA OthersKeepDraft ==
    ASSUME IInv, NEW w \in Workers, NEW v \in Workers, v # w, Step(w)
    PROVE  DraftOK(v)'
<1>1. pc'[v] = pc[v] /\ req'[v] = req[v] /\ draft'[v] = draft[v]
  BY OthersWait DEF IInv, Typed
<1>2. DraftOK(v)  BY DEF IInv, ReversalDrafts, DraftOK, PreparingLabels
<1>3. CASE journal' = journal
  BY <1>1, <1>2, <1>3 DEF DraftOK, Mirrors, IsReversal
<1>4. CASE pc[w] = "commit" /\ Insert(w)
  <2>1. /\ journal' = journal \cup {Entry(w)} /\ Entry(w).key = req[w].key
        /\ \A e \in journal : e.key # req[w].key
    BY <1>4, EntryType DEF IInv, Typed, Insert, SourceEventIsFree, Posted
  <2>2. Mirrors(draft[v].lines, req[v].body.target)
          => Mirrors(draft[v].lines, req[v].body.target)' /\ req[v].body.target # req[w].key
    BY <1>1, <2>1 DEF Mirrors
  <2> QED  BY <1>1, <1>2, <2>1, <2>2 DEF DraftOK, IsReversal, PreparingLabels
<1> QED  BY <1>3, <1>4, OnlyInsertPosts

\* A worker's own step keeps its draft the mirror of an older entry.
LEMMA OwnDraftKept ==
    ASSUME IInv, NEW w \in Workers, Step(w)
    PROVE  DraftOK(w)'
<1> SUFFICES ASSUME pc'[w] \in PreparingLabels, IsReversal(req[w])'
             PROVE  DraftOK(w)'
  BY DEF DraftOK, PreparingLabels
<1>1. DraftOK(w)  BY DEF IInv, ReversalDrafts, DraftOK, PreparingLabels
<1>2. /\ pc \in [Workers -> Labels] /\ draft \in [Workers -> Drafts]
      /\ clock \in Nat
  BY DEF IInv, TypeOK, JobTypeOK, WorldTypeOK
<1>3. BuildForward(w) \/ BuildReversal(w) \/ Stamp(w) \/ CheckPeriod(w) \/ ReadBalance(w)
  BY StepPrepares DEF IInv, Typed
<1>4. ~BuildForward(w)  BY DEF BuildForward, IsReversal
<1>5. CASE BuildReversal(w)
  <2> DEFINE b == req[w].body
             original == FindBySourceEventID(b.target)
  <2>1. /\ Posted(b.target) /\ Prepare(w, MirrorForReversal(original.lines))
        /\ journal' = journal /\ req' = req
    BY <1>2, <1>5 DEF BuildReversal, Answer, PreparingLabels, db
  <2>2. original \in journal /\ original.key = b.target  BY <2>1, FoundEntry
  <2>3. draft'[w].lines = MirrorForReversal(original.lines) /\ pc'[w] = "stamp"
    BY <1>2, <2>1 DEF Prepare, Goto, Drafts
  <2> QED  BY <2>1, <2>2, <2>3 DEF DraftOK, Mirrors
<1>6. CASE Stamp(w)
  <2>1. /\ draft'[w].lines = draft[w].lines /\ draft'[w].postedAt = clock
        /\ pc[w] = "stamp" /\ journal' = journal /\ req' = req
    BY <1>2, <1>6 DEF Stamp, Drafts, db
  <2>2. \A o \in journal : o.postedAt < clock  BY DEF IInv, PostedInThePast
  <2> QED  BY <1>1, <2>1, <2>2 DEF DraftOK, Mirrors, IsReversal, PreparingLabels
<1>7. CASE CheckPeriod(w)
  <2>1. draft' = draft /\ pc[w] = "period" /\ journal' = journal /\ req' = req
    BY <1>7 DEF CheckPeriod, db
  <2> QED  BY <1>1, <2>1 DEF DraftOK, Mirrors, IsReversal, PreparingLabels
<1>8. CASE ReadBalance(w)
  <2>1. /\ draft'[w].lines = draft[w].lines /\ draft'[w].postedAt = draft[w].postedAt
        /\ pc[w] = "balance" /\ journal' = journal /\ req' = req
    BY <1>2, <1>8 DEF ReadBalance, Drafts, db
  <2> QED  BY <1>1, <2>1 DEF DraftOK, Mirrors, IsReversal, PreparingLabels
<1> QED  BY <1>3, <1>4, <1>5, <1>6, <1>7, <1>8

LEMMA StepKeepsDrafts ==
    ASSUME IInv, NEW w \in Workers, Step(w)
    PROVE  ReversalDrafts'
<1>1. \A v \in Workers : DraftOK(v)'
  <2> TAKE v \in Workers
  <2>1. CASE v = w  BY <2>1, OwnDraftKept
  <2>2. CASE v # w  BY <2>2, OthersKeepDraft
  <2> QED  BY <2>1, <2>2
<1> QED  BY <1>1 DEF ReversalDrafts, DraftOK, PreparingLabels

\* A 201 in the hand of a worker names the entry posted for its key.
LEMMA StepKeepsAnswers ==
    ASSUME IInv, NEW w \in Workers, Step(w), NEW v \in Workers,
           pc'[v] \in {"reply", "save"}, answer'[v].status = 201
    PROVE  Names(req[v].key, answer[v].value)'
<1>1. journal \subseteq journal'  BY JournalGrows
<1>2. CASE v # w
  <2>1. pc'[v] = pc[v] /\ req'[v] = req[v] /\ answer'[v] = answer[v]
    BY <1>2, OthersWait DEF IInv, Typed
  <2>2. Names(req[v].key, answer[v].value)
    BY <2>1 DEF IInv, AnswersNameThePostedEntry
  <2> QED  BY <1>1, <2>1, <2>2 DEF Names
<1>3. CASE v = w
  <2>1. /\ pc \in [Workers -> Labels] /\ answer \in [Workers -> Answers]
    BY DEF IInv, TypeOK, JobTypeOK
  <2>2. LookupCache(w) \/ Reply(w) \/ ReturnWinner(w) \/ CommitEntry(w)
    BY <1>3, StepAnswers201 DEF IInv, Typed
  <2>3. CASE LookupCache(w)
    <3> DEFINE hit == cache[req[w].key]
    <3>1. hit # None /\ (Answer(w, 409, None) \/ Answer(w, hit.status, hit.value)) /\ req' = req
      BY <1>3, <2>1, <2>3 DEF LookupCache, Goto
    <3>2. hit.status = 201 /\ answer'[w].value = hit.value
      BY <1>3, <2>1, <3>1 DEF Answer
    <3>3. req[w].key \in Keys  BY <2>3, BusyWorker DEF LookupCache, IInv, Typed
    <3>4. Names(req[w].key, hit.value)
      BY <3>1, <3>2, <3>3 DEF IInv, AnswersNameThePostedEntry
    <3> QED  BY <1>1, <1>3, <3>1, <3>2, <3>4 DEF Names
  <2>4. CASE Reply(w)
    <3>1. pc[w] = "reply" /\ req'[w] = req[w] /\ answer'[w] = answer[w]
      BY <1>3, <2>1, <2>4 DEF Reply, Release
    <3>2. Names(req[w].key, answer[w].value)
      BY <1>3, <3>1 DEF IInv, AnswersNameThePostedEntry
    <3> QED  BY <1>1, <1>3, <3>1, <3>2 DEF Names
  <2>5. CASE ReturnWinner(w)
    <3>1. /\ Posted(req[w].key) /\ req' = req
          /\ answer'[w].value = FindBySourceEventID(req[w].key)
      BY <2>1, <2>5 DEF ReturnWinner, SourceEventIsFree, Answer
    <3> QED  BY <1>1, <1>3, <3>1, FoundEntry DEF Names
  <2>6. CASE CommitEntry(w)
    <3>1. /\ Entry(w) \in journal' /\ req' = req /\ answer'[w].value = Entry(w)
          /\ pc[w] = "commit"
      BY <2>1, <2>6 DEF CommitEntry, Insert, Answer
    <3>2. Entry(w).key = req[w].key  BY <3>1, EntryType DEF IInv, Typed
    <3> QED  BY <1>3, <3>1, <3>2 DEF Names
  <2> QED  BY <2>2, <2>3, <2>4, <2>5, <2>6
<1> QED  BY <1>2, <1>3

\* So does a 201 in the cache.
LEMMA StepKeepsCache ==
    ASSUME IInv, NEW w \in Workers, Step(w), NEW k \in Keys,
           cache'[k] # None, cache'[k].status = 201
    PROVE  Names(k, cache[k].value)'
<1>1. journal \subseteq journal'  BY JournalGrows
<1>2. CASE cache'[k] = cache[k]
  BY <1>1, <1>2 DEF IInv, AnswersNameThePostedEntry, Names
<1>3. CASE cache'[k] # cache[k]
  <2>1. SaveCache(w)  BY <1>3, StepFrame
  <2>2. cache \in [Keys -> {None} \cup Envelopes]  BY DEF IInv, TypeOK, DbTypeOK
  <2>3. /\ k = req[w].key /\ pc[w] = "save"
        /\ cache'[k].status = answer[w].status /\ cache'[k].value = answer[w].value
    BY <1>3, <2>1, <2>2 DEF SaveCache
  <2>4. Names(k, answer[w].value)  BY <2>3 DEF IInv, AnswersNameThePostedEntry
  <2> QED  BY <1>1, <2>3, <2>4 DEF Names
<1> QED  BY <1>2, <1>3

\* And so does a 201 a client was given.
LEMMA StepKeepsReplies ==
    ASSUME IInv, NEW w \in Workers, Step(w)
    PROVE  RepliesNameThePostedEntry'
<1>1. journal \subseteq journal'  BY JournalGrows
<1>2. CASE replies' = replies
  BY <1>1, <1>2 DEF IInv, RepliesNameThePostedEntry
<1>3. CASE Reply(w)
  <2> DEFINE r == [n |-> attempt[w], req |-> req[w],
                   status |-> answer[w].status, value |-> answer[w].value]
  <2>1. replies' = replies \cup {r} /\ pc[w] = "reply"  BY <1>3 DEF Reply
  <2>2. r.status = 201 => r.value \in journal /\ r.value.key = r.req.key
    BY <2>1 DEF IInv, AnswersNameThePostedEntry, Names
  <2> HIDE DEF r
  <2> QED  BY <1>1, <2>1, <2>2 DEF IInv, RepliesNameThePostedEntry
<1> QED  BY <1>2, <1>3, StepFrame

LEMMA StepKeepsNames ==
    ASSUME IInv, NEW w \in Workers, Step(w)
    PROVE  AnswersNameThePostedEntry' /\ RepliesNameThePostedEntry'
BY StepKeepsAnswers, StepKeepsCache, StepKeepsReplies DEF AnswersNameThePostedEntry

-----------------------------------------------------------------------------
(* Part 3.  The theorems.                                                  *)

LEMMA InitIInv == Init => IInv
<1> SUFFICES ASSUME Init PROVE IInv  OBVIOUS
<1>1. Typed  BY InitTyped
<1>2. /\ OneEntryPerSourceEvent /\ EntriesBalance /\ EveryLineHasABalance
      /\ ReversalsMirror /\ RepliesNameThePostedEntry
  BY DEF Init, OneEntryPerSourceEvent, EntriesBalance, EveryLineHasABalance, ReversalsMirror,
         RepliesNameThePostedEntry
<1>3. PostedInThePast /\ ReversalDrafts /\ AnswersNameThePostedEntry
  BY DEF Init, PostedInThePast, ReversalDrafts, AnswersNameThePostedEntry
<1> QED  BY <1>1, <1>2, <1>3 DEF IInv, Typed

LEMMA NextIInv == IInv /\ [Next]_vars => IInv'
<1> SUFFICES ASSUME IInv, [Next]_vars PROVE IInv'  OBVIOUS
<1>1. Typed'  BY NextTyped DEF IInv, Typed
<1>2. CASE NextMonth \/ UNCHANGED vars
  <2>1. UNCHANGED <<journal, cache, clock, pc, req, draft, answer, replies>>
    BY <1>2 DEF NextMonth, vars, db, world, job
  <2> QED
    BY <1>1, <2>1 DEF IInv, Typed, OneEntryPerSourceEvent, EntriesBalance, EveryLineHasABalance,
       PostedInThePast, ReversalDrafts, Mirrors, IsReversal, ReversalsMirror,
       AnswersNameThePostedEntry, Names, RepliesNameThePostedEntry
<1>3. ASSUME NEW w \in Workers, Step(w)
      PROVE  IInv'
  BY <1>1, <1>3, StepKeepsJournal, StepKeepsStamps, StepKeepsDrafts, StepKeepsNames
  DEF IInv, Typed
<1> QED  BY <1>2, <1>3 DEF Next

\* The GL's inductive invariant, for any number of workers and any requests
\* (PostJournalEntry, ClosePeriod and withIdempotency together).
THEOREM LedgerInvariant == Spec => []IInv
<1> QED  BY InitIInv, NextIInv, PTL DEF Spec

\* Every variable keeps its type.
THEOREM TypeCorrectness == Spec => []TypeOK
<1>1. IInv => TypeOK  BY DEF IInv
<1> QED  BY <1>1, LedgerInvariant, PTL

\* A source event is posted at most once, whatever races, retries and
\* crashes do (the UNIQUE constraint and the code that relies on it).
THEOREM AtMostOneEntry == Spec => []OneEntryPerSourceEvent
<1>1. IInv => OneEntryPerSourceEvent  BY DEF IInv
<1> QED  BY <1>1, LedgerInvariant, PTL

\* Every 201 names the one posted entry of the request's key
\* (handlePostJournalEntry, withIdempotency, the loser's second read).
THEOREM SuccessNamesTheEntry == Spec => []RepliesNameThePostedEntry
<1>1. IInv => RepliesNameThePostedEntry  BY DEF IInv
<1> QED  BY <1>1, LedgerInvariant, PTL

\* Debits equal credits in every posted entry, in exact arithmetic (the
\* deferred trigger behind NewJournalEntry's own check).
THEOREM LedgerIsBalanced == Spec => []DebitsEqualCredits
<1>1. IInv => DebitsEqualCredits  BY DEF IInv, EntriesBalance, TriggerAccepts, DebitsEqualCredits
<1> QED  BY <1>1, LedgerInvariant, PTL

\* A posted reversal flips every line of an entry posted before it
\* (buildReversalLines, MirrorForReversal).
THEOREM ReversalsAreMirrors == Spec => []ReversalsMirrorTheirTarget
<1>1. IInv => ReversalsMirrorTheirTarget
  <2> SUFFICES ASSUME IInv, NEW e \in journal, e.rule \in ReversalRules
               PROVE  \E o \in journal :
                        /\ o.key = e.reverses /\ o.postedAt < e.postedAt
                        /\ DOMAIN e.lines = DOMAIN o.lines
                        /\ \A i \in DOMAIN o.lines :
                             /\ e.lines[i].direction # o.lines[i].direction
                             /\ e.lines[i].account = o.lines[i].account
                             /\ e.lines[i].amount = o.lines[i].amount
                             /\ e.lines[i].currency = o.lines[i].currency
    BY DEF ReversalsMirrorTheirTarget
  <2>1. PICK o \in journal : /\ o.key = e.reverses /\ o.postedAt < e.postedAt
                             /\ e.lines = MirrorForReversal(o.lines)
    BY DEF IInv, ReversalsMirror
  <2>2. o.lines \in Seq(Lines)  BY DEF IInv, TypeOK, DbTypeOK, Entries
  <2>3. DOMAIN e.lines = DOMAIN o.lines  BY <2>1 DEF MirrorForReversal
  <2>4. \A i \in DOMAIN o.lines :
          /\ e.lines[i].direction # o.lines[i].direction
          /\ e.lines[i].account = o.lines[i].account
          /\ e.lines[i].amount = o.lines[i].amount
          /\ e.lines[i].currency = o.lines[i].currency
    BY <2>1, <2>2, MirrorFlipsEveryLine
  <2> QED  BY <2>1, <2>3, <2>4
<1> QED  BY <1>1, LedgerInvariant, PTL

-----------------------------------------------------------------------------
(* Part 4.  The workers implement the ledger.                              *)

\* The book of the journal holds, under each posted key, its one entry.
LEMMA BookHoldsTheEntry ==
    ASSUME OneEntryPerSourceEvent, NEW e \in journal
    PROVE  /\ e.key \in DOMAIN PostedBook
           /\ PostedBook[e.key] = e
           /\ FindBySourceEventID(e.key) = e
<1>1. Posted(e.key)  BY DEF Posted
<1>2. FindBySourceEventID(e.key) = e  BY <1>1, FoundEntry DEF OneEntryPerSourceEvent
<1>3. e.key \in PostedKeys  BY DEF PostedKeys
<1> QED  BY <1>2, <1>3 DEF PostedBook

LEMMA BookDomain == DOMAIN PostedBook = PostedKeys
BY DEF PostedBook

\* The initial book is empty and nothing was given.
LEMMA InitImplements == Init => Book!Init
<1> SUFFICES ASSUME Init PROVE Book!Init  OBVIOUS
<1>1. PostedKeys = {}  BY DEF Init, PostedKeys
<1>2. PostedBook = <<>>  BY <1>1 DEF PostedBook
<1>3. GivenEntries = {}  BY DEF Init, GivenEntries
<1> QED  BY <1>2, <1>3 DEF Book!Init

\* A step that posts nothing leaves the book alone.
LEMMA SameBook ==
    ASSUME journal' = journal
    PROVE  PostedBook' = PostedBook
BY DEF PostedBook, PostedKeys, FindBySourceEventID

\* The posting transaction is the book's Post.
LEMMA InsertImplements ==
    ASSUME IInv, IInv', NEW w \in Workers, pc[w] = "commit", Insert(w), replies' = replies
    PROVE  Book!Post(req[w].key)
<1> DEFINE k == req[w].key
<1>1. /\ journal' = journal \cup {Entry(w)} /\ Entry(w).key = k
      /\ \A e \in journal : e.key # k
      /\ Entry(w).lines = draft[w].lines
      /\ Entry(w).rule = req[w].body.rule /\ Entry(w).reverses = req[w].body.target
  BY EntryType DEF IInv, Typed, Insert, SourceEventIsFree, Posted
<1>2. k \notin DOMAIN PostedBook  BY <1>1, BookDomain DEF PostedKeys
<1>3. DOMAIN PostedBook' = DOMAIN PostedBook \cup {k}
  <2>1. PostedKeys' = PostedKeys \cup {k}  BY <1>1 DEF PostedKeys
  <2> QED  BY <2>1, BookDomain DEF PostedBook
<1>4. ASSUME NEW e \in journal'
      PROVE  PostedBook'[e.key] = e
  <2>1. OneEntryPerSourceEvent'  BY DEF IInv
  <2>2. /\ FindBySourceEventID(e.key)' \in journal'
        /\ FindBySourceEventID(e.key)'.key = e.key
    BY DEF FindBySourceEventID
  <2>3. FindBySourceEventID(e.key)' = e  BY <2>1, <2>2 DEF OneEntryPerSourceEvent
  <2>4. e.key \in PostedKeys'  BY DEF PostedKeys
  <2> QED  BY <2>3, <2>4 DEF PostedBook
<1>5. \A j \in DOMAIN PostedBook : PostedBook'[j] = PostedBook[j]
  <2> SUFFICES ASSUME NEW j \in DOMAIN PostedBook
               PROVE  PostedBook'[j] = PostedBook[j]
    OBVIOUS
  <2>1. PICK e \in journal : e.key = j  BY BookDomain DEF PostedKeys
  <2>2. e \in journal'  BY <1>1
  <2>3. PostedBook[j] = e  BY <2>1, BookHoldsTheEntry DEF IInv
  <2>4. PostedBook'[j] = e  BY <1>4, <2>1, <2>2
  <2> QED  BY <2>3, <2>4
<1>6. PostedBook'[k] = Entry(w)
  <2>1. Entry(w) \in journal'  BY <1>1
  <2> QED  BY <1>1, <1>4, <2>1
<1>7. Book!Admissible(Entry(w))
  <2>1. TriggerAccepts(Entry(w).lines)  BY <1>1 DEF Insert
  <2>2. ASSUME Entry(w).rule \in ReversalRules
        PROVE  /\ Entry(w).reverses \in DOMAIN PostedBook
               /\ Entry(w).lines = MirrorForReversal(PostedBook[Entry(w).reverses].lines)
    <3>1. Mirrors(draft[w].lines, req[w].body.target)
      BY <1>1, <2>2 DEF IInv, ReversalDrafts, IsReversal
    <3>2. PICK o \in journal : /\ o.key = req[w].body.target
                               /\ draft[w].lines = MirrorForReversal(o.lines)
      BY <3>1 DEF Mirrors
    <3>3. o.key \in DOMAIN PostedBook /\ PostedBook[o.key] = o
      BY BookHoldsTheEntry DEF IInv
    <3> QED  BY <1>1, <3>2, <3>3
  <2> QED  BY <2>1, <2>2 DEF Book!Admissible
<1>8. GivenEntries' = GivenEntries  BY DEF GivenEntries
<1> QED  BY <1>2, <1>3, <1>5, <1>6, <1>7, <1>8 DEF Book!Post

\* A reply is the book's Give when it is a 201, and is invisible otherwise.
LEMMA ReplyImplements ==
    ASSUME IInv, NEW w \in Workers, Reply(w)
    PROVE  (\E k \in Keys : Book!Give(k)) \/ UNCHANGED <<PostedBook, GivenEntries>>
<1> DEFINE r == [n |-> attempt[w], req |-> req[w],
                 status |-> answer[w].status, value |-> answer[w].value]
<1>1. replies' = replies \cup {r} /\ pc[w] = "reply" /\ journal' = journal
  BY DEF Reply, db
<1>2. PostedBook' = PostedBook  BY <1>1, SameBook
<1>3. req[w].key \in Keys  BY <1>1, BusyWorker DEF IInv, Typed
<1>4. r.status = answer[w].status /\ r.req = req[w] /\ r.value = answer[w].value  OBVIOUS
<1> HIDE DEF r
<1>5. CASE r.status = 201
  <2>1. r.value \in journal /\ r.value.key = req[w].key
    <3>1. answer[w].status = 201  BY <1>4, <1>5
    <3>2. Names(req[w].key, answer[w].value)
      BY <1>1, <3>1 DEF IInv, AnswersNameThePostedEntry
    <3> QED  BY <1>4, <3>2 DEF Names
  <2>2. req[w].key \in DOMAIN PostedBook /\ PostedBook[req[w].key] = r.value
    BY <2>1, BookHoldsTheEntry DEF IInv
  <2>3. GivenEntries' = GivenEntries \cup {<<req[w].key, r.value>>}
    BY <1>1, <1>4, <1>5 DEF GivenEntries
  <2> QED  BY <1>2, <1>3, <2>2, <2>3 DEF Book!Give
<1>6. CASE r.status # 201
  <2>1. GivenEntries' = GivenEntries  BY <1>1, <1>6 DEF GivenEntries
  <2> QED  BY <1>2, <2>1
<1> QED  BY <1>5, <1>6

LEMMA NextImplements ==
    IInv /\ IInv' /\ [Next]_vars => [Book!Next]_<<PostedBook, GivenEntries>>
<1> SUFFICES ASSUME IInv, IInv', [Next]_vars
             PROVE  [Book!Next]_<<PostedBook, GivenEntries>>
  OBVIOUS
<1>1. CASE UNCHANGED <<journal, replies>>
  <2>1. GivenEntries' = GivenEntries  BY <1>1 DEF GivenEntries
  <2> QED  BY <1>1, <2>1, SameBook
<1>2. ASSUME NEW w \in Workers, Step(w)
      PROVE  [Book!Next]_<<PostedBook, GivenEntries>>
  <2>1. CASE Reply(w)  BY <2>1, ReplyImplements DEF Book!Next
  <2>2. CASE ~Reply(w)
    <3>1. replies' = replies  BY <1>2, <2>2, StepFrame
    <3>2. CASE journal' = journal  BY <1>1, <3>1, <3>2
    <3>3. CASE pc[w] = "commit" /\ Insert(w)
      <4>1. req[w].key \in Keys  BY <3>3, BusyWorker DEF IInv, Typed
      <4> QED  BY <3>1, <3>3, <4>1, InsertImplements DEF Book!Next
    <3> QED  BY <1>2, <3>2, <3>3, OnlyInsertPosts
  <2> QED  BY <2>1, <2>2
<1>3. CASE NextMonth \/ UNCHANGED vars
  <2>1. UNCHANGED <<journal, replies>>  BY <1>3 DEF NextMonth, vars, db
  <2> QED  BY <1>1, <2>1
<1> QED  BY <1>2, <1>3 DEF Next

\* However many workers race, fail and retry, the callers see one book in
\* which an event is posted at most once, balanced, and never changed.
THEOREM WorkersImplementTheLedger == Spec => ImplementsLedger
<1>1. Init => Book!Init  BY InitImplements
<1>2. IInv /\ IInv' /\ [Next]_vars => [Book!Next]_<<PostedBook, GivenEntries>>
  BY NextImplements
<1> QED  BY <1>1, <1>2, LedgerInvariant, PTL DEF Spec, ImplementsLedger, Book!Spec
-----------------------------------------------------------------------------
(* Part 5.  The outbox.                                                    *)

\* What is announced is written with its event, and nothing else is written.
LEMMA WritesAreAnnounced ==
    ASSUME NEW w \in Workers, Step(w)
    PROVE  \/ UNCHANGED <<journal, periods, outbox>>
           \/ Insert(w)
           \/ pc[w] = "close" /\ Upsert(w)
<1>1. CASE Receive(w) \/ LookupCache(w) \/ Reply(w) \/ SaveCache(w)
  BY <1>1 DEF Receive, LookupCache, Reply, SaveCache, db
<1>2. CASE RejectMalformed(w) \/ BuildForward(w) \/ BuildReversal(w) \/ Stamp(w)
              \/ CheckPeriod(w) \/ ReadBalance(w)
  BY <1>2 DEF RejectMalformed, BuildForward, BuildReversal, Stamp, CheckPeriod, ReadBalance, db
<1>3. CASE RejectEntry(w) \/ ReturnWinner(w) \/ CommitEntry(w) \/ CheckOrder(w)
              \/ ReadPeriod(w) \/ CommitClose(w)
  BY <1>3 DEF RejectEntry, ReturnWinner, CommitEntry, CheckOrder, ReadPeriod, CommitClose, db
<1>4. CASE StatementFails(w) \/ CommitReplyLost(w) \/ SaveFails(w) \/ Crash(w)
  BY <1>4 DEF StatementFails, CommitReplyLost, SaveFails, Crash, db
<1> QED  BY <1>1, <1>2, <1>3, <1>4 DEF Step

LEMMA InsertKeepsOutbox ==
    ASSUME OutboxTellsTheLedger, NEW w \in Workers, Insert(w)
    PROVE  OutboxTellsTheLedger'
<1> DEFINE event == [topic |-> "gl.entry.posted", about |-> Entry(w)]
<1>1. /\ journal' = journal \cup {Entry(w)} /\ outbox' = outbox \cup {event} /\ periods' = periods
      /\ event.topic = "gl.entry.posted" /\ event.about = Entry(w)
  BY DEF Insert
<1> HIDE DEF event
<1>2. {x.about : x \in {y \in outbox' : y.topic = "gl.entry.posted"}} = journal'
  BY <1>1 DEF OutboxTellsTheLedger
<1> QED  BY <1>1, <1>2 DEF OutboxTellsTheLedger, ClosedRow

LEMMA UpsertKeepsOutbox ==
    ASSUME TypeOK, OutboxTellsTheLedger, NEW w \in Workers, Upsert(w)
    PROVE  OutboxTellsTheLedger'
<1> DEFINE p == req[w].period
           row == [status |-> "Closed", closedAt |-> draft[w].postedAt, closedBy |-> req[w].closedBy]
           event == [topic |-> "gl.period.closed", about |-> ClosedRow(p, row)]
<1>1. /\ journal' = journal /\ outbox' = outbox \cup {event}
      /\ periods' = [periods EXCEPT ![p] = row]
      /\ event.topic = "gl.period.closed" /\ periods \in [Periods -> Rows]
  BY DEF Upsert, TypeOK, DbTypeOK
<1> HIDE DEF row
<1>2. {x.about : x \in {y \in outbox' : y.topic = "gl.entry.posted"}} = journal'
  BY <1>1 DEF OutboxTellsTheLedger
<1>3. ASSUME NEW q \in Periods, periods'[q].status = "Closed"
      PROVE  [topic |-> "gl.period.closed", about |-> ClosedRow(q, periods'[q])] \in outbox'
  BY <1>1, <1>3 DEF OutboxTellsTheLedger
<1> QED  BY <1>2, <1>3 DEF OutboxTellsTheLedger

\* The outbox tells of every entry and of every close record the ledger
\* holds, and of no entry that was rolled back, through lost commit replies,
\* second closes and crashes (CommitPostedEntry, ClosePeriod's transaction).
THEOREM LedgerIsAnnounced == Spec => []OutboxTellsTheLedger
<1>1. Init => OutboxTellsTheLedger
  BY DEF Init, OutboxTellsTheLedger, OpenPeriod
<1>2. TypeOK /\ OutboxTellsTheLedger /\ [Next]_vars => OutboxTellsTheLedger'
  <2> SUFFICES ASSUME TypeOK, OutboxTellsTheLedger, [Next]_vars PROVE OutboxTellsTheLedger'
    OBVIOUS
  <2>1. CASE UNCHANGED <<journal, periods, outbox>>
    BY <2>1 DEF OutboxTellsTheLedger, ClosedRow
  <2>2. CASE NextMonth \/ UNCHANGED vars
    BY <2>1, <2>2 DEF NextMonth, vars, db
  <2>3. ASSUME NEW w \in Workers, Step(w) PROVE OutboxTellsTheLedger'
    BY <2>1, <2>3, WritesAreAnnounced, InsertKeepsOutbox, UpsertKeepsOutbox
  <2> QED  BY <2>2, <2>3 DEF Next
<1> QED  BY <1>1, <1>2, TypeCorrectness, PTL DEF Spec
-----------------------------------------------------------------------------
(* Part 6.  Closes that a posting overtakes.                               *)

\* Every meeting that is going on is in the history.
MeetingsKnown == Meetings \subseteq met

LEMMA WatchedStep ==
    ASSUME [OverlapsNext]_overlapVars
    PROVE  [Next]_vars /\ met \subseteq met'
BY DEF OverlapsNext, overlapVars

LEMMA MeetingsAreKnown ==
    /\ OverlapsInit => MeetingsKnown
    /\ MeetingsKnown /\ [OverlapsNext]_overlapVars => MeetingsKnown'
<1>1. ASSUME OverlapsInit PROVE MeetingsKnown
  BY <1>1 DEF OverlapsInit, Init, MeetingsKnown, Meetings, AtWork
<1>2. ASSUME OverlapsNext PROVE MeetingsKnown'
  BY <1>2 DEF OverlapsNext, MeetingsKnown
<1>3. ASSUME MeetingsKnown, UNCHANGED overlapVars PROVE MeetingsKnown'
  BY <1>3 DEF overlapVars, vars, job, MeetingsKnown, Meetings, AtWork
<1> QED  BY <1>1, <1>2, <1>3

LEMMA WorkersMeet ==
    ASSUME MeetingsKnown, NEW v \in Workers, NEW w \in Workers, v # w, AtWork(v), AtWork(w)
    PROVE  <<attempt[v], attempt[w], req[w]>> \in met
<1>1. <<v, w>> \in {y \in Workers \X Workers : y[1] # y[2] /\ AtWork(y[1]) /\ AtWork(y[2])}
  OBVIOUS
<1>2. <<attempt[v], attempt[w], req[w]>> \in Meetings
  BY <1>1 DEF Meetings
<1> QED  BY <1>2 DEF MeetingsKnown

LEMMA MetStays ==
    ASSUME met \subseteq met'
    PROVE  /\ \A n, p : MetCloseOf(n, p) => MetCloseOf(n, p)'
           /\ \A m, n : Met(m, n) => Met(m, n)'
BY DEF MetCloseOf, Met

\* A period that was seen open is open, or was closed meanwhile by a request
\* the attempt met.
SeenOpen(n, p) == periods[p].status # "Closed" \/ MetCloseOf(n, p)

\* What a worker has seen of the periods still holds when it posts.
PeriodsSeen(w) ==
    /\ pc[w] \in {"balance", "commit"} /\ req[w].body.adjusts = None
         => SeenOpen(attempt[w], draft[w].period)
    /\ pc[w] \in PreparingLabels /\ IsReversal(req[w])
         => \A o \in journal : o.key = req[w].body.target => SeenOpen(attempt[w], o.period)

OverlapInv == MeetingsKnown /\ \A w \in Workers : PeriodsSeen(w)

LEMMA StepKeepsPeriodsSeen ==
    ASSUME IInv, OverlapInv, met \subseteq met', NEW w \in Workers, Step(w)
    PROVE  PeriodsSeen(w)'
<1> SUFFICES ASSUME pc'[w] \in PreparingLabels
             PROVE  PeriodsSeen(w)'
  BY DEF PeriodsSeen, PreparingLabels
<1>1. PeriodsSeen(w)  BY DEF OverlapInv
<1>2. pc \in [Workers -> Labels] /\ draft \in [Workers -> Drafts]
  BY DEF IInv, TypeOK, JobTypeOK
<1>3. BuildForward(w) \/ BuildReversal(w) \/ Stamp(w) \/ CheckPeriod(w) \/ ReadBalance(w)
  BY StepPrepares DEF IInv, Typed
<1>4. UNCHANGED <<journal, periods, req, attempt>>
  BY <1>3 DEF BuildForward, BuildReversal, Stamp, CheckPeriod, ReadBalance, db
<1>10. \A n, p : SeenOpen(n, p) => SeenOpen(n, p)'
  BY <1>4, MetStays DEF SeenOpen
<1>5. CASE BuildForward(w) \/ BuildReversal(w)
  <2>1. pc'[w] = "stamp"
    BY <1>2, <1>5 DEF BuildForward, BuildReversal, Prepare, Goto, Answer, PreparingLabels
  <2>2. ASSUME IsReversal(req[w]), NEW o \in journal, o.key = req[w].body.target
        PROVE  periods[o.period].status # "Closed"
    <3>1. /\ Posted(req[w].body.target)
          /\ GetPeriod(FindBySourceEventID(req[w].body.target).period).status # "Closed"
      BY <1>2, <1>5, <2>1, <2>2 DEF BuildForward, BuildReversal, Answer
    <3>2. o = FindBySourceEventID(req[w].body.target)
      BY <2>2, <3>1, FoundEntry DEF IInv, OneEntryPerSourceEvent
    <3> QED  BY <3>1, <3>2 DEF GetPeriod
  <2>3. \A n, p : periods[p].status # "Closed" => SeenOpen(n, p)'
    BY <1>4 DEF SeenOpen
  <2> QED  BY <1>4, <2>1, <2>2, <2>3 DEF PeriodsSeen, IsReversal
<1>6. CASE Stamp(w)
  <2>1. pc[w] = "stamp" /\ pc'[w] = "period"
    BY <1>2, <1>6 DEF Stamp, Goto
  <2> QED  BY <1>1, <1>4, <1>10, <2>1 DEF PeriodsSeen, IsReversal, PreparingLabels
<1>7. CASE CheckPeriod(w)
  <2>1. /\ pc[w] = "period" /\ pc'[w] = "balance" /\ draft' = draft
        /\ PeriodAccepts(req[w].body, draft[w].period)
    BY <1>2, <1>7 DEF CheckPeriod, Goto, Answer, PreparingLabels
  <2>2. req[w].body.adjusts = None => SeenOpen(attempt[w], draft[w].period)
    BY <2>1 DEF PeriodAccepts, GetPeriod, SeenOpen
  <2> QED
    BY <1>1, <1>4, <1>10, <2>1, <2>2 DEF PeriodsSeen, IsReversal, PreparingLabels
<1>8. CASE ReadBalance(w)
  <2>1. pc[w] = "balance" /\ draft'[w].period = draft[w].period
    BY <1>2, <1>8 DEF ReadBalance, Drafts
  <2> QED  BY <1>1, <1>4, <1>10, <2>1 DEF PeriodsSeen, IsReversal, PreparingLabels
<1> QED  BY <1>3, <1>5, <1>6, <1>7, <1>8

\* Whoever closes a period meets every worker that has seen it open.
LEMMA OthersKeepPeriodsSeen ==
    ASSUME IInv, OverlapInv, met \subseteq met',
           NEW w \in Workers, NEW v \in Workers, v # w, Step(w)
    PROVE  PeriodsSeen(v)'
<1>1. pc'[v] = pc[v] /\ req'[v] = req[v] /\ draft'[v] = draft[v] /\ attempt'[v] = attempt[v]
  BY OthersWait DEF IInv, Typed
<1>2. PeriodsSeen(v)  BY DEF OverlapInv
<1>3. ASSUME NEW p \in Periods, pc[v] \in PreparingLabels, SeenOpen(attempt[v], p)
      PROVE  SeenOpen(attempt[v], p)'
  <2>1. CASE periods' = periods \/ MetCloseOf(attempt[v], p)
    BY <1>1, <1>3, <2>1, MetStays DEF SeenOpen
  <2>2. CASE pc[w] = "close" /\ Upsert(w)
    <3>1. req[w].op = "close"
      BY <2>2, ConstantsAssumption DEF IInv, JobOK, CloseLabels, IsPost, PostRequests, CloseRequests
    <3>2. CASE req[w].period = p
      <4>1. <<attempt[v], attempt[w], req[w]>> \in met
        BY <1>3, <2>2, WorkersMeet DEF OverlapInv, AtWork, PreparingLabels
      <4>2. MetCloseOf(attempt[v], p)
        BY <3>1, <3>2, <4>1 DEF MetCloseOf
      <4> QED  BY <2>1, <4>2
    <3>3. CASE req[w].period # p
      <4>1. periods'[p] = periods[p]
        BY <2>2, <3>3 DEF Upsert, IInv, TypeOK, DbTypeOK
      <4> QED  BY <1>1, <1>3, <4>1, MetStays DEF SeenOpen
    <3> QED  BY <3>2, <3>3
  <2> QED  BY <2>1, <2>2, WritesAreAnnounced DEF Insert
<1>4. ASSUME pc[v] \in {"balance", "commit"} PROVE draft[v].period \in Periods
  BY <1>4 DEF IInv, JobOK
<1>5. ASSUME pc[v] \in PreparingLabels, IsReversal(req[v]), NEW o \in journal', o.key = req[v].body.target
      PROVE  o \in journal /\ o.period \in Periods
  <2>1. PICK e \in journal : e.key = req[v].body.target
    BY <1>5 DEF IInv, ReversalDrafts, Mirrors, PreparingLabels
  <2>2. e \in journal' /\ o = e
    <3>1. journal \subseteq journal' /\ OneEntryPerSourceEvent'
      BY JournalGrows, NextIInv DEF Next, IInv
    <3> QED  BY <1>5, <2>1, <3>1 DEF OneEntryPerSourceEvent
  <2> QED  BY <2>1, <2>2 DEF IInv, TypeOK, DbTypeOK, Entries
<1> QED  BY <1>1, <1>2, <1>3, <1>4, <1>5 DEF PeriodsSeen, PreparingLabels, IsReversal

LEMMA OverlapStep == IInv /\ OverlapInv /\ [OverlapsNext]_overlapVars => OverlapInv'
<1> SUFFICES ASSUME IInv, OverlapInv, [OverlapsNext]_overlapVars PROVE OverlapInv'  OBVIOUS
<1>0. [Next]_vars /\ met \subseteq met' /\ MeetingsKnown'
  BY WatchedStep, MeetingsAreKnown DEF OverlapInv
<1>1. CASE NextMonth \/ UNCHANGED vars
  <2>1. UNCHANGED <<journal, periods, pc, req, attempt, draft>>
    BY <1>1 DEF NextMonth, vars, db, job
  <2>2. ASSUME NEW w \in Workers PROVE PeriodsSeen(w)'
    <3>1. \A n, p : SeenOpen(n, p) => SeenOpen(n, p)'
      BY <1>0, <2>1, MetStays DEF SeenOpen
    <3> QED  BY <2>1, <3>1 DEF OverlapInv, PeriodsSeen, IsReversal
  <2> QED  BY <1>0, <2>2 DEF OverlapInv
<1>2. ASSUME NEW w \in Workers, Step(w) PROVE OverlapInv'
  <2>1. ASSUME NEW v \in Workers PROVE PeriodsSeen(v)'
    <3>1. CASE v = w  BY <1>0, <1>2, <3>1, StepKeepsPeriodsSeen
    <3>2. CASE v # w  BY <1>0, <1>2, <3>2, OthersKeepPeriodsSeen
    <3> QED  BY <3>1, <3>2
  <2> QED  BY <1>0, <2>1 DEF OverlapInv
<1> QED  BY <1>0, <1>1, <1>2 DEF Next

LEMMA OverlapsAreLedgers == OverlapsSpec => Spec
<1>1. OverlapsInit => Init
  BY DEF OverlapsInit
<1>2. [OverlapsNext]_overlapVars => [Next]_vars
  BY WatchedStep
<1> QED  BY <1>1, <1>2, PTL DEF OverlapsSpec, Spec

LEMMA OverlapInvariant == OverlapsSpec => []OverlapInv
<1>1. OverlapsInit => OverlapInv
  <2>1. OverlapsInit => \A w \in Workers : PeriodsSeen(w)
    BY DEF OverlapsInit, Init, PeriodsSeen, PreparingLabels
  <2> QED  BY <2>1, MeetingsAreKnown DEF OverlapInv
<1> QED
  BY <1>1, OverlapStep, OverlapsAreLedgers, LedgerInvariant, PTL DEF OverlapsSpec

\* An entry is posted by a worker whose draft it is.
LEMMA NewEntry ==
    ASSUME IInv, [Next]_vars, NEW e \in journal', e \notin journal
    PROVE  \E w \in Workers : pc[w] = "commit" /\ Insert(w) /\ e = Entry(w)
<1>1. journal' # journal  OBVIOUS
<1>2. PICK w \in Workers : Step(w)
  BY <1>1 DEF Next, NextMonth, vars, db
<1>3. pc[w] = "commit" /\ Insert(w)
  BY <1>1, <1>2, OnlyInsertPosts
<1> QED  BY <1>3 DEF Insert

\* An ordinary entry enters a closed period only if its attempt met a request
\* to close it: whatever the number of requests at work, an attempt that arrives
\* after the close is refused (rejectIfPeriodClosed).
THEOREM OnlyClosesMetAreOvertaken == OverlapsSpec => OnlyItsCloseIsOvertaken
<1>1. IInv /\ OverlapInv /\ [OverlapsNext]_overlapVars =>
          [\A e \in journal' \ journal :
              e.adjusts = None /\ periods[e.period].status = "Closed" => MetCloseOf(e.id, e.period)]_journal
  <2> SUFFICES ASSUME IInv, OverlapInv, [OverlapsNext]_overlapVars, NEW e \in journal' \ journal,
                      e.adjusts = None, periods[e.period].status = "Closed"
               PROVE  MetCloseOf(e.id, e.period)
    OBVIOUS
  <2>1. PICK w \in Workers : pc[w] = "commit" /\ Insert(w) /\ e = Entry(w)
    BY WatchedStep, NewEntry
  <2>2. e.adjusts = req[w].body.adjusts /\ e.period = draft[w].period /\ e.id = attempt[w]
    BY <2>1 DEF Entry
  <2> QED  BY <2>1, <2>2 DEF OverlapInv, PeriodsSeen, SeenOpen
<1> QED
  BY <1>1, OverlapInvariant, OverlapsAreLedgers, LedgerInvariant, PTL DEF OverlapsSpec, OnlyItsCloseIsOvertaken

\* And an entry of a closed period is reversed only by an attempt that met a
\* request to close that period (buildReversalLines).
THEOREM OnlyTargetsClosesMetAreOvertaken == OverlapsSpec => OnlyItsTargetsCloseIsOvertaken
<1>1. IInv /\ OverlapInv /\ [OverlapsNext]_overlapVars =>
          [\A e \in journal' \ journal : e.rule \in ReversalRules =>
              \A o \in journal : o.key = e.reverses /\ periods[o.period].status = "Closed"
                                    => MetCloseOf(e.id, o.period)]_journal
  <2> SUFFICES ASSUME IInv, OverlapInv, [OverlapsNext]_overlapVars,
                      NEW e \in journal' \ journal, e.rule \in ReversalRules,
                      NEW o \in journal, o.key = e.reverses, periods[o.period].status = "Closed"
               PROVE  MetCloseOf(e.id, o.period)
    OBVIOUS
  <2>1. PICK w \in Workers : pc[w] = "commit" /\ Insert(w) /\ e = Entry(w)
    BY WatchedStep, NewEntry
  <2>2. e.rule = req[w].body.rule /\ e.reverses = req[w].body.target /\ e.id = attempt[w]
    BY <2>1 DEF Entry
  <2> QED  BY <2>1, <2>2 DEF OverlapInv, PeriodsSeen, SeenOpen, IsReversal, PreparingLabels
<1> QED
  BY <1>1, OverlapInvariant, OverlapsAreLedgers, LedgerInvariant, PTL
     DEF OverlapsSpec, OnlyItsTargetsCloseIsOvertaken
-----------------------------------------------------------------------------
(* Part 7.  Running balances of accounts whose posters never met.          *)

LinesIn(J, acct, gl) ==
    {a \in J \X (1 .. 4) : a[1].acct = acct /\ a[2] \in DOMAIN a[1].lines /\ a[1].lines[a[2]].account = gl}

LatestIn(J, acct, gl) ==
    LET last == {a \in LinesIn(J, acct, gl) : \A b \in LinesIn(J, acct, gl) : Later(a, b)}
    IN  IF last = {} THEN 0 ELSE BalanceAt(CHOOSE a \in last : TRUE)

UpTo(J, e, i) == {x \in LinesIn(J, e.acct, e.lines[i].account) : Later(<<e, i>>, x)}

SumOf(S) == SumFunctionOnSet([x \in S |-> Signed(x[1].lines[x[2]])], S)

\* The lines before line i on its GL account, and the last of them.
Mine(lines, i) == {j \in 1 .. (i - 1) : lines[j].account = lines[i].account}

LastOf(T) == {j \in T : \A k \in T : k <= j}

\* The balance that line i of an entry starts from (ReadBalance).
Before(J, acct, lines, balances, i) ==
    IF LastOf(Mine(lines, i)) = {} THEN LatestIn(J, acct, lines[i].account)
    ELSE balances[CHOOSE j \in LastOf(Mine(lines, i)) : TRUE]

Carries(J, acct, lines, balances) ==
    \A i \in DOMAIN balances : balances[i] = Wrap(Before(J, acct, lines, balances, i) + Signed(lines[i]))

\* A journal whose entries have distinct stamps, and whose balances are the
\* sums of what was posted up to each line, as an int64 holds them.
WellFormed(e) == e \in Entries /\ Len(e.lines) <= 4 /\ Len(e.balances) = Len(e.lines)

BalancesAreSums(J) == \A e \in J : \A i \in DOMAIN e.lines : e.balances[i] = Wrap(SumOf(UpTo(J, e, i)))

SoundJournal(J) ==
    /\ IsFiniteSet(J) /\ \A e \in J : WellFormed(e)
    /\ \A e, f \in J : e.postedAt = f.postedAt => e = f
    /\ BalancesAreSums(J)

\* The entries of one loan account.
Of(acct) == {e \in journal : e.acct = acct}

\* Nobody who has posted on the worker's account met it.
Clear(w) == \A e \in Of(req[w].body.acct) : ~Met(attempt[w], e.id)

\* A worker holds at most four lines; as long as it is clear it also holds a
\* stamp later than its account's entries, and balances carried on from them.
BalanceDraft(w) ==
    /\ pc[w] \in PreparingLabels => Len(draft[w].lines) <= 4
    /\ pc[w] \in {"period", "balance", "commit"} /\ Clear(w) =>
          \A e \in Of(req[w].body.acct) : e.postedAt < draft[w].postedAt
    /\ pc[w] \in {"balance", "commit"} /\ Clear(w) =>
          Carries(Of(req[w].body.acct), req[w].body.acct, draft[w].lines, draft[w].balances)

WellFormedJournal == IsFiniteSet(journal) /\ \A e \in journal : WellFormed(e)

BalanceInv ==
    /\ MeetingsKnown /\ WellFormedJournal
    /\ \A acct : Apart(acct) => SoundJournal(Of(acct))
    /\ \A w \in Workers : BalanceDraft(w)

Pairs(J) == {x \in J \X (1 .. 4) : x[2] \in DOMAIN x[1].lines}

LEMMA LinesArePairs ==
    ASSUME NEW J, IsFiniteSet(J), \A e \in J : WellFormed(e)
    PROVE  /\ \A x \in Pairs(J) : Signed(x[1].lines[x[2]]) \in Int
           /\ \A acct, gl : LinesIn(J, acct, gl) \subseteq Pairs(J) /\ IsFiniteSet(LinesIn(J, acct, gl))
<1>1. ASSUME NEW x \in Pairs(J) PROVE Signed(x[1].lines[x[2]]) \in Int
  <2>1. x[1].lines \in Seq(Lines) /\ x[2] \in DOMAIN x[1].lines
    BY DEF Pairs, WellFormed, Entries
  <2>2. x[1].lines[x[2]] \in Lines
    BY <2>1, ElementOfSeq, LenProperties
  <2> QED  BY <2>2, MaxIntAssumption DEF Signed, Lines, Int64
<1>2. ASSUME NEW acct, NEW gl
      PROVE  LinesIn(J, acct, gl) \subseteq Pairs(J) /\ IsFiniteSet(LinesIn(J, acct, gl))
  <2>1. LinesIn(J, acct, gl) \subseteq J \X (1 .. 4) /\ LinesIn(J, acct, gl) \subseteq Pairs(J)
    BY DEF LinesIn, Pairs
  <2>2. IsFiniteSet(J \X (1 .. 4))
    <3>1. IsFiniteSet(1 .. 4)
      <4>1. PICK a \in Int, b \in Int : a = 1 /\ b = 4
        OBVIOUS
      <4>2. IsFiniteSet(a .. b)
        BY FS_Interval
      <4> QED  BY <4>1, <4>2
    <3> QED  BY <3>1, FS_Product
  <2> QED  BY <2>1, <2>2, FS_Subset
<1> QED  BY <1>1, <1>2

LEMMA SumOfType ==
    ASSUME NEW J, IsFiniteSet(J), \A e \in J : WellFormed(e),
           NEW S, S \subseteq Pairs(J), IsFiniteSet(S)
    PROVE  SumOf(S) \in Int
<1> DEFINE f == [x \in S |-> Signed(x[1].lines[x[2]])]
<1>1. \A x \in S : f[x] \in Int
  BY LinesArePairs
<1> HIDE DEF f
<1>2. SumFunctionOnSet(f, S) \in Int
  BY <1>1, SumType
<1> QED  BY <1>2 DEF SumOf, f

LEMMA SumOfWith ==
    ASSUME NEW J, IsFiniteSet(J), \A e \in J : WellFormed(e),
           NEW S, S \subseteq Pairs(J), IsFiniteSet(S), NEW y \in Pairs(J), y \notin S
    PROVE  SumOf(S \cup {y}) = Signed(y[1].lines[y[2]]) + SumOf(S)
<1> DEFINE f == [x \in S \cup {y} |-> Signed(x[1].lines[x[2]])]
           g == [x \in S |-> Signed(x[1].lines[x[2]])]
<1>1. /\ \A x \in S \cup {y} : f[x] \in Int
      /\ \A x \in S : f[x] = g[x]
      /\ f[y] = Signed(y[1].lines[y[2]])
  BY LinesArePairs
<1> HIDE DEF f, g
<1>2. SumFunctionOnSet(f, S \cup {y}) = f[y] + SumFunctionOnSet(f, S)
  BY <1>1, SumWith
<1>3. SumFunctionOnSet(f, S) = SumFunctionOnSet(g, S)
  BY <1>1, SumCongruence
<1>4. SumOf(S \cup {y}) = SumFunctionOnSet(f, S \cup {y}) /\ SumOf(S) = SumFunctionOnSet(g, S)
  BY DEF SumOf, f, g
<1> QED  BY <1>1, <1>2, <1>3, <1>4

LEMMA WrapOfZero == Wrap(0) = 0
BY WrapKeepsInt64, MaxIntAssumption DEF Int64

\* The row the query picks is the last, and its balance is the sum of them all.
LEMMA LatestIsTheSum ==
    ASSUME NEW J, SoundJournal(J), NEW acct, NEW gl
    PROVE  LatestIn(J, acct, gl) = Wrap(SumOf(LinesIn(J, acct, gl)))
<1>0. PICK L : L = LinesIn(J, acct, gl)  OBVIOUS
<1>1. L \subseteq Pairs(J) /\ IsFiniteSet(L)
  BY <1>0, LinesArePairs DEF SoundJournal
<1>2. CASE L = {}
  <2>1. SumOf(L) = 0
    BY <1>2, SumOfNone DEF SumOf
  <2>2. LatestIn(J, acct, gl) = 0
    BY <1>0, <1>2 DEF LatestIn
  <2> QED  BY <1>0, <2>1, <2>2, WrapOfZero
<1>3. CASE L # {}
  <2> DEFINE code == [x \in L |-> 5 * x[1].postedAt + x[2]]
             last == {a \in L : \A b \in L : Later(a, b)}
  <2>1. \A x \in L : /\ x[1] \in J /\ x[1] \in Entries /\ x[1].postedAt \in Nat /\ x[2] \in 1 .. 4
                     /\ x = <<x[1], x[2]>> /\ x[2] \in DOMAIN x[1].lines
    BY <1>1 DEF Pairs, SoundJournal, WellFormed, Entries
  <2>2. \A x \in L : code[x] \in Int
    BY <2>1
  <2>3. PICK m \in L : \A n \in L : code[n] <= code[m]
    <3> HIDE DEF code
    <3> QED  BY <1>1, <1>3, <2>2, GreatestBy
  <2>4. m \in last
    <3>1. ASSUME NEW n \in L PROVE Later(m, n)
      <4>1. PICK p \in Nat, i \in 1 .. 4 : p = m[1].postedAt /\ i = m[2]
        BY <2>1
      <4>2. PICK q \in Nat, j \in 1 .. 4 : q = n[1].postedAt /\ j = n[2]
        BY <2>1
      <4>3. 5 * q + j <= 5 * p + i
        BY <2>3, <4>1, <4>2
      <4>4. p > q \/ (p = q /\ i >= j)
        BY <4>3
      <4> QED  BY <4>1, <4>2, <4>4 DEF Later
    <3> QED  BY <3>1
  <2>5. PICK c \in last : LatestIn(J, acct, gl) = BalanceAt(c)
    <3>1. LatestIn(J, acct, gl) = IF last = {} THEN 0 ELSE BalanceAt(CHOOSE a \in last : TRUE)
      BY <1>0 DEF LatestIn
    <3> QED  BY <2>4, <3>1
  <2>6. /\ c \in L /\ c[1].acct = acct /\ c[1].lines[c[2]].account = gl
        /\ \A b \in L : Later(c, b)
    BY <1>0 DEF LinesIn
  <2>7. UpTo(J, c[1], c[2]) = L
    BY <1>0, <2>1, <2>6 DEF UpTo
  <2>8. BalanceAt(c) = Wrap(SumOf(L))
    BY <2>1, <2>6, <2>7 DEF SoundJournal, BalancesAreSums, BalanceAt
  <2> QED  BY <1>0, <2>5, <2>8
<1> QED  BY <1>2, <1>3
\* What is added later changes no earlier sum.
LEMMA OldSumsStay ==
    ASSUME NEW J, NEW e, \A o \in J : o.postedAt \in Nat /\ o.postedAt < e.postedAt, e.postedAt \in Nat,
           NEW o \in J, NEW i \in DOMAIN o.lines
    PROVE  UpTo(J \cup {e}, o, i) = UpTo(J, o, i)
<1>1. ASSUME NEW x, x[1] = e PROVE ~ Later(<<o, i>>, x)
  BY <1>1 DEF Later
<1>2. LinesIn(J, o.acct, o.lines[i].account) \subseteq LinesIn(J \cup {e}, o.acct, o.lines[i].account)
  BY DEF LinesIn
<1>3. ASSUME NEW x \in LinesIn(J \cup {e}, o.acct, o.lines[i].account), x[1] # e
      PROVE  x \in LinesIn(J, o.acct, o.lines[i].account)
  BY <1>3 DEF LinesIn
<1> QED  BY <1>1, <1>2, <1>3 DEF UpTo

\* The lines up to line i of a new entry: those before it on its account, of
\* the entry or else of the journal, and itself.
LEMMA NewLinesAreLast ==
    ASSUME NEW J, NEW e, \A o \in J : o.postedAt \in Nat /\ o.postedAt < e.postedAt, e.postedAt \in Nat,
           DOMAIN e.lines \subseteq 1 .. 4, NEW i \in DOMAIN e.lines
    PROVE  UpTo(J \cup {e}, e, i) =
              LinesIn(J, e.acct, e.lines[i].account)
                \cup {<<e, j>> : j \in {k \in DOMAIN e.lines : k <= i /\ e.lines[k].account = e.lines[i].account}}
<1> DEFINE K == J \cup {e}
           gl == e.lines[i].account
           own == {k \in DOMAIN e.lines : k <= i /\ e.lines[k].account = gl}
<1>1. ASSUME NEW x \in UpTo(K, e, i)
      PROVE  x \in LinesIn(J, e.acct, gl) \cup {<<e, j>> : j \in own}
  <2>1. /\ x \in K \X (1 .. 4) /\ x[1].acct = e.acct /\ x[2] \in DOMAIN x[1].lines
        /\ x[1].lines[x[2]].account = gl /\ Later(<<e, i>>, x)
    BY <1>1 DEF UpTo, LinesIn
  <2>2. CASE x[1] = e
    <3>1. x[2] <= i
      BY <2>1, <2>2 DEF Later
    <3>2. x = <<e, x[2]>> /\ x[2] \in own
      BY <2>1, <2>2, <3>1
    <3> QED  BY <3>2
  <2>3. CASE x[1] # e
    BY <2>1, <2>3 DEF LinesIn
  <2> QED  BY <2>2, <2>3
<1>2. ASSUME NEW x \in LinesIn(J, e.acct, gl) PROVE x \in UpTo(K, e, i)
  <2>1. x \in LinesIn(K, e.acct, gl) /\ x[1] \in J
    BY <1>2 DEF LinesIn
  <2>2. Later(<<e, i>>, x)
    BY <2>1 DEF Later
  <2> QED  BY <2>1, <2>2 DEF UpTo
<1>3. ASSUME NEW j \in own PROVE <<e, j>> \in UpTo(K, e, i)
  <2>1. <<e, j>> \in LinesIn(K, e.acct, gl)
    BY <1>3 DEF LinesIn
  <2>2. Later(<<e, i>>, <<e, j>>)
    BY <1>3 DEF Later
  <2> QED  BY <2>1, <2>2 DEF UpTo
<1> QED  BY <1>1, <1>2, <1>3
LEMMA LastOfSome ==
    ASSUME NEW T \in SUBSET (1 .. 4), T # {}
    PROVE  \E j \in T : j \in LastOf(T)
<1>1. \A x \in T : [y \in T |-> 4 - y][x] = 4 - x
  OBVIOUS
<1> DEFINE S == {4 - x : x \in T}
<1>2. S \in SUBSET Nat /\ S # {}
  OBVIOUS
<1>3. PICK n \in S : \A m \in S : n <= m
  <2> HIDE DEF S
  <2> QED  BY <1>2, Smallest
<1>4. PICK j \in T : n = 4 - j
  BY <1>3
<1>5. \A k \in T : k <= j
  BY <1>3, <1>4
<1> QED  BY <1>5 DEF LastOf

\* An entry stamped after all others, whose balances were carried on line by
\* line from the journal's, keeps the journal sound.
LEMMA EntryAdded ==
    ASSUME NEW J, SoundJournal(J), NEW e, e \notin J, WellFormed(e),
           \A o \in J : o.postedAt < e.postedAt,
           Carries(J, e.acct, e.lines, e.balances)
    PROVE  SoundJournal(J \cup {e})
<1>1. PICK K : K = J \cup {e}  OBVIOUS
<1>2. /\ IsFiniteSet(K) /\ \A o \in K : WellFormed(o)
      /\ IsFiniteSet(J) /\ \A o \in J : WellFormed(o)
  BY <1>1, FS_AddElement DEF SoundJournal
<1>3. \A o \in K : /\ o.postedAt \in Nat /\ o.lines \in Seq(Lines) /\ o.balances \in Seq(Int)
                   /\ DOMAIN o.lines = 1 .. Len(o.lines) /\ DOMAIN o.balances = DOMAIN o.lines
                   /\ Len(o.lines) \in Nat /\ DOMAIN o.lines \subseteq 1 .. 4
  <2>1. ASSUME NEW o \in K
        PROVE  /\ o.postedAt \in Nat /\ o.lines \in Seq(Lines) /\ o.balances \in Seq(Int)
               /\ DOMAIN o.lines = 1 .. Len(o.lines) /\ DOMAIN o.balances = DOMAIN o.lines
               /\ Len(o.lines) \in Nat /\ DOMAIN o.lines \subseteq 1 .. 4
    <3>1. o.postedAt \in Nat /\ o.lines \in Seq(Lines) /\ o.balances \in Seq(Int)
          /\ Len(o.lines) <= 4 /\ Len(o.balances) = Len(o.lines)
      BY <1>2 DEF WellFormed, Entries
    <3> QED  BY <3>1, LenProperties
  <2> QED  BY <2>1
<1>4. \A o, f \in K : o.postedAt = f.postedAt => o = f
  <2>1. \A o \in J : o.postedAt # e.postedAt
    BY <1>1, <1>3
  <2> QED  BY <1>1, <2>1 DEF SoundJournal
<1>5. ASSUME NEW o \in J, NEW i \in DOMAIN o.lines
      PROVE  o.balances[i] = Wrap(SumOf(UpTo(K, o, i)))
  <2>1. UpTo(K, o, i) = UpTo(J, o, i)
    BY <1>1, <1>3, OldSumsStay
  <2> QED  BY <2>1 DEF SoundJournal, BalancesAreSums
<1>6. ASSUME NEW i \in DOMAIN e.lines,
             \A j \in DOMAIN e.lines : j < i => e.balances[j] = Wrap(SumOf(UpTo(K, e, j)))
      PROVE  e.balances[i] = Wrap(SumOf(UpTo(K, e, i)))
  <2>1. PICK gl, y, L, mine, s :
            /\ gl = e.lines[i].account /\ y = <<e, i>> /\ L = LinesIn(J, e.acct, gl)
            /\ mine = Mine(e.lines, i) /\ s = Signed(e.lines[i])
    OBVIOUS
  <2>2. /\ e \in K /\ i \in 1 .. 4 /\ DOMAIN e.lines = 1 .. Len(e.lines)
        /\ mine \subseteq DOMAIN e.lines /\ mine \in SUBSET (1 .. 4)
    BY <1>1, <1>3, <2>1 DEF Mine
  <2>3. y \in Pairs(K) /\ y[1] = e /\ y[2] = i /\ s \in Int
    <3>1. y \in Pairs(K) /\ y[1] = e /\ y[2] = i
      BY <2>1, <2>2 DEF Pairs
    <3> QED  BY <1>2, <2>1, <3>1, LinesArePairs
  <2>4. \A j \in DOMAIN e.lines : e.lines[j].account = gl =>
            /\ UpTo(K, e, j) = L \cup {<<e, k>> : k \in {k \in DOMAIN e.lines : k <= j /\ e.lines[k].account = gl}}
            /\ UpTo(K, e, j) \subseteq Pairs(K) /\ IsFiniteSet(UpTo(K, e, j))
    <3>1. ASSUME NEW j \in DOMAIN e.lines, e.lines[j].account = gl
          PROVE  /\ UpTo(K, e, j) = L \cup {<<e, k>> : k \in {k \in DOMAIN e.lines : k <= j /\ e.lines[k].account = gl}}
                 /\ UpTo(K, e, j) \subseteq Pairs(K) /\ IsFiniteSet(UpTo(K, e, j))
      <4>1. UpTo(J \cup {e}, e, j) =
              LinesIn(J, e.acct, e.lines[j].account)
                \cup {<<e, k>> : k \in {k \in DOMAIN e.lines : k <= j /\ e.lines[k].account = e.lines[j].account}}
        BY <1>1, <1>3, NewLinesAreLast
      <4>2. UpTo(K, e, j) \subseteq LinesIn(K, e.acct, e.lines[j].account)
        BY DEF UpTo
      <4>3. /\ LinesIn(K, e.acct, e.lines[j].account) \subseteq Pairs(K)
            /\ IsFiniteSet(LinesIn(K, e.acct, e.lines[j].account))
        BY <1>2, LinesArePairs
      <4>4. IsFiniteSet(UpTo(K, e, j))
        BY <4>2, <4>3, FS_Subset
      <4> QED  BY <1>1, <2>1, <3>1, <4>1, <4>2, <4>3, <4>4
    <3> QED  BY <3>1
  <2>5. e.balances[i] = Wrap(Before(J, e.acct, e.lines, e.balances, i) + s)
    BY <1>3, <2>1, <2>2 DEF Carries
  <2>6. CASE mine = {}
    <3>1. LastOf(mine) = {} /\ Before(J, e.acct, e.lines, e.balances, i) = LatestIn(J, e.acct, gl)
      BY <2>1, <2>6 DEF Before, LastOf
    <3>2. LatestIn(J, e.acct, gl) = Wrap(SumOf(L))
      BY <2>1, LatestIsTheSum
    <3>3. L \subseteq Pairs(J) /\ IsFiniteSet(L) /\ y \notin L /\ L \subseteq Pairs(K)
      <4>1. L \subseteq Pairs(J) /\ IsFiniteSet(L)
        BY <1>2, <2>1, LinesArePairs
      <4> QED  BY <1>1, <2>3, <4>1 DEF Pairs
    <3>4. UpTo(K, e, i) = L \cup {y}
      <4>1. {k \in DOMAIN e.lines : k <= i /\ e.lines[k].account = gl} = {i}
        BY <2>1, <2>2, <2>6 DEF Mine
      <4> QED  BY <2>1, <2>4, <4>1
    <3>5. SumOf(UpTo(K, e, i)) = s + SumOf(L) /\ SumOf(L) \in Int
      BY <1>2, <2>1, <2>3, <3>3, <3>4, SumOfWith, SumOfType
    <3>6. Wrap(Wrap(SumOf(L)) + s) = Wrap(SumOf(L) + s)
      BY <2>3, <3>5, WrapAbsorbsWrap
    <3>7. SumOf(L) + s = s + SumOf(L)
      BY <2>3, <3>5
    <3> QED  BY <2>5, <3>1, <3>2, <3>5, <3>6, <3>7
  <2>7. CASE mine # {}
    <3>1. PICK c \in LastOf(mine) : Before(J, e.acct, e.lines, e.balances, i) = e.balances[c]
      <4>1. LastOf(mine) # {}
        BY <2>2, <2>7, LastOfSome
      <4> QED  BY <2>1, <4>1 DEF Before
    <3>2. /\ c \in mine /\ c \in DOMAIN e.lines /\ c < i /\ e.lines[c].account = gl
          /\ \A k \in mine : k <= c
      BY <2>1, <2>2, <3>1 DEF LastOf, Mine
    <3>3. PICK U : U = UpTo(K, e, c)  OBVIOUS
    <3>4. /\ U = L \cup {<<e, k>> : k \in {k \in DOMAIN e.lines : k <= c /\ e.lines[k].account = gl}}
          /\ U \subseteq Pairs(K) /\ IsFiniteSet(U) /\ e.balances[c] = Wrap(SumOf(U))
      BY <1>6, <2>4, <3>2, <3>3
    <3>5. y \notin U
      <4>1. y \notin L
        BY <1>1, <2>1, <2>3 DEF LinesIn
      <4>2. \A k \in DOMAIN e.lines : k <= c => y # <<e, k>>
        BY <2>1, <2>2, <2>3, <3>2
      <4> QED  BY <3>4, <4>1, <4>2
    <3>6. UpTo(K, e, i) = U \cup {y}
      <4>1. {k \in DOMAIN e.lines : k <= i /\ e.lines[k].account = gl} =
              {k \in DOMAIN e.lines : k <= c /\ e.lines[k].account = gl} \cup {i}
        <5>1. ASSUME NEW k \in DOMAIN e.lines, k <= i, e.lines[k].account = gl, k # i
              PROVE  k <= c
          <6>1. k \in mine
            BY <2>1, <2>2, <5>1 DEF Mine
          <6> QED  BY <3>2, <6>1
        <5>2. \A k \in DOMAIN e.lines : k <= c => k <= i
          BY <2>2, <3>2
        <5> QED  BY <2>1, <2>2, <5>1, <5>2
      <4> QED  BY <2>1, <2>4, <3>4, <4>1
    <3>7. SumOf(UpTo(K, e, i)) = s + SumOf(U) /\ SumOf(U) \in Int
      <4>1. SumOf(U) \in Int
        BY <1>2, <3>4, SumOfType
      <4>2. SumOf(U \cup {y}) = Signed(y[1].lines[y[2]]) + SumOf(U)
        BY <1>2, <2>3, <3>4, <3>5, SumOfWith
      <4>3. Signed(y[1].lines[y[2]]) = s
        BY <2>1, <2>3
      <4> QED  BY <3>6, <4>1, <4>2, <4>3
    <3>8. Wrap(Wrap(SumOf(U)) + s) = Wrap(SumOf(U) + s)
      BY <2>3, <3>7, WrapAbsorbsWrap
    <3>9. SumOf(U) + s = s + SumOf(U)
      BY <2>3, <3>7
    <3> QED  BY <2>5, <3>1, <3>4, <3>7, <3>8, <3>9
  <2> QED  BY <2>6, <2>7
<1>7. \A i \in DOMAIN e.lines : e.balances[i] = Wrap(SumOf(UpTo(K, e, i)))
  <2> DEFINE Bad == {i \in DOMAIN e.lines : e.balances[i] # Wrap(SumOf(UpTo(K, e, i)))}
  <2>1. ASSUME Bad # {} PROVE FALSE
    <3>1. Bad \in SUBSET Nat
      BY <1>1, <1>3
    <3>2. PICK i \in Bad : \A j \in Bad : i <= j
      <4> HIDE DEF Bad
      <4> QED  BY <2>1, <3>1, Smallest
    <3>3. ASSUME NEW j \in DOMAIN e.lines, j < i PROVE e.balances[j] = Wrap(SumOf(UpTo(K, e, j)))
      <4>1. i \in Nat
        BY <3>1, <3>2
      <4>2. j \in Nat
        <5>1. DOMAIN e.lines \subseteq 1 .. 4
          BY <1>1, <1>3
        <5> QED  BY <5>1
      <4>3. j \notin Bad
        <5> SUFFICES ASSUME j \in Bad PROVE FALSE
          OBVIOUS
        <5>1. i <= j
          BY <3>2
        <5> QED  BY <3>3, <4>1, <4>2, <5>1
      <4> QED  BY <4>3
    <3> QED  BY <1>6, <3>2, <3>3
  <2> QED  BY <2>1
<1> QED
  BY <1>1, <1>2, <1>4, <1>5, <1>7 DEF SoundJournal, BalancesAreSums

\* One more balance, computed from the ones before it.
LEMMA CarriedOn ==
    ASSUME NEW J, NEW acct, NEW lines, NEW b \in Seq(Int), NEW i, i = Len(b) + 1, NEW after \in Int,
           Carries(J, acct, lines, b),
           after = Wrap(Before(J, acct, lines, b, i) + Signed(lines[i]))
    PROVE  Carries(J, acct, lines, Append(b, after))
<1>1. PICK c : c = Append(b, after)  OBVIOUS
<1>2. /\ DOMAIN b = 1 .. Len(b) /\ DOMAIN c = 1 .. i /\ i \in Nat /\ Len(b) \in Nat
      /\ \A k \in 1 .. Len(b) : c[k] = b[k]
      /\ c[i] = after
  BY <1>1, AppendProperties, LenProperties
<1>3. ASSUME NEW j \in DOMAIN c
      PROVE  Before(J, acct, lines, c, j) = Before(J, acct, lines, b, j)
  <2>1. LastOf(Mine(lines, j)) \subseteq 1 .. Len(b)
    BY <1>2 DEF LastOf, Mine
  <2> QED  BY <1>2, <2>1 DEF Before
<1>4. ASSUME NEW j \in DOMAIN c
      PROVE  c[j] = Wrap(Before(J, acct, lines, c, j) + Signed(lines[j]))
  <2>1. CASE j = i
    BY <1>2, <1>3, <2>1
  <2>2. CASE j # i
    <3>1. j \in DOMAIN b /\ c[j] = b[j]
      BY <1>2, <2>2
    <3> QED  BY <1>3, <3>1 DEF Carries
  <2> QED  BY <2>1, <2>2
<1> QED  BY <1>1, <1>4 DEF Carries

\* The lines of an account are those of its own entries.
LEMMA LinesOfOneAccount ==
    ASSUME NEW acct, NEW gl
    PROVE  LinesOf(acct, gl) = LinesIn(Of(acct), acct, gl)
BY DEF LinesOf, LinesIn, Of

\* A statement that reads one balance carries it on from the journal's.
LEMMA ReadBalanceCarries ==
    ASSUME IInv, BalanceInv, NEW w \in Workers, ReadBalance(w), Clear(w)
    PROVE  Carries(Of(req[w].body.acct), req[w].body.acct, draft[w].lines, draft'[w].balances)
<1>1. PICK d, b, i, l, J, acct :
          /\ d = draft[w] /\ b = d.balances /\ i = Len(b) + 1 /\ l = d.lines[i]
          /\ J = Of(acct) /\ acct = req[w].body.acct
  OBVIOUS
<1>2. /\ pc[w] = "balance" /\ draft \in [Workers -> Drafts] /\ d \in Drafts
      /\ d.lines \in Seq(Lines) /\ b \in Seq(Int) /\ Len(b) < Len(d.lines)
  BY <1>1 DEF ReadBalance, IInv, TypeOK, JobTypeOK, JobOK, Drafts
<1>3. DOMAIN b = 1 .. (i - 1) /\ i \in Nat /\ i \in 1 .. Len(d.lines)
  BY <1>1, <1>2, LenProperties
<1>4. l \in Lines
  BY <1>1, <1>2, <1>3, ElementOfSeq
<1>5. l.amount \in Int /\ Signed(l) = (IF l.direction = "DEBIT" THEN l.amount ELSE - l.amount)
  BY <1>4 DEF Lines, Signed
<1>6. PICK mine, last, before :
          /\ mine = {j \in DOMAIN b : d.lines[j].account = l.account}
          /\ last = {j \in mine : \A k \in mine : k <= j}
          /\ before = IF last = {} THEN GetLatestRunningBalance(acct, l.account)
                      ELSE b[CHOOSE j \in last : TRUE]
  OBVIOUS
<1>7. mine = Mine(d.lines, i) /\ last = LastOf(Mine(d.lines, i))
  BY <1>1, <1>3, <1>6 DEF Mine, LastOf
<1>8. GetLatestRunningBalance(acct, l.account) = LatestIn(J, acct, l.account)
  <2>1. LinesOf(acct, l.account) = LinesIn(J, acct, l.account)
    BY <1>1, LinesOfOneAccount
  <2> QED  BY <2>1 DEF GetLatestRunningBalance, LatestIn
<1>9. before = Before(J, acct, d.lines, b, i)
  <2>1. PICK T : T = LastOf(Mine(d.lines, i))
    OBVIOUS
  <2>2. Before(J, acct, d.lines, b, i) = IF T = {} THEN LatestIn(J, acct, d.lines[i].account)
                                         ELSE b[CHOOSE j \in T : TRUE]
    BY <2>1 DEF Before
  <2>3. before = IF T = {} THEN LatestIn(J, acct, d.lines[i].account) ELSE b[CHOOSE j \in T : TRUE]
    <3>1. T = last /\ l = d.lines[i]
      BY <1>1, <1>7, <2>1
    <3>2. before = IF T = {} THEN GetLatestRunningBalance(acct, l.account) ELSE b[CHOOSE j \in T : TRUE]
      BY <1>6, <3>1
    <3>3. GetLatestRunningBalance(acct, l.account) = LatestIn(J, acct, d.lines[i].account)
      BY <1>8, <3>1
    <3> QED  BY <3>2, <3>3
  <2> QED  BY <2>2, <2>3
<1>10. before \in Int
  <2>1. CASE last = {}
    BY <1>6, <2>1, LatestBalanceIsInt DEF IInv, Typed
  <2>2. CASE last # {}
    <3>1. PICK j \in last : before = b[j]
      BY <1>6, <2>2
    <3>2. j \in 1 .. Len(b)
      BY <1>2, <1>6, <3>1, LenProperties
    <3> QED  BY <1>2, <3>1, <3>2, ElementOfSeq
  <2> QED  BY <2>1, <2>2
<1>11. PICK after : after = Wrap(IF l.direction = "DEBIT" THEN before + l.amount ELSE before - l.amount)
  OBVIOUS
<1>12. draft'[w].balances = Append(b, after)
  <2>1. draft' = [draft EXCEPT ![w].balances = Append(@, after)]
    BY <1>1, <1>6, <1>11 DEF ReadBalance
  <2> QED  BY <1>1, <1>2, <2>1 DEF Drafts
<1>13. after = Wrap(before + Signed(l)) /\ after \in Int
  <2>1. (IF l.direction = "DEBIT" THEN before + l.amount ELSE before - l.amount) = before + Signed(l)
    BY <1>5, <1>10
  <2>2. before + Signed(l) \in Int
    BY <1>5, <1>10
  <2> QED  BY <1>11, <2>1, <2>2, WrapIsInt64, MaxIntAssumption DEF Int64
<1>14. Carries(J, acct, d.lines, b)
  BY <1>1, <1>2 DEF BalanceInv, BalanceDraft
<1>15. Carries(J, acct, d.lines, Append(b, after))
  BY <1>1, <1>2, <1>9, <1>13, <1>14, CarriedOn
<1> QED  BY <1>1, <1>12, <1>15

\* Being clear, and being apart, is only ever lost.
LEMMA ClearIsLost ==
    ASSUME met \subseteq met', journal \subseteq journal'
    PROVE  /\ \A w : req'[w] = req[w] /\ attempt'[w] = attempt[w] /\ Clear(w)' => Clear(w)
           /\ \A acct : Apart(acct)' => Apart(acct)
BY MetStays DEF Clear, Apart, Of

LEMMA StepKeepsBalanceDraft ==
    ASSUME IInv, BalanceInv, met \subseteq met', NEW w \in Workers, Step(w)
    PROVE  BalanceDraft(w)'
<1> SUFFICES ASSUME pc'[w] \in PreparingLabels
             PROVE  BalanceDraft(w)'
  BY DEF BalanceDraft, PreparingLabels
<1>1. BalanceDraft(w)  BY DEF BalanceInv
<1>2. /\ pc \in [Workers -> Labels] /\ draft \in [Workers -> Drafts] /\ Typed
  BY DEF IInv, Typed, TypeOK, JobTypeOK
<1>3. BuildForward(w) \/ BuildReversal(w) \/ Stamp(w) \/ CheckPeriod(w) \/ ReadBalance(w)
  BY <1>2, StepPrepares
<1>4. UNCHANGED <<journal, req, attempt>>
  BY <1>3 DEF BuildForward, BuildReversal, Stamp, CheckPeriod, ReadBalance, db
<1>10. Clear(w)' => Clear(w)
  BY <1>4, ClearIsLost
<1>5. CASE BuildForward(w)
  <2>1. /\ req[w].body \in Bodies
        /\ Prepare(w, ForwardLines(req[w].body.rule, req[w].body.value))
        /\ ~Malformed(req[w].body) /\ ~IsReversal(req[w])
    BY <1>2, <1>5, BusyWorker DEF BuildForward, HandlerLabels, Answer, PreparingLabels
  <2>2. req[w].body.rule \in ForwardRules /\ req[w].body.value \in Values
    BY <2>1 DEF Malformed, IsReversal, RuleCodes, Bodies
  <2>3. /\ pc'[w] = "stamp"
        /\ draft'[w].lines = ForwardLines(req[w].body.rule, req[w].body.value)
    BY <1>2, <2>1 DEF Prepare, Goto, Drafts
  <2>4. Len(draft'[w].lines) <= 4
    BY <2>2, <2>3, ForwardLinesType
  <2> QED  BY <2>3, <2>4 DEF BalanceDraft
<1>6. CASE BuildReversal(w)
  <2>1. PICK o \in journal : Prepare(w, MirrorForReversal(o.lines))
    BY <1>2, <1>6, FoundEntry DEF BuildReversal, Answer, PreparingLabels
  <2>2. o.lines \in Seq(Lines) /\ Len(o.lines) <= 4
    BY DEF BalanceInv, WellFormedJournal, WellFormed, Entries
  <2>3. pc'[w] = "stamp" /\ draft'[w].lines = MirrorForReversal(o.lines)
    BY <1>2, <2>1 DEF Prepare, Goto, Drafts
  <2>4. Len(draft'[w].lines) <= 4
    BY <2>2, <2>3, MirrorType
  <2> QED  BY <2>3, <2>4 DEF BalanceDraft
<1>7. CASE Stamp(w)
  <2>1. /\ pc[w] = "stamp" /\ pc'[w] = "period" /\ draft'[w].lines = draft[w].lines
        /\ draft'[w].postedAt = clock
    BY <1>2, <1>7 DEF Stamp, Goto, Drafts
  <2>2. \A e \in journal : e.postedAt < clock
    BY DEF IInv, PostedInThePast
  <2> QED  BY <1>1, <1>4, <2>1, <2>2 DEF BalanceDraft, PreparingLabels, Of
<1>8. CASE CheckPeriod(w)
  <2>1. /\ pc[w] = "period" /\ pc'[w] = "balance" /\ draft' = draft
    BY <1>2, <1>8 DEF CheckPeriod, Goto, Answer, PreparingLabels
  <2>2. draft[w].balances = <<>>
    BY <2>1 DEF IInv, JobOK
  <2>3. Carries(Of(req[w].body.acct), req[w].body.acct, draft[w].lines, draft[w].balances)'
    BY <1>4, <2>1, <2>2 DEF Carries
  <2> QED  BY <1>1, <1>4, <1>10, <2>1, <2>3 DEF BalanceDraft, PreparingLabels, Of
<1>9. CASE ReadBalance(w)
  <2>1. /\ pc[w] = "balance" /\ draft'[w].lines = draft[w].lines
        /\ draft'[w].postedAt = draft[w].postedAt
    BY <1>2, <1>9 DEF ReadBalance, Drafts
  <2>2. Clear(w) => Carries(Of(req[w].body.acct), req[w].body.acct, draft[w].lines, draft'[w].balances)
    BY <1>9, ReadBalanceCarries
  <2>3. /\ Len(draft'[w].lines) <= 4
        /\ Clear(w) => \A e \in Of(req[w].body.acct)' : e.postedAt < draft'[w].postedAt
    BY <1>1, <1>4, <2>1 DEF BalanceDraft, PreparingLabels, Of
  <2>4. Clear(w) => Carries(Of(req[w].body.acct), req[w].body.acct, draft[w].lines, draft[w].balances)'
    BY <1>4, <2>1, <2>2 DEF Of
  <2> QED  BY <1>4, <1>10, <2>3, <2>4 DEF BalanceDraft
<1> QED  BY <1>3, <1>5, <1>6, <1>7, <1>8, <1>9

\* Whoever posts on the account of a worker meets it.
LEMMA OthersKeepBalanceDraft ==
    ASSUME IInv, BalanceInv, met \subseteq met', NEW w \in Workers, NEW v \in Workers, v # w, Step(w)
    PROVE  BalanceDraft(v)'
<1>1. pc'[v] = pc[v] /\ req'[v] = req[v] /\ draft'[v] = draft[v] /\ attempt'[v] = attempt[v]
  BY OthersWait DEF IInv, Typed
<1>2. BalanceDraft(v) /\ (Clear(v)' => Clear(v))
  BY <1>1, ClearIsLost, JournalGrows DEF BalanceInv
<1>3. ASSUME pc[v] \in PreparingLabels, Clear(v)'
      PROVE  Of(req[v].body.acct)' = Of(req[v].body.acct)
  <2>1. CASE journal' = journal
    BY <1>1, <2>1 DEF Of
  <2>2. CASE pc[w] = "commit" /\ Insert(w)
    <3>1. journal' = journal \cup {Entry(w)} /\ Entry(w).id = attempt[w]
      BY <2>2 DEF Insert, Entry
    <3>2. <<attempt[v], attempt[w], req[w]>> \in met
      BY <1>3, <2>2, WorkersMeet DEF BalanceInv, AtWork, PreparingLabels
    <3>3. PICK m, n, e : m = attempt[v] /\ n = attempt[w] /\ e = Entry(w)
      OBVIOUS
    <3>4. Met(m, n)'
      <4>1. Met(m, n)
        BY <3>2, <3>3 DEF Met
      <4> QED  BY <4>1, MetStays
    <3>5. journal' = journal \cup {e} /\ e.id = n
      BY <3>1, <3>3
    <3>6. attempt'[v] = m
      BY <1>1, <3>3
    <3>7. ASSUME NEW f \in journal', f.acct = req'[v].body.acct PROVE ~Met(m, f.id)'
      BY <1>3, <3>6, <3>7 DEF Clear, Of, Met
    <3>8. e.acct # req[v].body.acct
      BY <1>1, <3>4, <3>5, <3>7
    <3> QED  BY <1>1, <3>5, <3>8 DEF Of
  <2> QED  BY <2>1, <2>2, OnlyInsertPosts
<1>4. CASE pc[v] \in PreparingLabels /\ Clear(v)'
  <2>1. PICK J : J = Of(req[v].body.acct)
    OBVIOUS
  <2>2. Of(req[v].body.acct)' = J
    BY <1>1, <1>3, <1>4, <2>1
  <2>3. /\ pc[v] \in {"period", "balance", "commit"} => \A e \in J : e.postedAt < draft[v].postedAt
        /\ pc[v] \in {"balance", "commit"} =>
              Carries(J, req[v].body.acct, draft[v].lines, draft[v].balances)
    BY <1>2, <1>4, <2>1 DEF BalanceDraft
  <2>4. pc'[v] \in {"balance", "commit"} =>
            Carries(Of(req[v].body.acct)', req[v].body.acct', draft[v].lines', draft[v].balances')
    BY <1>1, <2>2, <2>3
  <2>5. pc'[v] \in {"balance", "commit"} =>
            Carries(Of(req[v].body.acct), req[v].body.acct, draft[v].lines, draft[v].balances)'
    BY <2>4 DEF Carries, Before, LatestIn, LinesIn, BalanceAt, Later, Mine, LastOf, Wrap, Signed
  <2> QED  BY <1>1, <1>2, <2>2, <2>3, <2>5 DEF BalanceDraft
<1>5. CASE ~(pc[v] \in PreparingLabels /\ Clear(v)')
  BY <1>1, <1>2, <1>5 DEF BalanceDraft, PreparingLabels
<1> QED  BY <1>4, <1>5

LEMMA InsertKeepsBalances ==
    ASSUME IInv, BalanceInv, met \subseteq met', NEW w \in Workers, pc[w] = "commit", Insert(w)
    PROVE  /\ WellFormedJournal'
           /\ \A acct : Apart(acct)' => SoundJournal(Of(acct))'
<1>1. PICK e : e = Entry(w)  OBVIOUS
<1>2. /\ journal' = journal \cup {e} /\ e \in Entries
      /\ e.key = req[w].key /\ e.acct = req[w].body.acct /\ e.id = attempt[w]
      /\ e.lines = draft[w].lines /\ e.balances = draft[w].balances
      /\ e.postedAt = draft[w].postedAt /\ Len(e.balances) = Len(e.lines)
  BY <1>1, EntryType DEF IInv, Typed, Insert, Entry
<1>3. BalanceDraft(w) /\ WellFormedJournal /\ e \notin journal
  BY <1>1, <1>2 DEF BalanceInv, Insert, SourceEventIsFree, Posted
<1>4. WellFormed(e)
  BY <1>2, <1>3 DEF BalanceDraft, WellFormed, PreparingLabels
<1>5. WellFormedJournal'
  BY <1>2, <1>3, <1>4, FS_AddElement DEF WellFormedJournal, WellFormed
<1>6. ASSUME NEW acct, Apart(acct)' PROVE SoundJournal(Of(acct)')
  <2>1. PICK J : J = Of(acct)  OBVIOUS
  <2>2. SoundJournal(J)
    BY <1>2, <1>6, <2>1, ClearIsLost DEF BalanceInv
  <2>3. CASE e.acct # acct
    <3>1. Of(acct)' = J
      BY <1>2, <2>1, <2>3 DEF Of
    <3> QED  BY <2>2, <3>1
  <2>4. CASE e.acct = acct
    <3>1. Clear(w)
      BY <1>2, <1>3, <1>6, <2>4, MetStays DEF Clear, Apart, Of
    <3>2. /\ \A o \in J : o.postedAt < e.postedAt
          /\ Carries(J, e.acct, e.lines, e.balances) /\ e \notin J
      BY <1>2, <1>3, <2>1, <2>4, <3>1 DEF BalanceDraft, Of
    <3>3. SoundJournal(J \cup {e})
      BY <1>4, <2>2, <3>2, EntryAdded
    <3>4. Of(acct)' = J \cup {e}
      BY <1>2, <2>1, <2>4 DEF Of
    <3> QED  BY <3>3, <3>4
  <2> QED  BY <2>3, <2>4
<1>7. ASSUME NEW acct, Apart(acct)' PROVE SoundJournal(Of(acct))'
  <2>1. SoundJournal(Of(acct)')
    BY <1>6, <1>7
  <2> QED  BY <2>1
<1> QED  BY <1>5, <1>7

LEMMA BalanceStep == IInv /\ BalanceInv /\ [OverlapsNext]_overlapVars => BalanceInv'
<1> SUFFICES ASSUME IInv, BalanceInv, [OverlapsNext]_overlapVars PROVE BalanceInv'  OBVIOUS
<1>0. [Next]_vars /\ met \subseteq met' /\ MeetingsKnown'
  BY WatchedStep, MeetingsAreKnown DEF BalanceInv
<1>1. ASSUME journal' = journal
      PROVE  WellFormedJournal' /\ \A acct : Apart(acct)' => SoundJournal(Of(acct))'
  <2>1. \A acct : Apart(acct)' => Apart(acct)
    BY <1>0, <1>1, ClearIsLost
  <2>2. ASSUME NEW acct, Apart(acct)' PROVE SoundJournal(Of(acct))'
    <3>1. SoundJournal(Of(acct)) /\ Of(acct)' = Of(acct)
      BY <1>1, <2>1, <2>2 DEF BalanceInv, Of
    <3> QED  BY <3>1
  <2> QED  BY <1>1, <2>2 DEF BalanceInv, WellFormedJournal
<1>2. CASE NextMonth \/ UNCHANGED vars
  <2>1. UNCHANGED <<journal, pc, req, attempt, draft>>
    BY <1>2 DEF NextMonth, vars, db, job
  <2>2. ASSUME NEW w \in Workers PROVE BalanceDraft(w)'
    <3>1. BalanceDraft(w) /\ (Clear(w)' => Clear(w))
      BY <1>0, <2>1, ClearIsLost DEF BalanceInv
    <3> QED  BY <2>1, <3>1 DEF BalanceDraft, Of
  <2> QED  BY <1>0, <1>1, <2>1, <2>2 DEF BalanceInv
<1>3. ASSUME NEW w \in Workers, Step(w) PROVE BalanceInv'
  <2>1. WellFormedJournal' /\ \A acct : Apart(acct)' => SoundJournal(Of(acct))'
    BY <1>0, <1>1, <1>3, OnlyInsertPosts, InsertKeepsBalances
  <2>2. ASSUME NEW v \in Workers PROVE BalanceDraft(v)'
    <3>1. CASE v = w  BY <1>0, <1>3, <3>1, StepKeepsBalanceDraft
    <3>2. CASE v # w  BY <1>0, <1>3, <3>2, OthersKeepBalanceDraft
    <3> QED  BY <3>1, <3>2
  <2> QED  BY <1>0, <2>1, <2>2 DEF BalanceInv
<1> QED  BY <1>0, <1>2, <1>3 DEF Next

LEMMA InitBalances == OverlapsInit => BalanceInv
<1> SUFFICES ASSUME OverlapsInit PROVE BalanceInv  OBVIOUS
<1>1. Init /\ MeetingsKnown
  BY MeetingsAreKnown DEF OverlapsInit
<1>2. WellFormedJournal /\ \A acct : SoundJournal(Of(acct))
  BY <1>1, FS_EmptySet DEF Init, WellFormedJournal, SoundJournal, BalancesAreSums, Of
<1>3. \A w \in Workers : BalanceDraft(w)
  BY <1>1 DEF Init, BalanceDraft, PreparingLabels
<1> QED  BY <1>1, <1>2, <1>3 DEF BalanceInv

\* Every line of an account whose posters never met carries the sum of what was
\* posted on its accounts up to it, as an int64 holds that sum, whatever the
\* other requests at work do (computeRunningBalances, GetLatestRunningBalance).
THEOREM BalancesApartAreSums == OverlapsSpec => []BalancesOfApartAreSums
<1>1. BalanceInv => BalancesOfApartAreSums
  <2> SUFFICES ASSUME BalanceInv, NEW e \in journal, Apart(e.acct), NEW i \in DOMAIN e.lines
               PROVE  e.balances[i] = Wrap(LiveSum(e, i))
    BY DEF BalancesOfApartAreSums
  <2>1. SoundJournal(Of(e.acct)) /\ e \in Of(e.acct)
    BY DEF BalanceInv, Of
  <2>2. LiveSum(e, i) = SumOf(UpTo(Of(e.acct), e, i))
    BY LinesOfOneAccount DEF LiveSum, SumOf, UpTo
  <2> QED  BY <2>1, <2>2 DEF SoundJournal, BalancesAreSums
<1> QED
  BY <1>1, InitBalances, BalanceStep, OverlapsAreLedgers, LedgerInvariant, PTL DEF OverlapsSpec
-----------------------------------------------------------------------------
(* Part 8.  The posting rules: what is accepted, what it moves, and how a  *)
(* reversal undoes it.                                                     *)

\* One line more.
LEMMA LineAdded ==
    ASSUME NEW s \in Seq(Lines), NEW l \in Lines
    PROVE  LET t == s \o <<l>>
           IN  /\ t \in Seq(Lines) /\ Len(t) = Len(s) + 1
               /\ \A i \in 1 .. Len(s) : t[i] = s[i]
               /\ t[Len(s) + 1] = l
BY ConcatProperties

\* One line adds its amount to the total of its direction.
LEMMA TotalOfLineAdded ==
    ASSUME NEW s \in Seq(Lines), NEW l \in Lines, NEW d
    PROVE  /\ Total(s, d) \in Int
           /\ Total(s \o <<l>>, d) = Total(s, d) + (IF l.direction = d THEN l.amount ELSE 0)
<1>1. PICK t, n, y : t = s \o <<l>> /\ n = Len(s) /\ y = n + 1
  OBVIOUS
<1>2. /\ t \in Seq(Lines) /\ Len(t) = n + 1 /\ n \in Nat
      /\ \A i \in 1 .. n : t[i] = s[i] /\ s[i] \in Lines
      /\ t[y] = l /\ y \in Int /\ y \notin 1 .. n
  BY <1>1, LineAdded
<1>3. DOMAIN s = 1 .. n /\ DOMAIN t = (1 .. n) \cup {y}
  BY <1>1, <1>2
<1>4. PICK f, g, S, T : /\ f = [i \in DOMAIN s |-> s[i].amount] /\ g = [i \in DOMAIN t |-> t[i].amount]
                        /\ S = {i \in DOMAIN s : s[i].direction = d}
                        /\ T = {i \in DOMAIN t : t[i].direction = d}
  OBVIOUS
<1>5. /\ \A i \in 1 .. n : f[i] \in Int /\ g[i] = f[i]
      /\ g[y] = l.amount /\ l.amount \in Int
  BY <1>2, <1>3, <1>4 DEF Lines
<1>6. /\ S \subseteq 1 .. n /\ T \subseteq (1 .. n) \cup {y}
      /\ \A i \in 1 .. n : i \in T <=> i \in S
      /\ y \in T <=> l.direction = d
  <2>1. S \subseteq 1 .. n
    BY <1>3, <1>4
  <2>2. T \subseteq (1 .. n) \cup {y}
    BY <1>3, <1>4
  <2>3. \A i \in 1 .. n : i \in T <=> i \in S
    BY <1>2, <1>3, <1>4
  <2>4. y \in T <=> l.direction = d
    BY <1>2, <1>3, <1>4
  <2> QED
    BY <2>1, <2>2, <2>3, <2>4
<1>7. /\ SumFunctionOnSet(f, S) \in Int
      /\ y \in T => SumFunctionOnSet(g, T) = SumFunctionOnSet(f, S) + g[y]
      /\ y \notin T => SumFunctionOnSet(g, T) = SumFunctionOnSet(f, S)
  <2>1. PICK N : N = 1 .. n
    OBVIOUS
  <2>2. IsFiniteSet(N)
    BY <1>2, <2>1, FS_Interval
  <2>3. /\ y \notin N /\ g[y] \in Int /\ S \subseteq N /\ T \subseteq N \cup {y}
        /\ \A i \in N : f[i] \in Int /\ g[i] = f[i] /\ (i \in T <=> i \in S)
    BY <1>2, <1>5, <1>6, <2>1
  <2>4. OneMore(N, y, f, g, S, T)
    BY <2>2, <2>3 DEF OneMore
  <2> QED
    BY <2>4, SumOneMore
<1>8. Total(s, d) = SumFunctionOnSet(f, S) /\ Total(t, d) = SumFunctionOnSet(g, T)
  BY <1>4 DEF Total
<1> QED
  BY <1>1, <1>5, <1>6, <1>7, <1>8

\* One line adds its signed amount to what is moved on its account.
LEMMA MovedByLineAdded ==
    ASSUME NEW s \in Seq(Lines), NEW l \in Lines, NEW a
    PROVE  /\ Moved(s, a) \in Int
           /\ Moved(s \o <<l>>, a) = Moved(s, a) + (IF l.account = a THEN Signed(l) ELSE 0)
<1>1. PICK t, n, y : t = s \o <<l>> /\ n = Len(s) /\ y = n + 1
  OBVIOUS
<1>2. /\ t \in Seq(Lines) /\ Len(t) = n + 1 /\ n \in Nat
      /\ \A i \in 1 .. n : t[i] = s[i] /\ s[i] \in Lines
      /\ t[y] = l /\ y \in Int /\ y \notin 1 .. n
  BY <1>1, LineAdded
<1>3. DOMAIN s = 1 .. n /\ DOMAIN t = (1 .. n) \cup {y}
  BY <1>1, <1>2
<1>4. PICK f, g, S, T : /\ f = [i \in DOMAIN s |-> Signed(s[i])] /\ g = [i \in DOMAIN t |-> Signed(t[i])]
                        /\ S = {i \in DOMAIN s : s[i].account = a}
                        /\ T = {i \in DOMAIN t : t[i].account = a}
  OBVIOUS
<1>5. /\ \A i \in 1 .. n : f[i] \in Int /\ g[i] = f[i]
      /\ g[y] = Signed(l) /\ Signed(l) \in Int
  <2>1. \A x \in Lines : Signed(x) \in Int
    BY DEF Lines, Signed
  <2> QED
    BY <1>2, <1>3, <1>4, <2>1
<1>6. /\ S \subseteq 1 .. n /\ T \subseteq (1 .. n) \cup {y}
      /\ \A i \in 1 .. n : i \in T <=> i \in S
      /\ y \in T <=> l.account = a
  <2>1. S \subseteq 1 .. n
    BY <1>3, <1>4
  <2>2. T \subseteq (1 .. n) \cup {y}
    BY <1>3, <1>4
  <2>3. \A i \in 1 .. n : i \in T <=> i \in S
    BY <1>2, <1>3, <1>4
  <2>4. y \in T <=> l.account = a
    BY <1>2, <1>3, <1>4
  <2> QED
    BY <2>1, <2>2, <2>3, <2>4
<1>7. /\ SumFunctionOnSet(f, S) \in Int
      /\ y \in T => SumFunctionOnSet(g, T) = SumFunctionOnSet(f, S) + g[y]
      /\ y \notin T => SumFunctionOnSet(g, T) = SumFunctionOnSet(f, S)
  <2>1. PICK N : N = 1 .. n
    OBVIOUS
  <2>2. IsFiniteSet(N)
    BY <1>2, <2>1, FS_Interval
  <2>3. /\ y \notin N /\ g[y] \in Int /\ S \subseteq N /\ T \subseteq N \cup {y}
        /\ \A i \in N : f[i] \in Int /\ g[i] = f[i] /\ (i \in T <=> i \in S)
    BY <1>2, <1>5, <1>6, <2>1
  <2>4. OneMore(N, y, f, g, S, T)
    BY <2>2, <2>3 DEF OneMore
  <2> QED
    BY <2>4, SumOneMore
<1>8. Moved(s, a) = SumFunctionOnSet(f, S) /\ Moved(t, a) = SumFunctionOnSet(g, T)
  BY <1>4 DEF Moved
<1> QED
  BY <1>1, <1>5, <1>6, <1>7, <1>8

\* What some lines come to: their totals, what they move on each account,
\* whether all are positive, and the one currency they share.
ComesTo(s, debit, credit, moves, positive, c) ==
    /\ s \in Seq(Lines)
    /\ debit \in Int /\ credit \in Int /\ moves \in [GLAccounts -> Int]
    /\ Total(s, "DEBIT") = debit /\ Total(s, "CREDIT") = credit
    /\ \A a \in GLAccounts : Moved(s, a) = moves[a]
    /\ (\A i \in DOMAIN s : s[i].amount > 0) <=> positive
    /\ \A i \in DOMAIN s : s[i].currency = c

\* Before any line.
LEMMA NothingComesToNothing ==
    ASSUME NEW c
    PROVE  ComesTo(<<>>, 0, 0, [a \in GLAccounts |-> 0], TRUE, c)
<1>1. <<>> \in Seq(Lines) /\ DOMAIN <<>> = {}
  OBVIOUS
<1>2. \A d : Total(<<>>, d) = 0
  BY <1>1, SumOfNone DEF Total
<1>3. \A a : Moved(<<>>, a) = 0
  BY <1>1, SumOfNone DEF Moved
<1>4. [a \in GLAccounts |-> 0] \in [GLAccounts -> Int] /\ \A a \in GLAccounts : [x \in GLAccounts |-> 0][a] = 0
  OBVIOUS
<1> QED
  BY <1>1, <1>2, <1>3, <1>4 DEF ComesTo

\* After one line more.
LEMMA OneLineMoreComesTo ==
    ASSUME NEW s, NEW debit, NEW credit, NEW moves, NEW positive, NEW l, NEW new,
           l \in Lines, ComesTo(s, debit, credit, moves, positive, l.currency),
           new = [moves EXCEPT ![l.account] = @ + Signed(l)]
    PROVE  ComesTo(s \o <<l>>,
                   debit + (IF l.direction = "DEBIT" THEN l.amount ELSE 0),
                   credit + (IF l.direction = "CREDIT" THEN l.amount ELSE 0),
                   new, positive /\ l.amount > 0, l.currency)
<1>1. PICK t, n, y : t = s \o <<l>> /\ n = Len(s) /\ y = n + 1
  OBVIOUS
<1>2. s \in Seq(Lines) /\ debit \in Int /\ credit \in Int /\ moves \in [GLAccounts -> Int]
  BY DEF ComesTo
<1>3. /\ t \in Seq(Lines) /\ Len(t) = y /\ n \in Nat /\ y \in Int
      /\ \A i \in 1 .. n : t[i] = s[i]
      /\ t[y] = l
  BY <1>1, <1>2, LineAdded
<1>4. DOMAIN s = 1 .. n /\ DOMAIN t = (1 .. n) \cup {y}
  BY <1>1, <1>2, <1>3
<1>5. l.amount \in Int /\ l.account \in GLAccounts /\ Signed(l) \in Int
  BY DEF Lines, Signed
<1>6. /\ Total(t, "DEBIT") = debit + (IF l.direction = "DEBIT" THEN l.amount ELSE 0)
      /\ Total(t, "CREDIT") = credit + (IF l.direction = "CREDIT" THEN l.amount ELSE 0)
  BY <1>1, <1>2, TotalOfLineAdded DEF ComesTo
<1>7. new \in [GLAccounts -> Int] /\ \A a \in GLAccounts : Moved(t, a) = new[a]
  <2>1. new \in [GLAccounts -> Int]
    BY <1>2, <1>5
  <2>2. ASSUME NEW a \in GLAccounts PROVE Moved(t, a) = new[a]
    <3>1. Moved(t, a) = Moved(s, a) + (IF l.account = a THEN Signed(l) ELSE 0)
      BY <1>1, <1>2, MovedByLineAdded
    <3>2. Moved(s, a) = moves[a] /\ moves[a] \in Int
      BY <1>2 DEF ComesTo
    <3>3. CASE l.account = a
      BY <1>2, <3>1, <3>2, <3>3
    <3>4. CASE l.account # a
      BY <1>2, <3>1, <3>2, <3>4
    <3> QED
      BY <3>3, <3>4
  <2> QED
    BY <2>1, <2>2
<1>8. (\A i \in DOMAIN t : t[i].amount > 0) <=> positive /\ l.amount > 0
  <2>1. (\A i \in 1 .. n : s[i].amount > 0) <=> positive
    BY <1>4 DEF ComesTo
  <2> QED
    BY <1>3, <1>4, <2>1
<1>9. \A i \in DOMAIN t : t[i].currency = l.currency
  <2>1. \A i \in 1 .. n : s[i].currency = l.currency
    BY <1>4 DEF ComesTo
  <2> QED
    BY <1>3, <1>4, <2>1
<1>10. PICK p, q, b : /\ p = debit + (IF l.direction = "DEBIT" THEN l.amount ELSE 0)
                      /\ q = credit + (IF l.direction = "CREDIT" THEN l.amount ELSE 0)
                      /\ b = (positive /\ l.amount > 0)
  OBVIOUS
<1>11. p \in Int /\ q \in Int
  BY <1>2, <1>5, <1>10
<1>12. ComesTo(t, p, q, new, b, l.currency)
  BY <1>3, <1>6, <1>7, <1>8, <1>9, <1>10, <1>11 DEF ComesTo
<1> QED
  BY <1>1, <1>10, <1>12

\* A line, read as the record it is.
LEMMA AddedByLine ==
    ASSUME NEW account \in GLAccounts, NEW m \in Money, NEW d \in Directions
    PROVE  /\ Line(account, d, m) \in Lines
           /\ Line(account, d, m).account = account
           /\ Line(account, d, m).direction = d
           /\ Line(account, d, m).amount = m.amount
           /\ Line(account, d, m).currency = m.currency
           /\ Signed(Line(account, d, m)) = IF d = "DEBIT" THEN m.amount ELSE -m.amount
           /\ m.amount \in Int
BY MaxIntAssumption DEF Line, Lines, Money, Int64, Signed

\* One debit, by itself.
LEMMA DebitComesTo ==
    ASSUME NEW account, NEW m, NEW moves, account \in GLAccounts, m \in Money,
           moves = [a \in GLAccounts |-> IF a = account THEN m.amount ELSE 0]
    PROVE  /\ ComesTo(<<Line(account, "DEBIT", m)>>, m.amount, 0, moves, m.amount > 0, m.currency)
           /\ Len(<<Line(account, "DEBIT", m)>>) = 1
<1>1. PICK l, zero : l = Line(account, "DEBIT", m) /\ zero = [a \in GLAccounts |-> 0]
  OBVIOUS
<1>2. /\ l \in Lines /\ l.account = account /\ l.direction = "DEBIT" /\ l.amount = m.amount
      /\ l.currency = m.currency /\ Signed(l) = m.amount /\ m.amount \in Int
  BY <1>1, AddedByLine DEF Directions
<1>3. ComesTo(<<>>, 0, 0, zero, TRUE, l.currency)
  BY <1>1, NothingComesToNothing
<1>4. moves = [zero EXCEPT ![l.account] = @ + Signed(l)]
  BY <1>1, <1>2
<1>5. ComesTo(<<>> \o <<l>>, 0 + (IF l.direction = "DEBIT" THEN l.amount ELSE 0),
              0 + (IF l.direction = "CREDIT" THEN l.amount ELSE 0), moves, TRUE /\ l.amount > 0, l.currency)
  BY <1>2, <1>3, <1>4, OneLineMoreComesTo
<1>6. <<>> \o <<l>> = <<l>> /\ Len(<<l>>) = 1
  OBVIOUS
<1>7. PICK p, q, b : /\ p = 0 + (IF l.direction = "DEBIT" THEN l.amount ELSE 0)
                     /\ q = 0 + (IF l.direction = "CREDIT" THEN l.amount ELSE 0)
                     /\ b = (TRUE /\ l.amount > 0)
  OBVIOUS
<1>8. p = m.amount /\ q = 0 /\ b = (m.amount > 0)
  BY <1>2, <1>7
<1> QED
  BY <1>1, <1>2, <1>5, <1>6, <1>7, <1>8

\* What is moved after a credit of x on an account.
Credited(moves, account, x) == [moves EXCEPT ![account] = @ - x]

\* One credit more.
LEMMA CreditComesTo ==
    ASSUME NEW s, NEW debit, NEW credit, NEW moves, NEW positive, NEW account, NEW m, NEW new,
           NEW total, NEW still, account \in GLAccounts, m \in Money,
           ComesTo(s, debit, credit, moves, positive, m.currency),
           new = Credited(moves, account, m.amount),
           total = credit + m.amount, still = (positive /\ m.amount > 0)
    PROVE  /\ ComesTo(s \o <<Line(account, "CREDIT", m)>>, debit, total, new, still, m.currency)
           /\ Len(s \o <<Line(account, "CREDIT", m)>>) = Len(s) + 1
<1>1. PICK l : l = Line(account, "CREDIT", m)
  OBVIOUS
<1>2. /\ l \in Lines /\ l.account = account /\ l.direction = "CREDIT" /\ l.amount = m.amount
      /\ l.currency = m.currency /\ Signed(l) = -m.amount /\ m.amount \in Int
  BY <1>1, AddedByLine DEF Directions
<1>3. s \in Seq(Lines) /\ debit \in Int /\ credit \in Int /\ moves \in [GLAccounts -> Int]
  BY DEF ComesTo
<1>4. new = [moves EXCEPT ![l.account] = @ + Signed(l)]
  BY <1>2, <1>3 DEF Credited
<1>5. ComesTo(s \o <<l>>, debit + (IF l.direction = "DEBIT" THEN l.amount ELSE 0),
              credit + (IF l.direction = "CREDIT" THEN l.amount ELSE 0), new, positive /\ l.amount > 0, l.currency)
  BY <1>2, <1>4, OneLineMoreComesTo
<1>6. PICK p, q, b : /\ p = debit + (IF l.direction = "DEBIT" THEN l.amount ELSE 0)
                     /\ q = credit + (IF l.direction = "CREDIT" THEN l.amount ELSE 0)
                     /\ b = (positive /\ l.amount > 0)
  OBVIOUS
<1>7. p = debit /\ q = total /\ b = still
  BY <1>2, <1>3, <1>6
<1>8. Len(s \o <<l>>) = Len(s) + 1
  BY <1>2, <1>3, LineAdded
<1> QED
  BY <1>1, <1>2, <1>5, <1>6, <1>7, <1>8

\* A category that is zero is left out and changes nothing.
CategoryAdded(s, debit, credit, moves, positive, account, m, new, total, still) ==
    /\ account \in GLAccounts /\ m \in Money /\ positive \in BOOLEAN
    /\ ComesTo(s, debit, credit, moves, positive, m.currency)
    /\ new = Credited(moves, account, m.amount)
    /\ total = credit + m.amount
    /\ still = (positive /\ m.amount >= 0)

\* So a category adds its amount, and a line unless the amount is zero.
LEMMA CategoryComesTo ==
    ASSUME NEW s, NEW debit, NEW credit, NEW moves, NEW positive, NEW account, NEW m, NEW new,
           NEW total, NEW still,
           CategoryAdded(s, debit, credit, moves, positive, account, m, new, total, still)
    PROVE  /\ ComesTo(s \o CreditUnlessZero(account, m), debit, total, new, still, m.currency)
           /\ Len(s \o CreditUnlessZero(account, m)) = Len(s) + (IF m.amount = 0 THEN 0 ELSE 1)
           /\ CreditUnlessZero(account, m) \in Seq(Lines)
<1> USE DEF CategoryAdded
<1>1. s \in Seq(Lines) /\ credit \in Int /\ moves \in [GLAccounts -> Int] /\ m.amount \in Int
  BY MaxIntAssumption DEF ComesTo, Money, Int64
<1>2. CreditUnlessZero(account, m) \in Seq(Lines)
  BY CreditUnlessZeroType
<1>3. CASE m.amount = 0
  <2>1. s \o CreditUnlessZero(account, m) = s
    BY <1>1, <1>3 DEF CreditUnlessZero
  <2>2. new = moves
    BY <1>1, <1>3 DEF Credited
  <2>3. total = credit /\ still = positive
    BY <1>1, <1>3
  <2>4. Len(s) = Len(s) + (IF m.amount = 0 THEN 0 ELSE 1)
    BY <1>1, <1>3
  <2> QED
    BY <1>2, <2>1, <2>2, <2>3, <2>4
<1>4. CASE m.amount # 0
  <2>1. CreditUnlessZero(account, m) = <<Line(account, "CREDIT", m)>>
    BY <1>4 DEF CreditUnlessZero
  <2>2. still = (positive /\ m.amount > 0)
    BY <1>1, <1>4
  <2>3. /\ ComesTo(s \o <<Line(account, "CREDIT", m)>>, debit, total, new, still, m.currency)
        /\ Len(s \o <<Line(account, "CREDIT", m)>>) = Len(s) + 1
    BY <2>2, CreditComesTo
  <2> QED
    BY <1>2, <1>4, <2>1, <2>3
<1> QED
  BY <1>3, <1>4

\* What the two checks make of lines, from what the lines come to.
LEMMA AcceptedLines ==
    ASSUME NEW s, NEW debit, NEW credit, NEW moves, NEW positive, NEW c,
           ComesTo(s, debit, credit, moves, positive, c)
    PROVE  ValidateBalanced(s) /\ TriggerAccepts(s)
             <=> Len(s) >= 2 /\ positive /\ debit = credit /\ debit <= MaxInt
<1>1. LinesArePlausible(s) <=> Len(s) >= 2 /\ positive
  BY DEF LinesArePlausible, ComesTo
<1> QED
  BY <1>1 DEF ValidateBalanced, TriggerAccepts, ComesTo

\* The exact sum over the categories a rule reads.
LEMMA AskedOfOne ==
    ASSUME NEW v, NEW c, v[c].amount \in Int
    PROVE  SumFunctionOnSet([x \in {c} |-> v[x].amount], {c}) = v[c].amount
<1>1. PICK f, S : f = [x \in {c} |-> v[x].amount] /\ S = {}
  OBVIOUS
<1>2. IsFiniteSet(S) /\ c \notin S /\ \A x \in S \cup {c} : f[x] \in Int
  BY <1>1, FS_EmptySet
<1>3. SumFunctionOnSet(f, S \cup {c}) = f[c] + SumFunctionOnSet(f, S)
  BY <1>2, SumWith
<1>4. SumFunctionOnSet(f, S) = 0 /\ S \cup {c} = {c} /\ f[c] = v[c].amount
  BY <1>1, SumOfNone
<1> QED
  BY <1>1, <1>3, <1>4

\* A category more adds its amount to what is asked.
LEMMA AskedOfOneMore ==
    ASSUME NEW v, NEW C, IsFiniteSet(C), NEW c, c \notin C, \A x \in C \cup {c} : v[x].amount \in Int
    PROVE  /\ SumFunctionOnSet([x \in C \cup {c} |-> v[x].amount], C \cup {c})
                = v[c].amount + SumFunctionOnSet([x \in C |-> v[x].amount], C)
           /\ IsFiniteSet(C \cup {c})
<1>1. PICK f, g, D : /\ D = C \cup {c} /\ f = [x \in D |-> v[x].amount]
                     /\ g = [x \in C |-> v[x].amount]
  OBVIOUS
<1>2. (\A x \in C \cup {c} : f[x] \in Int) /\ (\A x \in C : f[x] = g[x]) /\ f[c] = v[c].amount
  BY <1>1
<1>3. IsFiniteSet(C \cup {c}) /\ SumFunctionOnSet(f, C \cup {c}) = f[c] + SumFunctionOnSet(f, C)
  BY <1>2, SumWith
<1>4. SumFunctionOnSet(f, C) = SumFunctionOnSet(g, C)
  BY <1>2, SumCongruence
<1> QED
  BY <1>1, <1>2, <1>3, <1>4

\* The categories each kind of rule reads.
LEMMA RuleShapes ==
    ASSUME NEW rule \in ForwardRules
    PROVE  /\ rule \in DOMAIN TwoLineRules => ShapeFor(rule) = "amount" /\ Reads(rule) = {"principal"}
           /\ rule \in DOMAIN AllocationRules =>
                 ShapeFor(rule) = "allocation" /\ Reads(rule) = {"fee", "interest", "principal"}
           /\ rule = "MOD01" => ShapeFor(rule) = "capitalization" /\ Reads(rule) = {"fee", "interest"}
<1>1. CASE rule \in DOMAIN TwoLineRules
  <2>1. ShapeFor(rule) = "amount" /\ rule \notin DOMAIN AllocationRules /\ rule # "MOD01"
    BY <1>1 DEF ShapeFor, TwoLineRules, AllocationRules
  <2> QED
    BY <1>1, <2>1 DEF Reads
<1>2. CASE rule \in DOMAIN AllocationRules
  <2>1. ShapeFor(rule) = "allocation" /\ rule \notin DOMAIN TwoLineRules /\ rule # "MOD01"
    BY <1>2 DEF ShapeFor, TwoLineRules, AllocationRules
  <2> QED
    BY <1>2, <2>1 DEF Reads
<1>3. CASE rule = "MOD01"
  <2>1. ShapeFor(rule) = "capitalization" /\ rule \notin DOMAIN TwoLineRules /\ rule \notin DOMAIN AllocationRules
    BY <1>3 DEF ShapeFor, TwoLineRules, AllocationRules
  <2> QED
    BY <1>3, <2>1 DEF Reads
<1> QED
  BY <1>1, <1>2, <1>3 DEF ForwardRules

\* The amounts of a value are integers of the register's width.
LEMMA ValueType ==
    ASSUME NEW v \in Values
    PROVE  /\ v.fee \in Money /\ v.interest \in Money /\ v.principal \in Money
           /\ v.fee.amount \in Int /\ v.interest.amount \in Int /\ v.principal.amount \in Int
           /\ v.fee.amount <= MaxInt /\ v.interest.amount <= MaxInt /\ v.principal.amount <= MaxInt
BY MaxIntAssumption DEF Values, Money, Int64

\* What makes a request legal, rule kind by rule kind.
LEMMA LegalByKind ==
    ASSUME NEW rule \in ForwardRules, NEW v \in Values
    PROVE  LET f == v.fee.amount
               i == v.interest.amount
               p == v.principal.amount
           IN  /\ rule \in DOMAIN TwoLineRules => (Legal(rule, v) <=> p > 0)
               /\ rule \in DOMAIN AllocationRules =>
                    (Legal(rule, v) <=> /\ f >= 0 /\ i >= 0 /\ p >= 0
                                        /\ v.fee.currency = v.interest.currency
                                        /\ v.interest.currency = v.principal.currency
                                        /\ f + i + p \in 1 .. MaxInt)
               /\ rule = "MOD01" =>
                    (Legal(rule, v) <=> /\ f >= 0 /\ i >= 0
                                        /\ v.fee.currency = v.interest.currency
                                        /\ f + i \in 1 .. MaxInt)
<1>1. /\ v["fee"].amount \in Int /\ v["interest"].amount \in Int /\ v["principal"].amount \in Int
      /\ v["principal"].amount <= MaxInt
  BY ValueType
<1>2. SumFunctionOnSet([c \in {"principal"} |-> v[c].amount], {"principal"}) = v["principal"].amount
  BY <1>1, AskedOfOne
<1>3. SumFunctionOnSet([c \in {"fee"} |-> v[c].amount], {"fee"}) = v["fee"].amount
  BY <1>1, AskedOfOne
<1>4. PICK C, D : C = {"fee"} /\ D = {"fee"} \cup {"interest"}
  OBVIOUS
<1>5. /\ IsFiniteSet(C) /\ "interest" \notin C /\ "principal" \notin D /\ D = C \cup {"interest"}
      /\ \A x \in D \cup {"principal"} : v[x].amount \in Int
  BY <1>1, <1>4, FS_Singleton
<1>6. /\ SumFunctionOnSet([x \in D |-> v[x].amount], D)
           = v["interest"].amount + SumFunctionOnSet([x \in C |-> v[x].amount], C)
      /\ IsFiniteSet(D)
  BY <1>5, AskedOfOneMore
<1>7. SumFunctionOnSet([x \in D \cup {"principal"} |-> v[x].amount], D \cup {"principal"})
        = v["principal"].amount + SumFunctionOnSet([x \in D |-> v[x].amount], D)
  BY <1>5, <1>6, AskedOfOneMore
<1>8. D = {"fee", "interest"} /\ D \cup {"principal"} = {"fee", "interest", "principal"}
  BY <1>4
<1>9. CASE rule \in DOMAIN TwoLineRules
  <2>1. Reads(rule) = {"principal"} /\ rule \notin DOMAIN AllocationRules /\ rule # "MOD01"
    BY <1>9, RuleShapes, RuleKindsAreDisjoint
  <2>2. Asked(rule, v) = v["principal"].amount
    BY <1>2, <2>1 DEF Asked
  <2> QED
    BY <1>1, <1>9, <2>1, <2>2, MaxIntAssumption DEF Legal
<1>10. CASE rule \in DOMAIN AllocationRules
  <2>1. Reads(rule) = {"fee", "interest", "principal"} /\ rule \notin DOMAIN TwoLineRules /\ rule # "MOD01"
    BY <1>10, RuleShapes, RuleKindsAreDisjoint
  <2>2. Asked(rule, v) = v["principal"].amount + (v["interest"].amount + v["fee"].amount)
    BY <1>3, <1>4, <1>6, <1>7, <1>8, <2>1 DEF Asked
  <2>3. Asked(rule, v) = v.fee.amount + v.interest.amount + v.principal.amount
    BY <1>1, <2>2
  <2> QED
    BY <1>1, <1>10, <2>1, <2>3, MaxIntAssumption DEF Legal
<1>11. CASE rule = "MOD01"
  <2>1. Reads(rule) = {"fee", "interest"} /\ rule \notin DOMAIN TwoLineRules /\ rule \notin DOMAIN AllocationRules
    BY <1>11, RuleShapes, RuleKindsAreDisjoint
  <2>2. Asked(rule, v) = v["interest"].amount + v["fee"].amount
    BY <1>3, <1>4, <1>6, <1>8, <2>1 DEF Asked
  <2>3. Asked(rule, v) = v.fee.amount + v.interest.amount
    BY <1>1, <2>2
  <2> QED
    BY <1>1, <1>11, <2>1, <2>3, MaxIntAssumption DEF Legal
<1> QED
  BY <1>9, <1>10, <1>11 DEF ForwardRules

\* What an entry of a rule moves, when the rule debits one account with a
\* total and credits the others with the categories.
MovedBy(rule, v, s) ==
    \A a \in GLAccounts :
        Moved(s, a) = IF a \in DOMAIN Moves(rule, v) THEN Moves(rule, v)[a] ELSE 0

\* One account debited, nothing else moved.
Debited(account, x) == [a \in GLAccounts |-> IF a = account THEN x ELSE 0]

\* Crediting one account leaves the others.
LEMMA CreditedType ==
    ASSUME NEW moves \in [GLAccounts -> Int], NEW account, NEW x \in Int
    PROVE  /\ Credited(moves, account, x) \in [GLAccounts -> Int]
           /\ \A a \in GLAccounts : Credited(moves, account, x)[a] = moves[a] - (IF a = account THEN x ELSE 0)
<1>1. Credited(moves, account, x) = [a \in GLAccounts |-> moves[a] - (IF a = account THEN x ELSE 0)]
  <2>1. PICK g : g = [a \in GLAccounts |-> moves[a] - (IF a = account THEN x ELSE 0)]
    OBVIOUS
  <2>2. ASSUME NEW a \in GLAccounts PROVE Credited(moves, account, x)[a] = g[a]
    <3>1. CASE a = account
      BY <2>1, <3>1 DEF Credited
    <3>2. CASE a # account
      BY <2>1, <3>2 DEF Credited
    <3> QED
      BY <3>1, <3>2
  <2>3. Credited(moves, account, x) = [a \in GLAccounts |-> Credited(moves, account, x)[a]]
    BY DEF Credited
  <2> QED
    BY <2>1, <2>2, <2>3
<1> QED
  BY <1>1

\* A two-line rule is accepted if its amount is positive, and moves it from
\* one account to the other (twoLine).
LEMMA TwoLineEntry ==
    ASSUME NEW rule \in DOMAIN TwoLineRules, NEW v \in Values
    PROVE  LET s == ForwardLines(rule, v)
           IN  /\ ValidateBalanced(s) /\ TriggerAccepts(s) <=> v.principal.amount > 0
               /\ MovedBy(rule, v, s)
<1>1. PICK x, m, d, c : /\ x = v.principal.amount /\ m = v.principal
                        /\ d = TwoLineRules[rule].debit /\ c = TwoLineRules[rule].credit
  OBVIOUS
<1>2. m \in Money /\ x = m.amount /\ x \in Int /\ x <= MaxInt
  BY <1>1, ValueType
<1>3. d \in GLAccounts /\ c \in GLAccounts
  BY <1>1 DEF TwoLineRules, GLAccounts
<1>4. PICK head, tail : head = <<Line(d, "DEBIT", m)>> /\ tail = <<Line(c, "CREDIT", m)>>
  OBVIOUS
<1>5. PICK one, two, total, good : /\ one = Debited(d, x) /\ two = Credited(one, c, x)
                                   /\ total = 0 + x /\ good = (m.amount > 0 /\ m.amount > 0)
  OBVIOUS
<1>6. ComesTo(head, x, 0, one, m.amount > 0, m.currency) /\ Len(head) = 1
  BY <1>2, <1>3, <1>4, <1>5, DebitComesTo DEF Debited
<1>7. ComesTo(head \o tail, x, total, two, good, m.currency) /\ Len(head \o tail) = 2
  <2>1. PICK b : b = (m.amount > 0)
    OBVIOUS
  <2>2. ComesTo(head, x, 0, one, b, m.currency) /\ good = (b /\ m.amount > 0) /\ two = Credited(one, c, m.amount)
    BY <1>2, <1>5, <1>6, <2>1
  <2>3. total = 0 + m.amount
    BY <1>2, <1>5
  <2>4. ComesTo(head \o <<Line(c, "CREDIT", m)>>, x, total, two, good, m.currency)
        /\ Len(head \o <<Line(c, "CREDIT", m)>>) = Len(head) + 1
    BY <1>2, <1>3, <2>2, <2>3, CreditComesTo
  <2> QED
    BY <1>4, <1>6, <2>4
<1>8. ForwardLines(rule, v) = head \o tail
  <2>1. rule \notin DOMAIN AllocationRules /\ rule # "MOD01"
    BY RuleKindsAreDisjoint
  <2>2. ForwardLines(rule, v) = <<Line(d, "DEBIT", m), Line(c, "CREDIT", m)>>
    BY <1>1, <2>1 DEF ForwardLines
  <2>3. PICK k, l, t : k = Line(d, "DEBIT", m) /\ l = Line(c, "CREDIT", m) /\ t = <<k>> \o <<l>>
    OBVIOUS
  <2>4. t \in Seq(Lines) /\ Len(t) = 2 /\ t[1] = k /\ t[2] = l
    <3>1. k \in Lines /\ l \in Lines /\ <<k>> \in Seq(Lines) /\ Len(<<k>>) = 1 /\ <<k>>[1] = k
      BY <1>2, <1>3, <2>3, AddedByLine DEF Directions
    <3>2. PICK s : s = <<k>>
      OBVIOUS
    <3>3. LET u == s \o <<l>> IN /\ u \in Seq(Lines) /\ Len(u) = Len(s) + 1
                                 /\ \A i \in 1 .. Len(s) : u[i] = s[i]
                                 /\ u[Len(s) + 1] = l
      BY <3>1, <3>2, LineAdded
    <3> QED
      BY <2>3, <3>1, <3>2, <3>3
  <2>5. t = <<k, l>>
    BY <2>4
  <2> QED
    BY <1>4, <2>2, <2>3, <2>5
<1>9. ValidateBalanced(head \o tail) /\ TriggerAccepts(head \o tail) <=> x > 0
  <2>1. ValidateBalanced(head \o tail) /\ TriggerAccepts(head \o tail)
          <=> Len(head \o tail) >= 2 /\ good /\ x = total /\ x <= MaxInt
    BY <1>7, AcceptedLines
  <2>2. good <=> x > 0
    BY <1>2, <1>5
  <2>3. x = total /\ x <= MaxInt /\ Len(head \o tail) >= 2
    BY <1>2, <1>5, <1>7
  <2> QED
    BY <2>1, <2>2, <2>3
<1>10. \A a \in GLAccounts : Moved(head \o tail, a) = (IF a = d THEN x ELSE 0) - (IF a = c THEN x ELSE 0)
  <2>1. one \in [GLAccounts -> Int] /\ \A a \in GLAccounts : one[a] = (IF a = d THEN x ELSE 0)
    BY <1>2, <1>5 DEF Debited
  <2>2. \A a \in GLAccounts : two[a] = one[a] - (IF a = c THEN x ELSE 0)
    BY <1>2, <1>5, <2>1, CreditedType
  <2> QED
    BY <1>7, <2>1, <2>2 DEF ComesTo
<1>11. MovedBy(rule, v, head \o tail)
  <2>1. CASE rule = "DISB01"
    <3>1. d = "LoanReceivable" /\ c = "CashNostro"
      BY <1>1, <2>1 DEF TwoLineRules
    <3>2. Moves(rule, v) = [LoanReceivable |-> x, CashNostro |-> -x]
      BY <1>1, <2>1 DEF Moves
    <3> QED
      BY <1>2, <1>10, <3>1, <3>2 DEF MovedBy
  <2>2. CASE rule = "ACCR01"
    <3>1. d = "InterestReceivable" /\ c = "InterestIncome"
      BY <1>1, <2>2 DEF TwoLineRules
    <3>2. Moves(rule, v) = [InterestReceivable |-> x, InterestIncome |-> -x]
      BY <1>1, <2>2 DEF Moves
    <3> QED
      BY <1>2, <1>10, <3>1, <3>2 DEF MovedBy
  <2>3. CASE rule = "DELINQ01"
    <3>1. d = "FeeReceivable" /\ c = "FeeIncome"
      BY <1>1, <2>3 DEF TwoLineRules
    <3>2. Moves(rule, v) = [FeeReceivable |-> x, FeeIncome |-> -x]
      BY <1>1, <2>3 DEF Moves
    <3> QED
      BY <1>2, <1>10, <3>1, <3>2 DEF MovedBy
  <2>4. CASE rule = "CHGOFF02"
    <3>1. d = "CashNostro" /\ c = "RecoveryIncome"
      BY <1>1, <2>4 DEF TwoLineRules
    <3>2. Moves(rule, v) = [CashNostro |-> x, RecoveryIncome |-> -x]
      BY <1>1, <2>4 DEF Moves
    <3> QED
      BY <1>2, <1>10, <3>1, <3>2 DEF MovedBy
  <2> QED
    BY <2>1, <2>2, <2>3, <2>4 DEF TwoLineRules
<1> QED
  BY <1>1, <1>8, <1>9, <1>11

\* The wrapped sum of an allocation is the exact one if that fits.
LEMMA AllocationSumType ==
    ASSUME NEW v \in Values
    PROVE  /\ AllocationSum(v) \in Money
           /\ AllocationSum(v).amount = Wrap(v.fee.amount + v.interest.amount + v.principal.amount)
           /\ AllocationSum(v).currency = v.fee.currency
           /\ CapitalizationSum(v) \in Money
           /\ CapitalizationSum(v).amount = Wrap(v.interest.amount + v.fee.amount)
           /\ CapitalizationSum(v).currency = v.interest.currency
<1>1. PICK f, i, p : f = v.fee.amount /\ i = v.interest.amount /\ p = v.principal.amount
  OBVIOUS
<1>2. f \in Int /\ i \in Int /\ p \in Int /\ f + i \in Int /\ f + i + p \in Int /\ i + f \in Int
  BY <1>1, ValueType
<1>3. Wrap(Wrap(f + i) + p) = Wrap(f + i + p)
  BY <1>2, WrapAbsorbsWrap
<1>4. Wrap(f + i + p) \in Int64 /\ Wrap(i + f) \in Int64
  BY <1>2, WrapIsInt64
<1>5. v.fee.currency \in STRING /\ v.interest.currency \in STRING
  BY DEF Values, Money
<1> QED
  BY <1>1, <1>3, <1>4, <1>5 DEF AllocationSum, CapitalizationSum, Money

\* An allocation rule is accepted if the request is legal, and then moves
\* each category and their exact sum (allocationSum, categoryLines).
LEMMA AllocationEntry ==
    ASSUME NEW rule \in DOMAIN AllocationRules, NEW v \in Values, CurrenciesAgree(rule, v)
    PROVE  LET s == ForwardLines(rule, v)
               f == v.fee.amount
               i == v.interest.amount
               p == v.principal.amount
           IN  /\ ValidateBalanced(s) /\ TriggerAccepts(s)
                    <=> f >= 0 /\ i >= 0 /\ p >= 0 /\ f + i + p \in 1 .. MaxInt
               /\ ValidateBalanced(s) /\ TriggerAccepts(s) => MovedBy(rule, v, s)
<1>1. PICK f, i, p, w, acct, all : /\ f = v.fee.amount /\ i = v.interest.amount /\ p = v.principal.amount
                                   /\ w = Wrap(f + i + p) /\ acct = AllocationRules[rule]
                                   /\ all = AllocationSum(v)
  OBVIOUS
<1>2. /\ v.fee \in Money /\ v.interest \in Money /\ v.principal \in Money
      /\ f \in Int /\ i \in Int /\ p \in Int /\ f <= MaxInt /\ i <= MaxInt /\ p <= MaxInt
      /\ all \in Money /\ all.amount = w /\ w \in Int /\ w <= MaxInt
  <2>1. f + i + p \in Int
    BY <1>1, ValueType
  <2>2. w \in Int64
    BY <1>1, <2>1, WrapIsInt64
  <2> QED
    BY <1>1, <2>2, ValueType, AllocationSumType, MaxIntAssumption DEF Int64
<1>3. PICK c : c = v.fee.currency
  OBVIOUS
<1>4. v.fee.currency = c /\ v.interest.currency = c /\ v.principal.currency = c /\ all.currency = c
  BY <1>1, <1>3, AllocationSumType DEF CurrenciesAgree
<1>5. /\ acct \in GLAccounts /\ "FeeReceivable" \in GLAccounts /\ "InterestReceivable" \in GLAccounts
      /\ "LoanReceivable" \in GLAccounts
  BY <1>1 DEF AllocationRules, GLAccounts
<1>6. PICK s1, s2, s3, s4 : /\ s1 = <<Line(acct, "DEBIT", all)>>
                            /\ s2 = s1 \o CreditUnlessZero("FeeReceivable", v.fee)
                            /\ s3 = s2 \o CreditUnlessZero("InterestReceivable", v.interest)
                            /\ s4 = s3 \o CreditUnlessZero("LoanReceivable", v.principal)
  OBVIOUS
<1>7. PICK m1, m2, m3, m4 : /\ m1 = Debited(acct, w)
                            /\ m2 = Credited(m1, "FeeReceivable", f)
                            /\ m3 = Credited(m2, "InterestReceivable", i)
                            /\ m4 = Credited(m3, "LoanReceivable", p)
  OBVIOUS
<1>8. PICK b1, b2, b3, b4, t2, t3, t4 :
          /\ b1 = (w > 0) /\ b2 = (b1 /\ f >= 0) /\ b3 = (b2 /\ i >= 0) /\ b4 = (b3 /\ p >= 0)
          /\ t2 = 0 + f /\ t3 = t2 + i /\ t4 = t3 + p
  OBVIOUS
<1>9. ComesTo(s1, w, 0, m1, b1, c) /\ Len(s1) = 1
  <2>1. m1 = [a \in GLAccounts |-> IF a = acct THEN all.amount ELSE 0]
    BY <1>2, <1>7 DEF Debited
  <2>2. /\ ComesTo(<<Line(acct, "DEBIT", all)>>, all.amount, 0, m1, all.amount > 0, all.currency)
        /\ Len(<<Line(acct, "DEBIT", all)>>) = 1
    BY <1>2, <1>5, <2>1, DebitComesTo
  <2> QED
    BY <1>2, <1>4, <1>6, <1>8, <2>2
<1>10. ComesTo(s2, w, t2, m2, b2, c) /\ Len(s2) = Len(s1) + (IF f = 0 THEN 0 ELSE 1)
  <2>1. PICK m, k : m = v.fee /\ k = "FeeReceivable"
    OBVIOUS
  <2>2. m \in Money /\ k \in GLAccounts /\ b1 \in BOOLEAN /\ m.currency = c
    BY <1>2, <1>4, <1>5, <1>8, <2>1
  <2>3. m2 = Credited(m1, k, m.amount) /\ t2 = 0 + m.amount /\ b2 = (b1 /\ m.amount >= 0)
    BY <1>1, <1>7, <1>8, <2>1
  <2>4. ComesTo(s1, w, 0, m1, b1, m.currency)
    BY <1>9, <2>2
  <2>5. CategoryAdded(s1, w, 0, m1, b1, k, m, m2, t2, b2)
    BY <2>2, <2>3, <2>4 DEF CategoryAdded
  <2>6. /\ ComesTo(s1 \o CreditUnlessZero(k, m), w, t2, m2, b2, m.currency)
        /\ Len(s1 \o CreditUnlessZero(k, m)) = Len(s1) + (IF m.amount = 0 THEN 0 ELSE 1)
    BY <2>5, CategoryComesTo
  <2> QED
    BY <1>1, <1>6, <2>1, <2>2, <2>6
<1>11. ComesTo(s3, w, t3, m3, b3, c) /\ Len(s3) = Len(s2) + (IF i = 0 THEN 0 ELSE 1)
  <2>1. PICK m, k : m = v.interest /\ k = "InterestReceivable"
    OBVIOUS
  <2>2. m \in Money /\ k \in GLAccounts /\ b2 \in BOOLEAN /\ m.currency = c
    BY <1>2, <1>4, <1>5, <1>8, <2>1
  <2>3. m3 = Credited(m2, k, m.amount) /\ t3 = t2 + m.amount /\ b3 = (b2 /\ m.amount >= 0)
    BY <1>1, <1>7, <1>8, <2>1
  <2>4. ComesTo(s2, w, t2, m2, b2, m.currency)
    BY <1>10, <2>2
  <2>5. CategoryAdded(s2, w, t2, m2, b2, k, m, m3, t3, b3)
    BY <2>2, <2>3, <2>4 DEF CategoryAdded
  <2>6. /\ ComesTo(s2 \o CreditUnlessZero(k, m), w, t3, m3, b3, m.currency)
        /\ Len(s2 \o CreditUnlessZero(k, m)) = Len(s2) + (IF m.amount = 0 THEN 0 ELSE 1)
    BY <2>5, CategoryComesTo
  <2> QED
    BY <1>1, <1>6, <2>1, <2>2, <2>6
<1>12. ComesTo(s4, w, t4, m4, b4, c) /\ Len(s4) = Len(s3) + (IF p = 0 THEN 0 ELSE 1)
  <2>1. PICK m, k : m = v.principal /\ k = "LoanReceivable"
    OBVIOUS
  <2>2. m \in Money /\ k \in GLAccounts /\ b3 \in BOOLEAN /\ m.currency = c
    BY <1>2, <1>4, <1>5, <1>8, <2>1
  <2>3. m4 = Credited(m3, k, m.amount) /\ t4 = t3 + m.amount /\ b4 = (b3 /\ m.amount >= 0)
    BY <1>1, <1>7, <1>8, <2>1
  <2>4. ComesTo(s3, w, t3, m3, b3, m.currency)
    BY <1>11, <2>2
  <2>5. CategoryAdded(s3, w, t3, m3, b3, k, m, m4, t4, b4)
    BY <2>2, <2>3, <2>4 DEF CategoryAdded
  <2>6. /\ ComesTo(s3 \o CreditUnlessZero(k, m), w, t4, m4, b4, m.currency)
        /\ Len(s3 \o CreditUnlessZero(k, m)) = Len(s3) + (IF m.amount = 0 THEN 0 ELSE 1)
    BY <2>5, CategoryComesTo
  <2> QED
    BY <1>1, <1>6, <2>1, <2>2, <2>6
<1>13. ForwardLines(rule, v) = s4
  <2>1. rule \notin DOMAIN TwoLineRules /\ rule # "MOD01"
    BY RuleKindsAreDisjoint
  <2>2. PICK x, y, z : /\ x = CreditUnlessZero("FeeReceivable", v.fee)
                       /\ y = CreditUnlessZero("InterestReceivable", v.interest)
                       /\ z = CreditUnlessZero("LoanReceivable", v.principal)
    OBVIOUS
  <2>3. x \in Seq(Lines) /\ y \in Seq(Lines) /\ z \in Seq(Lines) /\ s1 \in Seq(Lines)
    BY <1>2, <1>5, <1>9, <2>2, CreditUnlessZeroType DEF ComesTo
  <2>4. ForwardLines(rule, v) = s1 \o CategoryLines(v)
    BY <1>1, <1>6, <2>1 DEF ForwardLines
  <2>5. CategoryLines(v) = (x \o y) \o z
    <3>1. CategoryLines(v) = x \o y \o z
      BY <2>2 DEF CategoryLines
    <3>2. x \o (y \o z) = (x \o y) \o z
      BY <2>3, ConcatAssociative
    <3> QED
      BY <3>1, <3>2
  <2>6. s1 \o ((x \o y) \o z) = (s1 \o (x \o y)) \o z /\ s1 \o (x \o y) = (s1 \o x) \o y
    <3>1. PICK xy : xy = x \o y /\ xy \in Seq(Lines)
      BY <2>3, ConcatProperties
    <3>0. PICK T : T = Lines
      OBVIOUS
    <3>4. /\ s1 \in Seq(T) /\ x \in Seq(T) /\ y \in Seq(T) /\ z \in Seq(T) /\ xy \in Seq(T)
      BY <2>3, <3>0, <3>1
    <3>2. (s1 \o xy) \o z = s1 \o (xy \o z)
      BY ONLY <3>4, ConcatAssociative
    <3>3. (s1 \o x) \o y = s1 \o (x \o y)
      BY ONLY <3>4, ConcatAssociative
    <3> QED
      BY <3>1, <3>2, <3>3
  <2> QED
    BY <1>6, <2>2, <2>4, <2>5, <2>6
<1>14. ValidateBalanced(s4) /\ TriggerAccepts(s4) <=> Len(s4) >= 2 /\ b4 /\ w = t4 /\ w <= MaxInt
  BY <1>12, AcceptedLines
<1>15. /\ t4 = f + i + p
       /\ b4 <=> w > 0 /\ f >= 0 /\ i >= 0 /\ p >= 0
       /\ Len(s4) >= 2 <=> f # 0 \/ i # 0 \/ p # 0
  <2>1. t4 = f + i + p
    BY <1>2, <1>8
  <2>2. b4 <=> w > 0 /\ f >= 0 /\ i >= 0 /\ p >= 0
    BY <1>8
  <2>3. Len(s4) >= 2 <=> f # 0 \/ i # 0 \/ p # 0
    BY <1>9, <1>10, <1>11, <1>12
  <2> QED
    BY <2>1, <2>2, <2>3
<1>16. ValidateBalanced(s4) /\ TriggerAccepts(s4)
         <=> f >= 0 /\ i >= 0 /\ p >= 0 /\ f + i + p \in 1 .. MaxInt
  <2>1. f + i + p \in 1 .. MaxInt => w = f + i + p
    <3>1. f + i + p \in 1 .. MaxInt => f + i + p \in Int64
      BY <1>2, MaxIntAssumption DEF Int64
    <3> QED
      BY <1>1, <3>1, WrapKeepsInt64
  <2> QED
    BY <1>2, <1>14, <1>15, <2>1, MaxIntAssumption
<1>17. ASSUME ValidateBalanced(s4), TriggerAccepts(s4) PROVE MovedBy(rule, v, s4)
  <2>1. w = f + i + p
    BY <1>14, <1>15, <1>17
  <2>2. /\ m1 \in [GLAccounts -> Int] /\ \A a \in GLAccounts : m1[a] = (IF a = acct THEN w ELSE 0)
    BY <1>2, <1>7 DEF Debited
  <2>3. /\ m2 \in [GLAccounts -> Int]
        /\ \A a \in GLAccounts : m2[a] = m1[a] - (IF a = "FeeReceivable" THEN f ELSE 0)
    BY <1>2, <1>7, <2>2, CreditedType
  <2>4. /\ m3 \in [GLAccounts -> Int]
        /\ \A a \in GLAccounts : m3[a] = m2[a] - (IF a = "InterestReceivable" THEN i ELSE 0)
    BY <1>2, <1>7, <2>3, CreditedType
  <2>5. \A a \in GLAccounts : m4[a] = m3[a] - (IF a = "LoanReceivable" THEN p ELSE 0)
    BY <1>2, <1>7, <2>4, CreditedType
  <2>6. \A a \in GLAccounts : Moved(s4, a) = m4[a]
    BY <1>12 DEF ComesTo
  <2>7. CASE rule \in {"REPAY01", "PAYOFF01"}
    <3>1. acct = "CashNostro"
      BY <1>1, <2>7 DEF AllocationRules
    <3>2. Moves(rule, v) = [CashNostro |-> f + i + p, FeeReceivable |-> -f,
                            InterestReceivable |-> -i, LoanReceivable |-> -p]
      BY <1>1, <2>7 DEF Moves
    <3> QED
      BY <1>2, <2>1, <2>2, <2>3, <2>4, <2>5, <2>6, <3>1, <3>2 DEF MovedBy
  <2>8. CASE rule = "CHGOFF01"
    <3>1. acct = "AllowanceForLoanLosses"
      BY <1>1, <2>8 DEF AllocationRules
    <3>2. Moves(rule, v) = [AllowanceForLoanLosses |-> f + i + p, FeeReceivable |-> -f,
                            InterestReceivable |-> -i, LoanReceivable |-> -p]
      BY <1>1, <2>8 DEF Moves
    <3> QED
      BY <1>2, <2>1, <2>2, <2>3, <2>4, <2>5, <2>6, <3>1, <3>2 DEF MovedBy
  <2> QED
    BY <2>7, <2>8 DEF AllocationRules
<1> QED
  BY <1>1, <1>13, <1>16, <1>17

\* Capitalization is accepted if the request is legal, and then moves the
\* interest and the fees into the principal (PRMOD01Lines).
LEMMA CapitalizationEntry ==
    ASSUME NEW v \in Values, CurrenciesAgree("MOD01", v)
    PROVE  LET s == ForwardLines("MOD01", v)
               f == v.fee.amount
               i == v.interest.amount
           IN  /\ ValidateBalanced(s) /\ TriggerAccepts(s)
                    <=> f >= 0 /\ i >= 0 /\ f + i \in 1 .. MaxInt
               /\ ValidateBalanced(s) /\ TriggerAccepts(s) => MovedBy("MOD01", v, s)
<1>1. PICK f, i, w, all : /\ f = v.fee.amount /\ i = v.interest.amount
                          /\ w = Wrap(i + f) /\ all = CapitalizationSum(v)
  OBVIOUS
<1>2. /\ v.fee \in Money /\ v.interest \in Money
      /\ f \in Int /\ i \in Int /\ f <= MaxInt /\ i <= MaxInt
      /\ all \in Money /\ all.amount = w /\ w \in Int /\ w <= MaxInt
  <2>1. i + f \in Int
    BY <1>1, ValueType
  <2>2. w \in Int64
    BY <1>1, <2>1, WrapIsInt64
  <2> QED
    BY <1>1, <2>2, ValueType, AllocationSumType, MaxIntAssumption DEF Int64
<1>3. PICK c : c = v.fee.currency
  OBVIOUS
<1>4. v.fee.currency = c /\ v.interest.currency = c /\ all.currency = c
  BY <1>1, <1>3, AllocationSumType DEF CurrenciesAgree
<1>5. "FeeReceivable" \in GLAccounts /\ "InterestReceivable" \in GLAccounts /\ "LoanReceivable" \in GLAccounts
  BY DEF GLAccounts
<1>6. PICK s1, s2, s3 : /\ s1 = <<Line("LoanReceivable", "DEBIT", all)>>
                        /\ s2 = s1 \o CreditUnlessZero("InterestReceivable", v.interest)
                        /\ s3 = s2 \o CreditUnlessZero("FeeReceivable", v.fee)
  OBVIOUS
<1>7. PICK m1, m2, m3 : /\ m1 = Debited("LoanReceivable", w)
                        /\ m2 = Credited(m1, "InterestReceivable", i)
                        /\ m3 = Credited(m2, "FeeReceivable", f)
  OBVIOUS
<1>8. PICK b1, b2, b3, t2, t3 :
          /\ b1 = (w > 0) /\ b2 = (b1 /\ i >= 0) /\ b3 = (b2 /\ f >= 0)
          /\ t2 = 0 + i /\ t3 = t2 + f
  OBVIOUS
<1>9. ComesTo(s1, w, 0, m1, b1, c) /\ Len(s1) = 1
  <2>1. PICK k : k = "LoanReceivable"
    OBVIOUS
  <2>2. m1 = [a \in GLAccounts |-> IF a = k THEN all.amount ELSE 0] /\ k \in GLAccounts
    BY <1>2, <1>5, <1>7, <2>1 DEF Debited
  <2>3. /\ ComesTo(<<Line(k, "DEBIT", all)>>, all.amount, 0, m1, all.amount > 0, all.currency)
        /\ Len(<<Line(k, "DEBIT", all)>>) = 1
    BY <1>2, <2>2, DebitComesTo
  <2> QED
    BY <1>2, <1>4, <1>6, <1>8, <2>1, <2>3
<1>10. ComesTo(s2, w, t2, m2, b2, c) /\ Len(s2) = Len(s1) + (IF i = 0 THEN 0 ELSE 1)
  <2>1. PICK m, k : m = v.interest /\ k = "InterestReceivable"
    OBVIOUS
  <2>2. m \in Money /\ k \in GLAccounts /\ b1 \in BOOLEAN /\ m.currency = c
    BY <1>2, <1>4, <1>5, <1>8, <2>1
  <2>3. m2 = Credited(m1, k, m.amount) /\ t2 = 0 + m.amount /\ b2 = (b1 /\ m.amount >= 0)
    BY <1>1, <1>7, <1>8, <2>1
  <2>4. ComesTo(s1, w, 0, m1, b1, m.currency)
    BY <1>9, <2>2
  <2>5. CategoryAdded(s1, w, 0, m1, b1, k, m, m2, t2, b2)
    BY <2>2, <2>3, <2>4 DEF CategoryAdded
  <2>6. /\ ComesTo(s1 \o CreditUnlessZero(k, m), w, t2, m2, b2, m.currency)
        /\ Len(s1 \o CreditUnlessZero(k, m)) = Len(s1) + (IF m.amount = 0 THEN 0 ELSE 1)
    BY <2>5, CategoryComesTo
  <2> QED
    BY <1>1, <1>6, <2>1, <2>2, <2>6
<1>11. ComesTo(s3, w, t3, m3, b3, c) /\ Len(s3) = Len(s2) + (IF f = 0 THEN 0 ELSE 1)
  <2>1. PICK m, k : m = v.fee /\ k = "FeeReceivable"
    OBVIOUS
  <2>2. m \in Money /\ k \in GLAccounts /\ b2 \in BOOLEAN /\ m.currency = c
    BY <1>2, <1>4, <1>5, <1>8, <2>1
  <2>3. m3 = Credited(m2, k, m.amount) /\ t3 = t2 + m.amount /\ b3 = (b2 /\ m.amount >= 0)
    BY <1>1, <1>7, <1>8, <2>1
  <2>4. ComesTo(s2, w, t2, m2, b2, m.currency)
    BY <1>10, <2>2
  <2>5. CategoryAdded(s2, w, t2, m2, b2, k, m, m3, t3, b3)
    BY <2>2, <2>3, <2>4 DEF CategoryAdded
  <2>6. /\ ComesTo(s2 \o CreditUnlessZero(k, m), w, t3, m3, b3, m.currency)
        /\ Len(s2 \o CreditUnlessZero(k, m)) = Len(s2) + (IF m.amount = 0 THEN 0 ELSE 1)
    BY <2>5, CategoryComesTo
  <2> QED
    BY <1>1, <1>6, <2>1, <2>2, <2>6
<1>12. ForwardLines("MOD01", v) = s3
  <2>1. ForwardLines("MOD01", v) = <<Line("LoanReceivable", "DEBIT", CapitalizationSum(v))>> \o
           CreditUnlessZero("InterestReceivable", v.interest) \o CreditUnlessZero("FeeReceivable", v.fee)
    BY RuleKindsAreDisjoint DEF ForwardLines
  <2> QED
    BY <1>1, <1>6, <2>1
<1>13. ValidateBalanced(s3) /\ TriggerAccepts(s3) <=> Len(s3) >= 2 /\ b3 /\ w = t3 /\ w <= MaxInt
  BY <1>11, AcceptedLines
<1>14. /\ t3 = i + f
       /\ b3 <=> w > 0 /\ f >= 0 /\ i >= 0
       /\ Len(s3) >= 2 <=> f # 0 \/ i # 0
  <2>1. t3 = i + f
    BY <1>2, <1>8
  <2>2. b3 <=> w > 0 /\ f >= 0 /\ i >= 0
    BY <1>8
  <2>3. Len(s3) >= 2 <=> f # 0 \/ i # 0
    BY <1>9, <1>10, <1>11
  <2> QED
    BY <2>1, <2>2, <2>3
<1>15. ValidateBalanced(s3) /\ TriggerAccepts(s3) <=> f >= 0 /\ i >= 0 /\ f + i \in 1 .. MaxInt
  <2>1. f + i \in 1 .. MaxInt => w = i + f
    <3>1. f + i \in 1 .. MaxInt => i + f \in Int64
      BY <1>2, MaxIntAssumption DEF Int64
    <3> QED
      BY <1>1, <3>1, WrapKeepsInt64
  <2> QED
    BY <1>2, <1>13, <1>14, <2>1, MaxIntAssumption
<1>16. ASSUME ValidateBalanced(s3), TriggerAccepts(s3) PROVE MovedBy("MOD01", v, s3)
  <2>1. w = i + f
    BY <1>13, <1>14, <1>16
  <2>2. /\ m1 \in [GLAccounts -> Int] /\ \A a \in GLAccounts : m1[a] = (IF a = "LoanReceivable" THEN w ELSE 0)
    BY <1>2, <1>7 DEF Debited
  <2>3. /\ m2 \in [GLAccounts -> Int]
        /\ \A a \in GLAccounts : m2[a] = m1[a] - (IF a = "InterestReceivable" THEN i ELSE 0)
    BY <1>2, <1>7, <2>2, CreditedType
  <2>4. \A a \in GLAccounts : m3[a] = m2[a] - (IF a = "FeeReceivable" THEN f ELSE 0)
    BY <1>2, <1>7, <2>3, CreditedType
  <2>5. \A a \in GLAccounts : Moved(s3, a) = m3[a]
    BY <1>11 DEF ComesTo
  <2>6. Moves("MOD01", v) = [LoanReceivable |-> i + f, InterestReceivable |-> -i, FeeReceivable |-> -f]
    BY <1>1 DEF Moves
  <2>7. ASSUME NEW a \in GLAccounts
        PROVE  Moved(s3, a) = IF a = "LoanReceivable" THEN i + f
                              ELSE IF a = "InterestReceivable" THEN -i
                              ELSE IF a = "FeeReceivable" THEN -f ELSE 0
    BY <1>2, <2>1, <2>2, <2>3, <2>4, <2>5
  <2> QED
    BY <2>6, <2>7 DEF MovedBy
<1> QED
  BY <1>1, <1>12, <1>15, <1>16

\* Between them the rules and the checks accept the legal requests.
LEMMA LegalIsAccepted ==
    ASSUME NEW rule \in ForwardRules, NEW v \in Values
    PROVE  /\ Legal(rule, v) => CurrenciesAgree(rule, v)
           /\ CurrenciesAgree(rule, v) =>
                 (ValidateBalanced(ForwardLines(rule, v)) /\ TriggerAccepts(ForwardLines(rule, v))
                    <=> Legal(rule, v))
<1>1. CASE rule \in DOMAIN TwoLineRules
  <2>1. CurrenciesAgree(rule, v)
    BY <1>1, RuleKindsAreDisjoint DEF CurrenciesAgree
  <2> QED
    BY <1>1, <2>1, TwoLineEntry, LegalByKind
<1>2. CASE rule \in DOMAIN AllocationRules
  <2>1. Legal(rule, v) => CurrenciesAgree(rule, v)
    BY <1>2, LegalByKind DEF CurrenciesAgree
  <2>2. CurrenciesAgree(rule, v) =>
          v.fee.currency = v.interest.currency /\ v.interest.currency = v.principal.currency
    BY <1>2 DEF CurrenciesAgree
  <2> QED
    BY <1>2, <2>1, <2>2, AllocationEntry, LegalByKind
<1>3. CASE rule = "MOD01"
  <2>1. Legal(rule, v) => CurrenciesAgree(rule, v)
    BY <1>3, LegalByKind, RuleKindsAreDisjoint DEF CurrenciesAgree
  <2>2. CurrenciesAgree(rule, v) => v.fee.currency = v.interest.currency
    BY <1>3 DEF CurrenciesAgree
  <2> QED
    BY <1>3, <2>1, <2>2, CapitalizationEntry, LegalByKind
<1> QED
  BY <1>1, <1>2, <1>3 DEF ForwardRules

\* What an accepted forward entry moves, whatever its rule.
LEMMA AcceptedMoves ==
    ASSUME NEW rule \in ForwardRules, NEW v \in Values, CurrenciesAgree(rule, v),
           ValidateBalanced(ForwardLines(rule, v)), TriggerAccepts(ForwardLines(rule, v))
    PROVE  MovedBy(rule, v, ForwardLines(rule, v))
BY TwoLineEntry, AllocationEntry, CapitalizationEntry DEF ForwardRules

\* A mirror takes back what its lines moved, and mirrors back to them.
LEMMA MirrorUndoes ==
    ASSUME NEW s \in Seq(Lines)
    PROVE  /\ \A a : Moved(s, a) + Moved(MirrorForReversal(s), a) = 0
           /\ MirrorForReversal(MirrorForReversal(s)) = s
<1>1. PICK t, u : t = MirrorForReversal(s) /\ u = MirrorForReversal(t)
  OBVIOUS
<1>2. t \in Seq(Lines) /\ DOMAIN t = DOMAIN s /\ u \in Seq(Lines) /\ DOMAIN u = DOMAIN s
  <2>1. t \in Seq(Lines) /\ Len(t) = Len(s)
    BY <1>1, MirrorType
  <2>2. u \in Seq(Lines) /\ Len(u) = Len(t)
    BY <1>1, <2>1, MirrorType
  <2> QED
    BY <2>1, <2>2
<1>3. \A i \in DOMAIN s : s[i] \in Lines
  OBVIOUS
<1>4. \A i \in DOMAIN s : t[i] = [s[i] EXCEPT !.direction = Opposite(s[i].direction)]
  BY <1>1 DEF MirrorForReversal
<1>5. ASSUME NEW a PROVE Moved(s, a) + Moved(t, a) = 0
  <2>1. PICK f, g, S : /\ f = [i \in DOMAIN s |-> Signed(s[i])] /\ g = [i \in DOMAIN t |-> Signed(t[i])]
                       /\ S = {i \in DOMAIN s : s[i].account = a}
    OBVIOUS
  <2>2. {i \in DOMAIN t : t[i].account = a} = S
    BY <1>2, <1>3, <1>4, <2>1 DEF Lines
  <2>3. \A i \in S : f[i] \in Int /\ g[i] = -f[i]
    <3>1. ASSUME NEW i \in DOMAIN s PROVE Signed(s[i]) \in Int /\ Signed(t[i]) = -Signed(s[i])
      <4>1. /\ s[i] \in Lines /\ t[i].amount = s[i].amount
            /\ t[i].direction = Opposite(s[i].direction)
        BY <1>3, <1>4 DEF Lines
      <4> QED
        BY <4>1 DEF Signed, Opposite, Lines, Directions
    <3> QED
      BY <1>2, <2>1, <3>1
  <2>4. IsFiniteSet(S)
    <3>1. PICK n \in Nat : DOMAIN s = 1 .. n
      OBVIOUS
    <3>2. IsFiniteSet(DOMAIN s) /\ S \in SUBSET DOMAIN s
      BY <2>1, <3>1, FS_Interval
    <3> QED
      BY <3>2, FS_Subset
  <2>5. SumFunctionOnSet(f, S) + SumFunctionOnSet(g, S) = 0
    BY <2>3, <2>4, SumOfOpposites
  <2> QED
    BY <2>1, <2>2, <2>5 DEF Moved
<1>6. u = s
  <2>1. ASSUME NEW i \in DOMAIN s PROVE u[i] = s[i]
    <3>1. s[i] \in Lines /\ t[i] = [s[i] EXCEPT !.direction = Opposite(s[i].direction)]
      BY <1>3, <1>4
    <3>2. u[i] = [t[i] EXCEPT !.direction = Opposite(t[i].direction)]
      BY <1>1, <1>2 DEF MirrorForReversal
    <3>3. PICK x, y, z : /\ x \in Lines /\ x = s[i]
                         /\ y = [x EXCEPT !.direction = Opposite(x.direction)]
                         /\ z = [y EXCEPT !.direction = Opposite(y.direction)]
      BY <3>1
    <3>4. x.direction \in Directions /\ Opposite(Opposite(x.direction)) = x.direction
      BY <3>3 DEF Lines, Directions, Opposite
    <3>5. y.direction = Opposite(x.direction) /\ z = [x EXCEPT !.direction = Opposite(y.direction)]
      BY <3>3 DEF Lines
    <3>6. z = [x EXCEPT !.direction = x.direction]
      BY <3>4, <3>5
    <3>7. z = x
      BY <3>3, <3>6 DEF Lines
    <3> QED
      BY <3>1, <3>2, <3>3, <3>7
  <2> QED
    BY <1>2, <2>1
<1> QED
  BY <1>1, <1>5, <1>6

\* A request and the entry built of it.
RulesInv ==
    /\ request.rule \in ForwardRules /\ request.value \in Values
    /\ entry = IF built /\ CurrenciesAgree(request.rule, request.value)
               THEN ForwardLines(request.rule, request.value) ELSE <<>>

\* The entry is always the one the request builds.
LEMMA RulesInvariant == RulesSpec => []RulesInv
<1>1. RulesInit => RulesInv
  <2>1. Amounts \subseteq Money
    BY CurrenciesAssumption DEF Amounts, Money
  <2> QED
    BY <2>1 DEF RulesInit, RulesInv, Values
<1>2. RulesInv /\ [RulesNext]_rulesVars => RulesInv'
  <2>1. RulesInv /\ Build => RulesInv'
    BY DEF RulesInv, Build
  <2>2. RulesInv /\ UNCHANGED rulesVars => RulesInv'
    BY DEF RulesInv, rulesVars
  <2> QED
    BY <2>1, <2>2 DEF RulesNext
<1> QED
  BY <1>1, <1>2, PTL DEF RulesSpec

\* An accepted entry was built, since an empty one is refused.
LEMMA AcceptedIsBuilt ==
    ASSUME RulesInv, Accepted
    PROVE  /\ CurrenciesAgree(request.rule, request.value)
           /\ entry = ForwardLines(request.rule, request.value)
<1>1. entry # <<>>
  BY DEF Accepted, TriggerAccepts, LinesArePlausible
<1> QED
  BY <1>1 DEF RulesInv

\* For every width of the integers, every currency and every forward request:
\* the rules and the two balance checks accept it exactly when no category is
\* negative, the categories share a currency, and their sum is positive and
\* fits (rules.go, ValidateBalanced, check_journal_entry_balanced).
THEOREM LegalRequestsAreAccepted == RulesSpec => []AcceptsExactlyTheLegalRequests
<1>1. RulesInv => AcceptsExactlyTheLegalRequests
  <2> SUFFICES ASSUME RulesInv, built
               PROVE  Accepted <=> Legal(request.rule, request.value)
    BY DEF AcceptsExactlyTheLegalRequests
  <2>1. PICK r, v : r = request.rule /\ v = request.value
    OBVIOUS
  <2>2. r \in ForwardRules /\ v \in Values
    BY <2>1 DEF RulesInv
  <2>3. /\ Legal(r, v) => CurrenciesAgree(r, v)
        /\ CurrenciesAgree(r, v) =>
              (ValidateBalanced(ForwardLines(r, v)) /\ TriggerAccepts(ForwardLines(r, v)) <=> Legal(r, v))
    BY <2>2, LegalIsAccepted
  <2>4. Accepted => CurrenciesAgree(r, v) /\ entry = ForwardLines(r, v)
    BY <2>1, AcceptedIsBuilt
  <2>5. CurrenciesAgree(r, v) => entry = ForwardLines(r, v)
    BY <2>1 DEF RulesInv
  <2> QED
    BY <2>1, <2>3, <2>4, <2>5 DEF Accepted
<1> QED
  BY <1>1, RulesInvariant, PTL

\* An accepted entry moves on every account what its rule documents, and
\* nothing is lost to a wrapped sum (allocationSum).
THEOREM AcceptedEntriesMoveWhatTheyShould == RulesSpec => []AcceptedEntryMovesWhatTheRuleSays
<1>1. RulesInv => AcceptedEntryMovesWhatTheRuleSays
  <2> SUFFICES ASSUME RulesInv, Accepted
               PROVE  MovedBy(request.rule, request.value, entry)
    BY DEF AcceptedEntryMovesWhatTheRuleSays, MovedBy
  <2>1. PICK r, v : r = request.rule /\ v = request.value
    OBVIOUS
  <2>2. /\ r \in ForwardRules /\ v \in Values /\ CurrenciesAgree(r, v) /\ entry = ForwardLines(r, v)
        /\ ValidateBalanced(ForwardLines(r, v)) /\ TriggerAccepts(ForwardLines(r, v))
    BY <2>1, AcceptedIsBuilt DEF RulesInv, Accepted
  <2>3. MovedBy(r, v, ForwardLines(r, v))
    BY <2>2, AcceptedMoves
  <2> QED
    BY <2>1, <2>2, <2>3
<1> QED
  BY <1>1, RulesInvariant, PTL

\* The reversal of an accepted entry is accepted, leaves every account where
\* it was, and is itself undone by a reversal (domain.MirrorForReversal).
THEOREM ReversalsUndo == RulesSpec => []ReversalUndoesTheEntry
<1>1. RulesInv => ReversalUndoesTheEntry
  <2> SUFFICES ASSUME RulesInv, Accepted PROVE ReversalUndoesTheEntry
    BY DEF ReversalUndoesTheEntry
  <2>1. PICK s : s = entry
    OBVIOUS
  <2>2. s \in Seq(Lines) /\ TriggerAccepts(s)
    BY <2>1, AcceptedIsBuilt, ForwardLinesType DEF RulesInv, Accepted
  <2>3. ValidateBalanced(MirrorForReversal(s)) /\ TriggerAccepts(MirrorForReversal(s))
    BY <2>2, MirrorIsAccepted
  <2>4. /\ \A a : Moved(s, a) + Moved(MirrorForReversal(s), a) = 0
        /\ MirrorForReversal(MirrorForReversal(s)) = s
    BY <2>2, MirrorUndoes
  <2> QED
    BY <2>1, <2>3, <2>4 DEF ReversalUndoesTheEntry
<1> QED
  BY <1>1, RulesInvariant, PTL
-----------------------------------------------------------------------------
(* Part 9.  What a client may be told of its post, while nothing fails.    *)

\* A post that no state of the ledger makes acceptable and whose key is its own.
Hopeless(r) == IsPost(r) /\ Illegal(r.body) /\ KeyIsItsOwn(r)

\* What a reply may tell a client of its post.
Just(r, status) ==
    /\ status = 400 => Illegal(r.body) \/ NamesATarget(r.body)
    /\ Hopeless(r) => \/ status = 400
                      \/ /\ status = 422
                         /\ r.body.adjusts # None \/ \E p \in Periods : periods[p].status = "Closed"

\* What a worker prepares, it builds from a well-formed body.
DraftAsAsked(r, lines) ==
    /\ ~Malformed(r.body)
    /\ ~IsReversal(r) => /\ CurrenciesAgree(r.body.rule, r.body.value)
                         /\ lines = ForwardLines(r.body.rule, r.body.value)

\* The four facts the invariant is made of.
DraftsAreAsAsked ==
    \A w \in Workers : pc[w] \in PreparingLabels => DraftAsAsked(req[w], draft[w].lines)

AnswersAreJust ==
    \A w \in Workers : pc[w] = "reply" /\ IsPost(req[w]) => Just(req[w], answer[w].status)

RepliesAreJust == \A r \in replies : IsPost(r.req) => Just(r.req, r.status)

HopelessLeavesNoTrace ==
    /\ \A r \in Requests : Hopeless(r) => ~Posted(r.key) /\ cache[r.key] = None
    /\ \A w \in Workers : pc[w] = "save" => ~Hopeless(req[w])

\* As long as no fault has happened, none of the three fault actions was the
\* last step.
LEMMA StepWithoutFault ==
    ASSUME Typed, NEW w \in Workers, Step(w), faults' = 0
    PROVE  faults = 0 /\ ~StatementFails(w) /\ ~CommitReplyLost(w) /\ ~SaveFails(w)
<1>1. faults \in Nat  BY DEF Typed, TypeOK, WorldTypeOK
<1>2. ~StatementFails(w) /\ ~CommitReplyLost(w) /\ ~SaveFails(w)
  BY <1>1 DEF StatementFails, CommitReplyLost, SaveFails
<1>3. faults' = faults
  <2>1. CASE Receive(w) \/ LookupCache(w) \/ Reply(w) \/ SaveCache(w) \/ RejectMalformed(w)
    BY <2>1 DEF Receive, LookupCache, Reply, SaveCache, RejectMalformed, budget
  <2>2. CASE BuildForward(w) \/ BuildReversal(w) \/ Stamp(w) \/ CheckPeriod(w) \/ ReadBalance(w)
    BY <2>2 DEF BuildForward, BuildReversal, Stamp, CheckPeriod, ReadBalance, budget
  <2>3. CASE RejectEntry(w) \/ ReturnWinner(w) \/ CommitEntry(w)
    BY <2>3 DEF RejectEntry, ReturnWinner, CommitEntry, budget
  <2>4. CASE CheckOrder(w) \/ ReadPeriod(w) \/ CommitClose(w) \/ Crash(w)
    BY <2>4 DEF CheckOrder, ReadPeriod, CommitClose, Crash, budget
  <2> QED  BY <1>2, <2>1, <2>2, <2>3, <2>4 DEF Step
<1> QED  BY <1>2, <1>3

\* A closed period is never opened again.
LEMMA StepKeepsClosed ==
    ASSUME Typed, NEW w \in Workers, Step(w), NEW p \in Periods, periods[p].status = "Closed"
    PROVE  periods'[p].status = "Closed"
<1>1. periods \in [Periods -> Rows]  BY DEF Typed, TypeOK, DbTypeOK
<1>2. CASE periods' = periods
  BY <1>2
<1>3. CASE Upsert(w)
  BY <1>1, <1>3 DEF Upsert
<1> QED
  BY <1>2, <1>3 DEF Step, Receive, LookupCache, Reply, SaveCache, RejectMalformed, BuildForward,
       BuildReversal, Stamp, CheckPeriod, ReadBalance, RejectEntry, ReturnWinner, CommitEntry,
       CheckOrder, ReadPeriod, CommitClose, StatementFails, CommitReplyLost, SaveFails, Crash,
       Insert, db

\* So a reply that was just stays just.
LEMMA JustStays ==
    ASSUME Typed, NEW w \in Workers, Step(w), NEW r, NEW status, Just(r, status)
    PROVE  Just(r, status)'
BY StepKeepsClosed DEF Just, Hopeless, IsPost

\* A well-formed request that is bad all the same is a forward one whose value
\* no rule can post.
LEMMA IllegalIfWellFormed ==
    ASSUME NEW r \in Requests, IsPost(r), ~Malformed(r.body)
    PROVE  Illegal(r.body) <=> ~IsReversal(r) /\ ~Legal(r.body.rule, r.body.value)
BY DEF Illegal, Malformed, IsReversal

\* A malformed body is illegal.
LEMMA MalformedIsIllegal ==
    ASSUME NEW b, Malformed(b)
    PROVE  Illegal(b)
BY DEF Illegal, Malformed

\* What the constructor and the trigger make of lines that are as asked.
LEMMA VerdictOnForward ==
    ASSUME NEW r \in Requests, IsPost(r), ~IsReversal(r), NEW ls, DraftAsAsked(r, ls)
    PROVE  /\ ~Malformed(r.body)
           /\ Illegal(r.body) <=> ~(ValidateBalanced(ls) /\ TriggerAccepts(ls))
<1>1. /\ r.body.rule \in ForwardRules /\ r.body.value \in Values
  BY RequestType DEF DraftAsAsked, Malformed, IsReversal, RuleCodes, Bodies
<1>2. PICK rule \in ForwardRules, v \in Values : rule = r.body.rule /\ v = r.body.value
  BY <1>1
<1>3. CurrenciesAgree(rule, v) /\ ls = ForwardLines(rule, v) /\ ~Malformed(r.body)
  BY <1>2 DEF DraftAsAsked
<1>4. ValidateBalanced(ForwardLines(rule, v)) /\ TriggerAccepts(ForwardLines(rule, v)) <=> Legal(rule, v)
  BY <1>3, LegalIsAccepted
<1>5. Illegal(r.body) <=> ~Legal(rule, v)
  BY <1>2, <1>3, IllegalIfWellFormed
<1> QED  BY <1>3, <1>4, <1>5

\* The draft of the acting worker stays the one its request asks for.
LEMMA OwnDraftAsAsked ==
    ASSUME Typed, DraftsAreAsAsked, NEW w \in Workers, Step(w), pc'[w] \in PreparingLabels
    PROVE  DraftAsAsked(req'[w], draft'[w].lines)
<1>1. pc \in [Workers -> Labels] /\ draft \in [Workers -> Drafts]
  BY DEF Typed, TypeOK, JobTypeOK
<1>2. BuildForward(w) \/ BuildReversal(w) \/ Stamp(w) \/ CheckPeriod(w) \/ ReadBalance(w)
  BY StepPrepares
<1>3. CASE BuildForward(w)
  <2>1. CurrenciesAgree(req[w].body.rule, req[w].body.value)
    BY <1>1, <1>3 DEF BuildForward, Answer, PreparingLabels
  <2>2. draft' = [draft EXCEPT ![w].lines = ForwardLines(req[w].body.rule, req[w].body.value)]
    BY <1>3, <2>1 DEF BuildForward, Prepare
  <2>3. draft'[w].lines = ForwardLines(req[w].body.rule, req[w].body.value)
    BY <1>1, <2>2 DEF Drafts
  <2> QED
    BY <1>3, <2>1, <2>3 DEF BuildForward, DraftAsAsked
<1>4. CASE BuildReversal(w)
  BY <1>4 DEF BuildReversal, DraftAsAsked
<1>5. CASE Stamp(w)
  <2>1. draft'[w].lines = draft[w].lines /\ pc[w] = "stamp" /\ req' = req
    BY <1>1, <1>5 DEF Stamp, Drafts
  <2> QED  BY <2>1 DEF DraftsAreAsAsked, PreparingLabels
<1>6. CASE CheckPeriod(w)
  <2>1. draft'[w].lines = draft[w].lines /\ pc[w] = "period" /\ req' = req
    BY <1>6 DEF CheckPeriod
  <2> QED  BY <2>1 DEF DraftsAreAsAsked, PreparingLabels
<1>7. CASE ReadBalance(w)
  <2>1. draft'[w].lines = draft[w].lines /\ pc[w] = "balance" /\ req' = req
    BY <1>1, <1>7 DEF ReadBalance, Drafts
  <2> QED  BY <2>1 DEF DraftsAreAsAsked, PreparingLabels
<1> QED  BY <1>2, <1>3, <1>4, <1>5, <1>6, <1>7

\* So does the draft of every other worker, which its step leaves alone.
LEMMA StepKeepsAsked ==
    ASSUME Typed, DraftsAreAsAsked, NEW w \in Workers, Step(w)
    PROVE  DraftsAreAsAsked'
<1> SUFFICES ASSUME NEW v \in Workers, pc'[v] \in PreparingLabels
             PROVE  DraftAsAsked(req'[v], draft'[v].lines)
  BY DEF DraftsAreAsAsked, PreparingLabels, DraftAsAsked, IsReversal
<1>1. CASE v = w  BY <1>1, OwnDraftAsAsked
<1>2. CASE v # w
  <2>1. pc'[v] = pc[v] /\ req'[v] = req[v] /\ draft'[v] = draft[v]
    BY <1>2, OthersWait
  <2> QED  BY <2>1 DEF DraftsAreAsAsked
<1> QED  BY <1>1, <1>2

\* The verdicts a worker can come to, each just.
LEMMA SaysBadRequest ==
    ASSUME NEW r \in Requests, Illegal(r.body) \/ NamesATarget(r.body), NEW status, status = 400
    PROVE  Just(r, status)'
BY DEF Just

\* Anything but 400 may be said of a request that is not hopeless.
LEMMA SaysSomethingElse ==
    ASSUME NEW r, ~Hopeless(r), NEW status, status # 400
    PROVE  Just(r, status)'
BY DEF Just, Hopeless, IsPost

\* A reversal that is well formed is not refused for its entry.
LEMMA ReversalIsTaken ==
    ASSUME IInv, DraftsAreAsAsked, NEW w \in Workers, pc[w] = "commit", IsReversal(req[w])
    PROVE  /\ ValidateBalanced(draft[w].lines) /\ TriggerAccepts(draft[w].lines)
           /\ TargetExists(Entry(w))
           /\ ~Illegal(req[w].body)
<1>1. PICK o \in journal : o.key = req[w].body.target /\ draft[w].lines = MirrorForReversal(o.lines)
  BY DEF IInv, ReversalDrafts, Mirrors
<1>2. o.lines \in Seq(Lines) /\ TriggerAccepts(o.lines)
  BY <1>1 DEF IInv, TypeOK, DbTypeOK, Entries, EntriesBalance
<1>3. ValidateBalanced(draft[w].lines) /\ TriggerAccepts(draft[w].lines)
  BY <1>1, <1>2, MirrorIsAccepted
<1>4. Entry(w).reverses = req[w].body.target
  BY DEF Entry
<1>5. TargetExists(Entry(w))
  BY <1>1, <1>4 DEF TargetExists, Posted
<1>6. req[w] \in Requests /\ IsPost(req[w])
  BY BusyWorker DEF IInv, Typed, HandlerLabels
<1>7. ~Malformed(req[w].body)
  BY DEF DraftsAreAsAsked, PreparingLabels, DraftAsAsked
<1>8. ~Illegal(req[w].body)
  BY <1>6, <1>7, IllegalIfWellFormed
<1> QED  BY <1>3, <1>5, <1>8

\* A forward request is refused for its entry only if its value, or the
\* target it names, is at fault; and a hopeless one is never inserted.
LEMMA ForwardIsJudged ==
    ASSUME IInv, DraftsAreAsAsked, NEW w \in Workers, pc[w] = "commit", ~IsReversal(req[w])
    PROVE  /\ Illegal(req[w].body)
                <=> ~(ValidateBalanced(draft[w].lines) /\ TriggerAccepts(draft[w].lines))
           /\ ~TargetExists(Entry(w)) => NamesATarget(req[w].body)
<1>1. req[w] \in Requests /\ IsPost(req[w])
  BY BusyWorker DEF IInv, Typed, HandlerLabels
<1>2. DraftAsAsked(req[w], draft[w].lines)
  BY DEF DraftsAreAsAsked, PreparingLabels
<1>3. Entry(w).reverses = req[w].body.target
  BY DEF Entry
<1>4. ~TargetExists(Entry(w)) => NamesATarget(req[w].body)
  BY <1>3 DEF TargetExists, NamesATarget, IsReversal
<1> QED  BY <1>1, <1>2, <1>4, VerdictOnForward

\* Nothing hopeless is inserted.
LEMMA HopelessIsNotInserted ==
    ASSUME IInv, DraftsAreAsAsked, NEW w \in Workers, pc[w] = "commit", Hopeless(req[w])
    PROVE  ~(ValidateBalanced(draft[w].lines) /\ TriggerAccepts(draft[w].lines))
BY ReversalIsTaken, ForwardIsJudged DEF Hopeless

\* What holds of the answers while no statement has failed.
JustSoFar == DraftsAreAsAsked /\ AnswersAreJust /\ RepliesAreJust /\ HopelessLeavesNoTrace

\* Which actions leave a worker about to reply to a post.
LEMMA StepAnswersPost ==
    ASSUME Typed, NEW w \in Workers, Step(w), pc'[w] = "reply", IsPost(req'[w]),
           ~StatementFails(w), ~CommitReplyLost(w)
    PROVE  /\ req' = req
           /\ \/ LookupCache(w) \/ RejectMalformed(w) \/ BuildForward(w) \/ BuildReversal(w)
              \/ CheckPeriod(w) \/ RejectEntry(w) \/ ReturnWinner(w) \/ CommitEntry(w)
<1> USE DEF Goto, Answer, Release
<1>1. pc \in [Workers -> Labels]  BY DEF Typed, TypeOK, JobTypeOK
<1>2. ~Receive(w) /\ ~Reply(w) /\ ~SaveCache(w) /\ ~SaveFails(w) /\ ~Crash(w)
  BY <1>1 DEF Receive, Reply, SaveCache, SaveFails, Crash
<1>3. ~Stamp(w) /\ ~ReadBalance(w)
  BY <1>1 DEF Stamp, ReadBalance
<1>4. ~CheckOrder(w) /\ ~ReadPeriod(w) /\ ~CommitClose(w)
  BY BusyWorker DEF CheckOrder, ReadPeriod, CommitClose, CloseLabels
<1>5. \/ LookupCache(w) \/ RejectMalformed(w) \/ BuildForward(w) \/ BuildReversal(w)
      \/ CheckPeriod(w) \/ RejectEntry(w) \/ ReturnWinner(w) \/ CommitEntry(w)
  BY <1>2, <1>3, <1>4 DEF Step
<1> QED
  BY <1>5 DEF LookupCache, RejectMalformed, BuildForward, BuildReversal, CheckPeriod,
              RejectEntry, ReturnWinner, CommitEntry

\* A replay or a conflict is no bad request, and a hopeless request has
\* nothing to replay or to conflict with.
LEMMA LookupIsJust ==
    ASSUME Typed, HopelessLeavesNoTrace, NEW w \in Workers, LookupCache(w), pc'[w] = "reply",
           NEW r, r = req[w], NEW status, status = answer'[w].status
    PROVE  Just(r, status)'
<1>1. pc \in [Workers -> Labels] /\ answer \in [Workers -> Answers]
      /\ cache \in [Keys -> {None} \cup Envelopes]
  BY DEF Typed, TypeOK, JobTypeOK, DbTypeOK
<1>2. r \in Requests /\ r.key \in Keys
  BY BusyWorker DEF LookupCache
<1>3. cache[r.key] # None
  BY <1>1 DEF LookupCache, Goto
<1>4. status = 409 \/ status = cache[r.key].status
  BY <1>1, <1>3 DEF LookupCache, Answer
<1>5. cache[r.key].status \in {200, 201}
  BY <1>1, <1>2, <1>3 DEF Envelopes
<1>6. status # 400
  BY <1>4, <1>5
<1>7. ~Hopeless(r)
  BY <1>2, <1>3 DEF HopelessLeavesNoTrace
<1> QED  BY <1>6, <1>7, SaysSomethingElse

\* Only a malformed body is refused before anything is built.
LEMMA RejectMalformedIsJust ==
    ASSUME Typed, NEW w \in Workers, RejectMalformed(w),
           NEW r, r = req[w], NEW status, status = answer'[w].status
    PROVE  Just(r, status)'
<1>1. status = 400
  BY DEF RejectMalformed, Answer, Typed, TypeOK, JobTypeOK
<1>2. r \in Requests
  BY BusyWorker DEF RejectMalformed
<1>3. Illegal(r.body)
  BY MalformedIsIllegal DEF RejectMalformed
<1> QED  BY <1>1, <1>2, <1>3, SaysBadRequest

\* A forward body is refused for its currencies only if they differ.
LEMMA BuildForwardIsJust ==
    ASSUME Typed, NEW w \in Workers, BuildForward(w), pc'[w] = "reply",
           NEW r, r = req[w], NEW status, status = answer'[w].status
    PROVE  Just(r, status)'
<1>1. pc \in [Workers -> Labels] /\ answer \in [Workers -> Answers]
  BY DEF Typed, TypeOK, JobTypeOK
<1>2. r \in Requests /\ IsPost(r) /\ ~Malformed(r.body) /\ ~IsReversal(r) /\ r.body \in Bodies
  BY BusyWorker DEF BuildForward, HandlerLabels
<1>3. ~CurrenciesAgree(r.body.rule, r.body.value)
  BY <1>1 DEF BuildForward, Prepare, Goto
<1>4. status = 400
  BY <1>1, <1>3 DEF BuildForward, Answer
<1>5. r.body.rule \in ForwardRules /\ r.body.value \in Values
  BY <1>2 DEF Malformed, IsReversal, RuleCodes, Bodies
<1>6. PICK rule \in ForwardRules, v \in Values : rule = r.body.rule /\ v = r.body.value
  BY <1>5
<1>7. Legal(rule, v) => CurrenciesAgree(rule, v)
  BY LegalIsAccepted
<1>8. Illegal(r.body)
  BY <1>2, <1>3, <1>6, <1>7, IllegalIfWellFormed
<1> QED  BY <1>2, <1>4, <1>8, SaysBadRequest

\* A reversal refused for its target is well formed, and told 422.
LEMMA BuildReversalIsJust ==
    ASSUME Typed, NEW w \in Workers, BuildReversal(w), pc'[w] = "reply",
           NEW r, r = req[w], NEW status, status = answer'[w].status
    PROVE  Just(r, status)'
<1>1. pc \in [Workers -> Labels] /\ answer \in [Workers -> Answers]
  BY DEF Typed, TypeOK, JobTypeOK
<1>2. r \in Requests /\ IsPost(r) /\ ~Malformed(r.body) /\ IsReversal(r)
  BY BusyWorker DEF BuildReversal, HandlerLabels
<1>3. ~Prepare(w, MirrorForReversal(FindBySourceEventID(r.body.target).lines))
  BY <1>1 DEF Prepare, Goto
<1>4. Answer(w, 422, None)
  BY <1>3 DEF BuildReversal
<1>5. status = 422
  BY <1>1, <1>4 DEF Answer
<1>6. ~Hopeless(r)
  BY <1>2, IllegalIfWellFormed DEF Hopeless
<1> QED  BY <1>5, <1>6, SaysSomethingElse

\* A period refuses a post only if it is named, or closed.
LEMMA CheckPeriodIsJust ==
    ASSUME Typed, NEW w \in Workers, CheckPeriod(w), pc'[w] = "reply",
           NEW r, r = req[w], NEW status, status = answer'[w].status
    PROVE  Just(r, status)'
<1>1. pc \in [Workers -> Labels] /\ answer \in [Workers -> Answers]
  BY DEF Typed, TypeOK, JobTypeOK
<1>2. ~PeriodAccepts(r.body, draft[w].period) /\ status = 422
  BY <1>1 DEF CheckPeriod, Goto, Answer
<1>3. draft[w].period \in Periods
  BY DEF Typed, JobOK, CheckPeriod
<1>4. r.body.adjusts # None \/ \E p \in Periods : periods[p].status = "Closed"
  BY <1>2, <1>3 DEF PeriodAccepts, GetPeriod
<1>5. periods' = periods
  BY DEF CheckPeriod, db
<1> QED  BY <1>2, <1>4, <1>5 DEF Just, Hopeless, IsPost

\* An entry is refused only for its value or for the target it names.
LEMMA RejectEntryIsJust ==
    ASSUME IInv, DraftsAreAsAsked, NEW w \in Workers, RejectEntry(w),
           NEW r, r = req[w], NEW status, status = answer'[w].status
    PROVE  Just(r, status)'
<1>1. answer \in [Workers -> Answers] /\ pc[w] = "commit"
  BY DEF IInv, TypeOK, JobTypeOK, RejectEntry
<1>2. status = 400
  BY <1>1 DEF RejectEntry, Answer
<1>3. r \in Requests
  BY <1>1, BusyWorker DEF IInv, Typed
<1>4. ~(ValidateBalanced(draft[w].lines) /\ TargetExists(Entry(w)) /\ TriggerAccepts(draft[w].lines))
  BY DEF RejectEntry
<1>5. Illegal(r.body) \/ NamesATarget(r.body)
  BY <1>1, <1>4, ReversalIsTaken, ForwardIsJudged
<1> QED  BY <1>2, <1>3, <1>5, SaysBadRequest

\* What is posted, by this attempt or by an earlier one, was not hopeless.
LEMMA PostedIsJust ==
    ASSUME IInv, DraftsAreAsAsked, HopelessLeavesNoTrace, NEW w \in Workers,
           ReturnWinner(w) \/ CommitEntry(w),
           NEW r, r = req[w], NEW status, status = answer'[w].status
    PROVE  Just(r, status)'
<1>1. answer \in [Workers -> Answers] /\ pc[w] = "commit"
  BY DEF IInv, TypeOK, JobTypeOK, ReturnWinner, CommitEntry
<1>2. status = 201
  BY <1>1 DEF ReturnWinner, CommitEntry, Answer
<1>3. r \in Requests
  BY <1>1, BusyWorker DEF IInv, Typed
<1>4. ~Hopeless(r)
  <2>1. CASE ReturnWinner(w)
    BY <1>3, <2>1 DEF ReturnWinner, SourceEventIsFree, HopelessLeavesNoTrace
  <2>2. CASE CommitEntry(w)
    BY <1>1, <2>2, HopelessIsNotInserted DEF CommitEntry, Insert
  <2> QED  BY <2>1, <2>2
<1> QED  BY <1>2, <1>4, SaysSomethingElse

\* So every answer a worker comes to is just, as long as nothing failed.
LEMMA OwnAnswerIsJust ==
    ASSUME IInv, JustSoFar, NEW w \in Workers, Step(w),
           ~StatementFails(w), ~CommitReplyLost(w),
           NEW r, r = req'[w], NEW status, status = answer'[w].status,
           pc'[w] = "reply", IsPost(r)
    PROVE  Just(r, status)'
<1>1. Typed  BY DEF IInv, Typed
<1>2. DraftsAreAsAsked /\ HopelessLeavesNoTrace  BY DEF JustSoFar
<1>3. /\ req' = req
      /\ \/ LookupCache(w) \/ RejectMalformed(w) \/ BuildForward(w) \/ BuildReversal(w)
         \/ CheckPeriod(w) \/ RejectEntry(w) \/ ReturnWinner(w) \/ CommitEntry(w)
  BY <1>1, StepAnswersPost
<1>4. r = req[w]
  BY <1>3
<1>5. CASE LookupCache(w)  BY <1>1, <1>2, <1>4, <1>5, LookupIsJust
<1>6. CASE RejectMalformed(w)  BY <1>1, <1>4, <1>6, RejectMalformedIsJust
<1>7. CASE BuildForward(w)  BY <1>1, <1>4, <1>7, BuildForwardIsJust
<1>8. CASE BuildReversal(w)  BY <1>1, <1>4, <1>8, BuildReversalIsJust
<1>9. CASE CheckPeriod(w)  BY <1>1, <1>4, <1>9, CheckPeriodIsJust
<1>10. CASE RejectEntry(w)  BY <1>2, <1>4, <1>10, RejectEntryIsJust
<1>11. CASE ReturnWinner(w) \/ CommitEntry(w)  BY <1>2, <1>4, <1>11, PostedIsJust
<1> QED  BY <1>3, <1>5, <1>6, <1>7, <1>8, <1>9, <1>10, <1>11

\* Every worker holds a just answer after the step.
LEMMA StepKeepsAnswersJust ==
    ASSUME IInv, JustSoFar, NEW w \in Workers, Step(w),
           ~StatementFails(w), ~CommitReplyLost(w)
    PROVE  AnswersAreJust'
<1> SUFFICES ASSUME NEW v \in Workers, pc'[v] = "reply", IsPost(req'[v])
             PROVE  Just(req[v], answer[v].status)'
  BY DEF AnswersAreJust, IsPost
<1>1. PICK r, status : r = req'[v] /\ status = answer'[v].status
  OBVIOUS
<1>2. Just(r, status)'
  <2>1. CASE v = w
    BY <1>1, <2>1, OwnAnswerIsJust
  <2>2. CASE v # w
    <3>1. Typed  BY DEF IInv, Typed
    <3>2. pc[v] = "reply" /\ req[v] = r /\ answer[v].status = status
      BY <1>1, <2>2, <3>1, OthersWait
    <3>3. Just(r, status)
      BY <1>1, <3>2 DEF JustSoFar, AnswersAreJust
    <3> QED  BY <3>1, <3>3, JustStays
  <2> QED  BY <2>1, <2>2
<1> QED  BY <1>1, <1>2 DEF Just, Hopeless, IsPost

\* And every reply given is just, since it was held before.
LEMMA StepKeepsRepliesJust ==
    ASSUME IInv, JustSoFar, NEW w \in Workers, Step(w)
    PROVE  RepliesAreJust'
<1> SUFFICES ASSUME NEW x \in replies', IsPost(x.req)
             PROVE  Just(x.req, x.status)'
  BY DEF RepliesAreJust, IsPost
<1>1. PICK r, status : r = x.req /\ status = x.status
  OBVIOUS
<1>2. Typed  BY DEF IInv, Typed
<1>3. Just(r, status)
  <2>1. CASE x \in replies
    BY <1>1, <2>1 DEF JustSoFar, RepliesAreJust
  <2>2. CASE x \notin replies
    <3>1. Reply(w)
      BY <2>2, StepFrame
    <3>2. x.req = req[w] /\ x.status = answer[w].status /\ pc[w] = "reply"
      BY <2>2, <3>1 DEF Reply
    <3> QED  BY <1>1, <3>2 DEF JustSoFar, AnswersAreJust
  <2> QED  BY <2>1, <2>2
<1>4. Just(r, status)'  BY <1>2, <1>3, JustStays
<1> QED  BY <1>1, <1>4 DEF Just, Hopeless, IsPost

\* A hopeless request is answered 400 or 422, so nothing of it is saved, and
\* it is never inserted; no other request has its key.
LEMMA StepLeavesNoTrace ==
    ASSUME IInv, JustSoFar, NEW w \in Workers, Step(w)
    PROVE  HopelessLeavesNoTrace'
<1>1. Typed  BY DEF IInv, Typed
<1>2. pc \in [Workers -> Labels] /\ cache \in [Keys -> {None} \cup Envelopes]
  BY <1>1 DEF Typed, TypeOK, JobTypeOK, DbTypeOK
<1>3. ASSUME NEW r \in Requests, Hopeless(r)
      PROVE  ~Posted(r.key)' /\ cache'[r.key] = None
  <2>1. ~Posted(r.key) /\ cache[r.key] = None
    BY <1>3 DEF JustSoFar, HopelessLeavesNoTrace
  <2>2. \A v \in Workers : req[v] \in Requests /\ req[v].key = r.key => Hopeless(req[v])
    BY <1>3 DEF Hopeless, KeyIsItsOwn
  <2>3. ~Posted(r.key)'
    <3>1. CASE journal' = journal
      BY <2>1, <3>1 DEF Posted
    <3>2. CASE pc[w] = "commit" /\ Insert(w)
      <4>1. req[w] \in Requests /\ ~Hopeless(req[w])
        BY <1>1, <3>2, BusyWorker, HopelessIsNotInserted DEF JustSoFar, Insert
      <4>2. Entry(w).key = req[w].key /\ journal' = journal \cup {Entry(w)}
        BY <3>2 DEF Insert, Entry
      <4> QED  BY <2>1, <2>2, <4>1, <4>2 DEF Posted
    <3> QED  BY <3>1, <3>2, OnlyInsertPosts
  <2>4. cache'[r.key] = None
    <3>1. CASE cache' = cache
      BY <2>1, <3>1
    <3>2. CASE SaveCache(w)
      <4>1. req[w] \in Requests /\ ~Hopeless(req[w])
        BY <1>1, <3>2, BusyWorker DEF SaveCache, JustSoFar, HopelessLeavesNoTrace
      <4>2. r.key # req[w].key
        BY <2>2, <4>1
      <4>3. r.key \in Keys
        BY RequestType
      <4> QED  BY <1>2, <2>1, <3>2, <4>2, <4>3 DEF SaveCache
    <3> QED  BY <3>1, <3>2, StepFrame
  <2> QED  BY <2>3, <2>4
<1>4. ASSUME NEW v \in Workers, pc'[v] = "save"
      PROVE  ~Hopeless(req'[v])
  <2>1. CASE v # w
    BY <1>1, <1>4, <2>1, OthersWait DEF JustSoFar, HopelessLeavesNoTrace
  <2>2. CASE v = w
    <3>1. CASE Reply(w)
      <4>1. pc[w] = "reply" /\ answer[w].status \in 200 .. 299 /\ req' = req
        BY <1>2, <1>4, <2>2, <3>1 DEF Reply, Release
      <4>2. IsPost(req[w]) => Just(req[w], answer[w].status)
        BY <4>1 DEF JustSoFar, AnswersAreJust
      <4>3. answer[w].status # 400 /\ answer[w].status # 422
        BY <4>1
      <4> QED  BY <2>2, <4>1, <4>2, <4>3 DEF Just, Hopeless
    <3>2. CASE ~Reply(w)
      <4> USE DEF Goto, Answer, Release
      <4>1. ~Receive(w) /\ ~LookupCache(w) /\ ~SaveCache(w) /\ ~SaveFails(w) /\ ~Crash(w)
        BY <1>2, <1>4, <2>2 DEF Receive, LookupCache, SaveCache, SaveFails, Crash
      <4>2. ~RejectMalformed(w) /\ ~BuildForward(w) /\ ~BuildReversal(w)
        BY <1>2, <1>4, <2>2 DEF RejectMalformed, BuildForward, BuildReversal, Prepare
      <4>3. ~Stamp(w) /\ ~CheckPeriod(w) /\ ~ReadBalance(w)
        BY <1>2, <1>4, <2>2 DEF Stamp, CheckPeriod, ReadBalance
      <4>4. ~RejectEntry(w) /\ ~ReturnWinner(w) /\ ~CommitEntry(w)
        BY <1>2, <1>4, <2>2 DEF RejectEntry, ReturnWinner, CommitEntry
      <4>5. ~CheckOrder(w) /\ ~ReadPeriod(w) /\ ~CommitClose(w)
        BY <1>2, <1>4, <2>2 DEF CheckOrder, ReadPeriod, CommitClose
      <4>6. ~StatementFails(w) /\ ~CommitReplyLost(w)
        BY <1>2, <1>4, <2>2 DEF StatementFails, CommitReplyLost
      <4> QED  BY <3>2, <4>1, <4>2, <4>3, <4>4, <4>5, <4>6 DEF Step
    <3> QED  BY <3>1, <3>2
  <2> QED  BY <2>1, <2>2
<1>5. (\A r \in Requests : Hopeless(r) => ~Posted(r.key) /\ cache[r.key] = None)'
  BY <1>3 DEF Hopeless, KeyIsItsOwn, IsPost
<1>6. (\A v \in Workers : pc[v] = "save" => ~Hopeless(req[v]))'
  BY <1>4 DEF Hopeless, KeyIsItsOwn, IsPost
<1> QED  BY <1>5, <1>6 DEF HopelessLeavesNoTrace

\* At first nobody was told anything.
LEMMA InitJust == Init => JustSoFar
<1> SUFFICES ASSUME Init PROVE JustSoFar  OBVIOUS
<1>1. DraftsAreAsAsked /\ AnswersAreJust
  BY DEF Init, DraftsAreAsAsked, AnswersAreJust, PreparingLabels
<1>2. RepliesAreJust
  BY DEF Init, RepliesAreJust
<1>3. HopelessLeavesNoTrace
  <2>1. \A r \in Requests : r.key \in Keys
    BY RequestType
  <2> QED  BY <2>1 DEF Init, HopelessLeavesNoTrace, Posted
<1> QED  BY <1>1, <1>2, <1>3 DEF JustSoFar

\* The inductive invariant of this part, on top of IInv.
NoFaultJust == faults = 0 => JustSoFar

\* Each step keeps it, as long as no statement fails.
LEMMA NextJust == IInv /\ NoFaultJust /\ [Next]_vars => NoFaultJust'
<1> SUFFICES ASSUME IInv, NoFaultJust, [Next]_vars, faults' = 0
             PROVE  JustSoFar'
  BY DEF NoFaultJust
<1>1. CASE NextMonth \/ UNCHANGED vars
  <2>1. UNCHANGED <<journal, periods, cache, faults, pc, req, draft, answer, replies>>
    BY <1>1 DEF NextMonth, vars, db, budget, job
  <2>2. JustSoFar
    BY <2>1 DEF NoFaultJust
  <2>3. DraftsAreAsAsked' /\ AnswersAreJust'
    BY <2>1, <2>2 DEF JustSoFar, DraftsAreAsAsked, DraftAsAsked, IsReversal, AnswersAreJust,
                      Just, Hopeless, IsPost
  <2>4. RepliesAreJust' /\ HopelessLeavesNoTrace'
    BY <2>1, <2>2 DEF JustSoFar, RepliesAreJust, HopelessLeavesNoTrace, Posted, Just, Hopeless,
                      IsPost
  <2> QED  BY <2>3, <2>4 DEF JustSoFar
<1>2. ASSUME NEW w \in Workers, Step(w)
      PROVE  JustSoFar'
  <2>1. Typed  BY DEF IInv, Typed
  <2>2. faults = 0 /\ ~StatementFails(w) /\ ~CommitReplyLost(w)
    BY <1>2, <2>1, StepWithoutFault
  <2>3. JustSoFar
    BY <2>2 DEF NoFaultJust
  <2>4. DraftsAreAsAsked'
    BY <1>2, <2>1, <2>3, StepKeepsAsked DEF JustSoFar
  <2>5. AnswersAreJust'
    BY <1>2, <2>2, <2>3, StepKeepsAnswersJust
  <2>6. RepliesAreJust' /\ HopelessLeavesNoTrace'
    BY <1>2, <2>3, StepKeepsRepliesJust, StepLeavesNoTrace
  <2> QED  BY <2>4, <2>5, <2>6 DEF JustSoFar
<1> QED  BY <1>1, <1>2 DEF Next

\* As long as no statement has failed, 400 is said only of a bad request, and
\* a bad request is told nothing but 400, or 422 when a period explains it.
THEOREM BadRequestsAreTold == Spec => []BadRequestsAreIllegal
<1>1. IInv /\ NoFaultJust => BadRequestsAreIllegal
  <2>1. IInv => \A r \in replies : r.req \in Requests
    BY DEF IInv, TypeOK, Replies
  <2> QED
    BY <2>1 DEF NoFaultJust, JustSoFar, RepliesAreJust, BadRequestsAreIllegal, Just, Hopeless,
                RequestsAtFault, HopelessRequests
<1>2. Init => NoFaultJust
  BY InitJust DEF NoFaultJust
<1> QED
  BY <1>1, <1>2, NextJust, LedgerInvariant, PTL DEF Spec
=============================================================================
