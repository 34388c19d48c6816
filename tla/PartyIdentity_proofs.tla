------------------------ MODULE PartyIdentity_proofs -------------------------
(***************************************************************************)
(* Who a customer is, for any requests, visitors and bounds: a second      *)
(* party for a known person is explained by what was written down, a       *)
(* tombstone stands, and the versions of a document are a chain.           *)
(*                                                                         *)
(* No handler reads again what it writes, so that each result rests on     *)
(* what cannot change in between: who a party is (ssn, name and date of    *)
(* birth) is never written twice, parties and documents are only added to, *)
(* and of two uploads of one version the key lets in one.                  *)
(***************************************************************************)
EXTENDS PartyIdentity, FiniteSums_proofs, SequenceTheorems

PartyRows == [ssn : STRING, name : STRING, dob : STRING, email : STRING, phone : STRING,
              tombstoned : BOOLEAN, key : STRING, knew : Nat]
Papers    == [party : Nat, type : STRING, version : Nat \ {0}, supersedes : Nat]
News      == {"created", "updated", "tombstoned"} \X Nat
Results   == [party : Nat, rule : DOMAIN Confidence \cup {"NONE"}]
Founds    == [results : SUBSET Results, knew : Nat] \cup PartyRows \cup [version : Nat, id : Nat] \cup {NotGiven}
Visits    == [pc : {"outside", "write", "keep"}, asked : PartyRequests \cup {NotGiven}, found : Founds]

PartyTypeOK ==
    /\ parties \in Seq(PartyRows) /\ \A p \in OnFile : parties[p].knew \in 0 .. Len(parties)
    /\ documents \in Seq(Papers)
    /\ partyNews \in Seq(News)
    /\ visitors \in [Visitors -> Visits]
    /\ \A v \in Visitors : visitors[v].pc # "outside" => visitors[v].asked \in PartyRequests

\* The same person, by what is never updated.
Twin(a, p) == Same(a, p, "ssn") \/ (Same(a, p, "name") /\ Same(a, p, "dob"))

\* What a comparison of a with the first f.knew parties found.
Compared(a, f) ==
    /\ f \in [results : SUBSET Results, knew : 0 .. Len(parties)]
    /\ \A r \in f.results : r.party \in OnFile
    /\ \A r, s \in Confident(f.results) : r.party = s.party => r = s
    /\ \A p \in 1 .. f.knew : Twin(a, parties[p]) => \E r \in Confident(f.results) : r.party = p

\* What was the latest version of a document.
LatestSeen(party, type, f) ==
    /\ f \in [version : Nat, id : Nat]
    /\ f.version = 0 <=> f.id = 0
    /\ f.id # 0 => /\ f.id \in DOMAIN documents
                   /\ documents[f.id].party = party /\ documents[f.id].type = type
                   /\ documents[f.id].version = f.version

\* What a visitor is about to write still follows from what is on file.
ReadingsHold ==
    \A v \in Visitors : visitors[v].pc = "write" =>
        LET q == visitors[v].asked
            f == visitors[v].found
        IN  /\ q.op = "find" => Compared(q.person, f)
            /\ q.op # "find" => q.party \in OnFile
            /\ q.op = "update" => f \in PartyRows
            /\ q.op = "document" => LatestSeen(q.party, q.type, f)

NewsIsOfParties ==
    \A n \in DOMAIN partyNews : partyNews[n][1] = "tombstoned" => partyNews[n][2] \in OnFile

VersionsAreUnique ==
    /\ \A d \in DOMAIN documents : documents[d].version <= d
    /\ \A d, e \in DOMAIN documents :
          documents[d].party = documents[e].party /\ documents[d].type = documents[e].type
          /\ documents[d].version = documents[e].version => d = e

PartyInv ==
    /\ PartyTypeOK /\ ReadingsHold
    /\ DuplicatesAreExplained
    /\ NewsIsOfParties /\ TombstonesStand
    /\ VersionsAreUnique /\ DocumentVersionsAreAChain
-----------------------------------------------------------------------------
(* Reading.                                                                *)

USE DEF partydb, partyuse

LEMMA RequestShape ==
    ASSUME NEW q \in PartyRequests
    PROVE  /\ q.op \in {"find", "update", "tombstone", "document"} /\ q.key \in STRING
           /\ q.op = "find" => q.person \in [ssn : STRING, name : STRING, dob : STRING,
                                             email : STRING, phone : STRING]
           /\ q.op # "find" => q.party \in Nat
           /\ q.op = "update" => /\ q.email \in STRING \cup {NotGiven}
                                 /\ q.phone \in STRING \cup {NotGiven}
           /\ q.op = "document" => q.type \in STRING
BY PartyAssumption

LEMMA OnFileTyped ==
    ASSUME PartyTypeOK, NEW p \in OnFile
    PROVE  parties[p] \in PartyRows /\ p \in Nat /\ Len(parties) \in Nat
BY ElementOfSeq DEF PartyTypeOK, OnFile

LEMMA PapersTyped ==
    ASSUME PartyTypeOK
    PROVE  /\ DOMAIN documents = 1 .. Len(documents) /\ Len(documents) \in Nat
           /\ \A d \in DOMAIN documents : documents[d] \in Papers
BY ElementOfSeq, LenProperties DEF PartyTypeOK

\* The latest version is that of a document on file.
LEMMA LatestVersionSeen ==
    ASSUME PartyTypeOK, VersionsAreUnique, NEW party, NEW type
    PROVE  LatestSeen(party, type, LatestVersion(party, type))
<1> DEFINE ds == Versions(party, type)
           IsLatest(d) == \A e \in ds : documents[e].version <= documents[d].version
           latest == CHOOSE d \in ds : IsLatest(d)
<1>1. CASE ds = {}
  BY <1>1 DEF LatestVersion, LatestSeen
<1>2. CASE ds # {}
  <2>1. \A d \in ds : documents[d].version \in Nat \ {0} /\ documents[d].version <= Len(documents)
                      /\ d \in DOMAIN documents /\ d \in Nat \ {0}
    BY PapersTyped DEF Versions, VersionsAreUnique, Papers
  <2>2. \E d \in ds : IsLatest(d)
    <3> DEFINE S == {Len(documents) - documents[d].version : d \in ds}
    <3>1. S \in SUBSET Nat /\ S # {}
      BY <1>2, <2>1, PapersTyped
    <3>2. PICK n \in S : \A m \in S : n <= m
      <4> HIDE DEF S
      <4> QED
        BY <3>1, Smallest
    <3>3. PICK d \in ds : n = Len(documents) - documents[d].version
      BY <3>2
    <3>4. \A e \in ds : Len(documents) - documents[e].version \in S
      OBVIOUS
    <3>5. \A e \in ds : documents[e].version <= documents[d].version
      <4> HIDE DEF S
      <4> QED
        BY <2>1, <3>2, <3>3, <3>4, PapersTyped
    <3> QED
      BY <3>5
  <2>3. latest \in ds
    <3> HIDE DEF IsLatest
    <3> QED
      BY <2>2
  <2>4. LatestVersion(party, type) = [version |-> documents[latest].version, id |-> latest]
    BY <1>2 DEF LatestVersion
  <2> HIDE DEF latest
  <2> QED
    BY <2>1, <2>3, <2>4 DEF LatestSeen, Versions
<1> QED
  BY <1>1, <1>2

\* A twin of the applicant is recognised with confidence.
LEMMA TwinsAreRecognised ==
    ASSUME NEW a, NEW p, Twin(a, p)
    PROVE  /\ Rule(a, p) \in {"SSN_EXACT", "NAME_DOB_EXACT"}
           /\ Confidence[Rule(a, p)] >= AutoMatchThreshold
<1>1. Rule(a, p) \in {"SSN_EXACT", "NAME_DOB_EXACT"}
  BY DEF Twin, Rule
<1> QED
  BY <1>1 DEF Confidence, AutoMatchThreshold

LEMMA ComparisonHolds ==
    ASSUME PartyTypeOK, NEW a
    PROVE  Compared(a, [results |-> EvaluateAll(a), knew |-> Len(parties)])
<1> DEFINE result(p) == [party |-> p, rule |-> Rule(a, parties[p])]
<1>1. \A r \in EvaluateAll(a) : r.party \in OnFile /\ r = result(r.party) /\ r \in Results
  <2>1. \A p \in OnFile : Rule(a, parties[p]) \in DOMAIN Confidence \cup {"NONE"}
    BY DEF Rule, Confidence
  <2>2. \A r \in EvaluateAll(a) : \E p \in OnFile : r = result(p)
    BY DEF EvaluateAll, Candidates
  <2> QED
    BY <2>1, <2>2, OnFileTyped DEF Results
<1>2. ASSUME NEW p \in OnFile, Twin(a, parties[p]) PROVE result(p) \in Confident(EvaluateAll(a))
  <2>1. p \in Candidates(a)
    BY <1>2 DEF Candidates, Twin
  <2>2. Rule(a, parties[p]) # "NONE" /\ Confidence[Rule(a, parties[p])] >= AuditFloor
    BY <1>2, TwinsAreRecognised DEF Confidence, AuditFloor
  <2> QED
    BY <1>2, <2>1, <2>2, TwinsAreRecognised DEF EvaluateAll, Confident
<1>3. Len(parties) \in 0 .. Len(parties)
  BY DEF PartyTypeOK
<1> HIDE DEF result
<1>4. \A r, s \in Confident(EvaluateAll(a)) : r.party = s.party => r = s
  BY <1>1 DEF Confident
<1>5. \A p \in OnFile : Twin(a, parties[p]) => \E r \in Confident(EvaluateAll(a)) : r.party = p
  BY <1>2 DEF result
<1> QED
  BY <1>1, <1>3, <1>4, <1>5 DEF Compared, OnFile

\* What a visitor goes on with.
LEMMA ReadTyped ==
    ASSUME PartyTypeOK, VersionsAreUnique, NEW q \in PartyRequests
    PROVE  /\ Read(q) \in Visits
           /\ Read(q).pc # "outside" => Read(q).asked = q
           /\ Read(q).pc = "write" =>
                 /\ q.op = "find" => Compared(q.person, Read(q).found)
                 /\ q.op # "find" => q.party \in OnFile
                 /\ q.op = "update" => Read(q).found \in PartyRows
                 /\ q.op = "document" => LatestSeen(q.party, q.type, Read(q).found)
<1> DEFINE go(pc, found) == [pc |-> pc, asked |-> q, found |-> found]
           compared == [results |-> EvaluateAll(q.person), knew |-> Len(parties)]
<1>1. Outside \in Visits /\ Outside.pc = "outside"
  BY DEF Outside, Visits, Founds
<1>2. CASE q.op = "find"
  <2>1. Read(q) = go("write", compared)
    BY <1>2 DEF Read
  <2>2. Compared(q.person, compared)
    BY ComparisonHolds
  <2>3. compared \in Founds
    BY <2>2 DEF Compared, Founds, PartyTypeOK
  <2> HIDE DEF compared
  <2> QED
    BY <1>2, <2>1, <2>2, <2>3 DEF Visits
<1>3. CASE q.op = "document"
  <2>1. LatestSeen(q.party, q.type, LatestVersion(q.party, q.type))
    BY LatestVersionSeen
  <2>2. LatestVersion(q.party, q.type) \in Founds
    BY <2>1 DEF LatestSeen, Founds
  <2>3. Read(q) = IF q.party \in OnFile THEN go("write", LatestVersion(q.party, q.type)) ELSE Outside
    BY <1>3 DEF Read
  <2> QED
    BY <1>1, <1>3, <2>1, <2>2, <2>3 DEF Visits
<1>4. CASE q.op = "tombstone"
  <2>1. Read(q) \in {Outside, go("keep", NotGiven), go("write", NotGiven)}
        /\ (Read(q) # Outside => q.party \in OnFile)
    BY <1>4 DEF Read
  <2> QED
    BY <1>1, <1>4, <2>1 DEF Visits, Founds
<1>5. CASE q.op = "update"
  <2>1. ASSUME q.party \in OnFile PROVE Contacts(q, parties[q.party]) \in PartyRows
    BY <1>5, <2>1, RequestShape, OnFileTyped DEF Contacts, Supplied, PartyRows
  <2>2. \/ Read(q) = Outside
        \/ /\ q.party \in OnFile
           /\ Read(q) \in {go("keep", NotGiven), go("write", Contacts(q, parties[q.party]))}
    BY <1>5 DEF Read, Contacts
  <2> QED
    BY <1>1, <1>5, <2>1, <2>2 DEF Visits, Founds
<1> QED
  BY <1>2, <1>3, <1>4, <1>5, RequestShape
-----------------------------------------------------------------------------
(* Writing.                                                                *)

\* What the writes find in a visitor's hands.
LEMMA InHand ==
    ASSUME PartyTypeOK, NEW v \in Visitors, visitors[v].pc # "outside"
    PROVE  visitors[v].asked \in PartyRequests
BY DEF PartyTypeOK

LEMMA FindStep ==
    ASSUME PartyTypeOK, ReadingsHold, NEW v \in Visitors, FindOrCreateParty(v)
    PROVE  \E q \in PartyRequests, f \in Founds :
              /\ q.op = "find" /\ Compared(q.person, f)
              /\ dedupAudit' = dedupAudit \cup {<<q.key, r.party, r.rule>> : r \in f.results}
              /\ documents' = documents
              /\ \/ UNCHANGED <<parties, partyNews>>
                 \/ /\ ~Matched(f.results)
                    /\ parties' \in Seq(PartyRows) /\ Len(parties') = Len(parties) + 1
                    /\ \A p \in OnFile : parties'[p] = parties[p]
                    /\ parties'[Len(parties) + 1] = NewParty(q, f.knew)
                    /\ partyNews' = Append(partyNews, <<"created", Len(parties) + 1>>)
<1> DEFINE q == visitors[v].asked
           f == visitors[v].found
           row == NewParty(q, f.knew)
<1>1. q \in PartyRequests /\ q.op = "find" /\ Compared(q.person, f)
  BY InHand DEF FindOrCreateParty, ReadingsHold
<1>2. row \in PartyRows
  BY <1>1, RequestShape DEF NewParty, PartyRows, Compared, PartyTypeOK
<1>3. f \in Founds
  BY DEF PartyTypeOK, Visits
<1>4. /\ Append(parties, row) \in Seq(PartyRows) /\ Len(Append(parties, row)) = Len(parties) + 1
      /\ \A p \in OnFile : Append(parties, row)[p] = parties[p]
      /\ Append(parties, row)[Len(parties) + 1] = row
  <2> HIDE DEF row
  <2> QED
    BY <1>2, AppendProperties DEF PartyTypeOK, OnFile
<1>5. /\ dedupAudit' = dedupAudit \cup {<<q.key, r.party, r.rule>> : r \in f.results}
      /\ documents' = documents
      /\ \/ UNCHANGED <<parties, partyNews>>
         \/ /\ ~Matched(f.results) /\ parties' = Append(parties, row)
            /\ partyNews' = Append(partyNews, <<"created", Len(parties) + 1>>)
  BY DEF FindOrCreateParty
<1> HIDE DEF q, f
<1> QED
  BY <1>1, <1>3, <1>4, <1>5

\* A party is rewritten in its place.
LEMMA PartyRewritten ==
    ASSUME PartyTypeOK, NEW p \in OnFile, NEW row \in PartyRows, parties' = [parties EXCEPT ![p] = row]
    PROVE  /\ parties' \in Seq(PartyRows) /\ Len(parties') = Len(parties)
           /\ \A o \in OnFile : parties'[o] = IF o = p THEN row ELSE parties[o]
BY ExceptSeq DEF PartyTypeOK, OnFile

LEMMA UpdateStep ==
    ASSUME PartyTypeOK, ReadingsHold, NEW v \in Visitors, UpdateParty(v)
    PROVE  \E p \in OnFile, row \in PartyRows :
              /\ parties' \in Seq(PartyRows) /\ Len(parties') = Len(parties)
              /\ \A o \in OnFile \ {p} : parties'[o] = parties[o]
              /\ parties'[p] = [parties[p] EXCEPT !.email = row.email, !.phone = row.phone]
              /\ partyNews' = Append(partyNews, <<"updated", p>>)
              /\ UNCHANGED <<dedupAudit, documents>>
<1> DEFINE p == visitors[v].asked.party
           row == visitors[v].found
           new == [parties[p] EXCEPT !.email = row.email, !.phone = row.phone]
<1>1. p \in OnFile /\ row \in PartyRows
  BY InHand DEF UpdateParty, ReadingsHold
<1>2. new \in PartyRows
  BY <1>1, OnFileTyped DEF PartyRows
<1>3. parties' = [parties EXCEPT ![p] = new]
  <2>1. DOMAIN parties = OnFile
    BY LenProperties DEF PartyTypeOK, OnFile
  <2> QED
    BY <1>1, <2>1 DEF UpdateParty, StoreContacts
<1>4. partyNews' = Append(partyNews, <<"updated", p>>) /\ UNCHANGED <<dedupAudit, documents>>
  BY DEF UpdateParty
<1>5. /\ parties' \in Seq(PartyRows) /\ Len(parties') = Len(parties)
      /\ \A o \in OnFile : parties'[o] = IF o = p THEN new ELSE parties[o]
  <2> HIDE DEF p, new
  <2> QED
    BY <1>1, <1>2, <1>3, PartyRewritten
<1> HIDE DEF p, row
<1> QED
  BY <1>1, <1>4, <1>5

LEMMA TombstoneStep ==
    ASSUME PartyTypeOK, ReadingsHold, NEW v \in Visitors, TombstoneParty(v)
    PROVE  \E p \in OnFile :
              /\ parties' \in Seq(PartyRows) /\ Len(parties') = Len(parties)
              /\ \A o \in OnFile \ {p} : parties'[o] = parties[o]
              /\ parties'[p] = [parties[p] EXCEPT !.tombstoned = TRUE]
              /\ partyNews' = Append(partyNews, <<"tombstoned", p>>)
              /\ UNCHANGED <<dedupAudit, documents>>
<1> DEFINE p == visitors[v].asked.party
           new == [parties[p] EXCEPT !.tombstoned = TRUE]
<1>1. p \in OnFile
  BY InHand DEF TombstoneParty, ReadingsHold
<1>2. new \in PartyRows
  BY <1>1, OnFileTyped DEF PartyRows
<1>3. parties' = [parties EXCEPT ![p] = new]
  BY <1>1 DEF TombstoneParty
<1>4. partyNews' = Append(partyNews, <<"tombstoned", p>>) /\ UNCHANGED <<dedupAudit, documents>>
  BY DEF TombstoneParty
<1>5. /\ parties' \in Seq(PartyRows) /\ Len(parties') = Len(parties)
      /\ \A o \in OnFile : parties'[o] = IF o = p THEN new ELSE parties[o]
  <2> HIDE DEF p, new
  <2> QED
    BY <1>1, <1>2, <1>3, PartyRewritten
<1> HIDE DEF p
<1> QED
  BY <1>1, <1>4, <1>5

LEMMA DocumentStep ==
    ASSUME PartyTypeOK, ReadingsHold, NEW v \in Visitors, AddIdentityDocument(v)
    PROVE  /\ UNCHANGED <<parties, dedupAudit, partyNews>>
           /\ \/ documents' = documents
              \/ \E row \in Papers : \E f :
                    /\ LatestSeen(row.party, row.type, f)
                    /\ row.version = f.version + 1 /\ row.supersedes = f.id
                    /\ VersionIsFree(row.party, row.type, row.version)
                    /\ documents' \in Seq(Papers) /\ Len(documents') = Len(documents) + 1
                    /\ \A d \in DOMAIN documents : documents'[d] = documents[d]
                    /\ documents'[Len(documents) + 1] = row
<1> DEFINE q == visitors[v].asked
           f == visitors[v].found
           row == [party |-> q.party, type |-> q.type, version |-> f.version + 1, supersedes |-> f.id]
<1>1. q \in PartyRequests /\ q.op = "document" /\ LatestSeen(q.party, q.type, f)
  BY InHand DEF AddIdentityDocument, ReadingsHold
<1>2. row \in Papers
  BY <1>1, RequestShape DEF Papers, LatestSeen
<1>3. /\ Append(documents, row) \in Seq(Papers) /\ Len(Append(documents, row)) = Len(documents) + 1
      /\ \A d \in DOMAIN documents : Append(documents, row)[d] = documents[d]
      /\ Append(documents, row)[Len(documents) + 1] = row
  <2> HIDE DEF row
  <2> QED
    BY <1>2, AppendProperties, PapersTyped DEF PartyTypeOK
<1>4. /\ UNCHANGED <<parties, dedupAudit, partyNews>>
      /\ \/ documents' = documents
         \/ VersionIsFree(row.party, row.type, row.version) /\ documents' = Append(documents, row)
  BY DEF AddIdentityDocument
<1>5. LatestSeen(row.party, row.type, f) /\ row.version = f.version + 1 /\ row.supersedes = f.id
  BY <1>1
<1> HIDE DEF row, f
<1> QED
  BY <1>2, <1>3, <1>4, <1>5

LEMMA PartySteps ==
    ASSUME [PartyNext]_partyVars
    PROVE  \/ UNCHANGED <<parties, dedupAudit, documents, partyNews>>
           \/ \E v \in Visitors : FindOrCreateParty(v) \/ UpdateParty(v) \/ TombstoneParty(v) \/ AddIdentityDocument(v)
<1>1. ASSUME NEW v \in Visitors, NEW q \in PartyRequests, Knock(v, q)
      PROVE  UNCHANGED <<parties, dedupAudit, documents, partyNews>>
  BY <1>1 DEF Knock
<1>2. ASSUME NEW v \in Visitors, KeepAnswer(v) \/ VisitFails(v)
      PROVE  UNCHANGED <<parties, dedupAudit, documents, partyNews>>
  BY <1>2 DEF KeepAnswer, VisitFails
<1>3. ASSUME PartyRestart PROVE UNCHANGED <<parties, dedupAudit, documents, partyNews>>
  BY <1>3 DEF PartyRestart
<1> QED
  BY <1>1, <1>2, <1>3 DEF PartyNext, partyVars

\* A visitor goes on with what it reads, stays where it is, or is done writing.
LEMMA VisitorSteps ==
    ASSUME PartyTypeOK, VersionsAreUnique, [PartyNext]_partyVars
    PROVE  /\ visitors' \in [Visitors -> Visits]
           /\ \A w \in Visitors :
                 /\ visitors'[w].pc # "outside" => visitors'[w].asked \in PartyRequests
                 /\ \/ visitors'[w].pc # "write" \/ visitors'[w] = visitors[w]
                    \/ /\ UNCHANGED <<parties, dedupAudit, documents, partyNews>>
                       /\ \E q \in PartyRequests : visitors'[w] = Read(q)
<1>0. Outside \in Visits /\ Outside.pc = "outside" /\ visitors \in [Visitors -> Visits]
  BY DEF Outside, Visits, Founds, PartyTypeOK
<1>1. ASSUME NEW v \in Visitors, NEW q \in PartyRequests, Knock(v, q)
      PROVE  /\ UNCHANGED <<parties, dedupAudit, documents, partyNews>>
             /\ visitors' = visitors \/ visitors' = [visitors EXCEPT ![v] = Read(q)]
  BY <1>1 DEF Knock
<1>2. ASSUME NEW v \in Visitors,
             \/ FindOrCreateParty(v) \/ UpdateParty(v) \/ TombstoneParty(v) \/ AddIdentityDocument(v)
             \/ KeepAnswer(v) \/ VisitFails(v)
      PROVE  Depart(v) \/ (Proceed(v, "keep") /\ visitors[v].pc = "write")
  BY <1>2 DEF FindOrCreateParty, UpdateParty, TombstoneParty, AddIdentityDocument, KeepAnswer, VisitFails
<1>3. ASSUME NEW v \in Visitors, NEW visit \in Visits, visitors' = [visitors EXCEPT ![v] = visit],
             visit.pc # "outside" => visit.asked \in PartyRequests,
             \/ visit.pc # "write"
             \/ /\ UNCHANGED <<parties, dedupAudit, documents, partyNews>>
                /\ \E q \in PartyRequests : visit = Read(q)
      PROVE  /\ visitors' \in [Visitors -> Visits]
             /\ \A w \in Visitors :
                   /\ visitors'[w].pc # "outside" => visitors'[w].asked \in PartyRequests
                   /\ \/ visitors'[w].pc # "write" \/ visitors'[w] = visitors[w]
                      \/ /\ UNCHANGED <<parties, dedupAudit, documents, partyNews>>
                         /\ \E q \in PartyRequests : visitors'[w] = Read(q)
  BY <1>0, <1>3 DEF PartyTypeOK
<1>4. ASSUME NEW v \in Visitors, Proceed(v, "keep"), visitors[v].pc = "write"
      PROVE  \E visit \in Visits : /\ visitors' = [visitors EXCEPT ![v] = visit]
                                   /\ visit.pc = "keep" /\ visit.asked \in PartyRequests
  <2> DEFINE visit == [visitors[v] EXCEPT !.pc = "keep"]
  <2>1. visit \in Visits /\ visit.pc = "keep" /\ visit.asked \in PartyRequests
    BY <1>0, <1>4, InHand DEF Visits
  <2>2. visitors' = [visitors EXCEPT ![v] = visit]
    BY <1>0, <1>4 DEF Proceed
  <2> HIDE DEF visit
  <2> QED
    BY <2>1, <2>2
<1>5. CASE UNCHANGED visitors
  BY <1>0, <1>5 DEF PartyTypeOK
<1>6. CASE PartyRestart
  BY <1>0, <1>6 DEF PartyRestart
<1>7. ASSUME NEW v \in Visitors, Depart(v) PROVE visitors' = [visitors EXCEPT ![v] = Outside]
  BY <1>7 DEF Depart
<1> QED
  BY <1>0, <1>1, <1>2, <1>3, <1>4, <1>5, <1>6, <1>7, ReadTyped DEF PartyNext, partyVars
-----------------------------------------------------------------------------
(* What is on file stays: who a party is, its tombstone, what was audited, *)
(* and every document.                                                     *)

LEMMA FileGrows ==
    ASSUME PartyTypeOK, ReadingsHold, [PartyNext]_partyVars
    PROVE  /\ parties' \in Seq(PartyRows) /\ documents' \in Seq(Papers)
           /\ Len(parties) \in Nat /\ Len(parties') \in Nat /\ Len(parties) <= Len(parties')
           /\ Len(documents) \in Nat /\ Len(documents') \in Nat /\ Len(documents) <= Len(documents')
           /\ \A p \in OnFile :
                 /\ p \in OnFile'
                 /\ parties'[p].ssn = parties[p].ssn /\ parties'[p].name = parties[p].name
                 /\ parties'[p].dob = parties[p].dob /\ parties'[p].key = parties[p].key
                 /\ parties'[p].knew = parties[p].knew
           /\ \A d \in DOMAIN documents : d \in DOMAIN documents' /\ documents'[d] = documents[d]
           /\ dedupAudit \subseteq dedupAudit'
<1>0. /\ parties \in Seq(PartyRows) /\ documents \in Seq(Papers)
      /\ Len(parties) \in Nat /\ Len(documents) \in Nat
      /\ \A s \in Seq(Papers) : Len(s) \in Nat /\ DOMAIN s = 1 .. Len(s)
  BY LenProperties DEF PartyTypeOK
<1>1. CASE UNCHANGED <<parties, dedupAudit, documents, partyNews>>
  BY <1>0, <1>1 DEF OnFile
<1>2. ASSUME NEW v \in Visitors, FindOrCreateParty(v)
      PROVE  /\ parties' \in Seq(PartyRows) /\ documents' = documents /\ dedupAudit \subseteq dedupAudit'
             /\ Len(parties') \in Nat /\ Len(parties) <= Len(parties')
             /\ \A p \in OnFile : p \in OnFile' /\ parties'[p] = parties[p]
  BY <1>0, <1>2, FindStep DEF OnFile
<1>3. ASSUME NEW v \in Visitors, UpdateParty(v) \/ TombstoneParty(v)
      PROVE  /\ parties' \in Seq(PartyRows) /\ UNCHANGED <<documents, dedupAudit>>
             /\ Len(parties') = Len(parties)
             /\ \A p \in OnFile :
                   /\ p \in OnFile'
                   /\ parties'[p].ssn = parties[p].ssn /\ parties'[p].name = parties[p].name
                   /\ parties'[p].dob = parties[p].dob /\ parties'[p].key = parties[p].key
                   /\ parties'[p].knew = parties[p].knew
  <2>1. /\ parties' \in Seq(PartyRows) /\ UNCHANGED <<documents, dedupAudit>>
        /\ Len(parties') = Len(parties)
        /\ \A p \in OnFile : \/ parties'[p] = parties[p]
                             \/ \E e, f : parties'[p] = [parties[p] EXCEPT !.email = e, !.phone = f]
                             \/ parties'[p] = [parties[p] EXCEPT !.tombstoned = TRUE]
    <3>1. ASSUME UpdateParty(v)
          PROVE  /\ parties' \in Seq(PartyRows) /\ UNCHANGED <<documents, dedupAudit>>
                 /\ Len(parties') = Len(parties)
                 /\ \A p \in OnFile : \/ parties'[p] = parties[p]
                                      \/ \E e, f : parties'[p] = [parties[p] EXCEPT !.email = e, !.phone = f]
      BY <3>1, UpdateStep
    <3>2. ASSUME TombstoneParty(v)
          PROVE  /\ parties' \in Seq(PartyRows) /\ UNCHANGED <<documents, dedupAudit>>
                 /\ Len(parties') = Len(parties)
                 /\ \A p \in OnFile : \/ parties'[p] = parties[p]
                                      \/ parties'[p] = [parties[p] EXCEPT !.tombstoned = TRUE]
      BY <3>2, TombstoneStep
    <3> QED
      BY <1>3, <3>1, <3>2
  <2>2. \A p \in OnFile : parties[p] \in PartyRows
    BY OnFileTyped
  <2> QED
    BY <2>1, <2>2 DEF OnFile, PartyRows
<1>4. ASSUME NEW v \in Visitors, AddIdentityDocument(v)
      PROVE  /\ UNCHANGED <<parties, dedupAudit>> /\ documents' \in Seq(Papers)
             /\ Len(documents) <= Len(documents')
             /\ \A d \in DOMAIN documents : d \in DOMAIN documents' /\ documents'[d] = documents[d]
  <2>1. UNCHANGED <<parties, dedupAudit>> /\ documents' \in Seq(Papers)
    BY <1>0, <1>4, DocumentStep
  <2>2. /\ Len(documents') \in {Len(documents), Len(documents) + 1}
        /\ \A d \in DOMAIN documents : documents'[d] = documents[d]
    BY <1>4, DocumentStep
  <2> QED
    BY <1>0, <2>1, <2>2
<1> QED
  BY <1>0, <1>1, <1>2, <1>3, <1>4, PartySteps DEF OnFile

LEMMA TwinsStay ==
    ASSUME PartyTypeOK, ReadingsHold, [PartyNext]_partyVars, NEW a, NEW p \in OnFile
    PROVE  Twin(a, parties'[p]) <=> Twin(a, parties[p])
BY FileGrows DEF Twin, Same

LEMMA ComparedStays ==
    ASSUME PartyTypeOK, ReadingsHold, [PartyNext]_partyVars, NEW a, NEW f, Compared(a, f)
    PROVE  Compared(a, f)'
<1>1. f \in [results : SUBSET Results, knew : 0 .. Len(parties')]
  BY FileGrows DEF Compared
<1>2. \A r \in f.results : r.party \in OnFile'
  BY FileGrows DEF Compared
<1>3. ASSUME NEW p \in 1 .. f.knew, Twin(a, parties'[p])
      PROVE  \E r \in Confident(f.results) : r.party = p
  <2>1. p \in OnFile
    BY FileGrows DEF Compared, OnFile
  <2> QED
    BY <1>3, <2>1, TwinsStay DEF Compared
<1> QED
  BY <1>1, <1>2, <1>3 DEF Compared

LEMMA LatestStays ==
    ASSUME PartyTypeOK, ReadingsHold, [PartyNext]_partyVars, NEW party, NEW type, NEW f, LatestSeen(party, type, f)
    PROVE  LatestSeen(party, type, f)'
BY FileGrows DEF LatestSeen

LEMMA StepReadings ==
    ASSUME PartyTypeOK, ReadingsHold, VersionsAreUnique, [PartyNext]_partyVars
    PROVE  ReadingsHold'
<1> SUFFICES ASSUME NEW v \in Visitors, visitors'[v].pc = "write", NEW q, NEW f,
                    q = visitors'[v].asked, f = visitors'[v].found
             PROVE  /\ q.op = "find" => Compared(q.person, f)'
                    /\ q.op # "find" => q.party \in OnFile'
                    /\ q.op = "update" => f \in PartyRows
                    /\ q.op = "document" => LatestSeen(q.party, q.type, f)'
  BY DEF ReadingsHold
<1>1. CASE visitors'[v] = visitors[v]
  <2>1. /\ q.op = "find" => Compared(q.person, f)
        /\ q.op # "find" => q.party \in OnFile
        /\ q.op = "update" => f \in PartyRows
        /\ q.op = "document" => LatestSeen(q.party, q.type, f)
    BY <1>1 DEF ReadingsHold
  <2> QED
    BY <2>1, ComparedStays, LatestStays, FileGrows
<1>2. ASSUME UNCHANGED <<parties, dedupAudit, documents, partyNews>>,
             NEW asked \in PartyRequests, visitors'[v] = Read(asked)
      PROVE  /\ q.op = "find" => Compared(q.person, f)'
             /\ q.op # "find" => q.party \in OnFile'
             /\ q.op = "update" => f \in PartyRows
             /\ q.op = "document" => LatestSeen(q.party, q.type, f)'
  <2>1. /\ q = asked /\ f = Read(asked).found
        /\ q.op = "find" => Compared(q.person, f)
        /\ q.op # "find" => q.party \in OnFile
        /\ q.op = "update" => f \in PartyRows
        /\ q.op = "document" => LatestSeen(q.party, q.type, f)
    BY <1>2, ReadTyped
  <2> QED
    BY <2>1, ComparedStays, LatestStays, FileGrows
<1> QED
  BY <1>1, <1>2, VisitorSteps

LEMMA StepPartyTyped ==
    ASSUME PartyTypeOK, ReadingsHold, VersionsAreUnique, [PartyNext]_partyVars
    PROVE  PartyTypeOK'
<1>1. \A p \in OnFile' : parties'[p].knew \in 0 .. Len(parties')
  <2>1. ASSUME NEW p \in OnFile PROVE parties'[p].knew \in 0 .. Len(parties')
    BY FileGrows DEF PartyTypeOK
  <2>2. ASSUME NEW v \in Visitors, FindOrCreateParty(v), NEW p \in OnFile', p \notin OnFile
        PROVE  parties'[p].knew \in 0 .. Len(parties')
    <3>1. PICK q \in PartyRequests, f \in Founds :
             /\ Compared(q.person, f) /\ Len(parties') \in {Len(parties), Len(parties) + 1}
             /\ Len(parties') # Len(parties) => parties'[Len(parties) + 1] = NewParty(q, f.knew)
      BY <2>2, FindStep
    <3>2. f.knew \in 0 .. Len(parties)
      BY <3>1 DEF Compared
    <3>3. p = Len(parties) + 1 /\ Len(parties') = Len(parties) + 1 /\ Len(parties) \in Nat
      BY <2>2, <3>1, FileGrows DEF OnFile
    <3>4. parties'[p].knew = f.knew
      BY <3>1, <3>3 DEF NewParty
    <3> QED
      BY <3>2, <3>3, <3>4
  <2>3. ASSUME NEW v \in Visitors, UpdateParty(v) \/ TombstoneParty(v) \/ AddIdentityDocument(v)
        PROVE  OnFile' = OnFile
    BY <2>3, UpdateStep, TombstoneStep, DocumentStep DEF OnFile
  <2>4. CASE UNCHANGED parties
    BY <2>4 DEF PartyTypeOK, OnFile
  <2> QED
    BY <2>1, <2>2, <2>3, <2>4, PartySteps
<1>2. partyNews' \in Seq(News)
  <2>1. ASSUME NEW topic \in {"created", "updated", "tombstoned"}, NEW p \in Nat,
               partyNews' = Append(partyNews, <<topic, p>>)
        PROVE  partyNews' \in Seq(News)
    BY <2>1, AppendProperties DEF PartyTypeOK, News
  <2>2. ASSUME NEW v \in Visitors, FindOrCreateParty(v) PROVE partyNews' \in Seq(News)
    <3>1. partyNews' = partyNews \/ partyNews' = Append(partyNews, <<"created", Len(parties) + 1>>)
      BY <2>2, FindStep
    <3>2. Len(parties) + 1 \in Nat
      BY FileGrows
    <3> QED
      BY <2>1, <3>1, <3>2 DEF PartyTypeOK
  <2>3. ASSUME NEW v \in Visitors, UpdateParty(v) PROVE partyNews' \in Seq(News)
    <3>1. \E p \in OnFile : partyNews' = Append(partyNews, <<"updated", p>>)
      BY <2>3, UpdateStep
    <3> QED
      BY <2>1, <3>1, OnFileTyped
  <2>4. ASSUME NEW v \in Visitors, TombstoneParty(v) PROVE partyNews' \in Seq(News)
    <3>1. \E p \in OnFile : partyNews' = Append(partyNews, <<"tombstoned", p>>)
      BY <2>4, TombstoneStep
    <3> QED
      BY <2>1, <3>1, OnFileTyped
  <2>5. ASSUME NEW v \in Visitors, AddIdentityDocument(v) PROVE partyNews' = partyNews
    BY <2>5, DocumentStep
  <2> QED
    BY <2>2, <2>3, <2>4, <2>5, PartySteps DEF PartyTypeOK
<1> QED
  BY <1>1, <1>2, FileGrows, VisitorSteps DEF PartyTypeOK
-----------------------------------------------------------------------------
(* Duplicates.                                                             *)

LEMMA ShownStays ==
    ASSUME PartyTypeOK, ReadingsHold, [PartyNext]_partyVars, NEW key, NEW p, ShownTo(key, p)
    PROVE  ShownTo(key, p)'
BY FileGrows DEF ShownTo

\* A comparison that does not decide shows every confident result, and then
\* another one besides it.
LEMMA UndecidedIsShown ==
    ASSUME NEW q, NEW f, NEW a, Compared(a, f), ~Matched(f.results),
           dedupAudit' = dedupAudit \cup {<<q.key, r.party, r.rule>> : r \in f.results},
           NEW r \in Confident(f.results)
    PROVE  /\ ShownTo(q.key, r.party)'
           /\ \E other \in OnFile \ {r.party} : ShownTo(q.key, other)'
<1>1. \A s \in Confident(f.results) : ShownTo(q.key, s.party)' /\ s.party \in OnFile
  <2>1. ASSUME NEW s \in Confident(f.results)
        PROVE  /\ <<q.key, s.party, s.rule>> \in dedupAudit' /\ s.party \in OnFile
               /\ Confidence[s.rule] >= AutoMatchThreshold
    BY <2>1 DEF Confident, Compared
  <2> QED
    BY <2>1 DEF ShownTo
<1>2. PICK s \in Confident(f.results) : s # r
  <2>1. ASSUME \A s \in Confident(f.results) : s = r PROVE FALSE
    <3>1. Confident(f.results) = {r}
      BY <2>1
    <3> QED
      BY <3>1, FS_Singleton DEF Matched
  <2> QED
    BY <2>1
<1>3. s.party # r.party
  BY <1>2 DEF Compared
<1> QED
  BY <1>1, <1>3

LEMMA StepDuplicates ==
    ASSUME PartyTypeOK, ReadingsHold, DuplicatesAreExplained, [PartyNext]_partyVars
    PROVE  DuplicatesAreExplained'
<1> SUFFICES ASSUME NEW q \in OnFile', NEW p \in 1 .. parties'[q].knew, Twin(parties'[q], parties'[p]),
                    NEW key, key = parties'[q].key
             PROVE  /\ ShownTo(key, p)'
                    /\ \E other \in OnFile' \ {p} : ShownTo(key, other)'
  BY DEF DuplicatesAreExplained, Twin
<1>1. CASE q \in OnFile
  <2>1. /\ p \in 1 .. parties[q].knew /\ p \in OnFile /\ key = parties[q].key
    BY <1>1, FileGrows DEF PartyTypeOK, OnFile
  <2>2. Twin(parties[q], parties[p])
    <3>1. Twin(parties'[q], parties[p])
      BY <2>1, TwinsStay
    <3>2. /\ parties'[q].ssn = parties[q].ssn /\ parties'[q].name = parties[q].name
          /\ parties'[q].dob = parties[q].dob
      BY <1>1, FileGrows
    <3> QED
      BY <3>1, <3>2 DEF Twin, Same
  <2>3. ShownTo(key, p) /\ \E other \in OnFile \ {p} : ShownTo(key, other)
    BY <1>1, <2>1, <2>2 DEF DuplicatesAreExplained, Twin
  <2> QED
    BY <2>3, ShownStays, FileGrows
<1>2. CASE q \notin OnFile
  <2>1. PICK v \in Visitors : FindOrCreateParty(v)
    BY <1>2, PartySteps, UpdateStep, TombstoneStep, DocumentStep DEF OnFile
  <2>2. PICK r \in PartyRequests, f \in Founds :
           /\ Compared(r.person, f)
           /\ dedupAudit' = dedupAudit \cup {<<r.key, s.party, s.rule>> : s \in f.results}
           /\ \/ parties' = parties
              \/ /\ ~Matched(f.results) /\ Len(parties') = Len(parties) + 1
                 /\ parties'[Len(parties) + 1] = NewParty(r, f.knew)
    BY <2>1, FindStep
  <2>3. /\ ~Matched(f.results) /\ q = Len(parties) + 1 /\ parties'[q] = NewParty(r, f.knew)
    BY <1>2, <2>2, FileGrows DEF OnFile
  <2>4. key = r.key /\ p \in 1 .. f.knew /\ p \in OnFile
    BY <2>2, <2>3, FileGrows DEF NewParty, Compared, OnFile
  <2>5. Twin(r.person, parties[p])
    <3>1. Twin(parties'[q], parties[p])
      BY <2>4, TwinsStay
    <3>2. /\ parties'[q].ssn = r.person.ssn /\ parties'[q].name = r.person.name
          /\ parties'[q].dob = r.person.dob
      BY <2>3 DEF NewParty
    <3> QED
      BY <3>1, <3>2 DEF Twin, Same
  <2>6. PICK s \in Confident(f.results) : s.party = p
    BY <2>2, <2>4, <2>5 DEF Compared
  <2>7. /\ ShownTo(r.key, s.party)'
        /\ \E other \in OnFile \ {s.party} : ShownTo(r.key, other)'
    BY <2>2, <2>3, UndecidedIsShown
  <2> QED
    BY <2>4, <2>6, <2>7, FileGrows
<1> QED
  BY <1>1, <1>2
-----------------------------------------------------------------------------
(* Tombstones.                                                             *)

LEMMA StepTombstones ==
    ASSUME PartyTypeOK, ReadingsHold, NewsIsOfParties, TombstonesStand, [PartyNext]_partyVars
    PROVE  NewsIsOfParties' /\ TombstonesStand'
<1> DEFINE Told(p) == \E n \in DOMAIN partyNews : partyNews[n] = <<"tombstoned", p>>
<1>0. /\ \A s \in Seq(News) : Len(s) \in Nat /\ DOMAIN s = 1 .. Len(s)
      /\ partyNews \in Seq(News) /\ Len(parties) \in Nat
  BY LenProperties, FileGrows DEF PartyTypeOK
<1>1. CASE UNCHANGED <<parties, partyNews>>
  BY <1>1 DEF NewsIsOfParties, TombstonesStand, OnFile
<1>2. ASSUME NEW topic \in {"created", "updated", "tombstoned"}, NEW p \in Nat,
             partyNews' = Append(partyNews, <<topic, p>>),
             topic = "tombstoned" => p \in OnFile
      PROVE  /\ NewsIsOfParties'
             /\ \A o : Told(o)' <=> Told(o) \/ (topic = "tombstoned" /\ o = p)
  <2>1. PICK news \in News : news = <<topic, p>> /\ news[1] = topic /\ news[2] = p
    <3>1. <<topic, p>> \in News
      BY DEF News
    <3> QED
      BY <3>1
  <2>2. /\ Len(partyNews') = Len(partyNews) + 1 /\ partyNews'[Len(partyNews) + 1] = news
        /\ \A n \in 1 .. Len(partyNews) : partyNews'[n] = partyNews[n]
        /\ DOMAIN partyNews' = 1 .. Len(partyNews) + 1 /\ DOMAIN partyNews = 1 .. Len(partyNews)
        /\ Len(partyNews) \in Nat
    BY <1>0, <1>2, <2>1, AppendProperties
  <2>3. \A n \in DOMAIN partyNews' : \/ n \in DOMAIN partyNews /\ partyNews'[n] = partyNews[n]
                                     \/ n = Len(partyNews) + 1 /\ partyNews'[n] = news
    BY <2>2
  <2>4. NewsIsOfParties'
    BY <1>2, <2>1, <2>3, FileGrows DEF NewsIsOfParties
  <2>5. ASSUME NEW o PROVE Told(o)' <=> Told(o) \/ (topic = "tombstoned" /\ o = p)
    BY <2>1, <2>2, <2>3
  <2> QED
    BY <2>4, <2>5
<1>3. ASSUME NEW v \in Visitors, FindOrCreateParty(v)
      PROVE  NewsIsOfParties' /\ TombstonesStand'
  <2>1. CASE UNCHANGED <<parties, partyNews>>
    BY <1>1, <2>1
  <2>2. CASE ~UNCHANGED <<parties, partyNews>>
    <3>1. /\ Len(parties') = Len(parties) + 1 /\ \A p \in OnFile : parties'[p] = parties[p]
          /\ parties'[Len(parties) + 1].tombstoned = FALSE
          /\ partyNews' = Append(partyNews, <<"created", Len(parties) + 1>>)
      <4>1. PICK q, knew : /\ Len(parties') = Len(parties) + 1 /\ \A p \in OnFile : parties'[p] = parties[p]
                           /\ parties'[Len(parties) + 1] = NewParty(q, knew)
                           /\ partyNews' = Append(partyNews, <<"created", Len(parties) + 1>>)
        BY <1>3, <2>2, FindStep
      <4> QED
        BY <4>1 DEF NewParty
    <3>2. NewsIsOfParties' /\ \A o : Told(o)' <=> Told(o)
      <4>1. Len(parties) + 1 \in Nat
        BY <1>0
      <4> QED
        BY <1>2, <3>1, <4>1
    <3>3. ~Told(Len(parties) + 1)
      BY <1>0 DEF NewsIsOfParties, OnFile
    <3> HIDE DEF Told
    <3>4. \A p \in OnFile' : parties'[p].tombstoned <=> Told(p)'
      <4>1. \A p \in OnFile' : p \in OnFile \/ p = Len(parties) + 1
        BY <1>0, <3>1 DEF OnFile
      <4>2. \A p \in OnFile : parties[p].tombstoned <=> Told(p)
        BY DEF TombstonesStand, Told
      <4> QED
        BY <3>1, <3>2, <3>3, <4>1, <4>2
    <3> QED
      BY <3>2, <3>4 DEF TombstonesStand, Told
  <2> QED
    BY <2>1, <2>2
<1>4. ASSUME NEW v \in Visitors, UpdateParty(v)
      PROVE  NewsIsOfParties' /\ TombstonesStand'
  <2>1. PICK p \in OnFile :
           /\ Len(parties') = Len(parties) /\ partyNews' = Append(partyNews, <<"updated", p>>)
           /\ \A o \in OnFile \ {p} : parties'[o] = parties[o]
           /\ \E e, f : parties'[p] = [parties[p] EXCEPT !.email = e, !.phone = f]
    BY <1>4, UpdateStep
  <2>2. \A o \in OnFile : parties'[o].tombstoned = parties[o].tombstoned
    BY <2>1, OnFileTyped DEF PartyRows
  <2>3. NewsIsOfParties' /\ \A o : Told(o)' <=> Told(o)
    BY <1>2, <2>1, OnFileTyped
  <2> QED
    BY <2>1, <2>2, <2>3 DEF TombstonesStand, OnFile
<1>5. ASSUME NEW v \in Visitors, TombstoneParty(v)
      PROVE  NewsIsOfParties' /\ TombstonesStand'
  <2>1. PICK p \in OnFile :
           /\ Len(parties') = Len(parties) /\ partyNews' = Append(partyNews, <<"tombstoned", p>>)
           /\ \A o \in OnFile \ {p} : parties'[o] = parties[o]
           /\ parties'[p] = [parties[p] EXCEPT !.tombstoned = TRUE]
    BY <1>5, TombstoneStep
  <2>2. parties'[p].tombstoned = TRUE
    BY <2>1, OnFileTyped DEF PartyRows
  <2>3. NewsIsOfParties' /\ \A o : Told(o)' <=> Told(o) \/ o = p
    BY <1>2, <2>1, OnFileTyped
  <2> QED
    BY <2>1, <2>2, <2>3 DEF TombstonesStand, OnFile
<1> QED
  BY <1>1, <1>3, <1>4, <1>5, PartySteps, DocumentStep
-----------------------------------------------------------------------------
(* Documents.                                                              *)

\* The link of a document d to the one before it.
IsLinked(d) ==
    LET row == documents[d]
    IN  /\ row.version = 1 <=> row.supersedes = 0
        /\ row.version > 1 =>
              /\ row.supersedes < d
              /\ documents[row.supersedes] = [row EXCEPT !.version = @ - 1,
                                                         !.supersedes = documents[row.supersedes].supersedes]

\* A document on file follows the one it supersedes by one version.
LEMMA LinkedPaper ==
    ASSUME PartyTypeOK, NEW d \in DOMAIN documents, IsLinked(d), documents[d].supersedes > 0
    PROVE  LET row == documents[d]
               prior == documents[row.supersedes]
           IN  /\ row.supersedes \in DOMAIN documents /\ row.supersedes < d
               /\ prior.party = row.party /\ prior.type = row.type /\ prior.version = row.version - 1
<1> DEFINE row == documents[d]
<1>1. /\ row \in Papers /\ d \in Nat /\ DOMAIN documents = 1 .. Len(documents) /\ Len(documents) \in Nat
  BY PapersTyped
<1>2. row.version > 1 /\ row.supersedes \in Nat
  BY <1>1 DEF IsLinked, Papers
<1>3. /\ row.supersedes < d
      /\ documents[row.supersedes] = [row EXCEPT !.version = @ - 1,
                                                 !.supersedes = documents[row.supersedes].supersedes]
  BY <1>2 DEF IsLinked
<1> HIDE DEF row
<1>4. /\ documents[row.supersedes].party = row.party /\ documents[row.supersedes].type = row.type
      /\ documents[row.supersedes].version = row.version - 1
  <2>1. \A s : LET new == [row EXCEPT !.version = @ - 1, !.supersedes = s]
               IN  new.party = row.party /\ new.type = row.type /\ new.version = row.version - 1
    BY <1>1 DEF Papers
  <2> QED
    BY <1>3, <2>1
<1>5. row.supersedes \in DOMAIN documents
  BY <1>1, <1>2, <1>3, row.supersedes > 0 DEF row
<1> QED
  BY <1>3, <1>4, <1>5 DEF row

LEMMA StepDocuments ==
    ASSUME PartyTypeOK, ReadingsHold, VersionsAreUnique, DocumentVersionsAreAChain, [PartyNext]_partyVars
    PROVE  VersionsAreUnique' /\ DocumentVersionsAreAChain'
<1>0. /\ DOMAIN documents = 1 .. Len(documents) /\ Len(documents) \in Nat
      /\ \A d \in DOMAIN documents : documents[d] \in Papers /\ IsLinked(d)
  BY PapersTyped DEF DocumentVersionsAreAChain, IsLinked
<1>1. CASE documents' = documents
  BY <1>1 DEF VersionsAreUnique, DocumentVersionsAreAChain
<1>2. CASE documents' # documents
  <2>1. PICK v \in Visitors : AddIdentityDocument(v)
    BY <1>2, PartySteps, FindStep, UpdateStep, TombstoneStep
  <2>a. PICK row \in Papers : \E f :
           /\ LatestSeen(row.party, row.type, f)
           /\ row.version = f.version + 1 /\ row.supersedes = f.id
           /\ VersionIsFree(row.party, row.type, row.version)
           /\ documents' \in Seq(Papers) /\ Len(documents') = Len(documents) + 1
           /\ \A d \in DOMAIN documents : documents'[d] = documents[d]
           /\ documents'[Len(documents) + 1] = row
    BY <1>2, <2>1, DocumentStep
  <2>2. PICK f :
           /\ LatestSeen(row.party, row.type, f)
           /\ row.version = f.version + 1 /\ row.supersedes = f.id
           /\ VersionIsFree(row.party, row.type, row.version)
           /\ documents' \in Seq(Papers) /\ Len(documents') = Len(documents) + 1
           /\ \A d \in DOMAIN documents : documents'[d] = documents[d]
           /\ documents'[Len(documents) + 1] = row
    BY <2>a
  <2>0. PICK new : new = Len(documents) + 1
    OBVIOUS
  <2>3. /\ DOMAIN documents' = 1 .. new /\ new \in Nat /\ new \notin DOMAIN documents
        /\ \A d \in DOMAIN documents' : d \in DOMAIN documents \/ d = new
        /\ \A d \in DOMAIN documents : documents'[d] = documents[d] /\ d < new
        /\ documents'[new] = row
    BY <1>0, <2>0, <2>2, LenProperties
  <2>4. /\ row.version \in Nat \ {0} /\ row.supersedes \in Nat
        /\ row.version = 1 <=> row.supersedes = 0
        /\ row.supersedes # 0 =>
              /\ row.supersedes \in DOMAIN documents
              /\ documents[row.supersedes].party = row.party /\ documents[row.supersedes].type = row.type
              /\ documents[row.supersedes].version = row.version - 1
    <3>1. /\ f.version \in Nat /\ f.id \in Nat /\ (f.version = 0 <=> f.id = 0)
          /\ f.id # 0 => /\ f.id \in DOMAIN documents
                         /\ documents[f.id].party = row.party /\ documents[f.id].type = row.type
                         /\ documents[f.id].version = f.version
      BY <2>2 DEF LatestSeen
    <3> QED
      BY <2>2, <3>1
  <2>5. VersionsAreUnique'
    <3>1. row.version <= new
      <4>1. CASE row.supersedes = 0
        BY <1>0, <2>0, <2>4, <4>1
      <4>2. CASE row.supersedes # 0
        <5>1. row.version - 1 <= row.supersedes /\ row.supersedes <= Len(documents)
          BY <1>0, <2>4, <4>2 DEF VersionsAreUnique
        <5> QED
          BY <1>0, <2>0, <2>4, <5>1
      <4> QED
        BY <4>1, <4>2
    <3>2. \A d \in DOMAIN documents :
             ~(documents[d].party = row.party /\ documents[d].type = row.type /\ documents[d].version = row.version)
      BY <2>2 DEF VersionIsFree, Versions
    <3> QED
      BY <2>3, <3>1, <3>2 DEF VersionsAreUnique
  <2>6. \A d \in DOMAIN documents' : IsLinked(d)'
    <3>1. ASSUME NEW d \in DOMAIN documents PROVE IsLinked(d)'
      <4>1. documents'[d] = documents[d] /\ documents[d] \in Papers
        BY <1>0, <2>3
      <4>2. CASE documents[d].supersedes = 0
        <5>1. documents[d].version = 1
          BY <1>0, <4>2 DEF IsLinked
        <5> QED
          BY <4>1, <4>2, <5>1 DEF IsLinked
      <4>3. CASE documents[d].supersedes > 0
        <5>1. documents'[documents[d].supersedes] = documents[documents[d].supersedes]
          BY <1>0, <2>3, <4>3, LinkedPaper
        <5> QED
          BY <1>0, <4>1, <5>1 DEF IsLinked
      <4> QED
        BY <4>1, <4>2, <4>3 DEF Papers
    <3>2. IsLinked(new)'
      <4>1. CASE row.supersedes = 0
        <5>1. documents'[new] = row /\ row.version = 1
          BY <2>3, <2>4, <4>1
        <5> QED
          BY <4>1, <5>1 DEF IsLinked
      <4>2. CASE row.supersedes # 0
        <5>1. PICK prior \in Papers :
                 /\ prior = documents'[row.supersedes] /\ prior.party = row.party /\ prior.type = row.type
                 /\ prior.version = row.version - 1
          BY <1>0, <2>3, <2>4, <4>2
        <5>2. prior = [row EXCEPT !.version = @ - 1, !.supersedes = prior.supersedes]
          BY <2>4, <5>1 DEF Papers
        <5>3. row.supersedes < new
          BY <2>3, <2>4, <4>2
        <5> QED
          <6>1. documents'[new] = row /\ row.version # 1
            BY <2>3, <2>4, <4>2
          <6>2. documents'[row.supersedes] = [row EXCEPT !.version = @ - 1,
                                                         !.supersedes = documents'[row.supersedes].supersedes]
            BY <5>1, <5>2
          <6> QED
            BY <4>2, <5>3, <6>1, <6>2 DEF IsLinked
      <4> QED
        BY <4>1, <4>2
    <3> QED
      BY <2>3, <3>1, <3>2
  <2>7. \A d, e \in DOMAIN documents' :
           d # e /\ documents'[d].supersedes > 0 => documents'[e].supersedes # documents'[d].supersedes
    <3>1. \A d, e \in DOMAIN documents :
             d # e /\ documents[d].supersedes > 0 => documents[e].supersedes # documents[d].supersedes
      BY DEF DocumentVersionsAreAChain
    <3>2. ASSUME NEW d \in DOMAIN documents, row.supersedes > 0 \/ documents[d].supersedes > 0,
                 documents[d].supersedes = row.supersedes
          PROVE  FALSE
      <4>1. /\ documents[d].party = row.party /\ documents[d].type = row.type
            /\ documents[d].version - 1 = row.version - 1
        BY <1>0, <2>4, <3>2, LinkedPaper
      <4>2. documents[d].version = row.version
        BY <1>0, <2>4, <4>1 DEF Papers
      <4> QED
        BY <2>2, <4>1, <4>2 DEF VersionIsFree, Versions
    <3> QED
      <4> SUFFICES ASSUME NEW d \in DOMAIN documents', NEW e \in DOMAIN documents', d # e,
                          documents'[d].supersedes > 0, documents'[e].supersedes = documents'[d].supersedes
                   PROVE  FALSE
        OBVIOUS
      <4>1. CASE d \in DOMAIN documents /\ e \in DOMAIN documents
        BY <2>3, <3>1, <4>1
      <4>2. CASE d = new /\ e \in DOMAIN documents
        BY <2>3, <3>2, <4>2
      <4>3. CASE d \in DOMAIN documents /\ e = new
        BY <2>3, <3>2, <4>3
      <4> QED
        BY <2>3, <4>1, <4>2, <4>3
  <2> QED
    BY <2>5, <2>6, <2>7 DEF DocumentVersionsAreAChain, IsLinked
<1> QED
  BY <1>1, <1>2
-----------------------------------------------------------------------------
(* The theorems.                                                           *)

LEMMA PartyInvHolds == PartySpec => []PartyInv
<1>1. ASSUME PartyInit PROVE PartyInv
  <2>1. /\ parties = <<>> /\ documents = <<>> /\ partyNews = <<>>
        /\ visitors = [v \in Visitors |-> Outside] /\ Outside.pc = "outside"
        /\ Outside \in Visits
        /\ DOMAIN documents = {} /\ DOMAIN partyNews = {} /\ OnFile = {}
    BY <1>1 DEF PartyInit, Outside, Visits, Founds, OnFile
  <2>2. PartyTypeOK
    BY <2>1, EmptySeq DEF PartyTypeOK
  <2> QED
    BY <2>1, <2>2 DEF PartyInv, ReadingsHold, DuplicatesAreExplained, NewsIsOfParties, TombstonesStand,
                      VersionsAreUnique, DocumentVersionsAreAChain
<1>2. PartyInv /\ [PartyNext]_partyVars => PartyInv'
  BY StepPartyTyped, StepReadings, StepDuplicates, StepTombstones, StepDocuments DEF PartyInv
<1> QED
  BY <1>1, <1>2, PTL DEF PartySpec

\* Only a party that came while the applicant was compared is a duplicate that
\* nothing explains: every other one was found, recognised and written down
\* next to another (ListDedupCandidates, EvaluateAll, Decide), whatever is
\* updated, tombstoned or added before the transaction.
THEOREM DuplicatesHaveAReason == PartySpec => []DuplicatesAreExplained
<1>1. PartyInv => DuplicatesAreExplained
  BY DEF PartyInv
<1> QED
  BY <1>1, PartyInvHolds, PTL

\* A party is tombstoned exactly when that was announced; an update of a row
\* read before leaves it so (UpdateParty writes the contacts alone).
THEOREM TombstonesAreFinal == PartySpec => []TombstonesStand
<1>1. PartyInv => TombstonesStand
  BY DEF PartyInv
<1> QED
  BY <1>1, PartyInvHolds, PTL

\* However uploads overlap, the documents of a type are one chain without a
\* gap or a fork (MaxDocumentVersion read before, UNIQUE of party, type, version).
THEOREM DocumentsFormChains == PartySpec => []DocumentVersionsAreAChain
<1>1. PartyInv => DocumentVersionsAreAChain
  BY DEF PartyInv
<1> QED
  BY <1>1, PartyInvHolds, PTL
=============================================================================
