---------------------------- MODULE PartyIdentity -----------------------------
(***************************************************************************)
(* The party service: who a customer is.  An applicant is compared with    *)
(* the parties on file by fixed rules and becomes a new party or is found  *)
(* to be one of them; a party's contacts are updated, a party tombstoned,  *)
(* its identity documents added in versions.                               *)
(*                                                                         *)
(* Every handler reads before it writes, and reads from the pool, never    *)
(* inside its transaction: Knock looks for a kept answer and reads,        *)
(* the transaction is a step of its own, and so is keeping the answer.     *)
(* Nothing but the key of a document's version guards a write.             *)
(*                                                                         *)
(* A field is "" when it is not given: an SSN without digits, a name       *)
(* without letters, no email, no phone.  Such an SSN is stored as no hash, *)
(* while the applicant's is the hash of nothing: the two never match.      *)
(***************************************************************************)
EXTENDS Naturals, Sequences, FiniteSets

CONSTANTS PartyRequests,    \* what may be asked, each a record with an op and a key
          NearNames,        \* sets of two names a few letters apart (NamesNearMatch)
          NotGiven,
          MaxVisitors,      \* bound: requests in progress at once
          MaxKnocks,        \* bound: requests sent, retries included
          MaxPartyFaults    \* bound: statements that fail, restarts

ASSUME PartyAssumption ==
    /\ {MaxVisitors, MaxKnocks, MaxPartyFaults} \subseteq Nat
    /\ \A pair \in NearNames : "" \notin pair
    /\ \A q \in PartyRequests :
          \/ q \in [op : {"find"}, key : STRING,
                   person : [ssn : STRING, name : STRING, dob : STRING, email : STRING, phone : STRING]]
          \/ q \in [op : {"update"}, key : STRING, party : Nat,
                   email : STRING \cup {NotGiven}, phone : STRING \cup {NotGiven}]
          \/ q \in [op : {"tombstone"}, key : STRING, party : Nat]
          \/ q \in [op : {"document"}, key : STRING, party : Nat, type : STRING]

VARIABLES
    parties,        \* the rows in the order of their creation; a party's id is its place
    dedupAudit,     \* dedup_audit: <<request key, party, rule>>
    documents,      \* identity_documents, in the order of their creation
    partyNews,      \* the outbox: <<topic, party>>
    remembered,     \* idempotency_keys
    visitors,       \* per visitor: [pc, asked, found]
    knocks, partyFaults

partydb  == <<parties, dedupAudit, documents, partyNews, remembered>>
partyuse == <<knocks, partyFaults>>
partyVars == <<partydb, visitors, partyuse>>

Visitors == 1 .. MaxVisitors
OnFile   == 1 .. Len(parties)

Outside == [pc |-> "outside", asked |-> NotGiven, found |-> NotGiven]

PartyInit ==
    /\ parties = <<>> /\ documents = <<>> /\ partyNews = <<>>
    /\ dedupAudit = {} /\ remembered = {}
    /\ visitors = [v \in Visitors |-> Outside]
    /\ knocks = 0 /\ partyFaults = 0

PartyFault == partyFaults < MaxPartyFaults /\ partyFaults' = partyFaults + 1
-----------------------------------------------------------------------------
(* The rules, on an applicant a and a row p.                               *)

Same(a, p, field) == a[field] # "" /\ a[field] = p[field]

Near(a, p) == {a.name, p.name} \in NearNames

\* EvaluateCandidate: the first rule that fires.
Rule(a, p) ==
    IF      Same(a, p, "ssn")                         THEN "SSN_EXACT"
    ELSE IF Same(a, p, "name") /\ Same(a, p, "dob")   THEN "NAME_DOB_EXACT"
    ELSE IF Same(a, p, "email") /\ Same(a, p, "name") THEN "EMAIL_NAME_CORROBORATED"
    ELSE IF Same(a, p, "phone") /\ Same(a, p, "name") THEN "PHONE_NAME_CORROBORATED"
    ELSE IF Near(a, p) /\ Same(a, p, "dob")           THEN "NAME_NEAR_MATCH_DOB_EXACT"
    ELSE IF Same(a, p, "email")                       THEN "EMAIL_ONLY"
    ELSE IF Same(a, p, "phone")                       THEN "PHONE_ONLY"
    ELSE "NONE"

\* In hundredths; a party below AutoMatchThreshold is never taken for the applicant.
Confidence ==
    [SSN_EXACT |-> 99, NAME_DOB_EXACT |-> 95, EMAIL_NAME_CORROBORATED |-> 85,
     PHONE_NAME_CORROBORATED |-> 80, NAME_NEAR_MATCH_DOB_EXACT |-> 65, EMAIL_ONLY |-> 55,
     PHONE_ONLY |-> 50]

AutoMatchThreshold == 80
AuditFloor == 40

\* Mutant: the query leaves out the date of birth.
CandidatesByContact(a) == {p \in OnFile : \E f \in {"ssn", "email", "phone"} : Same(a, parties[p], f)}

\* The WHERE clause: everybody who shares a field that has an index.
Candidates(a) == {p \in OnFile : \E f \in {"ssn", "email", "phone", "dob"} : Same(a, parties[p], f)}

EvaluateAll(a) ==
    {r \in {[party |-> p, rule |-> Rule(a, parties[p])] : p \in Candidates(a)} :
        r.rule # "NONE" /\ Confidence[r.rule] >= AuditFloor}

Confident(results) == {r \in results : Confidence[r.rule] >= AutoMatchThreshold}

\* Decide: the one party above the threshold; two of them are left to a human.
Matched(results) == Cardinality(Confident(results)) = 1
-----------------------------------------------------------------------------
(* A request.                                                              *)

Depart(v)   == visitors' = [visitors EXCEPT ![v] = Outside]
Proceed(v, pc) == visitors' = [visitors EXCEPT ![v].pc = pc]

Supplied(value, default) == IF value = NotGiven THEN default ELSE value

Contacts(q, p) == [p EXCEPT !.email = Supplied(q.email, @), !.phone = Supplied(q.phone, @)]

Versions(party, type) == {d \in DOMAIN documents : documents[d].party = party /\ documents[d].type = type}

\* MaxDocumentVersion: the latest version on file and the row that has it.
LatestVersion(party, type) ==
    LET ds == Versions(party, type)
    IN  IF ds = {} THEN [version |-> 0, id |-> 0]
        ELSE LET d == CHOOSE d \in ds : \A e \in ds : documents[e].version <= documents[d].version
             IN  [version |-> documents[d].version, id |-> d]

\* What is read, and where it leads: to the write, straight to the answer, or
\* to a refusal that is not kept.
Read(q) ==
    LET go(pc, found) == [pc |-> pc, asked |-> q, found |-> found]
    IN  IF q.op = "find" THEN go("write", [results |-> EvaluateAll(q.person), knew |-> Len(parties)])
        ELSE IF q.party \notin OnFile THEN Outside
        ELSE CASE q.op = "update" /\ parties[q.party].tombstoned -> Outside
               [] q.op = "update" /\ ~parties[q.party].tombstoned ->
                    IF Contacts(q, parties[q.party]) = parties[q.party] THEN go("keep", NotGiven)
                    ELSE go("write", Contacts(q, parties[q.party]))
               [] q.op = "tombstone" ->
                    go(IF parties[q.party].tombstoned THEN "keep" ELSE "write", NotGiven)
               [] q.op = "document" -> go("write", LatestVersion(q.party, q.type))

\* The lookup of a kept answer and the read.  An answer kept between the two
\* would not be seen: that is the order in which it is kept after the read.
Knock(v, q) ==
    /\ visitors[v] = Outside /\ \A w \in 1 .. v - 1 : visitors[w] # Outside
    /\ knocks < MaxKnocks /\ knocks' = knocks + 1
    /\ visitors' = IF q.key \in remembered THEN visitors ELSE [visitors EXCEPT ![v] = Read(q)]
    /\ UNCHANGED <<partydb, partyFaults>>

NewParty(q, knew) ==
    [ssn |-> q.person.ssn, name |-> q.person.name, dob |-> q.person.dob, email |-> q.person.email,
     phone |-> q.person.phone, tombstoned |-> FALSE, key |-> q.key, knew |-> knew]

\* findOrCreateParty: every result is written down, matched or not.
FindOrCreateParty(v) ==
    LET q == visitors[v].asked
        f == visitors[v].found
    IN  /\ visitors[v].pc = "write" /\ q.op = "find"
        /\ dedupAudit' = dedupAudit \cup {<<q.key, r.party, r.rule>> : r \in f.results}
        /\ IF Matched(f.results) THEN UNCHANGED <<parties, partyNews>>
           ELSE /\ parties' = Append(parties, NewParty(q, f.knew))
                /\ partyNews' = Append(partyNews, <<"created", Len(parties) + 1>>)
        /\ Proceed(v, "keep")
        /\ UNCHANGED <<documents, remembered, partyuse>>

\* Mutant: the whole row is written.
StoreRow(party, row) == parties' = [parties EXCEPT ![party] = row]

\* Both contacts are written, whichever of them the request changes.
StoreContacts(party, row) ==
    parties' = [parties EXCEPT ![party].email = row.email, ![party].phone = row.phone]

UpdateParty(v) ==
    LET q == visitors[v].asked
    IN  /\ visitors[v].pc = "write" /\ q.op = "update"
        /\ StoreContacts(q.party, visitors[v].found)
        /\ partyNews' = Append(partyNews, <<"updated", q.party>>)
        /\ Proceed(v, "keep")
        /\ UNCHANGED <<dedupAudit, documents, remembered, partyuse>>

TombstoneParty(v) ==
    LET q == visitors[v].asked
    IN  /\ visitors[v].pc = "write" /\ q.op = "tombstone"
        /\ parties' = [parties EXCEPT ![q.party].tombstoned = TRUE]
        /\ partyNews' = Append(partyNews, <<"tombstoned", q.party>>)
        /\ Proceed(v, "keep")
        /\ UNCHANGED <<dedupAudit, documents, remembered, partyuse>>

\* Mutant: versions are not unique.
VersionIsFreeAlways(party, type, version) == TRUE

\* UNIQUE (party_id, document_type, version)
VersionIsFree(party, type, version) ==
    \A d \in Versions(party, type) : documents[d].version # version

AddIdentityDocument(v) ==
    LET q == visitors[v].asked
        prior == visitors[v].found
        row == [party |-> q.party, type |-> q.type, version |-> prior.version + 1, supersedes |-> prior.id]
    IN  /\ visitors[v].pc = "write" /\ q.op = "document"
        /\ IF VersionIsFree(row.party, row.type, row.version)
           THEN documents' = Append(documents, row) /\ Proceed(v, "keep")
           ELSE Depart(v) /\ UNCHANGED documents
        /\ UNCHANGED <<parties, dedupAudit, partyNews, remembered, partyuse>>

\* The middleware keeps the answer, in a transaction of its own.
KeepAnswer(v) ==
    /\ visitors[v].pc = "keep" /\ Depart(v)
    /\ remembered' = remembered \cup {visitors[v].asked.key}
    /\ UNCHANGED <<parties, dedupAudit, documents, partyNews, partyuse>>

\* A statement fails.
VisitFails(v) ==
    /\ visitors[v] # Outside /\ PartyFault /\ Depart(v)
    /\ UNCHANGED <<partydb, knocks>>

PartyRestart ==
    /\ PartyFault
    /\ visitors' = [v \in Visitors |-> Outside]
    /\ UNCHANGED <<partydb, knocks>>

PartyNext ==
    \/ \E v \in Visitors :
          \/ \E q \in PartyRequests : Knock(v, q)
          \/ FindOrCreateParty(v) \/ UpdateParty(v) \/ TombstoneParty(v) \/ AddIdentityDocument(v)
          \/ KeepAnswer(v) \/ VisitFails(v)
    \/ PartyRestart

PartySpec == PartyInit /\ [][PartyNext]_partyVars
-----------------------------------------------------------------------------
(* Properties.                                                             *)

ShownTo(key, p) == \E row \in dedupAudit : row[1] = key /\ row[2] = p /\ Confidence[row[3]] >= AutoMatchThreshold

\* A second party for a person already on file (the SSN, or the name and the
\* date of birth) is explained by what the service wrote down: the query found
\* the earlier one, the rules recognised it, and one more party besides
\* it (ListDedupCandidates, EvaluateAll, Decide, FindOrCreateParty).  Only a
\* party created after the applicant was compared may go unmentioned.
DuplicatesAreExplained ==
    \A q \in OnFile : \A p \in 1 .. parties[q].knew :
        \/ Same(parties[q], parties[p], "ssn")
        \/ Same(parties[q], parties[p], "name") /\ Same(parties[q], parties[p], "dob")
        => /\ ShownTo(parties[q].key, p)
           /\ \E other \in OnFile \ {p} : ShownTo(parties[q].key, other)

\* A party is tombstoned exactly when that was announced: an update that read
\* the row before never brings it back (UpdateParty, TombstoneParty), though
\* neither looks at the row again when it writes.
TombstonesStand ==
    \A p \in OnFile :
        parties[p].tombstoned <=> \E n \in DOMAIN partyNews : partyNews[n] = <<"tombstoned", p>>

\* The documents of a type are a chain: versions from one without a gap or a
\* fork, each superseding the one before it, however uploads overlap
\* (AddIdentityDocument, UNIQUE (party_id, document_type, version)).
DocumentVersionsAreAChain ==
    \A d \in DOMAIN documents :
        LET row == documents[d]
        IN  /\ row.version = 1 <=> row.supersedes = 0
            /\ row.version > 1 =>
                  /\ row.supersedes < d
                  /\ documents[row.supersedes] = [row EXCEPT !.version = @ - 1,
                                                             !.supersedes = documents[row.supersedes].supersedes]
            /\ \A e \in DOMAIN documents \ {d} : row.supersedes > 0 => documents[e].supersedes # row.supersedes
=============================================================================
