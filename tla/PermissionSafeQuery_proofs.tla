---------------------- MODULE PermissionSafeQuery_proofs ----------------------
(***************************************************************************)
(* Proof that queries implement AnswerContract, for any graph, any results  *)
(* of the searches, any number of users, documents and queries; that a      *)
(* search is blind to documents that are not allowed; that writing a         *)
(* document replaces what it contributed and nothing else; and that what    *)
(* was written is found by whoever may see the document.                    *)
(***************************************************************************)
EXTENDS PermissionSafeQuery, FiniteSetTheorems, WellFoundedInduction, TLAPS

Steps == {"idle", "granted", "allowed", "vector", "keyword", "retrieved",
          "confirmed", "answered"}
Fields == {"step", "user", "allowed", "vector", "keyword", "chunks", "facts",
           "documents", "citations"}

\* What a query record holds at each step: an allowlist until the evidence is
\* checked again, then documents that cover the citations, then neither.
QueryIsSound(r) ==
    /\ DOMAIN r = Fields
    /\ r.step \in Steps
    /\ r.user \in Users
    /\ r.allowed \subseteq Documents
    /\ r.documents \subseteq Documents
    /\ r.step \notin {"confirmed"} => r.documents = {}
    /\ r.step \in {"idle", "confirmed", "answered"} => r.allowed = {}
    /\ r.step = "confirmed" => \A s \in r.citations : s[1] \in r.documents

\* The inductive invariant of the refinement.
QueryInvariant ==
    /\ grants \subseteq Pairs
    /\ evidence \subseteq Pairs
    /\ DOMAIN query = Queries
    /\ query = [q \in Queries |-> query[q]]
    /\ \A q \in Queries : QueryIsSound(query[q])

\* The state of AnswerContract, by query.
StageOf(r) == IF r.step \in {"vector", "keyword", "retrieved"} THEN "allowed" ELSE r.step
MayOf(r) == r.allowed \cup r.documents
CitedOf(r) == IF r.step = "answered" THEN {s[1] : s \in r.citations} ELSE {}

Stage == [q \in Queries |-> StageOf(query[q])]
Asker == [q \in Queries |-> query[q].user]
May == [q \in Queries |-> MayOf(query[q])]
Cited == [q \in Queries |-> CitedOf(query[q])]

-----------------------------------------------------------------------------

\* One query moves on to a sound state: the others stay, and so does their
\* part of the mapped state.
LEMMA OneQueryMoves ==
    ASSUME QueryInvariant, NEW q \in Queries, QueryIsSound(query'[q]),
           query' = [query EXCEPT ![q] = query'[q]], UNCHANGED access
    PROVE  /\ QueryInvariant'
           /\ Stage' = [Stage EXCEPT ![q] = StageOf(query'[q])]
           /\ Asker' = [Asker EXCEPT ![q] = query'[q].user]
           /\ May' = [May EXCEPT ![q] = MayOf(query'[q])]
           /\ Cited' = [Cited EXCEPT ![q] = CitedOf(query'[q])]
<1>1. DOMAIN query' = Queries /\ query' = [p \in Queries |-> query'[p]]
  BY DEF QueryInvariant
<1>2. \A p \in Queries : query'[p] = IF p = q THEN query'[q] ELSE query[p]
  BY DEF QueryInvariant
<1>3. QueryInvariant'
  <2>1. \A p \in Queries : QueryIsSound(query'[p])
    BY <1>2 DEF QueryInvariant
  <2>2. grants' \subseteq Pairs /\ evidence' \subseteq Pairs
    BY DEF QueryInvariant, access
  <2> QED
    BY <1>1, <2>1, <2>2 DEF QueryInvariant, QueryIsSound
<1>4. Stage' = [Stage EXCEPT ![q] = StageOf(query'[q])]
  <2>1. Stage' = [p \in Queries |-> StageOf(query'[p])]
    BY DEF Stage, StageOf
  <2>2. \A p \in Queries : StageOf(query'[p]) = IF p = q THEN StageOf(query'[q]) ELSE StageOf(query[p])
    BY <1>2
  <2> QED
    BY <2>1, <2>2 DEF Stage
<1>5. Asker' = [Asker EXCEPT ![q] = query'[q].user]
  <2>1. Asker' = [p \in Queries |-> query'[p].user]
    BY DEF Asker
  <2>2. \A p \in Queries : query'[p].user = IF p = q THEN query'[q].user ELSE query[p].user
    BY <1>2
  <2> QED
    BY <2>1, <2>2 DEF Asker
<1>6. May' = [May EXCEPT ![q] = MayOf(query'[q])]
  <2>1. May' = [p \in Queries |-> MayOf(query'[p])]
    BY DEF May, MayOf
  <2>2. \A p \in Queries : MayOf(query'[p]) = IF p = q THEN MayOf(query'[q]) ELSE MayOf(query[p])
    BY <1>2
  <2> QED
    BY <2>1, <2>2 DEF May
<1>7. Cited' = [Cited EXCEPT ![q] = CitedOf(query'[q])]
  <2>1. Cited' = [p \in Queries |-> CitedOf(query'[p])]
    BY DEF Cited, CitedOf
  <2>2. \A p \in Queries : CitedOf(query'[p]) = IF p = q THEN CitedOf(query'[q]) ELSE CitedOf(query[p])
    BY <1>2
  <2> QED
    BY <2>1, <2>2 DEF Cited
<1> QED
  BY <1>3, <1>4, <1>5, <1>6, <1>7

\* The refusal is a sound state that cites nothing.
LEMMA RefusalIsSound ==
    ASSUME QueryInvariant, NEW q \in Queries
    PROVE  /\ QueryIsSound(Refusal(q))
           /\ StageOf(Refusal(q)) = "answered"
           /\ Refusal(q).user = query[q].user
           /\ MayOf(Refusal(q)) = {}
           /\ CitedOf(Refusal(q)) = {}
BY DEF QueryInvariant, QueryIsSound, Refusal, IdleQuery, StageOf, MayOf, CitedOf, Fields, Steps

-----------------------------------------------------------------------------
(* The actions, one by one: each keeps the invariant and is an action of    *)
(* AnswerContract, or leaves its state as it is.                            *)

\* A step of a query under way to the refusal is a refusal.
LEMMA RefusalRefuses ==
    ASSUME QueryInvariant, NEW q \in Queries,
           query[q].step \notin {"idle", "answered"}, Step(q, query[q].step, Refusal(q))
    PROVE  QueryInvariant' /\ Contract!Refuse(q)
<1>1. /\ query' = [query EXCEPT ![q] = Refusal(q)]
      /\ UNCHANGED access
  BY DEF Step
<1>2. QueryIsSound(query[q]) /\ query[q].user = Asker[q]
  BY DEF QueryInvariant, Asker
<1>3. /\ QueryIsSound(Refusal(q)) /\ StageOf(Refusal(q)) = "answered"
      /\ Refusal(q).user = query[q].user
      /\ MayOf(Refusal(q)) = {} /\ CitedOf(Refusal(q)) = {}
  BY RefusalIsSound
<1>4. /\ QueryInvariant'
      /\ Stage' = [Stage EXCEPT ![q] = "answered"]
      /\ Asker' = [Asker EXCEPT ![q] = query[q].user]
      /\ May' = [May EXCEPT ![q] = {}]
      /\ Cited' = [Cited EXCEPT ![q] = {}]
  <2>1. query'[q] = Refusal(q)
    BY <1>1 DEF QueryInvariant
  <2>2. /\ query' = [query EXCEPT ![q] = query'[q]]
        /\ QueryIsSound(query'[q])
    BY <1>1, <1>3, <2>1
  <2>3. /\ QueryInvariant'
        /\ Stage' = [Stage EXCEPT ![q] = StageOf(query'[q])]
        /\ Asker' = [Asker EXCEPT ![q] = query'[q].user]
        /\ May' = [May EXCEPT ![q] = MayOf(query'[q])]
        /\ Cited' = [Cited EXCEPT ![q] = CitedOf(query'[q])]
    BY <1>1, <2>2, OneQueryMoves
  <2> QED
    BY <1>3, <2>1, <2>3
<1>5. Stage[q] \in {"granted", "allowed", "confirmed"}
  BY <1>2 DEF Stage, StageOf, QueryIsSound, Steps
<1>6. Cited[q] = {}
  BY DEF Cited, CitedOf
<1>7. Asker' = Asker /\ Cited' = Cited
  BY <1>2, <1>4, <1>6 DEF Asker, Cited
<1>8. Contract!Refuse(q)
  BY <1>1, <1>4, <1>5, <1>7
     DEF Contract!Refuse, Contract!store, access, Stage, Asker, May, Cited, StageOf, MayOf, CitedOf
<1> QED
  BY <1>4, <1>8

\* Asking SpiceDB grants what its relationships grant at that moment.
LEMMA GrantsAreLookedUp ==
    ASSUME QueryInvariant, NEW q \in Queries, LookUpGrants(q)
    PROVE  QueryInvariant' /\ Contract!Grant(q)
<1>1. PICK u \in Users : query' = [query EXCEPT ![q] =
          [IdleQuery(u) EXCEPT !.step = "granted",
                               !.allowed = {d \in Documents : <<u, d>> \in grants}]]
  BY DEF LookUpGrants
<1> DEFINE granted == {d \in Documents : <<u, d>> \in grants}
<1> DEFINE r == [IdleQuery(u) EXCEPT !.step = "granted", !.allowed = granted]
<1>2. /\ QueryIsSound(r) /\ StageOf(r) = "granted" /\ r.user = u
      /\ MayOf(r) = granted /\ CitedOf(r) = {}
  BY DEF QueryIsSound, IdleQuery, StageOf, MayOf, CitedOf, Fields, Steps
<1>3. UNCHANGED access /\ query' = [query EXCEPT ![q] = r]
  BY <1>1 DEF LookUpGrants
<1> HIDE DEF r
<1>4. /\ QueryInvariant'
      /\ Stage' = [Stage EXCEPT ![q] = "granted"]
      /\ Asker' = [Asker EXCEPT ![q] = u]
      /\ May' = [May EXCEPT ![q] = granted]
      /\ Cited' = [Cited EXCEPT ![q] = {}]
  <2>1. query'[q] = r
    BY <1>3 DEF QueryInvariant
  <2>2. /\ query' = [query EXCEPT ![q] = query'[q]]
        /\ QueryIsSound(query'[q])
    BY <1>2, <1>3, <2>1
  <2>3. /\ QueryInvariant'
        /\ Stage' = [Stage EXCEPT ![q] = StageOf(query'[q])]
        /\ Asker' = [Asker EXCEPT ![q] = query'[q].user]
        /\ May' = [May EXCEPT ![q] = MayOf(query'[q])]
        /\ Cited' = [Cited EXCEPT ![q] = CitedOf(query'[q])]
    BY <1>3, <2>2, OneQueryMoves
  <2> QED
    BY <1>2, <2>1, <2>3
<1>5. Stage[q] \in {"idle", "answered"}
  BY DEF LookUpGrants, Stage, StageOf
<1>6. Contract!Grant(q)
  BY <1>3, <1>4, <1>5
     DEF Contract!Grant, Contract!store, access, Stage, Asker, May, Cited, StageOf, MayOf, CitedOf
<1> QED
  BY <1>4, <1>6

\* The steps after the first keep the asker and cite nothing yet.
LEMMA QueryGoesOn ==
    ASSUME QueryInvariant, NEW q \in Queries, NEW from, NEW r,
           Step(q, from, r), QueryIsSound(r), r.user = query[q].user,
           from \notin {"idle", "answered"}
    PROVE  /\ QueryInvariant'
           /\ Stage[q] = StageOf(query[q]) /\ query[q].step = from
           /\ Stage' = [Stage EXCEPT ![q] = StageOf(r)]
           /\ Asker' = Asker
           /\ May' = [May EXCEPT ![q] = MayOf(r)]
           /\ Cited' = [Cited EXCEPT ![q] = CitedOf(r)]
           /\ r.step # "answered" => Cited' = Cited
           /\ UNCHANGED access
<1>1. /\ query' = [query EXCEPT ![q] = r] /\ query[q].step = from
      /\ UNCHANGED access
  BY DEF Step
<1>2. query'[q] = r
  BY <1>1 DEF QueryInvariant
<1>3. /\ query' = [query EXCEPT ![q] = query'[q]]
      /\ QueryIsSound(query'[q])
  BY <1>1, <1>2
<1>4. /\ QueryInvariant'
      /\ Stage' = [Stage EXCEPT ![q] = StageOf(query'[q])]
      /\ Asker' = [Asker EXCEPT ![q] = query'[q].user]
      /\ May' = [May EXCEPT ![q] = MayOf(query'[q])]
      /\ Cited' = [Cited EXCEPT ![q] = CitedOf(query'[q])]
  BY <1>1, <1>3, OneQueryMoves
<1>5. Asker' = Asker
  BY <1>2, <1>4 DEF Asker
<1>6. r.step # "answered" => Cited' = Cited
  BY <1>1, <1>2, <1>4 DEF Cited, CitedOf
<1>7. Stage[q] = StageOf(query[q])
  BY DEF Stage
<1> QED
  BY <1>1, <1>2, <1>4, <1>5, <1>6, <1>7

\* A refusal in any step.
LEMMA FailureRefuses ==
    ASSUME QueryInvariant, NEW q \in Queries, Fail(q)
    PROVE  QueryInvariant' /\ Contract!Refuse(q)
BY RefusalRefuses DEF Fail

\* Looking up the evidence allows what it covers, or refuses.
LEMMA EvidenceIsLookedUp ==
    ASSUME QueryInvariant, NEW q \in Queries, LookUpEvidence(q)
    PROVE  QueryInvariant' /\ (Contract!Allow(q) \/ Contract!Refuse(q))
<1> DEFINE allowed == WithEvidence(q, query[q].allowed)
<1>1. CASE allowed = {}
  <2>1. Step(q, query[q].step, Refusal(q)) /\ query[q].step = "granted"
    BY <1>1 DEF LookUpEvidence, Step
  <2> QED
    BY <2>1, RefusalRefuses
<1>2. CASE allowed # {}
  <2> DEFINE r == [query[q] EXCEPT !.step = "allowed", !.allowed = allowed]
  <2>1. Step(q, "granted", r)
    BY <1>2 DEF LookUpEvidence
  <2>2. QueryIsSound(query[q]) /\ query[q].step = "granted"
    BY <2>1 DEF QueryInvariant, Step
  <2>3. /\ May[q] = query[q].allowed /\ Asker[q] = query[q].user
        /\ allowed = {d \in May[q] : <<Asker[q], d>> \in evidence}
    BY <2>2 DEF May, MayOf, Asker, WithEvidence, QueryIsSound
  <2>4. /\ QueryIsSound(r) /\ StageOf(r) = "allowed" /\ r.step = "allowed"
        /\ r.user = query[q].user /\ MayOf(r) = allowed
    BY <2>2, <2>3 DEF QueryIsSound, StageOf, MayOf, Fields, Steps
  <2> HIDE DEF r
  <2>5. /\ QueryInvariant' /\ UNCHANGED access
        /\ Stage[q] = StageOf(query[q])
        /\ Stage' = [Stage EXCEPT ![q] = "allowed"]
        /\ May' = [May EXCEPT ![q] = allowed]
        /\ Asker' = Asker /\ Cited' = Cited
    BY <2>1, <2>4, QueryGoesOn
  <2>6. Stage[q] = "granted"
    BY <2>2, <2>5 DEF StageOf
  <2> HIDE DEF allowed
  <2>7. Contract!Allow(q)
    BY <2>3, <2>5, <2>6
       DEF Contract!Allow, Contract!Keep, Contract!store, access,
           Stage, Asker, May, Cited, StageOf, MayOf, CitedOf
  <2> QED
    BY <2>5, <2>7
<1> QED
  BY <1>1, <1>2

\* Searching changes nothing AnswerContract speaks of, whatever is found.
LEMMA SearchIsHidden ==
    ASSUME QueryInvariant, NEW q \in Queries, NEW from \in {"allowed", "vector", "keyword"},
           NEW r, Step(q, from, r), DOMAIN r = Fields,
           r.step \in {"vector", "keyword", "retrieved"}, r.user = query[q].user,
           r.allowed = query[q].allowed, r.documents = query[q].documents
    PROVE  QueryInvariant' /\ UNCHANGED Contract!vars
<1>1. QueryIsSound(query[q]) /\ query[q].step = from
  BY DEF QueryInvariant, Step
<1>2. /\ QueryIsSound(r) /\ StageOf(r) = "allowed" /\ r.step # "answered"
      /\ MayOf(r) = MayOf(query[q])
  BY <1>1 DEF QueryIsSound, StageOf, MayOf, Steps
<1>3. /\ QueryInvariant' /\ UNCHANGED access
      /\ Stage[q] = StageOf(query[q])
      /\ Stage' = [Stage EXCEPT ![q] = "allowed"]
      /\ May' = [May EXCEPT ![q] = MayOf(query[q])]
      /\ Asker' = Asker /\ Cited' = Cited
  BY <1>2, QueryGoesOn
<1>4. Stage[q] = "allowed"
  BY <1>1, <1>3 DEF StageOf
<1>5. Stage' = Stage /\ May' = May
  BY <1>3, <1>4 DEF Stage, May
<1>6. UNCHANGED Contract!vars
  BY <1>3, <1>5 DEF Contract!vars, access, Stage, Asker, May, Cited, StageOf, MayOf, CitedOf
<1> QED
  BY <1>3, <1>6

\* Each of the three searches is such a step.
LEMMA RetrievalIsHidden ==
    ASSUME QueryInvariant, NEW q \in Queries,
           RetrieveVector(q) \/ RetrieveKeyword(q) \/ RetrieveFacts(q)
    PROVE  QueryInvariant' /\ UNCHANGED Contract!vars
<1>1. QueryIsSound(query[q])
  BY DEF QueryInvariant
<1>2. CASE RetrieveVector(q)
  <2>1. PICK rows : Step(q, "allowed", [query[q] EXCEPT !.step = "vector", !.vector = rows])
    BY <1>2 DEF RetrieveVector
  <2> DEFINE r == [query[q] EXCEPT !.step = "vector", !.vector = rows]
  <2>2. /\ DOMAIN r = Fields /\ r.step = "vector" /\ r.user = query[q].user
        /\ r.allowed = query[q].allowed /\ r.documents = query[q].documents
    BY <1>1 DEF QueryIsSound, Fields
  <2>3. Step(q, "allowed", r)
    BY <2>1
  <2> HIDE DEF r
  <2> QED
    BY <2>2, <2>3, SearchIsHidden
<1>3. CASE RetrieveKeyword(q)
  <2>1. PICK rows : Step(q, "vector", [query[q] EXCEPT !.step = "keyword", !.keyword = rows])
    BY <1>3 DEF RetrieveKeyword
  <2> DEFINE r == [query[q] EXCEPT !.step = "keyword", !.keyword = rows]
  <2>2. /\ DOMAIN r = Fields /\ r.step = "keyword" /\ r.user = query[q].user
        /\ r.allowed = query[q].allowed /\ r.documents = query[q].documents
    BY <1>1 DEF QueryIsSound, Fields
  <2>3. Step(q, "vector", r)
    BY <2>1
  <2> HIDE DEF r
  <2> QED
    BY <2>2, <2>3, SearchIsHidden
<1>4. CASE RetrieveFacts(q)
  <2> DEFINE found(facts, chunks) == [query[q] EXCEPT
                !.step = "retrieved", !.vector = {}, !.keyword = {},
                !.chunks = Sources(chunks), !.facts = Sources(facts)]
  <2>1. PICK facts, chunks : Step(q, "keyword", found(facts, chunks))
    BY <1>4 DEF RetrieveFacts
  <2> DEFINE r == found(facts, chunks)
  <2>2. /\ DOMAIN r = Fields /\ r.step = "retrieved" /\ r.user = query[q].user
        /\ r.allowed = query[q].allowed /\ r.documents = query[q].documents
    BY <1>1 DEF QueryIsSound, Fields
  <2>3. Step(q, "keyword", r)
    BY <2>1
  <2> HIDE DEF r
  <2> QED
    BY <2>2, <2>3, SearchIsHidden
<1> QED
  BY <1>2, <1>3, <1>4

\* Checking the evidence again confirms what it still covers, or refuses.
LEMMA RecheckConfirms ==
    ASSUME QueryInvariant, NEW q \in Queries, Recheck(q)
    PROVE  QueryInvariant' /\ (Contract!Confirm(q) \/ Contract!Refuse(q))
<1> DEFINE documents == Rechecked(q)
<1>1. CASE Step(q, "retrieved", Refusal(q))
  <2>1. Step(q, query[q].step, Refusal(q)) /\ query[q].step = "retrieved"
    BY <1>1 DEF Step
  <2> QED
    BY <2>1, RefusalRefuses
<1>2. ASSUME NEW some, \A s \in some : s[1] \in documents,
             Step(q, "retrieved", [query[q] EXCEPT
                  !.step = "confirmed", !.allowed = {}, !.chunks = {}, !.facts = {},
                  !.documents = documents, !.citations = some])
      PROVE  QueryInvariant' /\ Contract!Confirm(q)
  <2> DEFINE r == [query[q] EXCEPT
                  !.step = "confirmed", !.allowed = {}, !.chunks = {}, !.facts = {},
                  !.documents = documents, !.citations = some]
  <2>1. Step(q, "retrieved", r)
    BY <1>2
  <2>2. QueryIsSound(query[q]) /\ query[q].step = "retrieved"
    BY <2>1 DEF QueryInvariant, Step
  <2>3. /\ May[q] = query[q].allowed /\ Asker[q] = query[q].user
        /\ documents \subseteq {d \in May[q] : <<Asker[q], d>> \in evidence}
        /\ documents \subseteq Documents
    BY <2>2 DEF May, MayOf, Asker, Rechecked, WithEvidence, QueryIsSound
  <2> HIDE DEF documents
  <2>4. /\ QueryIsSound(r) /\ StageOf(r) = "confirmed" /\ r.step = "confirmed"
        /\ r.user = query[q].user /\ MayOf(r) = documents
    BY <1>2, <2>2, <2>3 DEF QueryIsSound, StageOf, MayOf, Fields, Steps
  <2> HIDE DEF r
  <2>5. /\ QueryInvariant' /\ UNCHANGED access
        /\ Stage[q] = StageOf(query[q])
        /\ Stage' = [Stage EXCEPT ![q] = "confirmed"]
        /\ May' = [May EXCEPT ![q] = documents]
        /\ Asker' = Asker /\ Cited' = Cited
    BY <2>1, <2>4, QueryGoesOn
  <2>6. Stage[q] = "allowed"
    BY <2>2, <2>5 DEF StageOf
  <2>7. Contract!Confirm(q)
    BY <2>3, <2>5, <2>6
       DEF Contract!Confirm, Contract!Keep, Contract!store, access,
           Stage, Asker, May, Cited, StageOf, MayOf, CitedOf
  <2> QED
    BY <2>5, <2>7
<1>3. Step(q, "retrieved", Refusal(q)) \/
      \E some : /\ \A s \in some : s[1] \in documents
                /\ Step(q, "retrieved", [query[q] EXCEPT
                        !.step = "confirmed", !.allowed = {}, !.chunks = {}, !.facts = {},
                        !.documents = documents, !.citations = some])
  <2> DEFINE chunks == {s \in query[q].chunks : s[1] \in documents}
  <2> DEFINE facts == {s \in query[q].facts : s[1] \in documents}
  <2> DEFINE cited(some) == Step(q, "retrieved", [query[q] EXCEPT
                  !.step = "confirmed", !.allowed = {}, !.chunks = {}, !.facts = {},
                  !.documents = documents, !.citations = some])
  <2> HIDE DEF documents
  <2>1. \A some \in (SUBSET chunks) \cup {chunks \cup more : more \in SUBSET facts} :
           \A s \in some : s[1] \in documents
    OBVIOUS
  <2> HIDE DEF chunks, facts, cited
  <2>2. \/ Step(q, "retrieved", Refusal(q))
        \/ \E some \in ((SUBSET chunks) \cup {chunks \cup more : more \in SUBSET facts}) \ {{}} :
              cited(some)
    BY DEF Recheck, documents, chunks, facts, cited
  <2>3. Step(q, "retrieved", Refusal(q)) \/
        \E some : (\A s \in some : s[1] \in documents) /\ cited(some)
    BY <2>1, <2>2
  <2> QED
    BY <2>3 DEF cited
<1> HIDE DEF documents
<1> QED
  BY <1>1, <1>2, <1>3

\* Generating cites documents that were confirmed, or refuses.
LEMMA GenerationAnswers ==
    ASSUME QueryInvariant, NEW q \in Queries, Generate(q)
    PROVE  QueryInvariant' /\ (Contract!Answer(q) \/ Contract!Refuse(q))
<1>1. CASE Step(q, "confirmed", Refusal(q))
  <2>1. Step(q, query[q].step, Refusal(q)) /\ query[q].step = "confirmed"
    BY <1>1 DEF Step
  <2> QED
    BY <2>1, RefusalRefuses
<1>2. CASE Step(q, "confirmed", [query[q] EXCEPT !.step = "answered", !.documents = {}])
  <2> DEFINE r == [query[q] EXCEPT !.step = "answered", !.documents = {}]
  <2>1. QueryIsSound(query[q]) /\ query[q].step = "confirmed"
    BY <1>2 DEF QueryInvariant, Step
  <2>2. May[q] = query[q].documents
    BY <2>1 DEF May, MayOf, QueryIsSound
  <2>3. /\ QueryIsSound(r) /\ StageOf(r) = "answered" /\ r.user = query[q].user
        /\ MayOf(r) = {} /\ CitedOf(r) \subseteq May[q]
    BY <2>1, <2>2 DEF QueryIsSound, StageOf, MayOf, CitedOf, Fields, Steps
  <2>4. Step(q, "confirmed", r)
    BY <1>2
  <2> HIDE DEF r
  <2>5. /\ QueryInvariant' /\ UNCHANGED access
        /\ Stage[q] = StageOf(query[q])
        /\ Stage' = [Stage EXCEPT ![q] = "answered"]
        /\ May' = [May EXCEPT ![q] = {}]
        /\ Cited' = [Cited EXCEPT ![q] = CitedOf(r)]
        /\ Asker' = Asker
    BY <2>3, <2>4, QueryGoesOn
  <2>6. Stage[q] = "confirmed"
    BY <2>1, <2>5 DEF StageOf
  <2>7. PICK S \in SUBSET May[q] : Cited' = [Cited EXCEPT ![q] = S]
    BY <2>3, <2>5
  <2>8. Contract!Answer(q)
    BY <2>5, <2>6, <2>7
       DEF Contract!Answer, Contract!store, access, Stage, Asker, May, Cited, StageOf, MayOf, CitedOf
  <2> QED
    BY <2>5, <2>8
<1> QED
  BY <1>1, <1>2 DEF Generate

\* Writes to the graph are hidden; relationships and evidence change freely.
LEMMA TheRestOfTheSystem ==
    ASSUME QueryInvariant,
           (\E d \in Documents : Index(d)) \/ GrantsChange \/ EvidenceChanges
    PROVE  /\ QueryInvariant'
           /\ Contract!AccessChanges \/ UNCHANGED Contract!vars
<1>1. CASE \E d \in Documents : Index(d)
  <2>1. UNCHANGED <<access, query>>
    BY <1>1 DEF Index
  <2>2. QueryInvariant'
    BY <2>1 DEF QueryInvariant, QueryIsSound, access
  <2>3. UNCHANGED Contract!vars
    BY <2>1 DEF Contract!vars, access
  <2> QED
    BY <2>2, <2>3
<1>2. CASE GrantsChange
  <2>1. UNCHANGED <<evidence, query>> /\ grants' \subseteq Pairs
    BY <1>2 DEF GrantsChange, Toggled, QueryInvariant
  <2>2. QueryInvariant'
    BY <2>1 DEF QueryInvariant, QueryIsSound
  <2>3. Contract!AccessChanges
    BY <2>1 DEF Contract!AccessChanges, QueryInvariant, Pairs
  <2> QED
    BY <2>2, <2>3
<1>3. CASE EvidenceChanges
  <2>1. UNCHANGED <<grants, query>> /\ evidence' \subseteq Pairs
    BY <1>3 DEF EvidenceChanges, Toggled, QueryInvariant, Pairs
  <2>2. QueryInvariant'
    BY <2>1 DEF QueryInvariant, QueryIsSound
  <2>3. Contract!AccessChanges
    BY <2>1 DEF Contract!AccessChanges, QueryInvariant, Pairs
  <2> QED
    BY <2>2, <2>3
<1> QED
  BY <1>1, <1>2, <1>3

\* Every step keeps the invariant and is a step of AnswerContract or hidden.
LEMMA StepsMap ==
    ASSUME QueryInvariant, [Next]_vars
    PROVE  QueryInvariant' /\ [Contract!Next]_Contract!vars
<1>1. CASE UNCHANGED vars
  <2>1. QueryInvariant'
    BY <1>1 DEF vars, QueryInvariant, QueryIsSound
  <2>2. UNCHANGED Contract!vars
    BY <1>1 DEF vars, Contract!vars
  <2> QED
    BY <2>1, <2>2
<1>2. CASE (\E d \in Documents : Index(d)) \/ GrantsChange \/ EvidenceChanges
  BY <1>2, TheRestOfTheSystem DEF Contract!Next
<1>3. ASSUME NEW q \in Queries, Contract!Grant(q) \/ Contract!Allow(q) \/ Contract!Confirm(q)
                                \/ Contract!Answer(q) \/ Contract!Refuse(q)
      PROVE  Contract!Next
  BY <1>3 DEF Contract!Next
<1>4. ASSUME NEW q \in Queries, LookUpGrants(q)
      PROVE  QueryInvariant' /\ [Contract!Next]_Contract!vars
  BY <1>3, <1>4, GrantsAreLookedUp
<1>5. ASSUME NEW q \in Queries, LookUpEvidence(q)
      PROVE  QueryInvariant' /\ [Contract!Next]_Contract!vars
  BY <1>3, <1>5, EvidenceIsLookedUp
<1>6. ASSUME NEW q \in Queries, RetrieveVector(q) \/ RetrieveKeyword(q) \/ RetrieveFacts(q)
      PROVE  QueryInvariant' /\ [Contract!Next]_Contract!vars
  BY <1>6, RetrievalIsHidden
<1>7. ASSUME NEW q \in Queries, Recheck(q)
      PROVE  QueryInvariant' /\ [Contract!Next]_Contract!vars
  BY <1>3, <1>7, RecheckConfirms
<1>8. ASSUME NEW q \in Queries, Generate(q)
      PROVE  QueryInvariant' /\ [Contract!Next]_Contract!vars
  BY <1>3, <1>8, GenerationAnswers
<1>9. ASSUME NEW q \in Queries, Fail(q)
      PROVE  QueryInvariant' /\ [Contract!Next]_Contract!vars
  BY <1>3, <1>9, FailureRefuses
<1> QED
  BY <1>1, <1>2, <1>4, <1>5, <1>6, <1>7, <1>8, <1>9 DEF Next

\* Nothing is asked at first.
LEMMA InitMaps == Init => QueryInvariant /\ Contract!Init
<1> SUFFICES ASSUME Init PROVE QueryInvariant /\ Contract!Init
  OBVIOUS
<1>1. \A q \in Queries : \E u \in Users : query[q] = IdleQuery(u)
  BY DEF Init
<1>2. \A q \in Queries : /\ QueryIsSound(query[q]) /\ StageOf(query[q]) = "idle"
                         /\ MayOf(query[q]) = {} /\ CitedOf(query[q]) = {}
  <2> SUFFICES ASSUME NEW q \in Queries
               PROVE  /\ QueryIsSound(query[q]) /\ StageOf(query[q]) = "idle"
                      /\ MayOf(query[q]) = {} /\ CitedOf(query[q]) = {}
    OBVIOUS
  <2>1. PICK u \in Users : query[q] = IdleQuery(u)
    BY <1>1
  <2>2. /\ QueryIsSound(IdleQuery(u)) /\ StageOf(IdleQuery(u)) = "idle"
        /\ MayOf(IdleQuery(u)) = {} /\ CitedOf(IdleQuery(u)) = {}
    BY DEF IdleQuery, QueryIsSound, StageOf, MayOf, CitedOf, Fields, Steps
  <2> QED
    BY <2>1, <2>2
<1>3. QueryInvariant
  BY <1>2 DEF QueryInvariant, Init
<1>4. /\ Stage = [q \in Queries |-> "idle"] /\ Asker \in [Queries -> Users]
      /\ May = [q \in Queries |-> {}] /\ Cited = [q \in Queries |-> {}]
  BY <1>2 DEF Stage, Asker, May, Cited, QueryIsSound
<1>5. Contract!Init
  BY <1>4 DEF Contract!Init, Init, Stage, Asker, May, Cited, StageOf, MayOf, CitedOf
<1> QED
  BY <1>3, <1>5

\* Whatever the graph, the searches, the relationships and the evidence do
\* between the steps of answer_query, every query keeps the promise of
\* AnswerContract: what it cites was granted to its user at the first step,
\* and had evidence at the second and again after the retrieval.
THEOREM QueriesKeepContract == Spec => KeepsContract
<1>1. Spec => []QueryInvariant
  <2>1. Init => QueryInvariant
    BY InitMaps
  <2>2. QueryInvariant /\ [Next]_vars => QueryInvariant'
    BY StepsMap
  <2> QED
    BY <2>1, <2>2, PTL DEF Spec
<1>2. Init => Contract!Init
  BY InitMaps
<1>3. QueryInvariant /\ [Next]_vars => [Contract!Next]_Contract!vars
  BY StepsMap
<1> QED
  BY <1>1, <1>2, <1>3, PTL DEF Spec, KeepsContract, Contract!Spec

-----------------------------------------------------------------------------
(* Searching.                                                              *)

\* Chunks found for some documents are found among what these contributed.
LEMMA ChunkSearchIsBlind ==
    ASSUME NEW g, NEW S
    PROVE  ChunkMatches(Of(g, S), S) = ChunkMatches(g, S)
<1> DEFINE matching(h) == {x \in h.chunks \X h.documents :
                  /\ x[1].of = x[2].doc
                  /\ \A p \in {x[1].prov, x[1].belongs, x[2]} :
                        ProvenanceWhere(p, S) /\ p.doc = x[1].prov.doc}
<1>1. /\ Of(g, S).chunks = {c \in g.chunks : c.prov.doc \in S}
      /\ Of(g, S).documents = {p \in g.documents : p.doc \in S}
  BY DEF Of
<1>2. matching(Of(g, S)) = matching(g)
  BY <1>1 DEF ProvenanceWhere
<1> QED
  BY <1>2 DEF ChunkMatches

\* So are relationships: both entities, the edge and the chunk are theirs.
LEMMA FactSearchIsBlind ==
    ASSUME NEW g, NEW S
    PROVE  FactMatches(Of(g, S), S) = FactMatches(g, S)
<1> DEFINE triples(h) == {t \in h.entities \X h.facts \X h.entities :
                       /\ t[1].id = t[2].from /\ t[3].id = t[2].to
                       /\ \A p \in {t[1].prov, t[2].prov, t[3].prov} :
                             ProvenanceWhere(p, S) /\ p.doc = t[1].prov.doc}
<1>1. /\ Of(g, S).entities = {e \in g.entities : e.prov.doc \in S}
      /\ Of(g, S).facts = {f \in g.facts : f.prov.doc \in S}
  BY DEF Of
<1>2. triples(Of(g, S)) = triples(g)
  BY <1>1 DEF ProvenanceWhere
<1>3. ChunkMatches(Of(g, S), S) = ChunkMatches(g, S)
  BY ChunkSearchIsBlind
<1> DEFINE found(T, C) ==
        UNION {{[doc |-> c.doc, id |-> c.id, index |-> c.index, text |-> c.text,
                 source |-> t[1].name, type |-> t[2].type, target |-> t[3].name,
                 provs |-> c.provs \cup {t[1].prov, t[2].prov, t[3].prov}] :
                    c \in {c \in C : c.doc = t[2].prov.doc /\ c.index = t[2].index}} : t \in T}
<1>4. FactMatches(g, S) = found(triples(g), ChunkMatches(g, S))
  BY Zenon DEF FactMatches
<1>5. FactMatches(Of(g, S), S) = found(triples(Of(g, S)), ChunkMatches(Of(g, S), S))
  BY Zenon DEF FactMatches
<1> HIDE DEF found, triples
<1> QED
  BY <1>2, <1>3, <1>4, <1>5

\* Ranking and LIMIT come after the provenance clause.
LEMMA SearchesAreBlind == OnlyAllowedDocumentsMatter
<1> SUFFICES ASSUME NEW S \in SUBSET Documents
             PROVE  /\ VectorSearch(graph, S) = VectorSearch(Of(graph, S), S)
                    /\ KeywordSearch(graph, S) = KeywordSearch(Of(graph, S), S)
                    /\ FactSearch(graph, S) = FactSearch(Of(graph, S), S)
  BY DEF OnlyAllowedDocumentsMatter
<1>1. ChunkMatches(Of(graph, S), S) = ChunkMatches(graph, S)
  BY ChunkSearchIsBlind
<1>2. FactMatches(Of(graph, S), S) = FactMatches(graph, S)
  BY FactSearchIsBlind
<1> QED
  BY <1>1, <1>2, Zenon DEF VectorSearch, KeywordSearch, FactSearch

\* The three searches of retrieval/neo4j.py neither return nor make room for
\* anything of a document outside the allowlist, whatever the graph holds.
THEOREM OnlyAllowedMatters == Spec => []OnlyAllowedDocumentsMatter
<1>1. OnlyAllowedDocumentsMatter
  BY SearchesAreBlind
<1> QED
  BY <1>1, PTL

-----------------------------------------------------------------------------
(* Writing.                                                                *)

\* What one writing of a document puts into the graph.
NewChunks(p, x) ==
    {[id |-> <<p.doc, i>>, index |-> i, text |-> x.chunks[i],
      prov |-> p, of |-> p.doc, belongs |-> p] : i \in DOMAIN x.chunks}

NewEntities(p, x) ==
    LET es == x.entities
    IN  {[id |-> EntityId(p.doc, es[k]), name |-> es[k].name, prov |-> p] :
            k \in Winners(DOMAIN es, LAMBDA k : EntityId(p.doc, es[k]))}

NewFacts(p, x) ==
    LET rels == x.relationships
        resolved == {k \in DOMAIN rels : Resolved(p.doc, x, rels[k])}
    IN  {FactOf(p, x, rels[k]) :
            k \in Winners(resolved, LAMBDA k : Edge(FactOf(p, x, rels[k])))}

Contribution(p, x) ==
    [documents |-> {p}, chunks |-> NewChunks(p, x),
     entities |-> NewEntities(p, x), facts |-> NewFacts(p, x)]

\* Nodes and edges are named after the document they come from, and an edge
\* has both its ends.
Named(g) ==
    /\ \E D, C, E, F : g = [documents |-> D, chunks |-> C, entities |-> E, facts |-> F]
    /\ \A e \in g.entities : e.id[1] = e.prov.doc
    /\ \A f \in g.facts : /\ f.from[1] = f.prov.doc /\ f.to[1] = f.prov.doc
                           /\ {f.from, f.to} \subseteq {e.id : e \in g.entities}

\* New entities carry the document in their ids.
LEMMA EntitiesAreNamed ==
    ASSUME NEW p \in Provenance, NEW x
    PROVE  \A e \in NewEntities(p, x) : e.id[1] = p.doc /\ e.prov = p
BY DEF NewEntities, EntityId, Winners

\* A set of positions has a last one.
LEMMA LastPosition ==
    ASSUME NEW S \in SUBSET Nat, NEW n \in Nat, \A k \in S : k <= n, S # {}
    PROVE  \E k \in S : \A j \in S : j <= k
<1> DEFINE T == {n - k : k \in S}
<1>0. \A k \in S : n - k \in Nat
  OBVIOUS
<1>1. T \subseteq Nat /\ T # {}
  BY <1>0
<1>2. PICK m \in T : \A y \in T : ~(<<y, m>> \in OpToRel(<, Nat))
  BY <1>1, NatLessThanWellFounded, WFMin, Zenon
<1>3. \A y \in T : ~(y < m)
  BY <1>1, <1>2 DEF OpToRel
<1>4. PICK k \in S : m = n - k
  BY <1>2
<1>5. \A j \in S : ~(n - j < n - k)
  BY <1>3, <1>4
<1> QED
  BY <1>5

\* Every entity of the extraction has a node.
LEMMA EntitiesAreWritten ==
    ASSUME NEW p \in Provenance, NEW x \in Extractions, NEW y \in ToSet(x.entities)
    PROVE  EntityId(p.doc, y) \in {n.id : n \in NewEntities(p, x)}
<1> DEFINE es == x.entities
           id == EntityId(p.doc, y)
           S == {k \in DOMAIN es : EntityId(p.doc, es[k]) = id}
<1>1. Len(es) \in Nat /\ DOMAIN es = 1..Len(es)
  BY GraphAssumption
<1>2. S # {}
  BY DEF ToSet
<1>3. S \in SUBSET Nat /\ \A k \in S : k <= Len(es)
  BY <1>1
<1>4. PICK k \in S : \A j \in S : j <= k
  BY <1>1, <1>2, <1>3, LastPosition, Zenon
<1>5. \A j \in DOMAIN es : j > k => EntityId(p.doc, es[j]) # EntityId(p.doc, es[k])
  BY <1>1, <1>4
<1>6. [id |-> EntityId(p.doc, es[k]), name |-> es[k].name, prov |-> p] \in NewEntities(p, x)
  BY <1>4, <1>5 DEF NewEntities, Winners
<1> QED
  BY <1>4, <1>6

\* An endpoint that is resolved is one of the document's new entities.
LEMMA EndpointsAreNamed ==
    ASSUME NEW p \in Provenance, NEW x \in Extractions, NEW name, NEW type,
           Cardinality(EndpointIds(p.doc, x, name, type)) = 1
    PROVE  LET i == CHOOSE i \in EndpointIds(p.doc, x, name, type) : TRUE
           IN  i[1] = p.doc /\ i \in {n.id : n \in NewEntities(p, x)}
<1>1. EndpointIds(p.doc, x, name, type) # {}
  BY FS_EmptySet
<1> DEFINE i == CHOOSE i \in EndpointIds(p.doc, x, name, type) : TRUE
<1>2. i \in EndpointIds(p.doc, x, name, type)
  BY <1>1
<1> HIDE DEF i
<1>3. PICK y \in ToSet(x.entities) : i = EntityId(p.doc, y)
  BY <1>2 DEF EndpointIds
<1>4. i[1] = p.doc
  BY <1>3 DEF EntityId
<1>5. i \in {n.id : n \in NewEntities(p, x)}
  BY <1>3, EntitiesAreWritten
<1> QED
  BY <1>4, <1>5 DEF i

\* A new relationship connects two of them.
LEMMA FactsAreNamed ==
    ASSUME NEW p \in Provenance, NEW x \in Extractions
    PROVE  \A f \in NewFacts(p, x) :
               /\ f.from[1] = p.doc /\ f.to[1] = p.doc /\ f.prov = p
               /\ {f.from, f.to} \subseteq {n.id : n \in NewEntities(p, x)}
<1> DEFINE rels == x.relationships
<1>1. ASSUME NEW k \in DOMAIN rels, Resolved(p.doc, x, rels[k])
      PROVE  LET f == FactOf(p, x, rels[k])
             IN  /\ f.from[1] = p.doc /\ f.to[1] = p.doc /\ f.prov = p
                 /\ {f.from, f.to} \subseteq {n.id : n \in NewEntities(p, x)}
  <2> DEFINE rel == rels[k]
             from == CHOOSE i \in EndpointIds(p.doc, x, rel.source, rel.sourceType) : TRUE
             to == CHOOSE i \in EndpointIds(p.doc, x, rel.target, rel.targetType) : TRUE
             new == {n.id : n \in NewEntities(p, x)}
  <2>1. from[1] = p.doc /\ from \in new
    BY <1>1, EndpointsAreNamed, Zenon DEF Resolved
  <2>2. to[1] = p.doc /\ to \in new
    BY <1>1, EndpointsAreNamed, Zenon DEF Resolved
  <2>3. FactOf(p, x, rel) =
          [from |-> from, to |-> to, type |-> rel.type, index |-> rel.index, prov |-> p]
    BY Zenon DEF FactOf
  <2> HIDE DEF from, to, new
  <2> QED
    BY <2>1, <2>2, <2>3 DEF new
<1>2. \A f \in NewFacts(p, x) : \E k \in DOMAIN rels :
          Resolved(p.doc, x, rels[k]) /\ f = FactOf(p, x, rels[k])
  BY DEF NewFacts, Winners
<1> QED
  BY <1>1, <1>2

\* What a writing does to the graph, set by set.
LEMMA WritingInOneStep ==
    ASSUME NEW g, Named(g), NEW p \in Provenance, NEW x
    PROVE  LET kept == {e \in g.entities : e.prov.doc # p.doc}
           IN  WriteDocument(g, p, x) =
                  [documents |-> {y \in g.documents : y.doc # p.doc} \cup {p},
                   chunks |-> {c \in g.chunks : c.prov.doc # p.doc} \cup NewChunks(p, x),
                   entities |-> {e \in kept : e.id \notin {n.id : n \in NewEntities(p, x)}}
                                   \cup NewEntities(p, x),
                   facts |-> {f \in g.facts :
                                 /\ {f.from, f.to} \subseteq {e.id : e \in kept}
                                 /\ Edge(f) \notin {Edge(n) : n \in NewFacts(p, x)}}
                                \cup NewFacts(p, x)]
<1> DEFINE g1 == UpsertDocument(g, p)
           g2 == ReplaceDocumentChunks(g1, p, x)
           docs == {y \in g.documents : y.doc # p.doc} \cup {p}
           chunks == {c \in g.chunks : c.prov.doc # p.doc} \cup NewChunks(p, x)
<1>0. PICK D, C, E, F : g = [documents |-> D, chunks |-> C, entities |-> E, facts |-> F]
  BY DEF Named
<1>f. g.documents = D /\ g.chunks = C /\ g.entities = E /\ g.facts = F
  BY <1>0
<1>u. g1 = [g EXCEPT !.documents = docs]
  BY <1>f, Zenon DEF UpsertDocument
<1> HIDE DEF g1, docs
<1>1. g1 = [documents |-> docs, chunks |-> C, entities |-> E, facts |-> F]
  BY <1>0, <1>u
<1>2. g2 = [documents |-> docs, chunks |-> chunks, entities |-> E, facts |-> F]
  <2>1. g1.chunks = g.chunks
    BY <1>1, <1>f
  <2>2. g2 = [g1 EXCEPT !.chunks = chunks]
    BY <2>1, Zenon DEF ReplaceDocumentChunks, NewChunks
  <2> HIDE DEF g2, chunks
  <2> QED
    BY <2>2, <1>1
<1> HIDE DEF g2, chunks
<1>3. ReplaceDocumentEntities(g2, p, x) =
        LET kept == {e \in g2.entities : e.prov.doc # p.doc}
        IN  [g2 EXCEPT
                !.entities = {e \in kept : e.id \notin {n.id : n \in NewEntities(p, x)}}
                                \cup NewEntities(p, x),
                !.facts = {f \in g2.facts :
                              /\ {f.from, f.to} \subseteq {e.id : e \in kept}
                              /\ Edge(f) \notin {Edge(n) : n \in NewFacts(p, x)}}
                             \cup NewFacts(p, x)]
  BY Zenon DEF ReplaceDocumentEntities, NewEntities, NewFacts
<1>4. WriteDocument(g, p, x) = ReplaceDocumentEntities(g2, p, x)
  BY DEF WriteDocument, g2, g1
<1> QED
  BY <1>0, <1>2, <1>3, <1>4 DEF docs, chunks

\* The names stay right, and no edge loses an end.
LEMMA WritingStaysNamed ==
    ASSUME NEW g, Named(g), NEW p \in Provenance, NEW x \in Extractions
    PROVE  Named(WriteDocument(g, p, x))
<1> DEFINE h == WriteDocument(g, p, x)
           kept == {e \in g.entities : e.prov.doc # p.doc}
           new == NewEntities(p, x)
<1>1. \E D, C, E, F : h = [documents |-> D, chunks |-> C, entities |-> E, facts |-> F]
  BY WritingInOneStep
<1>2. h.entities = {e \in kept : e.id \notin {n.id : n \in new}} \cup new
  BY WritingInOneStep
<1>3. \A f \in h.facts : \/ f \in g.facts /\ {f.from, f.to} \subseteq {e.id : e \in kept}
                         \/ f \in NewFacts(p, x)
  BY WritingInOneStep
<1> HIDE DEF h
<1>4. \A e \in h.entities : e.id[1] = e.prov.doc
  BY <1>2, EntitiesAreNamed DEF Named
<1>5. {e.id : e \in kept} \cup {n.id : n \in new} \subseteq {e.id : e \in h.entities}
  BY <1>2
<1>6. \A f \in h.facts : /\ f.from[1] = f.prov.doc /\ f.to[1] = f.prov.doc
                         /\ {f.from, f.to} \subseteq {e.id : e \in h.entities}
  <2> HIDE DEF kept, new
  <2> SUFFICES ASSUME NEW f \in h.facts
               PROVE  /\ f.from[1] = f.prov.doc /\ f.to[1] = f.prov.doc
                      /\ {f.from, f.to} \subseteq {e.id : e \in h.entities}
    OBVIOUS
  <2>1. CASE f \in g.facts /\ {f.from, f.to} \subseteq {e.id : e \in kept}
    <3>1. f.from[1] = f.prov.doc /\ f.to[1] = f.prov.doc
      BY <2>1, Zenon DEF Named
    <3> QED
      BY <2>1, <3>1, <1>5
  <2>2. CASE f \in NewFacts(p, x)
    <3>1. f.from[1] = f.prov.doc /\ f.to[1] = f.prov.doc
      BY <2>2, FactsAreNamed
    <3>2. {f.from, f.to} \subseteq {n.id : n \in new}
      BY <2>2, FactsAreNamed DEF new
    <3> QED
      BY <3>1, <3>2, <1>5
  <2> QED
    BY <1>3, <2>1, <2>2
<1> QED
  BY <1>1, <1>4, <1>6 DEF Named, h

\* Neither detaching nor merging reaches another document.
LEMMA WritingLeavesOthers ==
    ASSUME NEW g, Named(g), NEW p \in Provenance, NEW x \in Extractions,
           NEW d, d # p.doc
    PROVE  Of(WriteDocument(g, p, x), {d}) = Of(g, {d})
<1> DEFINE h == WriteDocument(g, p, x)
           kept == {e \in g.entities : e.prov.doc # p.doc}
<1>1. {y \in h.documents : y.doc \in {d}} = {y \in g.documents : y.doc \in {d}}
  BY WritingInOneStep
<1>2. {c \in h.chunks : c.prov.doc \in {d}} = {c \in g.chunks : c.prov.doc \in {d}}
  BY WritingInOneStep DEF NewChunks
<1>3. {e \in h.entities : e.prov.doc \in {d}} = {e \in g.entities : e.prov.doc \in {d}}
  BY WritingInOneStep, EntitiesAreNamed DEF Named
<1>4. {f \in h.facts : f.prov.doc \in {d}} = {f \in g.facts : f.prov.doc \in {d}}
  <2>1. h.facts = {f \in g.facts :
                      /\ {f.from, f.to} \subseteq {e.id : e \in kept}
                      /\ Edge(f) \notin {Edge(n) : n \in NewFacts(p, x)}}
                     \cup NewFacts(p, x)
    BY WritingInOneStep
  <2> HIDE DEF h
  <2>2. ASSUME NEW f \in g.facts, f.prov.doc = d
        PROVE  {f.from, f.to} \subseteq {e.id : e \in kept}
    BY <2>2 DEF Named
  <2>3. ASSUME NEW f \in g.facts, f.prov.doc = d
        PROVE  Edge(f) \notin {Edge(n) : n \in NewFacts(p, x)}
    BY <2>3, FactsAreNamed DEF Named, Edge
  <2>4. \A f \in NewFacts(p, x) : f.prov.doc # d
    BY FactsAreNamed
  <2> HIDE DEF kept
  <2> QED
    BY <2>1, <2>2, <2>3, <2>4
<1> QED
  BY <1>1, <1>2, <1>3, <1>4 DEF Of

\* Nothing an earlier writing of the document left stays.
LEMMA WritingReplaces ==
    ASSUME NEW g, Named(g), NEW p \in Provenance, NEW x \in Extractions
    PROVE  Of(WriteDocument(g, p, x), {p.doc}) = Contribution(p, x)
<1> DEFINE h == WriteDocument(g, p, x)
           kept == {e \in g.entities : e.prov.doc # p.doc}
<1>1. {y \in h.documents : y.doc \in {p.doc}} = {p}
  BY WritingInOneStep
<1>2. {c \in h.chunks : c.prov.doc \in {p.doc}} = NewChunks(p, x)
  BY WritingInOneStep DEF NewChunks
<1>3. {e \in h.entities : e.prov.doc \in {p.doc}} = NewEntities(p, x)
  BY WritingInOneStep, EntitiesAreNamed
<1>4. {f \in h.facts : f.prov.doc \in {p.doc}} = NewFacts(p, x)
  <2>1. \A f \in h.facts : \/ f \in g.facts /\ {f.from, f.to} \subseteq {e.id : e \in kept}
                           \/ f \in NewFacts(p, x)
    BY WritingInOneStep
  <2>2. NewFacts(p, x) \subseteq h.facts
    BY WritingInOneStep
  <2> HIDE DEF h
  <2>3. ASSUME NEW f \in g.facts, {f.from, f.to} \subseteq {e.id : e \in kept}
        PROVE  f.prov.doc # p.doc
    BY <2>3 DEF Named
  <2>4. \A f \in NewFacts(p, x) : f.prov.doc = p.doc
    BY FactsAreNamed
  <2> QED
    BY <2>1, <2>2, <2>3, <2>4
<1> QED
  BY <1>1, <1>2, <1>3, <1>4 DEF Of, Contribution

\* Searching one document only depends on what it contributed.
LEMMA SameContributionSameMatches ==
    ASSUME NEW d, Of(graph', {d}) = Of(graph, {d})
    PROVE  /\ ChunkMatches(graph', {d}) = ChunkMatches(graph, {d})
           /\ FactMatches(graph', {d}) = FactMatches(graph, {d})
<1>1. \A g : /\ ChunkMatches(Of(g, {d}), {d}) = ChunkMatches(g, {d})
             /\ FactMatches(Of(g, {d}), {d}) = FactMatches(g, {d})
  BY ChunkSearchIsBlind, FactSearchIsBlind
<1> QED
  BY <1>1

\* Of each document the graph holds at most one provenance and one writing.
WrittenInvariant ==
    /\ Named(graph)
    /\ written \in [Documents -> SUBSET Extractions]
    /\ \A d \in Documents : \A x \in written[d], p \in graph.documents :
          p.doc = d => Of(graph, {d}) = Contribution(p, x)

\* The transaction that indexes a document.
LEMMA IndexReplaces ==
    ASSUME WrittenInvariant, NEW d \in Documents, Index(d)
    PROVE  /\ WrittenInvariant'
           /\ \A c \in Documents :
                 \/ /\ ChunkMatches(graph', {c}) = ChunkMatches(graph, {c})
                    /\ FactMatches(graph', {c}) = FactMatches(graph, {c})
                 \/ written'[c] # written[c]
                 \/ Of(graph', {c}).documents # Of(graph, {c}).documents
<1>1. PICK acl \in AclVersions, x \in Extractions :
          /\ graph' = WriteDocument(graph, [doc |-> d, acl |-> acl], x)
          /\ written' = [written EXCEPT ![d] = {x}]
  BY DEF Index
<1> DEFINE p == [doc |-> d, acl |-> acl]
<1>2. p \in Provenance /\ p.doc = d
  BY DEF Provenance
<1> HIDE DEF p
<1>3. Named(graph) /\ Named(graph')
  BY <1>1, <1>2, WritingStaysNamed DEF WrittenInvariant, p
<1>4. Of(graph', {d}) = Contribution(p, x)
  BY <1>1, <1>2, <1>3, WritingReplaces DEF p
<1>5. \A c \in Documents \ {d} : Of(graph', {c}) = Of(graph, {c})
  BY <1>1, <1>2, <1>3, WritingLeavesOthers DEF p
<1>6. written' \in [Documents -> SUBSET Extractions] /\ written'[d] = {x}
      /\ \A c \in Documents \ {d} : written'[c] = written[c]
  BY <1>1 DEF WrittenInvariant
<1>7. \A g : \A c \in Documents : Of(g, {c}).documents = {y \in g.documents : y.doc \in {c}}
  BY DEF Of
<1>8. Of(graph', {d}).documents = {p}
  BY <1>4 DEF Contribution
<1>9. WrittenInvariant'
  <2> SUFFICES ASSUME NEW c \in Documents, NEW y \in written'[c], NEW q \in graph'.documents,
                      q.doc = c
               PROVE  Of(graph', {c}) = Contribution(q, y)
    BY <1>3, <1>6 DEF WrittenInvariant
  <2>1. q \in Of(graph', {c}).documents
    BY <1>7
  <2>2. CASE c = d
    BY <2>1, <2>2, <1>4, <1>6, <1>8
  <2>3. CASE c # d
    <3>1. q \in graph.documents
      BY <2>1, <2>3, <1>5, <1>7
    <3>2. y \in written[c]
      BY <2>3, <1>6
    <3> QED
      BY <2>3, <3>1, <3>2, <1>5 DEF WrittenInvariant
  <2> QED
    BY <2>2, <2>3
<1>10. ASSUME written'[d] = written[d], Of(graph', {d}).documents = Of(graph, {d}).documents
       PROVE  Of(graph', {d}) = Of(graph, {d})
  <2>1. x \in written[d] /\ p \in graph.documents
    <3>1. p \in Of(graph, {d}).documents
      BY <1>10, <1>8
    <3> QED
      BY <3>1, <1>10, <1>6, <1>7
  <2>2. Of(graph, {d}) = Contribution(p, x)
    BY <2>1, <1>2 DEF WrittenInvariant
  <2> QED
    BY <2>2, <1>4
<1>11. \A c \in Documents : \/ Of(graph', {c}) = Of(graph, {c})
                            \/ written'[c] # written[c]
                            \/ Of(graph', {c}).documents # Of(graph, {c}).documents
  BY <1>5, <1>10
<1> QED
  BY <1>9, <1>11, SameContributionSameMatches

\* Every step.
LEMMA WritesReplace ==
    ASSUME WrittenInvariant, [Next]_vars
    PROVE  /\ WrittenInvariant'
           /\ \A c \in Documents :
                 \/ /\ ChunkMatches(graph', {c}) = ChunkMatches(graph, {c})
                    /\ FactMatches(graph', {c}) = FactMatches(graph, {c})
                 \/ written'[c] # written[c]
                 \/ Of(graph', {c}).documents # Of(graph, {c}).documents
<1>1. CASE \E d \in Documents : Index(d)
  BY <1>1, IndexReplaces
<1>2. CASE UNCHANGED <<graph, written>>
  <2>1. WrittenInvariant'
    BY <1>2 DEF WrittenInvariant, Named
  <2>2. \A c \in Documents : Of(graph', {c}) = Of(graph, {c})
    BY <1>2
  <2> QED
    BY <2>1, <2>2, SameContributionSameMatches
<1>3. (\E d \in Documents : Index(d)) \/ UNCHANGED <<graph, written>>
  BY DEF Next, vars, GrantsChange, EvidenceChanges, LookUpGrants, LookUpEvidence,
         RetrieveVector, RetrieveKeyword, RetrieveFacts, Recheck, Generate, Fail, Step
<1> QED
  BY <1>1, <1>2, <1>3

\* The empty graph.
LEMMA InitWritten == Init => WrittenInvariant
<1> SUFFICES ASSUME Init PROVE WrittenInvariant
  OBVIOUS
<1>1. Named(graph)
  BY DEF Init, Named, EmptyGraph
<1>2. written \in [Documents -> SUBSET Extractions] /\ \A d \in Documents : written[d] = {}
  BY DEF Init
<1> QED
  BY <1>1, <1>2 DEF WrittenInvariant

\* Indexing a document (graph/writer.py) changes nothing that is found for the
\* others, and indexing the same content again changes nothing at all.
THEOREM OthersStay == Spec => OthersAreUntouched
<1>1. Init => WrittenInvariant
  BY InitWritten
<1>2. WrittenInvariant /\ [Next]_vars => WrittenInvariant'
  BY WritesReplace
<1>3. WrittenInvariant /\ [Next]_vars =>
        [\A d \in Documents :
          \/ /\ ChunkMatches(graph', {d}) = ChunkMatches(graph, {d})
             /\ FactMatches(graph', {d}) = FactMatches(graph, {d})
          \/ written'[d] # written[d]
          \/ Of(graph', {d}).documents # Of(graph, {d}).documents]_vars
  BY WritesReplace
<1> QED
  BY <1>1, <1>2, <1>3, PTL DEF Spec, OthersAreUntouched

-----------------------------------------------------------------------------
(* Types.                                                                  *)

\* What is in the graph, and what a query holds of it.
GraphTypes(g) ==
    /\ \A p \in g.documents : p \in Provenance
    /\ \A c \in g.chunks : c.prov \in Provenance /\ c.text \in Texts
    /\ \A e \in g.entities : e.prov \in Provenance /\ e.name \in Names
    /\ \A f \in g.facts : f.prov \in Provenance

QueryTypes(r) ==
    /\ r.step \in {"allowed", "vector", "keyword", "retrieved"} => r.allowed # {}
    /\ \A row \in r.vector \cup r.keyword : row.doc \in Documents
    /\ \A s \in r.chunks \cup r.facts \cup r.citations : s[1] \in Documents

TypeInvariant ==
    /\ QueryInvariant /\ WrittenInvariant /\ GraphTypes(graph)
    /\ \A q \in Queries : QueryTypes(query[q])

\* What a search matches is of a document it was allowed to look at.
LEMMA MatchesAreAllowed ==
    ASSUME NEW g, NEW S
    PROVE  /\ \A r \in ChunkMatches(g, S) : r.doc \in S
           /\ \A r \in FactMatches(g, S) : r.doc \in S
<1>1. \A r \in ChunkMatches(g, S) : r.doc \in S
  BY DEF ChunkMatches, ProvenanceWhere
<1>2. \A r \in FactMatches(g, S) : \E c \in ChunkMatches(g, S) : r.doc = c.doc
  BY DEF FactMatches
<1> QED
  BY <1>1, <1>2

\* So is what a search returns, after ranking, LIMIT and the last check.
LEMMA SearchesAreAllowed ==
    ASSUME NEW g, NEW S
    PROVE  /\ \A T \in VectorSearch(g, S) : \A r \in T : r.doc \in S
           /\ \A T \in KeywordSearch(g, S) : \A r \in T : r.doc \in S
           /\ \A T \in FactSearch(g, S) : \A r \in T : r.doc \in S
<1>1. \A T, A : Checked(T, A) \subseteq T
  BY DEF Checked
<1>2. \A T \in VectorSearch(g, S) : T \subseteq ChunkMatches(g, S)
  BY <1>1 DEF VectorSearch, Tops
<1>3. \A T \in KeywordSearch(g, S) : T \subseteq ChunkMatches(g, S)
  BY <1>1 DEF KeywordSearch, Tops
<1>4. \A T \in FactSearch(g, S) : T \subseteq FactMatches(g, S)
  BY <1>1 DEF FactSearch, Tops
<1> QED
  BY <1>2, <1>3, <1>4, MatchesAreAllowed

\* Fusing two rankings makes up no row.
LEMMA FusedRowsWereFound ==
    ASSUME NEW vector, NEW keyword, NEW T \in FuseChunkRankings(vector, keyword)
    PROVE  T \subseteq vector \cup keyword
BY DEF FuseChunkRankings, Tops

\* Writing keeps the graph well typed.
LEMMA WritingKeepsTypes ==
    ASSUME NEW g, Named(g), GraphTypes(g), NEW p \in Provenance, NEW x \in Extractions
    PROVE  GraphTypes(WriteDocument(g, p, x))
<1> DEFINE h == WriteDocument(g, p, x)
<1>1. /\ h.documents \subseteq g.documents \cup {p}
      /\ h.chunks \subseteq g.chunks \cup NewChunks(p, x)
      /\ h.entities \subseteq g.entities \cup NewEntities(p, x)
      /\ h.facts \subseteq g.facts \cup NewFacts(p, x)
  BY WritingInOneStep
<1> HIDE DEF h
<1>2. \A c \in NewChunks(p, x) : c.prov = p /\ c.text \in Texts
  BY GraphAssumption DEF NewChunks
<1>3. \A e \in NewEntities(p, x) : e.prov = p /\ e.name \in Names
  BY GraphAssumption DEF NewEntities, Winners, ToSet
<1>4. \A f \in NewFacts(p, x) : f.prov = p
  BY FactsAreNamed
<1> QED
  BY <1>1, <1>2, <1>3, <1>4 DEF GraphTypes, h

\* The query whose turn it is goes on to a well-typed state, whatever it finds.
LEMMA QueryStepKeepsTypes ==
    ASSUME TypeInvariant, NEW q \in Queries,
           \/ LookUpGrants(q) \/ LookUpEvidence(q) \/ RetrieveVector(q)
           \/ RetrieveKeyword(q) \/ RetrieveFacts(q) \/ Recheck(q)
           \/ Generate(q) \/ Fail(q)
    PROVE  QueryTypes(query'[q]) /\ \A p \in Queries \ {q} : query'[p] = query[p]
<1>0. /\ QueryIsSound(query[q]) /\ QueryTypes(query[q])
      /\ query = [p \in Queries |-> query[p]]
  BY DEF TypeInvariant, QueryInvariant
<1> DEFINE moves(r) == query' = [query EXCEPT ![q] = r]
<1>1. ASSUME NEW r, moves(r), QueryTypes(r)
      PROVE  QueryTypes(query'[q]) /\ \A p \in Queries \ {q} : query'[p] = query[p]
  <2>1. query'[q] = r /\ \A p \in Queries \ {q} : query'[p] = query[p]
    BY <1>0, <1>1
  <2> QED
    BY <1>1, <2>1
<1>2. QueryTypes(Refusal(q))
  BY DEF QueryTypes, Refusal, IdleQuery
<1>3. CASE LookUpGrants(q)
  <2>1. PICK u \in Users : moves([IdleQuery(u) EXCEPT !.step = "granted",
                                     !.allowed = {d \in Documents : <<u, d>> \in grants}])
    BY <1>3 DEF LookUpGrants
  <2>2. QueryTypes([IdleQuery(u) EXCEPT !.step = "granted",
                       !.allowed = {d \in Documents : <<u, d>> \in grants}])
    BY DEF QueryTypes, IdleQuery
  <2> HIDE DEF moves
  <2> QED
    BY <1>1, <2>1, <2>2
<1>4. CASE LookUpEvidence(q)
  <2> DEFINE allowed == WithEvidence(q, query[q].allowed)
             r == [query[q] EXCEPT !.step = "allowed", !.allowed = allowed]
  <2>1. CASE allowed = {}
    <3>1. moves(Refusal(q))
      BY <1>4, <2>1 DEF LookUpEvidence, Step
    <3> HIDE DEF moves
    <3> QED
      BY <1>1, <1>2, <3>1
  <2>2. CASE allowed # {}
    <3>1. moves(r)
      BY <1>4, <2>2 DEF LookUpEvidence, Step
    <3>2. QueryTypes(r)
      BY <1>0, <2>2 DEF QueryTypes, QueryIsSound, Fields
    <3> HIDE DEF moves, r
    <3> QED
      BY <1>1, <3>1, <3>2
  <2> QED
    BY <2>1, <2>2
<1>5. CASE RetrieveVector(q)
  <2>1. PICK rows \in VectorSearch(graph, query[q].allowed) \cup {{}} :
           /\ query[q].step = "allowed"
           /\ moves([query[q] EXCEPT !.step = "vector", !.vector = rows])
    BY <1>5 DEF RetrieveVector, Step
  <2>2. \A row \in rows : row.doc \in Documents
    BY <1>0, <2>1, SearchesAreAllowed DEF QueryIsSound
  <2> DEFINE r == [query[q] EXCEPT !.step = "vector", !.vector = rows]
  <2>3. QueryTypes(r)
    BY <1>0, <2>1, <2>2 DEF QueryTypes, QueryIsSound, Fields
  <2> HIDE DEF moves
  <2>4. moves(r)
    BY <2>1
  <2> HIDE DEF r
  <2> QED
    BY <1>1, <2>3, <2>4
<1>6. CASE RetrieveKeyword(q)
  <2>1. PICK rows \in KeywordSearch(graph, query[q].allowed) :
           /\ query[q].step = "vector"
           /\ moves([query[q] EXCEPT !.step = "keyword", !.keyword = rows])
    BY <1>6 DEF RetrieveKeyword, Step
  <2>2. \A row \in rows : row.doc \in Documents
    BY <1>0, <2>1, SearchesAreAllowed DEF QueryIsSound
  <2> DEFINE r == [query[q] EXCEPT !.step = "keyword", !.keyword = rows]
  <2>3. QueryTypes(r)
    BY <1>0, <2>1, <2>2 DEF QueryTypes, QueryIsSound, Fields
  <2> HIDE DEF moves
  <2>4. moves(r)
    BY <2>1
  <2> HIDE DEF r
  <2> QED
    BY <1>1, <2>3, <2>4
<1>7. CASE RetrieveFacts(q)
  <2>1. PICK facts \in FactSearch(graph, query[q].allowed),
             chunks \in FuseChunkRankings(query[q].vector, query[q].keyword) :
           /\ query[q].step = "keyword"
           /\ moves([query[q] EXCEPT !.step = "retrieved", !.vector = {}, !.keyword = {},
                        !.chunks = Sources(chunks), !.facts = Sources(facts)])
    BY <1>7 DEF RetrieveFacts, Step
  <2>2. \A s \in Sources(facts) : s[1] \in Documents
    BY <1>0, <2>1, SearchesAreAllowed DEF QueryIsSound, Sources
  <2>3. \A s \in Sources(chunks) : s[1] \in Documents
    BY <1>0, <2>1, FusedRowsWereFound DEF QueryTypes, Sources
  <2> DEFINE r == [query[q] EXCEPT !.step = "retrieved", !.vector = {}, !.keyword = {},
                        !.chunks = Sources(chunks), !.facts = Sources(facts)]
  <2>4. QueryTypes(r)
    BY <1>0, <2>1, <2>2, <2>3 DEF QueryTypes, QueryIsSound, Fields
  <2> HIDE DEF moves
  <2>5. moves(r)
    BY <2>1
  <2> HIDE DEF r
  <2> QED
    BY <1>1, <2>4, <2>5
<1>8. CASE Recheck(q)
  <2> DEFINE documents == Rechecked(q)
             chunks == {s \in query[q].chunks : s[1] \in documents}
             facts == {s \in query[q].facts : s[1] \in documents}
             choices == ((SUBSET chunks) \cup {chunks \cup more : more \in SUBSET facts}) \ {{}}
             next(some) == [query[q] EXCEPT
                  !.step = "confirmed", !.allowed = {}, !.chunks = {}, !.facts = {},
                  !.documents = documents, !.citations = some]
  <2>1. moves(Refusal(q)) \/ \E some \in choices : moves(next(some))
    BY <1>8 DEF Recheck, Step
  <2>2. ASSUME NEW some \in choices PROVE \A s \in some : s[1] \in Documents
    BY <1>0 DEF QueryTypes
  <2>3. ASSUME NEW some \in choices PROVE QueryTypes(next(some))
    <3> HIDE DEF documents, choices
    <3> QED
      BY <1>0, <2>2, <2>3 DEF QueryTypes, QueryIsSound, Fields
  <2> HIDE DEF moves, next, choices
  <2> QED
    BY <1>1, <1>2, <2>1, <2>3
<1>9. CASE Generate(q)
  <2> DEFINE r == [query[q] EXCEPT !.step = "answered", !.documents = {}]
  <2>1. moves(r) \/ moves(Refusal(q))
    BY <1>9 DEF Generate, Step
  <2>2. QueryTypes(r)
    BY <1>0 DEF QueryTypes, QueryIsSound, Fields
  <2> HIDE DEF moves, r
  <2> QED
    BY <1>1, <1>2, <2>1, <2>2
<1>10. CASE Fail(q)
  <2>1. moves(Refusal(q))
    BY <1>10 DEF Fail, Step
  <2> HIDE DEF moves
  <2> QED
    BY <1>1, <1>2, <2>1
<1> HIDE DEF moves
<1> QED
  BY <1>3, <1>4, <1>5, <1>6, <1>7, <1>8, <1>9, <1>10

\* The type invariant is inductive.
LEMMA TypesStay ==
    ASSUME TypeInvariant, [Next]_vars
    PROVE  TypeInvariant'
<1>1. QueryInvariant' /\ WrittenInvariant'
  BY StepsMap, WritesReplace DEF TypeInvariant
<1>2. CASE \E d \in Documents : Index(d)
  <2>1. PICK d \in Documents : Index(d)
    BY <1>2
  <2>2. PICK acl \in AclVersions, x \in Extractions :
           graph' = WriteDocument(graph, [doc |-> d, acl |-> acl], x)
    BY <2>1 DEF Index
  <2>3. [doc |-> d, acl |-> acl] \in Provenance
    BY DEF Provenance
  <2>4. GraphTypes(graph')
    BY <2>2, <2>3, WritingKeepsTypes DEF TypeInvariant, WrittenInvariant
  <2>5. query' = query
    BY <2>1 DEF Index
  <2> QED
    BY <1>1, <2>4, <2>5 DEF TypeInvariant, GraphTypes, QueryTypes
<1>3. CASE UNCHANGED <<graph, query>>
  BY <1>1, <1>3 DEF TypeInvariant, GraphTypes, QueryTypes
<1>4. ASSUME NEW q \in Queries,
             \/ LookUpGrants(q) \/ LookUpEvidence(q) \/ RetrieveVector(q)
             \/ RetrieveKeyword(q) \/ RetrieveFacts(q) \/ Recheck(q)
             \/ Generate(q) \/ Fail(q)
      PROVE  TypeInvariant'
  <2>1. graph' = graph
    BY <1>4 DEF LookUpGrants, LookUpEvidence, RetrieveVector, RetrieveKeyword,
       RetrieveFacts, Recheck, Generate, Fail, Step
  <2>2. QueryTypes(query'[q]) /\ \A p \in Queries \ {q} : query'[p] = query[p]
    BY <1>4, QueryStepKeepsTypes
  <2>3. \A p \in Queries : QueryTypes(query'[p])
    BY <2>2 DEF TypeInvariant
  <2> QED
    BY <1>1, <2>1, <2>3 DEF TypeInvariant, GraphTypes, QueryTypes
<1>5. GrantsChange \/ EvidenceChanges \/ UNCHANGED vars => UNCHANGED <<graph, query>>
  BY DEF GrantsChange, EvidenceChanges, vars
<1> QED
  BY <1>2, <1>3, <1>4, <1>5 DEF Next

\* Nothing is stored and nothing is asked at first.
LEMMA InitTypes == Init => TypeInvariant
<1> SUFFICES ASSUME Init PROVE TypeInvariant
  OBVIOUS
<1>1. QueryInvariant /\ WrittenInvariant
  BY InitMaps, InitWritten
<1>2. GraphTypes(graph)
  BY DEF Init, EmptyGraph, GraphTypes
<1>3. ASSUME NEW q \in Queries PROVE QueryTypes(query[q])
  <2>1. PICK u \in Users : query[q] = IdleQuery(u)
    BY DEF Init
  <2> QED
    BY <2>1 DEF IdleQuery, QueryTypes
<1> QED
  BY <1>1, <1>2, <1>3 DEF TypeInvariant

\* Graph, grants and queries hold what TypeOK says: every row, every citation
\* is of a document, and a search never starts from an empty allowlist.
THEOREM QueryTyping == Spec => []TypeOK
<1>1. TypeInvariant => TypeOK
  BY DEF TypeInvariant, QueryInvariant, QueryIsSound, WrittenInvariant, GraphTypes,
     QueryTypes, TypeOK, Steps
<1> QED
  BY <1>1, InitTypes, TypesStay, PTL DEF Spec

-----------------------------------------------------------------------------
(* What was written is found.                                              *)

\* Searching what one writing contributed: every chunk, and nothing else.
LEMMA ContributedChunks ==
    ASSUME NEW p \in Provenance, NEW x
    PROVE  ChunkMatches(Contribution(p, x), {p.doc}) =
              {[doc |-> p.doc, id |-> <<p.doc, i>>, index |-> i, text |-> x.chunks[i],
                provs |-> {p}] : i \in DOMAIN x.chunks}
<1> DEFINE g == Contribution(p, x)
           matching == {y \in g.chunks \X g.documents :
                  /\ y[1].of = y[2].doc
                  /\ \A r \in {y[1].prov, y[1].belongs, y[2]} :
                        ProvenanceWhere(r, {p.doc}) /\ r.doc = y[1].prov.doc}
           row(m) == [doc |-> m[1].prov.doc, id |-> m[1].id, index |-> m[1].index,
                      text |-> m[1].text, provs |-> {m[1].prov, m[1].belongs, m[2]}]
           chunk(i) == [id |-> <<p.doc, i>>, index |-> i, text |-> x.chunks[i],
                        prov |-> p, of |-> p.doc, belongs |-> p]
           found(i) == [doc |-> p.doc, id |-> <<p.doc, i>>, index |-> i,
                        text |-> x.chunks[i], provs |-> {p}]
<1>1. g.chunks = {chunk(i) : i \in DOMAIN x.chunks} /\ g.documents = {p}
  BY DEF Contribution, NewChunks
<1>2. \A i \in DOMAIN x.chunks : row(<<chunk(i), p>>) = found(i)
  OBVIOUS
<1>3. ASSUME NEW m \in matching
      PROVE  \E i \in DOMAIN x.chunks : row(m) = found(i)
  <2>1. m[1] \in g.chunks /\ m[2] = p /\ m = <<m[1], m[2]>>
    BY <1>1
  <2>2. PICK i \in DOMAIN x.chunks : m = <<chunk(i), p>>
    BY <1>1, <2>1
  <2> QED
    BY <1>2, <2>2
<1>4. ASSUME NEW i \in DOMAIN x.chunks
      PROVE  <<chunk(i), p>> \in matching
  <2>1. <<chunk(i), p>> \in g.chunks \X g.documents
    BY <1>1
  <2>2. /\ chunk(i).of = p.doc /\ chunk(i).prov = p /\ chunk(i).belongs = p
        /\ ProvenanceWhere(p, {p.doc})
    BY DEF ProvenanceWhere
  <2> QED
    BY <2>1, <2>2
<1>5. ChunkMatches(g, {p.doc}) = {row(m) : m \in matching}
  BY Zenon DEF ChunkMatches
<1> HIDE DEF g, matching, row, chunk, found
<1>6. {row(m) : m \in matching} = {found(i) : i \in DOMAIN x.chunks}
  BY <1>2, <1>3, <1>4
<1> QED
  BY <1>5, <1>6, Zenon DEF found, g

\* A row shows an edge between two entities.
Shows(r, f, a, b) ==
    /\ a.id = f.from /\ b.id = f.to
    /\ r.source = a.name /\ r.type = f.type /\ r.target = b.name /\ r.index = f.index

\* And every relationship whose statement is in one of the chunks.
LEMMA ContributedFacts ==
    ASSUME NEW p \in Provenance, NEW x
    PROVE  /\ \A r \in FactMatches(Contribution(p, x), {p.doc}) :
                 /\ r.provs = {p}
                 /\ \E f \in NewFacts(p, x) : \E a, b \in NewEntities(p, x) : Shows(r, f, a, b)
           /\ \A f \in NewFacts(p, x) : \A a, b \in NewEntities(p, x) :
                 a.id = f.from /\ b.id = f.to /\ f.index \in DOMAIN x.chunks =>
                    \E r \in FactMatches(Contribution(p, x), {p.doc}) : Shows(r, f, a, b)
<1> DEFINE g == Contribution(p, x)
           triples == {t \in g.entities \X g.facts \X g.entities :
                       /\ t[1].id = t[2].from /\ t[3].id = t[2].to
                       /\ \A r \in {t[1].prov, t[2].prov, t[3].prov} :
                             ProvenanceWhere(r, {p.doc}) /\ r.doc = t[1].prov.doc}
           stated(t) == {c \in ChunkMatches(g, {p.doc}) :
                            c.doc = t[2].prov.doc /\ c.index = t[2].index}
           row(c, t) == [doc |-> c.doc, id |-> c.id, index |-> c.index, text |-> c.text,
                 source |-> t[1].name, type |-> t[2].type, target |-> t[3].name,
                 provs |-> c.provs \cup {t[1].prov, t[2].prov, t[3].prov}]
<1>1. g.entities = NewEntities(p, x) /\ g.facts = NewFacts(p, x)
  BY DEF Contribution
<1>2. /\ \A e \in NewEntities(p, x) : e.prov = p
      /\ \A f \in NewFacts(p, x) : f.prov = p
  BY DEF NewEntities, NewFacts, Winners, FactOf
<1>3. FactMatches(g, {p.doc}) = UNION {{row(c, t) : c \in stated(t)} : t \in triples}
  BY Zenon DEF FactMatches
<1>4. \A c \in ChunkMatches(g, {p.doc}) : c.provs = {p} /\ c.doc = p.doc
  BY ContributedChunks
<1>5. ASSUME NEW i \in DOMAIN x.chunks
      PROVE  \E c \in ChunkMatches(g, {p.doc}) : c.index = i /\ c.doc = p.doc
  <2> DEFINE c == [doc |-> p.doc, id |-> <<p.doc, i>>, index |-> i, text |-> x.chunks[i],
                   provs |-> {p}]
  <2>1. c \in ChunkMatches(g, {p.doc}) /\ c.index = i /\ c.doc = p.doc
    BY ContributedChunks
  <2> HIDE DEF c
  <2> QED
    BY <2>1
<1>6. ASSUME NEW r \in FactMatches(g, {p.doc})
      PROVE  /\ r.provs = {p}
             /\ \E f \in NewFacts(p, x) : \E a, b \in NewEntities(p, x) : Shows(r, f, a, b)
  <2>1. PICK t \in triples : r \in {row(c, t) : c \in stated(t)}
    <3> HIDE DEF triples, stated, row
    <3> QED
      BY <1>3, <1>6
  <2>2. PICK c \in stated(t) : r = row(c, t)
    BY <2>1
  <2>3. /\ t[1] \in NewEntities(p, x) /\ t[2] \in NewFacts(p, x) /\ t[3] \in NewEntities(p, x)
        /\ t[1].id = t[2].from /\ t[3].id = t[2].to
    BY <1>1, <2>1
  <2>4. c.provs = {p} /\ c.index = t[2].index
    BY <1>4, <2>2
  <2>5. /\ r.index = c.index /\ r.source = t[1].name /\ r.type = t[2].type
        /\ r.target = t[3].name /\ r.provs = c.provs \cup {t[1].prov, t[2].prov, t[3].prov}
    BY <2>2
  <2>6. r.provs = {p}
    BY <1>2, <2>3, <2>4, <2>5
  <2>7. Shows(r, t[2], t[1], t[3])
    BY <2>3, <2>4, <2>5 DEF Shows
  <2> QED
    BY <2>3, <2>6, <2>7
<1>7. ASSUME NEW f \in NewFacts(p, x), NEW a \in NewEntities(p, x), NEW b \in NewEntities(p, x),
             a.id = f.from, b.id = f.to, f.index \in DOMAIN x.chunks
      PROVE  \E r \in FactMatches(g, {p.doc}) : Shows(r, f, a, b)
  <2> DEFINE triple == <<a, f, b>>
  <2>1. triple \in triples
    BY <1>1, <1>2, <1>7 DEF ProvenanceWhere
  <2>2. PICK c \in ChunkMatches(g, {p.doc}) : c.index = f.index /\ c.doc = p.doc
    BY <1>5, <1>7
  <2>3. c \in stated(triple)
    BY <1>2, <2>2
  <2>4. row(c, triple) \in FactMatches(g, {p.doc})
    <3> HIDE DEF triples, stated, row, triple
    <3>1. row(c, triple) \in {row(e, triple) : e \in stated(triple)}
      BY <2>3
    <3>2. {row(e, triple) : e \in stated(triple)} \in {{row(e, t) : e \in stated(t)} : t \in triples}
      BY <2>1
    <3> QED
      BY <1>3, <3>1, <3>2
  <2>5. Shows(row(c, triple), f, a, b)
    BY <1>7, <2>2 DEF Shows
  <2> HIDE DEF row
  <2> QED
    BY <2>4, <2>5
<1> HIDE DEF triples, stated, row
<1> QED
  BY <1>2, <1>6, <1>7 DEF g

\* An entity is known by the normal form of its name.
LEMMA EntityNames ==
    ASSUME NEW p, NEW x
    PROVE  \A e \in NewEntities(p, x) : e.id[3] = Normal[e.name]
BY DEF NewEntities, EntityId, Winners

\* An edge that connects resolved endpoints is between the names it was stated
\* with, up to their spelling.
LEMMA EndsOfFacts ==
    ASSUME NEW p \in Provenance, NEW x \in Extractions, NEW rel, Resolved(p.doc, x, rel)
    PROVE  /\ FactOf(p, x, rel).from[3] = Normal[rel.source]
           /\ FactOf(p, x, rel).to[3] = Normal[rel.target]
           /\ FactOf(p, x, rel).type = rel.type /\ FactOf(p, x, rel).index = rel.index
           /\ FactOf(p, x, rel).prov = p
<1> DEFINE from == CHOOSE i \in EndpointIds(p.doc, x, rel.source, rel.sourceType) : TRUE
           to == CHOOSE i \in EndpointIds(p.doc, x, rel.target, rel.targetType) : TRUE
<1>1. /\ EndpointIds(p.doc, x, rel.source, rel.sourceType) # {}
      /\ EndpointIds(p.doc, x, rel.target, rel.targetType) # {}
  BY FS_EmptySet DEF Resolved
<1>2. /\ from \in EndpointIds(p.doc, x, rel.source, rel.sourceType)
      /\ to \in EndpointIds(p.doc, x, rel.target, rel.targetType)
  BY <1>1
<1>3. FactOf(p, x, rel) =
        [from |-> from, to |-> to, type |-> rel.type, index |-> rel.index, prov |-> p]
  BY Zenon DEF FactOf
<1> HIDE DEF from, to
<1>4. from[3] = Normal[rel.source] /\ to[3] = Normal[rel.target]
  BY <1>2 DEF EndpointIds, EntityId
<1> QED
  BY <1>3, <1>4

\* Of the statements of one edge, the last is written.
LEMMA StatedIsWritten ==
    ASSUME NEW p \in Provenance, NEW x \in Extractions, NEW rel \in ToSet(x.relationships),
           Resolved(p.doc, x, rel)
    PROVE  \E y \in ToSet(x.relationships) :
              /\ Resolved(p.doc, x, y) /\ FactOf(p, x, y) \in NewFacts(p, x)
              /\ Edge(FactOf(p, x, y)) = Edge(FactOf(p, x, rel))
<1> DEFINE rels == x.relationships
           resolved == {k \in DOMAIN rels : Resolved(p.doc, x, rels[k])}
           edge(k) == Edge(FactOf(p, x, rels[k]))
           S == {k \in resolved : edge(k) = Edge(FactOf(p, x, rel))}
<1>1. Len(rels) \in Nat /\ DOMAIN rels = 1..Len(rels)
  BY GraphAssumption
<1>2. S # {}
  <2>1. PICK k \in DOMAIN rels : rel = rels[k]
    BY DEF ToSet
  <2> QED
    BY <2>1
<1>3. S \in SUBSET Nat /\ \A k \in S : k <= Len(rels)
  BY <1>1
<1>4. PICK k \in S : \A j \in S : j <= k
  BY <1>1, <1>2, <1>3, LastPosition, Zenon
<1>5. k \in resolved /\ edge(k) = Edge(FactOf(p, x, rel)) /\ rels[k] \in ToSet(rels)
  BY <1>4 DEF ToSet
<1>6. \A j \in resolved : j > k => edge(j) # edge(k)
  <2> SUFFICES ASSUME NEW j \in resolved, j > k, edge(j) = edge(k)
               PROVE  FALSE
    OBVIOUS
  <2>1. j \in S
    BY <1>5
  <2>2. j <= k /\ j \in Nat /\ k \in Nat
    BY <1>3, <1>4, <2>1
  <2> QED
    BY <2>2
<1>7. FactOf(p, x, rels[k]) \in NewFacts(p, x)
  BY <1>5, <1>6 DEF NewFacts, Winners
<1> QED
  BY <1>5, <1>7

\* A document that was written has its node.
Stored == \A d \in Documents : written[d] # {} => \E p \in graph.documents : p.doc = d

\* A document that was written has a node, whatever is written after it.
LEMMA StoredStays ==
    ASSUME WrittenInvariant, Stored, [Next]_vars
    PROVE  Stored'
<1>1. ASSUME NEW d \in Documents, Index(d) PROVE Stored'
  <2>1. PICK acl \in AclVersions, x \in Extractions :
          /\ graph' = WriteDocument(graph, [doc |-> d, acl |-> acl], x)
          /\ written' = [written EXCEPT ![d] = {x}]
    BY <1>1 DEF Index
  <2> DEFINE p == [doc |-> d, acl |-> acl]
  <2>2. p \in Provenance /\ p.doc = d
    BY DEF Provenance
  <2> HIDE DEF p
  <2>3. graph'.documents = {y \in graph.documents : y.doc # d} \cup {p}
    BY <2>1, <2>2, WritingInOneStep DEF WrittenInvariant, p
  <2>4. \A c \in Documents \ {d} : written'[c] = written[c]
    BY <2>1 DEF WrittenInvariant
  <2> QED
    BY <2>2, <2>3, <2>4 DEF Stored
<1>2. CASE UNCHANGED <<graph, written>>
  BY <1>2 DEF Stored
<1>3. (\E d \in Documents : Index(d)) \/ UNCHANGED <<graph, written>>
  BY DEF Next, vars, GrantsChange, EvidenceChanges, LookUpGrants, LookUpEvidence,
         RetrieveVector, RetrieveKeyword, RetrieveFacts, Recheck, Generate, Fail, Step
<1> QED
  BY <1>1, <1>2, <1>3

\* What one document contributed is what is found for whoever may see it.
LEMMA WrittenHolds ==
    ASSUME TypeInvariant, Stored
    PROVE  WrittenIsFound
<1> SUFFICES ASSUME NEW d \in Documents, NEW x \in written[d]
    PROVE  LET found == Checked(ChunkMatches(graph, {d}), {d})
               facts == Checked(FactMatches(graph, {d}), {d})
               rels == ToSet(x.relationships)
               same(a, b) == /\ a.type = b.type
                             /\ Normal[a.source] = Normal[b.source]
                             /\ Normal[a.target] = Normal[b.target]
               anchored(rel) == \A y \in rels : same(y, rel) => y.index \in DOMAIN x.chunks
           IN  /\ {<<r.index, r.text>> : r \in found} =
                     {<<i, x.chunks[i]>> : i \in DOMAIN x.chunks}
               /\ \A rel \in rels :
                     Resolved(d, x, rel) /\ anchored(rel) => \E f \in facts : same(rel, f)
               /\ \A f \in facts : \E rel \in rels : same(rel, f) /\ f.index = rel.index
  BY Zenon DEF WrittenIsFound
<1> DEFINE rels == ToSet(x.relationships)
           same(a, b) == /\ a.type = b.type
                         /\ Normal[a.source] = Normal[b.source]
                         /\ Normal[a.target] = Normal[b.target]
           anchored(rel) == \A y \in rels : same(y, rel) => y.index \in DOMAIN x.chunks
<1>1. PICK p \in graph.documents : p.doc = d
  BY DEF Stored
<1>2. p \in Provenance /\ x \in Extractions
  BY <1>1 DEF TypeInvariant, GraphTypes, WrittenInvariant
<1>3. Of(graph, {d}) = Contribution(p, x)
  BY <1>1 DEF TypeInvariant, WrittenInvariant
<1>4. /\ ChunkMatches(graph, {d}) = ChunkMatches(Contribution(p, x), {p.doc})
      /\ FactMatches(graph, {d}) = FactMatches(Contribution(p, x), {p.doc})
  BY <1>1, <1>3, ChunkSearchIsBlind, FactSearchIsBlind
<1> DEFINE chunks == ChunkMatches(Contribution(p, x), {p.doc})
           facts == FactMatches(Contribution(p, x), {p.doc})
<1>5. ASSUME NEW T, \A r \in T : r.provs = {p}
      PROVE  Checked(T, {d}) = T
  BY <1>1, <1>2, <1>5 DEF Checked, HasConsistentAllowedProvenance
<1>6. /\ Checked(ChunkMatches(graph, {d}), {d}) = chunks
      /\ Checked(FactMatches(graph, {d}), {d}) = facts
  <2>1. \A r \in chunks : r.provs = {p}
    BY <1>2, ContributedChunks
  <2>2. \A r \in facts : r.provs = {p}
    BY <1>2, ContributedFacts
  <2> HIDE DEF chunks, facts
  <2> QED
    BY <1>4, <1>5, <2>1, <2>2 DEF chunks, facts
<1>7. {<<r.index, r.text>> : r \in Checked(ChunkMatches(graph, {d}), {d})} =
         {<<i, x.chunks[i]>> : i \in DOMAIN x.chunks}
  <2> DEFINE row(i) == [doc |-> p.doc, id |-> <<p.doc, i>>, index |-> i,
                        text |-> x.chunks[i], provs |-> {p}]
  <2>1. chunks = {row(i) : i \in DOMAIN x.chunks}
    BY <1>2, ContributedChunks
  <2>2. \A i \in DOMAIN x.chunks : row(i).index = i /\ row(i).text = x.chunks[i]
    OBVIOUS
  <2> HIDE DEF chunks, row
  <2>3. {<<r.index, r.text>> : r \in chunks} = {<<i, x.chunks[i]>> : i \in DOMAIN x.chunks}
    BY <2>1, <2>2
  <2> QED
    BY <1>6, <2>3
<1> HIDE DEF chunks
<1>8. ASSUME NEW rel \in rels, Resolved(d, x, rel), anchored(rel)
      PROVE  \E f \in Checked(FactMatches(graph, {d}), {d}) : same(rel, f)
  <2>1. PICK y \in rels :
          /\ Resolved(p.doc, x, y) /\ FactOf(p, x, y) \in NewFacts(p, x)
          /\ Edge(FactOf(p, x, y)) = Edge(FactOf(p, x, rel))
    BY <1>1, <1>2, <1>8, StatedIsWritten
  <2> DEFINE f == FactOf(p, x, y)
  <2>2. /\ f.from[3] = Normal[y.source] /\ f.to[3] = Normal[y.target]
        /\ f.type = y.type /\ f.index = y.index /\ f.prov = p
    BY <1>2, <2>1, EndsOfFacts
  <2>3. /\ f.from[3] = Normal[rel.source] /\ f.to[3] = Normal[rel.target]
        /\ f.type = rel.type
    BY <1>1, <1>2, <1>8, <2>1, EndsOfFacts DEF Edge
  <2>4. f \in NewFacts(p, x)
    BY <2>1
  <2> HIDE DEF f
  <2>5. f.index \in DOMAIN x.chunks
    BY <1>8, <2>2, <2>3
  <2>6. {f.from, f.to} \subseteq {n.id : n \in NewEntities(p, x)}
    BY <1>2, <2>4, FactsAreNamed
  <2>7. PICK a \in NewEntities(p, x), b \in NewEntities(p, x) : a.id = f.from /\ b.id = f.to
    BY <2>6
  <2>8. a.id[3] = Normal[a.name] /\ b.id[3] = Normal[b.name]
    BY EntityNames
  <2>9. PICK r \in facts : Shows(r, f, a, b)
    BY <1>2, <2>4, <2>5, <2>7, ContributedFacts
  <2>10. same(rel, r)
    BY <2>3, <2>7, <2>8, <2>9 DEF Shows
  <2> HIDE DEF same
  <2> HIDE DEF facts
  <2> QED
    BY <1>6, <2>9, <2>10
<1>9. ASSUME NEW r \in Checked(FactMatches(graph, {d}), {d})
      PROVE  \E rel \in rels : same(rel, r) /\ r.index = rel.index
  <2>0. r \in facts
    BY <1>6, <1>9
  <2>1. PICK f \in NewFacts(p, x), a \in NewEntities(p, x), b \in NewEntities(p, x) :
           Shows(r, f, a, b)
    BY <1>2, <2>0, ContributedFacts
  <2>2. PICK rel \in rels : Resolved(p.doc, x, rel) /\ f = FactOf(p, x, rel)
    BY DEF NewFacts, Winners, ToSet
  <2>3. /\ f.from[3] = Normal[rel.source] /\ f.to[3] = Normal[rel.target]
        /\ f.type = rel.type /\ f.index = rel.index
    BY <1>2, <2>2, EndsOfFacts
  <2>4. a.id[3] = Normal[a.name] /\ b.id[3] = Normal[b.name]
    BY EntityNames
  <2>5. same(rel, r)
    BY <2>1, <2>3, <2>4 DEF Shows
  <2> HIDE DEF same
  <2> QED
    BY <2>1, <2>3, <2>5 DEF Shows
<1> QED
  BY <1>7, <1>8, <1>9, Zenon

\* Whatever was written before and is written for other documents: what the
\* last extraction of a document gave is found, and nothing older.
THEOREM WhatWasWrittenIsFound == Spec => []WrittenIsFound
<1>1. Init => Stored
  BY DEF Init, Stored
<1>2. TypeInvariant /\ Stored /\ [Next]_vars => Stored'
  BY StoredStays DEF TypeInvariant
<1>3. TypeInvariant /\ Stored => WrittenIsFound
  BY WrittenHolds
<1> QED
  BY <1>1, <1>2, <1>3, InitTypes, TypesStay, PTL DEF Spec

=============================================================================
