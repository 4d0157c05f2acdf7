------------------------- MODULE PermissionSafeQuery -------------------------
(***************************************************************************)
(* Answering a question (retrieval/services.py): ask SpiceDB what the user  *)
(* may view, keep what PostgreSQL has evidence for, search Neo4j for those  *)
(* documents in three separate queries, check the evidence again, assemble  *)
(* a bounded context, generate and cite.  Between any two of these steps    *)
(* documents are indexed again, relationships are written and evidence is   *)
(* withdrawn or restored.                                                  *)
(*                                                                         *)
(* What grants and evidence are is left to the modules of the two           *)
(* authorities; here they come and go.  The delegated authority has one     *)
(* evidence per document, the per-user one has its own for every user.      *)
(* Anything that raises ends in the refusal.                                *)
(***************************************************************************)
EXTENDS ProvenanceGraph

CONSTANTS
    Users, Queries,
    PerUser        \* whose evidence: the per-user authority's, or delegated

ASSUME QueryAssumption == PerUser \in BOOLEAN

VARIABLES
    graph,         \* Neo4j
    written,       \* ghost: per document, what was extracted last
    grants,        \* <<user, document>> pairs SpiceDB grants
    evidence,      \* <<user, document>> pairs with fresh evidence
    query          \* the queries

vars == <<graph, written, grants, evidence, query>>
access == <<grants, evidence>>
Pairs == Users \X Documents

IdleQuery(u) ==
    [step |-> "idle", user |-> u, allowed |-> {}, vector |-> {}, keyword |-> {},
     chunks |-> {}, facts |-> {}, documents |-> {}, citations |-> {}]

Refusal(q) == [IdleQuery(query[q].user) EXCEPT !.step = "answered"]

Init ==
    /\ graph = EmptyGraph
    /\ written = [d \in Documents |-> {}]
    /\ grants = {} /\ evidence = {}
    /\ query \in [Queries -> {IdleQuery(u) : u \in Users}]

-----------------------------------------------------------------------------
(* The rest of the system.                                                 *)

\* extract_document_to_graph's transaction.
Index(d) ==
    \E acl \in AclVersions, x \in Extractions :
        LET p == [doc |-> d, acl |-> acl]
        IN  /\ Anchored(x)
            /\ graph' = WriteDocument(graph, p, x)
            /\ written' = [written EXCEPT ![d] = {x}]
            /\ UNCHANGED <<access, query>>

Toggled(S, T) == (S \ T) \cup (T \ S)

GrantsChange ==
    /\ \E p \in Pairs : grants' = Toggled(grants, {p})
    /\ UNCHANGED <<graph, written, evidence, query>>

EvidenceChanges ==
    /\ \E u \in Users, d \in Documents :
          evidence' = Toggled(evidence, IF PerUser THEN {<<u, d>>} ELSE Users \X {d})
    /\ UNCHANGED <<graph, written, grants, query>>

-----------------------------------------------------------------------------
(* answer_query.                                                           *)

Step(q, from, next) ==
    /\ query[q].step = from
    /\ query' = [query EXCEPT ![q] = next]
    /\ UNCHANGED <<graph, written, access>>

\* A question arrives; SpiceDB answers fully consistently.
LookUpGrants(q) ==
    /\ query[q].step \in {"idle", "answered"}
    /\ \E u \in Users : query' = [query EXCEPT ![q] =
           [IdleQuery(u) EXCEPT !.step = "granted",
                                !.allowed = {d \in Documents : <<u, d>> \in grants}]]
    /\ UNCHANGED <<graph, written, access>>

WithEvidence(q, S) == {d \in S : <<query[q].user, d>> \in evidence}

\* Mutant: an empty allowlist is searched for.
LookUpEvidenceOnly(q) ==
    Step(q, "granted", [query[q] EXCEPT
        !.step = "allowed", !.allowed = WithEvidence(q, query[q].allowed)])

LookUpEvidence(q) ==
    LET allowed == WithEvidence(q, query[q].allowed)
    IN  Step(q, "granted", IF allowed = {} THEN Refusal(q)
                           ELSE [query[q] EXCEPT !.step = "allowed", !.allowed = allowed])

\* Without an embedding of the question there is no vector search; each of
\* the three queries sees the graph of its own moment.
RetrieveVector(q) ==
    \E rows \in VectorSearch(graph, query[q].allowed) \cup {{}} :
        Step(q, "allowed", [query[q] EXCEPT !.step = "vector", !.vector = rows])

RetrieveKeyword(q) ==
    \E rows \in KeywordSearch(graph, query[q].allowed) :
        Step(q, "vector", [query[q] EXCEPT !.step = "keyword", !.keyword = rows])

Sources(rows) == {<<r.doc, r.id>> : r \in rows}

RetrieveFacts(q) ==
    \E facts \in FactSearch(graph, query[q].allowed),
       chunks \in FuseChunkRankings(query[q].vector, query[q].keyword) :
        Step(q, "keyword", [query[q] EXCEPT
            !.step = "retrieved", !.vector = {}, !.keyword = {},
            !.chunks = Sources(chunks), !.facts = Sources(facts)])

\* Mutant: the evidence is not checked again after the retrieval.
RecheckedOnce(q) ==
    {s[1] : s \in query[q].chunks \cup query[q].facts} \cap query[q].allowed

\* fresh_authorized_documents of the documents found.
Rechecked(q) ==
    WithEvidence(q, {s[1] : s \in query[q].chunks \cup query[q].facts}
                        \cap query[q].allowed)

\* What the context has room for is cited: chunks go first.
Recheck(q) ==
    LET documents == Rechecked(q)
        chunks == {s \in query[q].chunks : s[1] \in documents}
        facts == {s \in query[q].facts : s[1] \in documents}
    IN  \/ /\ documents = {}
           /\ Step(q, "retrieved", Refusal(q))
        \/ \E some \in ((SUBSET chunks) \cup {chunks \cup more : more \in SUBSET facts}) \ {{}} :
              Step(q, "retrieved", [query[q] EXCEPT
                  !.step = "confirmed", !.allowed = {}, !.chunks = {}, !.facts = {},
                  !.documents = documents, !.citations = some])

\* The generator finds the answer supported, or not.
Generate(q) ==
    \/ Step(q, "confirmed", [query[q] EXCEPT !.step = "answered", !.documents = {}])
    \/ Step(q, "confirmed", Refusal(q))

Fail(q) ==
    /\ query[q].step \notin {"idle", "answered"}
    /\ Step(q, query[q].step, Refusal(q))

Next ==
    \/ \E d \in Documents : Index(d)
    \/ GrantsChange \/ EvidenceChanges
    \/ \E q \in Queries :
          \/ LookUpGrants(q) \/ LookUpEvidence(q) \/ RetrieveVector(q)
          \/ RetrieveKeyword(q) \/ RetrieveFacts(q) \/ Recheck(q)
          \/ Generate(q) \/ Fail(q)

Spec == Init /\ [][Next]_vars

-----------------------------------------------------------------------------
(* Properties.                                                             *)

TypeOK ==
    /\ \A p \in graph.documents : p \in Provenance
    /\ \A c \in graph.chunks : c.prov \in Provenance /\ c.text \in Texts
    /\ \A e \in graph.entities : e.prov \in Provenance /\ e.name \in Names
    /\ \A f \in graph.facts : f.prov \in Provenance
    /\ \A d \in Documents : written[d] \subseteq Extractions
    /\ grants \subseteq Pairs /\ evidence \subseteq Pairs
    /\ \A q \in Queries :
          /\ query[q].step \in {"idle", "granted", "allowed", "vector", "keyword",
                                "retrieved", "confirmed", "answered"}
          /\ query[q].user \in Users
          /\ query[q].allowed \cup query[q].documents \subseteq Documents
          /\ query[q].step \in {"allowed", "vector", "keyword", "retrieved"}
                => query[q].allowed # {}
          /\ \A s \in query[q].chunks \cup query[q].facts \cup query[q].citations :
                s[1] \in Documents

\* What a query does to the documents it may cite, step by step.
Contract == INSTANCE AnswerContract WITH
    stage <- [q \in Queries |->
                 IF query[q].step \in {"vector", "keyword", "retrieved"}
                 THEN "allowed" ELSE query[q].step],
    asker <- [q \in Queries |-> query[q].user],
    may <- [q \in Queries |-> query[q].allowed \cup query[q].documents],
    cited <- [q \in Queries |-> IF query[q].step = "answered"
                                THEN {s[1] : s \in query[q].citations} ELSE {}]

\* Every query keeps the promise of AnswerContract.
KeepsContract == Contract!Spec

\* The part of the graph that some documents contributed.
Of(g, S) ==
    [documents |-> {p \in g.documents : p.doc \in S},
     chunks |-> {c \in g.chunks : c.prov.doc \in S},
     entities |-> {e \in g.entities : e.prov.doc \in S},
     facts |-> {f \in g.facts : f.prov.doc \in S}]

\* A search finds what it would find if the documents that are not allowed
\* did not exist: they neither appear nor take the place of a result.
OnlyAllowedDocumentsMatter ==
    \A S \in SUBSET Documents :
        /\ VectorSearch(graph, S) = VectorSearch(Of(graph, S), S)
        /\ KeywordSearch(graph, S) = KeywordSearch(Of(graph, S), S)
        /\ FactSearch(graph, S) = FactSearch(Of(graph, S), S)

\* Indexing a document changes nothing that is found for the others.
OthersAreUntouched ==
    [][\A d \in Documents :
          \/ /\ ChunkMatches(graph', {d}) = ChunkMatches(graph, {d})
             /\ FactMatches(graph', {d}) = FactMatches(graph, {d})
          \/ written'[d] # written[d]
          \/ Of(graph', {d}).documents # Of(graph, {d}).documents]_vars

\* What was extracted last, and nothing older, is found for whoever is allowed
\* the document: its chunks, and each relationship between entities that its
\* endpoints name unambiguously, with the chunk that states it.  The writer
\* keeps one statement of several and does not look whether its chunk exists:
\* the extractor gives each the index of the chunk it was read from.
WrittenIsFound ==
    \A d \in Documents : \A x \in written[d] :
        LET found == Checked(ChunkMatches(graph, {d}), {d})
            facts == Checked(FactMatches(graph, {d}), {d})
            rels == ToSet(x.relationships)
            same(a, b) == /\ a.type = b.type
                          /\ Normal[a.source] = Normal[b.source]
                          /\ Normal[a.target] = Normal[b.target]
            anchored(rel) == \A y \in rels : same(y, rel) => y.index \in DOMAIN x.chunks
        IN  /\ {<<r.index, r.text>> : r \in found} =
                  {<<i, x.chunks[i]>> : i \in DOMAIN x.chunks}
            /\ \A rel \in rels :
                  Resolved(d, x, rel) /\ anchored(rel) => \E f \in facts : same(rel, f)
            /\ \A f \in facts : \E rel \in rels : same(rel, f) /\ f.index = rel.index

=============================================================================
