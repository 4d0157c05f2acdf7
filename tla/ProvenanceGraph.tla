--------------------------- MODULE ProvenanceGraph ---------------------------
(***************************************************************************)
(* The Neo4j graph as data: the transaction that replaces what one document *)
(* contributed (graph/writer.py), and the queries that search it for the    *)
(* documents a user is allowed (retrieval/neo4j.py), bounded and ranked.    *)
(*                                                                         *)
(* Every element carries provenance: the document, and the version of its   *)
(* ACL at the time of writing (connection and file id follow from the       *)
(* document).  A text is what searching it tells apart; a name is compared  *)
(* through Normal, its lower-case form without extra blanks.  Chunk-to-     *)
(* entity edges are left out: no query reads them.                          *)
(***************************************************************************)
EXTENDS Naturals, FiniteSets, SequencesExt

CONSTANTS
    Documents,     \* primary keys of SourceDocument
    AclVersions, Texts, Names, Types,
    Untyped,       \* in place of an endpoint type the extractor left blank
    Normal,        \* [Names -> Names]
    Extractions,   \* what extractors return: chunks, entities, relationships
    Terms,         \* terms of the question
    TermsIn,       \* [Texts \cup Names -> SUBSET Terms]
    Similarity,    \* [Texts -> Nat], to the embedded question
    MinScore,      \* QUERY_VECTOR_MIN_SCORE
    Limit          \* QUERY_RETRIEVAL_LIMIT

ASSUME GraphAssumption ==
    /\ Documents \subseteq Nat
    /\ Untyped \notin Types
    /\ Limit \in Nat \ {0} /\ MinScore \in Nat
    /\ \A x \in Extractions :
          /\ \A c \in DOMAIN x.chunks : c \in Nat /\ x.chunks[c] \in Texts
          /\ \A s \in {x.entities, x.relationships} :
                Len(s) \in Nat /\ DOMAIN s = 1..Len(s)
          /\ \A e \in ToSet(x.entities) : e.type \in Types /\ e.name \in Names

Provenance == [doc : Documents, acl : AclVersions]

EmptyGraph == [documents |-> {}, chunks |-> {}, entities |-> {}, facts |-> {}]

-----------------------------------------------------------------------------
(* Writing a document: the statements of one transaction.                  *)

\* The last position with each key wins.
Winners(positions, Key(_)) ==
    {k \in positions : \A j \in positions : j > k => Key(j) # Key(k)}

\* Mutant: entities of the same name are one node, whatever the document.
EntityIdAcrossDocuments(d, e) == <<0, e.type, Normal[e.name]>>

EntityId(d, e) == <<d, e.type, Normal[e.name]>>

UpsertDocument(g, p) ==
    [g EXCEPT !.documents = {x \in @ : x.doc # p.doc} \cup {p}]

\* Mutant: chunks are merged by their id, the old ones stay.
ReplaceDocumentChunksMerging(g, p, x) ==
    [g EXCEPT !.chunks =
        {c \in @ : c.prov.doc # p.doc \/ c.index \notin DOMAIN x.chunks} \cup
        {[id |-> <<p.doc, i>>, index |-> i, text |-> x.chunks[i],
          prov |-> p, of |-> p.doc, belongs |-> p] : i \in DOMAIN x.chunks}]

\* `of` and `belongs`: the node a belongs_to edge leads to, its provenance.
ReplaceDocumentChunks(g, p, x) ==
    [g EXCEPT !.chunks =
        {c \in @ : c.prov.doc # p.doc} \cup
        {[id |-> <<p.doc, i>>, index |-> i, text |-> x.chunks[i],
          prov |-> p, of |-> p.doc, belongs |-> p] : i \in DOMAIN x.chunks}]

\* The document's own entities an endpoint may mean; one is required.
EndpointIds(d, x, name, type) ==
    {EntityId(d, e) : e \in {y \in ToSet(x.entities) :
                                y.name = name /\ type \in {Untyped, y.type}}}

Resolved(d, x, rel) ==
    /\ Cardinality(EndpointIds(d, x, rel.source, rel.sourceType)) = 1
    /\ Cardinality(EndpointIds(d, x, rel.target, rel.targetType)) = 1

FactOf(p, x, rel) ==
    [from |-> CHOOSE i \in EndpointIds(p.doc, x, rel.source, rel.sourceType) : TRUE,
     to |-> CHOOSE i \in EndpointIds(p.doc, x, rel.target, rel.targetType) : TRUE,
     type |-> rel.type, index |-> rel.index, prov |-> p]

Edge(f) == <<f.from, f.to, f.type>>

\* Deleting an entity detaches its edges; nodes and edges are merged by id.
ReplaceDocumentEntities(g, p, x) ==
    LET es == x.entities
        rels == x.relationships
        resolved == {k \in DOMAIN rels : Resolved(p.doc, x, rels[k])}
        kept == {e \in g.entities : e.prov.doc # p.doc}
        entities == {[id |-> EntityId(p.doc, es[k]), name |-> es[k].name, prov |-> p] :
                        k \in Winners(DOMAIN es, LAMBDA k : EntityId(p.doc, es[k]))}
        facts == {FactOf(p, x, rels[k]) :
                     k \in Winners(resolved, LAMBDA k : Edge(FactOf(p, x, rels[k])))}
        ids == {e.id : e \in kept}
    IN  [g EXCEPT
            !.entities = {e \in kept : e.id \notin {n.id : n \in entities}} \cup entities,
            !.facts = {f \in @ : /\ {f.from, f.to} \subseteq ids
                                 /\ Edge(f) \notin {Edge(n) : n \in facts}} \cup facts]

\* Otherwise ChunkNodeMissingError: the transaction is rolled back.
Anchored(x) == \A e \in ToSet(x.entities) : e.index \in DOMAIN x.chunks

WriteDocument(g, p, x) ==
    ReplaceDocumentEntities(ReplaceDocumentChunks(UpsertDocument(g, p), p, x), p, x)

-----------------------------------------------------------------------------
(* Searching.                                                              *)

\* Mutant: the queries leave the allowlist to the check of their results.
ProvenanceComplete(p, allowed) == p.doc \in Documents

\* The clause every node and edge of every query has to meet.
ProvenanceWhere(p, allowed) == p.doc \in allowed

\* The pattern (chunk)-[belongs]->(document).
ChunkMatches(g, allowed) ==
    {[doc |-> m[1].prov.doc, id |-> m[1].id, index |-> m[1].index, text |-> m[1].text,
      provs |-> {m[1].prov, m[1].belongs, m[2]}] :
        m \in {x \in g.chunks \X g.documents :
                  /\ x[1].of = x[2].doc
                  /\ \A p \in {x[1].prov, x[1].belongs, x[2]} :
                        ProvenanceWhere(p, allowed) /\ p.doc = x[1].prov.doc}}

\* The pattern (source)-[fact]->(target) with the chunk that states it.
FactMatches(g, allowed) ==
    LET stated(a, f, b) ==
            {c \in ChunkMatches(g, allowed) : c.doc = f.prov.doc /\ c.index = f.index}
        triples == {t \in g.entities \X g.facts \X g.entities :
                       /\ t[1].id = t[2].from /\ t[3].id = t[2].to
                       /\ \A p \in {t[1].prov, t[2].prov, t[3].prov} :
                             ProvenanceWhere(p, allowed) /\ p.doc = t[1].prov.doc}
    IN  UNION {{[doc |-> c.doc, id |-> c.id, index |-> c.index, text |-> c.text,
                 source |-> t[1].name, type |-> t[2].type, target |-> t[3].name,
                 provs |-> c.provs \cup {t[1].prov, t[2].prov, t[3].prov}] :
                    c \in stated(t[1], t[2], t[3])} : t \in triples}

\* ORDER BY relevance DESC, source_document_id, chunk_index.
Before(Score(_), r, s) ==
    \/ Score(r) > Score(s)
    \/ /\ Score(r) = Score(s)
       /\ r.doc < s.doc \/ (r.doc = s.doc /\ r.index < s.index)

\* LIMIT; rows that tie are cut off in any way.
Tops(rows, Score(_)) ==
    {T \in SUBSET rows :
        /\ Cardinality(T) = IF Cardinality(rows) < Limit THEN Cardinality(rows) ELSE Limit
        /\ \A t \in T, r \in rows \ T : ~Before(Score, r, t)}

\* Checked once more on the result: one provenance, of an allowed document.
HasConsistentAllowedProvenance(r, allowed) ==
    \E p \in Provenance : r.provs = {p} /\ p.doc \in allowed

Checked(rows, allowed) == {r \in rows : HasConsistentAllowedProvenance(r, allowed)}

\* minimum_should_match; a question without terms is not searched for.
Matches(score) == score # 0 /\ (score >= 2 \/ score = Cardinality(Terms))

KeywordScore(r) == Cardinality(TermsIn[r.text] \cap Terms)
FactScore(r) ==
    Cardinality((TermsIn[r.text] \cup TermsIn[r.source] \cup TermsIn[r.target]) \cap Terms)
VectorScore(r) == Similarity[r.text]

\* The possible results of the three searches.
VectorSearch(g, allowed) ==
    LET rows == {r \in ChunkMatches(g, allowed) : VectorScore(r) >= MinScore}
    IN  {Checked(T, allowed) : T \in Tops(rows, VectorScore)}

KeywordSearch(g, allowed) ==
    LET rows == {r \in ChunkMatches(g, allowed) : Matches(KeywordScore(r))}
    IN  {Checked(T, allowed) : T \in Tops(rows, KeywordScore)}

FactSearch(g, allowed) ==
    LET rows == {r \in FactMatches(g, allowed) : Matches(FactScore(r))}
    IN  {Checked(T, allowed) : T \in Tops(rows, FactScore)}

\* Fusing two rankings, and the possible results: each adds 1 / (60 + rank), in units that divide
\* evenly; a chunk both found is taken as the vector search saw it.  Equal
\* scores are ordered by chunk index (the code compares the ids as text, which
\* is the same order for the first ten chunks of a document).
Unit == LET u[n \in 0..Limit] == IF n = 0 THEN 1 ELSE (60 + n) * u[n - 1] IN u[Limit]

Share(ranking, Score(_), id) ==
    LET here == {r \in ranking : r.id = id}
        rank(r) == 1 + Cardinality({s \in ranking : Before(Score, s, r)})
    IN  IF here = {} THEN 0 ELSE Unit \div (60 + rank(CHOOSE r \in here : TRUE))

FuseChunkRankings(vector, keyword) ==
    LET rows == vector \cup {r \in keyword : r.id \notin {s.id : s \in vector}}
        score(r) == Share(vector, VectorScore, r.id) + Share(keyword, KeywordScore, r.id)
    IN  Tops(rows, score)

=============================================================================
