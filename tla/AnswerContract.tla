--------------------------- MODULE AnswerContract ---------------------------
(***************************************************************************)
(* What a permission-safe query promises, whatever happens to relationships *)
(* and evidence meanwhile: the documents an answer cites were granted to    *)
(* the user at one moment of the query (retrieval/services.py asks SpiceDB  *)
(* first), were backed by evidence at a later one and again at a third, and *)
(* every other query ends in the same refusal, which cites nothing.         *)
(***************************************************************************)
CONSTANTS Users, Documents, Queries

VARIABLES
    grants,      \* <<user, document>> pairs SpiceDB grants
    evidence,    \* <<user, document>> pairs PostgreSQL has evidence for
    stage,       \* how far each query is
    asker,       \* who asks
    may,         \* the documents its answer may cite
    cited        \* the documents its answer cites

vars == <<grants, evidence, stage, asker, may, cited>>
store == <<grants, evidence>>

Init ==
    /\ grants \subseteq Users \X Documents
    /\ evidence \subseteq Users \X Documents
    /\ stage = [q \in Queries |-> "idle"]
    /\ asker \in [Queries -> Users]
    /\ may = [q \in Queries |-> {}]
    /\ cited = [q \in Queries |-> {}]

Grant(q) ==
    /\ stage[q] \in {"idle", "answered"}
    /\ \E u \in Users :
          /\ asker' = [asker EXCEPT ![q] = u]
          /\ may' = [may EXCEPT ![q] = {d \in Documents : <<u, d>> \in grants}]
    /\ stage' = [stage EXCEPT ![q] = "granted"]
    /\ cited' = [cited EXCEPT ![q] = {}]
    /\ UNCHANGED store

\* Some of those there is evidence for at this moment.
Keep(q, from, to) ==
    /\ stage[q] = from
    /\ stage' = [stage EXCEPT ![q] = to]
    /\ \E S \in SUBSET {d \in may[q] : <<asker[q], d>> \in evidence} :
          may' = [may EXCEPT ![q] = S]
    /\ UNCHANGED <<store, asker, cited>>

Allow(q) == Keep(q, "granted", "allowed")
Confirm(q) == Keep(q, "allowed", "confirmed")

Answer(q) ==
    /\ stage[q] = "confirmed"
    /\ stage' = [stage EXCEPT ![q] = "answered"]
    /\ \E S \in SUBSET may[q] : cited' = [cited EXCEPT ![q] = S]
    /\ may' = [may EXCEPT ![q] = {}]
    /\ UNCHANGED <<store, asker>>

Refuse(q) ==
    /\ stage[q] \in {"granted", "allowed", "confirmed"}
    /\ stage' = [stage EXCEPT ![q] = "answered"]
    /\ may' = [may EXCEPT ![q] = {}]
    /\ UNCHANGED <<store, asker, cited>>

\* Permissions and evidence come and go at any time.
AccessChanges ==
    /\ grants' \subseteq Users \X Documents
    /\ evidence' \subseteq Users \X Documents
    /\ UNCHANGED <<stage, asker, may, cited>>

Next ==
    \/ AccessChanges
    \/ \E q \in Queries : Grant(q) \/ Allow(q) \/ Confirm(q) \/ Answer(q) \/ Refuse(q)

Spec == Init /\ [][Next]_vars

=============================================================================
