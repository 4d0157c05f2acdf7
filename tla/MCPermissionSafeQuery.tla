------------------------ MODULE MCPermissionSafeQuery ------------------------
(* Small instances of PermissionSafeQuery for TLC.                           *)
EXTENDS PermissionSafeQuery

Person(name, index) == [type |-> "Person", name |-> name, index |-> index]
Project(name, index) == [type |-> "Project", name |-> name, index |-> index]
WorksOn(source, target, targetType, index) ==
    [type |-> "works_on", source |-> source, sourceType |-> Untyped,
     target |-> target, targetType |-> targetType, index |-> index]

MCNormal == [n \in Names |-> IF n = "Ann" THEN "ann" ELSE n]

\* A plain document; one with two spellings of a name, a name of two types
\* and a relationship stated twice; one without entities.
MCExtractions ==
    {[chunks |-> [i \in {0} |-> "close"],
      entities |-> <<Person("ann", 0), Project("kit", 0)>>,
      relationships |-> <<WorksOn("ann", "kit", Untyped, 0)>>],
     [chunks |-> [i \in {0, 1} |-> IF i = 0 THEN "far" ELSE "close"],
      entities |-> <<Person("Ann", 0), Person("ann", 1), Project("kit", 1), Person("kit", 0)>>,
      relationships |-> <<WorksOn("Ann", "kit", "Project", 0), WorksOn("ann", "kit", "Project", 1),
                          WorksOn("ann", "kit", Untyped, 0)>>],
     [chunks |-> [i \in {0} |-> "far"], entities |-> <<>>, relationships |-> <<>>]}

MCTermsIn ==
    [s \in Texts \cup Names |-> CASE s = "close" -> {"project", "owner"}
                                  [] s = "far" -> {"project"}
                                  [] s = "kit" -> {"owner"}
                                  [] OTHER -> {}]
MCSimilarity == [s \in Texts |-> IF s = "close" THEN 2 ELSE 1]

=============================================================================
