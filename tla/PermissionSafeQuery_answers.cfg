SPECIFICATION Spec
CONSTANTS
    Documents = {1, 2}
    AclVersions = {v1}
    Texts = {"close", "far"}
    Names = {"Ann", "ann", "kit"}
    Types = {"Person", "Project"}
    Untyped = Untyped
    Normal <- MCNormal
    Extractions <- MCExtractions
    Terms = {"project", "owner"}
    TermsIn <- MCTermsIn
    Similarity <- MCSimilarity
    MinScore = 1
    Limit = 2
    Users = {u}
    Queries = {q1}
    PerUser = TRUE
INVARIANTS
    TypeOK
    OnlyAllowedDocumentsMatter
    WrittenIsFound
PROPERTIES
    KeepsContract
    OthersAreUntouched
