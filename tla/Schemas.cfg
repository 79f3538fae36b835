SPECIFICATION Spec
CONSTANTS
    f1 = f1
    f2 = f2
    Field = {f1, f2}
    NoField = NoField
    None = None
    Drafts <- MCDrafts
    Record = {i1}
    NoRecord = NoRecord
    Request = {r1, r2}
    MaxVersion = 3
    MaxWrites = 2
    MaxDesigns = 1
INVARIANTS RecordsFit SumsExplained
PROPERTIES NoBlindOverwrite SubmissionsExplained
SYMMETRY Symmetry
CHECK_DEADLOCK FALSE
