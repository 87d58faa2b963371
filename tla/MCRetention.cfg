SPECIFICATION Spec
CONSTANTS
    m1 = m1
    e1 = e1
    r1 = r1
    r2 = r2
    d1 = d1
    NoFile = NoFile
    Files <- AllFiles
    Exports <- ExportFiles
    Categories <- OnlyPdf
    Kind <- KindOf
    Reqs <- TwoReqs
    Dels <- OneDel
    MaxAge = 1
SYMMETRY Symmetry
INVARIANTS
    TypeOK
    NoOrphans
PROPERTIES
    RetentionRespectsPolicy
    ShorteningPreviewed
