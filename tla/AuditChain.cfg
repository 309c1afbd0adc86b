SPECIFICATION Spec
CONSTANTS
    e1 = e1
    e2 = e2
    Entry <- Entries2
    Short = Short
    PageSize = 2
    MaxRows = 4
    MaxEdits = 2
SYMMETRY EntrySymmetry
INVARIANTS
    TypeOK
    HonestChain
    VerifiedIsSigned
    TamperingShowsThere
    PagesComplete
