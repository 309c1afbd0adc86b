SPECIFICATION Spec
CONSTANT
    Id = {i1, i2}
INVARIANTS
    TypeOK
    OldRowsStayValid
    PrintedTokenWorks
    MigrationIndexes
PROPERTY
    ComesUp
