SPECIFICATION Spec
CONSTANTS
    x = x  y = y  z = z  long = long
    k1 = k1  k2 = k2  v1 = v1  big = big
    a = a  b = b  sb = sb  bs = bs  sp = sp
    Empty = Empty
    Blank = Blank
    Rejected = Rejected
    Nil = Nil
    Text <- Texts3
    TooLong <- LongTexts
    MaxTags = 2
    MetaKey <- MetaKeys
    MetaValue <- MetaValues
    LongMeta <- BigValues
    MaxMetadataPairs = 1
    Segment <- Segments
    AfterSpace <- AfterIts
    BeforeSpace <- BeforeIts
    Strings <- SomeStrings
    Arrays <- SomeArrays
    Csvs <- SomeCsvs
    Paths <- SomePaths
    Durations <- SomeDurations
    Days = {1, 2, 4, 7}
    DayTicks = 5
    Half = 16
    Epoch = 4
    LastTick = 8
INVARIANTS
    TagsStayNormal
    ExpiresWhenAsked
    ScopeMeansItsPatterns
