INIT LibraryInit
NEXT LibraryNext
CONSTANTS
    Module = {a, b, c}
    MaxRank = 2
INVARIANTS
    TypeOK
    EvaluatedOnce
    AcyclicGetsOwn
    ComponentTypes
    FilesKept
    TreeKept
    FileStreamsKept
    EmitterKept
    TextsKept
    UrlsKept
    BuffersKept
    ComparisonsKept
    TransformKept
    PackageKept
CHECK_DEADLOCK FALSE
