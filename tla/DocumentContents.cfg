SPECIFICATION Spec
CONSTANTS
    Packages <- SamplePackages
    MaxCompressed = 6
    MaxEntries = 5
    MaxTotal = 7
    MaxEntrySize = 4
    MaxRatio = 3
    MaxXmlSize = 3
    MaxXmlDepth = 2
    Templates <- SampleTemplates
    Kinds <- SampleKinds
    Required <- SampleRequired
    AllowedFilters = {"default", "upper", "length", "shout"}
    AllowedGlobals = {"platform_flag", "cycler"}
    MaxAstNodes = 7
    MaxAstDepth = 4
    Amounts <- SampleAmounts
    Passages <- SamplePassages
    Entities = {"e1", "e2"}
    Officials = {"o1"}
    ParticipantRoles = {"requester", "witness"}
    MaxRows = 3
    MaxEdits = 2
INVARIANTS
    
    UnpackingIsBounded
    
    AmountsReadBack
    SegmentsKeepThePassage
    PagesCanBeSaved
PROPERTIES
    SavedRowsAreSelectable
CHECK_DEADLOCK FALSE
