\* Two of everything; the bounds are on what nature does not bound: reloads, requests
\* at a time, edits, changes made elsewhere.  A page may come to rest.
SPECIFICATION FrontendSpec
CHECK_DEADLOCK FALSE
CONSTANTS
    Tabs = {t1}
    Slots = {s1, s2}
    Boot = s1
    Tokens = {k1, k2}
    None = None
    MaxPosts = 2
    MaxReloads = 1
    Queries = {"mine", "detail"}
    WriteKinds = {"sold", "upload", "create"}
    MaxWrites = 2
    Copies = {"war", "ink"}
    Texts = {"", "w"}
    Facets = {"", "fiction"}
    MaxEdits = 2
    Found <- InkIsFiction
    Shelf = {"a", "b"}
    PhotosOf <- TwoAndOne
    MaxMoves = 2
    MaxRequests = 1
    Files = {"f", "g"}
    MaxImages = 3
    MaxDrafts = 2
    MaxListings = 2
    Fields = {"title", "price"}
    MaxVersions = 3
    Members = {"ana", "ben"}
    Moderated = {"x", "y"}
    StatusFilters = {"all", "sold"}
    MaxChanges = 1
    Controls = 4
INVARIANTS
    FrontendTypeOK
    SpentTokenOnlyAfterMishap
    SignedOutForgets
    ForcedChangeEnds
    OwnWritesShow
    ResultsAreForTheFilters
    NoResultsIsTrue
    PhotoInRange
    OneListingPerForm
    SavedAsTyped
    EditsSurvive
    AnswersMeetTheirDialog
    EmptyPageOnlyAfterShrinking
    ReasonWasTypedForIt
    FocusTrapped
    FocusReturns
PROPERTIES
    PageLoadsEnd
    FetchesSettle
    RedirectsEnd
    SearchCatchesUp
