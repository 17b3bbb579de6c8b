\* Links: two clients race on links, across expiry and deletion.
SPECIFICATION ReadSpec
CONSTANTS
    h1 = h1  h2 = h2  d1 = d1  d2 = d2  d3 = d3
    Handlers = {h1, h2}
    DocIds = {d1, d2}
    Patchers = {}
    Readers = {"r1"}
    PublicFiles = TRUE
    Nil = Nil
    Gone = Gone
    Tenants = {"t1"}
    References = {"324.991", "324-991"}
    Names = {"Topp"}
    PortalTypes = {"id"}
    ApiTypes = {}
    DocTypes = {"id"}
    FileNames = {"p.pdf"}
    Contents = {"pdf10", "exe"}
    MetaKeys = {}
    Batches = {1, 2}
    Ttl = 1
    MaxTime = 2
    MimeTypes = {"pdf", "png", "exe"}
    UploadMimeAllowlist = {"pdf", "png"}
    UploadMaxBytes = 20
    Letters = {"324", "Topp"}
    MaxLength = 0
    Characters <- MCCharacters
    Spelled <- MCSpelled
    Slugs <- MCSlugs
    StoredNames <- MCStored
    Slugify <- MCSlugify
    SanitizeFilename <- MCSanitize
    SidecarName <- MCSidecar
    Dirs <- MCDirs
    DirOf <- MCDirOf
    Followed <- MCFollowed
    MimeOf <- MCMimeOf
    SizeOf <- MCSizeOf
CHECK_DEADLOCK FALSE
SYMMETRY Symmetric
INVARIANTS
    LinkRefersToCase
    SpendsBounded
    ShownInCase
    ToldClosed
    PromisedFilesStay
PROPERTIES
    LapsedForever
    KeepsPromise
