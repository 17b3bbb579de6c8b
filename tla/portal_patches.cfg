\* PATCHes: portal uploads of two types, two PATCHes and DELETEs race on one case.
SPECIFICATION Spec
CONSTANTS
    h1 = h1  h2 = h2  d1 = d1  d2 = d2  d3 = d3
    Handlers = {h1}
    DocIds = {d1, d2}
    Patchers = {"p1", "p2"}
    Nil = Nil
    Gone = Gone
    Tenants = {"t1"}
    References = {"324."}
    Names = {"Topp"}
    PortalTypes = {"id", "bank"}
    ApiTypes = {}
    DocTypes = {"id", "bank"}
    FileNames = {"./p.pdf"}
    Contents = {"pdf10", "png20"}
    MetaKeys = {"k"}
    Batches = {1}
    Ttl = 1
    MaxTime = 1
    MimeTypes = {"pdf", "png", "exe"}
    UploadMimeAllowlist = {"pdf", "png"}
    UploadMaxBytes = 20
    Letters = {"324", "Topp"}
    MaxLength = 3
    Characters <- MCCharacters
    Spelled <- MCSpelled
    Slugs <- MCSlugs
    StoredNames <- MCStored
    Slugify <- MCSlugify
    SanitizeFilename <- MCSanitize
    SidecarName <- MCSidecar
    Dirs <- MCDirs
    DirOf <- MCDirOf
    MimeOf <- MCMimeOf
    SizeOf <- MCSizeOf
CHECK_DEADLOCK FALSE
SYMMETRY SymmetricIds
INVARIANTS
    FolderIsItsOwn
    ShownNameFindsRow
PROPERTIES
    IdentityFrozen
    WritersKeepApart
