\* Two uploads of one row write only the columns each changed.
SPECIFICATION Spec
CONSTANTS
    h1 = h1  h2 = h2  d1 = d1  d2 = d2  d3 = d3
    Handlers = {h1, h2}
    DocIds = {d1}
    Patchers = {}
    Nil = Nil
    Gone = Gone
    Tenants = {"t1"}
    References = {"324.991"}
    Names = {"Topp"}
    PortalTypes = {}
    ApiTypes = {"id"}
    DocTypes = {"id", "bank"}
    FileNames = {"p.pdf"}
    Contents = {"pdf10", "png20"}
    MetaKeys = {}
    Batches = {}
    Ttl = 1
    MaxTime = 0
    MimeTypes = {"pdf", "png", "exe"}
    UploadMimeAllowlist = {"pdf", "png"}
    UploadMaxBytes = 20
    Letters = {"324", "Topp"}
    MaxLength = 0
    Characters <- MCCharacters
    Spelled <- MCSpelled
    Slugs <- MCSlugs
    StoredNames <- MCStored
    Slugify <- MCSlugify
    SanitizeFilename <- MCSanitize
    SidecarName <- MCSidecar
    Dirs <- MCDirs
    DirOf <- MCDirOf
    MimeOf <- MCMimeOf
    SizeOf <- MCSizeOf
CHECK_DEADLOCK FALSE
SYMMETRY SymmetricIds
INVARIANT DoneHasText
