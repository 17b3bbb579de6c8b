\* Uploads: API uploads of two cases race into one file, with OCR, torn files and DELETEs.
SPECIFICATION Spec
CONSTANTS
    h1 = h1  h2 = h2  d1 = d1  d2 = d2  d3 = d3
    Handlers = {h1, h2}
    DocIds = {d1, d2}
    Patchers = {}
    Nil = Nil
    Gone = Gone
    Tenants = {"t1"}
    References = {"324.991", "324."}
    Names = {"Topp"}
    PortalTypes = {}
    ApiTypes = {"../324__Topp/id", "../.."}
    DocTypes = {"../324__Topp/id", "../.."}
    FileNames = {"p.pdf"}
    Contents = {"pdf10"}
    MetaKeys = {}
    Batches = {}
    Ttl = 1
    MaxTime = 0
    MimeTypes = {"pdf", "png", "exe"}
    UploadMimeAllowlist = {"pdf", "png"}
    UploadMaxBytes = 20
    Letters = {"324", "Topp"}
    MaxLength = 0
    Characters <- MCCharacters
    Spelled <- MCSpelled
    Slugs <- MCSlugs
    StoredNames <- MCStored
    Slugify <- MCSlugify
    SanitizeFilename <- MCSanitize
    SidecarName <- MCSidecar
    Dirs <- MCDirs
    DirOf <- MCDirOf
    MimeOf <- MCMimeOf
    SizeOf <- MCSizeOf
CHECK_DEADLOCK FALSE
SYMMETRY SymmetricIds
INVARIANTS
    TypeOK
    RowLocatesFile
