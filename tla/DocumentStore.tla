---------------------------- MODULE DocumentStore ----------------------------
(***************************************************************************)
(* The data both services of the repository work on: a row of the table    *)
(* `document` (app/models/document.py), the key layout of the local disk   *)
(* (app/services/storage/keys.py), the paths keys lead to and the body of  *)
(* a file there.                                                           *)
(*                                                                         *)
(* A content stands for the bytes of one request together with the type    *)
(* the client declared for them.  uploaded_by, ocr_error, base64_* and the *)
(* timestamps of a row are left out: no property tells them apart.         *)
(***************************************************************************)
EXTENDS Integers, FiniteSets, OrmSession

CONSTANTS
    Tenants,            \* rows of table tenant
    References,         \* case references (owner_ref / reference)
    Names,              \* client names, and users that name a folder
    DocTypes,           \* document types in use, any string for the API
    FileNames,          \* names clients give their files
    Contents,           \* file bytes with their declared mime type
    MetaKeys,           \* keys of the JSON object `metadata`
    DocIds,             \* uuids a row of `document` may get
    MimeTypes,
    Slugs,              \* results of slugify
    StoredNames,        \* results of sanitize_filename, and sidecar names
    Slugify,            \* slugify as a function
    SanitizeFilename,   \* sanitize_filename as a function
    SidecarName,        \* stored name -> file name part of json_key
    Dirs,               \* directories below settings.local_storage_dir
    DirOf,              \* slug, slug, document type -> where that path leads
    MimeOf, SizeOf,     \* declared type and length of a content
    UploadMaxBytes,     \* settings.upload_max_bytes
    UploadMimeAllowlist,\* settings.upload_mime_allowlist
    Nil,                \* None / NULL / no file
    Gone                \* the row had this id and was deleted

ASSUME KeyFunctions ==
    /\ Slugify \in [References \cup Names -> Slugs]
    /\ SanitizeFilename \in [FileNames -> StoredNames]
    /\ SidecarName \in [StoredNames -> StoredNames]
    /\ DirOf \in [Slugs \X Slugs \X DocTypes -> Dirs \cup {Nil}]

ASSUME ContentFunctions ==
    /\ MimeOf \in [Contents -> MimeTypes]
    /\ SizeOf \in [Contents -> Nat]
    /\ UploadMaxBytes \in Nat
    /\ UploadMimeAllowlist \subseteq MimeTypes

-----------------------------------------------------------------------------
(* Keys of the local storage backend, and the paths they lead to. *)

\* _path_for resolves a key below the root.  A stored name is one component,
\* but the type of an API upload is any text, taken into the key as it is: with
\* a "/" or a ".." in it two keys may lead to one file, of two cases even.
PathFor(key) == <<DirOf[<<key[1], key[2], key[3]>>], key[4]>>

Paths == Dirs \X StoredNames

\* Mutant: a key is taken for a path as it is.
AnyPath(key) == TRUE

\* A key that leads out of the root (DirOf is Nil) raises ValueError.
Confined(key) == PathFor(key) \in Paths

\* <slug of reference>__<slug of name>/<doc type>/<file>, as text.  slugify
\* collapses every run of other characters into one "_" and strips them at the
\* ends, so "__" separates unambiguously; neither a slug nor a file name holds a
\* "/".  As text a key is the tuple of its parts.
Keys == {key \in Slugs \X Slugs \X DocTypes \X StoredNames : PathFor(key) \in Paths}

DocKey(reference, name, doctype, file) ==
    <<Slugify[reference], Slugify[name], doctype, SanitizeFilename[file]>>

\* json_key: the same folder, the stored name with its extension replaced.
JsonKey(key) == <<key[1], key[2], key[3], SidecarName[key[4]]>>

\* What lies under a path: an upload, an OCR result of some upload, or the
\* prefix a write that did not finish left behind.
Bodies == [kind : {"file", "ocr", "torn"}, of : Contents]

FileBody(content) == [kind |-> "file", of |-> content]
OcrBody(content)  == [kind |-> "ocr",  of |-> content]
TornBody(content) == [kind |-> "torn", of |-> content]

-----------------------------------------------------------------------------
(* Rows of table document. *)

OcrStatus == {"not_requested", "pending", "done", "failed"}

Rows == [tenant_id              : Tenants,
         owner_ref              : References,
         file_name              : StoredNames,
         document_type          : DocTypes,
         original_document_type : DocTypes,
         mime_type              : MimeTypes,
         file_size              : Nat,
         s3_url                 : Keys,
         s3_url_ocr_json        : Keys \cup {Nil},
         ocr_status             : OcrStatus,
         ocr_text               : Contents \cup {Nil},
         metadata               : SUBSET MetaKeys]

ASSUME Markers ==
    /\ Nil # Gone
    /\ Nil \notin Names /\ Nil \notin DocTypes /\ Nil \notin DocIds
    /\ Nil \notin Contents /\ Nil \notin Bodies /\ Nil \notin Keys
    /\ Nil \notin Dirs
    /\ Nil \notin Rows /\ Gone \notin Rows

\* The unique constraint document_dedup_key.
DedupKey(row) ==
    <<row.tenant_id, row.owner_ref, row.file_name, row.document_type>>

\* _validate_upload: 413 for the size, 415 for the type.
Acceptable(content) ==
    /\ SizeOf[content] <= UploadMaxBytes
    /\ MimeOf[content] \in UploadMimeAllowlist
=============================================================================
