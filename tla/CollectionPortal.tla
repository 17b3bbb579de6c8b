--------------------------- MODULE CollectionPortal ---------------------------
(***************************************************************************)
(* The deployed service: staff mint upload links, clients spend them, API  *)
(* callers upload, re-classify and delete, all on one database and one     *)
(* local disk.  A request handler is a coroutine; it is split into one     *)
(* action per stretch of code between two awaits, so handlers interleave   *)
(* exactly where the event loop (or another process) can run another one.  *)
(*                                                                         *)
(* Every database transaction here ends in a single flush and commit, so   *)
(* its effect is one step (READ COMMITTED: row locks order two writers).   *)
(***************************************************************************)
EXTENDS DocumentStore

CONSTANTS
    PortalTypes,    \* doc_types.all_slugs()
    ApiTypes,       \* document types API callers send
    Batches,        \* batch ids create_request_batch may draw
    Handlers,       \* upload requests in flight at most
    Patchers,       \* PATCH requests in flight at most
    Ttl,            \* document_request_ttl_days
    MaxTime         \* bound of the clock

ASSUME PortalConstants ==
    /\ PortalTypes \subseteq DocTypes
    /\ ApiTypes \subseteq DocTypes
    /\ Ttl \in Nat
    /\ MaxTime \in Nat

ASSUME HandlersFinite == IsFiniteSet(Handlers)

VARIABLES
    links,      \* table document_request: (batch, doc type) -> row or Nil
    now,        \* wall clock
    docs,       \* table document: id -> row, Nil (not drawn yet) or Gone
    disk,       \* local storage: path -> body or Nil
    uploads,    \* local variables of the upload handlers
    patches,    \* local variables of the PATCH handlers
    accepted    \* history: uploads answered "ok" per link

vars == <<links, now, docs, disk, uploads, patches, accepted>>

-----------------------------------------------------------------------------
LinkIds == Batches \X PortalTypes

Links == [tenant_id   : Tenants,
          reference   : References,
          client_name : Names,
          doc_type    : PortalTypes,
          status      : {"pending", "submitted"},
          expires_at  : Nat,
          document_id : DocIds \cup {Nil}]

\* pc names what the handler does next; `row` holds the column values it is
\* going to write, `id` and `seen` what its SELECT returned.
Uploads == [pc   : {"save", "ocr", "find", "commit"},
            link : LinkIds \cup {Nil},          \* Nil: an API upload
            body : Contents \cup {Nil},
            row  : Rows \cup {Nil},
            id   : DocIds \cup {Nil},
            seen : Rows \cup {Nil}]

Patches == [id : DocIds, seen : Rows, new : Rows]

ASSUME NoRecordIsNil ==
    /\ Nil \notin LinkIds /\ Nil \notin Links
    /\ Nil \notin Uploads /\ Nil \notin Patches

TypeOK ==
    /\ links \in [LinkIds -> Links \cup {Nil}]
    /\ now \in Nat
    /\ docs \in [DocIds -> Rows \cup {Nil, Gone}]
    /\ disk \in [Paths -> Bodies \cup {Nil}]
    /\ uploads \in [Handlers -> Uploads \cup {Nil}]
    /\ patches \in [Patchers -> Patches \cup {Nil}]
    /\ accepted \in [LinkIds -> Nat]

Init ==
    /\ links = [l \in LinkIds |-> Nil]
    /\ now = 0
    /\ docs = [d \in DocIds |-> Nil]
    /\ disk = [p \in Paths |-> Nil]
    /\ uploads = [h \in Handlers |-> Nil]
    /\ patches = [p \in Patchers |-> Nil]
    /\ accepted = [l \in LinkIds |-> 0]

Exists(d) == docs[d] \notin {Nil, Gone}

\* Mutants: one half of the check is missing.
IsUnexpired(link) == link.expires_at > now
IsPending(link)   == link.status = "pending"

IsLive(link) == link.status = "pending" /\ link.expires_at > now

-----------------------------------------------------------------------------
(* Minting and opening links. *)

\* create_request_batch: one link per doc type, inserted by one commit.  The
\* empty folders it pre-creates are not observable: save() makes them too.
MintLinks(b, t, ref, name) ==
    /\ \A type \in PortalTypes : links[<<b, type>>] = Nil
    /\ links' = [l \in LinkIds |->
                    IF l[1] = b
                    THEN [tenant_id |-> t, reference |-> ref,
                          client_name |-> name, doc_type |-> l[2],
                          status |-> "pending", expires_at |-> now + Ttl,
                          document_id |-> Nil]
                    ELSE links[l]]
    /\ UNCHANGED <<now, docs, disk, uploads, patches, accepted>>

\* Mutant: the link is not looked at before the file is read.
OpenAnyLink(h, l) ==
    /\ uploads[h] = Nil
    /\ links[l] # Nil
    /\ uploads' = [uploads EXCEPT ![h] =
                      [pc |-> "save", link |-> l, body |-> Nil, row |-> Nil,
                       id |-> Nil, seen |-> Nil]]
    /\ UNCHANGED <<links, now, docs, disk, patches, accepted>>

\* upload_submit up to `await file.read()`: the row of the token is loaded
\* and its liveness checked; the handler keeps that row to the end.
OpenLink(h, l) ==
    /\ uploads[h] = Nil
    /\ links[l] # Nil
    /\ IsLive(links[l])
    /\ uploads' = [uploads EXCEPT ![h] =
                      [pc |-> "save", link |-> l, body |-> Nil, row |-> Nil,
                       id |-> Nil, seen |-> Nil]]
    /\ UNCHANGED <<links, now, docs, disk, patches, accepted>>

-----------------------------------------------------------------------------
(* store_local_document, the code both upload routes run. *)

\* The column values of an upload before OCR and before the dedup lookup.
PlannedRow(t, ref, name, type, file, content, meta) ==
    [tenant_id |-> t, owner_ref |-> ref,
     file_name |-> SanitizeFilename[file],
     document_type |-> type, original_document_type |-> type,
     mime_type |-> MimeOf[content], file_size |-> SizeOf[content],
     s3_url |-> DocKey(ref, name, type, file), s3_url_ocr_json |-> Nil,
     ocr_status |-> "not_requested", ocr_text |-> Nil, metadata |-> meta]

\* Validate and write the file; the row itself is only planned.  A key that is
\* refused, or whose path is a directory, raises, and nothing is written.
SaveFile(h, link, row, content, pc) ==
    /\ Acceptable(content)
    /\ Confined(row.s3_url)
    /\ disk' = [disk EXCEPT ![PathFor(row.s3_url)] = FileBody(content)]
    /\ uploads' = [uploads EXCEPT ![h] =
                      [pc |-> pc, link |-> link, body |-> content,
                       row |-> row, id |-> Nil, seen |-> Nil]]
    /\ UNCHANGED <<links, now, docs, patches, accepted>>

\* write_bytes truncates and then writes: the process died or the disk was
\* full in between, and the request is over.
TearFile(h, row, content) ==
    /\ Acceptable(content)
    /\ Confined(row.s3_url)
    /\ disk' = [disk EXCEPT ![PathFor(row.s3_url)] = TornBody(content)]
    /\ uploads' = [uploads EXCEPT ![h] = Nil]
    /\ UNCHANGED <<links, now, docs, patches, accepted>>

\* submit_upload: no OCR, no metadata.
PortalRow(l, file, content) ==
    PlannedRow(links[l].tenant_id, links[l].reference, links[l].client_name,
               links[l].doc_type, file, content, {})

PortalSave(h, file, content) ==
    /\ uploads[h] # Nil /\ uploads[h].pc = "save"
    /\ LET row == PortalRow(uploads[h].link, file, content) IN
         \/ SaveFile(h, uploads[h].link, row, content, "find")
         \/ TearFile(h, row, content)

\* client_name_for_reference: LIMIT 1 without an order, so any recorded name.
RecordedNames(t, ref) ==
    {links[l].client_name : l \in
        {k \in LinkIds : /\ links[k] # Nil
                         /\ links[k].tenant_id = t
                         /\ links[k].reference = ref}}

\* The folder an API upload goes to: its client_name, else a recorded name,
\* else uploaded_by, which is any string of the caller's.
FolderNames(t, ref, client_name) ==
    IF client_name # Nil THEN {client_name}
    ELSE IF RecordedNames(t, ref) # {} THEN RecordedNames(t, ref)
    ELSE Names

\* upload_document: between its last await and the file write nothing else
\* runs, so arriving and saving are one step.
ApiSave(h, t, ref, client_name, type, file, content, meta, ocr) ==
    /\ uploads[h] = Nil
    /\ \E name \in FolderNames(t, ref, client_name) :
         LET row == PlannedRow(t, ref, name, type, file, content, meta) IN
           \/ SaveFile(h, Nil, row, content, IF ocr THEN "ocr" ELSE "find")
           \/ TearFile(h, row, content)

\* perform_ocr returned in its thread: the sidecar is written next to the file.
OcrSucceeds(h) ==
    /\ uploads[h] # Nil /\ uploads[h].pc = "ocr"
    /\ LET u == uploads[h]
           key == JsonKey(u.row.s3_url)
       IN /\ disk' = [disk EXCEPT ![PathFor(key)] = OcrBody(u.body)]
          /\ uploads' = [uploads EXCEPT
                ![h].pc = "find",
                ![h].row = [u.row EXCEPT !.s3_url_ocr_json = key,
                                         !.ocr_status = "done",
                                         !.ocr_text = u.body]]
    /\ UNCHANGED <<links, now, docs, patches, accepted>>

\* OCR raised, or, after its text was taken, the write of the sidecar did; the
\* upload goes on without the sidecar, in the second case with the text.
OcrFails(h) ==
    /\ uploads[h] # Nil /\ uploads[h].pc = "ocr"
    /\ LET u == uploads[h] IN
         \/ /\ uploads' = [uploads EXCEPT
                  ![h].pc = "find",
                  ![h].row = [u.row EXCEPT !.ocr_status = "failed"]]
            /\ UNCHANGED disk
         \/ /\ uploads' = [uploads EXCEPT
                  ![h].pc = "find",
                  ![h].row = [u.row EXCEPT !.ocr_status = "failed",
                                           !.ocr_text = u.body]]
            /\ \/ UNCHANGED disk
               \/ disk' = [disk EXCEPT
                     ![PathFor(JsonKey(u.row.s3_url))] = TornBody(u.body)]
    /\ UNCHANGED <<links, now, docs, patches, accepted>>

\* Mutant: the lookup leaves out tenant and case.
MatchingAnyCase(row) ==
    {d \in DocIds : /\ Exists(d)
                    /\ docs[d].file_name = row.file_name
                    /\ docs[d].document_type = row.document_type}

Matching(row) == {d \in DocIds : Exists(d) /\ DedupKey(docs[d]) = DedupKey(row)}

\* The dedup SELECT.  scalar_one_or_none raises on two matches.
FindExisting(h) ==
    /\ uploads[h] # Nil /\ uploads[h].pc = "find"
    /\ LET found == Matching(uploads[h].row) IN
         \/ /\ found = {}
            /\ uploads' = [uploads EXCEPT ![h].pc = "commit"]
         \/ \E d \in found :
            /\ found = {d}
            /\ uploads' = [uploads EXCEPT ![h].pc = "commit", ![h].id = d,
                                          ![h].seen = docs[d]]
    /\ UNCHANGED <<links, now, docs, disk, patches, accepted>>

\* submit_upload spends its link in the transaction that stores the row.  The
\* UPDATE names the link by its primary key alone.
SpendLink(l, d) ==
    IF l = Nil
    THEN UNCHANGED <<links, accepted>>
    ELSE /\ links' = [links EXCEPT ![l].status = "submitted",
                                   ![l].document_id = d]
         /\ accepted' = [accepted EXCEPT ![l] = @ + 1]

\* INSERT of a new row under a fresh uuid; the unique constraint must agree.
CommitInsert(h, d) ==
    /\ uploads[h] # Nil /\ uploads[h].pc = "commit" /\ uploads[h].id = Nil
    /\ docs[d] = Nil
    /\ Matching(uploads[h].row) = {}
    /\ docs' = [docs EXCEPT ![d] = uploads[h].row]
    /\ SpendLink(uploads[h].link, d)
    /\ uploads' = [uploads EXCEPT ![h] = Nil]
    /\ UNCHANGED <<now, disk, patches>>

\* Mutant: a re-upload also moves the frozen original type.
AssignEveryColumn(u) == u.row

\* The attributes an upload assigns on the row it found.  The portal passes no
\* metadata and keeps the old object; the API route passes at least {}.
AssignUpload(u) ==
    [u.seen EXCEPT !.mime_type = u.row.mime_type,
                   !.file_size = u.row.file_size,
                   !.s3_url = u.row.s3_url,
                   !.s3_url_ocr_json = u.row.s3_url_ocr_json,
                   !.ocr_status = u.row.ocr_status,
                   !.ocr_text = u.row.ocr_text,
                   !.metadata = IF u.link = Nil THEN u.row.metadata ELSE @]

\* UPDATE of the row found earlier.  If that row was deleted meanwhile the
\* statement matches nothing and the handler fails (Abandon).
CommitUpdate(h) ==
    /\ uploads[h] # Nil /\ uploads[h].pc = "commit" /\ uploads[h].id # Nil
    /\ LET u == uploads[h] IN
         /\ Exists(u.id)
         /\ docs' = [docs EXCEPT ![u.id] =
                        OrmUpdate(@, u.seen, AssignUpload(u))]
         /\ SpendLink(u.link, u.id)
    /\ uploads' = [uploads EXCEPT ![h] = Nil]
    /\ UNCHANGED <<now, disk, patches>>

\* A request ends without a commit: rejected file, IntegrityError of a racing
\* INSERT, StaleDataError, lost connection, crash.  The file stays on disk.
Abandon(h) ==
    /\ uploads[h] # Nil
    /\ uploads' = [uploads EXCEPT ![h] = Nil]
    /\ UNCHANGED <<links, now, docs, disk, patches, accepted>>

-----------------------------------------------------------------------------
(* PATCH and DELETE of a document. *)

\* patch_document up to its commit: load the row, assign on the loaded copy.
LoadPatch(p, d, type, meta, mode) ==
    /\ patches[p] = Nil
    /\ Exists(d)
    /\ patches' = [patches EXCEPT ![p] =
          [id |-> d, seen |-> docs[d],
           new |-> [docs[d] EXCEPT
                      !.document_type = IF type = Nil THEN @ ELSE type,
                      !.metadata = IF mode = "merge" THEN @ \cup meta
                                   ELSE meta]]]
    /\ UNCHANGED <<links, now, docs, disk, uploads, accepted>>

CommitPatch(p) ==
    /\ patches[p] # Nil
    /\ LET w == patches[p]
           row == OrmUpdate(docs[w.id], w.seen, w.new)
       IN /\ Exists(w.id)
          /\ Matching(row) \subseteq {w.id}
          /\ docs' = [docs EXCEPT ![w.id] = row]
    /\ patches' = [patches EXCEPT ![p] = Nil]
    /\ UNCHANGED <<links, now, disk, uploads, accepted>>

AbandonPatch(p) ==
    /\ patches[p] # Nil
    /\ patches' = [patches EXCEPT ![p] = Nil]
    /\ UNCHANGED <<links, now, docs, disk, uploads, accepted>>

\* Mutants: no ON DELETE SET NULL; the file is unlinked with its row.
DeleteKeepsLinks(d) ==
    /\ Exists(d)
    /\ docs' = [docs EXCEPT ![d] = Gone]
    /\ UNCHANGED <<links, now, disk, uploads, patches, accepted>>

DeleteUnlinksFile(d) ==
    /\ Exists(d)
    /\ docs' = [docs EXCEPT ![d] = Gone]
    /\ disk' = [disk EXCEPT ![PathFor(docs[d].s3_url)] = Nil]
    /\ links' = [l \in LinkIds |->
                    IF links[l] # Nil /\ links[l].document_id = d
                    THEN [links[l] EXCEPT !.document_id = Nil]
                    ELSE links[l]]
    /\ UNCHANGED <<now, uploads, patches, accepted>>

\* delete_document: the objects under the S3 prefix, then the row; the foreign
\* key of document_request is ON DELETE SET NULL.  Nothing touches the disk.
DeleteDocument(d) ==
    /\ Exists(d)
    /\ docs' = [docs EXCEPT ![d] = Gone]
    /\ links' = [l \in LinkIds |->
                    IF links[l] # Nil /\ links[l].document_id = d
                    THEN [links[l] EXCEPT !.document_id = Nil]
                    ELSE links[l]]
    /\ UNCHANGED <<now, disk, uploads, patches, accepted>>

Tick ==
    /\ now < MaxTime
    /\ now' = now + 1
    /\ UNCHANGED <<links, docs, disk, uploads, patches, accepted>>

-----------------------------------------------------------------------------
UploadStep(h) ==
    \/ \E l \in LinkIds : OpenLink(h, l)
    \/ \E file \in FileNames, content \in Contents : PortalSave(h, file, content)
    \/ \E t \in Tenants, ref \in References, client_name \in Names \cup {Nil},
          type \in ApiTypes, file \in FileNames, content \in Contents,
          meta \in SUBSET MetaKeys, ocr \in BOOLEAN :
          ApiSave(h, t, ref, client_name, type, file, content, meta, ocr)
    \/ OcrSucceeds(h)
    \/ OcrFails(h)
    \/ FindExisting(h)
    \/ \E d \in DocIds : CommitInsert(h, d)
    \/ CommitUpdate(h)
    \/ Abandon(h)

PatchStep(p) ==
    \/ \E d \in DocIds, type \in DocTypes \cup {Nil}, meta \in SUBSET MetaKeys,
          mode \in {"merge", "replace"} : LoadPatch(p, d, type, meta, mode)
    \/ CommitPatch(p)
    \/ AbandonPatch(p)

Next ==
    \/ \E b \in Batches, t \in Tenants, ref \in References, name \in Names :
          MintLinks(b, t, ref, name)
    \/ \E h \in Handlers : UploadStep(h)
    \/ \E p \in Patchers : PatchStep(p)
    \/ \E d \in DocIds : DeleteDocument(d)
    \/ Tick

Spec == Init /\ [][Next]_vars
-----------------------------------------------------------------------------
(* What holds. *)

InFlight(l) == {h \in Handlers : uploads[h] # Nil /\ uploads[h].link = l}

\* Whether something was written under a key.
Stored(key) == disk[PathFor(key)] # Nil

\* Every row points at a file of its own name that is on disk, and a row that
\* names a sidecar finds one there, whichever uploads failed, tore or raced, to
\* whichever files their keys lead, and whatever was deleted (local files
\* outlive rows: delete_document never calls the backend's delete).
RowLocatesFile ==
    \A d \in DocIds : Exists(d) =>
        /\ Stored(docs[d].s3_url)
        /\ docs[d].s3_url[4] = docs[d].file_name
        /\ docs[d].s3_url_ocr_json # Nil => Stored(docs[d].s3_url_ocr_json)

\* A link shows a document only after it was spent, and then an existing one
\* of the link's own tenant and case, although uploads of other cases, PATCHes
\* and DELETEs run between the SELECTs and the commit of its upload.
LinkRefersToCase ==
    \A l \in LinkIds : links[l] # Nil /\ links[l].document_id # Nil =>
        /\ links[l].status = "submitted"
        /\ Exists(links[l].document_id)
        /\ docs[links[l].document_id].tenant_id = links[l].tenant_id
        /\ docs[links[l].document_id].owner_ref = links[l].reference

\* How far one-time use can be missed: liveness is checked when an upload
\* opens its link, so the uploads a spent link ever accepts are among those
\* that were open when it was spent.  A single handler at a time spends a link
\* exactly once.
SpendsBounded ==
    \A l \in LinkIds :
        /\ (links[l] = Nil \/ links[l].status = "pending") => accepted[l] = 0
        /\ (links[l] # Nil /\ links[l].status = "submitted") =>
             /\ accepted[l] > 0
             /\ accepted[l] + Cardinality(InFlight(l)) <= Cardinality(Handlers)

\* A link whose time ran out with no upload open on it stays unspent for ever.
Lapsed(l) ==
    /\ links[l] # Nil
    /\ links[l].status = "pending"
    /\ links[l].expires_at <= now
    /\ InFlight(l) = {}

LapsedForever == [][\A l \in LinkIds : Lapsed(l) => Lapsed(l)']_vars

Link == INSTANCE UploadLink WITH
    Takers <- Handlers,
    state  <- [l \in LinkIds |-> IF links[l] = Nil THEN "unminted"
                                 ELSE IF IsLive(links[l]) THEN "open"
                                 ELSE "closed"],
    takers <- [l \in LinkIds |-> InFlight(l)],
    spent  <- accepted

\* Status column, expiry, clock, handlers and the commit of the upload together
\* implement the promise of a link, PATCHes and DELETEs of its document included.
KeepsPromise == Link!Spec

\* What identifies a row, and the type it was first uploaded under, never
\* change while the row exists; an id is never used again after a DELETE.
IdentityFrozen ==
    [][\A d \in DocIds :
         /\ docs[d] = Gone => docs'[d] = Gone
         /\ Exists(d) /\ docs'[d] # Gone =>
              /\ docs'[d].tenant_id = docs[d].tenant_id
              /\ docs'[d].owner_ref = docs[d].owner_ref
              /\ docs'[d].file_name = docs[d].file_name
              /\ docs'[d].original_document_type
                   = docs[d].original_document_type]_vars

UploadEnds(h) == uploads[h] # Nil /\ uploads'[h] = Nil
PatchEnds(p)  == patches[p] # Nil /\ patches'[p] = Nil

\* Writers of one row that loaded it before the other committed do not undo
\* each other: a PATCH never reverts the file of an upload, an upload never
\* reverts a re-classification, and a portal upload leaves metadata alone.
WritersKeepApart ==
    [][\A d \in DocIds : Exists(d) /\ docs'[d] # Gone =>
         /\ (\E p \in Patchers : PatchEnds(p)) =>
              \A column \in {"mime_type", "file_size", "s3_url",
                             "s3_url_ocr_json", "ocr_status", "ocr_text"} :
                 docs'[d][column] = docs[d][column]
         /\ \A h \in Handlers : UploadEnds(h) =>
              /\ docs'[d].document_type = docs[d].document_type
              /\ uploads[h].link # Nil =>
                   docs'[d].metadata = docs[d].metadata]_vars

-----------------------------------------------------------------------------
(* What the repository says and the code does not do. *)

\* "link is then spent (one-time; re-POST returns 409)" (API.md): two uploads
\* that both opened the link before either committed are both accepted.
OneTimeUse == \A l \in LinkIds : accepted[l] <= 1

\* serve_file looks up "the Document row" of a URL with scalar_one_or_none,
\* which raises when two rows carry it.
UrlIdentifiesRow ==
    \A d, e \in DocIds :
        Exists(d) /\ Exists(e) /\ docs[d].s3_url = docs[e].s3_url => d = e

\* ocr_text is "populated when ocr_status='done'" (SPEC section 4): uploads that
\* loaded a row before each other write only the columns each of them changed.
DoneHasText ==
    \A d \in DocIds :
        Exists(d) /\ docs[d].ocr_status = "done" => docs[d].ocr_text # Nil
=============================================================================
