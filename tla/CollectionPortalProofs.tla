------------------------ MODULE CollectionPortalProofs ------------------------
(***************************************************************************)
(* Theorems of CollectionPortal, for every value of its constants.         *)
(***************************************************************************)
EXTENDS CollectionPortal, FiniteSetTheorems, TLAPS

-----------------------------------------------------------------------------
(* Data. *)

\* A row updated through a session is a row again.
LEMMA OrmUpdateType ==
    ASSUME NEW current \in Rows, NEW seen \in Rows, NEW new \in Rows
    PROVE  OrmUpdate(current, seen, new) \in Rows
BY DEF OrmUpdate, Rows

\* The parts of a content's key; it is a key in use if the backend accepts it.
LEMMA KeyTypes ==
    ASSUME NEW ref \in References, NEW name \in Names, NEW type \in DocTypes,
           NEW file \in FileNames
    PROVE  /\ DocKey(ref, name, type, file)[1] = Slugify[ref]
           /\ DocKey(ref, name, type, file)[4] = SanitizeFilename[file]
           /\ Confined(DocKey(ref, name, type, file)) =>
                DocKey(ref, name, type, file) \in Keys
BY KeyFunctions DEF DocKey, Keys, Confined

\* The sidecar of a key lies in the same directory.
LEMMA JsonKeyType ==
    ASSUME NEW key \in Keys
    PROVE  JsonKey(key) \in Keys
<1>1. /\ key[1] \in Slugs /\ key[2] \in Slugs /\ key[3] \in DocTypes
      /\ key[4] \in StoredNames /\ DirOf[<<key[1], key[2], key[3]>>] \in Dirs
  BY DEF Keys, PathFor, Paths
<1>2. SidecarName[key[4]] \in StoredNames
  BY <1>1, KeyFunctions
<1> QED
  BY <1>1, <1>2 DEF JsonKey, Keys, PathFor, Paths

LEMMA PathType ==
    ASSUME NEW key \in Keys
    PROVE  PathFor(key) \in Paths
BY DEF Keys

\* What an upload plans is a row, if the backend accepts its key.
LEMMA PlannedRowType ==
    ASSUME NEW t \in Tenants, NEW ref \in References, NEW name \in Names,
           NEW type \in DocTypes, NEW file \in FileNames,
           NEW content \in Contents, NEW meta \in SUBSET MetaKeys,
           Confined(PlannedRow(t, ref, name, type, file, content, meta).s3_url)
    PROVE  PlannedRow(t, ref, name, type, file, content, meta) \in Rows
<1>1. DocKey(ref, name, type, file) \in Keys
  BY KeyTypes DEF PlannedRow
<1>2. SanitizeFilename[file] \in StoredNames
  BY KeyFunctions
<1>3. MimeOf[content] \in MimeTypes /\ SizeOf[content] \in Nat
  BY ContentFunctions
<1> QED
  BY <1>1, <1>2, <1>3 DEF PlannedRow, Rows, OcrStatus

-----------------------------------------------------------------------------
(* Types.  TypeOK alone is not inductive: which fields of an upload are set *)
(* follows from its program counter.                                       *)

WellFormed(u, table) ==
    /\ u.pc = "save" => u.link \in LinkIds
    /\ u.link # Nil => table[u.link] # Nil
    /\ u.pc # "save" => u.row \in Rows /\ u.body \in Contents
    /\ u.id # Nil => u.pc = "commit" /\ u.seen \in Rows

TypeInv ==
    /\ TypeOK
    /\ \A h \in Handlers : uploads[h] # Nil => WellFormed(uploads[h], links)

LEMMA TypeInvInit == Init => TypeInv
BY DEF Init, TypeInv, TypeOK

LEMMA MintLinksType ==
    ASSUME TypeInv, NEW b \in Batches, NEW t \in Tenants,
           NEW ref \in References, NEW name \in Names, MintLinks(b, t, ref, name)
    PROVE  TypeInv'
<1>1. links' \in [LinkIds -> Links \cup {Nil}]
  BY PortalConstants DEF TypeInv, TypeOK, MintLinks, LinkIds, Links
<1>2. \A l \in LinkIds : links[l] # Nil => links'[l] # Nil
  BY NoRecordIsNil, PortalConstants DEF TypeInv, TypeOK, MintLinks, LinkIds, Links
<1> QED
  BY <1>1, <1>2 DEF TypeInv, TypeOK, MintLinks, WellFormed, Uploads

\* A step that changes one upload handler and keeps every link.
LEMMA OneUploadType ==
    ASSUME TypeInv, NEW h \in Handlers, NEW u \in Uploads \cup {Nil},
           uploads' = [uploads EXCEPT ![h] = u],
           links' \in [LinkIds -> Links \cup {Nil}],
           \A l \in LinkIds : links[l] # Nil => links'[l] # Nil,
           u # Nil => WellFormed(u, links'),
           now' = now,
           docs' \in [DocIds -> Rows \cup {Nil, Gone}],
           disk' \in [Paths -> Bodies \cup {Nil}],
           patches' = patches,
           accepted' \in [LinkIds -> Nat]
    PROVE  TypeInv'
<1>1. TypeOK'
  BY DEF TypeInv, TypeOK
<1>2. ASSUME NEW g \in Handlers, uploads'[g] # Nil
      PROVE  WellFormed(uploads'[g], links')
  <2>1. CASE g = h
    BY <1>2, <2>1 DEF TypeInv, TypeOK
  <2>2. CASE g # h
    <3>1. uploads'[g] = uploads[g] /\ uploads[g] \in Uploads
      BY <1>2, <2>2 DEF TypeInv, TypeOK
    <3>2. WellFormed(uploads[g], links)
      BY <1>2, <3>1 DEF TypeInv
    <3> QED
      BY <3>1, <3>2 DEF WellFormed, Uploads
  <2> QED
    BY <2>1, <2>2
<1> QED
  BY <1>1, <1>2 DEF TypeInv

LEMMA OpenLinkType ==
    ASSUME TypeInv, NEW h \in Handlers, NEW l \in LinkIds, OpenLink(h, l)
    PROVE  TypeInv'
<1> DEFINE u == [pc |-> "save", link |-> l, body |-> Nil, row |-> Nil,
                 id |-> Nil, seen |-> Nil]
<1>1. u \in Uploads /\ WellFormed(u, links')
  BY DEF Uploads, WellFormed, OpenLink
<1>2. uploads' = [uploads EXCEPT ![h] = u]
  BY DEF OpenLink
<1> HIDE DEF u
<1> QED
  BY <1>1, <1>2, OneUploadType DEF OpenLink, TypeInv, TypeOK

LEMMA SaveFileType ==
    ASSUME TypeInv, NEW h \in Handlers, NEW link \in LinkIds \cup {Nil},
           link # Nil => links[link] # Nil,
           NEW row \in Rows, NEW content \in Contents, NEW pc \in {"ocr", "find"},
           SaveFile(h, link, row, content, pc) \/ TearFile(h, row, content)
    PROVE  TypeInv'
<1>1. PathFor(row.s3_url) \in Paths
  BY PathType DEF Rows
<1>2. disk' \in [Paths -> Bodies \cup {Nil}]
  BY <1>1 DEF TypeInv, TypeOK, SaveFile, TearFile, Bodies, FileBody, TornBody
<1>3. CASE SaveFile(h, link, row, content, pc)
  <2> DEFINE u == [pc |-> pc, link |-> link, body |-> content,
                   row |-> row, id |-> Nil, seen |-> Nil]
  <2>1. u \in Uploads /\ WellFormed(u, links')
    BY <1>3 DEF Uploads, WellFormed, SaveFile
  <2>2. uploads' = [uploads EXCEPT ![h] = u]
    BY <1>3 DEF SaveFile
  <2> HIDE DEF u
  <2> QED
    BY <1>2, <1>3, <2>1, <2>2, OneUploadType DEF SaveFile, TypeInv, TypeOK
<1>4. CASE TearFile(h, row, content)
  BY <1>2, <1>4, OneUploadType DEF TearFile, TypeInv, TypeOK
<1> QED
  BY <1>3, <1>4

LEMMA PortalSaveType ==
    ASSUME TypeInv, NEW h \in Handlers, NEW file \in FileNames,
           NEW content \in Contents, PortalSave(h, file, content)
    PROVE  TypeInv'
<1> DEFINE l == uploads[h].link
           row == PortalRow(l, file, content)
<1>1. l \in LinkIds /\ links[l] # Nil /\ links[l] \in Links
  BY NoRecordIsNil DEF TypeInv, TypeOK, PortalSave, WellFormed, Uploads
<1>2. SaveFile(h, l, row, content, "find") \/ TearFile(h, row, content)
  BY DEF PortalSave
<1>3. Confined(row.s3_url)
  BY <1>2 DEF SaveFile, TearFile
<1>4. row \in Rows
  BY <1>1, <1>3, PlannedRowType, PortalConstants DEF PortalRow, Links
<1> HIDE DEF l, row
<1> QED
  BY <1>1, <1>2, <1>4, SaveFileType

LEMMA ApiSaveType ==
    ASSUME TypeInv, NEW h \in Handlers, NEW t \in Tenants, NEW ref \in References,
           NEW client_name \in Names \cup {Nil}, NEW type \in ApiTypes,
           NEW file \in FileNames, NEW content \in Contents,
           NEW meta \in SUBSET MetaKeys, NEW ocr \in BOOLEAN,
           ApiSave(h, t, ref, client_name, type, file, content, meta, ocr)
    PROVE  TypeInv'
<1>1. FolderNames(t, ref, client_name) \subseteq Names
  BY DEF FolderNames, RecordedNames, TypeInv, TypeOK, Links
<1>2. PICK name \in Names :
        LET row == PlannedRow(t, ref, name, type, file, content, meta) IN
          \/ SaveFile(h, Nil, row, content, IF ocr THEN "ocr" ELSE "find")
          \/ TearFile(h, row, content)
  BY <1>1 DEF ApiSave
<1> DEFINE row == PlannedRow(t, ref, name, type, file, content, meta)
           pc == IF ocr THEN "ocr" ELSE "find"
<1>3. SaveFile(h, Nil, row, content, pc) \/ TearFile(h, row, content)
  BY <1>2
<1>4. Confined(row.s3_url)
  BY <1>3 DEF SaveFile, TearFile
<1>5. row \in Rows
  BY <1>4, PlannedRowType, PortalConstants
<1>6. pc \in {"ocr", "find"}
  OBVIOUS
<1> HIDE DEF row, pc
<1> QED
  BY <1>3, <1>5, <1>6, SaveFileType

LEMMA OcrType ==
    ASSUME TypeInv, NEW h \in Handlers, OcrSucceeds(h) \/ OcrFails(h)
    PROVE  TypeInv'
<1> DEFINE u == uploads[h]
           key == JsonKey(u.row.s3_url)
<1>1. u \in Uploads /\ u.row \in Rows /\ u.body \in Contents /\ u.pc = "ocr"
  BY DEF TypeInv, TypeOK, OcrSucceeds, OcrFails, WellFormed
<1>2. key \in Keys
  BY <1>1, JsonKeyType DEF Rows
<1>3. disk' \in [Paths -> Bodies \cup {Nil}]
  BY <1>1, <1>2, PathType DEF TypeInv, TypeOK, OcrSucceeds, OcrFails, Bodies, OcrBody, TornBody
<1>4. CASE OcrSucceeds(h)
  <2> DEFINE row == [u.row EXCEPT !.s3_url_ocr_json = key,
                                  !.ocr_status = "done", !.ocr_text = u.body]
  <2>1. row \in Rows
    BY <1>1, <1>2 DEF Rows, OcrStatus
  <2> DEFINE v == [u EXCEPT !.pc = "find", !.row = row]
  <2>2. uploads' = [uploads EXCEPT ![h] = v]
    BY <1>4 DEF OcrSucceeds, TypeInv, TypeOK
  <2>3. WellFormed(u, links) /\ links' = links
    BY <1>1, <1>4 DEF TypeInv, OcrSucceeds
  <2>4. v \in Uploads /\ WellFormed(v, links')
    BY <1>1, <2>1, <2>3 DEF Uploads, WellFormed
  <2>5. UNCHANGED <<links, now, docs, patches, accepted>>
    BY <1>4 DEF OcrSucceeds
  <2> HIDE DEF v
  <2> QED
    BY <1>3, <2>2, <2>4, <2>5, OneUploadType DEF TypeInv, TypeOK
<1>5. CASE OcrFails(h)
  <2>1. PICK row \in {[u.row EXCEPT !.ocr_status = "failed"],
                      [u.row EXCEPT !.ocr_status = "failed",
                                    !.ocr_text = u.body]} :
           uploads' = [uploads EXCEPT ![h].pc = "find", ![h].row = row]
    BY <1>5 DEF OcrFails
  <2>2. row \in Rows
    BY <1>1, <2>1 DEF Rows, OcrStatus
  <2> DEFINE v == [u EXCEPT !.pc = "find", !.row = row]
  <2>3. uploads' = [uploads EXCEPT ![h] = v]
    BY <2>1 DEF TypeInv, TypeOK
  <2>4. WellFormed(u, links) /\ links' = links
    BY <1>1, <1>5 DEF TypeInv, OcrFails
  <2>5. v \in Uploads /\ WellFormed(v, links')
    BY <1>1, <2>2, <2>4 DEF Uploads, WellFormed
  <2>6. UNCHANGED <<links, now, docs, patches, accepted>>
    BY <1>5 DEF OcrFails
  <2> HIDE DEF v
  <2> QED
    BY <1>3, <2>3, <2>5, <2>6, OneUploadType DEF TypeInv, TypeOK
<1> QED
  BY <1>4, <1>5

LEMMA FindExistingType ==
    ASSUME TypeInv, NEW h \in Handlers, FindExisting(h)
    PROVE  TypeInv'
<1> DEFINE u == uploads[h]
<1>1. u \in Uploads /\ WellFormed(u, links) /\ u.pc = "find"
  BY DEF TypeInv, TypeOK, FindExisting
<1>2. UNCHANGED <<links, now, docs, disk, patches, accepted>>
  BY DEF FindExisting
<1>3. CASE uploads' = [uploads EXCEPT ![h].pc = "commit"]
  <2> DEFINE v == [u EXCEPT !.pc = "commit"]
  <2>1. v \in Uploads /\ WellFormed(v, links')
    BY <1>1, <1>2 DEF Uploads, WellFormed
  <2>2. uploads' = [uploads EXCEPT ![h] = v]
    BY <1>3
  <2> HIDE DEF v
  <2> QED
    BY <1>2, <2>1, <2>2, OneUploadType DEF TypeInv, TypeOK
<1>4. ASSUME NEW d \in DocIds, Exists(d),
             uploads' = [uploads EXCEPT ![h].pc = "commit", ![h].id = d,
                                        ![h].seen = docs[d]]
      PROVE  TypeInv'
  <2> DEFINE v == [u EXCEPT !.pc = "commit", !.id = d, !.seen = docs[d]]
  <2>1. docs[d] \in Rows
    BY <1>4 DEF Exists, TypeInv, TypeOK
  <2>2. v \in Uploads /\ WellFormed(v, links')
    BY <1>1, <1>2, <2>1 DEF Uploads, WellFormed
  <2>3. uploads' = [uploads EXCEPT ![h] = v]
    BY <1>4 DEF TypeInv, TypeOK
  <2> HIDE DEF v
  <2> QED
    BY <1>2, <2>2, <2>3, OneUploadType DEF TypeInv, TypeOK
<1> QED
  BY <1>3, <1>4 DEF FindExisting, Matching

\* Spending a link keeps both tables it writes well typed.
LEMMA SpendLinkType ==
    ASSUME TypeInv, NEW l \in LinkIds \cup {Nil}, NEW d \in DocIds,
           l # Nil => links[l] # Nil, SpendLink(l, d)
    PROVE  /\ links' \in [LinkIds -> Links \cup {Nil}]
           /\ \A k \in LinkIds : links[k] # Nil => links'[k] # Nil
           /\ accepted' \in [LinkIds -> Nat]
<1>1. CASE l = Nil
  BY <1>1 DEF SpendLink, TypeInv, TypeOK
<1>2. CASE l # Nil
  <2> DEFINE r == [links[l] EXCEPT !.status = "submitted", !.document_id = d]
  <2>1. links[l] \in Links
    BY <1>2 DEF TypeInv, TypeOK
  <2>2. r \in Links /\ r # Nil
    BY <2>1, NoRecordIsNil DEF Links
  <2>3. links' = [links EXCEPT ![l] = r] /\ accepted' = [accepted EXCEPT ![l] = @ + 1]
    BY <1>2 DEF SpendLink, TypeInv, TypeOK
  <2> HIDE DEF r
  <2> QED
    BY <1>2, <2>2, <2>3 DEF TypeInv, TypeOK
<1> QED
  BY <1>1, <1>2

LEMMA CommitInsertType ==
    ASSUME TypeInv, NEW h \in Handlers, NEW d \in DocIds, CommitInsert(h, d)
    PROVE  TypeInv'
<1>1. /\ uploads[h] \in Uploads
      /\ WellFormed(uploads[h], links)
      /\ uploads[h].pc = "commit"
  BY DEF TypeInv, TypeOK, CommitInsert
<1>2. uploads[h].row \in Rows
  BY <1>1 DEF WellFormed
<1>3. docs' \in [DocIds -> Rows \cup {Nil, Gone}]
  BY <1>2 DEF CommitInsert, TypeInv, TypeOK
<1>4. /\ links' \in [LinkIds -> Links \cup {Nil}]
      /\ \A k \in LinkIds : links[k] # Nil => links'[k] # Nil
      /\ accepted' \in [LinkIds -> Nat]
  <2>1. uploads[h].link \in LinkIds \cup {Nil}
    BY <1>1 DEF Uploads
  <2>2. uploads[h].link # Nil => links[uploads[h].link] # Nil
    BY <1>1 DEF WellFormed
  <2>3. SpendLink(uploads[h].link, d)
    BY DEF CommitInsert
  <2> QED
    BY <2>1, <2>2, <2>3, SpendLinkType
<1> QED
  BY <1>3, <1>4, OneUploadType DEF CommitInsert, TypeInv, TypeOK

\* What an upload assigns on the row it loaded is a row.
LEMMA AssignUploadType ==
    ASSUME NEW u, u.seen \in Rows, u.row \in Rows
    PROVE  AssignUpload(u) \in Rows
BY DEF AssignUpload, Rows

LEMMA CommitUpdateType ==
    ASSUME TypeInv, NEW h \in Handlers, CommitUpdate(h)
    PROVE  TypeInv'
<1> DEFINE u == uploads[h]
           row == OrmUpdate(docs[u.id], u.seen, AssignUpload(u))
<1>1. u \in Uploads /\ WellFormed(u, links) /\ u.pc = "commit" /\ u.id # Nil
  BY DEF TypeInv, TypeOK, CommitUpdate
<1>2. u.row \in Rows /\ u.seen \in Rows /\ u.id \in DocIds
  BY <1>1 DEF WellFormed, Uploads
<1>3. docs[u.id] \in Rows
  BY <1>2 DEF CommitUpdate, Exists, TypeInv, TypeOK
<1>4. row \in Rows
  BY <1>2, <1>3, AssignUploadType, OrmUpdateType
<1>5. docs' = [docs EXCEPT ![u.id] = row]
  BY DEF CommitUpdate
<1>6. docs' \in [DocIds -> Rows \cup {Nil, Gone}]
  BY <1>4, <1>5 DEF TypeInv, TypeOK
<1>7. /\ links' \in [LinkIds -> Links \cup {Nil}]
      /\ \A k \in LinkIds : links[k] # Nil => links'[k] # Nil
      /\ accepted' \in [LinkIds -> Nat]
  <2>1. u.link \in LinkIds \cup {Nil} /\ (u.link # Nil => links[u.link] # Nil)
    BY <1>1 DEF Uploads, WellFormed
  <2>2. SpendLink(u.link, u.id)
    BY DEF CommitUpdate
  <2> QED
    BY <1>2, <2>1, <2>2, SpendLinkType
<1>8. uploads' = [uploads EXCEPT ![h] = Nil] /\ UNCHANGED <<now, disk, patches>>
  BY DEF CommitUpdate
<1> QED
  BY <1>6, <1>7, <1>8, OneUploadType DEF TypeInv, TypeOK

LEMMA AbandonType ==
    ASSUME TypeInv, NEW h \in Handlers, Abandon(h)
    PROVE  TypeInv'
BY OneUploadType DEF Abandon, TypeInv, TypeOK

LEMMA LoadPatchType ==
    ASSUME TypeInv, NEW p \in Patchers, NEW d \in DocIds,
           NEW type \in DocTypes \cup {Nil}, NEW meta \in SUBSET MetaKeys,
           NEW mode \in {"merge", "replace"}, LoadPatch(p, d, type, meta, mode)
    PROVE  TypeInv'
<1> DEFINE new == [docs[d] EXCEPT
                     !.document_type = IF type = Nil THEN @ ELSE type,
                     !.metadata = IF mode = "merge" THEN @ \cup meta ELSE meta]
           w == [id |-> d, seen |-> docs[d], new |-> new]
<1>1. docs[d] \in Rows
  BY DEF LoadPatch, Exists, TypeInv, TypeOK
<1>2. new \in Rows
  BY <1>1 DEF Rows
<1>3. patches' = [patches EXCEPT ![p] = w]
  BY DEF LoadPatch
<1>4. UNCHANGED <<links, now, docs, disk, uploads, accepted>>
  BY DEF LoadPatch
<1> HIDE DEF new
<1>5. w \in Patches
  BY <1>1, <1>2 DEF Patches
<1> HIDE DEF w
<1> QED
  BY <1>3, <1>4, <1>5 DEF TypeInv, TypeOK, WellFormed

LEMMA CommitPatchType ==
    ASSUME TypeInv, NEW p \in Patchers, CommitPatch(p)
    PROVE  TypeInv'
<1> DEFINE w == patches[p]
           row == OrmUpdate(docs[w.id], w.seen, w.new)
<1>1. w \in Patches
  BY DEF CommitPatch, TypeInv, TypeOK
<1>2. w.id \in DocIds /\ w.seen \in Rows /\ w.new \in Rows
  BY <1>1 DEF Patches
<1>3. docs[w.id] \in Rows
  BY <1>2 DEF CommitPatch, Exists, TypeInv, TypeOK
<1>4. row \in Rows
  BY <1>2, <1>3, OrmUpdateType
<1>5. docs' = [docs EXCEPT ![w.id] = row]
  BY DEF CommitPatch
<1>6. patches' = [patches EXCEPT ![p] = Nil]
  BY DEF CommitPatch
<1>7. UNCHANGED <<links, now, disk, uploads, accepted>>
  BY DEF CommitPatch
<1> HIDE DEF row, w
<1> QED
  BY <1>4, <1>5, <1>6, <1>7 DEF TypeInv, TypeOK, WellFormed

LEMMA AbandonPatchType ==
    ASSUME TypeInv, NEW p \in Patchers, AbandonPatch(p)
    PROVE  TypeInv'
BY DEF AbandonPatch, TypeInv, TypeOK, WellFormed

LEMMA DeleteDocumentType ==
    ASSUME TypeInv, NEW d \in DocIds, DeleteDocument(d)
    PROVE  TypeInv'
<1>1. ASSUME NEW l \in LinkIds
      PROVE  /\ links'[l] \in Links \cup {Nil}
             /\ links[l] # Nil => links'[l] # Nil
  <2>1. CASE links[l] # Nil /\ links[l].document_id = d
    <3>1. links[l] \in Links
      BY <2>1 DEF TypeInv, TypeOK
    <3>2. [links[l] EXCEPT !.document_id = Nil] \in Links
      BY <3>1 DEF Links
    <3>3. links'[l] = [links[l] EXCEPT !.document_id = Nil]
      BY <2>1 DEF DeleteDocument
    <3> QED
      BY <3>2, <3>3, NoRecordIsNil
  <2>2. CASE ~(links[l] # Nil /\ links[l].document_id = d)
    BY <2>2 DEF DeleteDocument, TypeInv, TypeOK
  <2> QED
    BY <2>1, <2>2
<1>2. links' \in [LinkIds -> Links \cup {Nil}]
  BY <1>1 DEF DeleteDocument
<1>3. docs' \in [DocIds -> Rows \cup {Nil, Gone}]
  BY DEF DeleteDocument, TypeInv, TypeOK
<1>4. UNCHANGED <<now, disk, uploads, patches, accepted>>
  BY DEF DeleteDocument
<1> QED
  BY <1>1, <1>2, <1>3, <1>4 DEF TypeInv, TypeOK, WellFormed, Uploads

LEMMA TickType ==
    ASSUME TypeInv, Tick
    PROVE  TypeInv'
BY DEF Tick, TypeInv, TypeOK, WellFormed

LEMMA TypeInvStep ==
    ASSUME TypeInv, [Next]_vars
    PROVE  TypeInv'
<1>1. CASE \E b \in Batches, t \in Tenants, ref \in References, name \in Names :
             MintLinks(b, t, ref, name)
  BY <1>1, MintLinksType
<1>2. ASSUME NEW h \in Handlers, UploadStep(h) PROVE TypeInv'
  BY <1>2, OpenLinkType, PortalSaveType, ApiSaveType, OcrType, FindExistingType,
     CommitInsertType, CommitUpdateType, AbandonType DEF UploadStep
<1>3. ASSUME NEW p \in Patchers, PatchStep(p) PROVE TypeInv'
  BY <1>3, LoadPatchType, CommitPatchType, AbandonPatchType DEF PatchStep
<1>4. CASE \E d \in DocIds : DeleteDocument(d)
  BY <1>4, DeleteDocumentType
<1>5. CASE Tick
  BY <1>5, TickType
<1>6. CASE UNCHANGED vars
  BY <1>6 DEF vars, TypeInv, TypeOK, WellFormed
<1> QED
  BY <1>1, <1>2, <1>3, <1>4, <1>5, <1>6 DEF Next

\* The state stays well typed, and the fields of an upload or PATCH in flight
\* are set as its program counter promises.
THEOREM TypeInvariant == Spec => []TypeInv
<1>1. Init => TypeInv
  BY TypeInvInit
<1>2. TypeInv /\ [Next]_vars => TypeInv'
  BY TypeInvStep
<1> QED
  BY <1>1, <1>2, PTL DEF Spec

\* Every reachable state of the portal is well typed.
THEOREM TypeCorrect == Spec => []TypeOK
<1>1. TypeInv => TypeOK
  BY DEF TypeInv
<1> QED
  BY <1>1, TypeInvariant, PTL

-----------------------------------------------------------------------------
(* How a step may change a row.                                            *)

\* A PATCH in flight has assigned its two columns only.
Assigned(w) ==
    \A column \in DOMAIN w.seen :
        column \notin {"document_type", "metadata"} =>
            w.new[column] = w.seen[column]

PatchInv == \A p \in Patchers : patches[p] # Nil => Assigned(patches[p])

LEMMA LoadPatchAssigns ==
    ASSUME TypeInv, PatchInv, NEW p \in Patchers, NEW d \in DocIds,
           NEW type \in DocTypes \cup {Nil}, NEW meta \in SUBSET MetaKeys,
           NEW mode \in {"merge", "replace"}, LoadPatch(p, d, type, meta, mode)
    PROVE  PatchInv'
<1>1. docs[d] \in Rows
  BY DEF LoadPatch, Exists, TypeInv, TypeOK
<1>2. Assigned([id |-> d, seen |-> docs[d],
                new |-> [docs[d] EXCEPT
                   !.document_type = IF type = Nil THEN @ ELSE type,
                   !.metadata = IF mode = "merge" THEN @ \cup meta ELSE meta]])
  BY <1>1 DEF Assigned, Rows
<1> QED
  BY <1>2 DEF LoadPatch, PatchInv, TypeInv, TypeOK

\* What an upload step leaves alone.
LEMMA UploadFrame ==
    ASSUME NEW h \in Handlers, UploadStep(h)
    PROVE  /\ UNCHANGED <<now, patches>>
           /\ \/ UNCHANGED <<docs, links, accepted>>
              \/ \E d \in DocIds : CommitInsert(h, d)
              \/ CommitUpdate(h)
<1>1. ASSUME NEW link, NEW row, NEW content, NEW pc,
             SaveFile(h, link, row, content, pc) \/ TearFile(h, row, content)
      PROVE  UNCHANGED <<links, now, docs, patches, accepted>>
  BY <1>1 DEF SaveFile, TearFile
<1>2. CASE \E file \in FileNames, content \in Contents : PortalSave(h, file, content)
  BY <1>1, <1>2 DEF PortalSave
<1>3. ASSUME NEW t \in Tenants, NEW ref \in References,
             NEW client_name \in Names \cup {Nil}, NEW type \in ApiTypes,
             NEW file \in FileNames, NEW content \in Contents,
             NEW meta \in SUBSET MetaKeys, NEW ocr \in BOOLEAN,
             ApiSave(h, t, ref, client_name, type, file, content, meta, ocr)
      PROVE  UNCHANGED <<links, now, docs, patches, accepted>>
  BY <1>1, <1>3 DEF ApiSave
<1>4. CASE \E l \in LinkIds : OpenLink(h, l)
  BY <1>4 DEF OpenLink
<1>5. CASE OcrSucceeds(h) \/ OcrFails(h) \/ FindExisting(h) \/ Abandon(h)
  BY <1>5 DEF OcrSucceeds, OcrFails, FindExisting, Abandon
<1>6. CASE \E d \in DocIds : CommitInsert(h, d)
  BY <1>6 DEF CommitInsert
<1>7. CASE CommitUpdate(h)
  BY <1>7 DEF CommitUpdate
<1> QED
  BY <1>2, <1>3, <1>4, <1>5, <1>6, <1>7 DEF UploadStep

LEMMA PatchInvStep ==
    ASSUME TypeInv, PatchInv, [Next]_vars
    PROVE  PatchInv'
<1>1. CASE UNCHANGED patches
  BY <1>1 DEF PatchInv
<1>2. ASSUME NEW p \in Patchers, PatchStep(p) PROVE PatchInv'
  <2>1. CASE CommitPatch(p) \/ AbandonPatch(p)
    BY <2>1 DEF CommitPatch, AbandonPatch, PatchInv, TypeInv, TypeOK
  <2> QED
    BY <1>2, <2>1, LoadPatchAssigns DEF PatchStep
<1>3. ASSUME NEW h \in Handlers, UploadStep(h) PROVE UNCHANGED patches
  BY <1>3, UploadFrame
<1>4. ASSUME ~ \E h \in Handlers : UploadStep(h),
             ~ \E p \in Patchers : PatchStep(p)
      PROVE  UNCHANGED patches
  BY <1>4 DEF Next, vars, MintLinks, DeleteDocument, Tick
<1> QED
  BY <1>1, <1>2, <1>3, <1>4

Inv == TypeInv /\ PatchInv

LEMMA Invariance == Spec => []Inv
<1>1. Init => Inv
  BY TypeInvInit DEF Init, Inv, PatchInv
<1>2. Inv /\ [Next]_vars => Inv'
  BY TypeInvStep, PatchInvStep DEF Inv
<1> QED
  BY <1>1, <1>2, PTL DEF Spec

\* The five ways a step treats a row.
LEMMA RowStep ==
    ASSUME Inv, [Next]_vars, NEW d \in DocIds
    PROVE  \/ docs'[d] = docs[d]
           \/ docs[d] = Nil /\ \E h \in Handlers : CommitInsert(h, d)
           \/ Exists(d) /\ \E h \in Handlers : CommitUpdate(h) /\ uploads[h].id = d
           \/ Exists(d) /\ \E p \in Patchers : CommitPatch(p) /\ patches[p].id = d
           \/ Exists(d) /\ docs'[d] = Gone /\ DeleteDocument(d)
<1>1. docs \in [DocIds -> Rows \cup {Nil, Gone}]
  BY DEF Inv, TypeInv, TypeOK
<1>2. ASSUME NEW h \in Handlers, UploadStep(h)
      PROVE  \/ docs'[d] = docs[d]
             \/ docs[d] = Nil /\ CommitInsert(h, d)
             \/ Exists(d) /\ CommitUpdate(h) /\ uploads[h].id = d
  <2>1. CASE UNCHANGED docs
    BY <2>1
  <2>2. ASSUME NEW e \in DocIds, CommitInsert(h, e)
        PROVE  docs'[d] = docs[d] \/ (docs[d] = Nil /\ CommitInsert(h, d))
    BY <1>1, <2>2 DEF CommitInsert
  <2>3. CASE CommitUpdate(h)
    BY <1>1, <2>3 DEF CommitUpdate
  <2> QED
    BY <1>2, <2>1, <2>2, <2>3, UploadFrame
<1>3. ASSUME NEW p \in Patchers, PatchStep(p)
      PROVE  \/ docs'[d] = docs[d]
             \/ Exists(d) /\ CommitPatch(p) /\ patches[p].id = d
  <2>1. CASE CommitPatch(p)
    BY <1>1, <2>1 DEF CommitPatch
  <2> QED
    BY <1>3, <2>1 DEF PatchStep, LoadPatch, AbandonPatch
<1>4. ASSUME NEW e \in DocIds, DeleteDocument(e)
      PROVE  docs'[d] = docs[d] \/ (Exists(d) /\ docs'[d] = Gone /\ DeleteDocument(d))
  BY <1>1, <1>4 DEF DeleteDocument
<1>5. ASSUME ~ \E h \in Handlers : UploadStep(h),
             ~ \E p \in Patchers : PatchStep(p),
             ~ \E e \in DocIds : DeleteDocument(e)
      PROVE  docs'[d] = docs[d]
  BY <1>5 DEF Next, vars, MintLinks, Tick
<1> QED
  BY <1>2, <1>3, <1>4, <1>5

\* The columns an upload leaves on the row it found.
LEMMA UpdateKeeps ==
    ASSUME Inv, NEW h \in Handlers, CommitUpdate(h)
    PROVE  LET d == uploads[h].id IN
             /\ docs'[d].tenant_id = docs[d].tenant_id
             /\ docs'[d].owner_ref = docs[d].owner_ref
             /\ docs'[d].file_name = docs[d].file_name
             /\ docs'[d].document_type = docs[d].document_type
             /\ docs'[d].original_document_type = docs[d].original_document_type
             /\ uploads[h].link # Nil => docs'[d].metadata = docs[d].metadata
<1> DEFINE u == uploads[h]
           current == docs[u.id]
           new == AssignUpload(u)
<1>1. u \in Uploads /\ WellFormed(u, links) /\ u.id # Nil
  BY DEF Inv, TypeInv, TypeOK, CommitUpdate
<1>2. u.row \in Rows /\ u.seen \in Rows /\ u.id \in DocIds
  BY <1>1 DEF WellFormed, Uploads
<1>3. current \in Rows
  BY <1>2 DEF CommitUpdate, Exists, Inv, TypeInv, TypeOK
<1>4. docs'[u.id] = OrmUpdate(current, u.seen, new)
  BY <1>2 DEF CommitUpdate, Inv, TypeInv, TypeOK
<1>5. /\ new.tenant_id = u.seen.tenant_id
      /\ new.owner_ref = u.seen.owner_ref
      /\ new.file_name = u.seen.file_name
      /\ new.document_type = u.seen.document_type
      /\ new.original_document_type = u.seen.original_document_type
      /\ u.link # Nil => new.metadata = u.seen.metadata
  BY <1>2 DEF AssignUpload, Rows
<1>6. new \in Rows
  BY <1>2, AssignUploadType
<1> HIDE DEF new, current, u
<1>7. /\ docs'[u.id].tenant_id = current.tenant_id
      /\ docs'[u.id].owner_ref = current.owner_ref
      /\ docs'[u.id].file_name = current.file_name
      /\ docs'[u.id].document_type = current.document_type
      /\ docs'[u.id].original_document_type = current.original_document_type
      /\ u.link # Nil => docs'[u.id].metadata = current.metadata
  BY <1>2, <1>3, <1>4, <1>5, <1>6 DEF OrmUpdate, Rows
<1> QED
  BY <1>7 DEF current, u

\* A PATCH changes the type and the metadata of its row, nothing else.
LEMMA PatchKeeps ==
    ASSUME Inv, NEW p \in Patchers, CommitPatch(p),
           NEW column \in DOMAIN docs[patches[p].id],
           column \notin {"document_type", "metadata"}
    PROVE  docs'[patches[p].id][column] = docs[patches[p].id][column]
<1> DEFINE w == patches[p]
<1>1. w \in Patches /\ Assigned(w)
  BY DEF CommitPatch, Inv, TypeInv, TypeOK, PatchInv
<1>2. w.id \in DocIds /\ w.seen \in Rows /\ docs[w.id] \in Rows
  BY <1>1 DEF Patches, CommitPatch, Exists, Inv, TypeInv, TypeOK
<1>3. DOMAIN w.seen = DOMAIN docs[w.id]
  BY <1>2 DEF Rows
<1>4. w.new[column] = w.seen[column]
  BY <1>1, <1>3 DEF Assigned
<1>5. docs'[w.id] = OrmUpdate(docs[w.id], w.seen, w.new)
  BY <1>2 DEF CommitPatch, Inv, TypeInv, TypeOK
<1> QED
  BY <1>4, <1>5 DEF OrmUpdate

FrozenColumns == {"tenant_id", "owner_ref", "file_name", "original_document_type"}

LEMMA RowKeepsIdentity ==
    ASSUME Inv, [Next]_vars, NEW d \in DocIds, Exists(d), docs'[d] # Gone
    PROVE  /\ docs'[d].tenant_id = docs[d].tenant_id
           /\ docs'[d].owner_ref = docs[d].owner_ref
           /\ docs'[d].file_name = docs[d].file_name
           /\ docs'[d].original_document_type = docs[d].original_document_type
<1>1. docs[d] \in Rows
  BY DEF Inv, TypeInv, TypeOK, Exists
<1>2. CASE \E h \in Handlers : CommitUpdate(h) /\ uploads[h].id = d
  BY <1>2, UpdateKeeps
<1>3. CASE \E p \in Patchers : CommitPatch(p) /\ patches[p].id = d
  <2>1. PICK p \in Patchers : CommitPatch(p) /\ patches[p].id = d
    BY <1>3
  <2>2. \A column \in FrozenColumns : column \in DOMAIN docs[d]
    BY <1>1 DEF Rows, FrozenColumns
  <2>3. \A column \in FrozenColumns : docs'[d][column] = docs[d][column]
    BY <2>1, <2>2, PatchKeeps DEF FrozenColumns
  <2> QED
    BY <2>3 DEF FrozenColumns
<1> QED
  BY <1>2, <1>3, RowStep DEF Exists

\* The identity of a row, the type it was first uploaded under included, is
\* frozen, whatever stale snapshots uploads and PATCHes write from.
THEOREM IdentityIsFrozen == Spec => IdentityFrozen
<1>1. ASSUME Inv, [Next]_vars, NEW d \in DocIds
      PROVE  docs[d] = Gone => docs'[d] = Gone
  BY <1>1, RowStep, Markers DEF Exists
<1>2. Inv /\ [Next]_vars =>
        [\A d \in DocIds :
         /\ docs[d] = Gone => docs'[d] = Gone
         /\ Exists(d) /\ docs'[d] # Gone =>
              /\ docs'[d].tenant_id = docs[d].tenant_id
              /\ docs'[d].owner_ref = docs[d].owner_ref
              /\ docs'[d].file_name = docs[d].file_name
              /\ docs'[d].original_document_type
                   = docs[d].original_document_type]_vars
  BY <1>1, RowKeepsIdentity
<1> QED
  BY <1>2, Invariance, PTL DEF Spec, IdentityFrozen

FileColumns == {"mime_type", "file_size", "s3_url", "s3_url_ocr_json",
                "ocr_status", "ocr_text"}

\* An upload step belongs to one handler and no other step ends an upload.
LEMMA UploadLocal ==
    ASSUME Inv, NEW h \in Handlers, UploadStep(h), NEW g \in Handlers, g # h
    PROVE  uploads'[g] = uploads[g]
<1>1. ASSUME NEW link, NEW row, NEW content, NEW pc,
             SaveFile(h, link, row, content, pc) \/ TearFile(h, row, content)
      PROVE  uploads'[g] = uploads[g]
  BY <1>1 DEF SaveFile, TearFile, Inv, TypeInv, TypeOK
<1>2. CASE \E file \in FileNames, content \in Contents : PortalSave(h, file, content)
  BY <1>1, <1>2 DEF PortalSave
<1>3. ASSUME NEW t \in Tenants, NEW ref \in References,
             NEW client_name \in Names \cup {Nil}, NEW type \in ApiTypes,
             NEW file \in FileNames, NEW content \in Contents,
             NEW meta \in SUBSET MetaKeys, NEW ocr \in BOOLEAN,
             ApiSave(h, t, ref, client_name, type, file, content, meta, ocr)
      PROVE  uploads'[g] = uploads[g]
  BY <1>1, <1>3 DEF ApiSave
<1>4. CASE \E l \in LinkIds : OpenLink(h, l)
  BY <1>4 DEF OpenLink, Inv, TypeInv, TypeOK
<1>5. CASE OcrSucceeds(h) \/ OcrFails(h)
  BY <1>5 DEF OcrSucceeds, OcrFails, Inv, TypeInv, TypeOK
<1>6. CASE FindExisting(h) \/ Abandon(h)
  BY <1>6 DEF FindExisting, Abandon, Inv, TypeInv, TypeOK
<1>7. CASE CommitUpdate(h) \/ \E d \in DocIds : CommitInsert(h, d)
  BY <1>7 DEF CommitUpdate, CommitInsert, Inv, TypeInv, TypeOK
<1> QED
  BY <1>2, <1>3, <1>4, <1>5, <1>6, <1>7 DEF UploadStep

\* Outside upload steps the uploads in flight stand still, and so does the disk.
LEMMA OtherSteps ==
    ASSUME [Next]_vars, ~ \E h \in Handlers : UploadStep(h)
    PROVE  UNCHANGED <<uploads, disk>>
<1>1. ASSUME NEW p \in Patchers, PatchStep(p) PROVE UNCHANGED <<uploads, disk>>
  BY <1>1 DEF PatchStep, LoadPatch, CommitPatch, AbandonPatch
<1> QED
  BY <1>1 DEF Next, vars, MintLinks, DeleteDocument, Tick

LEMMA PatchEndKeepsFile ==
    ASSUME Inv, [Next]_vars, NEW p \in Patchers, PatchEnds(p),
           NEW d \in DocIds, Exists(d), docs'[d] # Gone,
           NEW column \in FileColumns
    PROVE  docs'[d][column] = docs[d][column]
<1>1. ~ \E h \in Handlers : UploadStep(h)
  BY UploadFrame DEF PatchEnds
<1>2. ASSUME NEW h \in Handlers, CommitUpdate(h) \/ CommitInsert(h, d) PROVE FALSE
  BY <1>1, <1>2 DEF UploadStep
<1>3. CASE \E q \in Patchers : CommitPatch(q) /\ patches[q].id = d
  <2>1. docs[d] \in Rows
    BY DEF Inv, TypeInv, TypeOK, Exists
  <2>2. column \in DOMAIN docs[d] /\ column \notin {"document_type", "metadata"}
    BY <2>1 DEF Rows, FileColumns
  <2> QED
    BY <1>3, <2>2, PatchKeeps
<1> QED
  BY <1>2, <1>3, RowStep DEF Exists

LEMMA UploadEndKeepsType ==
    ASSUME Inv, [Next]_vars, NEW h \in Handlers, UploadEnds(h),
           NEW d \in DocIds, Exists(d), docs'[d] # Gone
    PROVE  /\ docs'[d].document_type = docs[d].document_type
           /\ uploads[h].link # Nil => docs'[d].metadata = docs[d].metadata
<1>1. PICK g \in Handlers : UploadStep(g)
  BY OtherSteps DEF UploadEnds
<1>2. g = h
  BY <1>1, UploadLocal DEF UploadEnds
<1>3. UNCHANGED patches
  BY <1>1, UploadFrame
<1>4. ASSUME NEW p \in Patchers, CommitPatch(p) PROVE FALSE
  BY <1>3, <1>4, NoRecordIsNil DEF CommitPatch, Inv, TypeInv, TypeOK
<1>5. ASSUME NEW k \in Handlers, CommitUpdate(k) PROVE k = h
  BY <1>5, UploadLocal DEF UploadEnds, UploadStep
<1> QED
  BY <1>4, <1>5, UpdateKeeps, RowStep DEF Exists

\* Two writers that loaded a row before either committed change different
\* columns of it: neither undoes the other.
THEOREM WritersDoKeepApart == Spec => WritersKeepApart
<1>1. Inv /\ [Next]_vars =>
        [\A d \in DocIds : Exists(d) /\ docs'[d] # Gone =>
         /\ (\E p \in Patchers : PatchEnds(p)) =>
              \A column \in {"mime_type", "file_size", "s3_url",
                             "s3_url_ocr_json", "ocr_status", "ocr_text"} :
                 docs'[d][column] = docs[d][column]
         /\ \A h \in Handlers : UploadEnds(h) =>
              /\ docs'[d].document_type = docs[d].document_type
              /\ uploads[h].link # Nil =>
                   docs'[d].metadata = docs[d].metadata]_vars
  BY PatchEndKeepsFile, UploadEndKeepsType DEF FileColumns
<1> QED
  BY <1>1, Invariance, PTL DEF Spec, WritersKeepApart

-----------------------------------------------------------------------------
(* Files and cases.  RowLocatesFile and LinkRefersToCase speak of committed *)
(* rows; they are inductive only with what every upload in flight carries   *)
(* from its SELECT to its commit.  The text of a key starts with the slug   *)
(* of its case, wherever its path leads.                                    *)

Located(row, store) ==
    /\ store[PathFor(row.s3_url)] # Nil
    /\ row.s3_url[1] = Slugify[row.owner_ref]
    /\ row.s3_url[4] = row.file_name
    /\ row.s3_url_ocr_json # Nil => store[PathFor(row.s3_url_ocr_json)] # Nil

RowsLocated == \A d \in DocIds : Exists(d) => Located(docs[d], disk)

OfCase(row, link) ==
    /\ row.tenant_id = link.tenant_id
    /\ row.owner_ref = link.reference

SameCase(row, other) ==
    /\ row.tenant_id = other.tenant_id
    /\ row.owner_ref = other.owner_ref
    /\ row.file_name = other.file_name

Sound(u, table, rows, store) ==
    /\ u.pc # "save" =>
         /\ Located(u.row, store)
         /\ u.link # Nil => OfCase(u.row, table[u.link])
    /\ u.id # Nil =>
         /\ rows[u.id] # Nil
         /\ rows[u.id] # Gone => SameCase(u.row, rows[u.id])

SoundUploads ==
    \A h \in Handlers : uploads[h] # Nil => Sound(uploads[h], links, docs, disk)

LEMMA BodyTypes ==
    ASSUME NEW content \in Contents
    PROVE  /\ FileBody(content) \in Bodies
           /\ OcrBody(content) \in Bodies
           /\ TornBody(content) \in Bodies
BY DEF FileBody, OcrBody, TornBody, Bodies

\* Uploads write bodies and nothing removes a file.
LEMMA DiskGrows ==
    ASSUME Inv, [Next]_vars, NEW k \in Paths, disk[k] # Nil
    PROVE  disk'[k] # Nil
<1>1. CASE UNCHANGED disk
  BY <1>1
<1>2. ASSUME NEW key, NEW body \in Bodies, disk' = [disk EXCEPT ![key] = body]
      PROVE  disk'[k] # Nil
  BY <1>2, Markers DEF Inv, TypeInv, TypeOK
<1>3. ASSUME NEW h \in Handlers, UploadStep(h)
      PROVE  \/ UNCHANGED disk
             \/ \E key, body : body \in Bodies /\ disk' = [disk EXCEPT ![key] = body]
  <2>1. ASSUME NEW link, NEW row, NEW content \in Contents, NEW pc,
               SaveFile(h, link, row, content, pc) \/ TearFile(h, row, content)
        PROVE  \E key, body : body \in Bodies /\ disk' = [disk EXCEPT ![key] = body]
    BY <2>1, BodyTypes DEF SaveFile, TearFile
  <2>2. CASE \E file \in FileNames, content \in Contents : PortalSave(h, file, content)
    BY <2>1, <2>2 DEF PortalSave
  <2>3. ASSUME NEW t \in Tenants, NEW ref \in References,
               NEW client_name \in Names \cup {Nil}, NEW type \in ApiTypes,
               NEW file \in FileNames, NEW content \in Contents,
               NEW meta \in SUBSET MetaKeys, NEW ocr \in BOOLEAN,
               ApiSave(h, t, ref, client_name, type, file, content, meta, ocr)
        PROVE  \E key, body : body \in Bodies /\ disk' = [disk EXCEPT ![key] = body]
    BY <2>1, <2>3 DEF ApiSave
  <2>4. CASE OcrSucceeds(h) \/ OcrFails(h)
    <3>1. uploads[h].body \in Contents
      BY <2>4 DEF OcrSucceeds, OcrFails, Inv, TypeInv, TypeOK, WellFormed
    <3> QED
      BY <2>4, <3>1, BodyTypes DEF OcrSucceeds, OcrFails
  <2>5. CASE UNCHANGED disk
    BY <2>5
  <2> QED
    BY <1>3, <2>2, <2>3, <2>4, <2>5
    DEF UploadStep, OpenLink, FindExisting, CommitInsert, CommitUpdate, Abandon
<1> QED
  BY <1>1, <1>2, <1>3, OtherSteps

\* The ways a step treats a link.
LEMMA LinkStep ==
    ASSUME Inv, [Next]_vars, NEW l \in LinkIds, links[l] # Nil
    PROVE  \/ links'[l] = links[l]
           \/ \E h \in Handlers, d \in DocIds :
                /\ uploads[h] # Nil /\ uploads[h].link = l
                /\ CommitInsert(h, d) \/ (CommitUpdate(h) /\ uploads[h].id = d)
                /\ links'[l] = [links[l] EXCEPT !.status = "submitted",
                                                !.document_id = d]
           \/ /\ DeleteDocument(links[l].document_id)
              /\ links'[l] = [links[l] EXCEPT !.document_id = Nil]
<1>1. links \in [LinkIds -> Links \cup {Nil}]
  BY DEF Inv, TypeInv, TypeOK
<1>2. ASSUME NEW k \in LinkIds \cup {Nil}, NEW d \in DocIds, SpendLink(k, d)
      PROVE  \/ links'[l] = links[l]
             \/ k = l /\ links'[l] = [links[l] EXCEPT !.status = "submitted",
                                                      !.document_id = d]
  BY <1>1, <1>2 DEF SpendLink
<1>3. ASSUME NEW h \in Handlers, NEW d \in DocIds,
             CommitInsert(h, d) \/ (CommitUpdate(h) /\ uploads[h].id = d)
      PROVE  /\ uploads[h] # Nil /\ uploads[h].link \in LinkIds \cup {Nil}
             /\ SpendLink(uploads[h].link, d)
  BY <1>3 DEF CommitInsert, CommitUpdate, Inv, TypeInv, TypeOK, Uploads
<1>4. ASSUME NEW h \in Handlers, CommitUpdate(h)
      PROVE  uploads[h].id \in DocIds
  BY <1>4 DEF CommitUpdate, Inv, TypeInv, TypeOK, Uploads
<1>5. CASE \E h \in Handlers : UploadStep(h)
  <2>1. PICK h \in Handlers : UploadStep(h)
    BY <1>5
  <2>2. CASE UNCHANGED links
    BY <2>2
  <2>3. ASSUME NEW d \in DocIds,
               CommitInsert(h, d) \/ (CommitUpdate(h) /\ uploads[h].id = d)
        PROVE  \/ links'[l] = links[l]
               \/ /\ uploads[h] # Nil /\ uploads[h].link = l
                  /\ links'[l] = [links[l] EXCEPT !.status = "submitted",
                                                  !.document_id = d]
    BY <2>3, <1>2, <1>3
  <2> QED
    BY <2>1, <2>2, <2>3, <1>4, UploadFrame
<1>6. CASE \E p \in Patchers : PatchStep(p)
  BY <1>6 DEF PatchStep, LoadPatch, CommitPatch, AbandonPatch
<1>7. ASSUME NEW b \in Batches, NEW t \in Tenants, NEW ref \in References,
             NEW name \in Names, MintLinks(b, t, ref, name)
      PROVE  links'[l] = links[l]
  <2>1. l[1] # b
    BY <1>7 DEF MintLinks, LinkIds
  <2> QED
    BY <1>7, <2>1 DEF MintLinks
<1>8. ASSUME NEW d \in DocIds, DeleteDocument(d)
      PROVE  \/ links'[l] = links[l]
             \/ /\ links[l].document_id = d
                /\ links'[l] = [links[l] EXCEPT !.document_id = Nil]
  BY <1>8 DEF DeleteDocument
<1>9. CASE Tick \/ UNCHANGED vars
  BY <1>9 DEF Tick, vars
<1> QED
  BY <1>5, <1>6, <1>7, <1>8, <1>9 DEF Next

\* A link keeps what it was minted with.
LEMMA LinkKept ==
    ASSUME Inv, [Next]_vars, NEW l \in LinkIds, links[l] # Nil
    PROVE  /\ links'[l] # Nil
           /\ links'[l].tenant_id = links[l].tenant_id
           /\ links'[l].reference = links[l].reference
           /\ links'[l].expires_at = links[l].expires_at
<1>1. links[l] \in Links
  BY DEF Inv, TypeInv, TypeOK
<1>2. ASSUME NEW d \in DocIds \cup {Nil}, NEW link,
             \/ link = [links[l] EXCEPT !.status = "submitted", !.document_id = d]
             \/ link = [links[l] EXCEPT !.document_id = Nil]
      PROVE  /\ link \in Links
             /\ link.tenant_id = links[l].tenant_id
             /\ link.reference = links[l].reference
             /\ link.expires_at = links[l].expires_at
  BY <1>1, <1>2 DEF Links
<1>3. links'[l] = links[l] \/ \E d \in DocIds \cup {Nil} :
             \/ links'[l] = [links[l] EXCEPT !.status = "submitted", !.document_id = d]
             \/ links'[l] = [links[l] EXCEPT !.document_id = Nil]
  BY LinkStep
<1> QED
  BY <1>1, <1>2, <1>3, NoRecordIsNil

\* An update of an existing row leaves a row.
LEMMA UpdateKeepsRow ==
    ASSUME Inv, NEW h \in Handlers, CommitUpdate(h)
    PROVE  docs'[uploads[h].id] \in Rows /\ docs'[uploads[h].id] \notin {Nil, Gone}
<1> DEFINE u == uploads[h]
<1>1. u \in Uploads /\ WellFormed(u, links) /\ u.id # Nil
  BY DEF CommitUpdate, Inv, TypeInv, TypeOK
<1>2. u.id \in DocIds /\ u.seen \in Rows /\ u.row \in Rows
  BY <1>1 DEF WellFormed, Uploads
<1>3. docs[u.id] \in Rows
  BY <1>2 DEF CommitUpdate, Exists, Inv, TypeInv, TypeOK
<1>4. docs'[u.id] = OrmUpdate(docs[u.id], u.seen, AssignUpload(u))
  BY <1>2 DEF CommitUpdate, Inv, TypeInv, TypeOK
<1> QED
  BY <1>2, <1>3, <1>4, AssignUploadType, OrmUpdateType, Markers

LEMMA PatchKeepsRow ==
    ASSUME Inv, NEW p \in Patchers, CommitPatch(p)
    PROVE  docs'[patches[p].id] \in Rows /\ docs'[patches[p].id] \notin {Nil, Gone}
<1> DEFINE w == patches[p]
<1>1. w \in Patches
  BY DEF CommitPatch, Inv, TypeInv, TypeOK
<1>2. w.id \in DocIds /\ w.seen \in Rows /\ w.new \in Rows
  BY <1>1 DEF Patches
<1>3. docs[w.id] \in Rows
  BY <1>2 DEF CommitPatch, Exists, Inv, TypeInv, TypeOK
<1>4. docs'[w.id] = OrmUpdate(docs[w.id], w.seen, w.new)
  BY <1>2 DEF CommitPatch, Inv, TypeInv, TypeOK
<1> QED
  BY <1>3, <1>2, <1>4, OrmUpdateType, Markers

\* An id once drawn is never undrawn, and a row goes only by a DELETE.
LEMMA RowStaysBorn ==
    ASSUME Inv, [Next]_vars, NEW d \in DocIds, docs[d] # Nil
    PROVE  docs'[d] # Nil
BY RowStep, UpdateKeepsRow, PatchKeepsRow, Markers

LEMMA GoneOnlyByDelete ==
    ASSUME Inv, [Next]_vars, NEW d \in DocIds, Exists(d), docs'[d] = Gone
    PROVE  DeleteDocument(d)
BY RowStep, UpdateKeepsRow, PatchKeepsRow, Markers DEF Exists

\* What a sound upload carries stays true while other requests run.
LEMMA SoundStays ==
    ASSUME Inv, [Next]_vars, NEW h \in Handlers, uploads[h] # Nil,
           Sound(uploads[h], links, docs, disk)
    PROVE  Sound(uploads[h], links', docs', disk')
<1> DEFINE u == uploads[h]
<1>1. u \in Uploads /\ WellFormed(u, links)
  BY DEF Inv, TypeInv, TypeOK
<1>2. ASSUME u.pc # "save"
      PROVE  Located(u.row, disk') /\ (u.link # Nil => OfCase(u.row, links'[u.link]))
  <2>1. u.row \in Rows /\ Located(u.row, disk)
    BY <1>1, <1>2 DEF WellFormed, Sound
  <2>2. /\ PathFor(u.row.s3_url) \in Paths
        /\ u.row.s3_url_ocr_json # Nil => PathFor(u.row.s3_url_ocr_json) \in Paths
    BY <2>1, PathType DEF Rows
  <2>3. Located(u.row, disk')
    BY <2>1, <2>2, DiskGrows DEF Located
  <2>4. ASSUME u.link # Nil PROVE OfCase(u.row, links'[u.link])
    <3>1. u.link \in LinkIds /\ links[u.link] # Nil
      BY <1>1, <2>4 DEF WellFormed, Uploads
    <3>2. OfCase(u.row, links[u.link])
      BY <1>2, <2>4 DEF Sound
    <3> QED
      BY <3>1, <3>2, LinkKept DEF OfCase
  <2> QED
    BY <2>3, <2>4
<1>3. ASSUME u.id # Nil
      PROVE  docs'[u.id] # Nil /\ (docs'[u.id] # Gone => SameCase(u.row, docs'[u.id]))
  <2>1. u.id \in DocIds /\ docs[u.id] # Nil
    BY <1>1, <1>3 DEF Uploads, Sound
  <2>2. docs' \in [DocIds -> Rows \cup {Nil, Gone}]
    BY TypeInvStep DEF Inv, TypeInv, TypeOK
  <2>3. docs'[u.id] # Nil
    BY <2>1, RowStaysBorn
  <2>4. ASSUME docs'[u.id] # Gone PROVE SameCase(u.row, docs'[u.id])
    <3>1. docs[u.id] # Gone
      BY <2>1, <2>4, RowStep DEF Exists
    <3>2. SameCase(u.row, docs[u.id])
      BY <1>3, <3>1 DEF Sound
    <3> QED
      BY <2>1, <2>4, <3>1, <3>2, RowKeepsIdentity DEF SameCase, Exists
  <2> QED
    BY <2>3, <2>4
<1> QED
  BY <1>2, <1>3 DEF Sound

\* An upload that has just written its file is sound.
LEMMA ArrivalSound ==
    ASSUME Inv, NEW h \in Handlers, NEW link \in LinkIds \cup {Nil},
           NEW row \in Rows, NEW content \in Contents, NEW pc \in {"ocr", "find"},
           row.s3_url[1] = Slugify[row.owner_ref],
           row.s3_url[4] = row.file_name,
           row.s3_url_ocr_json = Nil,
           link # Nil => OfCase(row, links[link]),
           SaveFile(h, link, row, content, pc)
    PROVE  Sound(uploads'[h], links', docs', disk')
<1>1. PathFor(row.s3_url) \in Paths
  BY PathType DEF Rows
<1>2. disk'[PathFor(row.s3_url)] # Nil
  BY <1>1, BodyTypes, Markers DEF SaveFile, Inv, TypeInv, TypeOK
<1>3. Located(row, disk')
  BY <1>2 DEF Located
<1>4. uploads'[h] = [pc |-> pc, link |-> link, body |-> content,
                     row |-> row, id |-> Nil, seen |-> Nil]
  BY DEF SaveFile, Inv, TypeInv, TypeOK
<1>5. links' = links
  BY DEF SaveFile
<1> QED
  BY <1>3, <1>4, <1>5 DEF Sound

LEMMA PlannedRowLocates ==
    ASSUME NEW t \in Tenants, NEW ref \in References, NEW name \in Names,
           NEW type \in DocTypes, NEW file \in FileNames,
           NEW content \in Contents, NEW meta \in SUBSET MetaKeys
    PROVE  LET row == PlannedRow(t, ref, name, type, file, content, meta) IN
             /\ row.s3_url[1] = Slugify[row.owner_ref]
             /\ row.s3_url[4] = row.file_name
             /\ row.s3_url_ocr_json = Nil
             /\ row.tenant_id = t /\ row.owner_ref = ref
BY KeyTypes DEF PlannedRow

LEMMA PortalSaveSound ==
    ASSUME Inv, NEW h \in Handlers, NEW file \in FileNames,
           NEW content \in Contents, PortalSave(h, file, content),
           uploads'[h] # Nil
    PROVE  Sound(uploads'[h], links', docs', disk')
<1> DEFINE l == uploads[h].link
           row == PortalRow(l, file, content)
<1>1. l \in LinkIds /\ links[l] # Nil /\ links[l] \in Links
  BY NoRecordIsNil DEF Inv, TypeInv, TypeOK, PortalSave, WellFormed, Uploads
<1>2. SaveFile(h, l, row, content, "find")
  BY DEF PortalSave, TearFile, Inv, TypeInv, TypeOK
<1>3. /\ row.s3_url[1] = Slugify[row.owner_ref]
      /\ row.s3_url[4] = row.file_name
      /\ row.s3_url_ocr_json = Nil
      /\ OfCase(row, links[l])
  BY <1>1, PlannedRowLocates, PortalConstants DEF PortalRow, Links, OfCase
<1>4. Confined(row.s3_url)
  BY <1>2 DEF SaveFile
<1>5. row \in Rows
  BY <1>1, <1>4, PlannedRowType, PortalConstants DEF PortalRow, Links
<1> HIDE DEF l, row
<1> QED
  BY <1>1, <1>2, <1>3, <1>5, ArrivalSound

LEMMA ApiSaveSound ==
    ASSUME Inv, NEW h \in Handlers, NEW t \in Tenants, NEW ref \in References,
           NEW client_name \in Names \cup {Nil}, NEW type \in ApiTypes,
           NEW file \in FileNames, NEW content \in Contents,
           NEW meta \in SUBSET MetaKeys, NEW ocr \in BOOLEAN,
           ApiSave(h, t, ref, client_name, type, file, content, meta, ocr),
           uploads'[h] # Nil
    PROVE  Sound(uploads'[h], links', docs', disk')
<1>1. FolderNames(t, ref, client_name) \subseteq Names
  BY DEF FolderNames, RecordedNames, Inv, TypeInv, TypeOK, Links
<1>2. PICK name \in Names :
        LET row == PlannedRow(t, ref, name, type, file, content, meta) IN
          \/ SaveFile(h, Nil, row, content, IF ocr THEN "ocr" ELSE "find")
          \/ TearFile(h, row, content)
  BY <1>1 DEF ApiSave
<1> DEFINE row == PlannedRow(t, ref, name, type, file, content, meta)
           pc == IF ocr THEN "ocr" ELSE "find"
<1>3. SaveFile(h, Nil, row, content, pc) /\ pc \in {"ocr", "find"}
  BY <1>2 DEF TearFile, Inv, TypeInv, TypeOK
<1>4. Confined(row.s3_url)
  BY <1>3 DEF SaveFile
<1>5. row \in Rows
  BY <1>4, PlannedRowType, PortalConstants
<1>6. /\ row.s3_url[1] = Slugify[row.owner_ref]
      /\ row.s3_url[4] = row.file_name
      /\ row.s3_url_ocr_json = Nil
  BY PlannedRowLocates, PortalConstants
<1> HIDE DEF row, pc
<1> QED
  BY <1>3, <1>5, <1>6, ArrivalSound

\* An upload whose row gained an OCR outcome, and nothing else, is sound.
LEMMA OutcomeSound ==
    ASSUME NEW u \in Uploads, NEW row \in Rows, NEW table, NEW rows, NEW store,
           u.row \in Rows, u.id = Nil, u.pc # "save",
           Sound(u, table, rows, store),
           row.tenant_id = u.row.tenant_id, row.owner_ref = u.row.owner_ref,
           Located(row, store),
           NEW v, v = [u EXCEPT !.pc = "find", !.row = row]
    PROVE  Sound(v, table, rows, store)
BY DEF Sound, Uploads, OfCase

LEMMA OcrSound ==
    ASSUME Inv, [Next]_vars, NEW h \in Handlers,
           uploads[h] # Nil => Sound(uploads[h], links, docs, disk),
           OcrSucceeds(h) \/ OcrFails(h)
    PROVE  Sound(uploads'[h], links', docs', disk')
<1> DEFINE u == uploads[h]
           key == JsonKey(u.row.s3_url)
<1>1. u \in Uploads /\ WellFormed(u, links) /\ u.pc = "ocr" /\ u # Nil
  BY DEF Inv, TypeInv, TypeOK, OcrSucceeds, OcrFails
<1>2. u.row \in Rows /\ u.body \in Contents /\ u.id = Nil
  BY <1>1 DEF WellFormed
<1>3. Sound(u, links', docs', disk')
  BY <1>1, SoundStays
<1>4. Located(u.row, disk')
  BY <1>1, <1>3 DEF Sound
<1>5. key \in Keys
  BY <1>2, JsonKeyType DEF Rows
<1>6. CASE OcrSucceeds(h)
  <2> DEFINE row == [u.row EXCEPT !.s3_url_ocr_json = key,
                                  !.ocr_status = "done", !.ocr_text = u.body]
  <2>1. row \in Rows
    BY <1>2, <1>5 DEF Rows, OcrStatus
  <2>2. disk'[PathFor(key)] # Nil
    BY <1>2, <1>5, <1>6, PathType, BodyTypes, Markers DEF OcrSucceeds, Inv, TypeInv, TypeOK
  <2>3. Located(row, disk') /\ row.tenant_id = u.row.tenant_id
        /\ row.owner_ref = u.row.owner_ref
    BY <1>2, <1>4, <2>2 DEF Located, Rows
  <2>4. uploads'[h] = [u EXCEPT !.pc = "find", !.row = row]
    BY <1>6 DEF OcrSucceeds, Inv, TypeInv, TypeOK
  <2> HIDE DEF row, u
  <2> QED
    BY <1>1, <1>2, <1>3, <2>1, <2>3, <2>4, OutcomeSound
<1>7. CASE OcrFails(h)
  <2>1. PICK row \in {[u.row EXCEPT !.ocr_status = "failed"],
                      [u.row EXCEPT !.ocr_status = "failed",
                                    !.ocr_text = u.body]} :
           uploads' = [uploads EXCEPT ![h].pc = "find", ![h].row = row]
    BY <1>7 DEF OcrFails
  <2>2. row \in Rows
    BY <1>2, <2>1 DEF Rows, OcrStatus
  <2>3. Located(row, disk') /\ row.tenant_id = u.row.tenant_id
        /\ row.owner_ref = u.row.owner_ref
    BY <1>2, <1>4, <2>1 DEF Located, Rows
  <2>4. uploads'[h] = [u EXCEPT !.pc = "find", !.row = row]
    BY <2>1 DEF Inv, TypeInv, TypeOK
  <2> HIDE DEF u
  <2> QED
    BY <1>1, <1>2, <1>3, <2>2, <2>3, <2>4, OutcomeSound
<1> QED
  BY <1>6, <1>7

LEMMA FindExistingSound ==
    ASSUME Inv, [Next]_vars, NEW h \in Handlers,
           uploads[h] # Nil => Sound(uploads[h], links, docs, disk),
           FindExisting(h)
    PROVE  Sound(uploads'[h], links', docs', disk')
<1> DEFINE u == uploads[h]
<1>1. u \in Uploads /\ WellFormed(u, links) /\ u.pc = "find" /\ u # Nil
  BY DEF Inv, TypeInv, TypeOK, FindExisting
<1>2. u.row \in Rows /\ u.id = Nil
  BY <1>1 DEF WellFormed
<1>3. Sound(u, links', docs', disk') /\ docs' = docs
  BY <1>1, SoundStays DEF FindExisting
<1>4. CASE uploads' = [uploads EXCEPT ![h].pc = "commit"]
  <2>1. uploads'[h] = [u EXCEPT !.pc = "commit"]
    BY <1>4 DEF Inv, TypeInv, TypeOK
  <2> QED
    BY <1>1, <1>2, <1>3, <2>1 DEF Sound, Uploads
<1>5. ASSUME NEW d \in Matching(u.row),
             uploads' = [uploads EXCEPT ![h].pc = "commit", ![h].id = d,
                                        ![h].seen = docs[d]]
      PROVE  Sound(uploads'[h], links', docs', disk')
  <2>1. uploads'[h] = [u EXCEPT !.pc = "commit", !.id = d, !.seen = docs[d]]
    BY <1>5 DEF Inv, TypeInv, TypeOK
  <2>2. d \in DocIds /\ Exists(d) /\ DedupKey(docs[d]) = DedupKey(u.row)
    BY DEF Matching
  <2>3. docs'[d] # Nil /\ SameCase(u.row, docs'[d])
    BY <1>3, <2>2 DEF Exists, DedupKey, SameCase
  <2> QED
    BY <1>1, <1>2, <1>3, <2>1, <2>3 DEF Sound, Uploads
<1> QED
  BY <1>4, <1>5 DEF FindExisting

LEMMA SoundUploadsStep ==
    ASSUME Inv, SoundUploads, [Next]_vars
    PROVE  SoundUploads'
<1> SUFFICES ASSUME NEW h \in Handlers, uploads'[h] # Nil
             PROVE  Sound(uploads'[h], links', docs', disk')
  BY DEF SoundUploads
<1>1. uploads[h] # Nil => Sound(uploads[h], links, docs, disk)
  BY DEF SoundUploads
<1>2. CASE uploads'[h] = uploads[h]
  BY <1>1, <1>2, SoundStays
<1>3. CASE UploadStep(h)
  <2>1. ASSUME NEW l \in LinkIds, OpenLink(h, l)
        PROVE  Sound(uploads'[h], links', docs', disk')
    <3>1. uploads'[h] = [pc |-> "save", link |-> l, body |-> Nil, row |-> Nil,
                         id |-> Nil, seen |-> Nil]
      BY <2>1 DEF OpenLink, Inv, TypeInv, TypeOK
    <3> QED
      BY <3>1 DEF Sound
  <2>2. ASSUME \/ \E d \in DocIds : CommitInsert(h, d)
               \/ CommitUpdate(h) \/ Abandon(h)
        PROVE  uploads'[h] = Nil
    BY <2>2 DEF CommitInsert, CommitUpdate, Abandon, Inv, TypeInv, TypeOK
  <2> QED
    BY <1>1, <1>3, <2>1, <2>2, PortalSaveSound, ApiSaveSound, OcrSound,
       FindExistingSound DEF UploadStep
<1>4. CASE UNCHANGED uploads
  BY <1>2, <1>4
<1> QED
  BY <1>2, <1>3, <1>4, OtherSteps, UploadLocal

\* A committed row keeps locating its file.
LEMMA RowsLocatedStep ==
    ASSUME Inv, SoundUploads, RowsLocated, [Next]_vars
    PROVE  RowsLocated'
<1> SUFFICES ASSUME NEW d \in DocIds, docs'[d] \notin {Nil, Gone}
             PROVE  Located(docs'[d], disk')
  BY DEF RowsLocated, Exists
<1>1. docs' \in [DocIds -> Rows \cup {Nil, Gone}] /\ docs'[d] \in Rows
  BY TypeInvStep DEF Inv, TypeInv, TypeOK
<1>2. ASSUME NEW row \in Rows, Located(row, disk)
      PROVE  Located(row, disk')
  <2>1. /\ PathFor(row.s3_url) \in Paths
        /\ row.s3_url_ocr_json # Nil => PathFor(row.s3_url_ocr_json) \in Paths
    BY PathType DEF Rows
  <2> QED
    BY <1>2, <2>1, DiskGrows DEF Located
<1>3. CASE Exists(d)
  <2>1. docs[d] \in Rows /\ Located(docs[d], disk)
    BY <1>3 DEF Exists, Inv, TypeInv, TypeOK, RowsLocated
  <2>2. Located(docs[d], disk')
    BY <1>2, <2>1
  <2>3. docs'[d].owner_ref = docs[d].owner_ref /\ docs'[d].file_name = docs[d].file_name
    BY <1>3, RowKeepsIdentity
  <2>4. CASE docs'[d] = docs[d]
    BY <2>2, <2>4
  <2>5. CASE \E h \in Handlers : CommitUpdate(h) /\ uploads[h].id = d
    <3>1. PICK h \in Handlers : CommitUpdate(h) /\ uploads[h].id = d
      BY <2>5
    <3> DEFINE u == uploads[h]
    <3>2. u \in Uploads /\ WellFormed(u, links) /\ u # Nil /\ u.id = d /\ u.id # Nil
      BY <3>1 DEF CommitUpdate, Inv, TypeInv, TypeOK
    <3>3. u.row \in Rows /\ u.seen \in Rows /\ u.pc # "save"
      BY <3>2 DEF WellFormed
    <3>4. Sound(u, links, docs, disk)
      BY <3>2 DEF SoundUploads
    <3>5. Located(u.row, disk') /\ SameCase(u.row, docs[d])
      BY <1>2, <1>3, <3>2, <3>3, <3>4 DEF Sound, Exists
    <3>6. docs'[d] = OrmUpdate(docs[d], u.seen, AssignUpload(u))
      BY <3>1 DEF CommitUpdate, Inv, TypeInv, TypeOK
    <3>7. /\ AssignUpload(u).s3_url = u.row.s3_url
          /\ AssignUpload(u).s3_url_ocr_json = u.row.s3_url_ocr_json
          /\ AssignUpload(u) \in Rows
      BY <3>3, AssignUploadType DEF AssignUpload, Rows
    <3>8. /\ docs'[d].s3_url \in {docs[d].s3_url, u.row.s3_url}
          /\ docs'[d].s3_url_ocr_json \in
               {docs[d].s3_url_ocr_json, u.row.s3_url_ocr_json}
      BY <2>1, <3>3, <3>6, <3>7 DEF OrmUpdate, Rows
    <3> HIDE DEF u
    <3> QED
      BY <2>2, <2>3, <3>5, <3>8 DEF Located, SameCase
  <2>6. CASE \E p \in Patchers : CommitPatch(p) /\ patches[p].id = d
    <3>1. PICK p \in Patchers : CommitPatch(p) /\ patches[p].id = d
      BY <2>6
    <3>2. "s3_url" \in DOMAIN docs[d] /\ "s3_url_ocr_json" \in DOMAIN docs[d]
      BY <2>1 DEF Rows
    <3>3. /\ docs'[d]["s3_url"] = docs[d]["s3_url"]
          /\ docs'[d]["s3_url_ocr_json"] = docs[d]["s3_url_ocr_json"]
      BY <3>1, <3>2, PatchKeeps
    <3> QED
      BY <2>2, <2>3, <3>3 DEF Located
  <2> QED
    BY <1>3, <2>4, <2>5, <2>6, RowStep DEF Exists
<1>4. CASE ~Exists(d)
  <2>1. CASE docs'[d] = docs[d]
    BY <1>4, <2>1 DEF Exists
  <2>2. ASSUME NEW h \in Handlers, CommitInsert(h, d)
        PROVE  Located(docs'[d], disk')
    <3>1. docs'[d] = uploads[h].row /\ uploads[h] # Nil /\ uploads[h].pc # "save"
      BY <2>2 DEF CommitInsert, Inv, TypeInv, TypeOK
    <3>2. Located(uploads[h].row, disk)
      BY <3>1 DEF SoundUploads, Sound
    <3> QED
      BY <1>1, <1>2, <3>1, <3>2
  <2> QED
    BY <1>4, <2>1, <2>2, RowStep
<1> QED
  BY <1>3, <1>4

\* The document a link shows stays the case's own.
LEMMA LinkRefersToCaseStep ==
    ASSUME Inv, SoundUploads, LinkRefersToCase, [Next]_vars
    PROVE  LinkRefersToCase'
<1> SUFFICES ASSUME NEW l \in LinkIds, links'[l] # Nil,
                    links'[l].document_id # Nil
             PROVE  /\ links'[l].status = "submitted"
                    /\ docs'[links'[l].document_id] \notin {Nil, Gone}
                    /\ OfCase(docs'[links'[l].document_id], links'[l])
  BY DEF LinkRefersToCase, Exists, OfCase
<1>1. links' \in [LinkIds -> Links \cup {Nil}] /\ links'[l] \in Links
      /\ docs' \in [DocIds -> Rows \cup {Nil, Gone}]
  BY TypeInvStep DEF Inv, TypeInv, TypeOK
<1>2. CASE links[l] = Nil
  <2>1. ASSUME NEW h \in Handlers, UploadStep(h) PROVE FALSE
    <3>1. ASSUME NEW d \in DocIds,
                 CommitInsert(h, d) \/ (CommitUpdate(h) /\ uploads[h].id = d)
          PROVE  FALSE
      <4>1. uploads[h] # Nil /\ uploads[h] \in Uploads /\ WellFormed(uploads[h], links)
            /\ SpendLink(uploads[h].link, d)
        BY <3>1 DEF CommitInsert, CommitUpdate, Inv, TypeInv, TypeOK
      <4>2. uploads[h].link # l
        BY <1>2, <4>1, NoRecordIsNil DEF WellFormed
      <4>3. links'[l] = links[l]
        BY <4>1, <4>2 DEF SpendLink, Inv, TypeInv, TypeOK, Uploads
      <4> QED
        BY <1>2, <4>3
    <3>2. ASSUME CommitUpdate(h) PROVE uploads[h].id \in DocIds
      BY <3>2 DEF CommitUpdate, Inv, TypeInv, TypeOK, Uploads
    <3> QED
      BY <1>2, <2>1, <3>1, <3>2, UploadFrame
  <2>2. ASSUME NEW p \in Patchers, PatchStep(p) PROVE FALSE
    BY <1>2, <2>2 DEF PatchStep, LoadPatch, CommitPatch, AbandonPatch
  <2>3. ASSUME NEW d \in DocIds, DeleteDocument(d) PROVE FALSE
    BY <1>2, <2>3 DEF DeleteDocument
  <2>4. ASSUME NEW b \in Batches, NEW t \in Tenants, NEW ref \in References,
               NEW name \in Names, MintLinks(b, t, ref, name)
        PROVE  FALSE
    BY <1>2, <2>4 DEF MintLinks
  <2> QED
    BY <1>2, <2>1, <2>2, <2>3, <2>4 DEF Next, Tick, vars
<1>3. CASE links[l] # Nil
  <2>1. links[l] \in Links
    BY <1>3 DEF Inv, TypeInv, TypeOK
  <2>2. links'[l].tenant_id = links[l].tenant_id
        /\ links'[l].reference = links[l].reference
    BY <1>3, LinkKept
  <2>3. CASE links'[l] = links[l]
    <3> DEFINE e == links[l].document_id
    <3>1. e \in DocIds /\ links[l].status = "submitted" /\ Exists(e)
          /\ OfCase(docs[e], links[l])
      BY <1>3, <2>1, <2>3 DEF LinkRefersToCase, Links, OfCase
    <3>2. docs'[e] # Gone
      <4>1. ASSUME docs'[e] = Gone PROVE FALSE
        <5>1. docs[e] \in Rows
          BY <3>1 DEF Exists, Inv, TypeInv, TypeOK
        <5>2. DeleteDocument(e)
          BY <3>1, <4>1, GoneOnlyByDelete
        <5>3. links'[l] = [links[l] EXCEPT !.document_id = Nil]
          BY <1>3, <5>2 DEF DeleteDocument
        <5>4. links'[l].document_id = Nil
          BY <2>1, <5>3 DEF Links
        <5> QED
          BY <5>4
      <4> QED
        BY <4>1
    <3>3. OfCase(docs'[e], links'[l])
      BY <2>2, <3>1, <3>2, RowKeepsIdentity DEF OfCase
    <3>4. docs'[e] # Nil
      BY <3>1, RowStaysBorn DEF Exists
    <3> QED
      BY <2>3, <3>1, <3>2, <3>3, <3>4
  <2>4. ASSUME NEW h \in Handlers, NEW d \in DocIds,
               uploads[h] # Nil, uploads[h].link = l,
               CommitInsert(h, d) \/ (CommitUpdate(h) /\ uploads[h].id = d),
               links'[l] = [links[l] EXCEPT !.status = "submitted",
                                            !.document_id = d]
        PROVE  /\ links'[l].status = "submitted"
               /\ docs'[links'[l].document_id] \notin {Nil, Gone}
               /\ OfCase(docs'[links'[l].document_id], links'[l])
    <3> DEFINE u == uploads[h]
    <3>1. links'[l].status = "submitted" /\ links'[l].document_id = d
      BY <2>1, <2>4 DEF Links
    <3>2. u \in Uploads /\ WellFormed(u, links) /\ Sound(u, links, docs, disk)
          /\ u.pc = "commit" /\ u.link # Nil
      BY <2>4, NoRecordIsNil DEF CommitInsert, CommitUpdate, Inv, TypeInv, TypeOK, SoundUploads
    <3>3. u.row \in Rows /\ OfCase(u.row, links[l])
      BY <2>4, <3>2 DEF WellFormed, Sound
    <3>4. docs'[d] \notin {Nil, Gone} /\ OfCase(docs'[d], links[l])
      <4>1. CASE CommitInsert(h, d)
        <5>1. docs'[d] = u.row
          BY <4>1 DEF CommitInsert, Inv, TypeInv, TypeOK
        <5> QED
          BY <3>3, <5>1, Markers
      <4>2. CASE CommitUpdate(h) /\ uploads[h].id = d
        <5>1. Exists(d) /\ d # Nil
          BY <4>2, Markers DEF CommitUpdate
        <5>2. docs'[d] # Nil /\ docs'[d] # Gone
          BY <4>2, <5>1, UpdateKeepsRow
        <5>3. docs'[d].tenant_id = docs[d].tenant_id
              /\ docs'[d].owner_ref = docs[d].owner_ref
          BY <4>2, UpdateKeeps
        <5>4. SameCase(u.row, docs[d])
          BY <3>2, <4>2, <5>1 DEF Sound, Exists
        <5> QED
          BY <3>3, <5>2, <5>3, <5>4 DEF OfCase, SameCase
      <4> QED
        BY <2>4, <4>1, <4>2
    <3> QED
      BY <2>2, <3>1, <3>4 DEF OfCase
  <2>5. CASE links'[l] = [links[l] EXCEPT !.document_id = Nil]
    BY <2>1, <2>5 DEF Links
  <2> QED
    BY <1>3, <2>3, <2>4, <2>5, LinkStep
<1> QED
  BY <1>2, <1>3

LocationInv == Inv /\ SoundUploads /\ RowsLocated /\ LinkRefersToCase

LEMMA LocationInvariance == Spec => []LocationInv
<1>1. Init => LocationInv
  <2>1. Init => Inv
    BY TypeInvInit DEF Init, Inv, PatchInv
  <2>2. Init => SoundUploads /\ RowsLocated /\ LinkRefersToCase
    BY DEF Init, SoundUploads, RowsLocated, Exists, LinkRefersToCase
  <2> QED
    BY <2>1, <2>2 DEF LocationInv
<1>2. LocationInv /\ [Next]_vars => LocationInv'
  BY TypeInvStep, PatchInvStep, SoundUploadsStep, RowsLocatedStep,
     LinkRefersToCaseStep DEF LocationInv, Inv
<1> QED
  BY <1>1, <1>2, PTL DEF Spec

\* Whatever uploads failed, tore or raced, to one file even, every committed row
\* finds a file of its name, and the sidecar it names, where its key leads.
THEOREM RowsLocateTheirFiles == Spec => []RowLocatesFile
<1>1. LocationInv => RowLocatesFile
  BY DEF LocationInv, RowsLocated, Located, RowLocatesFile, Stored
<1> QED
  BY <1>1, LocationInvariance, PTL

\* A link shows a document only when spent, and one of its own case.
THEOREM LinksReferToTheirCase == Spec => []LinkRefersToCase
<1>1. LocationInv => LinkRefersToCase
  BY DEF LocationInv
<1> QED
  BY <1>1, LocationInvariance, PTL

-----------------------------------------------------------------------------
(* Spending links.                                                         *)

\* Which link an upload is open on.
LEMMA OpenedLink ==
    ASSUME Inv, NEW h \in Handlers, UploadStep(h), uploads'[h] # Nil
    PROVE  \/ \E l \in LinkIds : OpenLink(h, l) /\ uploads'[h].link = l
           \/ uploads[h] # Nil /\ uploads'[h].link = uploads[h].link
           \/ uploads'[h].link = Nil
<1>1. ASSUME NEW link, NEW row, NEW content, NEW pc,
             SaveFile(h, link, row, content, pc) \/ TearFile(h, row, content)
      PROVE  uploads'[h].link = link
  BY <1>1 DEF SaveFile, TearFile, Inv, TypeInv, TypeOK
<1>2. CASE \E file \in FileNames, content \in Contents : PortalSave(h, file, content)
  BY <1>1, <1>2 DEF PortalSave
<1>3. ASSUME NEW t \in Tenants, NEW ref \in References,
             NEW client_name \in Names \cup {Nil}, NEW type \in ApiTypes,
             NEW file \in FileNames, NEW content \in Contents,
             NEW meta \in SUBSET MetaKeys, NEW ocr \in BOOLEAN,
             ApiSave(h, t, ref, client_name, type, file, content, meta, ocr)
      PROVE  uploads'[h].link = Nil
  BY <1>1, <1>3 DEF ApiSave
<1>4. ASSUME NEW l \in LinkIds, OpenLink(h, l) PROVE uploads'[h].link = l
  BY <1>4 DEF OpenLink, Inv, TypeInv, TypeOK
<1>5. CASE OcrSucceeds(h) \/ OcrFails(h)
  BY <1>5 DEF OcrSucceeds, OcrFails, Inv, TypeInv, TypeOK, Uploads
<1>6. CASE FindExisting(h)
  <2>1. uploads[h] \in Uploads /\ uploads \in [Handlers -> Uploads \cup {Nil}]
    BY <1>6 DEF FindExisting, Inv, TypeInv, TypeOK
  <2>2. ASSUME NEW d, NEW row,
               \/ uploads' = [uploads EXCEPT ![h].pc = "commit"]
               \/ uploads' = [uploads EXCEPT ![h].pc = "commit", ![h].id = d,
                                             ![h].seen = row]
        PROVE  uploads'[h].link = uploads[h].link
    BY <2>1, <2>2 DEF Uploads
  <2>3. uploads'[h].link = uploads[h].link
    BY <1>6, <2>2 DEF FindExisting
  <2> QED
    BY <1>6, <2>3 DEF FindExisting
<1>7. CASE Abandon(h) \/ CommitUpdate(h) \/ \E d \in DocIds : CommitInsert(h, d)
  BY <1>7 DEF Abandon, CommitUpdate, CommitInsert, Inv, TypeInv, TypeOK
<1> QED
  BY <1>2, <1>3, <1>4, <1>5, <1>6, <1>7 DEF UploadStep

\* No upload opens a link that is not live.
LEMMA InFlightShrinks ==
    ASSUME Inv, [Next]_vars, NEW l \in LinkIds,
           links[l] # Nil => ~IsLive(links[l])
    PROVE  InFlight(l)' \subseteq InFlight(l)
<1> SUFFICES ASSUME NEW h \in Handlers, uploads'[h] # Nil, uploads'[h].link = l
             PROVE  uploads[h] # Nil /\ uploads[h].link = l
  BY DEF InFlight
<1>1. CASE uploads'[h] = uploads[h]
  BY <1>1
<1>2. CASE UploadStep(h)
  <2>1. l # Nil
    BY NoRecordIsNil
  <2>2. ASSUME NEW k \in LinkIds, OpenLink(h, k), uploads'[h].link = k
        PROVE  FALSE
    BY <2>2 DEF OpenLink
  <2> QED
    BY <1>2, <2>1, <2>2, OpenedLink
<1> QED
  BY <1>1, <1>2, OtherSteps, UploadLocal

LEMMA ClockGrows ==
    ASSUME Inv, [Next]_vars
    PROVE  now' \in Nat /\ now <= now'
<1>1. now \in Nat /\ now' \in Nat
  BY TypeInvStep DEF Inv, TypeInv, TypeOK
<1>2. ASSUME NEW h \in Handlers, UploadStep(h) PROVE now' = now
  BY <1>2, UploadFrame
<1>3. now' = now \/ now' = now + 1
  BY <1>2 DEF Next, vars, MintLinks, PatchStep, LoadPatch, CommitPatch,
              AbandonPatch, DeleteDocument, Tick
<1> QED
  BY <1>1, <1>3

LEMMA LapsedStays ==
    ASSUME Inv, [Next]_vars, NEW l \in LinkIds, Lapsed(l)
    PROVE  Lapsed(l)'
<1>1. links[l] # Nil /\ links[l] \in Links /\ now \in Nat
  BY DEF Lapsed, Inv, TypeInv, TypeOK
<1>2. links'[l] # Nil /\ links'[l].expires_at = links[l].expires_at
  BY <1>1, LinkKept
<1>3. links'[l].status = "pending"
  <2>1. ASSUME NEW h \in Handlers PROVE ~(uploads[h] # Nil /\ uploads[h].link = l)
    BY DEF Lapsed, InFlight
  <2>2. CASE links'[l] = [links[l] EXCEPT !.document_id = Nil]
    BY <1>1, <2>2 DEF Lapsed, Links
  <2> QED
    BY <1>1, <2>1, <2>2, LinkStep DEF Lapsed
<1>4. links'[l].expires_at <= now'
  BY <1>1, <1>2, ClockGrows DEF Lapsed, Links
<1>5. ~IsLive(links[l])
  BY <1>1 DEF Lapsed, IsLive, Links
<1>6. InFlight(l)' = {}
  BY <1>5, InFlightShrinks DEF Lapsed
<1> QED
  BY <1>2, <1>3, <1>4, <1>6 DEF Lapsed

\* A link that ran out unopened is never spent.
THEOREM LapsedLinksStayLapsed == Spec => LapsedForever
<1>1. Inv /\ [Next]_vars => [\A l \in LinkIds : Lapsed(l) => Lapsed(l)']_vars
  BY LapsedStays
<1> QED
  BY <1>1, Invariance, PTL DEF Spec, LapsedForever

\* A step spends a link, or leaves its status and its count alone.
LEMMA Spending ==
    ASSUME Inv, [Next]_vars, NEW l \in LinkIds
    PROVE  \/ /\ accepted'[l] = accepted[l]
              /\ links[l] # Nil => links'[l].status = links[l].status
           \/ \E h \in Handlers :
                /\ UploadStep(h)
                /\ uploads[h] # Nil /\ uploads[h].link = l /\ uploads'[h] = Nil
                /\ links[l] # Nil
                /\ links'[l] # Nil /\ links'[l].status = "submitted"
                /\ accepted'[l] = accepted[l] + 1
<1>1. /\ links \in [LinkIds -> Links \cup {Nil}] /\ accepted \in [LinkIds -> Nat]
      /\ uploads \in [Handlers -> Uploads \cup {Nil}]
  BY DEF Inv, TypeInv, TypeOK
<1>2. ASSUME NEW h \in Handlers, NEW d \in DocIds,
             CommitInsert(h, d) \/ (CommitUpdate(h) /\ uploads[h].id = d)
      PROVE  \/ /\ accepted'[l] = accepted[l]
                /\ links[l] # Nil => links'[l].status = links[l].status
             \/ /\ uploads[h] # Nil /\ uploads[h].link = l /\ uploads'[h] = Nil
                /\ links[l] # Nil
                /\ links'[l] # Nil /\ links'[l].status = "submitted"
                /\ accepted'[l] = accepted[l] + 1
  <2>1. /\ uploads[h] # Nil /\ SpendLink(uploads[h].link, d)
        /\ uploads' = [uploads EXCEPT ![h] = Nil]
    BY <1>2 DEF CommitInsert, CommitUpdate
  <2>2. uploads[h] \in Uploads /\ WellFormed(uploads[h], links)
    BY <2>1 DEF Inv, TypeInv, TypeOK
  <2>3. CASE uploads[h].link = Nil
    BY <2>1, <2>3 DEF SpendLink
  <2>4. ASSUME NEW k \in LinkIds, uploads[h].link = k
        PROVE  /\ links[k] # Nil
               /\ links' = [links EXCEPT ![k].status = "submitted",
                                         ![k].document_id = d]
               /\ accepted' = [accepted EXCEPT ![k] = @ + 1]
    BY <2>1, <2>2, <2>4, NoRecordIsNil DEF SpendLink, WellFormed
  <2>5. CASE uploads[h].link = l
    <3>1. links[l] \in Links
      BY <1>1, <2>4, <2>5
    <3>2. links'[l] = [links[l] EXCEPT !.status = "submitted", !.document_id = d]
      BY <1>1, <2>4, <2>5
    <3>3. links'[l].status = "submitted"
      BY <3>1, <3>2 DEF Links
    <3>4. accepted'[l] = accepted[l] + 1
      BY <1>1, <2>4, <2>5
    <3>5. links'[l] # Nil
      BY <2>4, <2>5, <1>2, LinkKept
    <3> QED
      BY <1>1, <2>1, <2>4, <2>5, <3>3, <3>4, <3>5
  <2>6. ASSUME NEW k \in LinkIds \ {l}, uploads[h].link = k
        PROVE  accepted'[l] = accepted[l] /\ links'[l] = links[l]
    <3>1. accepted' = [accepted EXCEPT ![k] = @ + 1]
      BY <2>4, <2>6
    <3>2. links' = [links EXCEPT ![k].status = "submitted", ![k].document_id = d]
      BY <2>4, <2>6
    <3>3. accepted'[l] = accepted[l]
      BY <1>1, <2>6, <3>1
    <3>4. links'[l] = links[l]
      BY <1>1, <2>6, <3>2
    <3> QED
      BY <3>3, <3>4
  <2> QED
    BY <2>2, <2>3, <2>5, <2>6 DEF Uploads
<1>3. ASSUME NEW h \in Handlers, CommitUpdate(h) PROVE uploads[h].id \in DocIds
  BY <1>1, <1>3 DEF CommitUpdate, Uploads
<1>4. CASE \E h \in Handlers : UploadStep(h)
  BY <1>2, <1>3, <1>4, UploadFrame
<1>5. CASE \E p \in Patchers : PatchStep(p)
  BY <1>5 DEF PatchStep, LoadPatch, CommitPatch, AbandonPatch
<1>6. ASSUME NEW b \in Batches, NEW t \in Tenants, NEW ref \in References,
             NEW name \in Names, MintLinks(b, t, ref, name)
      PROVE  accepted'[l] = accepted[l] /\ (links[l] # Nil => links'[l] = links[l])
  <2>1. links[l] # Nil => l[1] # b
    BY <1>6 DEF MintLinks, LinkIds
  <2> QED
    BY <1>6, <2>1 DEF MintLinks
<1>7. ASSUME NEW d \in DocIds, DeleteDocument(d)
      PROVE  /\ accepted'[l] = accepted[l]
             /\ links[l] # Nil => links'[l].status = links[l].status
  <2>1. ASSUME links[l] # Nil, NEW link, link = [links[l] EXCEPT !.document_id = Nil]
        PROVE  link.status = links[l].status
    BY <1>1, <2>1 DEF Links
  <2> QED
    BY <1>7, <2>1 DEF DeleteDocument
<1>8. CASE Tick \/ UNCHANGED vars
  BY <1>8 DEF Tick, vars
<1> QED
  BY <1>4, <1>5, <1>6, <1>7, <1>8 DEF Next

\* A link that appears is pending.
LEMMA LinkBorn ==
    ASSUME Inv, [Next]_vars, NEW l \in LinkIds, links[l] = Nil, links'[l] # Nil
    PROVE  links'[l].status = "pending"
<1>1. CASE \E h \in Handlers : UploadStep(h)
  <2>1. PICK h \in Handlers : UploadStep(h)
    BY <1>1
  <2>2. ASSUME NEW d \in DocIds, SpendLink(uploads[h].link, d), uploads[h] # Nil
        PROVE  links'[l] = links[l]
    <3>1. WellFormed(uploads[h], links) /\ uploads[h].link # l
      BY <2>2, NoRecordIsNil DEF Inv, TypeInv, TypeOK, WellFormed
    <3> QED
      BY <2>2, <3>1 DEF SpendLink, Inv, TypeInv, TypeOK
  <2>3. ASSUME CommitUpdate(h)
        PROVE  uploads[h].id \in DocIds /\ SpendLink(uploads[h].link, uploads[h].id)
               /\ uploads[h] # Nil
    BY <2>3 DEF CommitUpdate, Inv, TypeInv, TypeOK, Uploads
  <2> QED
    BY <2>1, <2>2, <2>3, UploadFrame DEF CommitInsert
<1>2. CASE \E p \in Patchers : PatchStep(p)
  BY <1>2 DEF PatchStep, LoadPatch, CommitPatch, AbandonPatch
<1>3. ASSUME NEW b \in Batches, NEW t \in Tenants, NEW ref \in References,
             NEW name \in Names, MintLinks(b, t, ref, name)
      PROVE  links'[l].status = "pending"
  BY <1>3 DEF MintLinks
<1>4. CASE \E d \in DocIds : DeleteDocument(d)
  BY <1>4 DEF DeleteDocument
<1>5. CASE Tick \/ UNCHANGED vars
  BY <1>5 DEF Tick, vars
<1> QED
  BY <1>1, <1>2, <1>3, <1>4, <1>5 DEF Next

LEMMA InFlightFinite ==
    ASSUME NEW l \in LinkIds
    PROVE  /\ IsFiniteSet(InFlight(l)) /\ Cardinality(InFlight(l)) \in Nat
           /\ Cardinality(Handlers) \in Nat
           /\ Cardinality(InFlight(l)) <= Cardinality(Handlers)
<1>1. InFlight(l) \subseteq Handlers
  BY DEF InFlight
<1> QED
  BY <1>1, HandlersFinite, FS_Subset, FS_CardinalityType

LEMMA SpendsBoundedStep ==
    ASSUME Inv, SpendsBounded, [Next]_vars
    PROVE  SpendsBounded'
<1> SUFFICES ASSUME NEW l \in LinkIds
             PROVE  /\ (links'[l] = Nil \/ links'[l].status = "pending")
                          => accepted'[l] = 0
                    /\ (links'[l] # Nil /\ links'[l].status = "submitted") =>
                         /\ accepted'[l] > 0
                         /\ accepted'[l] + Cardinality(InFlight(l)')
                              <= Cardinality(Handlers)
  BY DEF SpendsBounded
<1> DEFINE before == Cardinality(InFlight(l))
           after  == Cardinality(InFlight(l)')
           all    == Cardinality(Handlers)
<1>1. /\ IsFiniteSet(InFlight(l)) /\ before \in Nat /\ all \in Nat /\ before <= all
      /\ accepted[l] \in Nat
  BY InFlightFinite DEF Inv, TypeInv, TypeOK
<1>2. /\ (links[l] = Nil \/ links[l].status = "pending") => accepted[l] = 0
      /\ (links[l] # Nil /\ links[l].status = "submitted") =>
            accepted[l] > 0 /\ accepted[l] + before <= all
  BY DEF SpendsBounded
<1>3. links[l] # Nil => links[l] \in Links /\ links[l].status \in {"pending", "submitted"}
  BY DEF Inv, TypeInv, TypeOK, Links
<1>4. CASE accepted'[l] = accepted[l] /\ (links[l] # Nil => links'[l].status = links[l].status)
  <2>1. CASE links[l] = Nil
    BY <1>2, <1>4, <2>1, LinkBorn
  <2>2. CASE links[l] # Nil /\ links[l].status = "pending"
    BY <1>2, <1>4, <2>2, LinkKept
  <2>3. CASE links[l] # Nil /\ links[l].status = "submitted"
    <3>1. ~IsLive(links[l])
      BY <2>3 DEF IsLive
    <3>2. InFlight(l)' \subseteq InFlight(l)
      BY <3>1, InFlightShrinks
    <3>3. after \in Nat /\ after <= before
      BY <1>1, <3>2, FS_Subset, FS_CardinalityType
    <3> HIDE DEF before, after, all
    <3>4. accepted[l] + after <= all
      BY <1>1, <1>2, <2>3, <3>3
    <3> QED
      BY <1>2, <1>4, <2>3, <3>4, LinkKept DEF after, all
  <2> QED
    BY <1>3, <2>1, <2>2, <2>3
<1>5. ASSUME NEW h \in Handlers, UploadStep(h),
             uploads[h] # Nil, uploads[h].link = l, uploads'[h] = Nil,
             links'[l] # Nil, links'[l].status = "submitted", links[l] # Nil,
             accepted'[l] = accepted[l] + 1
      PROVE  accepted'[l] > 0 /\ accepted'[l] + after <= all
  <2>1. h \in InFlight(l)
    BY <1>5 DEF InFlight
  <2>2. InFlight(l)' = InFlight(l) \ {h}
    BY <1>5, UploadLocal DEF InFlight
  <2>3. after \in Nat /\ after = before - 1
    BY <1>1, <2>1, <2>2, FS_RemoveElement, FS_CardinalityType
  <2> HIDE DEF before, after, all
  <2>4. accepted[l] + before <= all
    BY <1>1, <1>2, <1>3, <1>5
  <2> QED
    BY <1>1, <1>5, <2>3, <2>4
<1> QED
  BY <1>4, <1>5, Spending

\* However uploads interleave, a pending link has accepted nothing, and what a
\* spent link has accepted and may yet accept never exceeds the handlers there
\* are: only uploads open before it was spent can still spend it.
THEOREM SpendsAreBounded == Spec => []SpendsBounded
<1>1. Init => SpendsBounded
  BY DEF Init, SpendsBounded
<1>2. Inv /\ SpendsBounded /\ [Next]_vars => SpendsBounded'
  BY SpendsBoundedStep
<1> QED
  BY <1>1, <1>2, Invariance, PTL DEF Spec

-----------------------------------------------------------------------------
(* The row an upload carries: it is planned when the file is saved, then   *)
(* gains the outcome of OCR, and after the SELECT goes with a row's id.    *)

FreshRow(row) ==
    /\ \E file \in FileNames : row.file_name = SanitizeFilename[file]
    /\ row.s3_url[3] = row.document_type
    /\ row.ocr_status = "not_requested"
    /\ row.ocr_text = Nil /\ row.s3_url_ocr_json = Nil

LEMMA SavePlans ==
    ASSUME Inv, NEW h \in Handlers, NEW link, NEW row, NEW content,
           NEW pc \in {"ocr", "find"}, FreshRow(row),
           SaveFile(h, link, row, content, pc) \/ TearFile(h, row, content)
    PROVE  uploads'[h] # Nil =>
             /\ uploads'[h].pc \in {"ocr", "find"} /\ uploads'[h].id = Nil
             /\ FreshRow(uploads'[h].row)
<1>1. CASE TearFile(h, row, content)
  BY <1>1 DEF TearFile, Inv, TypeInv, TypeOK
<1>2. CASE SaveFile(h, link, row, content, pc)
  <2>1. uploads'[h] = [pc |-> pc, link |-> link, body |-> content,
                       row |-> row, id |-> Nil, seen |-> Nil]
    BY <1>2 DEF SaveFile, Inv, TypeInv, TypeOK
  <2> QED
    BY <2>1
<1> QED
  BY <1>1, <1>2

LEMMA UploadPlans ==
    ASSUME Inv, NEW h \in Handlers, UploadStep(h), uploads'[h] # Nil
    PROVE  \/ uploads'[h].pc = "save" /\ uploads'[h].id = Nil
           \/ /\ uploads'[h].pc \in {"ocr", "find"} /\ uploads'[h].id = Nil
              /\ FreshRow(uploads'[h].row)
           \/ OcrSucceeds(h) \/ OcrFails(h) \/ FindExisting(h)
<1>1. ASSUME NEW t, NEW ref, NEW name, NEW type, NEW file \in FileNames,
             NEW content, NEW meta
      PROVE  FreshRow(PlannedRow(t, ref, name, type, file, content, meta))
  BY DEF PlannedRow, FreshRow, DocKey
<1>2. ASSUME NEW file \in FileNames, NEW content \in Contents,
             PortalSave(h, file, content)
      PROVE  /\ uploads'[h].pc \in {"ocr", "find"} /\ uploads'[h].id = Nil
             /\ FreshRow(uploads'[h].row)
  <2> DEFINE l == uploads[h].link
             row == PortalRow(l, file, content)
  <2>1. FreshRow(row)
    BY <1>1 DEF PortalRow
  <2>2. SaveFile(h, l, row, content, "find") \/ TearFile(h, row, content)
    BY <1>2 DEF PortalSave
  <2> HIDE DEF l, row
  <2> QED
    BY <2>1, <2>2, SavePlans
<1>3. ASSUME NEW t \in Tenants, NEW ref \in References,
             NEW client_name \in Names \cup {Nil}, NEW type \in ApiTypes,
             NEW file \in FileNames, NEW content \in Contents,
             NEW meta \in SUBSET MetaKeys, NEW ocr \in BOOLEAN,
             ApiSave(h, t, ref, client_name, type, file, content, meta, ocr)
      PROVE  /\ uploads'[h].pc \in {"ocr", "find"} /\ uploads'[h].id = Nil
             /\ FreshRow(uploads'[h].row)
  <2>1. PICK name \in FolderNames(t, ref, client_name) :
          LET row == PlannedRow(t, ref, name, type, file, content, meta) IN
            \/ SaveFile(h, Nil, row, content, IF ocr THEN "ocr" ELSE "find")
            \/ TearFile(h, row, content)
    BY <1>3 DEF ApiSave
  <2> DEFINE row == PlannedRow(t, ref, name, type, file, content, meta)
             pc == IF ocr THEN "ocr" ELSE "find"
  <2>2. FreshRow(row) /\ pc \in {"ocr", "find"}
    BY <1>1
  <2>3. SaveFile(h, Nil, row, content, pc) \/ TearFile(h, row, content)
    BY <2>1
  <2> HIDE DEF row, pc
  <2> QED
    BY <2>2, <2>3, SavePlans
<1>4. ASSUME NEW l \in LinkIds, OpenLink(h, l)
      PROVE  uploads'[h].pc = "save" /\ uploads'[h].id = Nil
  BY <1>4 DEF OpenLink, Inv, TypeInv, TypeOK
<1>5. CASE CommitUpdate(h) \/ Abandon(h) \/ \E d \in DocIds : CommitInsert(h, d)
  BY <1>5 DEF CommitUpdate, Abandon, CommitInsert, Inv, TypeInv, TypeOK
<1> QED
  BY <1>2, <1>3, <1>4, <1>5 DEF UploadStep

\* What OCR adds to the row: all three columns of a result, or a failure, which
\* may come with the text but never with a sidecar.
LEMMA OcrAdds ==
    ASSUME Inv, NEW h \in Handlers, OcrSucceeds(h) \/ OcrFails(h)
    PROVE  /\ uploads[h] # Nil /\ uploads[h].pc = "ocr"
           /\ uploads'[h].pc = "find" /\ uploads'[h].id = Nil
           /\ \A column \in {"tenant_id", "owner_ref", "file_name",
                             "document_type", "s3_url"} :
                 uploads'[h].row[column] = uploads[h].row[column]
           /\ \/ /\ uploads'[h].row.ocr_status = "done"
                 /\ uploads'[h].row.ocr_text # Nil
                 /\ uploads'[h].row.s3_url_ocr_json # Nil
              \/ /\ uploads'[h].row.ocr_status = "failed"
                 /\ uploads'[h].row.ocr_text
                      \in {uploads[h].row.ocr_text, uploads[h].body}
                 /\ uploads'[h].row.s3_url_ocr_json = uploads[h].row.s3_url_ocr_json
<1> DEFINE u == uploads[h]
           key == JsonKey(u.row.s3_url)
<1>1. u \in Uploads /\ WellFormed(u, links) /\ u.pc = "ocr" /\ u # Nil
  BY DEF Inv, TypeInv, TypeOK, OcrSucceeds, OcrFails
<1>2. u.row \in Rows /\ u.body \in Contents /\ u.id = Nil
  BY <1>1 DEF WellFormed
<1>3. key # Nil /\ u.body # Nil
  BY <1>2, JsonKeyType, Markers DEF Rows
<1>4. CASE OcrSucceeds(h)
  <2> DEFINE row == [u.row EXCEPT !.s3_url_ocr_json = key,
                                  !.ocr_status = "done", !.ocr_text = u.body]
  <2>1. uploads'[h] = [u EXCEPT !.pc = "find", !.row = row]
    BY <1>4 DEF OcrSucceeds, Inv, TypeInv, TypeOK
  <2>2. /\ \A column \in {"tenant_id", "owner_ref", "file_name",
                           "document_type", "s3_url"} :
              row[column] = u.row[column]
        /\ row.ocr_status = "done" /\ row.ocr_text # Nil /\ row.s3_url_ocr_json # Nil
    BY <1>2, <1>3 DEF Rows
  <2> HIDE DEF row, u
  <2>3. uploads'[h].pc = "find" /\ uploads'[h].row = row /\ uploads'[h].id = Nil
    BY <1>1, <1>2, <2>1 DEF Uploads
  <2> QED
    BY <1>1, <2>2, <2>3 DEF u
<1>5. CASE OcrFails(h)
  <2>1. PICK row \in {[u.row EXCEPT !.ocr_status = "failed"],
                      [u.row EXCEPT !.ocr_status = "failed",
                                    !.ocr_text = u.body]} :
           uploads' = [uploads EXCEPT ![h].pc = "find", ![h].row = row]
    BY <1>5 DEF OcrFails
  <2>2. uploads'[h] = [u EXCEPT !.pc = "find", !.row = row]
    BY <2>1 DEF Inv, TypeInv, TypeOK
  <2>3. /\ \A column \in {"tenant_id", "owner_ref", "file_name",
                           "document_type", "s3_url"} :
              row[column] = u.row[column]
        /\ row.ocr_status = "failed" /\ row.ocr_text \in {u.row.ocr_text, u.body}
        /\ row.s3_url_ocr_json = u.row.s3_url_ocr_json
    BY <1>2, <2>1 DEF Rows
  <2> HIDE DEF u
  <2>4. uploads'[h].pc = "find" /\ uploads'[h].row = row /\ uploads'[h].id = Nil
    BY <1>1, <1>2, <2>2 DEF Uploads
  <2> QED
    BY <1>1, <2>3, <2>4 DEF u
<1> QED
  BY <1>4, <1>5

\* The SELECT keeps the planned row and adds the one row it found.
LEMMA FindAdds ==
    ASSUME Inv, NEW h \in Handlers, FindExisting(h)
    PROVE  /\ uploads[h] # Nil /\ uploads[h].pc = "find" /\ docs' = docs
           /\ uploads'[h] # Nil /\ uploads'[h].pc = "commit"
           /\ uploads'[h].row = uploads[h].row
           /\ \/ uploads'[h].id = Nil
              \/ /\ uploads'[h].id \in Matching(uploads[h].row)
                 /\ uploads'[h].seen = docs[uploads'[h].id]
<1> DEFINE u == uploads[h]
<1>1. u \in Uploads /\ WellFormed(u, links) /\ u.pc = "find" /\ u # Nil
  BY DEF Inv, TypeInv, TypeOK, FindExisting
<1>2. docs' = docs
  BY DEF FindExisting
<1>3. u.id = Nil
  BY <1>1 DEF WellFormed
<1>4. Nil \notin Uploads
  BY NoRecordIsNil
<1>5. ASSUME uploads' = [uploads EXCEPT ![h].pc = "commit"]
      PROVE  /\ uploads'[h] # Nil /\ uploads'[h].pc = "commit"
             /\ uploads'[h].row = u.row /\ uploads'[h].id = Nil
  <2>1. uploads'[h] = [u EXCEPT !.pc = "commit"]
    BY <1>5 DEF Inv, TypeInv, TypeOK
  <2> HIDE DEF u
  <2>2. uploads'[h] \in Uploads
    BY <1>1, <2>1 DEF Uploads
  <2>3. uploads'[h].pc = "commit" /\ uploads'[h].row = u.row /\ uploads'[h].id = u.id
    BY <1>1, <2>1 DEF Uploads
  <2>4. uploads'[h] # Nil
    BY <1>4, <2>2
  <2>5. uploads'[h].id = Nil
    BY <1>3, <2>3
  <2> QED
    BY <2>3, <2>4, <2>5 DEF u
<1>6. ASSUME NEW d \in Matching(u.row),
             uploads' = [uploads EXCEPT ![h].pc = "commit", ![h].id = d,
                                        ![h].seen = docs[d]]
      PROVE  /\ uploads'[h] # Nil /\ uploads'[h].pc = "commit"
             /\ uploads'[h].row = u.row
             /\ uploads'[h].id = d /\ uploads'[h].seen = docs[d]
  <2>1. uploads'[h] = [u EXCEPT !.pc = "commit", !.id = d, !.seen = docs[d]]
    BY <1>6 DEF Inv, TypeInv, TypeOK
  <2>2. d \in DocIds /\ docs[d] \in Rows
    BY DEF Matching, Exists, Inv, TypeInv, TypeOK
  <2> HIDE DEF u
  <2>3. uploads'[h] \in Uploads
    BY <1>1, <2>1, <2>2 DEF Uploads
  <2> QED
    BY <1>1, <1>4, <2>1, <2>3 DEF Uploads
<1>7. \/ uploads' = [uploads EXCEPT ![h].pc = "commit"]
      \/ \E d \in Matching(u.row) :
           uploads' = [uploads EXCEPT ![h].pc = "commit", ![h].id = d,
                                      ![h].seen = docs[d]]
  BY DEF FindExisting
<1> HIDE DEF u
<1>8. CASE uploads' = [uploads EXCEPT ![h].pc = "commit"]
  BY <1>1, <1>2, <1>5, <1>8 DEF u
<1>9. CASE \E d \in Matching(u.row) :
             uploads' = [uploads EXCEPT ![h].pc = "commit", ![h].id = d,
                                        ![h].seen = docs[d]]
  <2>1. PICK d \in Matching(u.row) :
             uploads' = [uploads EXCEPT ![h].pc = "commit", ![h].id = d,
                                        ![h].seen = docs[d]]
    BY <1>9
  <2>2. /\ uploads'[h] # Nil /\ uploads'[h].pc = "commit"
        /\ uploads'[h].row = u.row
        /\ uploads'[h].id = d /\ uploads'[h].seen = docs[d]
    BY <1>6, <2>1
  <2> QED
    BY <1>1, <1>2, <2>2 DEF u
<1> QED
  BY <1>7, <1>8, <1>9
=============================================================================
