------------------------------ MODULE PortalReads ------------------------------
(***************************************************************************)
(* Those who read the portal while CollectionPortal goes on: the listing   *)
(* of a case's links, the staff page, the upload page, file serving.  None *)
(* of them writes; what can go wrong is that they read twice, or that what *)
(* they answered is used (a link followed, a stream read) much later.      *)
(***************************************************************************)
EXTENDS CollectionPortal

CONSTANTS
    Readers,        \* requests, pages and streams open at most
    PublicFiles,    \* settings.public_files
    Followed        \* key -> the key asked for by who follows its URL

\* public_url appends a key to the base URL without quoting it.  Slugs, stored
\* names and the types of doc_types are safe in a URL; in the type of an API
\* upload a "#" or "?" ends the path and a "%" or ".." changes it, so that the
\* URL asks for another key, or for none that the service ever made (Nil).
ASSUME UrlsAsText ==
    /\ PublicFiles \in BOOLEAN
    /\ Followed \in [Keys -> Keys \cup {Nil}]
    /\ \A key \in Keys : key[3] \in PortalTypes => Followed[key] = key

VARIABLE reads          \* what each reader has read, and what it was told

readVars == <<vars, reads>>

Cases == Tenants \X References

\* pc "documents": list_requests_for_reference between its two SELECTs, with
\* the links of the first one.  pc "answer": the response is with the client;
\* `shown` are the cases of the documents in it, `urls` the keys of their file
\* URLs, `opens` the key of the file its body is to be read from, and `closed`
\* the links it calls submitted or expired.
Pending == [pc   : {"documents"},
            case : Cases,
            all  : BOOLEAN,
            seen : [LinkIds -> Links \cup {Nil}]]
Answers == [pc     : {"answer"},
            case   : Cases \cup {Nil},
            shown  : SUBSET Cases,
            urls   : SUBSET Keys,
            opens  : SUBSET Keys,
            closed : SUBSET LinkIds]

ASSUME NoReadIsNil == Nil \notin Pending /\ Nil \notin Answers /\ Nil \notin Cases

ReadsOK == reads \in [Readers -> Pending \cup Answers \cup {Nil}]

ReadInit == Init /\ reads = [r \in Readers |-> Nil]

CaseOf(row) == <<row.tenant_id, row.owner_ref>>

\* A response that shows some rows and calls some links closed ...
Answer(r, case, rows, closed) ==
    reads' = [reads EXCEPT ![r] =
        [pc |-> "answer", case |-> case,
         shown |-> {CaseOf(row) : row \in rows},
         urls |-> {row.s3_url : row \in rows},
         opens |-> {}, closed |-> closed]]

\* ... and one that streams the file of a row.  open_stream is a generator: the
\* key is resolved and the file opened when the body is read, after the status.
Stream(r, rows) ==
    reads' = [reads EXCEPT ![r] =
        [pc |-> "answer", case |-> Nil, shown |-> {}, urls |-> {},
         opens |-> {row.s3_url : row \in rows}, closed |-> {}]]

\* Mutant: expiry is rounded up to the next full day.
RoundedStatus(link) ==
    IF link.status = "pending" /\ link.expires_at <= now + 1 THEN "expired"
    ELSE link.status

EffectiveStatus(link) ==
    IF link.status = "pending" /\ ~IsLive(link) THEN "expired" ELSE link.status

DocumentIds(seen) ==
    {seen[l].document_id : l \in {k \in LinkIds : seen[k] # Nil}} \ {Nil}

\* list_document_requests after both SELECTs: `seen` are the links of the
\* first.  A document deleted since then is shown as none, and its link is
\* left out when only uploads are asked for.  Filtering by status leaves out
\* more links and is omitted.
ListItems(r, case, all, seen) ==
    LET found == {d \in DocumentIds(seen) : Exists(d)}
        listed == {l \in LinkIds : /\ seen[l] # Nil
                                   /\ all \/ seen[l].document_id \in found}
    IN Answer(r, case, {docs[d] : d \in found},
              {l \in listed : EffectiveStatus(seen[l]) # "pending"})

\* The SELECT of the links of a case; the second SELECT only runs if a link
\* has a document.
ListLinks(r, case, all) ==
    /\ reads[r] = Nil
    /\ LET seen == [l \in LinkIds |->
                      IF /\ links[l] # Nil
                         /\ <<links[l].tenant_id, links[l].reference>> = case
                      THEN links[l] ELSE Nil]
       IN IF DocumentIds(seen) = {}
          THEN ListItems(r, case, all, seen)
          ELSE reads' = [reads EXCEPT ![r] =
                  [pc |-> "documents", case |-> case, all |-> all, seen |-> seen]]
    /\ UNCHANGED vars

\* The SELECT of the documents, by their ids alone.
ListDocuments(r) ==
    /\ reads[r] # Nil /\ reads[r].pc = "documents"
    /\ ListItems(r, reads[r].case, reads[r].all, reads[r].seen)
    /\ UNCHANGED vars

\* staff_documents: one SELECT of a case's documents.
ShowDocuments(r, case) ==
    /\ reads[r] = Nil
    /\ Answer(r, case,
              {docs[d] : d \in {e \in DocIds : Exists(e) /\ CaseOf(docs[e]) = case}},
              {})
    /\ UNCHANGED vars

\* get_document: the row of an id within a tenant.
ShowDocument(r, t, d) ==
    /\ reads[r] = Nil
    /\ Exists(d) /\ docs[d].tenant_id = t
    /\ Answer(r, Nil, {docs[d]}, {})
    /\ UNCHANGED vars

\* stream_document_file: the key is what follows "/files/" in the row's URL.
StreamDocument(r, t, d) ==
    /\ reads[r] = Nil
    /\ Exists(d) /\ docs[d].tenant_id = t
    /\ Stream(r, {docs[d]})
    /\ UNCHANGED vars

\* upload_page: the state of one link.
OpenPage(r, l) ==
    /\ reads[r] = Nil
    /\ links[l] # Nil
    /\ Answer(r, Nil, {}, IF EffectiveStatus(links[l]) = "pending" THEN {} ELSE {l})
    /\ UNCHANGED vars

\* serve_file, asked for a key: 404 unless files are public; two rows with the
\* URL of that key raise; without a row the stream is begun all the same, and
\* nothing is promised of it.
ServeFile(r, key) ==
    /\ PublicFiles
    /\ reads[r] = Nil
    /\ LET found == {d \in DocIds : Exists(d) /\ docs[d].s3_url = key}
       IN /\ Cardinality(found) <= 1
          /\ Stream(r, {docs[d] : d \in found})
    /\ UNCHANGED vars

\* The body is read to its end, the page is closed.
Leave(r) ==
    /\ reads[r] # Nil
    /\ reads' = [reads EXCEPT ![r] = Nil]
    /\ UNCHANGED vars

ReadStep(r) ==
    \/ \E case \in Cases, all \in BOOLEAN : ListLinks(r, case, all)
    \/ ListDocuments(r)
    \/ \E case \in Cases : ShowDocuments(r, case)
    \/ \E t \in Tenants, d \in DocIds : ShowDocument(r, t, d) \/ StreamDocument(r, t, d)
    \/ \E l \in LinkIds : OpenPage(r, l)
    \/ \E key \in Keys : ServeFile(r, key)
    \/ Leave(r)

ReadNext ==
    \/ Next /\ UNCHANGED reads
    \/ \E r \in Readers : ReadStep(r)

ReadSpec == ReadInit /\ [][ReadNext]_readVars
-----------------------------------------------------------------------------
(* What holds. *)

Told(r) == reads[r] # Nil /\ reads[r].pc = "answer"

\* A listing shows documents of the case it was asked for only, although the
\* second SELECT names them by id alone, without tenant or reference, and is
\* fed with what the links said before: links, DELETEs and new ids in between
\* never lead it to a document of somebody else.
ShownInCase ==
    \A r \in Readers :
        Told(r) /\ reads[r].case # Nil => reads[r].shown \subseteq {reads[r].case}

\* A link that a page or a listing called submitted or expired can no longer be
\* opened, however long ago it was read and whatever was minted, uploaded or
\* deleted since.
ToldClosed ==
    \A r \in Readers : Told(r) =>
        \A l \in reads[r].closed : links[l] # Nil /\ ~IsLive(links[l])

\* The URL of a key asks for that very key, of a service that gives files out.
Arrives(key) == PublicFiles /\ Followed[key] = key

\* A response that promised a file on account of its row finds one when the body
\* is read, and so does, however much later, who follows a URL that arrives as it
\* was given: rows may be deleted, re-classified or uploaded again meanwhile.
\* (That serve_file gets so far is UrlIdentifiesRow.)
PromisedFilesStay ==
    \A r \in Readers : Told(r) =>
        \A key \in reads[r].opens \cup {url \in reads[r].urls : Arrives(url)} :
            Stored(key)
=============================================================================
