--------------------------- MODULE PortalReadsProofs ---------------------------
(***************************************************************************)
(* Theorems of PortalReads, for every value of its constants.  What the    *)
(* portal guarantees without readers is inherited: to it, a reader's step  *)
(* is a stutter.                                                           *)
(***************************************************************************)
EXTENDS PortalReads, CollectionPortalProofs

LEMMA ReadersStutter == ReadSpec => Spec
<1>1. ReadInit => Init
  BY DEF ReadInit
<1>2. [ReadNext]_readVars => [Next]_vars
  BY DEF ReadNext, readVars, ReadStep, ListLinks, ListDocuments, ShowDocuments,
         ShowDocument, StreamDocument, OpenPage, ServeFile, Leave
<1> QED
  BY <1>1, <1>2, PTL DEF ReadSpec, Spec

-----------------------------------------------------------------------------
(* What a reader knows stays true while the portal goes on. *)

\* A document a link showed: still of that case, or deleted.
OfCaseOrGone(d, case) ==
    docs[d] = Gone \/ (Exists(d) /\ CaseOf(docs[d]) = case)

Closed(l) == links[l] # Nil /\ ~IsLive(links[l])

\* A link as it was read: expiry is fixed, being spent is final.
Remembered(link, l, case) ==
    /\ links[l] # Nil
    /\ links[l].expires_at = link.expires_at
    /\ link.status = "submitted" => links[l].status = "submitted"
    /\ link.document_id # Nil => OfCaseOrGone(link.document_id, case)

Faithful(p) ==
    /\ p.pc = "documents" =>
         \A l \in LinkIds : p.seen[l] # Nil => Remembered(p.seen[l], l, p.case)
    /\ p.pc = "answer" =>
         /\ p.case # Nil => p.shown \subseteq {p.case}
         /\ \A l \in p.closed : Closed(l)
         /\ \A key \in p.urls \cup p.opens : Stored(key)

ReadInv ==
    /\ ReadsOK
    /\ \A r \in Readers : reads[r] # Nil => Faithful(reads[r])

LEMMA SubmittedStays ==
    ASSUME Inv, [Next]_vars, NEW l \in LinkIds, links[l] # Nil,
           links[l].status = "submitted"
    PROVE  links'[l].status = "submitted"
BY Spending

LEMMA ClosedStays ==
    ASSUME Inv, [Next]_vars, NEW l \in LinkIds, Closed(l)
    PROVE  Closed(l)'
<1>1. links[l] \in Links /\ now \in Nat
  BY DEF Closed, Inv, TypeInv, TypeOK
<1>2. links'[l] # Nil /\ links'[l].expires_at = links[l].expires_at
  BY LinkKept DEF Closed
<1>3. CASE links[l].status = "submitted"
  BY <1>2, <1>3, SubmittedStays DEF Closed, IsLive
<1>4. CASE ~(links[l].expires_at > now)
  <2>1. ~(links'[l].expires_at > now')
    BY <1>1, <1>2, <1>4, ClockGrows DEF Links
  <2> QED
    BY <1>2, <2>1 DEF Closed, IsLive
<1> QED
  BY <1>1, <1>3, <1>4 DEF Closed, IsLive, Links

LEMMA CaseStays ==
    ASSUME Inv, [Next]_vars, NEW d \in DocIds, NEW case, OfCaseOrGone(d, case)
    PROVE  OfCaseOrGone(d, case)'
<1>1. CASE docs[d] = Gone
  BY <1>1, RowStep, Markers DEF OfCaseOrGone, Exists
<1>2. CASE Exists(d) /\ docs'[d] # Gone
  <2>1. /\ docs'[d].tenant_id = docs[d].tenant_id
        /\ docs'[d].owner_ref = docs[d].owner_ref
    BY <1>2, RowKeepsIdentity
  <2>2. docs'[d] # Nil
    BY <1>2, RowStaysBorn DEF Exists
  <2> QED
    BY <1>2, <2>1, <2>2, Markers DEF OfCaseOrGone, Exists, CaseOf
<1> QED
  BY <1>1, <1>2 DEF OfCaseOrGone, Exists

LEMMA RememberedStays ==
    ASSUME Inv, [Next]_vars, NEW l \in LinkIds, NEW link \in Links, NEW case,
           Remembered(link, l, case)
    PROVE  Remembered(link, l, case)'
<1>1. links'[l] # Nil /\ links'[l].expires_at = links[l].expires_at
  BY LinkKept DEF Remembered
<1>2. link.status = "submitted" => links'[l].status = "submitted"
  BY SubmittedStays DEF Remembered
<1>3. link.document_id # Nil => OfCaseOrGone(link.document_id, case)'
  BY CaseStays DEF Remembered, Links
<1> QED
  BY <1>1, <1>2, <1>3 DEF Remembered

LEMMA FaithfulStays ==
    ASSUME Inv, [Next]_vars, NEW p \in Pending \cup Answers, Faithful(p)
    PROVE  Faithful(p)'
<1>1. CASE p.pc = "documents"
  <2>1. ASSUME NEW l \in LinkIds, p.seen[l] # Nil
        PROVE  Remembered(p.seen[l], l, p.case)'
    <3>1. p.seen[l] \in Links
      BY <1>1, <2>1 DEF Pending, Answers
    <3> QED
      BY <1>1, <2>1, <3>1, RememberedStays DEF Faithful
  <2> QED
    BY <1>1, <2>1 DEF Faithful
<1>2. CASE p.pc = "answer"
  <2>1. p.closed \subseteq LinkIds /\ p.urls \cup p.opens \subseteq Keys
    BY <1>2 DEF Pending, Answers
  <2>2. \A l \in p.closed : Closed(l)'
    BY <1>2, <2>1, ClosedStays DEF Faithful
  <2>3. \A key \in p.urls \cup p.opens : Stored(key)'
    BY <1>2, <2>1, PathType, DiskGrows DEF Faithful, Stored
  <2> QED
    BY <1>2, <2>2, <2>3 DEF Faithful
<1> QED
  BY <1>1, <1>2 DEF Pending, Answers

-----------------------------------------------------------------------------
(* What a reader is told is true when it is told. *)

\* A step of a reader leaves the others with what they knew.
LEMMA FaithfulStutter ==
    ASSUME UNCHANGED vars, NEW p, Faithful(p)
    PROVE  Faithful(p)'
BY DEF Faithful, Remembered, OfCaseOrGone, Exists, Closed, IsLive, Stored,
       vars

LEMMA OneReader ==
    ASSUME ReadInv, UNCHANGED vars, NEW r \in Readers,
           NEW a \in Pending \cup Answers, Faithful(a),
           reads' = [reads EXCEPT ![r] = a]
    PROVE  ReadInv'
<1>1. ReadsOK'
  BY DEF ReadInv, ReadsOK
<1>2. ASSUME NEW s \in Readers, NEW q, q = reads'[s], q # Nil
      PROVE  Faithful(q)'
  <2>1. Faithful(q)
    <3>1. q = a \/ q = reads[s]
      BY <1>2 DEF ReadInv, ReadsOK
    <3> QED
      BY <1>2, <3>1 DEF ReadInv
  <2> QED
    BY <2>1, FaithfulStutter
<1>3. \A s \in Readers : (reads[s] # Nil => Faithful(reads[s]))'
  BY <1>2 DEF Faithful, Remembered, OfCaseOrGone, Exists, Closed, IsLive, Stored
<1> QED
  BY <1>1, <1>3 DEF ReadInv

\* A SELECT that names rows of `case` (any, if Nil) and links that are closed.
LEMMA AnswerFaithful ==
    ASSUME LocationInv, ReadInv, UNCHANGED vars,
           NEW r \in Readers, NEW case \in Cases \cup {Nil},
           NEW ids \in SUBSET DocIds, NEW closed \in SUBSET LinkIds,
           \A d \in ids : Exists(d) /\ (case # Nil => CaseOf(docs[d]) = case),
           \A l \in closed : Closed(l),
           Answer(r, case, {docs[d] : d \in ids}, closed)
    PROVE  ReadInv'
<1> DEFINE rows == {docs[d] : d \in ids}
           a == [pc |-> "answer", case |-> case,
                 shown |-> {CaseOf(row) : row \in rows},
                 urls |-> {row.s3_url : row \in rows},
                 opens |-> {}, closed |-> closed]
<1>1. \A d \in ids : docs[d] \in Rows
  BY DEF LocationInv, Inv, TypeInv, TypeOK, Exists
<1>2. \A d \in ids : CaseOf(docs[d]) \in Cases /\ docs[d].s3_url \in Keys
  BY <1>1 DEF CaseOf, Cases, Rows
<1>3. a \in Answers
  BY <1>2 DEF Answers
<1>4. \A key \in a.urls \cup a.opens : Stored(key)
  BY DEF LocationInv, RowsLocated, Located, Stored
<1>5. a.case # Nil => a.shown \subseteq {a.case}
  OBVIOUS
<1>6. Faithful(a)
  BY <1>4, <1>5 DEF Faithful
<1> HIDE DEF a
<1>7. reads' = [reads EXCEPT ![r] = a]
  BY DEF a, Answer
<1> QED
  BY <1>3, <1>6, <1>7, OneReader

\* A response that streams the file of an existing row.
LEMMA StreamFaithful ==
    ASSUME LocationInv, ReadInv, UNCHANGED vars, NEW r \in Readers,
           NEW ids \in SUBSET DocIds, \A d \in ids : Exists(d),
           Stream(r, {docs[d] : d \in ids})
    PROVE  ReadInv'
<1> DEFINE rows == {docs[d] : d \in ids}
           a == [pc |-> "answer", case |-> Nil, shown |-> {}, urls |-> {},
                 opens |-> {row.s3_url : row \in rows}, closed |-> {}]
<1>1. \A d \in ids : docs[d] \in Rows
  BY DEF LocationInv, Inv, TypeInv, TypeOK, Exists
<1>2. \A d \in ids : docs[d].s3_url \in Keys
  BY <1>1 DEF Rows
<1>3. a \in Answers
  BY <1>2 DEF Answers
<1>4. \A key \in a.urls \cup a.opens : Stored(key)
  BY DEF LocationInv, RowsLocated, Located, Stored
<1>5. Faithful(a)
  BY <1>4 DEF Faithful
<1> HIDE DEF a
<1>6. reads' = [reads EXCEPT ![r] = a]
  BY DEF a, Stream
<1> QED
  BY <1>3, <1>5, <1>6, OneReader

\* The first SELECT of a listing remembers the links as they are.
LEMMA LinksRemembered ==
    ASSUME LocationInv, NEW case \in Cases, NEW l \in LinkIds, links[l] # Nil,
           <<links[l].tenant_id, links[l].reference>> = case
    PROVE  Remembered(links[l], l, case)
<1>1. links[l] \in Links
  BY DEF LocationInv, Inv, TypeInv, TypeOK
<1>2. ASSUME links[l].document_id # Nil
      PROVE  OfCaseOrGone(links[l].document_id, case)
  BY <1>2 DEF LocationInv, LinkRefersToCase, OfCaseOrGone, CaseOf
<1> QED
  BY <1>1, <1>2 DEF Remembered

\* The answer of a listing after both SELECTs.
LEMMA ListItemsFaithful ==
    ASSUME LocationInv, ReadInv, UNCHANGED vars,
           NEW r \in Readers, NEW case \in Cases, NEW all \in BOOLEAN,
           NEW seen \in [LinkIds -> Links \cup {Nil}],
           \A l \in LinkIds : seen[l] # Nil => Remembered(seen[l], l, case),
           ListItems(r, case, all, seen)
    PROVE  ReadInv'
<1> DEFINE found == {d \in DocumentIds(seen) : Exists(d)}
           listed == {l \in LinkIds : /\ seen[l] # Nil
                                      /\ all \/ seen[l].document_id \in found}
           closed == {l \in listed : EffectiveStatus(seen[l]) # "pending"}
<1>1. found \in SUBSET DocIds
  BY DEF DocumentIds, Links
<1>2. \A d \in found : Exists(d) /\ CaseOf(docs[d]) = case
  <2>1. ASSUME NEW l \in LinkIds, seen[l] # Nil, seen[l].document_id # Nil,
               Exists(seen[l].document_id)
        PROVE  CaseOf(docs[seen[l].document_id]) = case
    BY <2>1 DEF Remembered, OfCaseOrGone, Exists
  <2> QED
    BY <2>1 DEF DocumentIds
<1>3. \A l \in closed : Closed(l)
  <2>1. ASSUME NEW l \in LinkIds, seen[l] # Nil, EffectiveStatus(seen[l]) # "pending"
        PROVE  Closed(l)
    <3>1. Remembered(seen[l], l, case) /\ seen[l] \in Links
      BY <2>1
    <3>2. CASE seen[l].status = "submitted"
      BY <3>1, <3>2 DEF Remembered, Closed, IsLive
    <3>3. CASE seen[l].status = "pending"
      BY <2>1, <3>1, <3>3 DEF Remembered, Closed, IsLive, EffectiveStatus
    <3> QED
      BY <3>1, <3>2, <3>3 DEF Links
  <2> QED
    BY <2>1
<1>4. Answer(r, case, {docs[d] : d \in found}, closed)
  BY DEF ListItems
<1> HIDE DEF found, closed
<1> QED
  BY <1>1, <1>2, <1>3, <1>4, AnswerFaithful DEF closed

LEMMA ListLinksFaithful ==
    ASSUME LocationInv, ReadInv,
           NEW r \in Readers, NEW case \in Cases, NEW all \in BOOLEAN,
           ListLinks(r, case, all)
    PROVE  ReadInv'
<1> DEFINE seen == [l \in LinkIds |->
                      IF /\ links[l] # Nil
                         /\ <<links[l].tenant_id, links[l].reference>> = case
                      THEN links[l] ELSE Nil]
           p == [pc |-> "documents", case |-> case, all |-> all, seen |-> seen]
<1>1. seen \in [LinkIds -> Links \cup {Nil}]
  BY DEF LocationInv, Inv, TypeInv, TypeOK
<1>2. \A l \in LinkIds : seen[l] # Nil => Remembered(seen[l], l, case)
  BY LinksRemembered
<1> HIDE DEF seen
<1>3. UNCHANGED vars
  BY DEF ListLinks
<1>4. CASE ListItems(r, case, all, seen)
  BY <1>1, <1>2, <1>3, <1>4, ListItemsFaithful
<1>5. CASE reads' = [reads EXCEPT ![r] = p]
  <2>1. p \in Pending /\ p.pc = "documents"
    BY <1>1 DEF Pending
  <2>2. Faithful(p)
    BY <1>2 DEF Faithful
  <2> HIDE DEF p
  <2> QED
    BY <1>3, <1>5, <2>1, <2>2, OneReader
<1> QED
  BY <1>4, <1>5 DEF ListLinks, seen

\* Its second SELECT, whatever happened since the first.
LEMMA ListDocumentsFaithful ==
    ASSUME LocationInv, ReadInv, NEW r \in Readers, ListDocuments(r)
    PROVE  ReadInv'
<1> DEFINE p == reads[r]
<1>1. p \in Pending /\ Faithful(p) /\ p.pc = "documents"
  BY DEF ListDocuments, ReadInv, ReadsOK, Pending, Answers
<1>2. /\ p.case \in Cases /\ p.all \in BOOLEAN
      /\ p.seen \in [LinkIds -> Links \cup {Nil}]
  BY <1>1 DEF Pending
<1>3. \A l \in LinkIds : p.seen[l] # Nil => Remembered(p.seen[l], l, p.case)
  BY <1>1 DEF Faithful
<1>4. ListItems(r, p.case, p.all, p.seen) /\ UNCHANGED vars
  BY DEF ListDocuments
<1> HIDE DEF p
<1> QED
  BY <1>2, <1>3, <1>4, ListItemsFaithful

\* The staff page.
LEMMA ShowDocumentsFaithful ==
    ASSUME LocationInv, ReadInv, NEW r \in Readers, NEW case \in Cases,
           ShowDocuments(r, case)
    PROVE  ReadInv'
<1> DEFINE ids == {e \in DocIds : Exists(e) /\ CaseOf(docs[e]) = case}
<1>1. Answer(r, case, {docs[d] : d \in ids}, {}) /\ UNCHANGED vars
  BY DEF ShowDocuments
<1>2. \A d \in ids : Exists(d) /\ CaseOf(docs[d]) = case
  OBVIOUS
<1>3. ids \in SUBSET DocIds
  OBVIOUS
<1> HIDE DEF ids
<1> QED
  BY <1>1, <1>2, <1>3, AnswerFaithful

\* Pages and responses of no case in particular.
LEMMA PlainAnswerFaithful ==
    ASSUME LocationInv, ReadInv, UNCHANGED vars, NEW r \in Readers,
           NEW ids \in SUBSET DocIds, \A d \in ids : Exists(d),
           NEW closed \in SUBSET LinkIds, \A l \in closed : Closed(l),
           Answer(r, Nil, {docs[d] : d \in ids}, closed)
    PROVE  ReadInv'
BY AnswerFaithful

LEMMA ShowDocumentFaithful ==
    ASSUME LocationInv, ReadInv, NEW r \in Readers, NEW t \in Tenants,
           NEW d \in DocIds, ShowDocument(r, t, d)
    PROVE  ReadInv'
<1> DEFINE ids == {d}
<1>1. Answer(r, Nil, {docs[d]}, {}) /\ UNCHANGED vars
  BY DEF ShowDocument
<1>2. {docs[e] : e \in ids} = {docs[d]}
  OBVIOUS
<1>3. Answer(r, Nil, {docs[e] : e \in ids}, {})
  BY <1>1, <1>2
<1>4. ids \in SUBSET DocIds /\ \A e \in ids : Exists(e)
  BY DEF ShowDocument
<1> HIDE DEF ids
<1> QED
  BY <1>1, <1>3, <1>4, PlainAnswerFaithful

LEMMA StreamDocumentFaithful ==
    ASSUME LocationInv, ReadInv, NEW r \in Readers, NEW t \in Tenants,
           NEW d \in DocIds, StreamDocument(r, t, d)
    PROVE  ReadInv'
<1>1. Stream(r, {docs[e] : e \in {d}})
  <2>1. {docs[e] : e \in {d}} = {docs[d]}
    OBVIOUS
  <2> QED
    BY <2>1 DEF StreamDocument
<1>2. {d} \in SUBSET DocIds /\ \A e \in {d} : Exists(e)
  BY DEF StreamDocument
<1> QED
  BY <1>1, <1>2, StreamFaithful DEF StreamDocument

LEMMA OpenPageFaithful ==
    ASSUME LocationInv, ReadInv, NEW r \in Readers, NEW l \in LinkIds,
           OpenPage(r, l)
    PROVE  ReadInv'
<1> DEFINE closed == IF EffectiveStatus(links[l]) = "pending" THEN {} ELSE {l}
<1>1. Answer(r, Nil, {}, closed) /\ UNCHANGED vars
  BY DEF OpenPage
<1>2. \A k \in closed : Closed(k)
  <2>1. links[l] # Nil /\ links[l].status \in {"pending", "submitted"}
    BY DEF OpenPage, LocationInv, Inv, TypeInv, TypeOK, Links
  <2> QED
    BY <2>1 DEF EffectiveStatus, Closed, IsLive
<1>3. closed \in SUBSET LinkIds
  OBVIOUS
<1>4. {} = {docs[e] : e \in {}}
  OBVIOUS
<1>5. Answer(r, Nil, {docs[e] : e \in {}}, closed)
  BY <1>1, <1>4
<1> HIDE DEF closed
<1> QED
  BY <1>1, <1>2, <1>3, <1>5, PlainAnswerFaithful

LEMMA ServeFileFaithful ==
    ASSUME LocationInv, ReadInv, NEW r \in Readers, NEW key \in Keys,
           ServeFile(r, key)
    PROVE  ReadInv'
<1> DEFINE ids == {e \in DocIds : Exists(e) /\ docs[e].s3_url = key}
<1>1. Stream(r, {docs[d] : d \in ids}) /\ UNCHANGED vars
  BY DEF ServeFile
<1>2. \A d \in ids : Exists(d)
  OBVIOUS
<1>3. ids \in SUBSET DocIds
  OBVIOUS
<1> HIDE DEF ids
<1> QED
  BY <1>1, <1>2, <1>3, StreamFaithful

LEMMA LeaveFaithful ==
    ASSUME ReadInv, NEW r \in Readers, Leave(r)
    PROVE  ReadInv'
<1>1. ReadsOK'
  BY DEF ReadInv, ReadsOK, Leave
<1>2. ASSUME NEW s \in Readers, NEW q, q = reads'[s], q # Nil
      PROVE  Faithful(q)'
  <2>1. q = reads[s] /\ UNCHANGED vars
    BY <1>2 DEF ReadInv, ReadsOK, Leave
  <2>2. Faithful(q)
    BY <1>2, <2>1 DEF ReadInv
  <2> QED
    BY <2>1, <2>2, FaithfulStutter
<1>3. \A s \in Readers : (reads[s] # Nil => Faithful(reads[s]))'
  BY <1>2 DEF Faithful, Remembered, OfCaseOrGone, Exists, Closed, IsLive, Stored
<1> QED
  BY <1>1, <1>3 DEF ReadInv

\* A step of the portal.
LEMMA PortalFaithful ==
    ASSUME LocationInv, ReadInv, [Next]_vars, UNCHANGED reads
    PROVE  ReadInv'
<1>1. ReadsOK'
  BY DEF ReadInv, ReadsOK
<1>2. ASSUME NEW s \in Readers, NEW q, q = reads[s], q # Nil
      PROVE  Faithful(q)'
  <2>1. q \in Pending \cup Answers /\ Faithful(q)
    BY <1>2 DEF ReadInv, ReadsOK
  <2> QED
    BY <2>1, FaithfulStays DEF LocationInv
<1>3. \A s \in Readers : (reads[s] # Nil => Faithful(reads[s]))'
  BY <1>2 DEF Faithful, Remembered, OfCaseOrGone, Exists, Closed, IsLive, Stored
<1> QED
  BY <1>1, <1>3 DEF ReadInv

LEMMA ReadInvariance == ReadSpec => []ReadInv
<1>1. ReadInit => ReadInv
  BY DEF ReadInit, ReadInv, ReadsOK
<1>2. LocationInv /\ ReadInv /\ [ReadNext]_readVars => ReadInv'
  <2> SUFFICES ASSUME LocationInv, ReadInv, [ReadNext]_readVars
               PROVE  ReadInv'
    OBVIOUS
  <2>1. CASE Next /\ UNCHANGED reads
    BY <2>1, PortalFaithful
  <2>2. CASE \E r \in Readers : ReadStep(r)
    BY <2>2, ListLinksFaithful, ListDocumentsFaithful, ShowDocumentsFaithful,
       ShowDocumentFaithful, StreamDocumentFaithful, OpenPageFaithful,
       ServeFileFaithful, LeaveFaithful
    DEF ReadStep
  <2>3. CASE UNCHANGED readVars
    BY <2>3, PortalFaithful DEF readVars
  <2> QED
    BY <2>1, <2>2, <2>3 DEF ReadNext
<1> QED
  BY <1>1, <1>2, ReadersStutter, LocationInvariance, PTL DEF ReadSpec

-----------------------------------------------------------------------------

\* A listing shows documents of its own case only, although it selects them by
\* the ids its links showed earlier.
THEOREM ListingsStayInTheirCase == ReadSpec => []ShownInCase
<1>1. ReadInv => ShownInCase
  BY DEF ReadInv, Faithful, ShownInCase, Told
<1> QED
  BY <1>1, ReadInvariance, PTL

\* Who was told that a link is submitted or expired can rely on it for ever.
THEOREM ToldClosedStaysClosed == ReadSpec => []ToldClosed
<1>1. ReadInv => ToldClosed
  BY DEF ReadInv, Faithful, ToldClosed, Told, Closed
<1> QED
  BY <1>1, ReadInvariance, PTL

\* The file of a row is there when the body of its response is read, and for ever
\* for a URL that was handed out and asks for its own key.
THEOREM PromisedFilesStayForEver == ReadSpec => []PromisedFilesStay
<1>1. ReadInv => PromisedFilesStay
  BY DEF ReadInv, Faithful, PromisedFilesStay, Told
<1> QED
  BY <1>1, ReadInvariance, PTL
=============================================================================
