---------------------------- MODULE PortalLinkProofs ----------------------------
(***************************************************************************)
(* CollectionPortal implements UploadLink, for every value of its          *)
(* constants: what a link's status column, its expiry, the clock and the   *)
(* uploads in flight do together is a step of the promise.                 *)
(*                                                                         *)
(* And what it takes for three statements of the docs to hold that the     *)
(* code does not keep in general: one-time use, one row per URL, and OCR   *)
(* columns that agree.                                                     *)
(***************************************************************************)
EXTENDS CollectionPortalProofs

\* The state of a link in UploadLink.
Phase(l) ==
    IF links[l] = Nil THEN "unminted"
    ELSE IF IsLive(links[l]) THEN "open"
    ELSE "closed"

\* A link that is not being spent keeps its phase, or its time runs out.
LEMMA PhaseStep ==
    ASSUME Inv, [Next]_vars, NEW l \in LinkIds, links[l] # Nil,
           links'[l].status = links[l].status
    PROVE  /\ now' = now => Phase(l)' = Phase(l)
           /\ \/ Phase(l)' = Phase(l)
              \/ Phase(l) = "open" /\ Phase(l)' = "closed"
<1>1. links[l].expires_at \in Nat /\ now \in Nat
  BY DEF Inv, TypeInv, TypeOK, Links
<1>2. links'[l] # Nil /\ links'[l].expires_at = links[l].expires_at
  BY LinkKept
<1>3. now' \in Nat /\ now <= now'
  BY ClockGrows
<1>4. ~(links[l].expires_at > now) => ~(links[l].expires_at > now')
  BY <1>1, <1>3
<1>5. IsLive(links[l])' => IsLive(links[l])
  BY <1>2, <1>4 DEF IsLive
<1>6. now' = now => (IsLive(links[l])' <=> IsLive(links[l]))
  BY <1>2 DEF IsLive
<1>7. Phase(l) = (IF IsLive(links[l]) THEN "open" ELSE "closed")
  BY DEF Phase
<1>8. Phase(l)' = (IF IsLive(links[l])' THEN "open" ELSE "closed")
  BY <1>2 DEF Phase
<1> QED
  BY <1>5, <1>6, <1>7, <1>8

\* How a step of the portal treats one link.
Promised(l) ==
    \/ /\ Phase(l) = "unminted" /\ Phase(l)' # "unminted"
       /\ InFlight(l)' = InFlight(l) /\ accepted'[l] = accepted[l]
    \/ /\ Phase(l) = "open" /\ Phase(l)' = "closed"
       /\ InFlight(l)' = InFlight(l) /\ accepted'[l] = accepted[l]
    \/ /\ Phase(l)' = Phase(l)
       /\ InFlight(l)' = InFlight(l) /\ accepted'[l] = accepted[l]
    \/ \E h \in Handlers :
         /\ Phase(l) = "open" /\ Phase(l)' = "open"
         /\ h \notin InFlight(l) /\ InFlight(l)' = InFlight(l) \cup {h}
         /\ accepted'[l] = accepted[l]
    \/ \E h \in Handlers :
         /\ h \in InFlight(l) /\ InFlight(l)' = InFlight(l) \ {h}
         /\ Phase(l)' = Phase(l) /\ accepted'[l] = accepted[l]
    \/ \E h \in Handlers :
         /\ h \in InFlight(l) /\ InFlight(l)' = InFlight(l) \ {h}
         /\ Phase(l)' = "closed" /\ accepted'[l] = accepted[l] + 1

LEMMA OtherStepPromised ==
    ASSUME Inv, [Next]_vars, NEW l \in LinkIds,
           ~ \E h \in Handlers : UploadStep(h)
    PROVE  Promised(l)
<1>1. InFlight(l)' = InFlight(l)
  BY OtherSteps DEF InFlight
<1>2. /\ accepted'[l] = accepted[l]
      /\ links[l] # Nil => links'[l].status = links[l].status
  BY Spending
<1>3. CASE links[l] = Nil
  BY <1>1, <1>2, <1>3 DEF Promised, Phase
<1>4. CASE links[l] # Nil
  BY <1>1, <1>2, <1>4, PhaseStep DEF Promised
<1> QED
  BY <1>3, <1>4

LEMMA UploadStepPromised ==
    ASSUME Inv, [Next]_vars, NEW l \in LinkIds,
           NEW h \in Handlers, UploadStep(h)
    PROVE  Promised(l)
<1>1. now' = now
  BY UploadFrame
<1>2. \A g \in Handlers \ {h} : uploads'[g] = uploads[g]
  BY UploadLocal
<1>3. l # Nil
  BY NoRecordIsNil
<1>4. \/ InFlight(l)' = InFlight(l)
      \/ h \in InFlight(l) /\ InFlight(l)' = InFlight(l) \ {h}
      \/ /\ h \notin InFlight(l) /\ InFlight(l)' = InFlight(l) \cup {h}
         /\ uploads'[h] # Nil /\ uploads'[h].link = l
  BY <1>2 DEF InFlight
<1>5. h \in InFlight(l) => links[l] # Nil
  BY <1>3 DEF InFlight, Inv, TypeInv, WellFormed
<1>6. ASSUME NEW g \in Handlers, UploadStep(g), uploads[g] # Nil,
             uploads[g].link = l, uploads'[g] = Nil, links'[l] # Nil,
             links'[l].status = "submitted", accepted'[l] = accepted[l] + 1
      PROVE  Promised(l)
  <2>1. g = h
    BY <1>2, <1>6
  <2>2. h \in InFlight(l) /\ InFlight(l)' = InFlight(l) \ {h}
    BY <1>2, <1>6, <2>1 DEF InFlight
  <2>3. Phase(l)' = "closed"
    BY <1>6 DEF Phase, IsLive
  <2> QED
    BY <1>6, <2>2, <2>3 DEF Promised
<1>7. CASE /\ accepted'[l] = accepted[l]
           /\ links[l] # Nil => links'[l].status = links[l].status
  <2>1. CASE links[l] = Nil
    <3>1. h \notin InFlight(l)
      BY <1>5, <2>1
    <3>2. ~(h \in InFlight(l)')
      <4>1. ASSUME NEW k \in LinkIds, OpenLink(h, k), uploads'[h].link = k
            PROVE  k # l
        BY <2>1, <4>1 DEF OpenLink
      <4> QED
        BY <3>1, <1>3, <4>1, OpenedLink DEF InFlight
    <3>3. InFlight(l)' = InFlight(l)
      BY <1>4, <3>1, <3>2
    <3> QED
      BY <1>7, <2>1, <3>3 DEF Promised, Phase
  <2>2. CASE links[l] # Nil
    <3>1. Phase(l)' = Phase(l)
      BY <1>1, <1>7, <2>2, PhaseStep
    <3>2. CASE InFlight(l)' = InFlight(l) \/ h \in InFlight(l)
      BY <1>4, <1>7, <3>1, <3>2 DEF Promised
    <3>3. CASE /\ h \notin InFlight(l) /\ InFlight(l)' = InFlight(l) \cup {h}
               /\ uploads'[h] # Nil /\ uploads'[h].link = l
      <4>1. OpenLink(h, l)
        BY <1>3, <3>3, OpenedLink DEF InFlight
      <4>2. Phase(l) = "open"
        BY <4>1 DEF OpenLink, Phase
      <4> QED
        BY <1>7, <3>1, <3>3, <4>2 DEF Promised
    <3> QED
      BY <1>4, <3>2, <3>3
  <2> QED
    BY <2>1, <2>2
<1> QED
  BY <1>6, <1>7, Spending

\* The mapping of types.
LEMMA LinkTypes == Inv => Link!TypeOK
<1> SUFFICES ASSUME Inv PROVE Link!TypeOK
  OBVIOUS
<1>1. \A l \in LinkIds : Phase(l) \in {"unminted", "open", "closed"}
  BY DEF Phase
<1>2. [l \in LinkIds |-> Phase(l)] \in [LinkIds -> {"unminted", "open", "closed"}]
  BY <1>1
<1>3. [l \in LinkIds |-> InFlight(l)] \in [LinkIds -> SUBSET Handlers]
  BY DEF InFlight
<1>4. accepted \in [LinkIds -> Nat]
  BY DEF Inv, TypeInv, TypeOK
<1> QED
  BY <1>2, <1>3, <1>4 DEF Link!TypeOK, Phase

LEMMA LinkStepImplemented ==
    ASSUME Inv, Inv', [Next]_vars
    PROVE  Link!Next
<1>1. \A l \in LinkIds : Promised(l)
  BY OtherStepPromised, UploadStepPromised
<1>2. ASSUME NEW l \in LinkIds
      PROVE  \/ Link!Mint(l) \/ Link!RunOut(l) \/ Link!Stays(l)
             \/ \E h \in Handlers :
                  Link!Take(l, h) \/ Link!GiveUp(l, h) \/ Link!Spend(l, h)
  BY <1>1
  DEF Promised, Phase, Link!Mint, Link!RunOut, Link!Stays, Link!Take,
      Link!GiveUp, Link!Spend
<1>3. Link!TypeOK'
  BY LinkTypes, PTL
<1> QED
  BY <1>2, <1>3 DEF Link!Next

\* Refinement: the portal implements the promise of a link.
THEOREM PortalKeepsPromise == Spec => KeepsPromise
<1>1. Init => Link!Init
  BY DEF Init, Link!Init, InFlight
<1>2. Inv /\ Inv' /\ [Next]_vars => [Link!Next]_(Link!promise)
  BY LinkStepImplemented
<1> QED
  BY <1>1, <1>2, Invariance, PTL DEF Spec, KeepsPromise, Link!Spec

\* What the promise is good for: a closed link that no upload holds is neither
\* opened nor spent again.
THEOREM PortalLinksStayClosed == Spec => Link!ClosedStaysClosed
<1> DEFINE phases  == [l \in LinkIds |-> IF links[l] = Nil THEN "unminted"
                                         ELSE IF IsLive(links[l]) THEN "open"
                                         ELSE "closed"]
           holders == [l \in LinkIds |-> InFlight(l)]
<1>1. Link!Next => \A l \in LinkIds :
        phases[l] = "closed" /\ holders[l] = {} =>
            holders'[l] = {} /\ accepted'[l] = accepted[l]
  BY DEF Link!Next, Link!Mint, Link!RunOut, Link!Stays, Link!Take, Link!GiveUp,
         Link!Spend
<1>2. [Link!Next]_(Link!promise) =>
        [\A l \in LinkIds :
           phases[l] = "closed" /\ holders[l] = {} =>
               holders'[l] = {} /\ accepted'[l] = accepted[l]]_(Link!promise)
  BY <1>1
<1> QED
  BY <1>2, PortalKeepsPromise, PTL
  DEF KeepsPromise, Link!Spec, Link!ClosedStaysClosed

-----------------------------------------------------------------------------
(* How often a link is spent is how many uploads hold it at once.          *)

HeldByAtMost(K) == \A l \in LinkIds : Cardinality(InFlight(l)) <= K

\* What a spent link has accepted and may yet accept.
SpentByHolders(K) ==
    \A l \in LinkIds :
        accepted[l] # 0 => accepted[l] + Cardinality(InFlight(l)) <= K

LEMMA HoldersStep ==
    ASSUME NEW K \in Nat, Inv, SpendsBounded, HeldByAtMost(K), SpentByHolders(K),
           [Next]_vars
    PROVE  SpentByHolders(K)'
<1> SUFFICES ASSUME NEW l \in LinkIds, accepted'[l] # 0
             PROVE  accepted'[l] + Cardinality(InFlight(l)') <= K
  BY DEF SpentByHolders
<1> DEFINE before == Cardinality(InFlight(l))
           after  == Cardinality(InFlight(l)')
<1>1. /\ IsFiniteSet(InFlight(l)) /\ before \in Nat /\ accepted[l] \in Nat
      /\ before <= K
      /\ accepted[l] # 0 => accepted[l] + before <= K
  BY InFlightFinite DEF Inv, TypeInv, TypeOK, HeldByAtMost, SpentByHolders
<1>2. CASE accepted'[l] = accepted[l]
  <2>1. links[l] # Nil => ~ IsLive(links[l])
    BY <1>2 DEF SpendsBounded, IsLive
  <2>2. InFlight(l)' \subseteq InFlight(l)
    BY <2>1, InFlightShrinks
  <2>3. after \in Nat /\ after <= before
    BY <1>1, <2>2, FS_Subset, FS_CardinalityType
  <2> HIDE DEF before, after
  <2>4. accepted[l] + after <= K
    BY <1>1, <1>2, <2>3
  <2> QED
    BY <1>2, <2>4 DEF after
<1>3. ASSUME NEW h \in Handlers, UploadStep(h),
             uploads[h] # Nil, uploads[h].link = l, uploads'[h] = Nil,
             accepted'[l] = accepted[l] + 1
      PROVE  accepted'[l] + after <= K
  <2>1. h \in InFlight(l) /\ InFlight(l)' = InFlight(l) \ {h}
    BY <1>3, UploadLocal DEF InFlight
  <2>2. after \in Nat /\ after = before - 1
    BY <1>1, <2>1, FS_RemoveElement, FS_CardinalityType
  <2> HIDE DEF before, after
  <2> QED
    BY <1>1, <1>3, <2>2
<1> QED
  BY <1>2, <1>3, Spending

LEMMA HoldersBound ==
    ASSUME NEW K \in Nat, Inv, SpentByHolders(K), NEW l \in LinkIds
    PROVE  accepted[l] <= K
<1>1. accepted[l] \in Nat /\ Cardinality(InFlight(l)) \in Nat
  BY InFlightFinite DEF Inv, TypeInv, TypeOK
<1>2. accepted[l] # 0 => accepted[l] + Cardinality(InFlight(l)) <= K
  BY DEF SpentByHolders
<1> QED
  BY <1>1, <1>2

\* The race of the one-time check is all there is to it: a link that at no time
\* more than K uploads hold accepts at most K (require_live, submit_upload).
THEOREM AcceptsNoMoreThanHeld ==
    ASSUME NEW K \in Nat
    PROVE  Spec /\ []HeldByAtMost(K) => [](\A l \in LinkIds : accepted[l] <= K)
<1>1. Init => SpentByHolders(K)
  BY DEF Init, SpentByHolders
<1>2. Inv /\ SpendsBounded /\ HeldByAtMost(K) /\ SpentByHolders(K) /\ [Next]_vars
        => SpentByHolders(K)'
  BY HoldersStep
<1>3. Inv /\ SpentByHolders(K) => \A l \in LinkIds : accepted[l] <= K
  BY HoldersBound
<1> QED
  BY <1>1, <1>2, <1>3, Invariance, SpendsAreBounded, PTL DEF Spec

\* "One-time" holds of every link that no two uploads hold at once (API.md).
THEOREM OneAtATimeSpendsOnce == Spec /\ []HeldByAtMost(1) => []OneTimeUse
<1>1. Init => SpentByHolders(1)
  BY DEF Init, SpentByHolders
<1>2. Inv /\ SpendsBounded /\ HeldByAtMost(1) /\ SpentByHolders(1) /\ [Next]_vars
        => SpentByHolders(1)'
  BY HoldersStep
<1>3. Inv /\ SpentByHolders(1) => OneTimeUse
  BY HoldersBound DEF OneTimeUse
<1> QED
  BY <1>1, <1>2, <1>3, Invariance, SpendsAreBounded, PTL DEF Spec

-----------------------------------------------------------------------------
(* Rows are told apart by their dedup key.                                 *)

DedupUnique ==
    \A d, e \in DocIds :
        Exists(d) /\ Exists(e) /\ DedupKey(docs[d]) = DedupKey(docs[e]) => d = e

\* A step leaves the keys of all rows alone, or writes one row whose key no
\* other row has.
LEMMA DedupKeyStep ==
    ASSUME Inv, [Next]_vars
    PROVE  \/ \A d \in DocIds : Exists(d)' =>
                Exists(d) /\ DedupKey(docs'[d]) = DedupKey(docs[d])
           \/ \E x \in DocIds :
                /\ \A d \in DocIds \ {x} : docs'[d] = docs[d]
                /\ Matching(docs'[x]) \subseteq {x}
<1>1. docs \in [DocIds -> Rows \cup {Nil, Gone}]
  BY DEF Inv, TypeInv, TypeOK
<1>2. ASSUME NEW h \in Handlers, NEW x \in DocIds, CommitInsert(h, x)
      PROVE  /\ \A d \in DocIds \ {x} : docs'[d] = docs[d]
             /\ Matching(docs'[x]) \subseteq {x}
  BY <1>1, <1>2 DEF CommitInsert
<1>3. ASSUME NEW p \in Patchers, CommitPatch(p)
      PROVE  /\ patches[p].id \in DocIds
             /\ \A d \in DocIds \ {patches[p].id} : docs'[d] = docs[d]
             /\ Matching(docs'[patches[p].id]) \subseteq {patches[p].id}
  <2>1. patches[p].id \in DocIds
    BY <1>3 DEF CommitPatch, Inv, TypeInv, TypeOK, Patches
  <2> QED
    BY <1>1, <1>3, <2>1 DEF CommitPatch
<1>4. ASSUME ~ \E h \in Handlers, x \in DocIds : CommitInsert(h, x),
             ~ \E p \in Patchers : CommitPatch(p),
             NEW d \in DocIds, Exists(d)'
      PROVE  Exists(d) /\ DedupKey(docs'[d]) = DedupKey(docs[d])
  <2>1. CASE docs'[d] = docs[d]
    BY <1>4, <2>1 DEF Exists
  <2>2. CASE Exists(d) /\ \E h \in Handlers : CommitUpdate(h) /\ uploads[h].id = d
    BY <2>2, UpdateKeeps DEF DedupKey
  <2> QED
    BY <1>4, <2>1, <2>2, RowStep DEF Exists
<1> QED
  BY <1>2, <1>3, <1>4

LEMMA DedupUniqueStep ==
    ASSUME Inv, DedupUnique, [Next]_vars
    PROVE  DedupUnique'
<1> SUFFICES ASSUME NEW d \in DocIds, NEW e \in DocIds, Exists(d)', Exists(e)',
                    DedupKey(docs'[d]) = DedupKey(docs'[e]), d # e
             PROVE  FALSE
  BY DEF DedupUnique
<1>1. CASE \A x \in DocIds : Exists(x)' =>
             Exists(x) /\ DedupKey(docs'[x]) = DedupKey(docs[x])
  BY <1>1 DEF DedupUnique
<1>2. ASSUME NEW x \in DocIds, \A y \in DocIds \ {x} : docs'[y] = docs[y],
             Matching(docs'[x]) \subseteq {x}
      PROVE  FALSE
  <2>1. CASE x = d
    BY <1>2, <2>1 DEF Matching, Exists
  <2>2. CASE x = e
    BY <1>2, <2>2 DEF Matching, Exists
  <2>3. CASE x # d /\ x # e
    BY <1>2, <2>3 DEF DedupUnique, Exists
  <2> QED
    BY <2>1, <2>2, <2>3
<1> QED
  BY <1>1, <1>2, DedupKeyStep

\* Two rows never agree in tenant, case, file name and type, though uploads
\* write rows without looking at the constraint again (document_dedup_key).
THEOREM RowsAreDeduplicated == Spec => []DedupUnique
<1>1. Init => DedupUnique
  BY DEF Init, DedupUnique, Exists
<1>2. Inv /\ DedupUnique /\ [Next]_vars => DedupUnique'
  BY DedupUniqueStep
<1> QED
  BY <1>1, <1>2, Invariance, PTL DEF Spec

-----------------------------------------------------------------------------
(* When a URL identifies its row.  The type in a URL is the one the file   *)
(* was uploaded under, which is that of the row unless a PATCH moved it.   *)

TypesUnpatched ==
    \A p \in Patchers : patches[p] # Nil =>
        patches[p].new.document_type = patches[p].seen.document_type

UrlOfType(row) == row.s3_url[3] = row.document_type

TypedUpload(u, rows) ==
    /\ u.pc # "save" => UrlOfType(u.row)
    /\ u.id # Nil => /\ rows[u.id] # Nil
                     /\ rows[u.id] # Gone =>
                          rows[u.id].document_type = u.row.document_type

TypedUrls ==
    /\ \A d \in DocIds : Exists(d) => UrlOfType(docs[d])
    /\ \A h \in Handlers : uploads[h] # Nil => TypedUpload(uploads[h], docs)

LEMMA TypeStays ==
    ASSUME Inv, TypesUnpatched, [Next]_vars, NEW d \in DocIds, Exists(d), Exists(d)'
    PROVE  docs'[d].document_type = docs[d].document_type
<1>1. CASE \E h \in Handlers : CommitUpdate(h) /\ uploads[h].id = d
  BY <1>1, UpdateKeeps
<1>2. ASSUME NEW p \in Patchers, CommitPatch(p), patches[p].id = d
      PROVE  docs'[d].document_type = docs[d].document_type
  <2>1. /\ patches[p] # Nil
        /\ docs' = [docs EXCEPT ![d] = OrmUpdate(docs[d], patches[p].seen, patches[p].new)]
    BY <1>2 DEF CommitPatch
  <2>2. docs[d] \in Rows /\ docs \in [DocIds -> Rows \cup {Nil, Gone}]
    BY DEF Inv, TypeInv, TypeOK, Exists
  <2>3. docs'[d] = OrmUpdate(docs[d], patches[p].seen, patches[p].new)
    BY <2>1, <2>2
  <2>4. patches[p].new.document_type = patches[p].seen.document_type
    BY <2>1 DEF TypesUnpatched
  <2> QED
    BY <2>2, <2>3, <2>4 DEF OrmUpdate, Rows
<1> QED
  BY <1>1, <1>2, RowStep DEF Exists

LEMMA TypedUploadStep ==
    ASSUME Inv, TypesUnpatched, TypedUrls, [Next]_vars,
           NEW h \in Handlers, uploads'[h] # Nil
    PROVE  TypedUpload(uploads'[h], docs')
<1>1. CASE uploads'[h] = uploads[h]
  <2>1. uploads[h] \in Uploads /\ TypedUpload(uploads[h], docs)
    BY <1>1 DEF TypedUrls, Inv, TypeInv, TypeOK
  <2>2. ASSUME uploads[h].id # Nil
        PROVE  /\ docs'[uploads[h].id] # Nil
               /\ docs'[uploads[h].id] # Gone =>
                    docs'[uploads[h].id].document_type = uploads[h].row.document_type
    <3>1. uploads[h].id \in DocIds /\ docs[uploads[h].id] # Nil
      BY <2>1, <2>2 DEF Uploads, TypedUpload
    <3>2. docs'[uploads[h].id] # Nil
      BY <3>1, RowStaysBorn
    <3>3. docs[uploads[h].id] = Gone => docs'[uploads[h].id] = Gone
      BY <3>1, RowStep, Markers DEF Exists
    <3> QED
      BY <2>1, <2>2, <3>1, <3>2, <3>3, TypeStays DEF TypedUpload, Exists
  <2> QED
    BY <1>1, <2>1, <2>2 DEF TypedUpload
<1>2. CASE UploadStep(h)
  <2>1. CASE uploads'[h].pc = "save" /\ uploads'[h].id = Nil
    BY <2>1 DEF TypedUpload
  <2>2. CASE uploads'[h].id = Nil /\ FreshRow(uploads'[h].row)
    BY <2>2 DEF TypedUpload, FreshRow, UrlOfType
  <2>3. CASE OcrSucceeds(h) \/ OcrFails(h)
    <3>1. /\ uploads[h] # Nil /\ uploads[h].pc = "ocr" /\ uploads'[h].id = Nil
          /\ uploads'[h].row.document_type = uploads[h].row.document_type
          /\ uploads'[h].row.s3_url = uploads[h].row.s3_url
      BY <2>3, OcrAdds
    <3> QED
      BY <3>1 DEF TypedUrls, TypedUpload, UrlOfType
  <2>4. CASE FindExisting(h)
    <3>1. /\ uploads[h] # Nil /\ uploads[h].pc = "find" /\ docs' = docs
          /\ uploads'[h].row = uploads[h].row
          /\ uploads'[h].id = Nil \/ uploads'[h].id \in Matching(uploads[h].row)
      BY <2>4, FindAdds
    <3>2. UrlOfType(uploads'[h].row)
      BY <3>1 DEF TypedUrls, TypedUpload
    <3>3. CASE uploads'[h].id \in Matching(uploads[h].row)
      BY <3>1, <3>2, <3>3 DEF TypedUpload, Matching, Exists, DedupKey
    <3> QED
      BY <3>1, <3>2, <3>3 DEF TypedUpload
  <2> QED
    BY <1>2, <2>1, <2>2, <2>3, <2>4, UploadPlans
<1> QED
  BY <1>1, <1>2, OtherSteps, UploadLocal

LEMMA TypedRowStep ==
    ASSUME Inv, TypesUnpatched, TypedUrls, [Next]_vars,
           NEW d \in DocIds, Exists(d)'
    PROVE  UrlOfType(docs'[d])
<1>1. CASE docs'[d] = docs[d]
  BY <1>1 DEF TypedUrls, Exists
<1>2. ASSUME NEW h \in Handlers, CommitInsert(h, d)
      PROVE  UrlOfType(docs'[d])
  <2>1. docs'[d] = uploads[h].row /\ uploads[h] # Nil /\ uploads[h].pc = "commit"
    BY <1>2 DEF CommitInsert, Inv, TypeInv, TypeOK
  <2> QED
    BY <2>1 DEF TypedUrls, TypedUpload
<1>3. ASSUME Exists(d), NEW h \in Handlers, CommitUpdate(h), uploads[h].id = d
      PROVE  UrlOfType(docs'[d])
  <2> DEFINE u == uploads[h]
  <2>1. u \in Uploads /\ WellFormed(u, links) /\ u # Nil /\ u.pc = "commit"
    BY <1>3 DEF CommitUpdate, Inv, TypeInv, TypeOK
  <2>2. u.row \in Rows /\ u.seen \in Rows /\ docs[d] \in Rows /\ u.id # Nil
    BY <1>3, <2>1 DEF WellFormed, Inv, TypeInv, TypeOK, Exists, CommitUpdate
  <2>3. docs'[d] = OrmUpdate(docs[d], u.seen, AssignUpload(u))
    BY <1>3 DEF CommitUpdate, Inv, TypeInv, TypeOK
  <2>4. AssignUpload(u).s3_url = u.row.s3_url
    BY <2>2 DEF AssignUpload, Rows
  <2>5. /\ docs'[d].document_type = docs[d].document_type
        /\ docs[d].document_type = u.row.document_type
        /\ UrlOfType(u.row) /\ UrlOfType(docs[d])
    BY <1>3, <2>1, <2>2, UpdateKeeps DEF TypedUrls, TypedUpload, Exists
  <2>6. docs'[d].s3_url \in {docs[d].s3_url, u.row.s3_url}
    BY <2>2, <2>3, <2>4 DEF OrmUpdate, Rows
  <2> QED
    BY <2>5, <2>6 DEF UrlOfType
<1>4. ASSUME Exists(d), NEW p \in Patchers, CommitPatch(p), patches[p].id = d
      PROVE  UrlOfType(docs'[d])
  <2>1. docs'[d].document_type = docs[d].document_type
    BY <1>4, TypeStays
  <2>2. docs'[d].s3_url = docs[d].s3_url
    <3>1. "s3_url" \in DOMAIN docs[d]
      BY <1>4 DEF Exists, Inv, TypeInv, TypeOK, Rows
    <3> QED
      BY <1>4, <3>1, PatchKeeps
  <2> QED
    BY <1>4, <2>1, <2>2 DEF TypedUrls, UrlOfType
<1> QED
  BY <1>1, <1>2, <1>3, <1>4, RowStep DEF Exists

\* The URL of a row starts with the slug of the row's case and ends in its name.
LEMMA UrlsNameTheirCase ==
    Spec => [](\A d \in DocIds : Exists(d) =>
                  /\ docs[d].s3_url[1] = Slugify[docs[d].owner_ref]
                  /\ docs[d].s3_url[4] = docs[d].file_name)
<1>1. LocationInv => \A d \in DocIds : Exists(d) =>
                  /\ docs[d].s3_url[1] = Slugify[docs[d].owner_ref]
                  /\ docs[d].s3_url[4] = docs[d].file_name
  BY DEF LocationInv, RowsLocated, Located
<1> QED
  BY <1>1, LocationInvariance, PTL

\* Two rows share a URL only across tenants, across references of one slug, or
\* after a PATCH moved a row to another type (serve_file).
THEOREM SharedUrlsAreOfTwoCases ==
    Spec /\ []TypesUnpatched =>
        [](\A d, e \in DocIds :
             /\ Exists(d) /\ Exists(e) /\ docs[d].s3_url = docs[e].s3_url
             /\ docs[d].tenant_id = docs[e].tenant_id
             /\ docs[d].owner_ref = docs[e].owner_ref
             => d = e)
<1>1. Init => TypedUrls
  BY DEF Init, TypedUrls, Exists
<1>2. Inv /\ TypesUnpatched /\ TypedUrls /\ [Next]_vars => TypedUrls'
  BY TypedUploadStep, TypedRowStep DEF TypedUrls
<1>3. /\ TypedUrls /\ DedupUnique
      /\ \A d \in DocIds : Exists(d) =>
            /\ docs[d].s3_url[1] = Slugify[docs[d].owner_ref]
            /\ docs[d].s3_url[4] = docs[d].file_name
      =>
        \A d, e \in DocIds :
             /\ Exists(d) /\ Exists(e) /\ docs[d].s3_url = docs[e].s3_url
             /\ docs[d].tenant_id = docs[e].tenant_id
             /\ docs[d].owner_ref = docs[e].owner_ref
             => d = e
  BY DEF TypedUrls, UrlOfType, DedupUnique, DedupKey
<1> QED
  BY <1>1, <1>2, <1>3, Invariance, RowsAreDeduplicated, UrlsNameTheirCase, PTL
  DEF Spec

-----------------------------------------------------------------------------
(* When a row with status "done" has its text and its sidecar.  An update  *)
(* writes the columns that differ from what the upload saw, so two uploads *)
(* that saw the same row can leave a mixture; one at a time, each leaves   *)
(* the outcome of its own OCR (a failure may come with the text).          *)

OneUploadPerRow ==
    \A g, h \in Handlers :
        /\ uploads[g] # Nil /\ uploads[h] # Nil
        /\ uploads[g].id # Nil /\ uploads[g].id = uploads[h].id
        => g = h

OcrAgrees(row) ==
    row.ocr_status = "done" => row.ocr_text # Nil /\ row.s3_url_ocr_json # Nil

OcrColumns == {"ocr_status", "ocr_text", "s3_url_ocr_json"}

OcrUpload(u, rows) ==
    /\ u.pc # "save" => OcrAgrees(u.row)
    /\ u.id # Nil => /\ rows[u.id] # Nil
                     /\ rows[u.id] # Gone =>
                          \A column \in OcrColumns :
                              rows[u.id][column] = u.seen[column]

OcrInv ==
    /\ \A d \in DocIds : Exists(d) => OcrAgrees(docs[d])
    /\ \A h \in Handlers : uploads[h] # Nil => OcrUpload(uploads[h], docs)

\* What an upload saw of a row's OCR columns is what it finds when it commits.
LEMMA OcrSeenStays ==
    ASSUME Inv, OneUploadPerRow, [Next]_vars, NEW h \in Handlers,
           uploads[h] # Nil, uploads'[h] = uploads[h], uploads[h].id # Nil,
           OcrUpload(uploads[h], docs)
    PROVE  /\ docs'[uploads[h].id] # Nil
           /\ docs'[uploads[h].id] # Gone =>
                \A column \in OcrColumns :
                    docs'[uploads[h].id][column] = uploads[h].seen[column]
<1> DEFINE d == uploads[h].id
<1>1. /\ d \in DocIds /\ docs[d] # Nil
      /\ docs[d] # Gone =>
           \A column \in OcrColumns : docs[d][column] = uploads[h].seen[column]
  BY DEF Inv, TypeInv, TypeOK, Uploads, OcrUpload
<1> HIDE DEF d
<1>2. docs'[d] # Nil
  BY <1>1, RowStaysBorn
<1>3. ASSUME docs'[d] # Gone, NEW column \in OcrColumns
      PROVE  docs'[d][column] = uploads[h].seen[column]
  <2>1. CASE docs'[d] = docs[d]
    BY <1>1, <1>3, <2>1
  <2>2. ASSUME NEW g \in Handlers, CommitUpdate(g), uploads[g].id = d PROVE FALSE
    <3>1. uploads[g] # Nil /\ uploads'[g] = Nil
      BY <2>2 DEF CommitUpdate, Inv, TypeInv, TypeOK
    <3>2. g = h
      BY <2>2, <3>1 DEF OneUploadPerRow, d
    <3> QED
      BY <3>1, <3>2
  <2>3. ASSUME Exists(d), NEW p \in Patchers, CommitPatch(p), patches[p].id = d
        PROVE  docs'[d][column] = docs[d][column]
    <3>1. column \in DOMAIN docs[d] /\ column \notin {"document_type", "metadata"}
      BY <1>1, <2>3 DEF Exists, Inv, TypeInv, TypeOK, Rows, OcrColumns
    <3> QED
      BY <2>3, <3>1, PatchKeeps
  <2> QED
    BY <1>1, <1>3, <2>1, <2>2, <2>3, RowStep DEF Exists
<1> QED
  BY <1>2, <1>3 DEF d

LEMMA OcrUploadStep ==
    ASSUME Inv, OneUploadPerRow, OcrInv, [Next]_vars,
           NEW h \in Handlers, uploads'[h] # Nil
    PROVE  OcrUpload(uploads'[h], docs')
<1>1. CASE uploads'[h] = uploads[h]
  <2>1. OcrUpload(uploads[h], docs)
    BY <1>1 DEF OcrInv
  <2>2. uploads[h].id # Nil =>
          /\ docs'[uploads[h].id] # Nil
          /\ docs'[uploads[h].id] # Gone =>
               \A column \in OcrColumns :
                   docs'[uploads[h].id][column] = uploads[h].seen[column]
    BY <1>1, <2>1, OcrSeenStays
  <2> QED
    BY <1>1, <2>1, <2>2 DEF OcrUpload
<1>2. CASE UploadStep(h)
  <2>1. CASE uploads'[h].pc = "save" /\ uploads'[h].id = Nil
    BY <2>1 DEF OcrUpload
  <2>2. CASE uploads'[h].id = Nil /\ FreshRow(uploads'[h].row)
    BY <2>2 DEF OcrUpload, FreshRow, OcrAgrees
  <2>3. CASE OcrSucceeds(h) \/ OcrFails(h)
    <3>1. /\ uploads[h] # Nil /\ uploads[h].pc = "ocr"
          /\ uploads'[h].pc = "find" /\ uploads'[h].id = Nil
          /\ \/ /\ uploads'[h].row.ocr_status = "done"
                /\ uploads'[h].row.ocr_text # Nil
                /\ uploads'[h].row.s3_url_ocr_json # Nil
             \/ uploads'[h].row.ocr_status = "failed"
      BY <2>3, OcrAdds
    <3>2. OcrAgrees(uploads'[h].row)
      BY <3>1 DEF OcrAgrees
    <3> QED
      BY <3>1, <3>2 DEF OcrUpload
  <2>4. CASE FindExisting(h)
    <3>1. /\ uploads[h] # Nil /\ uploads[h].pc = "find" /\ docs' = docs
          /\ uploads'[h].pc = "commit" /\ uploads'[h].row = uploads[h].row
          /\ \/ uploads'[h].id = Nil
             \/ /\ uploads'[h].id \in Matching(uploads[h].row)
                /\ uploads'[h].seen = docs[uploads'[h].id]
      BY <2>4, FindAdds
    <3>2. OcrAgrees(uploads'[h].row)
      BY <3>1 DEF OcrInv, OcrUpload
    <3> QED
      BY <3>1, <3>2 DEF OcrUpload, Matching, Exists
  <2> QED
    BY <1>2, <2>1, <2>2, <2>3, <2>4, UploadPlans
<1> QED
  BY <1>1, <1>2, OtherSteps, UploadLocal

LEMMA OcrRowStep ==
    ASSUME Inv, OcrInv, [Next]_vars, NEW d \in DocIds, Exists(d)'
    PROVE  OcrAgrees(docs'[d])
<1>1. CASE docs'[d] = docs[d]
  BY <1>1 DEF OcrInv, Exists
<1>2. ASSUME NEW h \in Handlers, CommitInsert(h, d)
      PROVE  OcrAgrees(docs'[d])
  <2>1. docs'[d] = uploads[h].row /\ uploads[h] # Nil /\ uploads[h].pc = "commit"
    BY <1>2 DEF CommitInsert, Inv, TypeInv, TypeOK
  <2> QED
    BY <2>1 DEF OcrInv, OcrUpload
<1>3. ASSUME Exists(d), NEW h \in Handlers, CommitUpdate(h), uploads[h].id = d
      PROVE  OcrAgrees(docs'[d])
  <2> DEFINE u == uploads[h]
  <2>1. u \in Uploads /\ WellFormed(u, links) /\ u # Nil /\ u.pc = "commit"
    BY <1>3 DEF CommitUpdate, Inv, TypeInv, TypeOK
  <2>2. u.row \in Rows /\ u.seen \in Rows /\ docs[d] \in Rows /\ u.id # Nil
    BY <1>3, <2>1 DEF WellFormed, Inv, TypeInv, TypeOK, Exists, CommitUpdate
  <2>3. docs'[d] = OrmUpdate(docs[d], u.seen, AssignUpload(u))
    BY <1>3 DEF CommitUpdate, Inv, TypeInv, TypeOK
  <2>4. \A column \in OcrColumns : AssignUpload(u)[column] = u.row[column]
    BY <2>2 DEF AssignUpload, Rows, OcrColumns
  <2>5. \A column \in OcrColumns : docs[d][column] = u.seen[column]
    BY <1>3, <2>1, <2>2 DEF OcrInv, OcrUpload, Exists
  <2>6. \A column \in OcrColumns : column \in DOMAIN docs[d]
    BY <2>2 DEF Rows, OcrColumns
  <2>7. \A column \in OcrColumns : docs'[d][column] = u.row[column]
    BY <2>3, <2>4, <2>5, <2>6 DEF OrmUpdate
  <2>8. OcrAgrees(u.row)
    BY <2>1 DEF OcrInv, OcrUpload
  <2> QED
    BY <2>7, <2>8 DEF OcrAgrees, OcrColumns
<1>4. ASSUME Exists(d), NEW p \in Patchers, CommitPatch(p), patches[p].id = d
      PROVE  OcrAgrees(docs'[d])
  <2>1. ASSUME NEW column \in OcrColumns PROVE docs'[d][column] = docs[d][column]
    <3>1. column \in DOMAIN docs[d] /\ column \notin {"document_type", "metadata"}
      BY <1>4 DEF Exists, Inv, TypeInv, TypeOK, Rows, OcrColumns
    <3> QED
      BY <1>4, <3>1, PatchKeeps
  <2> QED
    BY <1>4, <2>1 DEF OcrInv, OcrAgrees, OcrColumns
<1> QED
  BY <1>1, <1>2, <1>3, <1>4, RowStep DEF Exists

\* A row is "done" without its text (against SPEC section 4) only after two
\* uploads that had both found it: store_local_document alone keeps them together.
THEOREM DoneHasTextOneAtATime == Spec /\ []OneUploadPerRow => []DoneHasText
<1>1. Init => OcrInv
  BY DEF Init, OcrInv, Exists
<1>2. Inv /\ OneUploadPerRow /\ OcrInv /\ [Next]_vars => OcrInv'
  BY OcrUploadStep, OcrRowStep DEF OcrInv
<1>3. OcrInv => DoneHasText
  BY DEF OcrInv, OcrAgrees, DoneHasText
<1> QED
  BY <1>1, <1>2, <1>3, Invariance, PTL DEF Spec
=============================================================================
