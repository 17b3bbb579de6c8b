--------------------------- MODULE ApiRequestsProofs ---------------------------
(***************************************************************************)
(* Theorems of TenantDirectory and ApiRequests, for every value of their   *)
(* constants.                                                              *)
(***************************************************************************)
EXTENDS ApiRequests, FiniteSetTheorems, TLAPS

-----------------------------------------------------------------------------
(* The tenant of the staff portal. *)

\* Those among which the portal looks for its tenant.
Candidates == IF portal_tenant_name = Nil THEN Known ELSE Named(portal_tenant_name)

\* A tenant that was served stays a candidate: rows are neither renamed nor
\* removed.  Whoever is served later is the only candidate, hence the same one.
DirectoryInv ==
    /\ DirectoryOK
    /\ served \subseteq Candidates
    /\ \A s, t \in served : s = t

LEMMA DirectoryInvInit == DirectoryInit => DirectoryInv
BY DEF DirectoryInit, DirectoryInv, DirectoryOK

\* A step that keeps `served` and every row there is.
LEMMA CandidatesStay ==
    ASSUME DirectoryInv,
           portal_tenant_name' = portal_tenant_name, served' = served,
           \A t \in TenantIds : tenant[t] # Nil => tenant'[t] = tenant[t]
    PROVE  served' \subseteq Candidates'
BY DEF DirectoryInv, DirectoryOK, Candidates, Known, Named

LEMMA DirectoryStep ==
    ASSUME DirectoryInv, DirectoryNext
    PROVE  DirectoryInv'
<1>1. ASSUME NEW c \in Creators, NEW name \in TenantNames, NEW key \in ApiKeys,
             CheckName(c, name, key)
      PROVE  DirectoryInv'
  <2>1. DirectoryOK'
    BY <1>1 DEF DirectoryInv, DirectoryOK, CheckName, TenantRows
  <2>2. served' \subseteq Candidates'
    BY <1>1, CandidatesStay DEF CheckName
  <2> QED
    BY <1>1, <2>1, <2>2 DEF DirectoryInv, CheckName
<1>2. ASSUME NEW c \in Creators, NEW t \in TenantIds, InsertTenant(c, t)
      PROVE  DirectoryInv'
  <2>1. DirectoryOK'
    BY <1>2 DEF DirectoryInv, DirectoryOK, InsertTenant
  <2>2. \A s \in TenantIds : tenant[s] # Nil => tenant'[s] = tenant[s]
    BY <1>2 DEF DirectoryInv, DirectoryOK, InsertTenant
  <2>3. served' \subseteq Candidates'
    BY <1>2, <2>2, CandidatesStay DEF InsertTenant
  <2> QED
    BY <1>2, <2>1, <2>3 DEF DirectoryInv, InsertTenant
<1>3. ASSUME NEW c \in Creators, AbortCreate(c)
      PROVE  DirectoryInv'
  <2>1. DirectoryOK'
    BY <1>3 DEF DirectoryInv, DirectoryOK, AbortCreate
  <2>2. served' \subseteq Candidates'
    BY <1>3, CandidatesStay DEF AbortCreate
  <2> QED
    BY <1>3, <2>1, <2>2 DEF DirectoryInv, AbortCreate
<1>4. ASSUME NEW t \in TenantIds, StaffRequest(t)
      PROVE  DirectoryInv'
  <2>1. Candidates = {t}
    BY <1>4 DEF StaffRequest, OnlyOneOf, Candidates
  <2>2. Candidates' = Candidates
    BY <1>4 DEF StaffRequest, Candidates, Known, Named
  <2>3. served' \subseteq {t}
    BY <1>4, <2>1 DEF StaffRequest, DirectoryInv
  <2>4. DirectoryOK'
    BY <1>4 DEF DirectoryInv, DirectoryOK, StaffRequest
  <2> QED
    BY <2>1, <2>2, <2>3, <2>4 DEF DirectoryInv
<1> QED
  BY <1>1, <1>2, <1>3, <1>4 DEF DirectoryNext

LEMMA DirectoryStutter ==
    ASSUME DirectoryInv, UNCHANGED directoryVars
    PROVE  DirectoryInv'
BY DEF DirectoryInv, DirectoryOK, directoryVars, Candidates, Known, Named

LEMMA DirectoryInvariance == ApiSpec => []DirectoryInv
<1>1. ApiInit => DirectoryInv
  BY DirectoryInvInit DEF ApiInit
<1>2. DirectoryInv /\ [ApiNext]_apiVars => DirectoryInv'
  BY DirectoryStep, DirectoryStutter DEF ApiNext, apiVars
<1> QED
  BY <1>1, <1>2, PTL DEF ApiSpec

\* The staff portal works for one tenant at most, whichever runs of
\* create_tenant race, with and without a configured name.
THEOREM PortalNeverChangesTenant == ApiSpec => []PortalKeepsItsTenant
<1>1. ASSUME DirectoryInv
      PROVE  PortalKeepsItsTenant
  <2>1. CASE served = {}
    BY <2>1, FS_EmptySet DEF PortalKeepsItsTenant
  <2>2. CASE served # {}
    <3>1. PICK t \in served : TRUE
      BY <2>2
    <3>2. served = {t}
      BY <1>1, <3>1 DEF DirectoryInv
    <3>3. Cardinality({t}) = 1
      BY FS_Singleton
    <3> QED
      BY <3>2, <3>3 DEF PortalKeepsItsTenant
  <2> QED
    BY <2>1, <2>2
<1> QED
  BY <1>1, DirectoryInvariance, PTL

-----------------------------------------------------------------------------
(* Pages.  What a pass over the pages of GET /v1/documents can miss, for   *)
(* every number of documents and changes and every page size: the place    *)
(* of a row in the order, and how far one change can move it.              *)

Place(d) == Cardinality(Newer(matching, d))

LEMMA SubsetsAreFinite ==
    ASSUME NEW S \in SUBSET Documents
    PROVE  IsFiniteSet(S) /\ Cardinality(S) \in Nat
BY ListingConstants, FS_Subset, FS_CardinalityType

LEMMA SmallerSubset ==
    ASSUME NEW S \in SUBSET Documents, NEW T \in SUBSET S
    PROVE  Cardinality(T) <= Cardinality(S)
BY SubsetsAreFinite, FS_Subset

LEMMA StrictlySmaller ==
    ASSUME NEW S \in SUBSET Documents, NEW T \in SUBSET S, NEW x \in S, x \notin T
    PROVE  Cardinality(T) < Cardinality(S)
<1>1. IsFiniteSet(S) /\ IsFiniteSet(T) /\ Cardinality(S) \in Nat /\ Cardinality(T) \in Nat
  BY SubsetsAreFinite
<1>2. Cardinality(T) <= Cardinality(S) /\ Cardinality(S) # Cardinality(T)
  BY <1>1, FS_Subset
<1> QED
  BY <1>1, <1>2

LEMMA UnionSize ==
    ASSUME NEW S \in SUBSET Documents, NEW T \in SUBSET Documents
    PROVE  /\ Cardinality(S \cup T) <= Cardinality(S) + Cardinality(T)
           /\ S \cap T = {} => Cardinality(S \cup T) = Cardinality(S) + Cardinality(T)
<1>1. /\ IsFiniteSet(S) /\ IsFiniteSet(T)
      /\ Cardinality(S) \in Nat /\ Cardinality(T) \in Nat
  BY SubsetsAreFinite
<1>2. S \cap T \in SUBSET Documents
  OBVIOUS
<1>3. Cardinality(S \cap T) \in Nat
  BY <1>2, SubsetsAreFinite
<1>4. Cardinality(S \cup T)
        = Cardinality(S) + Cardinality(T) - Cardinality(S \cap T)
  BY <1>1, FS_Union
<1>5. S \cap T = {} => Cardinality(S \cap T) = 0
  BY FS_EmptySet
<1> QED
  BY <1>1, <1>3, <1>4, <1>5

LEMMA NewerIsSmaller ==
    ASSUME ListingOK, NEW d \in matching
    PROVE  /\ Newer(matching, d) \in SUBSET matching
           /\ d \notin Newer(matching, d)
BY DEF ListingOK, Newer

LEMMA PlaceType ==
    ASSUME ListingOK, NEW d \in matching
    PROVE  Place(d) \in Nat /\ Place(d) < Cardinality(matching)
<1>1. matching \in SUBSET Documents
  BY DEF ListingOK
<1> QED
  BY <1>1, NewerIsSmaller, StrictlySmaller, SubsetsAreFinite DEF Place

\* Rows of different created_at have different places.
LEMMA PlacesDiffer ==
    ASSUME ListingOK, NEW d \in matching, NEW e \in matching, d # e, Untied(d)
    PROVE  Place(d) # Place(e)
<1>1. /\ matching \in SUBSET Documents
      /\ created_at[d] \in Int /\ created_at[e] \in Int /\ created_at[d] # created_at[e]
  BY DEF ListingOK, Untied
<1>2. ASSUME NEW x \in matching, NEW y \in matching, created_at[x] \in Int,
             created_at[y] \in Int, created_at[x] > created_at[y]
      PROVE  Place(x) < Place(y)
  <2>1. Newer(matching, x) \subseteq Newer(matching, y)
    BY <1>2 DEF Newer, ListingOK
  <2>2. x \in Newer(matching, y) /\ x \notin Newer(matching, x)
    BY <1>2, NewerIsSmaller DEF Newer
  <2>3. Newer(matching, y) \in SUBSET Documents
    BY <1>1 DEF Newer
  <2> QED
    BY <2>1, <2>2, <2>3, StrictlySmaller DEF Place
<1>3. Place(d) \in Nat /\ Place(e) \in Nat
  BY PlaceType
<1>4. CASE created_at[d] > created_at[e]
  BY <1>1, <1>2, <1>3, <1>4
<1>5. CASE created_at[e] > created_at[d]
  BY <1>1, <1>2, <1>3, <1>5
<1> QED
  BY <1>1, <1>4, <1>5

\* So a window of places holds no more untied rows than it is long.
LEMMA WindowHoldsFew ==
    ASSUME ListingOK, NEW a \in Nat, NEW n \in Nat, NEW S \in SUBSET matching,
           \A d \in S : Untied(d) /\ a <= Place(d) /\ Place(d) < a + n
    PROVE  Cardinality(S) <= n
<1> DEFINE f == [d \in S |-> Place(d)]
           W == a..(a + n - 1)
<1>1. \A d \in S : Place(d) \in W
  BY PlaceType
<1>2. \A d, e \in S : Place(d) = Place(e) => d = e
  BY PlacesDiffer
<1>3. f \in Injection(S, W)
  BY <1>1, <1>2 DEF Injection, IsInjective
<1>4. IsFiniteSet(W) /\ Cardinality(W) = n
  <2>1. a \in Int /\ a + n - 1 \in Int
    OBVIOUS
  <2>2. Cardinality(W) = IF a > a + n - 1 THEN 0 ELSE (a + n - 1) - a + 1
    BY <2>1, FS_Interval
  <2> QED
    BY <2>1, <2>2, FS_Interval
<1> HIDE DEF f, W
<1> QED
  BY <1>3, <1>4, FS_Injection

-----------------------------------------------------------------------------
(* What a page shows. *)

\* An untied row in the window of a page, or before it, that the page does not
\* show has its place before the page.
LEMMA PageShowsItsWindow ==
    ASSUME ListingOK, NEW page \in SUBSET matching,
           Cardinality(page) = PageSize(matching, pass.offset),
           NewestFirst(matching, pass.offset, page),
           NEW d \in matching \ page, Untied(d),
           Place(d) < pass.offset + PageLimit
    PROVE  Place(d) < pass.offset
<1> DEFINE n == Cardinality(matching)
           o == pass.offset
<1>1. PICK before \in SUBSET (matching \ page) :
        /\ Cardinality(before) = IF o < n THEN o ELSE n
        /\ \A e \in before : Newer(matching, e) \subseteq before
        /\ \A e \in page : Newer(matching, e) \subseteq before \cup page
  BY DEF NewestFirst
<1>2. /\ matching \in SUBSET Documents /\ n \in Nat
      /\ o \in Nat /\ PageLimit \in Nat
      /\ \A e \in matching : created_at[e] \in Int
  BY SubsetsAreFinite, ListingConstants DEF ListingOK, Passes
<1>3. Place(d) \in Nat /\ Place(d) < n
  BY PlaceType
<1>4. CASE d \in before
  <2>1. Newer(matching, d) \subseteq before /\ d \notin Newer(matching, d)
    BY <1>1, <1>4, NewerIsSmaller
  <2>2. Place(d) < Cardinality(before)
    BY <1>2, <1>4, <2>1, StrictlySmaller DEF Place
  <2> QED
    BY <1>1, <1>2, <1>3, <2>2
<1>5. CASE d \notin before
  <2> DEFINE shown == before \cup page
  <2>1. \A e \in shown : e \in Newer(matching, d)
    <3> SUFFICES ASSUME NEW e \in shown, e \notin Newer(matching, d)
                 PROVE  FALSE
      OBVIOUS
    <3>1. e \in matching /\ e # d
      BY <1>5
    <3>2. created_at[d] > created_at[e]
      BY <1>2, <3>1 DEF Newer, Untied
    <3>3. d \in Newer(matching, e)
      BY <3>2 DEF Newer
    <3> QED
      BY <1>1, <1>5, <3>3
  <2>2. Cardinality(shown) <= Place(d)
    BY <1>2, <2>1, NewerIsSmaller, SmallerSubset DEF Place
  <2>3. Cardinality(shown) = Cardinality(before) + Cardinality(page)
    <3>1. /\ before \in SUBSET Documents /\ page \in SUBSET Documents
          /\ before \cap page = {}
      BY <1>2
    <3> QED
      BY <3>1, UnionSize
  <2>4. CASE n <= o
    BY <1>2, <1>3, <2>4
  <2>5. CASE o < n
    <3>1. Cardinality(before) = o
      BY <1>1, <2>5
    <3>2. Cardinality(page) = IF n - o < PageLimit THEN n - o ELSE PageLimit
      BY <1>2, <2>5 DEF PageSize
    <3> HIDE DEF n, o, shown
    <3> QED
      BY <1>2, <1>3, <2>2, <2>3, <2>5, <3>1, <3>2 DEF o
  <2> QED
    BY <1>2, <2>4, <2>5
<1> QED
  BY <1>4, <1>5

-----------------------------------------------------------------------------
(* The invariant. *)

\* What the pages did not show so far, and what of it they cannot show any more
\* because it moved in front of the next offset.
Missed  == {d \in pass.steady \ pass.got : Untied(d)}
Skipped == {d \in Missed : Place(d) < pass.offset}

MissInv ==
    /\ ListingOK
    /\ pass.steady \subseteq matching
    /\ \A d \in matching : created_at[d] # -1
    /\ pass.pc = "page" => Cardinality(matching) <= pass.total + pass.late
    /\ pass.pc # "end" => Cardinality(Skipped) <= pass.left
    /\ MissesBounded

LEMMA MissedType ==
    ASSUME MissInv
    PROVE  /\ Missed \in SUBSET matching /\ Skipped \in SUBSET Missed
           /\ matching \in SUBSET Documents
           /\ Cardinality(Missed) \in Nat /\ Cardinality(Skipped) \in Nat
           /\ Cardinality(matching) \in Nat
           /\ pass.left \in Nat /\ pass.late \in Nat /\ pass.total \in Nat
           /\ pass.offset \in Nat
<1>1. /\ Missed \in SUBSET matching /\ Skipped \in SUBSET Missed
      /\ matching \in SUBSET Documents
  BY DEF MissInv, ListingOK, Missed, Skipped
<1>2. Missed \in SUBSET Documents /\ Skipped \in SUBSET Documents
  BY <1>1
<1> QED
  BY <1>1, <1>2, SubsetsAreFinite DEF MissInv, ListingOK, Passes

\* A pass begins.
Begins ==
    /\ matching \subseteq Documents /\ clock \in Nat
    /\ created_at \in [Documents -> Nat \cup {-1}]
    /\ \A d \in matching : created_at[d] # -1
    /\ pass = FirstPage

LEMMA FirstPageMisses == Begins => MissInv
<1> SUFFICES ASSUME Begins PROVE MissInv
  OBVIOUS
<1> USE DEF Begins
<1>1. ListingOK
  BY DEF ListingOK, Passes, FirstPage
<1>2. /\ pass.pc = "total" /\ pass.steady = matching /\ pass.offset = 0
      /\ pass.left = 0
  BY DEF FirstPage
<1>3. Skipped = {}
  <2>1. \A d \in matching : Place(d) \in Nat
    BY <1>1, PlaceType
  <2> QED
    BY <1>2, <2>1 DEF Skipped, Missed
<1>4. Cardinality(Skipped) <= pass.left
  BY <1>2, <1>3, FS_EmptySet
<1> QED
  BY <1>1, <1>2, <1>4 DEF MissInv, MissesBounded

-----------------------------------------------------------------------------
(* It is kept. *)

LEMMA UploadMisses ==
    ASSUME MissInv, NEW d \in Documents, BeginUpload(d)
    PROVE  MissInv'
<1> USE DEF MissInv
<1>1. d \notin matching /\ pass' = pass /\ matching' = matching
  BY DEF BeginUpload
<1>2. \A e \in Documents : e # d => created_at'[e] = created_at[e]
  BY DEF BeginUpload, ListingOK
<1>3. ListingOK' /\ \A e \in matching' : created_at'[e] # -1
  BY <1>1, <1>2 DEF BeginUpload, ListingOK
<1>4. \A e \in matching : Place(e)' = Place(e)
  <2>1. ASSUME NEW e \in matching PROVE Newer(matching, e)' = Newer(matching, e)
    BY <1>1, <1>2, <2>1 DEF Newer, ListingOK
  <2> QED
    BY <2>1, <1>1 DEF Place
<1>5. \A e \in matching : Untied(e)' => Untied(e)
  <2> SUFFICES ASSUME NEW e \in matching, Untied(e)', NEW x \in Documents \ {e}
               PROVE  created_at[x] # created_at[e]
    BY DEF Untied
  <2>1. created_at'[x] # created_at'[e] /\ created_at'[e] = created_at[e]
    BY <1>1, <1>2 DEF Untied, ListingOK
  <2>2. x = d => created_at[x] = -1
    BY DEF BeginUpload
  <2> QED
    BY <1>2, <2>1, <2>2
<1>6. Missed' \subseteq Missed /\ Skipped' \subseteq Skipped
  BY <1>1, <1>4, <1>5 DEF Missed, Skipped, ListingOK
<1>7. Cardinality(Missed') <= Cardinality(Missed)
      /\ Cardinality(Skipped') <= Cardinality(Skipped)
  BY <1>6, MissedType, SmallerSubset
<1>8. Cardinality(Skipped') \in Nat /\ Cardinality(Missed') \in Nat
  BY <1>6, MissedType, SubsetsAreFinite
<1>9. pass'.pc # "end" => Cardinality(Skipped') <= pass'.left
  BY <1>1, <1>7, <1>8, MissedType
<1>10. pass'.pc = "end" => Cardinality(Missed') <= pass'.left + pass'.late
  BY <1>1, <1>7, <1>8, MissedType DEF MissesBounded, Missed
<1> QED
  BY <1>1, <1>3, <1>9, <1>10 DEF MissesBounded, Missed

LEMMA AppearMisses ==
    ASSUME MissInv, NEW d \in Documents, Appear(d)
    PROVE  MissInv'
<1> USE DEF MissInv
<1>1. /\ matching' = matching \cup {d} /\ d \notin matching
      /\ created_at' = created_at /\ created_at[d] # -1
  BY DEF Appear
<1>2. /\ pass'.pc = pass.pc /\ pass'.offset = pass.offset /\ pass'.got = pass.got
      /\ pass'.steady = pass.steady /\ pass'.left = pass.left
      /\ pass'.total = pass.total
      /\ pass.pc = "page" => pass'.late = pass.late + 1
      /\ pass.pc # "page" => pass' = pass
      /\ pass' \in Passes
  BY DEF Appear, ListingOK, Passes
<1>3. ListingOK' /\ \A e \in matching' : created_at'[e] # -1
  BY <1>1, <1>2 DEF Appear, ListingOK
<1>4. \A e \in matching : Place(e) <= Place(e)'
  <2> SUFFICES ASSUME NEW e \in matching PROVE Place(e) <= Place(e)'
    OBVIOUS
  <2>1. Newer(matching, e) \subseteq Newer(matching, e)'
    BY <1>1 DEF Newer
  <2>2. Newer(matching, e)' \in SUBSET Documents
    BY <1>3 DEF Newer, ListingOK
  <2> QED
    BY <2>1, <2>2, SmallerSubset DEF Place
<1>5. \A e \in matching : Place(e) \in Nat /\ Place(e)' \in Nat
  <2> SUFFICES ASSUME NEW e \in matching PROVE Place(e)' \in Nat
    BY PlaceType
  <2>1. Newer(matching, e)' \in SUBSET Documents
    BY <1>3 DEF Newer, ListingOK
  <2> QED
    BY <2>1, SubsetsAreFinite DEF Place
<1>6. Missed' = Missed
  BY <1>1, <1>2 DEF Missed, Untied
<1>7. Skipped' \subseteq Skipped
  BY <1>2, <1>4, <1>5, <1>6, MissedType DEF Skipped
<1>8. Cardinality(Skipped') <= Cardinality(Skipped) /\ Cardinality(Skipped') \in Nat
  BY <1>7, MissedType, SmallerSubset, SubsetsAreFinite
<1>9. pass'.pc # "end" => Cardinality(Skipped') <= pass'.left
  BY <1>2, <1>8, MissedType
<1>10. pass'.pc = "page" => Cardinality(matching') <= pass'.total + pass'.late
  <2>1. Cardinality(matching') = Cardinality(matching) + 1
    BY <1>1, MissedType, SubsetsAreFinite, FS_AddElement
  <2> QED
    BY <1>2, <2>1, MissedType
<1>11. MissesBounded'
  BY <1>2, <1>6 DEF MissesBounded, Missed
<1> QED
  BY <1>1, <1>2, <1>3, <1>9, <1>10, <1>11

\* A row that goes pulls at most one untied row over the next offset.
LEMMA DisappearMisses ==
    ASSUME MissInv, NEW d \in Documents, Disappear(d)
    PROVE  MissInv'
<1> USE DEF MissInv
<1>1. /\ matching' = matching \ {d} /\ d \in matching /\ created_at' = created_at
  BY DEF Disappear
<1>2. /\ pass'.pc = pass.pc /\ pass'.offset = pass.offset /\ pass'.got = pass.got
      /\ pass'.steady = pass.steady \ {d} /\ pass'.left = pass.left + 1
      /\ pass'.total = pass.total /\ pass'.late = pass.late
      /\ pass' \in Passes
  <2>1. pass' = [pass EXCEPT !.steady = @ \ {d}, !.left = @ + 1]
    BY DEF Disappear
  <2>2. pass \in Passes /\ pass.left + 1 \in Nat
    BY MissedType DEF ListingOK
  <2>3. pass.steady \ {d} \in SUBSET Documents
    BY MissedType
  <2> QED
    BY <2>1, <2>2, <2>3 DEF Passes
<1>3. /\ ListingOK' /\ pass'.steady \subseteq matching'
      /\ \A e \in matching' : created_at'[e] # -1
  <2>1. clock' = clock
    BY DEF Disappear
  <2>2. ListingOK'
    BY <1>1, <1>2, <2>1 DEF ListingOK
  <2>3. pass'.steady \subseteq matching'
    BY <1>1, <1>2
  <2> QED
    BY <1>1, <2>2, <2>3
<1>4. \A e \in matching' : Place(e)' \in Nat /\ Place(e) <= Place(e)' + 1
  <2> SUFFICES ASSUME NEW e \in matching'
               PROVE  Place(e)' \in Nat /\ Place(e) <= Place(e)' + 1
    OBVIOUS
  <2>1. Newer(matching, e) \subseteq Newer(matching, e)' \cup {d}
    BY <1>1 DEF Newer
  <2>2. Newer(matching, e)' \in SUBSET Documents /\ {d} \in SUBSET Documents
    BY <1>3 DEF Newer, ListingOK
  <2>3. Newer(matching, e)' \cup {d} \in SUBSET Documents
    BY <2>2
  <2>4. Cardinality(Newer(matching, e)' \cup {d})
          <= Cardinality(Newer(matching, e)') + 1
    BY <2>2, UnionSize, FS_Singleton
  <2>5. Cardinality(Newer(matching, e)) <= Cardinality(Newer(matching, e)' \cup {d})
    BY <2>1, <2>3, SmallerSubset
  <2>6. Newer(matching, e) \in SUBSET Documents
    BY <2>1, <2>3
  <2>7. /\ Cardinality(Newer(matching, e)') \in Nat
        /\ Cardinality(Newer(matching, e)) \in Nat
        /\ Cardinality(Newer(matching, e)' \cup {d}) \in Nat
    BY <2>2, <2>3, <2>6, SubsetsAreFinite
  <2> QED
    BY <2>4, <2>5, <2>7 DEF Place
<1>5. Missed' \subseteq Missed \ {d}
  BY <1>1, <1>2 DEF Missed, Untied
<1> DEFINE edge == {e \in Missed : Place(e) = pass.offset}
<1>6. Skipped' \subseteq Skipped \cup edge
  <2> SUFFICES ASSUME NEW e \in Skipped', e \notin edge PROVE e \in Skipped
    OBVIOUS
  <2>1. e \in Missed /\ e \in matching /\ e \in matching'
    BY <1>1, <1>5, MissedType DEF Skipped
  <2>2. Place(e)' < pass.offset /\ Place(e) # pass.offset /\ Place(e) \in Nat
    BY <1>2, <2>1, PlaceType DEF Skipped
  <2>3. Place(e) < pass.offset
    BY <1>4, <2>1, <2>2, MissedType
  <2> QED
    BY <2>1, <2>3 DEF Skipped
<1>7. Cardinality(edge) <= 1 /\ edge \in SUBSET Documents
  <2>1. edge \in SUBSET matching
    BY MissedType
  <2>2. \A e \in edge : /\ Untied(e) /\ pass.offset <= Place(e)
                        /\ Place(e) < pass.offset + 1
    BY MissedType DEF Missed
  <2> HIDE DEF edge
  <2> QED
    BY <2>1, <2>2, WindowHoldsFew, MissedType
<1> HIDE DEF edge
<1>8. Cardinality(Skipped') <= Cardinality(Skipped) + 1
  <2>1. Skipped \in SUBSET Documents /\ Skipped \cup edge \in SUBSET Documents
    BY <1>7, MissedType
  <2>2. /\ Cardinality(Skipped') <= Cardinality(Skipped \cup edge)
        /\ Cardinality(Skipped \cup edge) <= Cardinality(Skipped) + Cardinality(edge)
    BY <1>6, <1>7, <2>1, SmallerSubset, UnionSize
  <2>3. /\ Skipped' \in SUBSET Documents
        /\ Cardinality(Skipped') \in Nat /\ Cardinality(edge) \in Nat
        /\ Cardinality(Skipped \cup edge) \in Nat
    BY <1>6, <1>7, <2>1, SubsetsAreFinite
  <2> QED
    BY <1>7, <2>2, <2>3, MissedType
<1>9. pass'.pc # "end" => Cardinality(Skipped') <= pass'.left
  <2>1. Cardinality(Skipped') \in Nat
    BY <1>6, <1>7, MissedType, SubsetsAreFinite
  <2> QED
    BY <1>2, <1>8, <2>1, MissedType
<1>10. /\ Cardinality(matching') <= Cardinality(matching)
       /\ Cardinality(matching') \in Nat
  BY <1>1, MissedType, SmallerSubset, SubsetsAreFinite
<1>11. /\ Cardinality(Missed') <= Cardinality(Missed)
       /\ Cardinality(Missed') \in Nat
  BY <1>5, MissedType, SmallerSubset, SubsetsAreFinite
<1>12. pass'.pc = "end" => Cardinality(Missed') <= pass'.left + pass'.late
  BY <1>2, <1>11, MissedType DEF MissesBounded, Missed
<1>13. pass'.pc = "page" => Cardinality(matching') <= pass'.total + pass'.late
  BY <1>2, <1>10, MissedType
<1> QED
  BY <1>3, <1>9, <1>12, <1>13 DEF MissesBounded, Missed

LEMMA SelectTotalMisses ==
    ASSUME MissInv, SelectTotal
    PROVE  MissInv'
<1> USE DEF MissInv
<1>1. UNCHANGED <<clock, created_at, matching>>
  BY DEF SelectTotal
<1>2. /\ pass.pc = "total" /\ pass'.pc = "page"
      /\ pass'.offset = pass.offset /\ pass'.got = pass.got
      /\ pass'.steady = pass.steady /\ pass'.left = pass.left
      /\ pass'.total = Cardinality(matching) /\ pass'.late = 0
      /\ pass' \in Passes
  BY MissedType DEF SelectTotal, ListingOK, Passes
<1>3. Skipped' = Skipped
  BY <1>1, <1>2 DEF Skipped, Missed, Untied, Place, Newer
<1> QED
  BY <1>1, <1>2, <1>3, MissedType DEF ListingOK, MissesBounded

\* A page: what it does not show of its window was skipped before; after the
\* last one, only rows that came since the total lie beyond it.
LEMMA SelectPageMisses ==
    ASSUME MissInv, NEW page \in SUBSET matching, SelectPage(page)
    PROVE  MissInv'
<1> USE DEF MissInv
<1> DEFINE next == pass.offset + PageLimit
           unseen == {d \in Missed \ page : Place(d) < next}
           beyond == {d \in Missed \ page : Place(d) >= next}
<1>1. UNCHANGED <<clock, created_at, matching>> /\ pass.pc = "page"
  BY DEF SelectPage
<1>2. /\ pass'.got = pass.got \cup page /\ pass'.steady = pass.steady
      /\ pass'.left = pass.left /\ pass'.total = pass.total
      /\ pass'.late = pass.late /\ pass' \in Passes
      /\ \/ pass'.pc = "total" /\ pass'.offset = next
         \/ pass'.pc = "end" /\ next >= pass.total
  <2> DEFINE shown == pass.got \cup page
  <2>1. /\ pass \in Passes /\ next \in Nat /\ pass.total \in Nat
        /\ shown \in SUBSET Documents
    BY MissedType, ListingConstants DEF ListingOK, Passes
  <2>2. \/ /\ next < pass.total
           /\ pass' = [pass EXCEPT !.pc = "total", !.offset = next, !.got = shown]
        \/ /\ ~(next < pass.total)
           /\ pass' = [pass EXCEPT !.pc = "end", !.got = shown]
    BY DEF SelectPage
  <2> HIDE DEF next, shown
  <2>3. CASE pass' = [pass EXCEPT !.pc = "total", !.offset = next, !.got = shown]
    BY <2>1, <2>3 DEF Passes, shown
  <2>4. CASE /\ ~(next < pass.total)
             /\ pass' = [pass EXCEPT !.pc = "end", !.got = shown]
    <3>1. next >= pass.total
      BY <2>1, <2>4
    <3>2. /\ pass' \in Passes /\ pass'.pc = "end" /\ pass'.got = shown
          /\ pass'.steady = pass.steady /\ pass'.left = pass.left
          /\ pass'.total = pass.total /\ pass'.late = pass.late
      BY <2>1, <2>4 DEF Passes
    <3> QED
      BY <3>1, <3>2 DEF shown
  <2> QED
    BY <2>2, <2>3, <2>4
<1>3. ListingOK'
  BY <1>1, <1>2 DEF ListingOK
<1>4. unseen \subseteq Skipped
  <2> SUFFICES ASSUME NEW d \in unseen PROVE Place(d) < pass.offset
    BY DEF Skipped
  <2>1. d \in matching \ page /\ Untied(d)
    BY MissedType DEF Missed
  <2> QED
    BY <2>1, PageShowsItsWindow DEF SelectPage
<1>5. Cardinality(unseen) <= pass.left
  <2>1. Skipped \in SUBSET Documents /\ unseen \in SUBSET Documents
    BY MissedType
  <2>2. Cardinality(unseen) <= Cardinality(Skipped) /\ Cardinality(unseen) \in Nat
    BY <1>4, <2>1, SmallerSubset, SubsetsAreFinite
  <2> HIDE DEF unseen
  <2> QED
    BY <1>1, <2>2, MissedType
<1>6. Missed' = Missed \ page
  BY <1>1, <1>2 DEF Missed, Untied
<1>7. CASE pass'.pc = "total" /\ pass'.offset = next
  <2>1. Skipped' = unseen
    BY <1>1, <1>6, <1>7 DEF Skipped, Place, Newer
  <2> QED
    BY <1>1, <1>2, <1>3, <1>5, <1>7, <2>1 DEF MissesBounded
<1>8. CASE pass'.pc = "end" /\ next >= pass.total
  <2>1. Cardinality(beyond) <= pass.late
    <3>1. beyond \in SUBSET matching
      BY MissedType
    <3>2. \A d \in beyond : /\ Untied(d) /\ pass.total <= Place(d)
                            /\ Place(d) < pass.total + pass.late
      <4> SUFFICES ASSUME NEW d \in beyond
                   PROVE  /\ Untied(d) /\ pass.total <= Place(d)
                          /\ Place(d) < pass.total + pass.late
        OBVIOUS
      <4>1. d \in matching /\ Untied(d)
        BY MissedType DEF Missed
      <4>2. Place(d) \in Nat /\ Place(d) < Cardinality(matching)
        BY <4>1, PlaceType
      <4> QED
        BY <1>1, <1>8, <4>1, <4>2, MissedType, ListingConstants
    <3> HIDE DEF beyond
    <3> QED
      BY <3>1, <3>2, WindowHoldsFew, MissedType
  <2>2. Missed' = unseen \cup beyond
    <3>1. \A d \in Missed : Place(d) \in Nat
      BY PlaceType, MissedType
    <3>2. next \in Nat
      BY MissedType, ListingConstants
    <3> HIDE DEF next
    <3> QED
      BY <1>6, <3>1, <3>2
  <2>3. unseen \in SUBSET Documents /\ beyond \in SUBSET Documents
    BY MissedType
  <2> HIDE DEF unseen, beyond
  <2>4. /\ Cardinality(Missed') <= Cardinality(unseen) + Cardinality(beyond)
        /\ Cardinality(Missed') \in Nat
        /\ Cardinality(unseen) \in Nat /\ Cardinality(beyond) \in Nat
    BY <2>2, <2>3, UnionSize, SubsetsAreFinite
  <2>5. Cardinality(Missed') <= pass'.left + pass'.late
    BY <1>2, <1>5, <2>1, <2>4, MissedType
  <2> QED
    BY <1>1, <1>2, <1>3, <1>8, <2>5 DEF MissesBounded, Missed
<1> QED
  BY <1>2, <1>7, <1>8

LEMMA ListingStep ==
    ASSUME MissInv, [ApiNext]_apiVars
    PROVE  MissInv'
<1>1. CASE Request
  BY <1>1, UploadMisses, SelectTotalMisses DEF Request
<1>2. CASE Background
  <2>1. CASE Advance
    <3>1. UNCHANGED <<created_at, matching, pass>> /\ clock' \in Nat
      BY <2>1 DEF Advance, MissInv, ListingOK
    <3> QED
      BY <3>1 DEF MissInv, ListingOK, Skipped, Missed, Untied, Place, Newer,
                  MissesBounded
  <2>2. CASE StartAgain
    <3>1. Begins'
      BY <2>2 DEF StartAgain, Begins, FirstPage, MissInv, ListingOK
    <3> QED
      BY <3>1, FirstPageMisses, PTL
  <2> QED
    BY <1>2, <2>1, <2>2, AppearMisses, DisappearMisses, SelectPageMisses
    DEF Background
<1>3. CASE UNCHANGED listingVars
  BY <1>3 DEF listingVars, MissInv, ListingOK, Skipped, Missed, Untied, Place,
              Newer, MissesBounded
<1> QED
  BY <1>1, <1>2, <1>3 DEF ApiNext, apiVars

\* A pass over the pages misses, of the rows that have a created_at of their own
\* and matched all along, at most as many as stopped to match meanwhile and as
\* came between the last total and its page.
THEOREM PassesMissFew == ApiSpec => []MissesBounded
<1>1. ApiInit => MissInv
  BY FirstPageMisses DEF ApiInit, ListingInit, Begins
<1>2. MissInv => MissesBounded
  BY DEF MissInv
<1> QED
  BY <1>1, <1>2, ListingStep, PTL DEF ApiSpec
=============================================================================
