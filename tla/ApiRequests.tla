----------------------------- MODULE ApiRequests -----------------------------
(***************************************************************************)
(* The requests of one API caller on the tenants create_tenant makes: each *)
(* looks its key up (get_current_tenant) before it reads or writes the     *)
(* tenant's documents, in the transaction it goes on with.                 *)
(***************************************************************************)
EXTENDS TenantDirectory, DocumentListing

CONSTANT CallerKey      \* the Authorization header of the caller

ASSUME CallerHasKey == CallerKey \in ApiKeys

apiVars == <<directoryVars, listingVars>>

\* 401 for a key that no row, or more than one row, has.
GetCurrentTenant(key) == \E t \in TenantIds : Holders(key) = {t}

ApiInit == DirectoryInit /\ ListingInit

\* The requests that begin with the key, and what goes on without it.
Request ==
    /\ GetCurrentTenant(CallerKey)
    /\ \/ \E d \in Documents : BeginUpload(d)
       \/ SelectTotal

Background ==
    \/ Advance
    \/ \E d \in Documents : Appear(d) \/ Disappear(d)
    \/ \E page \in SUBSET matching : SelectPage(page)
    \/ StartAgain

ApiNext ==
    \/ DirectoryNext /\ UNCHANGED listingVars
    \/ (Request \/ Background) /\ UNCHANGED directoryVars

ApiSpec == ApiInit /\ [][ApiNext]_apiVars
=============================================================================
