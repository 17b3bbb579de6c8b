---------------------------- MODULE TenantDirectory ----------------------------
(***************************************************************************)
(* Table tenant: scripts/create_tenant.py fills it, API requests look their *)
(* key up in it, and the staff portal finds the tenant it works for.  Names *)
(* carry no unique constraint; the script checks them and inserts later.   *)
(***************************************************************************)
EXTENDS Naturals, FiniteSets

CONSTANTS
    TenantIds,      \* uuids a tenant may get
    TenantNames,
    ApiKeys,        \* given with --api-key, or drawn
    Creators,       \* runs of create_tenant at a time
    Nil

VARIABLES
    tenant,             \* table tenant: id -> row or Nil
    creators,           \* arguments of the runs past their check
    portal_tenant_name, \* settings, fixed when the service starts; Nil: unset
    served              \* history: tenants the staff portal worked for

directoryVars == <<tenant, creators, portal_tenant_name, served>>

TenantRows == [name : TenantNames, api_key : ApiKeys]

ASSUME NoTenantIsNil == Nil \notin TenantRows /\ Nil \notin TenantNames

DirectoryOK ==
    /\ tenant \in [TenantIds -> TenantRows \cup {Nil}]
    /\ creators \in [Creators -> TenantRows \cup {Nil}]
    /\ portal_tenant_name \in TenantNames \cup {Nil}
    /\ served \subseteq TenantIds

DirectoryInit ==
    /\ tenant = [t \in TenantIds |-> Nil]
    /\ creators = [c \in Creators |-> Nil]
    /\ portal_tenant_name \in TenantNames \cup {Nil}
    /\ served = {}

Known == {t \in TenantIds : tenant[t] # Nil}
Named(name) == {t \in Known : tenant[t].name = name}
Holders(key) == {t \in Known : tenant[t].api_key = key}

\* create_tenant up to its INSERT.  A name that is taken ends the run, and so
\* do two rows that have it (scalar_one_or_none raises).
CheckName(c, name, key) ==
    /\ creators[c] = Nil
    /\ Named(name) = {}
    /\ creators' = [creators EXCEPT ![c] = [name |-> name, api_key |-> key]]
    /\ UNCHANGED <<tenant, portal_tenant_name, served>>

\* The INSERT commits; api_key is unique.
InsertTenant(c, t) ==
    /\ creators[c] # Nil
    /\ tenant[t] = Nil
    /\ Holders(creators[c].api_key) = {}
    /\ tenant' = [tenant EXCEPT ![t] = creators[c]]
    /\ creators' = [creators EXCEPT ![c] = Nil]
    /\ UNCHANGED <<portal_tenant_name, served>>

\* IntegrityError of the key, a lost connection, Ctrl-C.
AbortCreate(c) ==
    /\ creators[c] # Nil
    /\ creators' = [creators EXCEPT ![c] = Nil]
    /\ UNCHANGED <<tenant, portal_tenant_name, served>>

\* Mutant: the first row found will do.
FirstOf(found, t) == t \in found

\* scalar_one_or_none, and the check of the two rows at most that are read when
\* no name is set: none or several is an error.
OnlyOneOf(found, t) == found = {t}

\* A request of the staff portal: get_portal_tenant.
StaffRequest(t) ==
    /\ OnlyOneOf(IF portal_tenant_name = Nil THEN Known
                 ELSE Named(portal_tenant_name), t)
    /\ served' = served \cup {t}
    /\ UNCHANGED <<tenant, creators, portal_tenant_name>>

DirectoryNext ==
    \/ \E c \in Creators :
         \/ \E name \in TenantNames, key \in ApiKeys : CheckName(c, name, key)
         \/ \E t \in TenantIds : InsertTenant(c, t)
         \/ AbortCreate(c)
    \/ \E t \in TenantIds : StaffRequest(t)

DirectorySpec == DirectoryInit /\ [][DirectoryNext]_directoryVars
-----------------------------------------------------------------------------
(* What holds. *)

\* The staff portal works for one tenant for as long as the service runs:
\* whatever create_tenant runs race past each other's check of the name, or
\* bring a second tenant to a portal without a name, it answers an error rather
\* than the documents of another tenant.
PortalKeepsItsTenant == Cardinality(served) <= 1
=============================================================================
