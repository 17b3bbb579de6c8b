---------------------------- MODULE DocumentListing ----------------------------
(***************************************************************************)
(* GET /v1/documents, read page by page while documents come and go.  The  *)
(* total and the page are two SELECTs; a client follows next_offset.  Only *)
(* the documents of one tenant that some filter may select are modelled;   *)
(* ApiRequests puts the actions together.                                  *)
(***************************************************************************)
EXTENDS Integers, FiniteSets

CONSTANTS
    Documents,      \* documents of the tenant
    MaxClock,       \* bound of the clock
    MaxChanges,     \* bound of the rows that stop to match during a pass
    PageLimit       \* limit of the requests

ASSUME ListingConstants ==
    /\ IsFiniteSet(Documents)
    /\ MaxClock \in Nat /\ MaxChanges \in Nat
    /\ PageLimit \in Nat \ {0}

VARIABLES
    clock,
    created_at,     \* document -> start of its transaction, -1: no upload yet
    matching,       \* documents the filters select
    pass            \* the client's pass over the pages

listingVars == <<clock, created_at, matching, pass>>

\* pc is the next SELECT; `got` is what the pages showed.  History: `steady`
\* are the documents that matched all along, `left` counts those that stopped
\* to match, `late` those that came between the last total and its page.
Passes == [pc     : {"total", "page", "end"},
           offset : Nat,
           total  : Nat,
           got    : SUBSET Documents,
           steady : SUBSET Documents,
           left   : Nat,
           late   : Nat]

ListingOK ==
    /\ clock \in Nat
    /\ created_at \in [Documents -> Nat \cup {-1}]
    /\ matching \subseteq Documents
    /\ pass \in Passes

FirstPage ==
    [pc |-> "total", offset |-> 0, total |-> 0, got |-> {},
     steady |-> matching, left |-> 0, late |-> 0]

ListingInit ==
    /\ clock = 0
    /\ created_at = [d \in Documents |-> -1]
    /\ matching = {}
    /\ pass = FirstPage

Advance ==
    /\ clock < MaxClock
    /\ clock' = clock + 1
    /\ UNCHANGED <<created_at, matching, pass>>

\* An upload request begins: created_at is now() of its transaction, which is
\* the one its API key is read in.
BeginUpload(d) ==
    /\ created_at[d] = -1
    /\ created_at' = [created_at EXCEPT ![d] = clock]
    /\ UNCHANGED <<clock, matching, pass>>

\* The upload commits, or a PATCH or a task makes its row match: long after
\* its created_at, so rows appear among older ones.
Appear(d) ==
    /\ created_at[d] # -1
    /\ d \notin matching
    /\ matching' = matching \cup {d}
    /\ pass' = IF pass.pc = "page" THEN [pass EXCEPT !.late = @ + 1] ELSE pass
    /\ UNCHANGED <<clock, created_at>>

\* The row is deleted, or a PATCH or a task changes a filtered column.
Disappear(d) ==
    /\ d \in matching
    /\ pass.left < MaxChanges
    /\ matching' = matching \ {d}
    /\ pass' = [pass EXCEPT !.steady = @ \ {d}, !.left = @ + 1]
    /\ UNCHANGED <<clock, created_at>>

\* SELECT count(*).
SelectTotal ==
    /\ pass.pc = "total"
    /\ pass' = [pass EXCEPT !.pc = "page", !.total = Cardinality(matching),
                            !.late = 0]
    /\ UNCHANGED <<clock, created_at, matching>>

\* Mutant: the page is not ordered.
AnyOrder(rows, offset, page) == TRUE

\* ORDER BY created_at DESC LIMIT OFFSET.  Rows of one created_at come in any
\* order, in another one every time: what the SELECT returns is a set that,
\* with the rows before it, is closed under "newer".
Newer(rows, d) == {e \in rows : created_at[e] > created_at[d]}
NewestFirst(rows, offset, page) ==
    \E before \in SUBSET (rows \ page) :
        /\ Cardinality(before) = IF offset < Cardinality(rows) THEN offset
                                 ELSE Cardinality(rows)
        /\ \A d \in before : Newer(rows, d) \subseteq before
        /\ \A d \in page : Newer(rows, d) \subseteq before \cup page

PageSize(rows, offset) ==
    IF Cardinality(rows) <= offset THEN 0
    ELSE IF Cardinality(rows) - offset < PageLimit THEN Cardinality(rows) - offset
    ELSE PageLimit

SelectPage(page) ==
    /\ pass.pc = "page"
    /\ Cardinality(page) = PageSize(matching, pass.offset)
    /\ NewestFirst(matching, pass.offset, page)
    /\ LET next == pass.offset + PageLimit IN
         pass' = IF next < pass.total
                 THEN [pass EXCEPT !.pc = "total", !.offset = next,
                                   !.got = @ \cup page]
                 ELSE [pass EXCEPT !.pc = "end", !.got = @ \cup page]
    /\ UNCHANGED <<clock, created_at, matching>>

StartAgain ==
    /\ pass.pc = "end"
    /\ pass' = FirstPage
    /\ UNCHANGED <<clock, created_at, matching>>
-----------------------------------------------------------------------------
(* What holds. *)

\* A document that shares its created_at with another one may be missed however
\* quiet the table is; of the others that matched all along, a pass over all
\* pages misses at most as many as stopped to match while it went on (they pull
\* rows before the next offset) and as came between the last total and its page
\* (they push rows past the end).
Untied(d) == \A e \in Documents \ {d} : created_at[e] # created_at[d]

MissesBounded ==
    pass.pc = "end" =>
        Cardinality({d \in pass.steady \ pass.got : Untied(d)})
            <= pass.left + pass.late
=============================================================================
