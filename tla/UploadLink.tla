------------------------------ MODULE UploadLink ------------------------------
(***************************************************************************)
(* What an upload link promises, with nothing said of rows, files or the   *)
(* clock: uploads may take it only while it is open, closing it is final,  *)
(* and it is spent only by uploads that took it, each at most once.        *)
(***************************************************************************)
EXTENDS Naturals

CONSTANTS LinkIds, Takers

VARIABLES
    state,      \* "unminted", "open" or "closed" (spent, or out of time)
    takers,     \* uploads that took the link and may still spend it
    spent       \* how often it was spent

promise == <<state, takers, spent>>

TypeOK ==
    /\ state \in [LinkIds -> {"unminted", "open", "closed"}]
    /\ takers \in [LinkIds -> SUBSET Takers]
    /\ spent \in [LinkIds -> Nat]

Init ==
    /\ state = [l \in LinkIds |-> "unminted"]
    /\ takers = [l \in LinkIds |-> {}]
    /\ spent = [l \in LinkIds |-> 0]

\* A link with no time to live is closed when it is minted.
Mint(l) ==
    /\ state[l] = "unminted" /\ state'[l] # "unminted"
    /\ takers'[l] = takers[l] /\ spent'[l] = spent[l]

Take(l, h) ==
    /\ state[l] = "open" /\ state'[l] = "open"
    /\ h \notin takers[l] /\ takers'[l] = takers[l] \cup {h}
    /\ spent'[l] = spent[l]

GiveUp(l, h) ==
    /\ h \in takers[l] /\ takers'[l] = takers[l] \ {h}
    /\ state'[l] = state[l] /\ spent'[l] = spent[l]

Spend(l, h) ==
    /\ h \in takers[l] /\ takers'[l] = takers[l] \ {h}
    /\ state'[l] = "closed"
    /\ spent'[l] = spent[l] + 1

RunOut(l) ==
    /\ state[l] = "open" /\ state'[l] = "closed"
    /\ takers'[l] = takers[l] /\ spent'[l] = spent[l]

Stays(l) ==
    /\ state'[l] = state[l]
    /\ takers'[l] = takers[l] /\ spent'[l] = spent[l]

\* A batch is minted, and runs out, as a whole.
Next ==
    /\ TypeOK'
    /\ \A l \in LinkIds :
         \/ Mint(l) \/ RunOut(l) \/ Stays(l)
         \/ \E h \in Takers : Take(l, h) \/ GiveUp(l, h) \/ Spend(l, h)

Spec == Init /\ [][Next]_promise

\* A link nobody took while it was open is never spent afterwards, nor is one
\* that was spent by the last upload that had taken it.
ClosedStaysClosed ==
    [][\A l \in LinkIds :
         state[l] = "closed" /\ takers[l] = {} =>
             takers'[l] = {} /\ spent'[l] = spent[l]]_promise
=============================================================================
