------------------------------- MODULE Ledger -------------------------------
(***************************************************************************)
(* What the persistence of results promises (docstring of record_result,   *)
(* app/persistence/repositories.py): "All updates happen in one            *)
(* transaction - either all succeed or all roll back."  A result enters    *)
(* the match table and the rows of both its players in one step, as if     *)
(* results were recorded one after the other.                              *)
(***************************************************************************)
EXTENDS Ratings

CONSTANT Tasks   \* identities of results

VARIABLES rows,      \* the table players
          recorded   \* the table matches: a function on the recorded results

Init ==
    /\ rows = [p \in Players |-> NewRow]
    /\ recorded = [t \in {} |-> {}]

Record(t, x, w) ==
    /\ t \notin DOMAIN recorded
    /\ recorded' = [s \in DOMAIN recorded \cup {t} |->
                        IF s = t THEN [pair |-> x, winner |-> w] ELSE recorded[s]]
    /\ rows' = [p \in Players |->
                    IF p \in Members(x) THEN After(rows[p], p, x, w) ELSE rows[p]]

\* (That t is in the table afterwards follows from Record: it lets TLC pass
\* over the steps that record nothing.)
Next == \E t \in Tasks :
    /\ t \in DOMAIN recorded'
    /\ \E x \in Pairs : \E w \in Winners(x) : Record(t, x, w)

Spec == Init /\ [][Next]_<<rows, recorded>>
=============================================================================
