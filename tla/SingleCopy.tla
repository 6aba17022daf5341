----------------------------- MODULE SingleCopy ----------------------------
(***************************************************************************)
(* What a cache promises: a key has at most one copy of the rows it shows, *)
(* a copy is made of all of them as they are at that moment, and it may be *)
(* forgotten at any time.  A row only changes while nothing has a copy of  *)
(* it, so that no copy is ever old.  ReadThroughCache implements it when   *)
(* Redis is up and its two windows are kept apart.                         *)
(***************************************************************************)
EXTENDS Naturals

CONSTANTS
    Rows, Keys,
    Shows(_),       \* the rows a key shows
    Total(_),       \* what a page says of the number of its rows
    Missing,        \* the value of a row that is not there
    Nothing

VARIABLES value, copy

store == <<value, copy>>

Values == Nat \cup {Missing}

Snapshot(k) ==
    [rows |-> [r \in Shows(k) |-> value[r]],
     total |-> Total({r \in Shows(k) : value[r] # Missing})]

Init ==
    /\ value \in [Rows -> Values]
    /\ copy = [k \in Keys |-> Nothing]

\* A row is made, changed or removed.
Publish(r) ==
    /\ \A k \in Keys : r \in Shows(k) => copy[k] = Nothing
    /\ value'[r] \in Values
    /\ value' = [value EXCEPT ![r] = value'[r]]
    /\ UNCHANGED copy

Copy(k) ==
    /\ copy' = [copy EXCEPT ![k] = Snapshot(k)]
    /\ UNCHANGED value

Forget(k) ==
    /\ copy' = [copy EXCEPT ![k] = Nothing]
    /\ UNCHANGED value

Next ==
    \/ \E r \in Rows : Publish(r)
    \/ \E k \in Keys : Copy(k) \/ Forget(k)

Spec == Init /\ [][Next]_store
=============================================================================
