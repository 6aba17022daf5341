--------------------------- MODULE CooldownGate ----------------------------
(***************************************************************************)
(* What the alert rules promise, without workers, locks or transactions:   *)
(* an atomic gate.  Some rules fire together, each one at most once and    *)
(* only more than its cooldown after it fired before, and firing is the    *)
(* same thing as leaving an entry in the history.  AlertIngest implements  *)
(* it.                                                                     *)
(***************************************************************************)
EXTENDS Integers

CONSTANTS Rules, Time, Nothing

VARIABLES
    live,       \* the rules that exist
    last,       \* when a rule fired last, Nothing before it ever did
    history     \* the entries [rule, at, cooldown]

gate == <<live, last, history>>

Entry == [rule : Rules, at : Time, cooldown : Nat]

Init ==
    /\ live = {}
    /\ last = [r \in Rules |-> Nothing]
    /\ history = {}

Ready(e) == last[e.rule] # Nothing => e.at > last[e.rule] + e.cooldown

\* A set of entries joins the history, at most one for a rule.
Fire ==
    LET F == history' \ history
    IN /\ history \subseteq history'
       /\ F \subseteq Entry
       /\ \A e \in F : e.rule \in live /\ Ready(e)
       /\ \A e, f \in F : e.rule = f.rule => e = f
       /\ \A r \in Rules :
             IF \E e \in F : e.rule = r
             THEN \E e \in F : e.rule = r /\ last'[r] = e.at
             ELSE last'[r] = last[r]
       /\ live' = live

\* A rule is created.
Create ==
    /\ \E r \in Rules \ live : live' = live \cup {r}
    /\ UNCHANGED <<last, history>>

\* A rule goes, and its history with it.
Delete ==
    \E r \in live :
        /\ live' = live \ {r}
        /\ last' = [last EXCEPT ![r] = Nothing]
        /\ history' = {e \in history : e.rule # r}

Next == Fire \/ Create \/ Delete

Spec == Init /\ [][Next]_gate
=============================================================================
