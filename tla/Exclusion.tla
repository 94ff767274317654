----------------------------- MODULE Exclusion -----------------------------
(* What the lease of a document step promises, whatever claims and releases *)
(* it goes through: one live actor at a time has it, until it ends.         *)
CONSTANT Actor

VARIABLE holders

Init == holders = {}

Acquire(a) == holders = {} /\ holders' = {a}

End(a) == a \in holders /\ holders' = holders \ {a}

Next == \E a \in Actor : Acquire(a) \/ End(a)

Spec == Init /\ [][Next]_holders
=============================================================================
