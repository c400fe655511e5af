------------------------------- MODULE MCGoals -------------------------------
(* Goals on small instances.                                                *)
EXTENDS Goals, TLC

CONSTANTS a, b, c

\* Two steps side by side, then the final one; and the same without b.
Wide == [deps |-> (a :> {} @@ b :> {} @@ c :> {a, b}), final |-> c]
Narrow == [deps |-> (a :> {} @@ c :> {a}), final |-> c]
OnlyWide == {Wide}
OnlyNarrow == {Narrow}
Symmetry == Permutations({a, b})
=============================================================================
