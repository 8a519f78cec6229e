-------------------------- MODULE MCScriptExecutor --------------------------
(* ScriptExecutor with two deliveries of a script and two cancels.            *)
EXTENDS ScriptExecutor, TLC

CONSTANTS a1, a2, k1, k2

Attempts == {a1, a2}
Cancels == {k1, k2}

\* The deliveries are interchangeable, and so are the cancels.
Symmetry == Permutations(Attempts) \cup Permutations(Cancels)

=============================================================================
