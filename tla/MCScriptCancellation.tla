------------------------ MODULE MCScriptCancellation ------------------------
(* ScriptCancellation with one delivery of the script and two cancels.        *)
EXTENDS ScriptCancellation

CONSTANTS a1, k1, k2

OneAttempt == {a1}
TwoCancels == {k1, k2}

=============================================================================
