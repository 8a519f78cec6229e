--------------------------- MODULE MCResultResend ---------------------------
(* ResultResend with a queued command, which has an acknowledgement and a     *)
(* result, and a command with one result.                                     *)
EXTENDS ResultResend

CONSTANTS a, b

Ack == [id |-> a, rank |-> 1]
Outcome == [id |-> a, rank |-> 2]
Other == [id |-> b, rank |-> 1]

Results == {Ack, Outcome, Other}
Sizes == [r \in Results |-> r.rank]
KeptResults == {Outcome}
=============================================================================
