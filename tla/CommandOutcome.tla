--------------------------- MODULE CommandOutcome ---------------------------
(***************************************************************************)
(* What the command queue promises about one device's commands, whoever    *)
(* writes the rows: a command is open, may be closed provisionally by the  *)
(* server or by a queue acknowledgement, and gets at most one final        *)
(* outcome, whose records are written once and together with it.           *)
(***************************************************************************)
EXTENDS Naturals

CONSTANT Command

VARIABLES
    outcome,    \* what the row says about each command
    records     \* results stored in the per-type tables

Outcome == {"none", "open", "provisional", "final", "void"}

\* A provisional outcome may be replaced, a final or void one may not.
Successors(o) ==
    CASE o = "none"                     -> {"none", "open"}
      [] o = "open"                     -> {"open", "provisional", "final", "void"}
      [] o = "provisional"              -> {"provisional", "final", "void"}
      [] o \in {"final", "void"}        -> {o}

TypeOK ==
    /\ outcome \in [Command -> Outcome]
    /\ records \in [Command -> Nat]

Init ==
    /\ outcome = [c \in Command |-> "none"]
    /\ records = [c \in Command |-> 0]

Next ==
    /\ outcome' \in [Command -> Outcome]
    /\ \A c \in Command : outcome'[c] \in Successors(outcome[c])
    /\ records' = [c \in Command |->
                     IF outcome'[c] = "final" /\ outcome[c] # "final"
                     THEN records[c] + 1 ELSE records[c]]

Spec == Init /\ [][Next]_<<outcome, records>>

=============================================================================
