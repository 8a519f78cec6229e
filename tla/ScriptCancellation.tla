------------------------- MODULE ScriptCancellation -------------------------
(***************************************************************************)
(* One script execution from dispatch to its end, on the server, composed  *)
(* with the agent of ScriptAgent.                                          *)
(*                                                                         *)
(* A cancel request retracts an undelivered command or moves the execution *)
(* to `cancelling` and queues a script_cancel command.  Five closers then  *)
(* race to resolve it: the script's own result, the cancel's               *)
(* acknowledgement, a late result, the expiry of the cancel command and    *)
(* the sweep; the reapers and the command's cancellation work on the same  *)
(* rows.  An action is one committed transaction, but for the ingest of an *)
(* acknowledgement, whose handler commits before the ingest does.          *)
(* Deadlines are not timed: what waits for one may happen at any moment.   *)
(***************************************************************************)
EXTENDS ScriptAgent

CONSTANT Events       \* environment events a run allows

EventKind == {"reportedFailed", "persistFails", "rowCancel"}

ASSUME EventsAssumption == Events \subseteq EventKind

VARIABLES
    exec,     \* the script_executions row
    batch,    \* increments of its batch's device counters
    row,      \* the device_commands row of the script
    crow,     \* the device_commands rows of the script_cancel commands
    acking,   \* the cancel commands whose row an ingest has locked
    push,     \* the dispatching request
    sweep     \* the row reapStaleCancellations selected

serverVars == <<exec, batch, row, crow, acking, push, sweep>>
vars == <<agentVars, serverVars>>

ExecStatus  == {"pending", "running", "cancelling", "completed", "failed", "timeout", "cancelled"}
CancelState == {"none", "requested", "confirmed", "unconfirmed", "failed"}
\* timedOut is `failed` with the server's timeout marker, parked is `failed` with
\* result_processing_failed.
RowStatus   == {"absent", "pending", "sent", "completed", "failed", "timedOut",
                "parked", "cancelled"}
Observation == [cmd : Cancel, prev : ExecStatus, open : BOOLEAN]

TypeOK ==
    /\ AgentTypeOK
    /\ exec \in [status : ExecStatus, prev : ExecStatus, state : CancelState,
                 cmd : Cancel \cup {None}, output : BOOLEAN]
    /\ batch \in Nat
    /\ row \in RowStatus \ {"absent"}
    /\ crow \in [Cancel -> RowStatus]
    /\ acking \subseteq Cancel
    /\ push \in {"idle", "mark", "release", "done"}
    /\ sweep \in Observation \cup {None}

Init ==
    /\ AgentInit
    /\ exec = [status |-> "pending", prev |-> "pending", state |-> "none",
               cmd |-> None, output |-> FALSE]
    /\ batch = 0
    /\ row = "pending"
    /\ crow = [k \in Cancel |-> "absent"]
    /\ acking = {}
    /\ push = "idle"
    /\ sweep = None

InFlight   == exec.status \in {"pending", "running"}
Terminal   == exec.status \notin {"pending", "running", "cancelling"}
Accepts(s) == s \in {"pending", "sent", "timedOut", "parked"}

\* finalizeScriptExecutionTerminal: the compare-and-set and the batch counter.
Finalize(outcome) ==
    IF InFlight
    THEN exec' = [exec EXCEPT !.status = outcome] /\ batch' = batch + 1
    ELSE UNCHANGED <<exec, batch>>

-----------------------------------------------------------------------------
(* Dispatch of the script *)

\* A frame reaches the agent, or is lost.
Send(i) == Arrive(i) \/ UNCHANGED att

\* deliverNow: claim and send.  A send may be reported failed although it left.
PushScript(i) ==
    /\ push = "idle"
    /\ row = "pending"
    /\ row' = "sent"
    /\ Send(i)
    /\ push' \in {"mark"} \cup {p \in {"release"} : "reportedFailed" \in Events}
    /\ UNCHANGED <<res, ask, answer, crashes, exec, batch, crow, sweep, acking>>

\* The execution is running, unless somebody moved it first.
MarkRunning ==
    /\ push = "mark"
    /\ push' = "done"
    /\ exec' = IF exec.status = "pending" THEN [exec EXCEPT !.status = "running"] ELSE exec
    /\ UNCHANGED <<agentVars, batch, row, crow, sweep, acking>>

\* releaseClaimedCommandDelivery.
ReleaseClaim ==
    /\ push = "release"
    /\ push' = "done"
    /\ row' = IF row = "sent" THEN "pending" ELSE row
    /\ UNCHANGED <<agentVars, exec, batch, crow, sweep, acking>>

\* The heartbeat claims and delivers; it does not touch the execution.
HeartbeatScript(i) ==
    /\ row = "pending"
    /\ row' = "sent"
    /\ Send(i)
    /\ UNCHANGED <<res, ask, answer, crashes, exec, batch, crow, push, sweep, acking>>

-----------------------------------------------------------------------------
(* cancelScriptExecution *)

Asked(state) == [exec EXCEPT !.prev = exec.status, !.state = state]

\* The command never left: the only stop the server can prove by itself.
Retract ==
    /\ InFlight
    /\ row = "pending"
    /\ row' = "cancelled"
    /\ exec' = [Asked("confirmed") EXCEPT !.status = "cancelled"]
    /\ UNCHANGED <<agentVars, batch, crow, push, sweep, acking>>

\* The command has already ended: the request is recorded, nothing is sent.
Recovered ==
    /\ InFlight
    /\ row \notin {"pending", "sent"}
    /\ exec' = Asked("unconfirmed")
    /\ UNCHANGED <<agentVars, batch, row, crow, push, sweep, acking>>

OpenCancels == {k \in Cancel : crow[k] \in {"pending", "sent"}}

\* randomUUID: which unused id it is makes no difference.
NewCancel == CHOOSE k \in Cancel : crow[k] = "absent" \/ "absent" \notin {crow[c] : c \in Cancel}

\* The delivered case: an open cancel command is reused, otherwise one is queued.
StartCancelling(k) ==
    /\ InFlight
    /\ row = "sent"
    /\ IF OpenCancels # {}
       THEN k \in OpenCancels /\ UNCHANGED crow
       ELSE k = NewCancel /\ crow[k] = "absent" /\ crow' = [crow EXCEPT ![k] = "pending"]
    /\ exec' = [Asked("requested") EXCEPT !.status = "cancelling", !.cmd = k]
    /\ UNCHANGED <<agentVars, batch, row, push, sweep, acking>>

\* Writers of a cancel row wait for the ingest that holds it; plain reads do not.
Writable(k) == k \notin acking

\* deliverCancelCommand, or the heartbeat.  The agent drops a second copy; a frame that
\* is lost is one it never acts on.
DeliverCancel(k) ==
    /\ Writable(k)
    /\ crow[k] = "pending"
    /\ crow' = [crow EXCEPT ![k] = "sent"]
    /\ IF ask[k] = "absent" THEN Receive(k) ELSE UNCHANGED ask
    /\ UNCHANGED <<att, res, answer, crashes, exec, batch, row, push, sweep, acking>>

\* The claim is handed back after a send that was reported failed, although the frame
\* may have left.
ReleaseCancel(k) ==
    /\ "reportedFailed" \in Events
    /\ Writable(k)
    /\ crow[k] = "sent"
    /\ crow' = [crow EXCEPT ![k] = "pending"]
    /\ UNCHANGED <<agentVars, exec, batch, row, push, sweep, acking>>

-----------------------------------------------------------------------------
(* Result ingest *)

\* commandResultSchema keeps the declared keys only: not the marker by which the
\* agent's result names the cancel command that reached it.
commandResultSchema(ending) == [ending |-> ending, marker |-> None]

\* A timeout the agent reports is one of the failures: no predicate tells them apart.
Recorded(ending) ==
    [exec EXCEPT !.status = IF ending = "ok" THEN "completed" ELSE "failed", !.output = TRUE]

\* Mistake: the result of a cancelled execution is dropped.
handleScriptResultDropping(r) ==
    \/ /\ exec.status = "cancelling"
       /\ exec' = [Recorded(r.ending) EXCEPT !.state = "unconfirmed"]
       /\ batch' = batch + 1
    \/ /\ InFlight
       /\ exec' = Recorded(r.ending)
       /\ batch' = batch + 1
    \/ /\ Terminal
       /\ exec' = IF exec.status \in {"timeout", "failed"} /\ ~exec.output
                  THEN Recorded(r.ending) ELSE exec
       /\ UNCHANGED batch

\* Mistake: a recovered result counts for the batch once more.
handleScriptResultCounting(r) ==
    \/ /\ exec.status = "cancelling"
       /\ exec' = [Recorded(r.ending) EXCEPT !.state = "unconfirmed"]
       /\ batch' = batch + 1
    \/ /\ InFlight
       /\ exec' = Recorded(r.ending)
       /\ batch' = batch + 1
    \/ /\ Terminal
       /\ exec' = IF exec.output \/ exec.status = "completed" THEN exec
                  ELSE IF exec.status = "cancelled" THEN [exec EXCEPT !.output = TRUE]
                  ELSE Recorded(r.ending)
       /\ batch' = IF exec.output THEN batch ELSE batch + 1

\* handleScriptResult: closer 1 (proven by the marker, or the natural outcome), the
\* primary compare-and-set, the recovery of a swept row, closer 3 (output only).
handleScriptResult(r) ==
    \/ /\ exec.status = "cancelling"
       /\ exec' = IF r.marker # None /\ r.marker = exec.cmd
                  THEN [Recorded(r.ending) EXCEPT !.status = "cancelled", !.state = "confirmed"]
                  ELSE [Recorded(r.ending) EXCEPT !.state = "unconfirmed"]
       /\ batch' = batch + 1
    \/ /\ InFlight
       /\ exec' = Recorded(r.ending)
       /\ batch' = batch + 1
    \/ /\ Terminal
       /\ exec' = IF exec.output \/ exec.status = "completed" THEN exec
                  ELSE IF exec.status = "cancelled" THEN [exec EXCEPT !.output = TRUE]
                  ELSE Recorded(r.ending)
       /\ UNCHANGED batch

Reported(i) == att[i] = "over" /\ Accepts(row)

\* One transaction: the terminal compare-and-set of the row and the handler.
IngestResult(i) ==
    LET r == commandResultSchema(res[i]) IN
    /\ Reported(i)
    /\ row' = IF r.ending = "ok" THEN "completed" ELSE "failed"
    /\ handleScriptResult(r)
    /\ UNCHANGED <<agentVars, crow, push, sweep, acking>>

\* The handler fails, or loses the deadlock with a cancel request that locks the
\* two rows in the other order: rolled back, then parked.
IngestFails(i) ==
    /\ "persistFails" \in Events
    /\ Reported(i)
    /\ row' = "parked"
    /\ UNCHANGED <<agentVars, exec, batch, crow, push, sweep, acking>>

\* What readOutcome finds: the agent's payload is the stdout of the result; only
\* the socket transport parses it back into the `result` field.
readOutcome(k, transport) == IF transport = "ws" THEN answer[k] ELSE "none"

\* Mistake: an acknowledgement closes whatever cancel is in flight.
AckMatchesAny(k) == exec.status = "cancelling"

\* cancel_command_id = the acknowledged command AND status = 'cancelling'.
AckMatches(k) == exec.status = "cancelling" /\ exec.cmd = k

\* Mistake: the agent's word is stored as the cancel state.
applyScriptCancelAckRaw(k, outcome) ==
    exec' = IF ~AckMatches(k) THEN exec
            ELSE IF outcome = "terminated"
            THEN [exec EXCEPT !.status = "cancelled", !.state = "confirmed"]
            ELSE [exec EXCEPT !.status = exec.prev, !.state = outcome]

\* applyScriptCancelAck with resolveCancelAckOutcome: closer 2.
applyScriptCancelAck(k, outcome) ==
    exec' = IF ~AckMatches(k) THEN exec
            ELSE IF outcome = "terminated"
            THEN [exec EXCEPT !.status = "cancelled", !.state = "confirmed"]
            ELSE [exec EXCEPT !.status = exec.prev,
                              !.state = IF outcome = "kill_failed" THEN "failed"
                                                                   ELSE "unconfirmed"]

\* The ingest of an acknowledgement up to its handler: the row is written and locked,
\* and the handler commits on a connection of its own.  A command that came over the
\* socket is answered there and over REST, one that came with a heartbeat over REST
\* only: either transport may bring the answer first.
Ack(k) ==
    /\ answer[k] # "none"
    /\ Writable(k)
    /\ Accepts(crow[k])
    /\ \E transport \in {"ws", "rest"} :
          applyScriptCancelAck(k, readOutcome(k, transport))
    /\ acking' = acking \cup {k}
    /\ UNCHANGED <<agentVars, batch, row, crow, push, sweep>>

\* The ingest commits.
AckCommit(k) ==
    /\ k \in acking
    /\ acking' = acking \ {k}
    /\ crow' = [crow EXCEPT ![k] = "completed"]
    /\ UNCHANGED <<agentVars, exec, batch, row, push, sweep>>

\* The ingest fails, before its handler or after it: rolled back, and parked unless
\* that fails too.
AckFails(k) ==
    /\ "persistFails" \in Events
    /\ answer[k] # "none"
    /\ Accepts(crow[k])
    /\ acking' = acking \ {k}
    /\ crow' \in {crow, [crow EXCEPT ![k] = "parked"]}
    /\ UNCHANGED <<agentVars, exec, batch, row, push, sweep>>

-----------------------------------------------------------------------------
(* Reapers and sweeps *)

\* reapStaleDeviceCommands with propagateTimedOutDeviceCommand.
ReapRow ==
    /\ row \in {"pending", "sent"}
    /\ row' = "timedOut"
    /\ Finalize("failed")
    /\ UNCHANGED <<agentVars, crow, push, sweep, acking>>

\* The same reaper on a cancel command; its payload names no execution.
ReapCancelRow(k) ==
    /\ Writable(k)
    /\ crow[k] \in {"pending", "sent"}
    /\ crow' = [crow EXCEPT ![k] = "timedOut"]
    /\ UNCHANGED <<agentVars, exec, batch, row, push, sweep, acking>>

\* reapStaleScriptExecutions: the outcome comes from the command row, and an
\* execution that waits for an open command is left alone.
ReapExecution ==
    /\ InFlight
    /\ exec.status = "pending" => row \notin {"pending", "sent"}
    /\ Finalize(CASE row = "cancelled" -> "cancelled"
                  [] row = "completed" -> "completed"
                  [] row \in {"failed", "parked"} -> "failed"
                  [] OTHER -> "timeout")
    /\ UNCHANGED <<agentVars, row, crow, push, sweep, acking>>

\* Mistake: only a delivered cancel is swept, an expired one is not.
SweepObserveDelivered ==
    /\ sweep = None
    /\ exec.status = "cancelling"
    /\ crow[exec.cmd] = "sent"
    /\ sweep' = [cmd |-> exec.cmd, prev |-> exec.prev, open |-> TRUE]
    /\ UNCHANGED <<agentVars, exec, batch, row, crow, push, acking>>

\* reapStaleCancellations: the SELECT, and what makes a row due.  An undelivered
\* cancel has not started its clock.
SweepObserve ==
    /\ sweep = None
    /\ exec.status = "cancelling"
    /\ crow[exec.cmd] # "pending"
    /\ sweep' = [cmd |-> exec.cmd, prev |-> exec.prev, open |-> crow[exec.cmd] = "sent"]
    /\ UNCHANGED <<agentVars, exec, batch, row, crow, push, acking>>

\* Mistake: the revert trusts the SELECT.
SweepRevertBlind ==
    /\ sweep # None
    /\ sweep' = None
    /\ exec' = [exec EXCEPT !.status = sweep.prev, !.state = "unconfirmed"]
    /\ UNCHANGED <<agentVars, batch, row, crow, push, acking>>

\* The revert under its compare-and-set, and the still open cancel command closed as
\* timed out.  One transaction: when closing the command fails, the revert is rolled
\* back with it and the next sweep selects the row again, which is no step here.
SweepRevert ==
    /\ sweep # None
    /\ sweep' = None
    /\ IF exec.status = "cancelling"
       THEN /\ sweep.open => Writable(sweep.cmd)
            /\ exec' = [exec EXCEPT !.status = sweep.prev, !.state = "unconfirmed"]
            /\ crow' = IF sweep.open /\ crow[sweep.cmd] \in {"pending", "sent"}
                       THEN [crow EXCEPT ![sweep.cmd] = "timedOut"] ELSE crow
       ELSE UNCHANGED <<exec, crow>>
    /\ UNCHANGED <<agentVars, batch, row, push, acking>>

\* The command is cancelled as such (user, decommission, ineligible at the claim),
\* with propagateCancelledDeviceCommand.
RowCancel ==
    /\ "rowCancel" \in Events
    /\ row = "pending"
    /\ row' = "cancelled"
    /\ Finalize("cancelled")
    /\ UNCHANGED <<agentVars, crow, push, sweep, acking>>

-----------------------------------------------------------------------------

AgentStep == AgentNext /\ UNCHANGED serverVars

Next ==
    \/ AgentStep
    \/ \E i \in Attempt : PushScript(i) \/ HeartbeatScript(i) \/ IngestResult(i) \/ IngestFails(i)
    \/ MarkRunning \/ ReleaseClaim
    \/ Retract \/ Recovered
    \/ \E k \in Cancel : \/ StartCancelling(k) \/ DeliverCancel(k) \/ ReleaseCancel(k)
                         \/ Ack(k) \/ AckCommit(k) \/ AckFails(k) \/ ReapCancelRow(k)
    \/ ReapRow \/ ReapExecution \/ SweepObserve \/ SweepRevert \/ RowCancel

Spec == Init /\ [][Next]_vars

\* The reapers run every two minutes and get the row locks they queue for; the ingest's
\* transactions end.  Agents, users and requests owe nothing.
Fairness ==
    /\ WF_vars(ReapRow) /\ WF_vars(ReapExecution)
    /\ WF_vars(SweepObserve) /\ SF_vars(SweepRevert)
    /\ \A k \in Cancel : WF_vars(ReapCancelRow(k)) /\ WF_vars(AckCommit(k))

FairSpec == Spec /\ Fairness

-----------------------------------------------------------------------------
(* Properties *)

\* The honesty contract: a confirmed cancel is a retracted command, or the agent
\* answered `terminated` to the very cancel command the execution names.
ConfirmedByDevice ==
    exec.state = "confirmed" =>
        \/ row = "cancelled"
        \/ exec.cmd # None /\ answer[exec.cmd] = "terminated"

\* The batch counters move at most once for a device, whichever closers, reapers and
\* late results meet.
CountedAtMostOnce == batch <= 1

\* Nothing the agent reports is dropped: once the command row shows its result, the
\* execution has the output, also after a cancel, a timeout or a sweep.
OutputKept == row \in {"completed", "failed"} => exec.output

\* A decided execution is not resurrected: a terminal one stays terminal, a cancelled
\* one cancelled, and a confirmed cancel confirmed.
DecidedStays ==
    [][/\ Terminal => Terminal'
       /\ exec.status = "cancelled" => exec'.status = "cancelled"
       /\ exec.state = "confirmed" => exec'.state = "confirmed"]_vars

\* Every execution ends, although agent, result and acknowledgement may be lost and
\* cancels may be asked for again and again: none stays `cancelling`.
ExecutionCloses == <>Terminal

-----------------------------------------------------------------------------
(* What comments of the code say, and the code does not keep *)

\* "whichever closer terminalised this row already consumed" the batch accounting.
TerminalIsCounted == Terminal => batch = 1

=============================================================================
