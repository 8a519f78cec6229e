---------------------- MODULE ScriptCancellationProofs ----------------------
(***************************************************************************)
(* Proofs about ScriptCancellation, for every set of deliveries and cancel *)
(* commands, every choice of events and every number of agent restarts.    *)
(***************************************************************************)
EXTENDS ScriptCancellation, TLAPS

-----------------------------------------------------------------------------
(* The inductive invariant.  The closers of an execution test its status in    *)
(* the UPDATE that writes it, so what has to be known is what a status and a   *)
(* cancel state say about the rest of the rows.                                *)

\* The agent answers a cancel command once.
AnswersFinal == \A k \in Cancel : answer[k] # "none" => ask[k] = "answered"

\* What the closers and the sweep revert to, and the command they compare with.
CancellingKnown ==
    exec.status = "cancelling" => exec.cmd \in Cancel /\ exec.prev \in {"pending", "running"}
SweepKnows == sweep # None => sweep.prev \in {"pending", "running"}

\* The batch counter moves when an execution ends, never before.
UncountedWhileOpen == ~Terminal => batch = 0

\* `completed` is never inferred without the output it came with.
CompletedHasOutput == exec.status = "completed" => exec.output

ConfirmedIsCancelled == exec.state = "confirmed" => exec.status = "cancelled"

AgentInv == AgentTypeOK /\ AnswersFinal

ServerType ==
    /\ exec \in [status : ExecStatus, prev : ExecStatus, state : CancelState,
                 cmd : Cancel \cup {None}, output : BOOLEAN]
    /\ batch \in Nat
    /\ row \in RowStatus \ {"absent"}
    /\ crow \in [Cancel -> RowStatus]
    /\ acking \subseteq Cancel
    /\ push \in {"idle", "mark", "release", "done"}
    /\ sweep \in Observation \cup {None}

ExecutionInv ==
    /\ CancellingKnown
    /\ UncountedWhileOpen
    /\ CountedAtMostOnce
    /\ CompletedHasOutput
    /\ ConfirmedIsCancelled
    /\ OutputKept
    /\ ConfirmedByDevice

IInv == AgentInv /\ ServerType /\ SweepKnows /\ ExecutionInv

\* What DecidedStays says of one step.
Decided ==
    /\ Terminal => Terminal'
    /\ exec.status = "cancelled" => exec'.status = "cancelled"
    /\ exec.state = "confirmed" => exec'.state = "confirmed"

AnswersKept == \A k \in Cancel : answer[k] = "terminated" => answer'[k] = "terminated"

\* The type invariant is the agent's and the server's.
LEMMA TypeSplit == TypeOK <=> AgentTypeOK /\ ServerType
  BY DEF TypeOK, ServerType

-----------------------------------------------------------------------------
(* The agent *)

\* Each field of the execution has its type.
LEMMA ExecFields ==
    ASSUME ServerType
    PROVE  /\ exec.status \in ExecStatus /\ exec.prev \in ExecStatus
           /\ exec.state \in CancelState /\ exec.cmd \in Cancel \cup {None}
           /\ exec.output \in BOOLEAN
           /\ exec = [status |-> exec.status, prev |-> exec.prev, state |-> exec.state,
                      cmd |-> exec.cmd, output |-> exec.output]
  BY DEF ServerType

\* The execution keeps its guarantees when it is left alone, answers stay and the
\* command row does not come to show a result.
LEMMA ExecutionKept ==
    ASSUME IInv,
           UNCHANGED <<exec, batch>>,
           AnswersKept,
           row = "cancelled" => row' = "cancelled",
           row' \in {"completed", "failed"} => row \in {"completed", "failed"}
    PROVE  ExecutionInv' /\ Decided
<1>1. exec.cmd \in Cancel \cup {None}  BY ExecFields DEF IInv
<1>2. ConfirmedByDevice'  BY <1>1 DEF AnswersKept, IInv, ExecutionInv, ConfirmedByDevice
<1>3. OutputKept'  BY DEF IInv, ExecutionInv, OutputKept
<1>4. /\ CancellingKnown' /\ UncountedWhileOpen' /\ CountedAtMostOnce'
      /\ CompletedHasOutput' /\ ConfirmedIsCancelled'
  BY DEF IInv, ExecutionInv, CancellingKnown, UncountedWhileOpen, CountedAtMostOnce,
     CompletedHasOutput, ConfirmedIsCancelled, Terminal
<1>5. Decided  BY DEF Decided, Terminal
<1>6. QED  BY <1>2, <1>3, <1>4, <1>5 DEF ExecutionInv

\* An agent step answers a cancel command once, and takes no answer back.
LEMMA AgentStepKeeps ==
    ASSUME IInv, AgentStep
    PROVE  IInv' /\ Decided
<1>1. AgentTypeOK /\ AnswersFinal  BY DEF IInv, AgentInv
<1>2. UNCHANGED serverVars /\ AgentNext  BY DEF AgentStep
<1>3. AgentTypeOK' /\ AnswersFinal' /\ AnswersKept
  <2>1. ASSUME NEW i \in Attempt, Launch(i) \/ Doom(i)
        PROVE  AgentTypeOK' /\ AnswersFinal' /\ AnswersKept
    BY <1>1, <2>1 DEF Launch, Doom, AgentTypeOK, AnswersFinal, AnswersKept, AttState
  <2>2. ASSUME NEW i \in Attempt, End(i)
        PROVE  AgentTypeOK' /\ AnswersFinal' /\ AnswersKept
    BY <1>1, <2>2 DEF End, AgentTypeOK, AnswersFinal, AnswersKept, AttState, Ending
  <2>3. ASSUME NEW k \in Cancel, Answer(k)
        PROVE  AgentTypeOK' /\ AnswersFinal' /\ AnswersKept
    BY <1>1, <2>3 DEF Answer, AgentTypeOK, AnswersFinal, AnswersKept, AttState, AskState, Outcome
  <2>4. CASE Crash
    BY <1>1, <2>4 DEF Crash, AgentTypeOK, AnswersFinal, AnswersKept, AttState, AskState
  <2>5. QED  BY <1>2, <2>1, <2>2, <2>3, <2>4 DEF AgentNext
<1>4. ServerType' /\ SweepKnows'
  BY <1>2 DEF IInv, serverVars, ServerType, SweepKnows
<1>5. ExecutionInv' /\ Decided  BY <1>2, <1>3, ExecutionKept DEF serverVars
<1>6. QED  BY <1>3, <1>4, <1>5 DEF IInv, AgentInv

-----------------------------------------------------------------------------
(* Steps of the server that leave the execution alone *)

\* A server step that leaves the agent's answers, the execution and the sweep alone,
\* and does not move the command row to a result or away from `cancelled`.
LEMMA ServerStepKeeps ==
    ASSUME IInv,
           AgentTypeOK',
           UNCHANGED <<answer, exec, batch, sweep>>,
           \A k \in Cancel : ask'[k] # ask[k] => ask[k] = "absent",
           ServerType',
           row = "cancelled" => row' = "cancelled",
           row' \in {"completed", "failed"} => row \in {"completed", "failed"}
    PROVE  IInv' /\ Decided
<1>1. AnswersFinal'  BY DEF IInv, AgentInv, AnswersFinal
<1>2. SweepKnows'  BY DEF IInv, SweepKnows
<1>3. ExecutionInv' /\ Decided  BY ExecutionKept DEF AnswersKept
<1>4. QED  BY <1>1, <1>2, <1>3 DEF IInv, AgentInv

\* A delivery of the script moves the row from `pending` to `sent`.
LEMMA DispatchKeeps ==
    ASSUME IInv, NEW i \in Attempt, PushScript(i) \/ HeartbeatScript(i)
    PROVE  IInv' /\ Decided
<1>1. AgentTypeOK'
  BY DEF IInv, AgentInv, PushScript, HeartbeatScript, Send, Arrive, AgentTypeOK, AttState
<1>2. ServerType'
  BY DEF IInv, PushScript, HeartbeatScript, ServerType, RowStatus
<1>3. QED  BY <1>1, <1>2, ServerStepKeeps DEF PushScript, HeartbeatScript

\* A claim that is handed back was not answered in between.
LEMMA ReleaseClaimKeeps ==
    ASSUME IInv, ReleaseClaim
    PROVE  IInv' /\ Decided
<1>1. AgentTypeOK'  BY DEF IInv, AgentInv, ReleaseClaim, agentVars, AgentTypeOK
<1>2. ServerType'  BY DEF IInv, ReleaseClaim, ServerType, RowStatus
<1>3. QED  BY <1>1, <1>2, ServerStepKeeps DEF ReleaseClaim, agentVars

\* A result that cannot be stored parks the row.
LEMMA IngestFailsKeeps ==
    ASSUME IInv, NEW i \in Attempt, IngestFails(i)
    PROVE  IInv' /\ Decided
<1>1. AgentTypeOK'  BY DEF IInv, AgentInv, IngestFails, agentVars, AgentTypeOK
<1>2. ServerType'  BY DEF IInv, IngestFails, ServerType, RowStatus
<1>3. row # "cancelled"  BY DEF IngestFails, Reported, Accepts
<1>4. QED  BY <1>1, <1>2, <1>3, ServerStepKeeps DEF IngestFails, agentVars

\* The writers of a cancel command's row do not touch the execution.
LEMMA CancelRowKeeps ==
    ASSUME IInv, NEW k \in Cancel,
           \/ DeliverCancel(k) \/ ReleaseCancel(k) \/ AckCommit(k) \/ AckFails(k)
           \/ ReapCancelRow(k)
    PROVE  IInv' /\ Decided
<1>1. AgentTypeOK'
  <2>1. CASE DeliverCancel(k)
    BY <2>1 DEF IInv, AgentInv, DeliverCancel, Receive, AgentTypeOK, AskState
  <2>2. CASE UNCHANGED agentVars
    BY <2>2 DEF IInv, AgentInv, agentVars, AgentTypeOK
  <2>3. QED  BY <2>1, <2>2 DEF ReleaseCancel, AckCommit, AckFails, ReapCancelRow
<1>2. ServerType'
  <2>1. crow' \in [Cancel -> RowStatus]
    BY DEF IInv, ServerType, RowStatus, DeliverCancel, ReleaseCancel, AckCommit, AckFails,
       ReapCancelRow
  <2>2. acking' \subseteq Cancel
    BY DEF IInv, ServerType, DeliverCancel, ReleaseCancel, AckCommit, AckFails, ReapCancelRow
  <2>3. UNCHANGED <<exec, batch, row, push, sweep>>
    BY DEF DeliverCancel, ReleaseCancel, AckCommit, AckFails, ReapCancelRow
  <2>4. QED  BY <2>1, <2>2, <2>3 DEF IInv, ServerType
<1>3. UNCHANGED <<answer, exec, batch, sweep, row>>
  BY DEF DeliverCancel, ReleaseCancel, AckCommit, AckFails, ReapCancelRow, agentVars
<1>4. \A c \in Cancel : ask'[c] # ask[c] => ask[c] = "absent"
  BY DEF IInv, AgentInv, AgentTypeOK, DeliverCancel, Receive, ReleaseCancel, AckCommit, AckFails,
     ReapCancelRow, agentVars
<1>5. QED  BY <1>1, <1>2, <1>3, <1>4, ServerStepKeeps

\* The sweep's SELECT notes the status to go back to.
LEMMA SweepObserveKeeps ==
    ASSUME IInv, SweepObserve
    PROVE  IInv' /\ Decided
<1>1. exec.cmd \in Cancel /\ exec.prev \in {"pending", "running"}
  BY DEF IInv, ExecutionInv, CancellingKnown, SweepObserve
<1>2. AgentInv'
  BY DEF IInv, AgentInv, SweepObserve, agentVars, AgentTypeOK, AnswersFinal
<1>3. sweep' \in Observation /\ sweep'.prev \in {"pending", "running"}
  BY <1>1 DEF SweepObserve, Observation, ExecStatus
<1>4. ServerType' /\ SweepKnows'
  BY <1>3 DEF IInv, ServerType, SweepKnows, SweepObserve
<1>5. ExecutionInv' /\ Decided
  BY ExecutionKept DEF AnswersKept, SweepObserve, agentVars
<1>6. QED  BY <1>2, <1>4, <1>5 DEF IInv

-----------------------------------------------------------------------------
(* Steps that write the execution *)

\* A server step that writes the execution keeps what the agent guarantees.
LEMMA AgentUntouched ==
    ASSUME IInv, UNCHANGED agentVars
    PROVE  AgentInv' /\ AnswersKept
  BY DEF IInv, AgentInv, agentVars, AgentTypeOK, AnswersFinal, AnswersKept

\* MarkRunning moves a pending execution only.
LEMMA MarkRunningKeeps ==
    ASSUME IInv, MarkRunning
    PROVE  IInv' /\ Decided
<1>1. CASE exec' = exec
  <2>1. ServerType' /\ SweepKnows'
    BY <1>1 DEF MarkRunning, IInv, ServerType, SweepKnows
  <2>2. ExecutionInv' /\ Decided  BY <1>1, ExecutionKept, AgentUntouched DEF MarkRunning
  <2>3. QED  BY <2>1, <2>2, AgentUntouched DEF IInv, MarkRunning
<1>2. CASE exec.status = "pending" /\ exec' = [exec EXCEPT !.status = "running"]
  <2>1. ServerType' /\ SweepKnows'
    BY <1>2 DEF MarkRunning, IInv, ServerType, ExecStatus, SweepKnows
  <2>2. /\ exec'.status = "running" /\ exec'.state = exec.state
        /\ exec'.output = exec.output /\ exec'.cmd = exec.cmd
    BY <1>2 DEF IInv, ServerType
  <2>3. ExecutionInv' /\ Decided
    BY <1>2, <2>2 DEF MarkRunning, agentVars, IInv, ExecutionInv, CancellingKnown,
       UncountedWhileOpen, CountedAtMostOnce, CompletedHasOutput, ConfirmedIsCancelled,
       OutputKept, ConfirmedByDevice, Decided, Terminal
  <2>4. QED  BY <2>1, <2>3, AgentUntouched DEF IInv, MarkRunning
<1>3. QED  BY <1>1, <1>2 DEF MarkRunning

\* A retracted command proves the cancel by itself.
LEMMA RetractKeeps ==
    ASSUME IInv, Retract
    PROVE  IInv' /\ Decided
<1>1. exec' = [exec EXCEPT !.prev = exec.status, !.state = "confirmed", !.status = "cancelled"]
  BY DEF Retract, Asked, IInv, ServerType
<1>2. ServerType' /\ SweepKnows'
  BY <1>1 DEF Retract, IInv, ServerType, ExecStatus, CancelState, RowStatus, SweepKnows
<1>3. exec'.status = "cancelled" /\ exec'.state = "confirmed" /\ row' = "cancelled"
  BY <1>1 DEF Retract, IInv, ServerType
<1>4. ExecutionInv' /\ Decided
  BY <1>3 DEF Retract, InFlight, IInv, ServerType, ExecutionInv, CancellingKnown,
     UncountedWhileOpen, CountedAtMostOnce, CompletedHasOutput, ConfirmedIsCancelled,
     OutputKept, ConfirmedByDevice, Decided, Terminal
<1>5. QED  BY <1>2, <1>4, AgentUntouched DEF IInv, Retract

\* A request that finds the command over records itself and decides nothing.
LEMMA RecoveredKeeps ==
    ASSUME IInv, Recovered
    PROVE  IInv' /\ Decided
<1>1. exec' = [exec EXCEPT !.prev = exec.status, !.state = "unconfirmed"]
  BY DEF Recovered, Asked
<1>2. ServerType' /\ SweepKnows'
  BY <1>1 DEF Recovered, IInv, ServerType, CancelState, SweepKnows
<1>3. /\ exec'.status = exec.status /\ exec'.state = "unconfirmed" /\ exec'.cmd = exec.cmd
      /\ exec'.output = exec.output
  BY <1>1 DEF IInv, ServerType
<1>4. ExecutionInv' /\ Decided
  BY <1>3 DEF Recovered, InFlight, IInv, ExecutionInv, CancellingKnown,
     UncountedWhileOpen, CountedAtMostOnce, CompletedHasOutput, ConfirmedIsCancelled,
     OutputKept, ConfirmedByDevice, Decided, Terminal
<1>5. QED  BY <1>2, <1>4, AgentUntouched DEF IInv, Recovered

\* `cancelling` names the cancel command and the status to go back to.
LEMMA StartCancellingKeeps ==
    ASSUME IInv, NEW k \in Cancel, StartCancelling(k)
    PROVE  IInv' /\ Decided
<1>1. exec' = [exec EXCEPT !.prev = exec.status, !.state = "requested",
                           !.status = "cancelling", !.cmd = k]
  BY DEF StartCancelling, Asked, IInv, ServerType
<1>2. crow' \in [Cancel -> RowStatus]
  BY DEF StartCancelling, IInv, ServerType, RowStatus
<1>3. ServerType' /\ SweepKnows'
  BY <1>1, <1>2 DEF StartCancelling, IInv, ServerType, ExecStatus, CancelState, SweepKnows
<1>4. /\ exec'.status = "cancelling" /\ exec'.state = "requested" /\ exec'.cmd = k
      /\ exec'.prev = exec.status /\ exec'.output = exec.output
  BY <1>1 DEF IInv, ServerType
<1>5. ExecutionInv' /\ Decided
  BY <1>4 DEF StartCancelling, InFlight, IInv, ExecutionInv, CancellingKnown,
     UncountedWhileOpen, CountedAtMostOnce, CompletedHasOutput, ConfirmedIsCancelled,
     OutputKept, ConfirmedByDevice, Decided, Terminal
<1>6. QED  BY <1>3, <1>5, AgentUntouched DEF IInv, StartCancelling

\* handleScriptResult: the row comes to show a result, the execution has the output, and
\* the batch is counted when this is what ends the execution.
LEMMA IngestResultKeeps ==
    ASSUME IInv, NEW i \in Attempt, IngestResult(i)
    PROVE  IInv' /\ Decided
<1> DEFINE r == commandResultSchema(res[i])
<1>0. r.marker = None  BY DEF commandResultSchema
<1>1. handleScriptResult(r) /\ row' \in {"completed", "failed"} /\ row # "cancelled"
      /\ UNCHANGED <<agentVars, crow, push, sweep, acking>>
  BY DEF IngestResult, Reported, Accepts
<1>2. /\ exec' \in [status : ExecStatus, prev : ExecStatus, state : CancelState,
                     cmd : Cancel \cup {None}, output : BOOLEAN]
      /\ exec'.output /\ Terminal' /\ exec'.cmd = exec.cmd
      /\ batch' = IF Terminal THEN batch ELSE batch + 1
      /\ exec.status = "cancelled" => exec'.status = "cancelled"
      /\ exec'.state = IF exec.status = "cancelling" THEN "unconfirmed" ELSE exec.state
  <2> DEFINE E == [status : ExecStatus, prev : ExecStatus, state : CancelState,
                   cmd : Cancel \cup {None}, output : BOOLEAN]
  <2>0. exec \in E  BY DEF IInv, ServerType
  <2>1. CASE exec.status = "cancelling"
    <3>1. exec' = [Recorded(r.ending) EXCEPT !.state = "unconfirmed"] /\ batch' = batch + 1
      BY <1>0, <1>1, <2>1 DEF handleScriptResult, InFlight, Terminal
    <3>2. PICK s \in {"completed", "failed"} :
             Recorded(r.ending) = [exec EXCEPT !.status = s, !.output = TRUE]
      BY DEF Recorded
    <3>3. /\ exec' = [exec EXCEPT !.status = s, !.output = TRUE, !.state = "unconfirmed"]
          /\ s \in ExecStatus /\ "unconfirmed" \in CancelState
      BY <2>0, <3>1, <3>2 DEF ExecStatus, CancelState
    <3>4. exec' \in E  BY <2>0, <3>3
    <3>5. /\ exec'.output /\ exec'.status = s /\ exec'.cmd = exec.cmd
          /\ exec'.state = "unconfirmed"
      BY <2>0, <3>3
    <3>6. Terminal' /\ ~Terminal  BY <2>1, <3>2, <3>5 DEF Terminal
    <3>7. QED  BY <2>1, <3>1, <3>4, <3>5, <3>6
  <2>2. CASE InFlight
    BY <1>1, <2>2 DEF handleScriptResult, InFlight, Terminal, Recorded, IInv, ServerType,
       ExecStatus
  <2>3. CASE Terminal
    <3>1. /\ exec' = IF exec.output \/ exec.status = "completed" THEN exec
                     ELSE IF exec.status = "cancelled" THEN [exec EXCEPT !.output = TRUE]
                     ELSE Recorded(r.ending)
          /\ UNCHANGED batch
      BY <1>1, <2>3 DEF handleScriptResult, InFlight, Terminal
    <3>2. exec.status = "completed" => exec.output
      BY DEF IInv, ExecutionInv, CompletedHasOutput
    <3>3. CASE exec' = exec /\ exec.output  BY <2>0, <2>3, <3>1, <3>3 DEF Terminal
    <3>4. CASE exec' = [exec EXCEPT !.output = TRUE] /\ exec.status = "cancelled"
      BY <2>0, <2>3, <3>1, <3>4 DEF Terminal
    <3>5. CASE exec' = Recorded(r.ending) /\ exec.status # "cancelled"
      BY <2>0, <2>3, <3>1, <3>5 DEF Recorded, Terminal, ExecStatus
    <3>6. QED  BY <3>1, <3>2, <3>3, <3>4, <3>5
  <2>4. QED  BY <2>1, <2>2, <2>3 DEF InFlight, Terminal
<1>3. ServerType' /\ SweepKnows'
  BY <1>1, <1>2 DEF IInv, ServerType, RowStatus, SweepKnows
<1>4. ExecutionInv' /\ Decided
  <2>1. UncountedWhileOpen' /\ CountedAtMostOnce'
    BY <1>2 DEF IInv, ServerType, ExecutionInv, UncountedWhileOpen, CountedAtMostOnce
  <2>2. CancellingKnown' /\ CompletedHasOutput' /\ OutputKept'
    BY <1>2 DEF CancellingKnown, CompletedHasOutput, OutputKept, Terminal
  <2>3. ConfirmedIsCancelled' /\ Decided
    BY <1>2 DEF IInv, ExecutionInv, ConfirmedIsCancelled, Decided
  <2>4. ConfirmedByDevice'
    BY <1>1, <1>2 DEF IInv, ExecutionInv, ConfirmedByDevice, agentVars
  <2>5. QED  BY <2>1, <2>2, <2>3, <2>4 DEF ExecutionInv
<1>5. QED  BY <1>1, <1>3, <1>4, AgentUntouched DEF IInv

\* The acknowledgement closes a cancel of its own command, as the agent's word proves, or
\* puts the execution back.
LEMMA AckKeeps ==
    ASSUME IInv, NEW k \in Cancel, Ack(k)
    PROVE  IInv' /\ Decided
<1>1. PICK transport \in {"ws", "rest"} : applyScriptCancelAck(k, readOutcome(k, transport))
  BY DEF Ack
<1> DEFINE outcome == readOutcome(k, transport)
<1>2. UNCHANGED <<agentVars, batch, row, crow, push, sweep>> /\ acking' = acking \cup {k}
  BY DEF Ack
<1>3. CASE ~AckMatches(k)
  <2>1. exec' = exec  BY <1>1, <1>3 DEF applyScriptCancelAck
  <2>2. ServerType' /\ SweepKnows'  BY <1>2, <2>1 DEF IInv, ServerType, SweepKnows
  <2>3. ExecutionInv' /\ Decided  BY <1>2, <2>1, ExecutionKept, AgentUntouched
  <2>4. QED  BY <1>2, <2>2, <2>3, AgentUntouched DEF IInv
<1>4. CASE AckMatches(k) /\ outcome = "terminated"
  <2>1. exec' = [exec EXCEPT !.status = "cancelled", !.state = "confirmed"]
    BY <1>1, <1>4 DEF applyScriptCancelAck
  <2>2. answer[k] = "terminated"  BY <1>4 DEF readOutcome
  <2>3. ServerType' /\ SweepKnows'
    BY <1>2, <2>1 DEF IInv, ServerType, ExecStatus, CancelState, SweepKnows
  <2>4. /\ exec'.status = "cancelled" /\ exec'.state = "confirmed" /\ exec'.cmd = k
        /\ exec'.output = exec.output /\ k # None
    BY <1>4, <2>1, AgentAssumption DEF AckMatches, IInv, ServerType
  <2>5. ExecutionInv' /\ Decided
    BY <1>2, <1>4, <2>2, <2>4 DEF AckMatches, agentVars, IInv, ServerType, ExecutionInv,
       CancellingKnown, UncountedWhileOpen, CountedAtMostOnce, CompletedHasOutput,
       ConfirmedIsCancelled, OutputKept, ConfirmedByDevice, Decided, Terminal
  <2>6. QED  BY <1>2, <2>3, <2>5, AgentUntouched DEF IInv
<1>5. CASE AckMatches(k) /\ outcome # "terminated"
  <2>1. PICK state \in {"failed", "unconfirmed"} :
           exec' = [exec EXCEPT !.status = exec.prev, !.state = state]
    BY <1>1, <1>5 DEF applyScriptCancelAck
  <2>2. exec.prev \in {"pending", "running"} /\ exec.status = "cancelling"
    BY <1>5 DEF AckMatches, IInv, ExecutionInv, CancellingKnown
  <2>3. ServerType' /\ SweepKnows'
    BY <1>2, <2>1 DEF IInv, ServerType, CancelState, SweepKnows
  <2>4. /\ exec'.status = exec.prev /\ exec'.state \in {"failed", "unconfirmed"}
        /\ exec'.output = exec.output
    BY <2>1 DEF IInv, ServerType
  <2>5. ExecutionInv' /\ Decided
    BY <1>2, <2>2, <2>4 DEF agentVars, IInv, ServerType, ExecutionInv,
       CancellingKnown, UncountedWhileOpen, CountedAtMostOnce, CompletedHasOutput,
       ConfirmedIsCancelled, OutputKept, ConfirmedByDevice, Decided, Terminal
  <2>6. QED  BY <1>2, <2>3, <2>5, AgentUntouched DEF IInv
<1>6. QED  BY <1>3, <1>4, <1>5

\* finalizeScriptExecutionTerminal ends an execution that is in flight and counts it, or
\* does nothing.
LEMMA FinalizeKeeps ==
    ASSUME IInv, NEW outcome \in {"completed", "failed", "timeout", "cancelled"},
           Finalize(outcome),
           outcome = "completed" => exec.output,
           UNCHANGED <<agentVars, crow, push, sweep, acking>>,
           row' \in RowStatus \ {"absent"},
           row = "cancelled" => row' = "cancelled",
           row' \in {"completed", "failed"} => row \in {"completed", "failed"}
    PROVE  IInv' /\ Decided
<1>1. CASE ~InFlight
  <2>1. UNCHANGED <<exec, batch>>  BY <1>1 DEF Finalize
  <2>2. ServerType' /\ SweepKnows'  BY <2>1 DEF IInv, ServerType, SweepKnows
  <2>3. ExecutionInv' /\ Decided  BY <2>1, ExecutionKept, AgentUntouched
  <2>4. QED  BY <2>2, <2>3, AgentUntouched DEF IInv
<1>2. CASE InFlight
  <2>1. exec' = [exec EXCEPT !.status = outcome] /\ batch' = batch + 1
    BY <1>2 DEF Finalize
  <2>2. ServerType' /\ SweepKnows'
    BY <2>1 DEF IInv, ServerType, ExecStatus, SweepKnows
  <2>3. /\ exec'.status = outcome /\ exec'.state = exec.state /\ exec'.cmd = exec.cmd
        /\ exec'.output = exec.output
    BY <2>1 DEF IInv, ServerType
  <2>4. exec.state # "confirmed"
    BY <1>2 DEF InFlight, IInv, ExecutionInv, ConfirmedIsCancelled
  <2>5. batch' = 1
    BY <1>2, <2>1 DEF InFlight, Terminal, IInv, ExecutionInv, UncountedWhileOpen
  <2>6. ExecutionInv'
    BY <2>3, <2>4, <2>5 DEF IInv, ExecutionInv, CancellingKnown, UncountedWhileOpen,
       CountedAtMostOnce, CompletedHasOutput, ConfirmedIsCancelled, OutputKept,
       ConfirmedByDevice, Terminal
  <2>7. Decided  BY <1>2, <2>3 DEF InFlight, Decided, Terminal
  <2>8. QED  BY <2>2, <2>6, <2>7, AgentUntouched DEF IInv
<1>3. QED  BY <1>1, <1>2

\* The reapers and the cancellation of the row go through finalizeScriptExecutionTerminal.
\* An execution is inferred `completed` from a row that shows a result only.
LEMMA ReapersKeep ==
    ASSUME IInv, ReapRow \/ ReapExecution \/ RowCancel
    PROVE  IInv' /\ Decided
<1>1. CASE ReapRow
  BY <1>1, FinalizeKeeps DEF ReapRow, RowStatus
<1>2. CASE RowCancel
  BY <1>2, FinalizeKeeps DEF RowCancel, RowStatus
<1>3. CASE ReapExecution
  <2>1. PICK outcome \in {"completed", "failed", "timeout", "cancelled"} :
           Finalize(outcome) /\ (outcome = "completed" => row = "completed")
    BY <1>3 DEF ReapExecution
  <2>2. outcome = "completed" => exec.output
    BY <2>1 DEF IInv, ExecutionInv, OutputKept
  <2>3. UNCHANGED <<agentVars, row, crow, push, sweep, acking>>  BY <1>3 DEF ReapExecution
  <2>4. QED  BY <2>1, <2>2, <2>3, FinalizeKeeps DEF IInv, ServerType
<1>4. QED  BY <1>1, <1>2, <1>3

\* The sweep reverts under its compare-and-set.
LEMMA SweepRevertKeeps ==
    ASSUME IInv, SweepRevert
    PROVE  IInv' /\ Decided
<1>1. UNCHANGED <<agentVars, batch, row, push, acking>> /\ sweep' = None /\ sweep # None
  BY DEF SweepRevert
<1>2. sweep \in Observation /\ sweep.prev \in {"pending", "running"}
  BY <1>1 DEF IInv, ServerType, SweepKnows
<1>3. SweepKnows'  BY <1>1 DEF SweepKnows
<1>4. CASE exec.status = "cancelling"
  <2>1. exec' = [exec EXCEPT !.status = sweep.prev, !.state = "unconfirmed"]
    BY <1>4 DEF SweepRevert
  <2>2. crow' \in [Cancel -> RowStatus]
    BY <1>2, <1>4 DEF SweepRevert, Observation, IInv, ServerType, RowStatus
  <2>3. ServerType'
    BY <1>1, <1>2, <2>1, <2>2 DEF IInv, ServerType, ExecStatus, CancelState
  <2>4. exec'.status = sweep.prev /\ exec'.state = "unconfirmed" /\ exec'.output = exec.output
    BY <2>1 DEF IInv, ServerType
  <2>5. ExecutionInv' /\ Decided
    BY <1>1, <1>2, <1>4, <2>4 DEF agentVars, IInv, ServerType, ExecutionInv,
       CancellingKnown, UncountedWhileOpen, CountedAtMostOnce, CompletedHasOutput,
       ConfirmedIsCancelled, OutputKept, ConfirmedByDevice, Decided, Terminal
  <2>6. QED  BY <1>1, <1>3, <2>3, <2>5, AgentUntouched DEF IInv
<1>5. CASE exec.status # "cancelling"
  <2>1. UNCHANGED <<exec, crow>>  BY <1>5 DEF SweepRevert
  <2>2. ServerType'  BY <1>1, <2>1 DEF IInv, ServerType
  <2>3. ExecutionInv' /\ Decided  BY <1>1, <2>1, ExecutionKept, AgentUntouched
  <2>4. QED  BY <1>1, <1>3, <2>2, <2>3, AgentUntouched DEF IInv
<1>6. QED  BY <1>4, <1>5

-----------------------------------------------------------------------------
(* The theorems *)

\* A dispatched execution starts in a state of the invariant.
LEMMA InitEstablishes == Init => IInv
<1> SUFFICES ASSUME Init PROVE IInv
  OBVIOUS
<1>1. AgentInv
  BY DEF Init, AgentInit, AgentInv, AgentTypeOK, AnswersFinal, AttState, AskState, Outcome, Ending
<1>2. ServerType /\ SweepKnows
  BY DEF Init, ServerType, SweepKnows, ExecStatus, CancelState, RowStatus
<1>3. ExecutionInv
  BY DEF Init, ExecutionInv, CancellingKnown, UncountedWhileOpen, CountedAtMostOnce,
     CompletedHasOutput, ConfirmedIsCancelled, OutputKept, ConfirmedByDevice, Terminal
<1>4. QED  BY <1>1, <1>2, <1>3 DEF IInv

\* Every step keeps the invariant and undoes no decision.
LEMMA StepKeeps == IInv /\ [Next]_vars => IInv' /\ [Decided]_vars
<1> SUFFICES ASSUME IInv, [Next]_vars PROVE IInv' /\ [Decided]_vars
  OBVIOUS
<1>1. CASE AgentStep  BY <1>1, AgentStepKeeps
<1>2. ASSUME NEW i \in Attempt,
             PushScript(i) \/ HeartbeatScript(i) \/ IngestResult(i) \/ IngestFails(i)
      PROVE  IInv' /\ [Decided]_vars
  BY <1>2, DispatchKeeps, IngestResultKeeps, IngestFailsKeeps
<1>3. CASE MarkRunning \/ ReleaseClaim  BY <1>3, MarkRunningKeeps, ReleaseClaimKeeps
<1>4. CASE Retract \/ Recovered  BY <1>4, RetractKeeps, RecoveredKeeps
<1>5. ASSUME NEW k \in Cancel,
             \/ StartCancelling(k) \/ DeliverCancel(k) \/ ReleaseCancel(k)
             \/ Ack(k) \/ AckCommit(k) \/ AckFails(k) \/ ReapCancelRow(k)
      PROVE  IInv' /\ [Decided]_vars
  BY <1>5, StartCancellingKeeps, CancelRowKeeps, AckKeeps
<1>6. CASE ReapRow \/ ReapExecution \/ SweepObserve \/ SweepRevert \/ RowCancel
  BY <1>6, ReapersKeep, SweepObserveKeeps, SweepRevertKeeps
<1>7. CASE UNCHANGED vars
  <2>1. UNCHANGED <<agentVars, serverVars>>  BY <1>7 DEF vars
  <2>2. ServerType' /\ SweepKnows'  BY <2>1 DEF IInv, serverVars, ServerType, SweepKnows
  <2>3. ExecutionInv'  BY <2>1, ExecutionKept, AgentUntouched DEF serverVars
  <2>4. QED  BY <1>7, <2>1, <2>2, <2>3, AgentUntouched DEF IInv
<1>8. QED  BY <1>1, <1>2, <1>3, <1>4, <1>5, <1>6, <1>7 DEF Next

\* The invariant holds in every reachable state.
LEMMA Invariance == Spec => []IInv
  BY InitEstablishes, StepKeeps, PTL DEF Spec

\* Every row, counter and answer keeps its type.
THEOREM TypeCorrect == Spec => []TypeOK
<1>1. IInv => TypeOK  BY TypeSplit DEF IInv, AgentInv
<1>2. QED  BY <1>1, Invariance, PTL

\* The honesty contract of cancelScriptExecution and applyScriptCancelAck: an execution
\* says `confirmed` when its command was retracted before it left, or the agent answered
\* `terminated` to the very cancel command the execution names.
THEOREM ConfirmedByDeviceHolds == Spec => []ConfirmedByDevice
<1>1. IInv => ConfirmedByDevice  BY DEF IInv, ExecutionInv
<1>2. QED  BY <1>1, Invariance, PTL

\* The five closers and the reapers move the batch's device counters at most once.
THEOREM CountedAtMostOnceHolds == Spec => []CountedAtMostOnce
<1>1. IInv => CountedAtMostOnce  BY DEF IInv, ExecutionInv
<1>2. QED  BY <1>1, Invariance, PTL

\* A result that handleScriptResult ingested is in the execution, whichever closer,
\* reaper or sweep had written the execution before.
THEOREM OutputKeptHolds == Spec => []OutputKept
<1>1. IInv => OutputKept  BY DEF IInv, ExecutionInv
<1>2. QED  BY <1>1, Invariance, PTL

\* No late result, acknowledgement, sweep or reaper takes back a terminal status, a
\* cancelled one or a confirmed cancel.
THEOREM DecidedStaysHolds == Spec => DecidedStays
<1>1. IInv /\ [Next]_vars => [Decided]_vars  BY StepKeeps
<1>2. QED  BY <1>1, Invariance, PTL DEF Spec, DecidedStays, Decided

\* The server's half only hands the agent frames: what the composition lets the agent do
\* is what ScriptAgent promises, which the script executor is proved to implement.
THEOREM ComposesAgent == Spec => AgentSpec
<1>1. Init => AgentInit  BY DEF Init
<1>2. ASSUME [Next]_vars PROVE [AgentNext \/ FrameNext]_agentVars
  <2>1. CASE AgentStep  BY <2>1 DEF AgentStep
  <2>2. ASSUME NEW i \in Attempt, PushScript(i) \/ HeartbeatScript(i)
        PROVE  [AgentNext \/ FrameNext]_agentVars
    <3>1. Arrive(i) \/ UNCHANGED att  BY <2>2 DEF PushScript, HeartbeatScript, Send
    <3>2. UNCHANGED <<res, ask, answer, crashes>>  BY <2>2 DEF PushScript, HeartbeatScript
    <3>3. QED  BY <3>1, <3>2 DEF FrameNext, agentVars
  <2>3. ASSUME NEW k \in Cancel, DeliverCancel(k)
        PROVE  [AgentNext \/ FrameNext]_agentVars
    <3>1. Receive(k) \/ UNCHANGED ask  BY <2>3 DEF DeliverCancel
    <3>2. UNCHANGED <<att, res, answer, crashes>>  BY <2>3 DEF DeliverCancel
    <3>3. QED  BY <3>1, <3>2 DEF FrameNext, agentVars
  <2>4. ASSUME NEW i \in Attempt, IngestResult(i) \/ IngestFails(i)
        PROVE  UNCHANGED agentVars
    BY <2>4 DEF IngestResult, IngestFails
  <2>5. ASSUME NEW k \in Cancel,
               \/ StartCancelling(k) \/ ReleaseCancel(k) \/ Ack(k) \/ AckCommit(k)
               \/ AckFails(k) \/ ReapCancelRow(k)
        PROVE  UNCHANGED agentVars
    BY <2>5 DEF StartCancelling, ReleaseCancel, Ack, AckCommit, AckFails, ReapCancelRow
  <2>6. CASE \/ MarkRunning \/ ReleaseClaim \/ Retract \/ Recovered \/ ReapRow
             \/ ReapExecution \/ SweepObserve \/ SweepRevert \/ RowCancel
    BY <2>6 DEF MarkRunning, ReleaseClaim, Retract, Recovered, ReapRow, ReapExecution,
                SweepObserve, SweepRevert, RowCancel
  <2>7. CASE UNCHANGED vars  BY <2>7 DEF vars
  <2>8. QED  BY <1>2, <2>1, <2>2, <2>3, <2>4, <2>5, <2>6, <2>7 DEF Next
<1>3. QED  BY <1>1, <1>2, PTL DEF Spec, AgentSpec

=============================================================================
