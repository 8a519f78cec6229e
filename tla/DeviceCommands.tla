--------------------------- MODULE DeviceCommands ---------------------------
(***************************************************************************)
(* The device_commands rows of one device, and everyone who writes them.   *)
(*                                                                         *)
(* A row is enqueued as `pending`, claimed (`sent`) by the direct          *)
(* WebSocket push or by a heartbeat, prepared and delivered or put back,   *)
(* answered by the agent over two transports at once, timed out by a       *)
(* waiting caller or by the stale-command reaper, cancelled by users and   *)
(* sweeps.  All of them run concurrently against PostgreSQL at READ        *)
(* COMMITTED: an action is one committed statement or transaction, and a   *)
(* transaction that keeps row locks over several steps (heartbeat claim,   *)
(* reaper pass) shows them in Locked.                                      *)
(***************************************************************************)
EXTENDS Naturals, FiniteSets

CONSTANTS
    Command,      \* the device's commands
    Sync,         \* issued by executeCommand: a caller waits for the result
    Power,        \* POWER_STATE_BARRIER_TYPES (reboot, shutdown, ...)
    Queued,       \* QUEUED_BACKUP_WORKLOAD_COMMAND_TYPES: ack first, result later
    Diagnostic,   \* TIMEOUT_REOPEN_EXCLUDED_COMMAND_TYPES
    Pam,          \* PAM v2 actuation: claimed by heartbeats only
    Script,       \* commands with a script_executions record
    Events,       \* environment events a run allows, see EventKind
    MaxCommands,  \* bound on the commands enqueued
    MaxClaims,    \* bound on the visible claims of a row
    MaxForgets    \* bound on the agent forgetting a command id

EventKind == {"cancel", "sweep", "ineligible", "unprepared", "reportedFailed",
              "agentRefuses", "persistFails", "rollback"}

ASSUME CommandAssumption ==
    /\ Sync \subseteq Command
    /\ Power \subseteq Command
    /\ Queued \subseteq Command
    /\ Diagnostic \subseteq Command
    /\ Pam \subseteq Command \ (Sync \cup Queued)
    /\ Script \subseteq Command \ (Power \cup Queued \cup Diagnostic \cup Pam)
ASSUME BoundsAssumption == MaxCommands \in Nat /\ MaxClaims \in Nat /\ MaxForgets \in Nat
ASSUME EventsAssumption == Events \subseteq EventKind

VARIABLES
    row,        \* the committed row of each command
    claims,     \* visible claims so far; the claim timestamp is this counter
    late,       \* commands whose current claim is older than its timeout
    old,        \* commands whose creation is older than their timeout
    owner,      \* the script_executions record of a script command
    push,       \* the enqueuing request's push and wait
    hb,         \* the heartbeat (or REST poll) transaction
    reap,       \* the reaper's observation of each row
    frames,     \* command frames on their way to the agent
    seen,       \* Heartbeat.seenCommands on the agent
    forgets,    \* times the agent lost a command id from seenCommands
    runs,       \* times the agent ran the command
    results,    \* results the agent sends, possibly more than once
    ingest,     \* one result handler per transport
    recorded    \* results committed together with their per-type records

vars == <<row, claims, late, old, owner, push, hb, reap, frames, seen,
          forgets, runs, results, ingest, recorded>>

Status    == {"absent", "pending", "sent", "completed", "failed", "cancelled"}
Mark      == {"none", "deferred", "refused", "timeout", "queue_ack",
              "processing_failed", "agent", "cancelled", "swept", "withheld"}
\* deliver_by: `instant` is a deadline set to the current time by a refusal, which
\* a claim that read its clock a moment earlier still takes for a future one.
Deadline  == {"none", "future", "instant", "past"}
Owner     == {"none", "open", "running", "agent", "server", "cancelled"}
Row       == [status : Status, executedAt : Nat, deliverBy : Deadline, mark : Mark]
Transport == {"ws", "rest"}
PushPc    == {"idle", "queued", "checked", "claimed", "releasing", "waiting", "done"}
ReapPc    == {"idle", "observed", "locked"}
Result    == Command \X {"ack", "final"} \X Transport
IngestPc  == {"idle", "found", "parking"}

TypeOK ==
    /\ row \in [Command -> Row]
    /\ claims \in [Command -> Nat]
    /\ late \subseteq Command
    /\ old \subseteq Command
    /\ owner \in [Command -> Owner]
    /\ push \in [Command -> [pc : PushPc, claimedAt : Nat]]
    /\ hb \in [open : BOOLEAN, rows : SUBSET Command, inFlight : BOOLEAN]
    /\ reap \in [Command -> [pc : ReapPc, status : Status, executedAt : Nat]]
    /\ frames \subseteq Command \X {"ws", "http"}
    /\ seen \subseteq Command
    /\ forgets \in [Command -> Nat]
    /\ runs \in [Command -> Nat]
    /\ results \subseteq Result
    /\ ingest \in [Transport -> [pc : IngestPc, cmd : Command \cup {"none"},
                                 kind : {"ack", "final"}]]
    /\ recorded \in [Command -> Nat]

NoRow       == [status |-> "absent", executedAt |-> 0, deliverBy |-> "none", mark |-> "none"]
NotObserved == [pc |-> "idle", status |-> "absent", executedAt |-> 0]
NoIngest    == [pc |-> "idle", cmd |-> "none", kind |-> "final"]
NoClaim     == [open |-> FALSE, rows |-> {}, inFlight |-> FALSE]

Init ==
    /\ row = [c \in Command |-> NoRow]
    /\ claims = [c \in Command |-> 0]
    /\ late = {}
    /\ old = {}
    /\ owner = [c \in Command |-> IF c \in Script THEN "open" ELSE "none"]
    /\ push = [c \in Command |-> [pc |-> "idle", claimedAt |-> 0]]
    /\ hb = NoClaim
    /\ reap = [c \in Command |-> NotObserved]
    /\ frames = {}
    /\ seen = {}
    /\ forgets = [c \in Command |-> 0]
    /\ runs = [c \in Command |-> 0]
    /\ results = {}
    /\ ingest = [t \in Transport |-> NoIngest]
    /\ recorded = [c \in Command |-> 0]

-----------------------------------------------------------------------------
(* Predicates of the table *)

Open(c) == row[c].status \in {"pending", "sent"}
Sent == {c \in Command : row[c].status = "sent"}

\* Rows another transaction must wait for (or skip).
Locked == hb.rows \cup {c \in Command : reap[c].pc = "locked"}

\* deliver_by IS NULL OR deliver_by > now, in every claim query, for the `now`
\* the claimer read: either answer is possible at the instant itself.
BeforeDeadline(c) == row[c].deliverBy # "past"
AfterDeadline(c)  == row[c].deliverBy \in {"instant", "past"}

\* commandAcceptsAgentResultCondition and its in-memory twin.
AcceptsResult(c) ==
    \/ Open(c)
    \/ /\ row[c].status = "failed"
       /\ row[c].mark = "timeout"
       /\ c \notin Diagnostic
    \/ /\ row[c].status = "completed"
       /\ row[c].mark = "queue_ack"
       /\ c \in Queued
    \/ /\ row[c].status = "failed"
       /\ row[c].mark = "processing_failed"
       /\ c \notin Diagnostic \cup Pam

\* claim: pending -> sent with a fresh executedAt; the result column is kept.
Claimed(c) ==
    [status |-> "sent", executedAt |-> claims[c] + 1,
     deliverBy |-> row[c].deliverBy, mark |-> row[c].mark]

\* A terminal write sets the status and the result.
Terminal(c, s, m) ==
    [status |-> s, executedAt |-> row[c].executedAt, deliverBy |-> row[c].deliverBy, mark |-> m]

\* finalizeScriptExecutionTerminal: only from pending, queued or running.
Close(c, outcome) == IF owner[c] \in {"open", "running"} THEN outcome ELSE owner[c]

-----------------------------------------------------------------------------
(* The enqueuing request: dispatchDeviceCommand, or executeCommand for Sync *)

\* Where the request goes once its push is over.
AfterPush(c) == IF c \in Sync THEN "waiting" ELSE "done"
PushTo(c, pc) == push' = [push EXCEPT ![c].pc = pc]

\* prepareDeviceCommand / the insert of executeCommand.  A `reject` policy (and
\* every executeCommand) leaves deliver_by NULL.  No push when the device is
\* offline, the caller prefers the heartbeat, or the type is inserted raw (PAM).
Enqueue(c) ==
    /\ row[c].status = "absent"
    /\ Cardinality({d \in Command : row[d].status # "absent"}) < MaxCommands
    /\ \E d \in IF c \in Sync \cup Pam THEN {"none"} ELSE {"none", "future"} :
          row' = [row EXCEPT ![c] = [status |-> "pending", executedAt |-> 0,
                                     deliverBy |-> d, mark |-> "none"]]
    /\ \/ /\ c \notin Pam
          /\ PushTo(c, IF c \in Power \ Sync THEN "queued" ELSE "checked")
       \/ PushTo(c, AfterPush(c))
    /\ UNCHANGED <<claims, late, old, owner, hb, reap, frames, seen, forgets,
                   runs, results, ingest, recorded>>

\* countInFlightCommandsForDevice before a power command is pushed.
PushPowerCheck(c) ==
    /\ push[c].pc = "queued"
    /\ PushTo(c, IF Sent = {} THEN "checked" ELSE "done")
    /\ UNCHANGED <<row, claims, late, old, owner, hb, reap, frames, seen,
                   forgets, runs, results, ingest, recorded>>

\* claimPendingCommandForDelivery: cancel on a failed revalidation, or claim
\* under a compare-and-set on pending and the deadline.
PushClaim(c) ==
    /\ push[c].pc = "checked"
    /\ c \notin Locked
    /\ \/ /\ row[c].status # "pending" \/ AfterDeadline(c)
          /\ PushTo(c, AfterPush(c))
          /\ UNCHANGED <<row, claims, late>>
       \/ /\ row[c].status = "pending"
          /\ "ineligible" \in Events
          /\ row' = [row EXCEPT ![c] = Terminal(c, "cancelled", "cancelled")]
          /\ PushTo(c, AfterPush(c))
          /\ UNCHANGED <<claims, late>>
       \/ /\ row[c].status = "pending"
          /\ BeforeDeadline(c)
          /\ claims[c] < MaxClaims
          /\ row' = [row EXCEPT ![c] = Claimed(c)]
          /\ claims' = [claims EXCEPT ![c] = @ + 1]
          /\ late' = late \ {c}
          /\ push' = [push EXCEPT ![c] = [pc |-> "claimed", claimedAt |-> claims[c] + 1]]
    /\ UNCHANGED <<old, owner, hb, reap, frames, seen, forgets, runs,
                   results, ingest, recorded>>

\* Mistake: the release checks that the row is sent, not whose claim it is.
HoldsClaimByStatus(c, at) == row[c].status = "sent"

\* The fence of every release: id, status = 'sent', executedAt = claim timestamp.
HoldsClaim(c, at) == row[c].status = "sent" /\ row[c].executedAt = at

\* releaseClaimedCommandDelivery and expireRefusedClaimedCommandDelivery.
Released(c, m) ==
    [status |-> "pending", executedAt |-> 0, deliverBy |-> row[c].deliverBy, mark |-> m]
Refused(c) ==
    [status |-> "pending", executedAt |-> 0, deliverBy |-> "instant", mark |-> "refused"]

WriteIfHeld(c, r) ==
    row' = IF HoldsClaim(c, push[c].claimedAt) THEN [row EXCEPT ![c] = r] ELSE row

\* refreshClaimedPayloadForPush, decryption and sendCommandToAgent; a script's
\* execution is then running.  A send can be reported failed although the frame
\* left; a request that dies here leaves the row sent.
PushDeliver(c) ==
    /\ push[c].pc = "claimed"
    /\ \/ /\ frames' = frames \cup {<<c, "ws">>}
          /\ owner' = [owner EXCEPT ![c] = IF @ = "open" /\ c \notin Sync
                                           THEN "running" ELSE @]
          /\ PushTo(c, AfterPush(c))
          /\ UNCHANGED row
       \/ /\ "unprepared" \in Events
          /\ PushTo(c, "releasing")
          /\ UNCHANGED <<row, owner, frames>>
       \/ /\ "reportedFailed" \in Events
          /\ frames' = frames \cup {<<c, "ws">>}
          /\ PushTo(c, "releasing")
          /\ UNCHANGED <<row, owner>>
       \/ /\ "unprepared" \in Events
          /\ c \notin Locked
          /\ WriteIfHeld(c, Refused(c))
          /\ PushTo(c, IF c \in Sync THEN "done" ELSE "releasing")
          /\ UNCHANGED <<owner, frames>>
       \/ /\ "unprepared" \in Events
          /\ c \notin Locked
          /\ WriteIfHeld(c, Released(c, "deferred"))
          /\ PushTo(c, "releasing")
          /\ UNCHANGED <<owner, frames>>
       \/ /\ "rollback" \in Events
          /\ PushTo(c, "done")
          /\ UNCHANGED <<row, owner, frames>>
    /\ UNCHANGED <<claims, late, old, hb, reap, seen, forgets, runs,
                   results, ingest, recorded>>

\* The caller's own release after a push that did not deliver; it follows the
\* refresher's release or expiry too, and may itself fail.
PushRelease(c) ==
    /\ push[c].pc = "releasing"
    /\ c \notin Locked
    /\ \/ WriteIfHeld(c, Released(c, row[c].mark))
       \/ "rollback" \in Events /\ UNCHANGED row
    /\ \E pc \in {AfterPush(c), "done"} : PushTo(c, pc)
    /\ UNCHANGED <<claims, late, old, owner, hb, reap, frames, seen, forgets,
                   runs, results, ingest, recorded>>

\* Mistake: the caller that gives up writes its timeout without a compare-and-set.
WaitResultBlind(c) ==
    /\ push[c].pc = "waiting"
    /\ c \notin Locked
    /\ row' = IF row[c].status \in {"completed", "failed"} THEN row
              ELSE [row EXCEPT ![c] = Terminal(c, "failed", "timeout")]
    /\ PushTo(c, "done")
    /\ UNCHANGED <<claims, late, old, owner, hb, reap, frames, seen, forgets,
                   runs, results, ingest, recorded>>

\* waitForCommandResult: returns on completed or failed, at the deadline fails
\* the row under a compare-and-set.  A cancelled row is only noticed then.
WaitResult(c) ==
    /\ push[c].pc = "waiting"
    /\ \/ /\ row[c].status \in {"completed", "failed"}
          /\ UNCHANGED row
       \/ /\ c \notin Locked
          /\ row' = IF Open(c) THEN [row EXCEPT ![c] = Terminal(c, "failed", "timeout")]
                              ELSE row
    /\ PushTo(c, "done")
    /\ UNCHANGED <<claims, late, old, owner, hb, reap, frames, seen, forgets,
                   runs, results, ingest, recorded>>

-----------------------------------------------------------------------------
(* Heartbeat and REST poll: one transaction claims and prepares a batch *)

\* The candidate scan: FOR UPDATE SKIP LOCKED of a batch, then the count of
\* rows in flight, a committed read that nothing holds still until the commit.
HbScan ==
    /\ ~hb.open
    /\ LET candidates == {c \in Command : /\ row[c].status = "pending"
                                          /\ BeforeDeadline(c)
                                          /\ claims[c] < MaxClaims} \ Locked
       IN \E batch \in SUBSET candidates \ {{}} :
             hb' = [open |-> TRUE, rows |-> batch, inFlight |-> Sent # {}]
    /\ UNCHANGED <<row, claims, late, old, owner, push, reap, frames, seen,
                   forgets, runs, results, ingest, recorded>>

\* Mistake: the barrier looks at the rows in flight but not at its own batch.
BarrierInFlightOnly(passed, inFlight) ==
    IF inFlight THEN {passed \ Power} ELSE {passed}

\* The power-state barrier over the rows that passed: held while anything else
\* goes out or is in flight, otherwise exactly one of them.
Barrier(passed, inFlight) ==
    LET others == passed \ Power
    IN  IF passed \cap Power = {} THEN {passed}
        ELSE IF others # {} \/ inFlight THEN {others}
        ELSE {{p} : p \in passed \cap Power}

\* prepareClaimedCommandsForDelivery on a row this transaction claimed: what the
\* commit leaves of it.
Prepared(c, outcome) ==
    CASE outcome = "deliver"  -> Claimed(c)
      [] outcome = "release"  -> row[c]
      [] outcome = "defer"    -> Released(c, "deferred")
      [] outcome = "refuse"   -> Refused(c)
      [] outcome = "withhold" -> Terminal(c, "failed", "withheld")

\* Eligibility, barrier, claim, preparation and commit; the response carries the
\* delivered rows.
HbCommit ==
    /\ hb.open
    /\ \E cancelled \in SUBSET hb.rows : \E held \in SUBSET (hb.rows \ cancelled) :
       \E claimable \in Barrier(hb.rows \ (cancelled \cup held), hb.inFlight) :
       \E outcome \in [claimable -> {"deliver", "release", "defer", "refuse", "withhold"}] :
          LET delivered == {c \in claimable : outcome[c] = "deliver"}
          IN  /\ cancelled \cup held # {} => "ineligible" \in Events
              /\ delivered # claimable => "unprepared" \in Events
              /\ row' = [c \in Command |->
                           IF c \in claimable THEN Prepared(c, outcome[c])
                           ELSE IF c \in cancelled
                           THEN Terminal(c, "cancelled", "cancelled")
                           ELSE row[c]]
              /\ owner' = [c \in Command |->
                             IF c \in cancelled THEN Close(c, "cancelled")
                             ELSE IF c \in claimable /\ outcome[c] = "withhold"
                             THEN Close(c, "server") ELSE owner[c]]
              /\ claims' = [c \in Command |->
                              IF c \in delivered THEN claims[c] + 1 ELSE claims[c]]
              /\ late' = late \ delivered
              /\ frames' = frames \cup (delivered \X {"http"})
    /\ hb' = NoClaim
    /\ UNCHANGED <<old, push, reap, seen, forgets, runs, results, ingest, recorded>>

\* The request fails and its transaction rolls back.
HbRollback ==
    /\ hb.open
    /\ "rollback" \in Events
    /\ hb' = NoClaim
    /\ UNCHANGED <<row, claims, late, old, owner, push, reap, frames, seen,
                   forgets, runs, results, ingest, recorded>>

-----------------------------------------------------------------------------
(* The agent *)

\* Transports a result takes: a WebSocket command answers on the socket and is
\* also submitted over REST, a heartbeat command over REST only.
Routes(via) == IF via = "ws" THEN {"ws", "rest"} ELSE {"rest"}

\* What one run sends back.  A queued backup workload acknowledges first and
\* reports its end on the socket.  Sending is repeated until acknowledged, so a
\* result stays available here; a lost one is never looked up.
Replies(c, via) ==
    IF c \in Queued
    THEN {<<c, "ack", t>> : t \in Routes(via)} \cup {<<c, "final", "ws">>}
    ELSE {<<c, "final", t>> : t \in Routes(via)}

\* Mistake: the agent keeps no memory of command ids.
DeliverAlways(c, via) ==
    /\ <<c, via>> \in frames
    /\ frames' = frames \ {<<c, via>>}
    /\ runs' = [runs EXCEPT ![c] = @ + 1]
    /\ results' = results \cup Replies(c, via)
    /\ UNCHANGED <<row, claims, late, old, owner, push, hb, reap, seen, forgets,
                   ingest, recorded>>

\* executeCommand on a pool worker: markCommandSeen drops a duplicate.  Starting and
\* stopping a desktop session, which may be repeated, is no command of this model.
Deliver(c, via) ==
    /\ <<c, via>> \in frames
    /\ frames' = frames \ {<<c, via>>}
    /\ seen' = seen \cup {c}
    /\ IF c \in seen
       THEN UNCHANGED <<runs, results>>
       ELSE /\ runs' = [runs EXCEPT ![c] = @ + 1]
            /\ results' = results \cup Replies(c, via)
    /\ UNCHANGED <<row, claims, late, old, owner, push, hb, reap, forgets,
                   ingest, recorded>>

\* The worker pool is full or shutting down: a WebSocket command is answered
\* `failed` without having run, a heartbeat command is dropped with a log line.
AgentRefuse(c, via) ==
    /\ "agentRefuses" \in Events
    /\ <<c, via>> \in frames
    /\ frames' = frames \ {<<c, via>>}
    /\ results' = results \cup (IF via = "ws" THEN {<<c, "final", t>> : t \in Routes(via)} ELSE {})
    /\ UNCHANGED <<row, claims, late, old, owner, push, hb, reap, seen, forgets,
                   runs, ingest, recorded>>

\* seenCommands lives in memory and evicts entries older than two minutes.
Forget(c) ==
    /\ c \in seen
    /\ forgets[c] < MaxForgets
    /\ seen' = seen \ {c}
    /\ forgets' = [forgets EXCEPT ![c] = @ + 1]
    /\ UNCHANGED <<row, claims, late, old, owner, push, hb, reap, frames, runs,
                   results, ingest, recorded>>

-----------------------------------------------------------------------------
(* Result ingest: processCommandResult on the socket, the REST result route *)

\* The pre-read, outside any transaction.  The REST route sends the result of a
\* PAM command that is already terminal to the PAM transaction instead.
IngestLookup(t) ==
    /\ ingest[t].pc = "idle"
    /\ \E r \in results :
          /\ r[3] = t
          /\ AcceptsResult(r[1])
          /\ t = "rest" /\ r[1] \in Pam => Open(r[1])
          /\ ingest' = [ingest EXCEPT ![t] = [pc |-> "found", cmd |-> r[1], kind |-> r[2]]]
    /\ UNCHANGED <<row, claims, late, old, owner, push, hb, reap, frames, seen,
                   forgets, runs, results, recorded>>

\* Mistake: no second chance for an execution a sweep closed first.
OwnerWithResultOpenOnly(c) ==
    [owner EXCEPT ![c] = IF @ \in {"open", "running"} THEN "agent" ELSE @]

\* handleScriptResult: an open execution takes the result, and so does one a
\* server-side sweep closed without output (#3607); a cancelled one stays.
OwnerWithResult(c) ==
    [owner EXCEPT ![c] = IF @ \in {"open", "running", "server"} THEN "agent" ELSE @]

\* Mistake: the lookup decides, the write is keyed on the id alone.
IngestFinalizeBlind(t) ==
    /\ ingest[t].pc = "found"
    /\ LET c == ingest[t].cmd
       IN  /\ c \notin Locked
           /\ \E s \in {"completed", "failed"} :
                 row' = [row EXCEPT ![c] = Terminal(c, s, "agent")]
           /\ owner' = OwnerWithResult(c)
           /\ recorded' = [recorded EXCEPT ![c] = @ + 1]
    /\ ingest' = [ingest EXCEPT ![t] = NoIngest]
    /\ UNCHANGED <<claims, late, old, push, hb, reap, frames, seen, forgets,
                   runs, results>>

\* One transaction: the terminal compare-and-set, which evaluates the acceptance
\* predicate again, and the per-type records.  A failure rolls all of it back.  The
\* result is one its type accepts: backup verification, restore, vault and recovery
\* results that fail their schema end the row without such records.
IngestFinalize(t) ==
    /\ ingest[t].pc = "found"
    /\ LET c == ingest[t].cmd
       IN  /\ c \notin Locked
           /\ \/ /\ ~AcceptsResult(c)
                 /\ ingest' = [ingest EXCEPT ![t] = NoIngest]
                 /\ UNCHANGED <<row, owner, recorded>>
              \/ /\ AcceptsResult(c)
                 /\ ingest[t].kind = "ack"
                 /\ row' = [row EXCEPT ![c] = Terminal(c, "completed", "queue_ack")]
                 /\ ingest' = [ingest EXCEPT ![t] = NoIngest]
                 /\ UNCHANGED <<owner, recorded>>
              \/ /\ AcceptsResult(c)
                 /\ ingest[t].kind = "final"
                 /\ \E s \in {"completed", "failed"} :
                       row' = [row EXCEPT ![c] = Terminal(c, s, "agent")]
                 /\ owner' = OwnerWithResult(c)
                 /\ recorded' = [recorded EXCEPT ![c] = @ + 1]
                 /\ ingest' = [ingest EXCEPT ![t] = NoIngest]
              \/ /\ AcceptsResult(c)
                 /\ ingest[t].kind = "final"
                 /\ "persistFails" \in Events
                 /\ ingest' = [ingest EXCEPT ![t].pc = "parking"]
                 /\ UNCHANGED <<row, owner, recorded>>
    /\ UNCHANGED <<claims, late, old, push, hb, reap, frames, seen, forgets,
                   runs, results>>

\* Mistake: the row is parked although another writer closed it meanwhile.
IngestParkBlind(t) ==
    /\ ingest[t].pc = "parking"
    /\ ingest[t].cmd \notin Locked
    /\ row' = [row EXCEPT ![ingest[t].cmd] =
                  Terminal(ingest[t].cmd, "failed", "processing_failed")]
    /\ ingest' = [ingest EXCEPT ![t] = NoIngest]
    /\ UNCHANGED <<claims, late, old, owner, push, hb, reap, frames, seen,
                   forgets, runs, results, recorded>>

\* markCommandResultProcessingFailed; a mark that fails too leaves the row alone.
IngestPark(t) ==
    /\ ingest[t].pc = "parking"
    /\ LET c == ingest[t].cmd
       IN  /\ c \notin Locked
           /\ \/ row' = IF AcceptsResult(c)
                        THEN [row EXCEPT ![c] = Terminal(c, "failed", "processing_failed")]
                        ELSE row
              \/ "rollback" \in Events /\ UNCHANGED row
    /\ ingest' = [ingest EXCEPT ![t] = NoIngest]
    /\ UNCHANGED <<claims, late, old, owner, push, hb, reap, frames, seen,
                   forgets, runs, results, recorded>>

-----------------------------------------------------------------------------
(* The stale command reaper: one transaction per pass and domain *)

\* Mistake: rows with a delivery deadline are left to somebody else.
DueWithoutDelivery(c) ==
    \/ row[c].status = "sent" /\ c \in late
    \/ row[c].status = "pending" /\ row[c].deliverBy = "none" /\ c \in old

\* The three clocks: delivery deadline, time since the claim, and for a row
\* without a deadline time since creation.
Due(c) ==
    \/ row[c].status = "pending" /\ AfterDeadline(c)
    \/ row[c].status = "sent" /\ c \in late
    \/ row[c].status = "pending" /\ row[c].deliverBy = "none" /\ c \in old

\* The SELECT of reapStaleDeviceCommands, which locks nothing.
ReapScan ==
    /\ \A c \in Command : reap[c].pc = "idle"
    /\ \E c \in Command : Due(c)
    /\ reap' = [c \in Command |->
                  IF Due(c)
                  THEN [pc |-> "observed", status |-> row[c].status,
                        executedAt |-> row[c].executedAt]
                  ELSE NotObserved]
    /\ UNCHANGED <<row, claims, late, old, owner, push, hb, frames, seen,
                   forgets, runs, results, ingest, recorded>>

\* Mistake: the guard the code had before, status IN ('pending', 'sent').
ObservedGuardAnyOpen(c) == Open(c)

\* observedGuard: the row is still in the state the scan saw.
ObservedGuard(c) ==
    /\ row[c].status = reap[c].status
    /\ reap[c].status = "sent" => row[c].executedAt = reap[c].executedAt

\* The guarded UPDATE takes the row lock; it becomes visible at the commit.
ReapLock(c) ==
    /\ reap[c].pc = "observed"
    /\ c \notin hb.rows
    /\ reap' = [reap EXCEPT ![c] = IF ObservedGuard(c) THEN [@ EXCEPT !.pc = "locked"]
                                                     ELSE NotObserved]
    /\ UNCHANGED <<row, claims, late, old, owner, push, hb, frames, seen,
                   forgets, runs, results, ingest, recorded>>

Reaped == {c \in Command : reap[c].pc = "locked"}

\* Mistake: an undelivered row is marked `expired` instead of `timeout`.
ReapCommitExpired ==
    /\ \A c \in Command : reap[c].pc # "observed"
    /\ Reaped # {}
    /\ row' = [c \in Command |->
                 IF c \notin Reaped THEN row[c]
                 ELSE Terminal(c, "failed", IF reap[c].status = "pending"
                                            THEN "expired" ELSE "timeout")]
    /\ owner' = [c \in Command |-> IF c \in Reaped THEN Close(c, "server") ELSE owner[c]]
    /\ reap' = [c \in Command |-> NotObserved]
    /\ UNCHANGED <<claims, late, old, push, hb, frames, seen, forgets, runs,
                   results, ingest, recorded>>

\* Commit, with propagateTimedOutDeviceCommand for every reaped row.
ReapCommit ==
    /\ \A c \in Command : reap[c].pc # "observed"
    /\ Reaped # {}
    /\ row' = [c \in Command |-> IF c \in Reaped THEN Terminal(c, "failed", "timeout")
                                                ELSE row[c]]
    /\ owner' = [c \in Command |-> IF c \in Reaped THEN Close(c, "server") ELSE owner[c]]
    /\ reap' = [c \in Command |-> NotObserved]
    /\ UNCHANGED <<claims, late, old, push, hb, frames, seen, forgets, runs,
                   results, ingest, recorded>>

ReapRollback ==
    /\ "rollback" \in Events
    /\ \E c \in Command : reap[c].pc # "idle"
    /\ reap' = [c \in Command |-> NotObserved]
    /\ UNCHANGED <<row, claims, late, old, owner, push, hb, frames, seen,
                   forgets, runs, results, ingest, recorded>>

\* Mistake: a cancelled command is taken to have told its execution.
ReapExecutionSkipCancelled(c) ==
    /\ row[c].status \notin {"absent", "cancelled"}
    /\ owner[c] = "running" \/ (owner[c] = "open" /\ ~Open(c))
    /\ owner' = [owner EXCEPT ![c] = "server"]
    /\ UNCHANGED <<row, claims, late, old, push, hb, reap, frames, seen,
                   forgets, runs, results, ingest, recorded>>

\* reapStaleScriptExecutions: an execution past its own timeout, unless it waits
\* for a command that is still pending or sent.
ReapExecution(c) ==
    /\ row[c].status # "absent"
    /\ owner[c] = "running" \/ (owner[c] = "open" /\ ~Open(c))
    /\ owner' = [owner EXCEPT ![c] = IF row[c].status = "cancelled" THEN "cancelled"
                                                                   ELSE "server"]
    /\ UNCHANGED <<row, claims, late, old, push, hb, reap, frames, seen,
                   forgets, runs, results, ingest, recorded>>

-----------------------------------------------------------------------------
(* Cancellation *)

\* The cancel route, and device decommission and organization move, row by row:
\* compare-and-set on pending and propagateCancelledDeviceCommand, one transaction.
CancelPending(c) ==
    /\ "cancel" \in Events
    /\ c \notin Locked
    /\ row[c].status = "pending"
    /\ row' = [row EXCEPT ![c] = Terminal(c, "cancelled", "cancelled")]
    /\ owner' = [owner EXCEPT ![c] = Close(c, "cancelled")]
    /\ UNCHANGED <<claims, late, old, push, hb, reap, frames, seen, forgets,
                   runs, results, ingest, recorded>>

\* Abuse suspension and tenant offboarding: every pending or sent row of the
\* device, without propagation.
Sweep ==
    /\ "sweep" \in Events
    /\ \E c \in Command : Open(c)
    /\ \A c \in Command : Open(c) => c \notin Locked
    /\ row' = [c \in Command |-> IF Open(c) THEN Terminal(c, "cancelled", "swept")
                                           ELSE row[c]]
    /\ UNCHANGED <<claims, late, old, owner, push, hb, reap, frames, seen,
                   forgets, runs, results, ingest, recorded>>

-----------------------------------------------------------------------------
(* Time *)

AgeDelivery(c) ==
    /\ Open(c)
    /\ row[c].deliverBy \in {"future", "instant"}
    /\ row' = [row EXCEPT ![c] = [status |-> row[c].status, executedAt |-> row[c].executedAt,
                                  deliverBy |-> "past", mark |-> row[c].mark]]
    /\ UNCHANGED <<claims, late, old, owner, push, hb, reap, frames, seen,
                   forgets, runs, results, ingest, recorded>>

AgeExecution(c) ==
    /\ row[c].status = "sent"
    /\ c \notin late
    /\ late' = late \cup {c}
    /\ UNCHANGED <<row, claims, old, owner, push, hb, reap, frames, seen,
                   forgets, runs, results, ingest, recorded>>

AgeCreated(c) ==
    /\ Open(c)
    /\ row[c].deliverBy = "none"
    /\ c \notin old
    /\ old' = old \cup {c}
    /\ UNCHANGED <<row, claims, late, owner, push, hb, reap, frames, seen,
                   forgets, runs, results, ingest, recorded>>

-----------------------------------------------------------------------------

PushStep(c) == PushPowerCheck(c) \/ PushClaim(c) \/ PushDeliver(c) \/ PushRelease(c)
AgentStep(c, via) == Deliver(c, via) \/ AgentRefuse(c, via)
IngestStep(t) == IngestLookup(t) \/ IngestFinalize(t) \/ IngestPark(t)
Tick(c) == AgeDelivery(c) \/ AgeExecution(c) \/ AgeCreated(c)

Next ==
    \/ \E c \in Command : \/ Enqueue(c) \/ PushStep(c) \/ WaitResult(c)
                          \/ Forget(c) \/ ReapLock(c) \/ ReapExecution(c)
                          \/ CancelPending(c) \/ Tick(c)
    \/ \E c \in Command, via \in {"ws", "http"} : AgentStep(c, via)
    \/ \E t \in Transport : IngestStep(t)
    \/ HbScan \/ HbCommit \/ HbRollback
    \/ ReapScan \/ ReapCommit \/ ReapRollback
    \/ Sweep

Spec == Init /\ [][Next]_vars

\* Time passes, a heartbeat transaction ends, the reaper runs every two minutes
\* and its UPDATE, queued on a row lock, gets it; the database aborts transactions
\* now and then, but not for ever.  Agents, users and the push of a request that
\* may have died owe nothing.
Fairness ==
    /\ WF_vars(\E c \in Command : Tick(c))
    /\ SF_vars(\E c \in Command : ReapLock(c))
    /\ WF_vars(\E c \in Command : ReapExecution(c))
    /\ WF_vars(HbCommit)
    /\ WF_vars(ReapScan)
    /\ WF_vars(ReapCommit)
    /\ <>[][~ReapRollback /\ ~HbRollback]_vars

FairSpec == Spec /\ Fairness

-----------------------------------------------------------------------------
(* Properties *)

\* The acceptance predicate is evaluated again inside the finalizing transaction
\* of either transport: however often the two transports, resends, the wait
\* deadline and the reaper race, the per-type records are written exactly when
\* the row takes the agent's result, and once.
RecordedExactlyOnce ==
    \A c \in Command : recorded[c] = IF row[c].mark = "agent" THEN 1 ELSE 0

\* A terminal row that accepts no result is never written again: not by a late
\* release, a waiting caller, a parking handler, a sweep or the reaper.
FinalRowsFrozen ==
    [][\A c \in Command :
          row[c].status # "absent" /\ ~AcceptsResult(c) => row'[c] = row[c]]_vars

\* The (status, executedAt) fence of the releases: a row goes from sent back to
\* pending only through the request that made this very claim.
ReleaseOnlyOwnClaim ==
    [][\A c \in Command :
          row[c].status = "sent" /\ row'[c].status = "pending"
          => push[c].claimedAt = row[c].executedAt]_vars

\* The compare-and-set on the observed state: what the reaper is about to fail is
\* still due on its own clock, also when it was claimed or released since the scan.
ReapsOnlyDueRows ==
    \A c \in Reaped : Due(c)

\* The power-state barrier: one claim never hands out a power command together
\* with another command.
PowerAloneInBatch ==
    [][\A p \in Power, c \in Command :
          /\ p # c
          /\ row[p].status = "pending"
          /\ row[c].status = "pending"
          /\ row'[p].status = "sent"
          => row'[c].status # "sent"]_vars

\* handleScriptResult runs in the transaction of the compare-and-set: a script
\* execution shows the agent's output exactly when its command row does, although
\* wait deadline, reapers and secret withholding close the two at different times.
OwnerFollowsResult ==
    \A c \in Script : owner[c] = "agent" <=> row[c].mark = "agent"

\* markCommandSeen: a command claimed again after a release, or delivered on both
\* channels, runs once for each time the agent forgot its id.
ExecutedOncePerLife ==
    \A c \in Command : runs[c] <= 1 + forgets[c]

\* The two clocks of the reaper leave no row open forever: however rows are released
\* and claimed again, in the end none is open.
Settles == (\E c \in Command : Open(c)) ~> (\A c \in Command : ~Open(c))

\* Every script execution is closed, also when the row was cancelled or timed out
\* by a writer that does not propagate.
ExecutionSettles ==
    (\E c \in Script : row[c].status # "absent" /\ owner[c] \in {"open", "running"})
      ~> (\A c \in Script : row[c].status # "absent" => owner[c] \notin {"open", "running"})

\* The row as an outcome of CommandOutcome.
OutcomeOf(c) ==
    CASE row[c].status = "absent" -> "none"
      [] Open(c) -> "open"
      [] row[c].mark = "agent" -> "final"
      [] ~Open(c) /\ row[c].mark # "agent" /\ AcceptsResult(c) -> "provisional"
      [] OTHER -> "void"

Outcomes == INSTANCE CommandOutcome
                WITH outcome <- [c \in Command |-> OutcomeOf(c)], records <- recorded

\* All writers of device_commands together implement the promise of
\* CommandOutcome: provisional outcomes may be replaced, final and void ones not.
ImplementsOutcome == Outcomes!Spec

-----------------------------------------------------------------------------
(* What comments of the code say, and the code does not keep *)

\* "Claimed alone and only when nothing else is in flight": the push leg counts
\* the rows in flight in one transaction and claims in another, and so does the
\* heartbeat against a concurrent push.
PowerClaimedAlone ==
    [][\A p \in Power, c \in Command :
          p # c /\ row[p].status = "pending" /\ row'[p].status = "sent"
          => row'[c].status # "sent"]_vars

=============================================================================
