------------------------ MODULE DeviceCommandsProofs ------------------------
(***************************************************************************)
(* Proofs about DeviceCommands, for every set of commands, every assignment *)
(* of types, every choice of events and every bound.                       *)
(***************************************************************************)
EXTENDS DeviceCommands, TLAPS

-----------------------------------------------------------------------------
(* The inductive invariant.  Every writer of a row tests the row's status, but  *)
(* the heartbeat and the reaper test it in one step and write in a later one:   *)
(* the invariant says that their locks keep the tested status in between.       *)

RowType == row \in [Command -> Row]

\* TypeOK without the rows.
RestType ==
    /\ claims \in [Command -> Nat]
    /\ late \subseteq Command
    /\ old \subseteq Command
    /\ owner \in [Command -> Owner]
    /\ push \in [Command -> [pc : PushPc, claimedAt : Nat]]
    /\ hb \in [open : BOOLEAN, rows : SUBSET Command, inFlight : BOOLEAN]
    /\ reap \in [Command -> [pc : ReapPc, status : Status, executedAt : Nat]]
    /\ frames \subseteq Command \X {"ws", "http"}
    /\ seen \subseteq Command
    /\ forgets \in [Command -> Nat]
    /\ runs \in [Command -> Nat]
    /\ results \subseteq Result
    /\ ingest \in [Transport -> [pc : IngestPc, cmd : Command \cup {"none"},
                                 kind : {"ack", "final"}]]
    /\ recorded \in [Command -> Nat]

AgentRowsClosed ==
    \A c \in Command : row[c].mark = "agent" => row[c].status \in {"completed", "failed"}
HeartbeatRowsPending == \A c \in hb.rows : row[c].status = "pending"
ReapedRowsOpen == \A c \in Reaped : Open(c)
LocksDisjoint == hb.rows \cap Reaped = {}
ObservedRowsWereOpen ==
    \A c \in Command : reap[c].pc # "idle" => reap[c].status \in {"pending", "sent"}
HandlersHaveCommand ==
    \A t \in Transport : ingest[t].pc # "idle" => ingest[t].cmd \in Command

\* What the rows satisfy, given the locks.
RowInv ==
    /\ RowType
    /\ AgentRowsClosed
    /\ HeartbeatRowsPending
    /\ ReapedRowsOpen
    /\ RecordedExactlyOnce

\* What does not mention the rows.
RestInv ==
    /\ RestType
    /\ LocksDisjoint
    /\ ObservedRowsWereOpen
    /\ HandlersHaveCommand

IInv == RowInv /\ RestInv

\* The type invariant is the type of the rows and of everything else.
LEMMA TypeSplit == TypeOK <=> RowType /\ RestType
  BY DEF TypeOK, RowType, RestType

-----------------------------------------------------------------------------
(* The rows a writer produces *)

\* Every row value a handler writes is a row.
LEMMA RowValues ==
    ASSUME RowType, RestType, NEW c \in Command
    PROVE  /\ row[c] \in Row
           /\ Claimed(c) \in Row
           /\ Refused(c) \in Row
           /\ \A m \in Mark : Released(c, m) \in Row
           /\ \A s \in Status, m \in Mark : Terminal(c, s, m) \in Row
<1>1. row[c] \in Row  BY DEF RowType
<1>2. claims[c] \in Nat  BY DEF RestType
<1>3. Claimed(c) \in Row  BY <1>1, <1>2 DEF Claimed, Row, Status
<1>4. Refused(c) \in Row  BY DEF Refused, Row, Status, Deadline, Mark
<1>5. ASSUME NEW m \in Mark PROVE Released(c, m) \in Row
  BY <1>1, <1>5 DEF Released, Row, Status
<1>6. ASSUME NEW s \in Status, NEW m \in Mark PROVE Terminal(c, s, m) \in Row
  BY <1>1, <1>6 DEF Terminal, Row
<1>7. QED  BY <1>1, <1>3, <1>4, <1>5, <1>6

\* A step that leaves rows, locks and records alone.
LEMMA RowsKept ==
    ASSUME RowInv, UNCHANGED <<row, hb, reap, recorded>>
    PROVE  RowInv'
  BY DEF RowInv, RowType, AgentRowsClosed, HeartbeatRowsPending, ReapedRowsOpen,
         RecordedExactlyOnce, Reaped, Open

\* A writer other than a finalizing result handler: it found no agent result in
\* the row, stores none, and the row is locked by nobody.
LEMMA RowWritten ==
    ASSUME RowInv, RestType, NEW c \in Command, NEW r \in Row,
           row' = [row EXCEPT ![c] = r],
           UNCHANGED <<hb, reap, recorded>>,
           c \notin Locked,
           row[c].mark # "agent", r.mark # "agent"
    PROVE  RowInv'
<1>1. RowType'  BY DEF RowInv, RowType
<1>2. \A d \in Command : row'[d] = IF d = c THEN r ELSE row[d]
  BY DEF RowInv, RowType
<1>3. hb.rows \subseteq Command  BY DEF RestType
<1>4. AgentRowsClosed'  BY <1>2 DEF RowInv, AgentRowsClosed
<1>5. HeartbeatRowsPending'  BY <1>2, <1>3 DEF RowInv, HeartbeatRowsPending, Locked
<1>6. ReapedRowsOpen'  BY <1>2 DEF RowInv, ReapedRowsOpen, Reaped, Open, Locked
<1>7. RecordedExactlyOnce'  BY <1>2 DEF RowInv, RecordedExactlyOnce
<1>8. QED  BY <1>1, <1>4, <1>5, <1>6, <1>7 DEF RowInv

\* A step of the enqueuing request's program counter.
LEMMA PushToTyped ==
    ASSUME RestType, NEW c \in Command, NEW pc \in PushPc, PushTo(c, pc)
    PROVE  push' \in [Command -> [pc : PushPc, claimedAt : Nat]]
<1> DEFINE P == [pc : PushPc, claimedAt : Nat]
<1>1. push \in [Command -> P]  BY DEF RestType
<1>2. push' = [push EXCEPT ![c] = [push[c] EXCEPT !.pc = pc]]  BY <1>1 DEF PushTo
<1>3. [push[c] EXCEPT !.pc = pc] \in P  BY <1>1
<1> HIDE DEF P
<1>4. push' \in [Command -> P]  BY <1>1, <1>2, <1>3
<1>5. QED  BY <1>4 DEF P

-----------------------------------------------------------------------------
(* The commit of a heartbeat *)

Preparation == {"deliver", "release", "defer", "refuse", "withhold"}

\* What the commit writes when it cancels some rows and claims others.
Committed(cancelled, claimable, outcome) ==
    LET delivered == {c \in claimable : outcome[c] = "deliver"}
    IN  /\ row' = [c \in Command |->
                     IF c \in claimable THEN Prepared(c, outcome[c])
                     ELSE IF c \in cancelled THEN Terminal(c, "cancelled", "cancelled")
                     ELSE row[c]]
        /\ owner' = [c \in Command |->
                       IF c \in cancelled THEN Close(c, "cancelled")
                       ELSE IF c \in claimable /\ outcome[c] = "withhold"
                       THEN Close(c, "server") ELSE owner[c]]
        /\ claims' = [c \in Command |->
                        IF c \in delivered THEN claims[c] + 1 ELSE claims[c]]
        /\ late' = late \ delivered
        /\ frames' = frames \cup (delivered \X {"http"})

\* The barrier holds rows back and adds none.
LEMMA BarrierWithin ==
    ASSUME NEW S, NEW f, NEW q \in Barrier(S, f)
    PROVE  q \subseteq S
  BY DEF Barrier

\* The rows a commit claims are, of the locked ones that it does not cancel, those
\* the barrier lets through.
LEMMA HbCommitWrites ==
    ASSUME HbCommit
    PROVE  \E cancelled \in SUBSET hb.rows, passed \in SUBSET hb.rows :
              /\ passed \cap cancelled = {}
              /\ \E claimable \in Barrier(passed, hb.inFlight) :
                 \E outcome \in [claimable -> Preparation] :
                    Committed(cancelled, claimable, outcome)
<1>1. PICK cancelled \in SUBSET hb.rows : \E held \in SUBSET (hb.rows \ cancelled) :
         \E claimable \in Barrier(hb.rows \ (cancelled \cup held), hb.inFlight) :
         \E outcome \in [claimable -> Preparation] :
            /\ cancelled \cup held # {} => "ineligible" \in Events
            /\ {c \in claimable : outcome[c] = "deliver"} # claimable => "unprepared" \in Events
            /\ Committed(cancelled, claimable, outcome)
  BY DEF HbCommit, Committed, Preparation
<1>2. PICK held \in SUBSET (hb.rows \ cancelled) :
         \E claimable \in Barrier(hb.rows \ (cancelled \cup held), hb.inFlight) :
         \E outcome \in [claimable -> Preparation] :
            /\ cancelled \cup held # {} => "ineligible" \in Events
            /\ {c \in claimable : outcome[c] = "deliver"} # claimable => "unprepared" \in Events
            /\ Committed(cancelled, claimable, outcome)
  BY <1>1
<1>3. /\ hb.rows \ (cancelled \cup held) \in SUBSET hb.rows
      /\ (hb.rows \ (cancelled \cup held)) \cap cancelled = {}
  OBVIOUS
<1>4. QED  BY <1>2, <1>3

-----------------------------------------------------------------------------
(* One lemma per action: the rows, then everything else *)

\* The insert of a new row: nobody can hold a lock on a row that is absent.
LEMMA EnqueueKeeps ==
    ASSUME IInv, NEW c \in Command, Enqueue(c)
    PROVE  IInv'
<1>1. PICK d \in {"none", "future"} :
         row' = [row EXCEPT ![c] = [status |-> "pending", executedAt |-> 0,
                                    deliverBy |-> d, mark |-> "none"]]
  BY DEF Enqueue
<1>2. [status |-> "pending", executedAt |-> 0, deliverBy |-> d, mark |-> "none"] \in Row
  BY DEF Row, Status, Deadline, Mark
<1>3. c \notin Locked
  BY DEF IInv, RowInv, HeartbeatRowsPending, ReapedRowsOpen, Enqueue, Locked, Reaped, Open
<1>4. row[c].mark # "agent"  BY DEF Enqueue, IInv, RowInv, AgentRowsClosed
<1>5. RowInv'  BY <1>1, <1>2, <1>3, <1>4, RowWritten DEF IInv, RestInv, Enqueue
<1>6. RestInv'
  <2>1. \E pc \in PushPc : PushTo(c, pc)  BY DEF Enqueue, AfterPush, PushPc
  <2>2. push' \in [Command -> [pc : PushPc, claimedAt : Nat]]
    BY <2>1, PushToTyped DEF IInv, RestInv
  <2>3. QED
    BY <2>2 DEF Enqueue, IInv, RestInv, RestType, LocksDisjoint, Reaped,
       ObservedRowsWereOpen, HandlersHaveCommand
<1>7. QED  BY <1>5, <1>6 DEF IInv

\* Counting the rows in flight moves the request and writes no row.
LEMMA PushPowerCheckKeeps ==
    ASSUME IInv, NEW c \in Command, PushPowerCheck(c)
    PROVE  IInv'
<1>1. RowInv'  BY RowsKept DEF PushPowerCheck, IInv
<1>2. RestInv'
  BY DEF PushPowerCheck, PushTo, PushPc, IInv, RestInv, RestType, LocksDisjoint, Reaped,
         ObservedRowsWereOpen, HandlersHaveCommand
<1>3. QED  BY <1>1, <1>2 DEF IInv

\* The push claims or cancels a row that is pending and that nobody has locked.
LEMMA PushClaimKeeps ==
    ASSUME IInv, NEW c \in Command, PushClaim(c)
    PROVE  IInv'
<1>0. RowType /\ RestType  BY DEF IInv, RowInv, RestInv
<1>1. RowInv'
  <2>1. CASE row' = row  BY <2>1, RowsKept DEF PushClaim, IInv
  <2>2. CASE row' # row
    <3>1. PICK r \in {Terminal(c, "cancelled", "cancelled"), Claimed(c)} :
             row' = [row EXCEPT ![c] = r]
      BY <2>2 DEF PushClaim
    <3>2. row[c].status = "pending"  BY <2>2 DEF PushClaim
    <3>3. row[c].mark # "agent"  BY <3>2 DEF IInv, RowInv, AgentRowsClosed
    <3>4. r \in Row  BY <1>0, RowValues DEF Status, Mark
    <3>5. r.mark # "agent"  BY <3>3 DEF Terminal, Claimed
    <3>6. QED  BY <1>0, <3>1, <3>3, <3>4, <3>5, RowWritten DEF PushClaim, IInv
  <2>3. QED  BY <2>1, <2>2
<1>2. RestInv'
  <2>1. push' \in [Command -> [pc : PushPc, claimedAt : Nat]]
    <3>1. CASE \E pc \in PushPc : PushTo(c, pc)  BY <1>0, <3>1, PushToTyped
    <3>2. CASE push' = [push EXCEPT ![c] = [pc |-> "claimed", claimedAt |-> claims[c] + 1]]
      BY <1>0, <3>2 DEF RestType, PushPc
    <3>3. QED  BY <3>1, <3>2 DEF PushClaim, AfterPush, PushPc
  <2>2. claims' \in [Command -> Nat] /\ late' \subseteq Command
    BY <1>0 DEF PushClaim, RestType
  <2>3. UNCHANGED <<old, owner, hb, reap, frames, seen, forgets, runs, results, ingest, recorded>>
    BY DEF PushClaim
  <2>4. QED
    BY <2>1, <2>2, <2>3 DEF IInv, RestInv, RestType, LocksDisjoint, Reaped,
       ObservedRowsWereOpen, HandlersHaveCommand
<1>3. QED  BY <1>1, <1>2 DEF IInv

\* Delivery, and the refusals and releases fenced by the claim timestamp.
LEMMA PushDeliverKeeps ==
    ASSUME IInv, NEW c \in Command, PushDeliver(c)
    PROVE  IInv'
<1>0. RowType /\ RestType  BY DEF IInv, RowInv, RestInv
<1>1. RowInv'
  <2>1. CASE row' = row  BY <2>1, RowsKept DEF PushDeliver, IInv
  <2>2. CASE row' # row
    <3>1. PICK r \in {Refused(c), Released(c, "deferred")} :
             row' = [row EXCEPT ![c] = r]
      BY <2>2 DEF PushDeliver, WriteIfHeld
    <3>2. row[c].status = "sent" /\ c \notin Locked
      BY <2>2 DEF PushDeliver, WriteIfHeld, HoldsClaim
    <3>3. row[c].mark # "agent"  BY <3>2 DEF IInv, RowInv, AgentRowsClosed
    <3>4. r \in Row  BY <1>0, RowValues DEF Mark
    <3>5. r.mark # "agent"  BY DEF Refused, Released
    <3>6. QED  BY <1>0, <3>1, <3>2, <3>3, <3>4, <3>5, RowWritten DEF PushDeliver, IInv
  <2>3. QED  BY <2>1, <2>2
<1>2. RestInv'
  <2>1. owner' \in [Command -> Owner]  BY <1>0 DEF PushDeliver, RestType, Owner
  <2>2. push' \in [Command -> [pc : PushPc, claimedAt : Nat]]
    <3>1. \E pc \in PushPc : PushTo(c, pc)  BY DEF PushDeliver, AfterPush, PushPc
    <3>2. QED  BY <1>0, <3>1, PushToTyped
  <2>3. frames' \subseteq Command \X {"ws", "http"}  BY <1>0 DEF PushDeliver, RestType
  <2>4. UNCHANGED <<claims, late, old, hb, reap, seen, forgets, runs, results, ingest, recorded>>
    BY DEF PushDeliver
  <2>5. QED
    BY <2>1, <2>2, <2>3, <2>4 DEF IInv, RestInv, RestType, LocksDisjoint, Reaped,
       ObservedRowsWereOpen, HandlersHaveCommand
<1>3. QED  BY <1>1, <1>2 DEF IInv

\* The caller's release: under the fence the row is sent, so it has no result.
LEMMA PushReleaseKeeps ==
    ASSUME IInv, NEW c \in Command, PushRelease(c)
    PROVE  IInv'
<1>0. RowType /\ RestType  BY DEF IInv, RowInv, RestInv
<1>1. RowInv'
  <2>1. CASE row' = row  BY <2>1, RowsKept DEF PushRelease, IInv
  <2>2. CASE row' # row
    <3>1. row' = [row EXCEPT ![c] = Released(c, row[c].mark)] /\ row[c].status = "sent"
      BY <2>2 DEF PushRelease, WriteIfHeld, HoldsClaim
    <3>3. row[c].mark # "agent"  BY <3>1 DEF IInv, RowInv, AgentRowsClosed
    <3>4. row[c].mark \in Mark  BY <1>0 DEF RowType, Row
    <3>5. Released(c, row[c].mark) \in Row  BY <1>0, <3>4, RowValues
    <3>6. Released(c, row[c].mark).mark # "agent"  BY <3>3 DEF Released
    <3>7. QED  BY <1>0, <3>1, <3>3, <3>5, <3>6, RowWritten DEF PushRelease, IInv
  <2>3. QED  BY <2>1, <2>2
<1>2. RestInv'
  <2>1. PICK pc \in {AfterPush(c), "done"} : PushTo(c, pc)  BY DEF PushRelease
  <2>2. pc \in PushPc  BY <2>1 DEF AfterPush, PushPc
  <2>3. push' \in [Command -> [pc : PushPc, claimedAt : Nat]]  BY <1>0, <2>1, <2>2, PushToTyped
  <2>4. RestType'  BY <1>0, <2>3 DEF PushRelease, RestType
  <2>5. QED
    BY <2>4 DEF PushRelease, IInv, RestInv, LocksDisjoint, Reaped, ObservedRowsWereOpen,
       HandlersHaveCommand
<1>3. QED  BY <1>1, <1>2 DEF IInv

\* The wait deadline fails a row only while it is open.
LEMMA WaitResultKeeps ==
    ASSUME IInv, NEW c \in Command, WaitResult(c)
    PROVE  IInv'
<1>0. RowType /\ RestType  BY DEF IInv, RowInv, RestInv
<1>1. RowInv'
  <2>1. CASE row' = row  BY <2>1, RowsKept DEF WaitResult, IInv
  <2>2. CASE row' # row
    <3>1. row' = [row EXCEPT ![c] = Terminal(c, "failed", "timeout")] /\ Open(c) /\ c \notin Locked
      BY <2>2 DEF WaitResult
    <3>2. row[c].mark # "agent"  BY <3>1 DEF IInv, RowInv, AgentRowsClosed, Open
    <3>3. Terminal(c, "failed", "timeout") \in Row  BY <1>0, RowValues DEF Status, Mark
    <3>4. Terminal(c, "failed", "timeout").mark # "agent"  BY DEF Terminal
    <3>5. QED  BY <1>0, <3>1, <3>2, <3>3, <3>4, RowWritten DEF WaitResult, IInv
  <2>3. QED  BY <2>1, <2>2
<1>2. RestInv'
  BY DEF WaitResult, PushTo, PushPc, IInv, RestInv, RestType, LocksDisjoint, Reaped,
         ObservedRowsWereOpen, HandlersHaveCommand
<1>3. QED  BY <1>1, <1>2 DEF IInv

\* A cancel finds the row pending and unlocked.
LEMMA CancelPendingKeeps ==
    ASSUME IInv, NEW c \in Command, CancelPending(c)
    PROVE  IInv'
<1>0. RowType /\ RestType  BY DEF IInv, RowInv, RestInv
<1>1. row[c].mark # "agent"  BY DEF CancelPending, IInv, RowInv, AgentRowsClosed
<1>2. Terminal(c, "cancelled", "cancelled") \in Row  BY <1>0, RowValues DEF Status, Mark
<1>3. Terminal(c, "cancelled", "cancelled").mark # "agent"  BY DEF Terminal
<1>4. RowInv'  BY <1>0, <1>1, <1>2, <1>3, RowWritten DEF CancelPending, IInv
<1>5. RestInv'
  BY DEF CancelPending, Close, Owner, IInv, RestInv, RestType, LocksDisjoint, Reaped,
         ObservedRowsWereOpen, HandlersHaveCommand
<1>6. QED  BY <1>4, <1>5 DEF IInv

\* Time moves the deadline of a row, locked or not, and nothing else of it.
LEMMA TickKeeps ==
    ASSUME IInv, NEW c \in Command, Tick(c)
    PROVE  IInv'
<1>0. RowType /\ RestType  BY DEF IInv, RowInv, RestInv
<1>1. RowInv'
  <2>1. CASE row' = row  BY <2>1, RowsKept DEF Tick, AgeDelivery, AgeExecution, AgeCreated, IInv
  <2>2. CASE AgeDelivery(c)
    <3>1. row' \in [Command -> Row]
      <4>1. [status |-> row[c].status, executedAt |-> row[c].executedAt,
             deliverBy |-> "past", mark |-> row[c].mark] \in Row
        BY <1>0 DEF RowType, Row, Deadline
      <4>2. QED  BY <1>0, <2>2, <4>1 DEF AgeDelivery, RowType
    <3>2. \A d \in Command : row'[d].status = row[d].status /\ row'[d].mark = row[d].mark
      BY <1>0, <2>2 DEF AgeDelivery, RowType
    <3>3. UNCHANGED <<hb, reap, recorded>> /\ hb.rows \subseteq Command
      BY <1>0, <2>2 DEF AgeDelivery, RestType
    <3>4. QED
      BY <3>1, <3>2, <3>3 DEF IInv, RowInv, RowType, AgentRowsClosed, HeartbeatRowsPending,
         ReapedRowsOpen, RecordedExactlyOnce, Reaped, Open
  <2>3. QED  BY <2>1, <2>2 DEF Tick, AgeExecution, AgeCreated
<1>2. RestInv'
  BY DEF Tick, AgeDelivery, AgeExecution, AgeCreated, IInv, RestInv, RestType, LocksDisjoint,
         Reaped, ObservedRowsWereOpen, HandlersHaveCommand
<1>3. QED  BY <1>1, <1>2 DEF IInv

\* The agent's memory is not part of the rows.
LEMMA ForgetKeeps ==
    ASSUME IInv, NEW c \in Command, Forget(c)
    PROVE  IInv'
<1>1. RowInv'  BY RowsKept DEF Forget, IInv
<1>2. RestInv'
  BY DEF Forget, IInv, RestInv, RestType, LocksDisjoint, Reaped,
         ObservedRowsWereOpen, HandlersHaveCommand
<1>3. QED  BY <1>1, <1>2 DEF IInv

\* Running a command produces results and writes no row.
LEMMA DeliverKeeps ==
    ASSUME IInv, NEW c \in Command, NEW via \in {"ws", "http"}, Deliver(c, via)
    PROVE  IInv'
<1>1. RowInv'  BY RowsKept DEF Deliver, IInv
<1>2. Replies(c, via) \subseteq Result
  BY DEF Replies, Routes, Result, Transport
<1>3. RestInv'
  <2>1. runs' \in [Command -> Nat]
    <3>1. runs \in [Command -> Nat]  BY DEF IInv, RestInv, RestType
    <3>2. runs' = runs \/ runs' = [runs EXCEPT ![c] = runs[c] + 1]  BY DEF Deliver
    <3>3. QED  BY <3>1, <3>2
  <2>2. results' \subseteq Result  BY <1>2 DEF Deliver, IInv, RestInv, RestType
  <2>3. QED
    BY <2>1, <2>2 DEF Deliver, IInv, RestInv, RestType, LocksDisjoint, Reaped,
       ObservedRowsWereOpen, HandlersHaveCommand
<1>4. QED  BY <1>1, <1>3 DEF IInv

\* A command the agent turns away produces results and writes no row.
LEMMA AgentRefuseKeeps ==
    ASSUME IInv, NEW c \in Command, NEW via \in {"ws", "http"}, AgentRefuse(c, via)
    PROVE  IInv'
<1>1. RowInv'  BY RowsKept DEF AgentRefuse, IInv
<1>2. results' \subseteq Result
  BY DEF AgentRefuse, IInv, RestInv, RestType, Routes, Result, Transport
<1>3. RestInv'
  BY <1>2 DEF AgentRefuse, IInv, RestInv, RestType, LocksDisjoint, Reaped,
         ObservedRowsWereOpen, HandlersHaveCommand
<1>4. QED  BY <1>1, <1>3 DEF IInv

\* The execution reaper writes executions only.
LEMMA ReapExecutionKeeps ==
    ASSUME IInv, NEW c \in Command, ReapExecution(c)
    PROVE  IInv'
<1>1. RowInv'  BY RowsKept DEF ReapExecution, IInv
<1>2. RestInv'
  BY DEF ReapExecution, Owner, IInv, RestInv, RestType, LocksDisjoint, Reaped,
         ObservedRowsWereOpen, HandlersHaveCommand
<1>3. QED  BY <1>1, <1>2 DEF IInv

\* The pre-read gives the handler a command and writes no row.
LEMMA IngestLookupKeeps ==
    ASSUME IInv, NEW t \in Transport, IngestLookup(t)
    PROVE  IInv'
<1>1. RowInv'  BY RowsKept DEF IngestLookup, IInv
<1>2. PICK r \in results : ingest' = [ingest EXCEPT ![t] = [pc |-> "found", cmd |-> r[1], kind |-> r[2]]]
  BY DEF IngestLookup
<1>3. r[1] \in Command /\ r[2] \in {"ack", "final"}
  BY DEF IInv, RestInv, RestType, Result
<1>4. /\ ingest' \in [Transport -> [pc : IngestPc, cmd : Command \cup {"none"}, kind : {"ack", "final"}]]
      /\ HandlersHaveCommand'
  BY <1>2, <1>3 DEF IInv, RestInv, RestType, IngestPc, HandlersHaveCommand
<1>5. RestInv'
  BY <1>4 DEF IngestLookup, IInv, RestInv, RestType, LocksDisjoint, Reaped, ObservedRowsWereOpen
<1>6. QED  BY <1>1, <1>5 DEF IInv

\* The handler that ends is idle again; every other keeps its command.
LEMMA IngestEnds ==
    ASSUME RestInv, NEW t \in Transport, NEW pc \in IngestPc, ingest[t].pc # "idle",
           \/ ingest' = [ingest EXCEPT ![t] = NoIngest]
           \/ ingest' = [ingest EXCEPT ![t].pc = pc]
    PROVE  /\ ingest' \in [Transport -> [pc : IngestPc, cmd : Command \cup {"none"}, kind : {"ack", "final"}]]
           /\ HandlersHaveCommand'
<1> DEFINE Handler == [pc : IngestPc, cmd : Command \cup {"none"}, kind : {"ack", "final"}]
<1>1. ingest \in [Transport -> Handler] /\ ingest[t].cmd \in Command
  BY DEF RestInv, RestType, HandlersHaveCommand
<1>2. CASE ingest' = [ingest EXCEPT ![t] = NoIngest]
  BY <1>1, <1>2 DEF RestInv, IngestPc, NoIngest, HandlersHaveCommand
<1>3. CASE ingest' = [ingest EXCEPT ![t].pc = pc]
  <2>1. ingest' \in [Transport -> Handler]  BY <1>1, <1>3
  <2>2. \A u \in Transport : ingest'[u].cmd = ingest[u].cmd /\ (u # t => ingest'[u] = ingest[u])
    BY <1>1, <1>3
  <2>3. HandlersHaveCommand'  BY <1>1, <2>2 DEF RestInv, HandlersHaveCommand
  <2>4. QED  BY <2>1, <2>3
<1>4. QED  BY <1>2, <1>3

\* The one writer of agent results: row and records change together.
LEMMA IngestFinalizeKeeps ==
    ASSUME IInv, NEW t \in Transport, IngestFinalize(t)
    PROVE  IInv'
<1> DEFINE c == ingest[t].cmd
<1>0. RowType /\ RestType  BY DEF IInv, RowInv, RestInv
<1>1. c \in Command  BY DEF IngestFinalize, IInv, RestInv, HandlersHaveCommand
<1>2. RowInv'
  <2>1. CASE UNCHANGED <<row, recorded>>  BY <2>1, RowsKept DEF IngestFinalize, IInv
  <2>2. CASE /\ AcceptsResult(c)
             /\ row' = [row EXCEPT ![c] = Terminal(c, "completed", "queue_ack")]
             /\ UNCHANGED recorded
    <3>1. row[c].mark # "agent"
      BY <1>1, <2>2 DEF AcceptsResult, Open, IInv, RowInv, AgentRowsClosed
    <3>2. Terminal(c, "completed", "queue_ack") \in Row  BY <1>0, <1>1, RowValues DEF Status, Mark
    <3>3. Terminal(c, "completed", "queue_ack").mark # "agent"  BY DEF Terminal
    <3>4. c \notin Locked /\ UNCHANGED <<hb, reap>>  BY DEF IngestFinalize
    <3>5. QED  BY <1>0, <1>1, <2>2, <3>1, <3>2, <3>3, <3>4, RowWritten DEF IInv
  <2>3. CASE /\ AcceptsResult(c)
             /\ \E s \in {"completed", "failed"} : row' = [row EXCEPT ![c] = Terminal(c, s, "agent")]
             /\ recorded' = [recorded EXCEPT ![c] = @ + 1]
    <3>1. PICK s \in {"completed", "failed"} : row' = [row EXCEPT ![c] = Terminal(c, s, "agent")]
      BY <2>3
    <3>2. Terminal(c, s, "agent") \in Row  BY <1>0, <1>1, RowValues DEF Status, Mark
    <3>3. Terminal(c, s, "agent").mark = "agent" /\ Terminal(c, s, "agent").status = s
      BY DEF Terminal
    <3>4. \A d \in Command : row'[d] = IF d = c THEN Terminal(c, s, "agent") ELSE row[d]
      BY <1>0, <1>1, <3>1 DEF RowType
    <3>5. c \notin Locked /\ UNCHANGED <<hb, reap>> /\ hb.rows \subseteq Command
      BY <1>0 DEF IngestFinalize, RestType
    <3>6. RowType'  BY <1>0, <1>1, <3>1, <3>2 DEF RowType
    <3>7. AgentRowsClosed'  BY <3>3, <3>4 DEF IInv, RowInv, AgentRowsClosed
    <3>8. HeartbeatRowsPending'  BY <3>4, <3>5 DEF IInv, RowInv, HeartbeatRowsPending, Locked
    <3>9. ReapedRowsOpen'  BY <3>4, <3>5 DEF IInv, RowInv, ReapedRowsOpen, Reaped, Open, Locked
    <3>10. row[c].mark # "agent"
      BY <1>1, <2>3 DEF AcceptsResult, Open, IInv, RowInv, AgentRowsClosed
    <3>11. RecordedExactlyOnce'
      BY <1>0, <1>1, <2>3, <3>3, <3>4, <3>10 DEF IInv, RowInv, RecordedExactlyOnce, RestType
    <3>12. QED  BY <3>6, <3>7, <3>8, <3>9, <3>11 DEF RowInv
  <2>4. QED  BY <2>1, <2>2, <2>3 DEF IngestFinalize
<1>3. RestInv'
  <2>1. /\ ingest' \in [Transport -> [pc : IngestPc, cmd : Command \cup {"none"}, kind : {"ack", "final"}]]
        /\ HandlersHaveCommand'
    <3>1. \/ ingest' = [ingest EXCEPT ![t] = NoIngest]
          \/ ingest' = [ingest EXCEPT ![t].pc = "parking"]
      BY DEF IngestFinalize
    <3>2. ingest[t].pc # "idle" /\ "parking" \in IngestPc  BY DEF IngestFinalize, IngestPc
    <3>3. QED  BY <3>1, <3>2, IngestEnds DEF IInv
  <2>2. owner' \in [Command -> Owner]
    BY <1>0, <1>1 DEF IngestFinalize, OwnerWithResult, RestType, Owner
  <2>3. recorded' \in [Command -> Nat]
    <3>1. recorded' = recorded \/ recorded' = [recorded EXCEPT ![c] = @ + 1]
      BY DEF IngestFinalize
    <3>2. QED  BY <1>0, <1>1, <3>1 DEF RestType
  <2>4. UNCHANGED <<claims, late, old, push, hb, reap, frames, seen, forgets, runs, results>>
    BY DEF IngestFinalize
  <2>5. QED
    BY <2>1, <2>2, <2>3, <2>4 DEF IInv, RestInv, RestType, LocksDisjoint, Reaped,
       ObservedRowsWereOpen
<1>4. QED  BY <1>2, <1>3 DEF IInv

\* Parking replaces only a row that accepts a result, so no recorded one.
LEMMA IngestParkKeeps ==
    ASSUME IInv, NEW t \in Transport, IngestPark(t)
    PROVE  IInv'
<1> DEFINE c == ingest[t].cmd
<1>0. RowType /\ RestType  BY DEF IInv, RowInv, RestInv
<1>1. c \in Command  BY DEF IngestPark, IInv, RestInv, HandlersHaveCommand
<1>2. RowInv'
  <2>1. CASE row' = row  BY <2>1, RowsKept DEF IngestPark, IInv
  <2>2. CASE row' # row
    <3>1. AcceptsResult(c) /\ row' = [row EXCEPT ![c] = Terminal(c, "failed", "processing_failed")]
      BY <2>2 DEF IngestPark
    <3>2. row[c].mark # "agent"
      BY <1>1, <3>1 DEF AcceptsResult, Open, IInv, RowInv, AgentRowsClosed
    <3>3. Terminal(c, "failed", "processing_failed") \in Row  BY <1>0, <1>1, RowValues DEF Status, Mark
    <3>4. Terminal(c, "failed", "processing_failed").mark # "agent"  BY DEF Terminal
    <3>5. c \notin Locked /\ UNCHANGED <<hb, reap, recorded>>  BY DEF IngestPark
    <3>6. QED  BY <1>0, <1>1, <3>1, <3>2, <3>3, <3>4, <3>5, RowWritten DEF IInv
  <2>3. QED  BY <2>1, <2>2
<1>3. RestInv'
  <2>1. ingest[t].pc # "idle" /\ "idle" \in IngestPc  BY DEF IngestPark, IngestPc
  <2>2. /\ ingest' \in [Transport -> [pc : IngestPc, cmd : Command \cup {"none"}, kind : {"ack", "final"}]]
        /\ HandlersHaveCommand'
    BY <2>1, IngestEnds DEF IngestPark, IInv
  <2>3. QED
    BY <2>2 DEF IngestPark, IInv, RestInv, RestType, LocksDisjoint, Reaped, ObservedRowsWereOpen
<1>4. QED  BY <1>2, <1>3 DEF IInv

\* The scan locks rows that are pending and that the reaper has not locked.
LEMMA HbScanKeeps ==
    ASSUME IInv, HbScan
    PROVE  IInv'
<1>1. PICK batch \in SUBSET Command :
         /\ hb' = [open |-> TRUE, rows |-> batch, inFlight |-> Sent # {}]
         /\ \A c \in batch : row[c].status = "pending" /\ c \notin Locked
  BY DEF HbScan
<1>2. hb' \in [open : BOOLEAN, rows : SUBSET Command, inFlight : BOOLEAN] /\ hb'.rows = batch
  BY <1>1
<1>3. UNCHANGED <<row, claims, late, old, owner, push, reap, frames, seen, forgets, runs,
                  results, ingest, recorded>>
  BY DEF HbScan
<1>4. HeartbeatRowsPending'  BY <1>1, <1>2, <1>3 DEF HeartbeatRowsPending
<1>5. LocksDisjoint'  BY <1>1, <1>2, <1>3 DEF LocksDisjoint, Reaped, Locked
<1>6. RowInv'
  BY <1>3, <1>4 DEF IInv, RowInv, RowType, AgentRowsClosed, ReapedRowsOpen, Reaped, Open,
     RecordedExactlyOnce
<1>7. RestInv'
  BY <1>2, <1>3, <1>5 DEF IInv, RestInv, RestType, ObservedRowsWereOpen, HandlersHaveCommand
<1>8. QED  BY <1>6, <1>7 DEF IInv

\* Rows the commit touches were pending and locked, so no result was in them.
LEMMA HbCommitKeeps ==
    ASSUME IInv, HbCommit
    PROVE  IInv'
<1>0. RowType /\ RestType  BY DEF IInv, RowInv, RestInv
<1>1. PICK cancelled \in SUBSET hb.rows, claimable \in SUBSET hb.rows :
         \E outcome \in [claimable -> Preparation] : Committed(cancelled, claimable, outcome)
  BY HbCommitWrites, BarrierWithin
<1>2. PICK outcome \in [claimable -> Preparation] : Committed(cancelled, claimable, outcome)
  BY <1>1
<1>3. UNCHANGED <<old, push, reap, seen, forgets, runs, results, ingest, recorded>> /\ hb' = NoClaim
  BY DEF HbCommit
<1>4. hb.rows \subseteq Command  BY <1>0 DEF RestType
<1>5. ASSUME NEW c \in Command, row'[c] # row[c]
      PROVE  c \in hb.rows /\ row'[c] \in Row /\ row'[c].mark # "agent"
  <2>1. c \in hb.rows  BY <1>2, <1>5 DEF Committed
  <2>2. row[c].status = "pending" /\ row[c].mark # "agent"
    BY <2>1 DEF IInv, RowInv, HeartbeatRowsPending, AgentRowsClosed
  <2>3. row'[c] \in {Claimed(c), Released(c, "deferred"), Refused(c),
                     Terminal(c, "failed", "withheld"), Terminal(c, "cancelled", "cancelled")}
    BY <1>2, <1>5 DEF Committed, Preparation, Prepared
  <2>4. row'[c] \in Row  BY <1>0, <2>3, RowValues DEF Status, Mark
  <2>5. row'[c].mark # "agent"  BY <2>2, <2>3 DEF Claimed, Released, Refused, Terminal
  <2>6. QED  BY <2>1, <2>4, <2>5
<1>6. RowInv'
  <2>1. RowType'
    <3>1. DOMAIN row' = Command /\ row' = [c \in Command |-> row'[c]]  BY <1>2 DEF Committed
    <3>2. \A c \in Command : row'[c] \in Row  BY <1>0, <1>5 DEF RowType
    <3>3. QED  BY <3>1, <3>2 DEF RowType
  <2>2. AgentRowsClosed'  BY <1>5 DEF IInv, RowInv, AgentRowsClosed
  <2>3. HeartbeatRowsPending'  BY <1>3 DEF NoClaim, HeartbeatRowsPending
  <2>4. ReapedRowsOpen'
    BY <1>3, <1>5 DEF IInv, RowInv, RestInv, LocksDisjoint, ReapedRowsOpen, Reaped, Open
  <2>5. \A c \in hb.rows : row[c].mark # "agent"
    BY <1>4 DEF IInv, RowInv, HeartbeatRowsPending, AgentRowsClosed
  <2>6. RecordedExactlyOnce'
    BY <1>3, <1>5, <2>5 DEF IInv, RowInv, RecordedExactlyOnce
  <2>7. QED  BY <2>1, <2>2, <2>3, <2>4, <2>6 DEF RowInv
<1>7. RestInv'
  <2>1. owner' \in [Command -> Owner]  BY <1>0, <1>2 DEF Committed, RestType, Close, Owner
  <2>2. claims' \in [Command -> Nat] /\ late' \subseteq Command
    BY <1>0, <1>2 DEF Committed, RestType
  <2>3. frames' \subseteq Command \X {"ws", "http"}  BY <1>0, <1>2, <1>4 DEF Committed, RestType
  <2>4. hb' \in [open : BOOLEAN, rows : SUBSET Command, inFlight : BOOLEAN] /\ hb'.rows = {}
    BY <1>3 DEF NoClaim
  <2>5. QED
    BY <1>3, <2>1, <2>2, <2>3, <2>4 DEF IInv, RestInv, RestType, LocksDisjoint, Reaped,
       ObservedRowsWereOpen, HandlersHaveCommand
<1>8. QED  BY <1>6, <1>7 DEF IInv

\* A rolled back heartbeat gives its locks back.
LEMMA HbRollbackKeeps ==
    ASSUME IInv, HbRollback
    PROVE  IInv'
<1>1. hb' \in [open : BOOLEAN, rows : SUBSET Command, inFlight : BOOLEAN] /\ hb'.rows = {}
  BY DEF HbRollback, NoClaim
<1>2. UNCHANGED <<row, claims, late, old, owner, push, reap, frames, seen, forgets, runs,
                  results, ingest, recorded>>
  BY DEF HbRollback
<1>3. RowInv'
  BY <1>1, <1>2 DEF IInv, RowInv, RowType, AgentRowsClosed, HeartbeatRowsPending,
     ReapedRowsOpen, Reaped, Open, RecordedExactlyOnce
<1>4. RestInv'
  BY <1>1, <1>2 DEF IInv, RestInv, RestType, LocksDisjoint, Reaped, ObservedRowsWereOpen,
     HandlersHaveCommand
<1>5. QED  BY <1>3, <1>4 DEF IInv

\* The reaper steps that change nothing but the observations.
LEMMA ReapStateKeeps ==
    ASSUME IInv,
           reap' \in [Command -> [pc : ReapPc, status : Status, executedAt : Nat]],
           UNCHANGED <<row, claims, late, old, owner, push, hb, frames, seen, forgets, runs,
                       results, ingest, recorded>>,
           \A c \in Reaped' : Open(c) /\ c \notin hb.rows,
           ObservedRowsWereOpen'
    PROVE  IInv'
<1>1. RowInv'
  BY DEF IInv, RowInv, RowType, AgentRowsClosed, HeartbeatRowsPending, ReapedRowsOpen, Open,
     RecordedExactlyOnce
<1>2. RestInv'
  BY DEF IInv, RestInv, RestType, LocksDisjoint, HandlersHaveCommand
<1>3. QED  BY <1>1, <1>2 DEF IInv

\* The reaper observes open rows only; its scan locks nothing.
LEMMA ReapScanKeeps ==
    ASSUME IInv, ReapScan
    PROVE  IInv'
<1>0. RowType  BY DEF IInv, RowInv
<1>1. reap' \in [Command -> [pc : ReapPc, status : Status, executedAt : Nat]]
  BY <1>0 DEF ReapScan, NotObserved, ReapPc, Status, RowType, Row
<1>2. Reaped' = {}  BY DEF ReapScan, Reaped, NotObserved
<1>3. ObservedRowsWereOpen'  BY DEF ReapScan, ObservedRowsWereOpen, NotObserved, Due
<1>4. QED  BY <1>1, <1>2, <1>3, ReapStateKeeps DEF ReapScan

\* The guarded UPDATE locks a row in the open state that the scan observed.
LEMMA ReapLockKeeps ==
    ASSUME IInv, NEW c \in Command, ReapLock(c)
    PROVE  IInv'
<1>0. RestType  BY DEF IInv, RestInv
<1>1. reap' = [reap EXCEPT ![c] = NotObserved] \/ reap' = [reap EXCEPT ![c].pc = "locked"]
  BY DEF ReapLock
<1>2. reap' \in [Command -> [pc : ReapPc, status : Status, executedAt : Nat]]
  <2>1. CASE reap' = [reap EXCEPT ![c] = NotObserved]
    BY <1>0, <2>1 DEF RestType, NotObserved, ReapPc, Status
  <2>2. CASE reap' = [reap EXCEPT ![c].pc = "locked"]
    <3> DEFINE O == [pc : ReapPc, status : Status, executedAt : Nat]
    <3>1. reap \in [Command -> O]  BY <1>0 DEF RestType
    <3>2. reap' = [reap EXCEPT ![c] = [reap[c] EXCEPT !.pc = "locked"]]  BY <2>2, <3>1
    <3>3. [reap[c] EXCEPT !.pc = "locked"] \in O  BY <3>1 DEF ReapPc
    <3> HIDE DEF O
    <3>4. reap' \in [Command -> O]  BY <3>1, <3>2, <3>3
    <3>5. QED  BY <3>4 DEF O
  <2>3. QED  BY <1>1, <2>1, <2>2
<1>3. \A d \in Command : d # c => reap'[d] = reap[d]  BY <1>0, <1>1 DEF RestType
<1>4. reap[c].status \in {"pending", "sent"}
  BY DEF ReapLock, IInv, RestInv, ObservedRowsWereOpen
<1>5. reap'[c].pc = "idle" \/ reap'[c].status = reap[c].status
  BY <1>0, <1>1 DEF RestType, NotObserved
<1>6. c \in Reaped' => ObservedGuard(c)
  BY <1>0 DEF ReapLock, RestType, Reaped, NotObserved
<1>7. \A d \in Reaped' : Open(d) /\ d \notin hb.rows
  <2>1. c \in Reaped' => Open(c) /\ c \notin hb.rows
    BY <1>4, <1>6 DEF ObservedGuard, Open, ReapLock
  <2>2. \A d \in Reaped' : d # c => d \in Reaped  BY <1>3 DEF Reaped
  <2>3. QED  BY <2>1, <2>2 DEF IInv, RowInv, RestInv, ReapedRowsOpen, LocksDisjoint
<1>8. ObservedRowsWereOpen'
  BY <1>3, <1>4, <1>5 DEF IInv, RestInv, ObservedRowsWereOpen
<1>9. QED  BY <1>2, <1>7, <1>8, ReapStateKeeps DEF ReapLock

\* A rolled back reaper pass gives its locks back.
LEMMA ReapRollbackKeeps ==
    ASSUME IInv, ReapRollback
    PROVE  IInv'
<1>1. reap' \in [Command -> [pc : ReapPc, status : Status, executedAt : Nat]]
  BY DEF ReapRollback, NotObserved, ReapPc, Status
<1>2. Reaped' = {} /\ ObservedRowsWereOpen'
  BY DEF ReapRollback, Reaped, NotObserved, ObservedRowsWereOpen
<1>3. QED  BY <1>1, <1>2, ReapStateKeeps DEF ReapRollback

\* The rows the reaper fails are open, hence without a result, and no heartbeat's.
LEMMA ReapCommitKeeps ==
    ASSUME IInv, ReapCommit
    PROVE  IInv'
<1>0. RowType /\ RestType  BY DEF IInv, RowInv, RestInv
<1>1. reap' \in [Command -> [pc : ReapPc, status : Status, executedAt : Nat]]
  BY DEF ReapCommit, NotObserved, ReapPc, Status
<1>2. Reaped' = {} /\ ObservedRowsWereOpen'
  BY DEF ReapCommit, Reaped, NotObserved, ObservedRowsWereOpen
<1>3. \A c \in Command : row'[c] = IF c \in Reaped THEN Terminal(c, "failed", "timeout") ELSE row[c]
  BY DEF ReapCommit
<1>4. \A c \in Command : Terminal(c, "failed", "timeout") \in Row
  BY <1>0, RowValues DEF Status, Mark
<1>5. \A c \in Reaped : row[c].mark # "agent" /\ c \notin hb.rows
  BY DEF IInv, RowInv, RestInv, ReapedRowsOpen, AgentRowsClosed, LocksDisjoint, Open, Reaped
<1>6. \A c \in Command : Terminal(c, "failed", "timeout").mark = "timeout"  BY DEF Terminal
<1>7. UNCHANGED <<claims, late, old, push, hb, frames, seen, forgets, runs, results, ingest,
                  recorded>> /\ hb.rows \subseteq Command
  BY <1>0 DEF ReapCommit, RestType
<1>8. RowInv'
  <2>1. RowType'
    <3>1. row' = [c \in Command |-> row'[c]]  BY DEF ReapCommit
    <3>2. \A c \in Command : row'[c] \in Row  BY <1>0, <1>3, <1>4 DEF RowType
    <3>3. QED  BY <3>1, <3>2 DEF RowType
  <2>2. AgentRowsClosed'  BY <1>3, <1>6 DEF IInv, RowInv, AgentRowsClosed
  <2>3. HeartbeatRowsPending'
    BY <1>3, <1>5, <1>7 DEF IInv, RowInv, HeartbeatRowsPending
  <2>4. ReapedRowsOpen'  BY <1>2 DEF ReapedRowsOpen
  <2>5. RecordedExactlyOnce'
    BY <1>3, <1>5, <1>6, <1>7 DEF IInv, RowInv, RecordedExactlyOnce
  <2>6. QED  BY <2>1, <2>2, <2>3, <2>4, <2>5 DEF RowInv
<1>9. owner' \in [Command -> Owner]  BY <1>0 DEF ReapCommit, RestType, Close, Owner
<1>10. RestInv'
  BY <1>1, <1>2, <1>7, <1>9 DEF IInv, RestInv, RestType, LocksDisjoint, HandlersHaveCommand
<1>11. QED  BY <1>8, <1>10 DEF IInv

\* A sweep waits for the locks and cancels open rows only.
LEMMA SweepKeeps ==
    ASSUME IInv, Sweep
    PROVE  IInv'
<1>0. RowType /\ RestType  BY DEF IInv, RowInv, RestInv
<1>1. \A c \in Command : row'[c] = IF Open(c) THEN Terminal(c, "cancelled", "swept") ELSE row[c]
  BY DEF Sweep
<1>2. \A c \in Command : Terminal(c, "cancelled", "swept") \in Row
  BY <1>0, RowValues DEF Status, Mark
<1>3. \A c \in Command : Open(c) => row[c].mark # "agent" /\ c \notin Locked
  BY DEF IInv, RowInv, AgentRowsClosed, Open, Sweep
<1>4. \A c \in Command : Terminal(c, "cancelled", "swept").mark = "swept"  BY DEF Terminal
<1>5. UNCHANGED <<hb, reap, recorded>> /\ hb.rows \subseteq Command
  BY <1>0 DEF Sweep, RestType
<1>6. RowInv'
  <2>1. RowType'
    <3>1. row' = [c \in Command |-> row'[c]]  BY DEF Sweep
    <3>2. \A c \in Command : row'[c] \in Row  BY <1>0, <1>1, <1>2 DEF RowType
    <3>3. QED  BY <3>1, <3>2 DEF RowType
  <2>2. AgentRowsClosed'  BY <1>1, <1>4 DEF IInv, RowInv, AgentRowsClosed
  <2>3. HeartbeatRowsPending'
    BY <1>1, <1>3, <1>5 DEF IInv, RowInv, HeartbeatRowsPending, Locked
  <2>4. \A c \in Reaped : c \in Command /\ row'[c] = row[c]
    BY <1>1, <1>3 DEF Reaped, Locked
  <2>5. ReapedRowsOpen'  BY <1>5, <2>4 DEF IInv, RowInv, ReapedRowsOpen, Reaped, Open
  <2>6. RecordedExactlyOnce'
    BY <1>1, <1>3, <1>4, <1>5 DEF IInv, RowInv, RecordedExactlyOnce
  <2>7. QED  BY <2>1, <2>2, <2>3, <2>5, <2>6 DEF RowInv
<1>7. RestInv'
  BY DEF Sweep, IInv, RestInv, RestType, LocksDisjoint, Reaped, ObservedRowsWereOpen,
         HandlersHaveCommand
<1>8. QED  BY <1>6, <1>7 DEF IInv

-----------------------------------------------------------------------------
(* The invariant holds *)

\* An empty table with no lock and no handler satisfies the invariant.
LEMMA InitEstablishes == Init => IInv
<1> SUFFICES ASSUME Init PROVE IInv
  OBVIOUS
<1>1. RowType /\ AgentRowsClosed /\ RecordedExactlyOnce
  BY DEF Init, NoRow, RowType, Row, Status, Mark, Deadline, AgentRowsClosed, RecordedExactlyOnce
<1>2. hb.rows = {} /\ Reaped = {}  BY DEF Init, NoClaim, NotObserved, Reaped
<1>3. RestType
  BY DEF Init, RestType, Owner, PushPc, NoClaim, NotObserved, ReapPc, Status, Transport,
         NoIngest, IngestPc, Result
<1>4. ObservedRowsWereOpen /\ HandlersHaveCommand
  BY DEF Init, NotObserved, NoIngest, ObservedRowsWereOpen, HandlersHaveCommand
<1>5. QED
  BY <1>1, <1>2, <1>3, <1>4 DEF IInv, RowInv, RestInv, HeartbeatRowsPending, ReapedRowsOpen,
     LocksDisjoint

\* No step of any writer breaks the invariant.
LEMMA StepKeeps == IInv /\ [Next]_vars => IInv'
<1> SUFFICES ASSUME IInv, [Next]_vars PROVE IInv'
  OBVIOUS
<1>1. CASE UNCHANGED vars
  <2>1. RowInv'  BY <1>1, RowsKept DEF vars, IInv
  <2>2. RestInv'
    BY <1>1 DEF vars, IInv, RestInv, RestType, LocksDisjoint, Reaped, ObservedRowsWereOpen,
       HandlersHaveCommand
  <2>3. QED  BY <2>1, <2>2 DEF IInv
<1>2. ASSUME NEW c \in Command,
             \/ Enqueue(c) \/ PushStep(c) \/ WaitResult(c) \/ Forget(c) \/ ReapLock(c)
             \/ ReapExecution(c) \/ CancelPending(c) \/ Tick(c)
      PROVE  IInv'
  BY <1>2, EnqueueKeeps, PushPowerCheckKeeps, PushClaimKeeps, PushDeliverKeeps, PushReleaseKeeps,
     WaitResultKeeps, ForgetKeeps, ReapLockKeeps, ReapExecutionKeeps, CancelPendingKeeps,
     TickKeeps DEF PushStep
<1>3. ASSUME NEW c \in Command, NEW via \in {"ws", "http"}, AgentStep(c, via)
      PROVE  IInv'
  BY <1>3, DeliverKeeps, AgentRefuseKeeps DEF AgentStep
<1>4. ASSUME NEW t \in Transport, IngestStep(t)
      PROVE  IInv'
  BY <1>4, IngestLookupKeeps, IngestFinalizeKeeps, IngestParkKeeps DEF IngestStep
<1>5. CASE HbScan \/ HbCommit \/ HbRollback
  BY <1>5, HbScanKeeps, HbCommitKeeps, HbRollbackKeeps
<1>6. CASE ReapScan \/ ReapCommit \/ ReapRollback \/ Sweep
  BY <1>6, ReapScanKeeps, ReapCommitKeeps, ReapRollbackKeeps, SweepKeeps
<1>7. QED  BY <1>1, <1>2, <1>3, <1>4, <1>5, <1>6 DEF Next

\* The invariant holds in every reachable state.
LEMMA Invariance == Spec => []IInv
  BY InitEstablishes, StepKeeps, PTL DEF Spec

\* Every reachable state is well typed, whatever the sets, events and bounds.
THEOREM TypeCorrect == Spec => []TypeOK
<1>1. IInv => TypeOK  BY TypeSplit DEF IInv, RowInv, RestInv
<1>2. QED  BY <1>1, Invariance, PTL

\* The per-type records of a command are written exactly when its row takes the
\* agent's result, and at most once: the acceptance predicate that both ingest
\* transports evaluate inside their finalizing transaction is enough, against
\* resends, timeouts, reaper, cancels and releases in any number and order.
THEOREM RecordedExactlyOnceHolds == Spec => []RecordedExactlyOnce
<1>1. IInv => RecordedExactlyOnce  BY DEF IInv, RowInv
<1>2. QED  BY <1>1, Invariance, PTL

-----------------------------------------------------------------------------
(* What one step may do to a row *)

\* An absent row is enqueued, an open one is claimed, released or closed, a
\* closed one that still accepts a result is closed again; no other row changes.
Moves(c) ==
    \/ row'[c] = row[c]
    \/ row[c].status = "absent" /\ row'[c].status = "pending"
    \/ Open(c) /\ row'[c].status # "absent"
    \/ AcceptsResult(c) /\ row'[c].status \in {"completed", "failed"}

RowsMove == \A c \in Command : Moves(c)

\* A step that writes one row.
LEMMA OneRowWritten ==
    ASSUME RowType, NEW c \in Command, NEW r, row' = [row EXCEPT ![c] = r],
           \/ row[c].status = "absent" /\ r.status = "pending"
           \/ Open(c) /\ r.status # "absent"
           \/ AcceptsResult(c) /\ r.status \in {"completed", "failed"}
    PROVE  RowsMove
<1>1. row'[c] = r  BY DEF RowType
<1>2. \A d \in Command : d # c => row'[d] = row[d]  BY DEF RowType
<1>3. QED  BY <1>1, <1>2 DEF RowsMove, Moves

\* A release or expiry fenced by the claim it gives back.
LEMMA FencedWrite ==
    ASSUME RowType, NEW c \in Command, NEW r, WriteIfHeld(c, r), r.status = "pending"
    PROVE  RowsMove
<1>1. CASE row' = row  BY <1>1 DEF RowsMove, Moves
<1>2. CASE row' = [row EXCEPT ![c] = r] /\ Open(c)  BY <1>2, OneRowWritten
<1>3. QED  BY <1>1, <1>2 DEF WriteIfHeld, HoldsClaim, Open

\* The steps of the request, of cancellation and of time write open or new rows.
LEMMA CommandStepMoves ==
    ASSUME IInv, NEW c \in Command,
           \/ Enqueue(c) \/ PushStep(c) \/ WaitResult(c) \/ Forget(c) \/ ReapLock(c)
           \/ ReapExecution(c) \/ CancelPending(c) \/ Tick(c)
    PROVE  RowsMove
<1>0. RowType  BY DEF IInv, RowInv
<1>1. CASE row' = row  BY <1>1 DEF RowsMove, Moves
<1>2. CASE Enqueue(c)
  <2>1. PICK d : row' = [row EXCEPT ![c] = [status |-> "pending", executedAt |-> 0,
                                            deliverBy |-> d, mark |-> "none"]]
    BY <1>2 DEF Enqueue
  <2>2. QED  BY <1>0, <1>2, <2>1, OneRowWritten DEF Enqueue
<1>3. CASE PushClaim(c)
  <2>1. CASE row' = [row EXCEPT ![c] = Terminal(c, "cancelled", "cancelled")] /\ Open(c)
    BY <1>0, <2>1, OneRowWritten DEF Terminal
  <2>2. CASE row' = [row EXCEPT ![c] = Claimed(c)] /\ Open(c)
    BY <1>0, <2>2, OneRowWritten DEF Claimed
  <2>3. QED  BY <1>1, <1>3, <2>1, <2>2 DEF PushClaim, Open
<1>4. CASE PushDeliver(c) \/ PushRelease(c)
  <2>1. ASSUME NEW m, WriteIfHeld(c, Released(c, m)) PROVE RowsMove
    BY <1>0, <2>1, FencedWrite DEF Released
  <2>2. ASSUME WriteIfHeld(c, Refused(c)) PROVE RowsMove
    BY <1>0, <2>2, FencedWrite DEF Refused
  <2>3. QED  BY <1>1, <1>4, <2>1, <2>2 DEF PushDeliver, PushRelease
<1>5. CASE WaitResult(c)
  <2>1. CASE row' = [row EXCEPT ![c] = Terminal(c, "failed", "timeout")] /\ Open(c)
    BY <1>0, <2>1, OneRowWritten DEF Terminal
  <2>2. QED  BY <1>1, <1>5, <2>1 DEF WaitResult
<1>6. CASE CancelPending(c)
  <2>1. row' = [row EXCEPT ![c] = Terminal(c, "cancelled", "cancelled")] /\ Open(c)
    BY <1>6 DEF CancelPending, Open
  <2>2. QED  BY <1>0, <2>1, OneRowWritten DEF Terminal
<1>7. CASE AgeDelivery(c)
  BY <1>0, <1>7, OneRowWritten DEF AgeDelivery, Open
<1>8. QED
  BY <1>1, <1>2, <1>3, <1>4, <1>5, <1>6, <1>7
     DEF PushStep, PushPowerCheck, Forget, ReapLock, ReapExecution, Tick, AgeExecution, AgeCreated

\* A result handler writes under the acceptance predicate.
LEMMA IngestStepMoves ==
    ASSUME IInv, NEW t \in Transport, IngestStep(t)
    PROVE  RowsMove
<1>0. RowType /\ HandlersHaveCommand  BY DEF IInv, RowInv, RestInv
<1>1. CASE row' = row  BY <1>1 DEF RowsMove, Moves
<1>2. ASSUME ingest[t].cmd \in Command, AcceptsResult(ingest[t].cmd),
             NEW s \in {"completed", "failed"}, NEW m,
             row' = [row EXCEPT ![ingest[t].cmd] = Terminal(ingest[t].cmd, s, m)]
      PROVE  RowsMove
  BY <1>0, <1>2, OneRowWritten DEF Terminal
<1>3. ingest[t].pc # "idle" => ingest[t].cmd \in Command  BY <1>0 DEF HandlersHaveCommand
<1>4. CASE IngestFinalize(t)  BY <1>1, <1>2, <1>3, <1>4 DEF IngestFinalize
<1>5. CASE IngestPark(t)  BY <1>1, <1>2, <1>3, <1>5 DEF IngestPark
<1>6. QED  BY <1>1, <1>4, <1>5 DEF IngestStep, IngestLookup

\* The batch writers test the status in an earlier step than they write: their
\* locks, that is HeartbeatRowsPending and ReapedRowsOpen, cover the distance.
LEMMA BatchStepMoves ==
    ASSUME IInv, HbScan \/ HbCommit \/ HbRollback \/ ReapScan \/ ReapCommit
                 \/ ReapRollback \/ Sweep
    PROVE  RowsMove
<1>1. CASE row' = row  BY <1>1 DEF RowsMove, Moves
<1>2. CASE HbCommit
  <2>1. \A c \in Command : c \notin hb.rows => row'[c] = row[c]
    BY <1>2 DEF HbCommit, Barrier
  <2>2. \A c \in hb.rows : c \in Command /\ Open(c)
    BY DEF IInv, RowInv, RestInv, RestType, HeartbeatRowsPending, Open
  <2>3. \A c \in hb.rows : row'[c].status # "absent"
    <3>1. ASSUME NEW c \in hb.rows,
                 NEW o \in {"deliver", "release", "defer", "refuse", "withhold"}
          PROVE  Prepared(c, o).status # "absent"
      BY <2>2 DEF Prepared, Claimed, Released, Refused, Terminal, Open
    <3>2. ASSUME NEW c \in hb.rows
          PROVE  Terminal(c, "cancelled", "cancelled").status # "absent"
                 /\ row[c].status # "absent"
      BY <2>2 DEF Terminal, Open
    <3>3. QED  BY <1>2, <2>2, <3>1, <3>2 DEF HbCommit
  <2>4. QED  BY <2>1, <2>2, <2>3 DEF RowsMove, Moves
<1>3. CASE ReapCommit
  BY <1>3 DEF ReapCommit, IInv, RowInv, ReapedRowsOpen, Terminal, RowsMove, Moves
<1>4. CASE Sweep  BY <1>4 DEF Sweep, Terminal, RowsMove, Moves
<1>5. QED
  BY <1>1, <1>2, <1>3, <1>4 DEF HbScan, HbRollback, ReapScan, ReapRollback

\* Every step of the specification moves the rows as Moves says.
LEMMA StepMoves ==
    ASSUME IInv, [Next]_vars
    PROVE  RowsMove
<1>1. ASSUME NEW c \in Command, NEW via \in {"ws", "http"}, AgentStep(c, via)
      PROVE  RowsMove
  BY <1>1 DEF AgentStep, Deliver, AgentRefuse, RowsMove, Moves
<1>2. CASE UNCHANGED vars  BY <1>2 DEF vars, RowsMove, Moves
<1>3. QED  BY <1>1, <1>2, CommandStepMoves, IngestStepMoves, BatchStepMoves DEF Next

\* A terminal row that accepts no result is never written again, by whichever
\* of the writers and however stale the read it decided on.
THEOREM FinalRowsFrozenHolds == Spec => FinalRowsFrozen
<1>1. ASSUME IInv, [Next]_vars
      PROVE  \A c \in Command :
                row[c].status # "absent" /\ ~AcceptsResult(c) => row'[c] = row[c]
  BY <1>1, StepMoves DEF RowsMove, Moves, AcceptsResult
<1>2. QED  BY <1>1, Invariance, PTL DEF Spec, FinalRowsFrozen

-----------------------------------------------------------------------------
(* The rows implement CommandOutcome *)

\* Which outcome a row shows.
LEMMA OutcomeCases ==
    ASSUME RowType, AgentRowsClosed, NEW c \in Command
    PROVE  /\ OutcomeOf(c) \in {"none", "open", "provisional", "final", "void"}
           /\ OutcomeOf(c) = "none" <=> row[c].status = "absent"
           /\ OutcomeOf(c) = "open" <=> Open(c)
           /\ OutcomeOf(c) = "final" <=> row[c].mark = "agent"
           /\ OutcomeOf(c) = "provisional" => AcceptsResult(c)
           /\ OutcomeOf(c) \in {"final", "void"} => ~AcceptsResult(c)
  BY DEF OutcomeOf, AgentRowsClosed, Open, AcceptsResult

\* Every step moves every outcome to a successor of it.
LEMMA OutcomeSucceeds ==
    ASSUME IInv, IInv', RowsMove, NEW c \in Command
    PROVE  /\ OutcomeOf(c)' \in Outcomes!Outcome
           /\ OutcomeOf(c)' \in Outcomes!Successors(OutcomeOf(c))
           /\ OutcomeOf(c) \in {"final", "void"} => row'[c] = row[c]
<1>1. /\ OutcomeOf(c) \in {"none", "open", "provisional", "final", "void"}
      /\ OutcomeOf(c) = "none" <=> row[c].status = "absent"
      /\ OutcomeOf(c) = "open" <=> Open(c)
      /\ OutcomeOf(c) \in {"final", "void"} => ~AcceptsResult(c)
  BY OutcomeCases DEF IInv, RowInv
<1>2. /\ OutcomeOf(c)' \in {"none", "open", "provisional", "final", "void"}
      /\ OutcomeOf(c)' = "none" <=> row'[c].status = "absent"
      /\ OutcomeOf(c)' = "open" <=> row'[c].status \in {"pending", "sent"}
      /\ OutcomeOf(c)' = "final" <=> row'[c].mark = "agent"
  BY DEF OutcomeOf, AgentRowsClosed, Open, AcceptsResult, IInv, RowInv
<1>3. CASE row'[c] = row[c]
  <2>1. OutcomeOf(c)' = OutcomeOf(c)  BY <1>3 DEF OutcomeOf, Open, AcceptsResult
  <2>2. OutcomeOf(c) \in Outcomes!Successors(OutcomeOf(c))  BY <1>1 DEF Outcomes!Successors
  <2>3. QED  BY <1>1, <1>3, <2>1, <2>2 DEF Outcomes!Outcome
<1>4. CASE row'[c] # row[c]
  <2>1. /\ OutcomeOf(c) \notin {"final", "void"}
        /\ OutcomeOf(c) = "none" => row'[c].status = "pending"
        /\ OutcomeOf(c) = "open" => row'[c].status # "absent"
        /\ OutcomeOf(c) = "provisional" => row'[c].status \in {"completed", "failed"}
    BY <1>1, <1>4 DEF RowsMove, Moves, AcceptsResult, Open
  <2>2. QED  BY <1>1, <1>2, <2>1 DEF Outcomes!Outcome, Outcomes!Successors
<1>5. QED  BY <1>3, <1>4

\* All writers of the rows together implement CommandOutcome: outcomes only move
\* forward, final and void ones are kept, and the records of a command grow in
\* exactly the step in which its outcome becomes final.
THEOREM ImplementsOutcomeHolds == Spec => ImplementsOutcome
<1>1. ASSUME Init PROVE Outcomes!Init
  <2>1. \A c \in Command : row[c].status = "absent"  BY <1>1 DEF Init, NoRow
  <2>2. \A c \in Command : OutcomeOf(c) = "none"
    BY <1>1, <2>1, InitEstablishes, OutcomeCases DEF IInv, RowInv
  <2>3. QED  BY <1>1, <2>2 DEF Init, Outcomes!Init
<1>2. ASSUME IInv, IInv', [Next]_vars
      PROVE  Outcomes!Next
  <2>0. RowsMove  BY <1>2, StepMoves
  <2>1. \A c \in Command : /\ OutcomeOf(c)' \in Outcomes!Outcome
                           /\ OutcomeOf(c)' \in Outcomes!Successors(OutcomeOf(c))
                           /\ OutcomeOf(c) \in {"final", "void"} => row'[c] = row[c]
    BY <1>2, <2>0, OutcomeSucceeds
  <2>2. \A c \in Command : OutcomeOf(c) = "final" <=> row[c].mark = "agent"
    BY <1>2, OutcomeCases DEF IInv, RowInv
  <2>3. \A c \in Command : OutcomeOf(c)' = "final" <=> row'[c].mark = "agent"
    BY <1>2 DEF OutcomeOf, AgentRowsClosed, Open, AcceptsResult, IInv, RowInv
  <2>4. recorded' = [c \in Command |->
                       IF OutcomeOf(c)' = "final" /\ OutcomeOf(c) # "final"
                       THEN recorded[c] + 1 ELSE recorded[c]]
    <3>1. /\ \A c \in Command : recorded[c] = IF row[c].mark = "agent" THEN 1 ELSE 0
          /\ \A c \in Command : recorded'[c] = IF row'[c].mark = "agent" THEN 1 ELSE 0
          /\ recorded' \in [Command -> Nat]
      BY <1>2 DEF IInv, RowInv, RestInv, RestType, RecordedExactlyOnce
    <3>2. QED  BY <2>1, <2>2, <2>3, <3>1
  <2>5. QED  BY <2>1, <2>4 DEF Outcomes!Next
<1>3. QED
  BY <1>1, <1>2, Invariance, PTL DEF Spec, ImplementsOutcome, Outcomes!Spec

-----------------------------------------------------------------------------
(* Claims and their clocks *)

\* What a step may do to a row, its count of claims and its clocks: a claim takes a
\* pending row and stamps it with a new number, and only a claim resets the clock
\* since the claim; only the request that holds the claim gives it back; a deadline
\* is kept or over, and the clock since creation never goes back.
Timely(c) ==
    /\ c \in old => c \in old'
    /\ row[c].status # "absent" => /\ row'[c].status # "absent"
                                   /\ \/ row'[c].deliverBy = row[c].deliverBy
                                      \/ row'[c].deliverBy \in {"instant", "past"}
    /\ row[c].status = "sent" /\ row'[c].status = "pending"
       => push[c].claimedAt = row[c].executedAt
    /\ \/ /\ claims'[c] = claims[c]
          /\ c \in late => c \in late'
          /\ row'[c].status = "sent"
             => row[c].status = "sent" /\ row'[c].executedAt = row[c].executedAt
       \/ /\ claims'[c] = claims[c] + 1
          /\ row[c].status = "pending"
          /\ row'[c].status = "sent"
          /\ row'[c].executedAt = claims'[c]

RowsTimely == \A c \in Command : Timely(c)

\* A step that leaves the rows and their clocks alone, or lets time pass.
LEMMA TimelyKept ==
    ASSUME UNCHANGED <<row, claims>>, late \subseteq late', old \subseteq old'
    PROVE  RowsTimely
  BY DEF RowsTimely, Timely

\* A terminal write of one row.
LEMMA TimelyClosed ==
    ASSUME RowType, NEW c \in Command, NEW s \in {"completed", "failed", "cancelled"}, NEW m,
           row' = [row EXCEPT ![c] = Terminal(c, s, m)],
           UNCHANGED <<claims, late, old>>
    PROVE  RowsTimely
<1>1. row'[c] = Terminal(c, s, m)  BY DEF RowType
<1>2. \A d \in Command : d # c => row'[d] = row[d]  BY DEF RowType
<1>3. QED  BY <1>1, <1>2 DEF RowsTimely, Timely, Terminal

\* A claim of one row.
LEMMA TimelyClaimed ==
    ASSUME RowType, RestType, NEW c \in Command, row[c].status = "pending",
           row' = [row EXCEPT ![c] = Claimed(c)],
           claims' = [claims EXCEPT ![c] = @ + 1],
           late' = late \ {c}, UNCHANGED old
    PROVE  RowsTimely
<1>1. row'[c] = Claimed(c)  BY DEF RowType
<1>2. \A d \in Command : d # c => row'[d] = row[d] /\ claims'[d] = claims[d]
  BY DEF RowType, RestType
<1>3. claims'[c] = claims[c] + 1  BY DEF RestType
<1>4. QED  BY <1>1, <1>2, <1>3 DEF RowsTimely, Timely, Claimed

\* A release or expiry under the fence of the claim.
LEMMA TimelyFenced ==
    ASSUME RowType, NEW c \in Command, NEW r, WriteIfHeld(c, r), r.status = "pending",
           UNCHANGED <<claims, late, old>>,
           r.deliverBy = row[c].deliverBy \/ r.deliverBy = "instant"
    PROVE  RowsTimely
<1>1. CASE row' = row  BY <1>1, TimelyKept
<1>2. CASE row' = [row EXCEPT ![c] = r] /\ HoldsClaim(c, push[c].claimedAt)
  <2>1. row'[c] = r /\ \A d \in Command : d # c => row'[d] = row[d]  BY <1>2 DEF RowType
  <2>2. QED  BY <1>2, <2>1 DEF RowsTimely, Timely, HoldsClaim
<1>3. QED  BY <1>1, <1>2 DEF WriteIfHeld

\* The steps of the request, of cancellation and of time.
LEMMA CommandStepTimely ==
    ASSUME IInv, NEW c \in Command,
           \/ Enqueue(c) \/ PushStep(c) \/ WaitResult(c) \/ Forget(c) \/ ReapLock(c)
           \/ ReapExecution(c) \/ CancelPending(c) \/ Tick(c)
    PROVE  RowsTimely
<1>0. RowType /\ RestType  BY DEF IInv, RowInv, RestInv
<1>1. CASE UNCHANGED <<row, claims>> /\ late \subseteq late' /\ old \subseteq old'
  BY <1>1, TimelyKept
<1>2. CASE Enqueue(c)
  <2>1. PICK d : row' = [row EXCEPT ![c] = [status |-> "pending", executedAt |-> 0,
                                            deliverBy |-> d, mark |-> "none"]]
    BY <1>2 DEF Enqueue
  <2>2. row'[c].status = "pending" /\ \A e \in Command : e # c => row'[e] = row[e]
    BY <1>0, <2>1 DEF RowType
  <2>3. QED  BY <1>2, <2>2 DEF Enqueue, RowsTimely, Timely
<1>3. CASE PushClaim(c)
  <2>1. CASE row' = [row EXCEPT ![c] = Terminal(c, "cancelled", "cancelled")]
             /\ UNCHANGED <<claims, late>>
    BY <1>0, <1>3, <2>1, TimelyClosed DEF PushClaim
  <2>2. CASE /\ row' = [row EXCEPT ![c] = Claimed(c)]
             /\ row[c].status = "pending"
             /\ claims' = [claims EXCEPT ![c] = @ + 1]
             /\ late' = late \ {c}
    BY <1>0, <1>3, <2>2, TimelyClaimed DEF PushClaim
  <2>3. QED  BY <1>1, <1>3, <2>1, <2>2 DEF PushClaim
<1>4. CASE PushDeliver(c) \/ PushRelease(c)
  <2>1. UNCHANGED <<claims, late, old>>  BY <1>4 DEF PushDeliver, PushRelease
  <2>2. ASSUME NEW m, WriteIfHeld(c, Released(c, m)) PROVE RowsTimely
    BY <1>0, <2>1, <2>2, TimelyFenced DEF Released
  <2>3. ASSUME WriteIfHeld(c, Refused(c)) PROVE RowsTimely
    BY <1>0, <2>1, <2>3, TimelyFenced DEF Refused
  <2>4. QED  BY <1>1, <1>4, <2>1, <2>2, <2>3 DEF PushDeliver, PushRelease
<1>5. CASE WaitResult(c)
  <2>1. CASE row' = [row EXCEPT ![c] = Terminal(c, "failed", "timeout")]
    BY <1>0, <1>5, <2>1, TimelyClosed DEF WaitResult
  <2>2. QED  BY <1>1, <1>5, <2>1 DEF WaitResult
<1>6. CASE CancelPending(c)
  BY <1>0, <1>6, TimelyClosed DEF CancelPending
<1>7. CASE AgeDelivery(c)
  <2>1. \A d \in Command : d # c => row'[d] = row[d]  BY <1>0, <1>7 DEF AgeDelivery, RowType
  <2>2. /\ row'[c].status = row[c].status
        /\ row'[c].executedAt = row[c].executedAt
        /\ row'[c].deliverBy = "past"
    BY <1>0, <1>7 DEF AgeDelivery, RowType
  <2>3. QED  BY <1>7, <2>1, <2>2 DEF AgeDelivery, RowsTimely, Timely
<1>8. QED
  BY <1>1, <1>2, <1>3, <1>4, <1>5, <1>6, <1>7
     DEF PushStep, PushPowerCheck, Forget, ReapLock, ReapExecution, Tick, AgeExecution, AgeCreated

\* A result handler closes one row.
LEMMA IngestStepTimely ==
    ASSUME IInv, NEW t \in Transport, IngestStep(t)
    PROVE  RowsTimely
<1>0. RowType /\ HandlersHaveCommand  BY DEF IInv, RowInv, RestInv
<1>1. UNCHANGED <<claims, late, old>>
  BY DEF IngestStep, IngestLookup, IngestFinalize, IngestPark
<1>2. CASE row' = row  BY <1>1, <1>2, TimelyKept
<1>3. ASSUME ingest[t].cmd \in Command, NEW s \in {"completed", "failed"}, NEW m,
             row' = [row EXCEPT ![ingest[t].cmd] = Terminal(ingest[t].cmd, s, m)]
      PROVE  RowsTimely
  BY <1>0, <1>1, <1>3, TimelyClosed
<1>4. ingest[t].pc # "idle" => ingest[t].cmd \in Command  BY <1>0 DEF HandlersHaveCommand
<1>5. CASE IngestFinalize(t)  BY <1>2, <1>3, <1>4, <1>5 DEF IngestFinalize
<1>6. CASE IngestPark(t)  BY <1>2, <1>3, <1>4, <1>6 DEF IngestPark
<1>7. QED  BY <1>2, <1>5, <1>6 DEF IngestStep, IngestLookup

\* The batch writers; the rows of a heartbeat are pending until its commit.
LEMMA BatchStepTimely ==
    ASSUME IInv, HbScan \/ HbCommit \/ HbRollback \/ ReapScan \/ ReapCommit
                 \/ ReapRollback \/ Sweep
    PROVE  RowsTimely
<1>1. CASE UNCHANGED <<row, claims, late, old>>  BY <1>1, TimelyKept
<1>2. CASE HbCommit
  <2>1. PICK cancelled \in SUBSET hb.rows, claimable \in SUBSET hb.rows :
           \E outcome \in [claimable -> Preparation] : Committed(cancelled, claimable, outcome)
    BY <1>2, HbCommitWrites, BarrierWithin
  <2>2. PICK outcome \in [claimable -> Preparation] : Committed(cancelled, claimable, outcome)
    BY <2>1
  <2>3. old' = old  BY <1>2 DEF HbCommit
  <2>4. \A c \in hb.rows : row[c].status = "pending"
    BY DEF IInv, RowInv, HeartbeatRowsPending
  <2>5. ASSUME NEW c \in Command PROVE Timely(c)
    <3>1. CASE c \in claimable /\ outcome[c] = "deliver"
      <4>1. row'[c] = Claimed(c) /\ claims'[c] = claims[c] + 1
        BY <2>2, <3>1 DEF Committed, Prepared
      <4>2. QED  BY <2>3, <2>4, <3>1, <4>1 DEF Timely, Claimed
    <3>2. CASE ~(c \in claimable /\ outcome[c] = "deliver")
      <4>1. claims'[c] = claims[c] /\ (c \in late => c \in late')  BY <2>2, <3>2 DEF Committed
      <4>2. \/ row'[c] = row[c]
            \/ /\ c \in hb.rows
               /\ row'[c] \in {Released(c, "deferred"), Refused(c),
                               Terminal(c, "failed", "withheld"),
                               Terminal(c, "cancelled", "cancelled")}
        BY <2>2, <3>2 DEF Committed, Preparation, Prepared
      <4>3. QED
        BY <2>3, <2>4, <4>1, <4>2 DEF Timely, Released, Refused, Terminal
    <3>3. QED  BY <3>1, <3>2
  <2>6. QED  BY <2>5 DEF RowsTimely
<1>3. CASE ReapCommit
  BY <1>3 DEF ReapCommit, Terminal, RowsTimely, Timely
<1>4. CASE Sweep  BY <1>4 DEF Sweep, Terminal, RowsTimely, Timely
<1>5. QED
  BY <1>1, <1>2, <1>3, <1>4 DEF HbScan, HbRollback, ReapScan, ReapRollback

\* Every step treats every row as Timely says.
LEMMA StepTimely ==
    ASSUME IInv, [Next]_vars
    PROVE  RowsTimely
<1>1. ASSUME NEW c \in Command, NEW via \in {"ws", "http"}, AgentStep(c, via)
      PROVE  RowsTimely
  BY <1>1, TimelyKept DEF AgentStep, Deliver, AgentRefuse
<1>2. CASE UNCHANGED vars  BY <1>2, TimelyKept DEF vars
<1>3. QED  BY <1>1, <1>2, CommandStepTimely, IngestStepTimely, BatchStepTimely DEF Next

\* A row goes from sent back to pending only through the request that made this
\* very claim, however many claims and releases of the row there are.
THEOREM ReleaseOnlyOwnClaimHolds == Spec => ReleaseOnlyOwnClaim
<1>1. ASSUME IInv, [Next]_vars
      PROVE  \A c \in Command :
                row[c].status = "sent" /\ row'[c].status = "pending"
                => push[c].claimedAt = row[c].executedAt
  BY <1>1, StepTimely DEF RowsTimely, Timely
<1>2. QED  BY <1>1, Invariance, PTL DEF Spec, ReleaseOnlyOwnClaim

-----------------------------------------------------------------------------
(* The reaper's observation stays good while the row is as observed *)

\* A claim is stamped with the count of claims.
SentAtClaim == \A c \in Command : row[c].status = "sent" => row[c].executedAt = claims[c]

\* The clocks that made a row due when the scan saw it are still over, unless the
\* row was claimed anew, which its stamp shows.
Overdue(c) ==
    /\ row[c].status # "absent"
    /\ reap[c].status = "sent" => /\ reap[c].executedAt <= claims[c]
                                  /\ reap[c].executedAt = claims[c] => c \in late
    /\ reap[c].status = "pending" => \/ AfterDeadline(c)
                                     \/ row[c].deliverBy = "none" /\ c \in old
ObservedOverdue == \A c \in Command : reap[c].pc # "idle" => Overdue(c)

\* The row lock keeps a row as the scan saw it.
LockedAsObserved == \A c \in Reaped : ObservedGuard(c)

DueInv == SentAtClaim /\ ObservedOverdue /\ LockedAsObserved

\* A row that is still as observed is due on the clock it was observed on.
LEMMA DueWhenObserved ==
    ASSUME IInv, DueInv
    PROVE  ReapsOnlyDueRows
<1> SUFFICES ASSUME NEW c \in Reaped PROVE Due(c)
  BY DEF ReapsOnlyDueRows
<1>1. c \in Command /\ reap[c].pc # "idle"  BY DEF Reaped
<1>2. Overdue(c) /\ ObservedGuard(c) /\ reap[c].status \in {"pending", "sent"}
  BY <1>1 DEF DueInv, ObservedOverdue, LockedAsObserved, IInv, RestInv, ObservedRowsWereOpen
<1>3. row[c].status = "sent" => row[c].executedAt = claims[c]
  BY <1>1 DEF DueInv, SentAtClaim
<1>4. QED  BY <1>2, <1>3 DEF Overdue, ObservedGuard, Due

\* What a step may do to the reaper's observation of a row.
Watches(c) ==
    \/ reap'[c].pc = "idle"
    \/ /\ reap'[c] = reap[c]
       /\ c \in Reaped => /\ row'[c].status = row[c].status
                          /\ row'[c].executedAt = row[c].executedAt
    \/ /\ Due(c)
       /\ reap'[c] = [pc |-> "observed", status |-> row[c].status,
                      executedAt |-> row[c].executedAt]
       /\ UNCHANGED <<row, claims, late, old>>
    \/ /\ reap[c].pc # "idle"
       /\ ObservedGuard(c)
       /\ reap'[c] = [reap[c] EXCEPT !.pc = "locked"]
       /\ UNCHANGED <<row, claims, late, old>>

\* A step that writes only rows nobody has locked.
LEMMA WatchesUnlocked ==
    ASSUME UNCHANGED reap, NEW c \in Command, c \in Reaped => row'[c] = row[c]
    PROVE  Watches(c)
  BY DEF Watches

\* A writer of one row waits for its lock.
LEMMA CommandStepWatches ==
    ASSUME IInv, NEW d \in Command, NEW c \in Command,
           \/ Enqueue(d) \/ PushStep(d) \/ WaitResult(d) \/ Forget(d) \/ ReapLock(d)
           \/ ReapExecution(d) \/ CancelPending(d) \/ Tick(d)
    PROVE  Watches(c)
<1>0. RowType /\ RestType  BY DEF IInv, RowInv, RestInv
<1>1. CASE ReapLock(d)
  <2>1. CASE c # d  BY <1>0, <1>1, <2>1 DEF ReapLock, RestType, Watches
  <2>2. CASE c = d
    <3>1. reap'[c] = IF ObservedGuard(c) THEN [reap[c] EXCEPT !.pc = "locked"] ELSE NotObserved
      BY <1>0, <1>1, <2>2 DEF ReapLock, RestType
    <3>2. QED  BY <1>1, <2>2, <3>1 DEF ReapLock, NotObserved, Watches
  <2>3. QED  BY <2>1, <2>2
<1>2. CASE UNCHANGED <<row, reap>>  BY <1>2, WatchesUnlocked
<1>3. CASE AgeDelivery(d)
  <2>1. row'[c].status = row[c].status /\ row'[c].executedAt = row[c].executedAt
    BY <1>0, <1>3 DEF AgeDelivery, RowType
  <2>2. QED  BY <1>3, <2>1 DEF AgeDelivery, Watches
<1>4. ASSUME UNCHANGED reap, d \notin Reaped, NEW r, row' = [row EXCEPT ![d] = r]
      PROVE  Watches(c)
  BY <1>0, <1>4, WatchesUnlocked DEF RowType
<1>5. CASE Enqueue(d)
  <2>1. d \notin Reaped  BY <1>5 DEF Enqueue, IInv, RowInv, ReapedRowsOpen, Open
  <2>2. QED  BY <1>4, <1>5, <2>1 DEF Enqueue
<1>6. d \notin Locked => d \notin Reaped  BY DEF Locked, Reaped
<1>7. CASE PushClaim(d)  BY <1>2, <1>4, <1>6, <1>7 DEF PushClaim
<1>8. CASE PushDeliver(d)  BY <1>2, <1>4, <1>6, <1>8 DEF PushDeliver, WriteIfHeld
<1>9. CASE PushRelease(d)  BY <1>2, <1>4, <1>6, <1>9 DEF PushRelease, WriteIfHeld
<1>10. CASE WaitResult(d)  BY <1>2, <1>4, <1>6, <1>10 DEF WaitResult
<1>11. CASE CancelPending(d)  BY <1>4, <1>6, <1>11 DEF CancelPending
<1>12. QED
  BY <1>1, <1>2, <1>3, <1>5, <1>7, <1>8, <1>9, <1>10, <1>11
     DEF PushStep, PushPowerCheck, Forget, ReapExecution, Tick, AgeExecution, AgeCreated

\* So do the result handlers.
LEMMA IngestStepWatches ==
    ASSUME IInv, NEW t \in Transport, NEW c \in Command, IngestStep(t)
    PROVE  Watches(c)
<1>0. RowType  BY DEF IInv, RowInv
<1>1. UNCHANGED reap  BY DEF IngestStep, IngestLookup, IngestFinalize, IngestPark
<1>2. CASE row' = row  BY <1>1, <1>2, WatchesUnlocked
<1>3. CASE row' # row
  <2>1. ingest[t].cmd \notin Locked /\ \E r : row' = [row EXCEPT ![ingest[t].cmd] = r]
    BY <1>3 DEF IngestStep, IngestLookup, IngestFinalize, IngestPark
  <2>2. c \in Reaped => row'[c] = row[c]  BY <1>0, <2>1 DEF RowType, Locked, Reaped
  <2>3. QED  BY <1>1, <2>2, WatchesUnlocked
<1>4. QED  BY <1>2, <1>3

\* A heartbeat writes the rows it locked itself, and a sweep waits for all locks.
LEMMA BatchStepWatches ==
    ASSUME IInv, NEW c \in Command,
           HbScan \/ HbCommit \/ HbRollback \/ ReapScan \/ ReapCommit \/ ReapRollback \/ Sweep
    PROVE  Watches(c)
<1>1. CASE HbScan \/ HbRollback  BY <1>1, WatchesUnlocked DEF HbScan, HbRollback
<1>2. CASE HbCommit
  <2>1. c \notin hb.rows => row'[c] = row[c]  BY <1>2 DEF HbCommit, Barrier
  <2>2. QED  BY <1>2, <2>1, WatchesUnlocked DEF HbCommit, IInv, RestInv, LocksDisjoint
<1>3. CASE ReapScan  BY <1>3 DEF ReapScan, NotObserved, Watches
<1>4. CASE ReapCommit \/ ReapRollback
  BY <1>4 DEF ReapCommit, ReapRollback, NotObserved, Watches
<1>5. CASE Sweep
  BY <1>5, WatchesUnlocked DEF Sweep, Locked, Reaped
<1>6. QED  BY <1>1, <1>2, <1>3, <1>4, <1>5

\* Every step treats every observation as Watches says.
LEMMA StepWatches ==
    ASSUME IInv, [Next]_vars, NEW c \in Command
    PROVE  Watches(c)
<1>1. ASSUME NEW d \in Command, NEW via \in {"ws", "http"}, AgentStep(d, via)
      PROVE  Watches(c)
  BY <1>1, WatchesUnlocked DEF AgentStep, Deliver, AgentRefuse
<1>2. CASE UNCHANGED vars  BY <1>2, WatchesUnlocked DEF vars
<1>3. QED  BY <1>1, <1>2, CommandStepWatches, IngestStepWatches, BatchStepWatches DEF Next

\* No step breaks what the reaper relies on.
LEMMA DueKept ==
    ASSUME IInv, IInv', DueInv, [Next]_vars
    PROVE  DueInv'
<1>1. \A c \in Command : Timely(c) /\ Watches(c)  BY StepTimely, StepWatches DEF RowsTimely
<1>2. \A c \in Command :
         /\ claims[c] \in Nat /\ claims'[c] \in Nat
         /\ reap[c] \in [pc : ReapPc, status : Status, executedAt : Nat]
         /\ row[c].executedAt \in Nat
  BY DEF IInv, RowInv, RowType, Row, RestInv, RestType
<1>3. SentAtClaim'
  BY <1>1 DEF DueInv, SentAtClaim, Timely
<1>4. ASSUME NEW c \in Command, reap'[c].pc # "idle"
      PROVE  Overdue(c)'
  <2>0. /\ claims[c] \in Nat /\ claims'[c] \in Nat
        /\ Timely(c) /\ Watches(c)
        /\ row[c].status = "sent" => row[c].executedAt = claims[c]
        /\ reap[c].pc # "idle" => Overdue(c)
    BY <1>1, <1>2 DEF DueInv, SentAtClaim, ObservedOverdue
  <2>1. CASE Due(c) /\ reap'[c] = [pc |-> "observed", status |-> row[c].status,
                                   executedAt |-> row[c].executedAt]
             /\ UNCHANGED <<row, claims, late, old>>
    BY <2>0, <2>1 DEF Due, Overdue, AfterDeadline
  <2>2. CASE reap[c].pc # "idle" /\ reap'[c].status = reap[c].status
             /\ reap'[c].executedAt = reap[c].executedAt
    <3>1. row[c].status # "absent" /\ row'[c].status # "absent"
      BY <2>0, <2>2 DEF Overdue, Timely
    <3>2. CASE reap[c].status = "sent"
      <4>1. reap[c].executedAt \in Nat  BY <1>2
      <4>2. reap[c].executedAt <= claims[c] /\ (reap[c].executedAt = claims[c] => c \in late)
        BY <2>0, <2>2, <3>2 DEF Overdue
      <4>3. \/ claims'[c] = claims[c] /\ (c \in late => c \in late')
            \/ claims'[c] = claims[c] + 1
        BY <2>0 DEF Timely
      <4>4. reap[c].executedAt <= claims'[c] /\ (reap[c].executedAt = claims'[c] => c \in late')
        BY <2>0, <4>1, <4>2, <4>3
      <4>5. QED  BY <2>2, <3>1, <3>2, <4>4 DEF Overdue
    <3>3. CASE reap[c].status # "sent"
      BY <2>0, <2>2, <3>1, <3>3 DEF Overdue, Timely, AfterDeadline
    <3>4. QED  BY <3>2, <3>3
  <2>3. QED  BY <1>2, <1>4, <2>0, <2>1, <2>2 DEF Watches
<1>5. ASSUME NEW c \in Command, reap'[c].pc = "locked"
      PROVE  ObservedGuard(c)'
  <2>1. Watches(c)  BY <1>1
  <2>2. CASE reap'[c] = reap[c]
    <3>1. c \in Reaped  BY <1>5, <2>2 DEF Reaped
    <3>2. row'[c].status = row[c].status /\ row'[c].executedAt = row[c].executedAt
      BY <1>5, <2>1, <2>2, <3>1 DEF Watches
    <3>3. QED  BY <2>2, <3>1, <3>2 DEF DueInv, LockedAsObserved, ObservedGuard
  <2>3. CASE ObservedGuard(c) /\ reap'[c] = [reap[c] EXCEPT !.pc = "locked"] /\ row' = row
    BY <1>2, <2>3 DEF ObservedGuard
  <2>4. QED  BY <1>5, <2>1, <2>2, <2>3 DEF Watches
<1>6. QED
  BY <1>3, <1>4, <1>5 DEF DueInv, ObservedOverdue, LockedAsObserved, Reaped

\* What the reaper fails is still due on its own clock, also when the row was
\* claimed, released or claimed again between its scan and its update: the guard on
\* the observed status and claim timestamp is enough.
THEOREM ReapsOnlyDueRowsHolds == Spec => []ReapsOnlyDueRows
<1>1. Init => DueInv
  BY DEF Init, NoRow, NotObserved, DueInv, SentAtClaim, ObservedOverdue, LockedAsObserved, Reaped
<1>2. IInv /\ IInv' /\ DueInv /\ [Next]_vars => DueInv'  BY DueKept
<1>3. IInv /\ DueInv => ReapsOnlyDueRows  BY DueWhenObserved
<1>4. QED  BY <1>1, <1>2, <1>3, Invariance, PTL DEF Spec

-----------------------------------------------------------------------------
(* The power-state barrier *)

\* What the barrier lets through holds a power command alone or not at all.
LEMMA BarrierSeparates ==
    ASSUME NEW S, NEW f, NEW q \in Barrier(S, f), NEW p \in q \cap Power
    PROVE  q = {p}
  BY DEF Barrier

\* One claim never hands out a power command together with another command,
\* whatever passed the eligibility checks of the batch.
THEOREM PowerAloneInBatchHolds == Spec => PowerAloneInBatch
<1>1. ASSUME IInv, [Next]_vars
      PROVE  \A p \in Power, c \in Command :
                /\ p # c
                /\ row[p].status = "pending"
                /\ row[c].status = "pending"
                /\ row'[p].status = "sent"
                => row'[c].status # "sent"
  <2> SUFFICES ASSUME NEW p \in Power, NEW c \in Command, p # c,
                      row[p].status = "pending", row[c].status = "pending",
                      row'[p].status = "sent", row'[c].status = "sent"
               PROVE  FALSE
    OBVIOUS
  <2>0. p \in Command /\ RowType /\ RestType
    BY <1>1, CommandAssumption DEF IInv, RowInv, RestInv
  <2>1. claims' # claims
    <3>1. claims'[p] = claims[p] + 1 /\ claims[p] \in Nat
      BY <1>1, <2>0, StepTimely DEF RowsTimely, Timely, RestType
    <3>2. QED  BY <3>1
  <2>2. ASSUME NEW d \in Command, PushClaim(d) PROVE FALSE
    <3>1. PICK r : row' = [row EXCEPT ![d] = r] \/ row' = row  BY <2>2 DEF PushClaim
    <3>2. QED  BY <2>0, <3>1 DEF RowType
  <2>3. ASSUME HbCommit PROVE FALSE
    <3>1. PICK cancelled \in SUBSET hb.rows, passed \in SUBSET hb.rows :
             \E claimable \in Barrier(passed, hb.inFlight) :
             \E outcome \in [claimable -> Preparation] : Committed(cancelled, claimable, outcome)
      BY <2>3, HbCommitWrites
    <3>2. PICK claimable \in Barrier(passed, hb.inFlight) :
             \E outcome \in [claimable -> Preparation] : Committed(cancelled, claimable, outcome)
      BY <3>1
    <3>3. p \in claimable /\ c \in claimable  BY <2>0, <3>2 DEF Committed, Terminal
    <3>4. claimable = {p}  BY <3>3, BarrierSeparates
    <3>5. QED  BY <3>3, <3>4
  <2>4. ASSUME NEW d \in Command,
               \/ Enqueue(d) \/ PushPowerCheck(d) \/ PushDeliver(d) \/ PushRelease(d)
               \/ WaitResult(d) \/ Forget(d) \/ ReapLock(d)
               \/ ReapExecution(d) \/ CancelPending(d) \/ Tick(d)
        PROVE  FALSE
    BY <2>1, <2>4 DEF Enqueue, PushPowerCheck, PushDeliver, PushRelease, WaitResult, Forget,
       ReapLock, ReapExecution, CancelPending, Tick, AgeDelivery, AgeExecution, AgeCreated
  <2>5. ASSUME NEW d \in Command, NEW via \in {"ws", "http"}, AgentStep(d, via) PROVE FALSE
    BY <2>1, <2>5 DEF AgentStep, Deliver, AgentRefuse
  <2>6. ASSUME NEW t \in Transport, IngestStep(t) PROVE FALSE
    BY <2>1, <2>6 DEF IngestStep, IngestLookup, IngestFinalize, IngestPark
  <2>7. CASE HbScan \/ HbRollback \/ ReapScan \/ ReapCommit \/ ReapRollback \/ Sweep
    BY <2>1, <2>7 DEF HbScan, HbRollback, ReapScan, ReapCommit, ReapRollback, Sweep
  <2>8. CASE UNCHANGED vars  BY <2>1, <2>8 DEF vars
  <2>9. QED
    BY <1>1, <2>2, <2>3, <2>4, <2>5, <2>6, <2>7, <2>8 DEF Next, PushStep
<1>2. QED  BY <1>1, Invariance, PTL DEF Spec, PowerAloneInBatch

-----------------------------------------------------------------------------
(* The script execution follows its command *)

\* An execution is cancelled only with its command, which then takes no result.
OwnerInv ==
    \A c \in Script :
        /\ owner[c] # "none"
        /\ owner[c] = "cancelled" => row[c].status = "cancelled"
        /\ owner[c] = "agent" <=> row[c].mark = "agent"

\* What a step that records no result may do to the execution.
Closes(c) ==
    \/ owner'[c] = owner[c]
    \/ owner[c] \in {"open", "running"} /\ owner'[c] \in {"running", "server"}
    \/ /\ owner[c] \in {"open", "running"}
       /\ owner'[c] = "cancelled"
       /\ row'[c].status = "cancelled"

\* Push, heartbeat, cancel and the reapers close an open execution or leave it.
LEMMA StepCloses ==
    ASSUME IInv, [Next]_vars, NEW c \in Command, UNCHANGED recorded
    PROVE  Closes(c)
<1>0. RowType /\ RestType  BY DEF IInv, RowInv, RestInv
<1>1. CASE UNCHANGED owner  BY <1>1 DEF Closes
<1>2. ASSUME NEW d \in Command, PushDeliver(d) PROVE Closes(c)
  BY <1>0, <1>2 DEF PushDeliver, RestType, Closes
<1>3. ASSUME NEW d \in Command, CancelPending(d) PROVE Closes(c)
  BY <1>0, <1>3 DEF CancelPending, Close, Terminal, RowType, RestType, Closes
<1>4. ASSUME NEW d \in Command, ReapExecution(d) PROVE Closes(c)
  BY <1>0, <1>4 DEF ReapExecution, RestType, Closes
<1>5. CASE ReapCommit  BY <1>5 DEF ReapCommit, Close, Closes
<1>6. CASE HbCommit
  <2>1. PICK cancelled \in SUBSET hb.rows, passed \in SUBSET hb.rows :
           /\ passed \cap cancelled = {}
           /\ \E claimable \in Barrier(passed, hb.inFlight) :
              \E outcome \in [claimable -> Preparation] :
                 Committed(cancelled, claimable, outcome)
    BY <1>6, HbCommitWrites
  <2>2. PICK claimable \in Barrier(passed, hb.inFlight) :
           \E outcome \in [claimable -> Preparation] : Committed(cancelled, claimable, outcome)
    BY <2>1
  <2>3. c \in cancelled => c \notin claimable  BY <2>1, <2>2, BarrierWithin
  <2>4. CASE c \in cancelled
    <3>1. row'[c] = Terminal(c, "cancelled", "cancelled") /\ owner'[c] = Close(c, "cancelled")
      BY <2>2, <2>3, <2>4 DEF Committed
    <3>2. QED  BY <3>1 DEF Terminal, Close, Closes
  <2>5. CASE c \notin cancelled
    <3>1. owner'[c] = Close(c, "server") \/ owner'[c] = owner[c]  BY <2>2, <2>5 DEF Committed
    <3>2. QED  BY <3>1 DEF Close, Closes
  <2>6. QED  BY <2>4, <2>5
<1>7. ASSUME NEW t \in Transport, IngestStep(t) PROVE UNCHANGED owner
  <2>1. recorded' = [recorded EXCEPT ![ingest[t].cmd] = @ + 1] => ingest[t].cmd \notin Command
    BY <1>0 DEF RestType
  <2>2. ingest[t].pc # "idle" => ingest[t].cmd \in Command
    BY DEF IInv, RestInv, HandlersHaveCommand
  <2>3. QED  BY <1>7, <2>1, <2>2 DEF IngestStep, IngestLookup, IngestFinalize, IngestPark
<1>8. ASSUME NEW d \in Command,
             \/ Enqueue(d) \/ PushPowerCheck(d) \/ PushClaim(d) \/ PushRelease(d)
             \/ WaitResult(d) \/ Forget(d) \/ ReapLock(d) \/ Tick(d)
      PROVE  UNCHANGED owner
  BY <1>8 DEF Enqueue, PushPowerCheck, PushClaim, PushRelease, WaitResult, Forget, ReapLock,
     Tick, AgeDelivery, AgeExecution, AgeCreated
<1>9. ASSUME NEW d \in Command, NEW via \in {"ws", "http"}, AgentStep(d, via)
      PROVE  UNCHANGED owner
  BY <1>9 DEF AgentStep, Deliver, AgentRefuse
<1>10. HbScan \/ HbRollback \/ ReapScan \/ ReapRollback \/ Sweep \/ UNCHANGED vars
       => UNCHANGED owner
  BY DEF HbScan, HbRollback, ReapScan, ReapRollback, Sweep, vars
<1>11. QED
  BY <1>1, <1>2, <1>3, <1>4, <1>5, <1>6, <1>7, <1>8, <1>9, <1>10 DEF Next, PushStep

\* A step that records results is the end of one handler, and hands the result to
\* the execution in the same transaction.
LEMMA RecordsWithOwner ==
    ASSUME IInv, [Next]_vars, recorded' # recorded
    PROVE  \E d \in Command, s \in {"completed", "failed"} :
              /\ AcceptsResult(d)
              /\ row' = [row EXCEPT ![d] = Terminal(d, s, "agent")]
              /\ owner' = OwnerWithResult(d)
<1>1. ASSUME NEW t \in Transport, IngestStep(t)
      PROVE  \E d \in Command, s \in {"completed", "failed"} :
                /\ AcceptsResult(d)
                /\ row' = [row EXCEPT ![d] = Terminal(d, s, "agent")]
                /\ owner' = OwnerWithResult(d)
  <2>1. ingest[t].pc # "idle" => ingest[t].cmd \in Command
    BY DEF IInv, RestInv, HandlersHaveCommand
  <2>2. QED  BY <1>1, <2>1 DEF IngestStep, IngestLookup, IngestFinalize, IngestPark
<1>2. ASSUME NEW d \in Command,
             \/ Enqueue(d) \/ PushStep(d) \/ WaitResult(d) \/ Forget(d) \/ ReapLock(d)
             \/ ReapExecution(d) \/ CancelPending(d) \/ Tick(d)
      PROVE  UNCHANGED recorded
  BY <1>2 DEF Enqueue, PushStep, PushPowerCheck, PushClaim, PushDeliver, PushRelease, WaitResult,
     Forget, ReapLock, ReapExecution, CancelPending, Tick, AgeDelivery, AgeExecution, AgeCreated
<1>3. ASSUME NEW d \in Command, NEW via \in {"ws", "http"}, AgentStep(d, via)
      PROVE  UNCHANGED recorded
  BY <1>3 DEF AgentStep, Deliver, AgentRefuse
<1>4. HbScan \/ HbCommit \/ HbRollback \/ ReapScan \/ ReapCommit \/ ReapRollback \/ Sweep
      \/ UNCHANGED vars => UNCHANGED recorded
  BY DEF HbScan, HbCommit, HbRollback, ReapScan, ReapCommit, ReapRollback, Sweep, vars
<1>5. QED  BY <1>1, <1>2, <1>3, <1>4 DEF Next

\* No step separates the execution from its command.
LEMMA OwnerKept ==
    ASSUME IInv, IInv', OwnerInv, [Next]_vars
    PROVE  OwnerInv'
<1> SUFFICES ASSUME NEW c \in Script
             PROVE  /\ owner'[c] # "none"
                    /\ owner'[c] = "cancelled" => row'[c].status = "cancelled"
                    /\ owner'[c] = "agent" <=> row'[c].mark = "agent"
  BY DEF OwnerInv
<1>0. c \in Command /\ RowType /\ RestType
  BY CommandAssumption DEF IInv, RowInv, RestInv
<1>1. /\ owner[c] # "none"
      /\ owner[c] = "cancelled" => row[c].status = "cancelled"
      /\ owner[c] = "agent" <=> row[c].mark = "agent"
  BY DEF OwnerInv
<1>2. row[c].status = "cancelled" \/ row[c].mark = "agent" => row'[c] = row[c]
  <2>1. Moves(c)  BY <1>0, StepMoves DEF RowsMove
  <2>2. row[c].mark = "agent" => row[c].status \in {"completed", "failed"}
    BY <1>0 DEF IInv, RowInv, AgentRowsClosed
  <2>3. QED  BY <2>1, <2>2 DEF Moves, AcceptsResult, Open
<1>3. CASE UNCHANGED recorded
  <2>1. row'[c].mark = "agent" <=> row[c].mark = "agent"
    BY <1>0, <1>3 DEF IInv, RowInv, RecordedExactlyOnce
  <2>2. Closes(c)  BY <1>0, <1>3, StepCloses
  <2>3. QED  BY <1>1, <1>2, <2>1, <2>2 DEF Closes
<1>4. CASE recorded' # recorded
  <2>1. PICK d \in Command, s \in {"completed", "failed"} :
           /\ AcceptsResult(d)
           /\ row' = [row EXCEPT ![d] = Terminal(d, s, "agent")]
           /\ owner' = OwnerWithResult(d)
    BY <1>4, RecordsWithOwner
  <2>2. CASE c # d  BY <1>0, <1>1, <2>1, <2>2 DEF RowType, RestType, OwnerWithResult
  <2>3. CASE c = d
    <3>1. row'[c].mark = "agent"  BY <1>0, <2>1, <2>3 DEF RowType, Terminal
    <3>2. owner[c] \in {"open", "running", "server", "agent"}
      BY <1>0, <1>1, <2>1, <2>3 DEF AcceptsResult, Open, RestType, Owner
    <3>3. owner'[c] = "agent"  BY <1>0, <2>1, <2>3, <3>2 DEF OwnerWithResult, RestType
    <3>4. QED  BY <3>1, <3>3
  <2>4. QED  BY <2>2, <2>3
<1>5. QED  BY <1>3, <1>4

\* A script execution shows the agent's output exactly when its command row does,
\* in whatever order wait deadline, reapers, cancels and secret withholding close
\* the two and late results arrive.
THEOREM OwnerFollowsResultHolds == Spec => []OwnerFollowsResult
<1>1. Init => OwnerInv
  BY CommandAssumption DEF Init, NoRow, OwnerInv
<1>2. IInv /\ IInv' /\ OwnerInv /\ [Next]_vars => OwnerInv'  BY OwnerKept
<1>3. OwnerInv => OwnerFollowsResult  BY DEF OwnerInv, OwnerFollowsResult
<1>4. QED  BY <1>1, <1>2, <1>3, Invariance, PTL DEF Spec

-----------------------------------------------------------------------------
(* The agent's memory of command ids *)

\* A run is paid for by the id being remembered or by a time it was forgotten.
RunsPaid == \A c \in Command : runs[c] <= forgets[c] + (IF c \in seen THEN 1 ELSE 0)

\* A command claimed again after a release, or delivered on both channels, runs at
\* most once for each time the agent forgot its id, and once more.
THEOREM ExecutedOncePerLifeHolds == Spec => []ExecutedOncePerLife
<1>1. Init => RunsPaid  BY DEF Init, RunsPaid
<1>2. ASSUME IInv, RunsPaid, [Next]_vars PROVE RunsPaid'
  <2>0. /\ runs \in [Command -> Nat] /\ forgets \in [Command -> Nat]
        /\ \A c \in Command : runs[c] <= forgets[c] + (IF c \in seen THEN 1 ELSE 0)
    BY <1>2 DEF IInv, RestInv, RestType, RunsPaid
  <2>1. CASE UNCHANGED <<seen, forgets, runs>>  BY <1>2, <2>1 DEF RunsPaid
  <2>2. ASSUME NEW d \in Command, NEW via \in {"ws", "http"}, Deliver(d, via)
        PROVE  RunsPaid'
    <3>1. CASE d \in seen  BY <2>0, <2>2, <3>1 DEF Deliver, RunsPaid
    <3>2. CASE d \notin seen
      <4>1. /\ seen' = seen \cup {d} /\ forgets' = forgets
            /\ runs' = [runs EXCEPT ![d] = @ + 1]
        BY <2>2, <3>2 DEF Deliver
      <4>2. ASSUME NEW c \in Command
            PROVE  runs'[c] <= forgets'[c] + (IF c \in seen' THEN 1 ELSE 0)
        BY <2>0, <3>2, <4>1
      <4>3. QED  BY <4>2 DEF RunsPaid
    <3>3. QED  BY <3>1, <3>2
  <2>3. ASSUME NEW d \in Command, Forget(d) PROVE RunsPaid'
    <3>1. /\ d \in seen /\ seen' = seen \ {d} /\ runs' = runs
          /\ forgets' = [forgets EXCEPT ![d] = @ + 1]
      BY <2>3 DEF Forget
    <3>2. ASSUME NEW c \in Command
          PROVE  runs'[c] <= forgets'[c] + (IF c \in seen' THEN 1 ELSE 0)
      BY <2>0, <3>1
    <3>3. QED  BY <3>2 DEF RunsPaid
  <2>4. ASSUME NEW d \in Command,
               \/ Enqueue(d) \/ PushStep(d) \/ WaitResult(d) \/ ReapLock(d)
               \/ ReapExecution(d) \/ CancelPending(d) \/ Tick(d)
        PROVE  UNCHANGED <<seen, forgets, runs>>
    BY <2>4 DEF Enqueue, PushStep, PushPowerCheck, PushClaim, PushDeliver, PushRelease,
       WaitResult, ReapLock, ReapExecution, CancelPending, Tick, AgeDelivery, AgeExecution,
       AgeCreated
  <2>5. ASSUME NEW d \in Command, NEW via \in {"ws", "http"}, AgentRefuse(d, via)
        PROVE  UNCHANGED <<seen, forgets, runs>>
    BY <2>5 DEF AgentRefuse
  <2>6. ASSUME NEW t \in Transport, IngestStep(t)
        PROVE  UNCHANGED <<seen, forgets, runs>>
    BY <2>6 DEF IngestStep, IngestLookup, IngestFinalize, IngestPark
  <2>7. HbScan \/ HbCommit \/ HbRollback \/ ReapScan \/ ReapCommit \/ ReapRollback \/ Sweep
        \/ UNCHANGED vars => UNCHANGED <<seen, forgets, runs>>
    BY DEF HbScan, HbCommit, HbRollback, ReapScan, ReapCommit, ReapRollback, Sweep, vars
  <2>8. QED
    BY <1>2, <2>1, <2>2, <2>3, <2>4, <2>5, <2>6, <2>7 DEF Next, AgentStep
<1>3. IInv /\ RunsPaid => ExecutedOncePerLife
  BY DEF IInv, RestInv, RestType, RunsPaid, ExecutedOncePerLife
<1>4. QED  BY <1>1, <1>2, <1>3, Invariance, PTL DEF Spec

=============================================================================
