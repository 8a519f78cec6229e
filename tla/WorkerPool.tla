----------------------------- MODULE WorkerPool -----------------------------
(***************************************************************************)
(* The agent's bounded goroutine pool, agent/internal/workerpool/pool.go.  *)
(*                                                                         *)
(* Every command the agent executes goes through Submit.  Submit is not    *)
(* atomic: it loads the accepting flag, adds to the wait group and then    *)
(* offers the task to the buffered channel, and StopAccepting and Drain    *)
(* run on another goroutine in between.  Each of these steps is an action. *)
(*                                                                         *)
(* A submitter stands for the goroutine that calls Submit once, and its    *)
(* name is also the name of its task.                                      *)
(***************************************************************************)
EXTENDS Naturals, Sequences, FiniteSets

CONSTANTS
    Worker,      \* the goroutines started by New (maxWorkers of them)
    Submitter,   \* callers of Submit, one task each
    Drainer,     \* callers of Shutdown / Drain
    QueueSize,   \* capacity of the task channel
    NoTask       \* what an idle worker holds

ASSUME QueueSizeAssumption == QueueSize \in Nat \ {0}
ASSUME WorkerAssumption == Worker # {}
ASSUME NoTaskAssumption == NoTask \notin Submitter

VARIABLES
    accepting,   \* Pool.accepting
    stopped,     \* stopChan has been closed
    queue,       \* contents of the task channel
    closed,      \* the task channel has been closed
    wg,          \* counter of the wait group
    cancelled,   \* the pool-wide context has been cancelled
    submit,      \* program counter of each caller of Submit
    drain,       \* program counter of each caller of Shutdown
    worker,      \* program counter of each worker goroutine
    task,        \* the task a running worker holds
    finished     \* tasks that ran to their end (or panicked and were recovered)

vars == <<accepting, stopped, queue, closed, wg, cancelled,
          submit, drain, worker, task, finished>>

SubmitPc == {"idle", "checked", "added", "accepted", "rejected", "panicked"}
DrainPc  == {"idle", "stopped", "waiting", "drained", "timedout", "returned"}
WorkerPc == {"select", "running", "draining", "runningDrain", "exited"}

TypeOK ==
    /\ accepting \in BOOLEAN
    /\ stopped \in BOOLEAN
    /\ queue \in Seq(Submitter)
    /\ closed \in BOOLEAN
    /\ wg \in Nat
    /\ cancelled \in BOOLEAN
    /\ submit \in [Submitter -> SubmitPc]
    /\ drain \in [Drainer -> DrainPc]
    /\ worker \in [Worker -> WorkerPc]
    /\ task \in [Worker -> Submitter \cup {NoTask}]
    /\ finished \subseteq Submitter

\* New: the channel is empty, the pool accepts, every worker is in its select.
Init ==
    /\ accepting = TRUE
    /\ stopped = FALSE
    /\ queue = <<>>
    /\ closed = FALSE
    /\ wg = 0
    /\ cancelled = FALSE
    /\ submit = [s \in Submitter |-> "idle"]
    /\ drain = [d \in Drainer |-> "idle"]
    /\ worker = [w \in Worker |-> "select"]
    /\ task = [w \in Worker |-> NoTask]
    /\ finished = {}

-----------------------------------------------------------------------------
(* Submit *)

\* p.accepting.Load(): a stopped pool refuses at once.
SubmitCheck(s) ==
    /\ submit[s] = "idle"
    /\ submit' = [submit EXCEPT ![s] = IF accepting THEN "checked" ELSE "rejected"]
    /\ UNCHANGED <<accepting, stopped, queue, closed, wg, cancelled,
                   drain, worker, task, finished>>

\* Mistake: the wait group is never told about the task.
SubmitAddForgotten(s) ==
    /\ submit[s] = "checked"
    /\ submit' = [submit EXCEPT ![s] = "added"]
    /\ UNCHANGED <<accepting, stopped, queue, closed, wg, cancelled,
                   drain, worker, task, finished>>

\* p.wg.Add(1), before the task is offered to the channel.
SubmitAdd(s) ==
    /\ submit[s] = "checked"
    /\ submit' = [submit EXCEPT ![s] = "added"]
    /\ wg' = wg + 1
    /\ UNCHANGED <<accepting, stopped, queue, closed, cancelled,
                   drain, worker, task, finished>>

\* Mistake: the default branch does not undo the Add.
SubmitOfferNoUndo(s) ==
    /\ submit[s] = "added"
    /\ ~closed
    /\ IF Len(queue) < QueueSize
       THEN /\ queue' = Append(queue, s)
            /\ submit' = [submit EXCEPT ![s] = "accepted"]
       ELSE /\ submit' = [submit EXCEPT ![s] = "rejected"]
            /\ UNCHANGED queue
    /\ UNCHANGED <<accepting, stopped, closed, wg, cancelled,
                   drain, worker, task, finished>>

\* The select of Submit: a send on a closed channel panics even inside a
\* select with a default (on the WebSocket path a Recoverer then ends only the
\* calling goroutine, and the count stays in the wait group); a full channel takes the default branch.
SubmitOffer(s) ==
    /\ submit[s] = "added"
    /\ \/ /\ closed
          /\ submit' = [submit EXCEPT ![s] = "panicked"]
          /\ UNCHANGED <<queue, wg>>
       \/ /\ ~closed
          /\ Len(queue) < QueueSize
          /\ queue' = Append(queue, s)
          /\ submit' = [submit EXCEPT ![s] = "accepted"]
          /\ UNCHANGED wg
       \/ /\ ~closed
          /\ Len(queue) = QueueSize
          /\ submit' = [submit EXCEPT ![s] = "rejected"]
          /\ wg' = wg - 1
          /\ UNCHANGED queue
    /\ UNCHANGED <<accepting, stopped, closed, cancelled,
                   drain, worker, task, finished>>

-----------------------------------------------------------------------------
(* Shutdown = StopAccepting; Drain *)

\* StopAccepting.  Drain makes the same store itself when the caller forgot.
StopAccepting(d) ==
    /\ drain[d] = "idle"
    /\ accepting' = FALSE
    /\ drain' = [drain EXCEPT ![d] = "stopped"]
    /\ UNCHANGED <<stopped, queue, closed, wg, cancelled,
                   submit, worker, task, finished>>

\* stopOnce closes stopChan; then the goroutine that calls wg.Wait starts.
DrainStop(d) ==
    /\ drain[d] = "stopped"
    /\ stopped' = TRUE
    /\ drain' = [drain EXCEPT ![d] = "waiting"]
    /\ UNCHANGED <<accepting, queue, closed, wg, cancelled,
                   submit, worker, task, finished>>

\* The two arms of Drain's select: the wait group reached zero, or the
\* caller's context expired first.
DrainWait(d) ==
    /\ drain[d] = "waiting"
    /\ \/ /\ wg = 0
          /\ drain' = [drain EXCEPT ![d] = "drained"]
       \/ drain' = [drain EXCEPT ![d] = "timedout"]
    /\ UNCHANGED <<accepting, stopped, queue, closed, wg, cancelled,
                   submit, worker, task, finished>>

\* Mistake: a Drain that timed out returns without closing the channel.
DrainCloseOnSuccess(d) ==
    /\ drain[d] \in {"drained", "timedout"}
    /\ cancelled' = TRUE
    /\ closed' = (closed \/ drain[d] = "drained")
    /\ drain' = [drain EXCEPT ![d] = "returned"]
    /\ UNCHANGED <<accepting, stopped, queue, wg, submit, worker, task, finished>>

\* p.cancel() and closeOnce closes the channel.
DrainClose(d) ==
    /\ drain[d] \in {"drained", "timedout"}
    /\ cancelled' = TRUE
    /\ closed' = TRUE
    /\ drain' = [drain EXCEPT ![d] = "returned"]
    /\ UNCHANGED <<accepting, stopped, queue, wg, submit, worker, task, finished>>

-----------------------------------------------------------------------------
(* worker *)

Take(w, next) ==
    /\ queue # <<>>
    /\ task' = [task EXCEPT ![w] = Head(queue)]
    /\ queue' = Tail(queue)
    /\ worker' = [worker EXCEPT ![w] = next]

\* Mistake: a worker that sees stopChan returns and leaves the channel alone.
WorkerSelectQuit(w) ==
    /\ worker[w] = "select"
    /\ \/ Take(w, "running")
       \/ /\ stopped \/ (closed /\ queue = <<>>)
          /\ worker' = [worker EXCEPT ![w] = "exited"]
          /\ UNCHANGED <<queue, task>>
    /\ UNCHANGED <<accepting, stopped, closed, wg, cancelled, submit, drain, finished>>

\* The main loop: receive a task, leave on a closed and empty channel, or
\* notice stopChan.  Go picks at random when several arms are ready.
WorkerSelect(w) ==
    /\ worker[w] = "select"
    /\ \/ Take(w, "running")
       \/ /\ closed
          /\ queue = <<>>
          /\ worker' = [worker EXCEPT ![w] = "exited"]
          /\ UNCHANGED <<queue, task>>
       \/ /\ stopped
          /\ worker' = [worker EXCEPT ![w] = "draining"]
          /\ UNCHANGED <<queue, task>>
    /\ UNCHANGED <<accepting, stopped, closed, wg, cancelled, submit, drain, finished>>

\* Mistake: the drain loop has a default branch and gives up on an empty
\* channel that is still open.
WorkerDrainEager(w) ==
    /\ worker[w] = "draining"
    /\ \/ Take(w, "runningDrain")
       \/ /\ queue = <<>>
          /\ worker' = [worker EXCEPT ![w] = "exited"]
          /\ UNCHANGED <<queue, task>>
    /\ UNCHANGED <<accepting, stopped, closed, wg, cancelled, submit, drain, finished>>

\* for task := range p.queue: blocks on an open empty channel, ends only when
\* the channel is closed and empty.
WorkerDrain(w) ==
    /\ worker[w] = "draining"
    /\ \/ Take(w, "runningDrain")
       \/ /\ closed
          /\ queue = <<>>
          /\ worker' = [worker EXCEPT ![w] = "exited"]
          /\ UNCHANGED <<queue, task>>
    /\ UNCHANGED <<accepting, stopped, closed, wg, cancelled, submit, drain, finished>>

\* runTask: the task returns or panics and is recovered, then wg.Done.
WorkerFinish(w) ==
    /\ worker[w] \in {"running", "runningDrain"}
    /\ finished' = finished \cup {task[w]}
    /\ wg' = wg - 1
    /\ task' = [task EXCEPT ![w] = NoTask]
    /\ worker' = [worker EXCEPT ![w] =
                    IF worker[w] = "running" THEN "select" ELSE "draining"]
    /\ UNCHANGED <<accepting, stopped, queue, closed, cancelled, submit, drain>>

-----------------------------------------------------------------------------

SubmitStep(s) == SubmitCheck(s) \/ SubmitAdd(s) \/ SubmitOffer(s)
DrainStep(d)  == StopAccepting(d) \/ DrainStop(d) \/ DrainWait(d) \/ DrainClose(d)
WorkerStep(w) == WorkerSelect(w) \/ WorkerDrain(w) \/ WorkerFinish(w)

Next ==
    \/ \E s \in Submitter : SubmitStep(s)
    \/ \E d \in Drainer : DrainStep(d)
    \/ \E w \in Worker : WorkerStep(w)

Spec == Init /\ [][Next]_vars

\* The Go scheduler runs every goroutine that can run, a task ends, and a
\* caller that entered Drain keeps going.  Nobody has to call Submit or Drain.
Fairness ==
    /\ \A w \in Worker : WF_vars(WorkerStep(w))
    /\ \A d \in Drainer : WF_vars(drain[d] # "idle" /\ DrainStep(d))
    /\ \A s \in Submitter : WF_vars(submit[s] # "idle" /\ SubmitStep(s))

FairSpec == Spec /\ Fairness

-----------------------------------------------------------------------------
(* What the pool promises *)

Held(s) == \E w \in Worker : task[w] = s
Queued(s) == \E i \in DOMAIN queue : queue[i] = s

\* Submit's "wg.Add before enqueue": the wait group counts exactly the tasks
\* that were added and have neither been undone nor finished, so a Drain that
\* sees zero sees no queued and no running task.
WaitGroupCountsOutstanding ==
    wg = Cardinality({s \in Submitter : submit[s] \in {"added", "panicked"}
                                          \/ Queued(s) \/ Held(s)})

\* The worker's drain loop reads "until close (not using default)": no worker
\* leaves while a task is, or can still be put, in the channel.
NothingLeftBehind ==
    (\E w \in Worker : worker[w] = "exited") => closed /\ queue = <<>>

\* Submit's true result is a promise: an accepted task runs, also when the
\* drain deadline passed and the channel was closed with the task still in it.
AcceptedTaskRuns ==
    \A s \in Submitter : submit[s] = "accepted" ~> s \in finished

\* "Close queue so worker goroutines exit and are not leaked".
WorkersExit ==
    \A d \in Drainer : drain[d] = "returned" ~> \A w \in Worker : worker[w] = "exited"

\* Submit's comment: "wg.Add is called here (before enqueue) to prevent a race
\* with Drain".  If it did, no caller would meet the closed channel.
SubmitNeverMeetsClosedQueue ==
    \A s \in Submitter : submit[s] # "panicked"

=============================================================================
