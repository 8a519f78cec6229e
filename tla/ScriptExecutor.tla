--------------------------- MODULE ScriptExecutor ---------------------------
(***************************************************************************)
(* The agent's script executor: Execute and Cancel calls for one execution *)
(* id, each on its own goroutine, and the process tree of the script.      *)
(*                                                                         *)
(* Execute reserves the id, prepares, starts and waits for the process,    *)
(* stamps its result and releases the id.  Cancel finds the reservation,   *)
(* asks for the kill and blocks until the reservation is released or its   *)
(* backstop expires.  A step is one critical section or one system call.   *)
(* The promise this makes to the server is ScriptAgent.                    *)
(***************************************************************************)
EXTENDS Naturals

CONSTANTS
    Attempt,      \* deliveries of the script command, one Execute call each
    Cancel,       \* script_cancel commands, one Cancel call each
    None,         \* no entry, no command
    MaxCrashes    \* bound on restarts of the agent

ASSUME ExecutorAssumption ==
    /\ Attempt \cap Cancel = {}
    /\ None \notin Attempt \cup Cancel
    /\ MaxCrashes \in Nat

VARIABLES
    pc,         \* where each Execute call is
    own,        \* the entry an Execute call works on
    proc,       \* the process tree each Execute call started
    result,     \* the ScriptResult of each Execute call
    ent,        \* the runningExecution objects, by the call that made them
    by,         \* their cancelCommandID
    running,    \* Executor.running[id]
    cpc,        \* where each Cancel call is
    target,     \* the entry a Cancel call works on
    answer,     \* the CancelOutcome of each Cancel call
    crashes     \* restarts so far

execVars   == <<pc, own, proc, result>>
entryVars  == <<ent, by, running>>
cancelVars == <<cpc, target, answer>>
vars       == <<pc, own, proc, result, ent, by, running, cpc, target, answer, crashes>>

Entry   == Attempt \cup Cancel
\* Booleans of runningExecution; ctxDone stands for the cancelled context and
\* killed for the cmd.Cancel callback having run.
Flag    == {"owned", "startAttempted", "started", "contained", "containmentLost",
            "cancelRequested", "killErr", "ctxDone", "killed", "done"}
Pc      == {"absent", "queued", "setup", "starting", "started", "waiting",
            "stamping", "returning", "done", "lost"}
CancelPc == {"absent", "received", "refusing", "found", "waiting", "answered", "lost"}
Life    == {"none", "running", "gone"}
Outcome == {"none", "terminated", "not_found", "kill_failed"}
Ending  == {"none", "ok", "failed"}
Result  == [ending : Ending, marker : Cancel \cup {None}]
Tree    == [leader : Life, child : Life]

TypeOK ==
    /\ pc \in [Attempt -> Pc]
    /\ own \in [Attempt -> Entry \cup {None}]
    /\ proc \in [Attempt -> Tree]
    /\ result \in [Attempt -> Result]
    /\ ent \in [Entry -> SUBSET Flag]
    /\ by \in [Entry -> Cancel \cup {None}]
    /\ running \in Entry \cup {None}
    /\ cpc \in [Cancel -> CancelPc]
    /\ target \in [Cancel -> Entry \cup {None}]
    /\ answer \in [Cancel -> Outcome]
    /\ crashes \in Nat

Init ==
    /\ pc = [i \in Attempt |-> "absent"]
    /\ own = [i \in Attempt |-> None]
    /\ proc = [i \in Attempt |-> [leader |-> "none", child |-> "none"]]
    /\ result = [i \in Attempt |-> [ending |-> "none", marker |-> None]]
    /\ ent = [e \in Entry |-> {}]
    /\ by = [e \in Entry |-> None]
    /\ running = None
    /\ cpc = [k \in Cancel |-> "absent"]
    /\ target = [k \in Cancel |-> None]
    /\ answer = [k \in Cancel |-> "none"]
    /\ crashes = 0

Has(e, flag) == flag \in ent[e]
Raise(e, flags) == ent' = [ent EXCEPT ![e] = @ \cup flags]

-----------------------------------------------------------------------------
(* Frames the server sends: a script command or a script_cancel command    *)

Arrive(i) ==
    /\ pc[i] = "absent"
    /\ pc' = [pc EXCEPT ![i] = "queued"]
    /\ UNCHANGED <<own, proc, result, entryVars, cancelVars, crashes>>

Receive(k) ==
    /\ cpc[k] = "absent"
    /\ cpc' = [cpc EXCEPT ![k] = "received"]
    /\ UNCHANGED <<execVars, entryVars, target, answer, crashes>>

-----------------------------------------------------------------------------
(* Execute                                                                 *)

\* The result a call returns without having waited for a process.
Refuse(i, marker, next) ==
    /\ result' = [result EXCEPT ![i] = [ending |-> "failed", marker |-> marker]]
    /\ pc' = [pc EXCEPT ![i] = next]

\* Mistake: a second Execute adopts the reservation of the first.
ReserveAdoptingOwned(i) ==
    /\ pc[i] = "queued"
    /\ \/ /\ running = None
          /\ running' = i
          /\ ent' = [ent EXCEPT ![i] = {"owned"}]
          /\ own' = [own EXCEPT ![i] = i]
          /\ pc' = [pc EXCEPT ![i] = "setup"]
          /\ UNCHANGED result
       \/ /\ running # None
          /\ Raise(running, {"owned"})
          /\ own' = [own EXCEPT ![i] = running]
          /\ IF Has(running, "cancelRequested") THEN Refuse(i, by[running], "returning")
             ELSE pc' = [pc EXCEPT ![i] = "setup"] /\ UNCHANGED result
          /\ UNCHANGED running
    /\ UNCHANGED <<proc, by, cancelVars, crashes>>

\* reserve: a new entry, a refused duplicate, or a refusal record to adopt.
Reserve(i) ==
    /\ pc[i] = "queued"
    /\ \/ /\ running = None
          /\ running' = i
          /\ ent' = [ent EXCEPT ![i] = {"owned"}]
          /\ own' = [own EXCEPT ![i] = i]
          /\ pc' = [pc EXCEPT ![i] = "setup"]
          /\ UNCHANGED result
       \/ /\ running # None
          /\ Has(running, "owned")
          /\ Refuse(i, None, "done")
          /\ UNCHANGED <<running, ent, own>>
       \/ /\ running # None
          /\ ~Has(running, "owned")
          /\ Raise(running, {"owned"})
          /\ own' = [own EXCEPT ![i] = running]
          /\ Refuse(i, by[running], "returning")
          /\ UNCHANGED running
    /\ UNCHANGED <<proc, by, cancelVars, crashes>>

\* Validation, rendering, the script file or runAs fail before the start.
SetupFails(i) ==
    /\ pc[i] = "setup"
    /\ Refuse(i, None, "returning")
    /\ UNCHANGED <<own, proc, entryVars, cancelVars, crashes>>

\* Mistake: the start does not look for a cancel that came during the setup.
BeginStartUnchecked(i) ==
    /\ pc[i] = "setup"
    /\ Raise(own[i], {"startAttempted"})
    /\ pc' = [pc EXCEPT ![i] = "starting"]
    /\ UNCHANGED <<own, proc, result, by, running, cancelVars, crashes>>

\* beginStart: commit to the start, or bail out when a cancel came first.
BeginStart(i) ==
    /\ pc[i] = "setup"
    /\ \/ /\ Has(own[i], "cancelRequested")
          /\ Refuse(i, by[own[i]], "returning")
          /\ UNCHANGED ent
       \/ /\ ~Has(own[i], "cancelRequested")
          /\ Raise(own[i], {"startAttempted"})
          /\ pc' = [pc EXCEPT ![i] = "starting"]
          /\ UNCHANGED result
    /\ UNCHANGED <<own, proc, by, running, cancelVars, crashes>>

\* cmd.Start fails, by itself or because the context is already cancelled.
StartFails(i) ==
    /\ pc[i] = "starting"
    /\ pc' = [pc EXCEPT ![i] = "stamping"]
    /\ UNCHANGED <<own, proc, result, entryVars, cancelVars, crashes>>

Start(i) ==
    /\ pc[i] = "starting"
    /\ ~Has(own[i], "ctxDone")
    /\ proc' = [proc EXCEPT ![i].leader = "running"]
    /\ pc' = [pc EXCEPT ![i] = "started"]
    /\ UNCHANGED <<own, result, entryVars, cancelVars, crashes>>

\* Mistake: containment is established after a kill has run without it.
AttachAlways(i) ==
    /\ pc[i] = "started"
    /\ Raise(own[i], {"started", "contained"})
    /\ pc' = [pc EXCEPT ![i] = "waiting"]
    /\ UNCHANGED <<own, proc, result, by, running, cancelVars, crashes>>

\* attachProcessGroup and markStarted.
Attach(i) ==
    /\ pc[i] = "started"
    /\ Raise(own[i], {"started"} \cup
             (IF Has(own[i], "containmentLost") THEN {} ELSE {"contained"}))
    /\ pc' = [pc EXCEPT ![i] = "waiting"]
    /\ UNCHANGED <<own, proc, result, by, running, cancelVars, crashes>>

InProcess(i) == pc[i] \in {"started", "waiting"}

\* The script's own timeout cancels the context.
Timeout(i) ==
    /\ InProcess(i)
    /\ Raise(own[i], {"ctxDone"})
    /\ UNCHANGED <<execVars, by, running, cancelVars, crashes>>

Gone(life) == IF life = "running" THEN "gone" ELSE life

\* terminateProcessTree, from the cmd.Cancel callback: before the process group is
\* known it reaches the leader only; afterwards the group, unless the signal fails.
Kill(i) ==
    /\ InProcess(i)
    /\ Has(own[i], "ctxDone")
    /\ ~Has(own[i], "killed")
    /\ \/ /\ pc[i] = "started"
          /\ Raise(own[i], {"killed", "containmentLost"})
          /\ proc' = [proc EXCEPT ![i].leader = Gone(@)]
       \/ /\ pc[i] = "waiting"
          /\ Raise(own[i], {"killed"})
          /\ proc' = [proc EXCEPT ![i] = [leader |-> Gone(@.leader), child |-> Gone(@.child)]]
       \/ /\ pc[i] = "waiting"
          /\ Raise(own[i], {"killed", "killErr"})
          /\ UNCHANGED proc
    /\ UNCHANGED <<pc, own, result, by, running, cancelVars, crashes>>

\* The script starts a child in its group, the child ends, the leader ends (by itself
\* or, after a kill that failed, by os/exec's WaitDelay).
Spawn(i) ==
    /\ proc[i] = [leader |-> "running", child |-> "none"]
    /\ proc' = [proc EXCEPT ![i].child = "running"]
    /\ UNCHANGED <<pc, own, result, entryVars, cancelVars, crashes>>

ChildExits(i) ==
    /\ proc[i].child = "running"
    /\ proc' = [proc EXCEPT ![i].child = "gone"]
    /\ UNCHANGED <<pc, own, result, entryVars, cancelVars, crashes>>

LeaderExits(i) ==
    /\ proc[i].leader = "running"
    /\ proc' = [proc EXCEPT ![i].leader = "gone"]
    /\ UNCHANGED <<pc, own, result, entryVars, cancelVars, crashes>>

\* cmd.Wait: the leader is reaped and the context is no longer watched.
Reap(i) ==
    /\ pc[i] = "waiting"
    /\ proc[i].leader = "gone"
    /\ pc' = [pc EXCEPT ![i] = "stamping"]
    /\ UNCHANGED <<own, proc, result, entryVars, cancelVars, crashes>>

\* The result, with the cancellation marker whatever the ending was.
Stamp(i) ==
    /\ pc[i] = "stamping"
    /\ \E ending \in {"ok", "failed"} :
          /\ ending = "ok" => Has(own[i], "started") /\ ~Has(own[i], "killed")
          /\ result' = [result EXCEPT ![i] =
                [ending |-> ending,
                 marker |-> IF Has(own[i], "cancelRequested") THEN by[own[i]] ELSE None]]
    /\ pc' = [pc EXCEPT ![i] = "returning"]
    /\ UNCHANGED <<own, proc, entryVars, cancelVars, crashes>>

\* release, deferred: the id is free again and the waiting Cancel calls wake up.
Release(i) ==
    /\ pc[i] = "returning"
    /\ Raise(own[i], {"done"})
    /\ running' = IF running = own[i] THEN None ELSE running
    /\ pc' = [pc EXCEPT ![i] = "done"]
    /\ UNCHANGED <<own, proc, result, by, cancelVars, crashes>>

-----------------------------------------------------------------------------
(* Cancel                                                                  *)

Answered(k, outcome) ==
    /\ answer' = [answer EXCEPT ![k] = outcome]
    /\ cpc' = [cpc EXCEPT ![k] = "answered"]

\* Our not_found is put to the user helpers: one that does not answer, or not in a known
\* form, grades it kill_failed.  (A script that runs in a helper runs in an executor of its
\* own, which this module then stands for: its outcome is passed on as it is.)
NotFoundHere(k) == \E outcome \in {"not_found", "kill_failed"} : Answered(k, outcome)

CancelLookup(k) ==
    /\ cpc[k] = "received"
    /\ target' = [target EXCEPT ![k] = running]
    /\ cpc' = [cpc EXCEPT ![k] = IF running = None THEN "refusing" ELSE "found"]
    /\ UNCHANGED <<execVars, entryVars, answer, crashes>>

\* recordCancelRefusal: an entry made since the lookup is left as it is.
CancelRefuse(k) ==
    /\ cpc[k] = "refusing"
    /\ IF running = None
       THEN /\ running' = k
            /\ ent' = [ent EXCEPT ![k] = {"cancelRequested"}]
            /\ by' = [by EXCEPT ![k] = k]
       ELSE UNCHANGED entryVars
    /\ NotFoundHere(k)
    /\ UNCHANGED <<execVars, target, crashes>>

\* markCancelRequested, and what Cancel does with its three answers.
CancelMark(k) ==
    LET e == target[k] IN
    /\ cpc[k] = "found"
    /\ by' = [by EXCEPT ![e] = k]
    /\ \/ /\ ~Has(e, "owned")
          /\ Raise(e, {"cancelRequested"})
          /\ NotFoundHere(k)
       \/ /\ Has(e, "owned") /\ ~Has(e, "startAttempted")
          /\ Raise(e, {"cancelRequested"})
          /\ Answered(k, "terminated")
       \/ /\ Has(e, "owned") /\ Has(e, "startAttempted")
          /\ Raise(e, {"cancelRequested", "ctxDone"})
          /\ cpc' = [cpc EXCEPT ![k] = "waiting"]
          /\ UNCHANGED answer
    /\ UNCHANGED <<execVars, running, target, crashes>>

gradeCancelOutcome(e) ==
    IF Has(e, "started") /\ (Has(e, "killErr") \/ ~Has(e, "contained"))
    THEN "kill_failed" ELSE "terminated"

\* Mistake: Cancel grades what it sees without waiting for the release.
CancelGradeAtOnce(k) ==
    /\ cpc[k] = "waiting"
    /\ Answered(k, gradeCancelOutcome(target[k]))
    /\ UNCHANGED <<execVars, entryVars, target, crashes>>

CancelGrade(k) ==
    /\ cpc[k] = "waiting"
    /\ Has(target[k], "done")
    /\ Answered(k, gradeCancelOutcome(target[k]))
    /\ UNCHANGED <<execVars, entryVars, target, crashes>>

\* Mistake: the expiry of the backstop is an outcome the server does not know.
CancelGiveUpTimeout(k) ==
    /\ cpc[k] = "waiting"
    /\ Answered(k, "timeout")
    /\ UNCHANGED <<execVars, entryVars, target, crashes>>

\* grace + hardKillBackstop have passed.
CancelGiveUp(k) ==
    /\ cpc[k] = "waiting"
    /\ Answered(k, "kill_failed")
    /\ UNCHANGED <<execVars, entryVars, target, crashes>>

\* cancelRefusalTTL: a refusal record nobody claimed is dropped.
RefusalExpires(k) ==
    /\ running = k
    /\ ~Has(k, "owned")
    /\ running' = None
    /\ Raise(k, {"done"})
    /\ UNCHANGED <<execVars, by, cancelVars, crashes>>

\* The agent dies: its calls and its map are gone; the leader dies with it where the
\* platform has Pdeathsig, and the rest of the tree lives on.
Crash ==
    /\ crashes < MaxCrashes
    /\ crashes' = crashes + 1
    /\ running' = None
    /\ pc' = [i \in Attempt |-> IF pc[i] \in {"absent", "done"} THEN pc[i] ELSE "lost"]
    /\ cpc' = [k \in Cancel |-> IF cpc[k] \in {"absent", "answered"} THEN cpc[k] ELSE "lost"]
    /\ \/ UNCHANGED proc
       \/ proc' = [i \in Attempt |-> [proc[i] EXCEPT !.leader = Gone(@)]]
    /\ UNCHANGED <<own, result, ent, by, target, answer>>

Next ==
    \/ \E i \in Attempt :
          Arrive(i) \/ Reserve(i) \/ SetupFails(i) \/ BeginStart(i) \/ StartFails(i) \/ Start(i)
            \/ Attach(i) \/ Timeout(i) \/ Kill(i) \/ Spawn(i) \/ ChildExits(i)
            \/ LeaderExits(i) \/ Reap(i) \/ Stamp(i) \/ Release(i)
    \/ \E k \in Cancel :
          Receive(k) \/ CancelLookup(k) \/ CancelRefuse(k) \/ CancelMark(k) \/ CancelGrade(k)
            \/ CancelGiveUp(k) \/ RefusalExpires(k)
    \/ Crash

Spec == Init /\ [][Next]_vars

-----------------------------------------------------------------------------
(* Properties                                                              *)

\* A cancel that answered `terminated` worked on an entry whose Execute call has no
\* running leader and can start none, whether the cancel came before the start, during
\* it or after the end.  (The leader only: for its children see the next property, and
\* TerminatedMeansTreeGone for what is not kept.)
TerminatedMeansLeaderGone ==
    \A k \in Cancel : answer[k] = "terminated" =>
        \A i \in Attempt : own[i] = target[k] =>
            /\ proc[i].leader # "running"
            /\ pc[i] # "starting"

\* A kill reported as `terminated` took the whole process group with it: containment
\* was there before the kill ran, and the kill did not fail.  (Only when a kill ran.)
KilledMeansTreeGone ==
    \A k \in Cancel : answer[k] = "terminated" =>
        \A i \in Attempt : own[i] = target[k] /\ Has(target[k], "killed") =>
            proc[i].child # "running"

\* Deliveries of one command id never run side by side (reserve refuses a duplicate).
OneProcessPerId ==
    crashes = 0 =>
        \A i, j \in Attempt :
            proc[i].leader = "running" /\ proc[j].leader = "running" => i = j

\* An Execute call as an attempt of ScriptAgent.
AttemptOf(i) ==
    CASE pc[i] \in {"absent", "lost"} -> pc[i]
      [] pc[i] = "queued" -> "waiting"
      [] pc[i] = "done" -> "over"
      [] pc[i] = "setup" /\ ~Has(own[i], "cancelRequested") -> "waiting"
      [] /\ pc[i] \notin {"absent", "lost", "queued", "done"}
         /\ Has(own[i], "startAttempted") -> "live"
      [] OTHER -> "doomed"

Agent == INSTANCE ScriptAgent WITH
             att <- [i \in Attempt |-> AttemptOf(i)],
             res <- [i \in Attempt |-> IF pc[i] = "done" THEN result[i].ending ELSE "none"],
             ask <- [k \in Cancel |-> IF cpc[k] \in {"absent", "answered", "lost"}
                                      THEN cpc[k] ELSE "received"]

\* Execute and Cancel together keep the promise of ScriptAgent: one live attempt at a
\* time, `terminated` only of an attempt that is over or never starts.
ImplementsAgent == Agent!AgentSpec

-----------------------------------------------------------------------------
(* What a comment of the code says, and the code does not keep             *)

\* "CancelTerminated means the process (and its tree) is provably gone."  A leader that
\* ends by itself leaves its children alone, and a cancel that comes before the release
\* finds a contained start and no kill error: it is graded `terminated` although no kill
\* ran and a child is running.
TerminatedMeansTreeGone ==
    \A k \in Cancel : answer[k] = "terminated" =>
        \A i \in Attempt : own[i] = target[k] =>
            proc[i].leader # "running" /\ proc[i].child # "running"

=============================================================================
