------------------------------ MODULE Rollback ------------------------------
(* The durable rollback of an agent's component set: the engine of            *)
(* agent/internal/rollback, its state file, and the backend it drives         *)
(* (agent/internal/heartbeat/handlers_rollback_backend.go), which swaps the   *)
(* files under the journal of agent/internal/updater/backup_swap.go.          *)
(*                                                                            *)
(* Every durable write is a step of its own, because the process may die      *)
(* between any two.  A write may also fail, before or after it reached the    *)
(* disk (a rename that succeeds and a directory sync that does not).          *)
(* The inline swap of Unix is modelled; the detached one of Windows is not.   *)
EXTENDS Naturals, Sequences

CONSTANTS
    Directive,      \* rollback ids, each with one content
    Version,
    Components,     \* how many components a set has, swapped in this order
    Agent,          \* the component that is the agent's own binary
    Current,        \* the version of each component that a directive replaces
    Target,         \* the one version it installs
    Installed,      \* the files at first
    None,
    MaxCrashes,     \* bound: deaths in the middle of an operation
    MaxFaults       \* bound: failing file operations

Component == 1..Components
FileSet == [Component -> Version]

ASSUME RollbackAssumption ==
    /\ Components \in Nat \ {0} /\ Agent \in Component
    /\ Current \in [Directive -> FileSet] /\ Target \in [Directive -> Version]
    /\ Installed \in FileSet
    /\ None \notin Directive \cup Version
    /\ MaxCrashes \in Nat /\ MaxFaults \in Nat

VARIABLES
    active,         \* state file: the unfinished rollback and its phase, or None
    tombstones,     \* state file: the final phase of each finished rollback
    pending,        \* state file: observations the server has not acknowledged
    journal,        \* swap journal: whose swap it is and how far, or None
    backup,         \* the old files kept beside the live ones, per directive
    live,           \* the installed files
    running,        \* version of the running agent process
    pc, rec, at, why,   \* where the engine is, its directive, component, cause
    server,         \* observations the server has recorded
    known,          \* rollbacks the server has, under the device's present id
    found,          \* history: the files each rollback started from
    committed,      \* history: rollbacks whose swap was committed
    crashes, faults

stateFile == <<active, tombstones, pending>>
files == <<journal, backup, live>>
engine == <<rec, at, why>>
history == <<known, found, committed>>
vars == <<stateFile, files, running, pc, engine, server, history, crashes, faults>>

Final == {"healthy", "failed", "recovered"}
Phase == Final \cup
    {"received", "downloaded", "verified", "staged", "swapped", "restart_requested"}
Record == [id : Directive, phase : Phase]
Journal == [id : Directive, state : {"prepared", "swapping", "swapped", "committed"}]
Set(v) == [c \in Component |-> v]

\* What Backend.Recover is called for.
Cause == {"swap", "restart", "health", "interrupted"}

ASSUME NoneAssumption ==
    None \notin Record \cup Journal \cup FileSet \cup Phase \cup Cause

Init ==
    /\ active = None
    /\ tombstones = [d \in Directive |-> None]
    /\ pending = <<>>
    /\ journal = None
    /\ backup = [d \in Directive |-> None]
    /\ live = Installed
    /\ running = Installed[Agent]
    /\ pc = "idle" /\ rec = None /\ at = 1 /\ why = None
    /\ server = {} /\ known = Directive
    /\ found = [d \in Directive |-> None] /\ committed = {}
    /\ crashes = 0 /\ faults = 0

\* The installed versions as the heartbeat reports them: the agent's own is the
\* version of the running process, the others are read from the files.
Inventory == [live EXCEPT ![Agent] = running]

-----------------------------------------------------------------------------
(* The state file *)

\* Mistake: only the record of the active rollback queues an observation, not the
\* failure recorded over a recovery.
WrittenQuiet(d, phase) ==
    /\ active' = IF phase \in Final THEN None ELSE [id |-> d, phase |-> phase]
    /\ tombstones' = IF phase \in Final THEN [tombstones EXCEPT ![d] = phase]
                     ELSE tombstones
    /\ pending' = IF tombstones[d] = None THEN Append(pending, [id |-> d, phase |-> phase])
                  ELSE pending

\* saveLocked replaces the file by a rename, so it is written whole or not.
Written(d, phase) ==
    /\ active' = IF phase \in Final THEN None ELSE [id |-> d, phase |-> phase]
    /\ tombstones' = IF phase \in Final THEN [tombstones EXCEPT ![d] = phase]
                     ELSE tombstones
    /\ pending' = Append(pending, [id |-> d, phase |-> phase])

\* A durable write that goes well, or fails with or without its effect.
Try(effect, unchanged, ok, error) ==
    \/ effect /\ ok /\ UNCHANGED faults
    \/ /\ faults < MaxFaults
       /\ faults' = faults + 1
       /\ effect \/ unchanged
       /\ error

\* transition: every caller returns when it fails, and goes on at `next` otherwise.
Transition(d, phase, next) ==
    Try(Written(d, phase), UNCHANGED stateFile, pc' = next, pc' = "idle")

\* A step that only writes the state file.
Save(phase, next) ==
    /\ Transition(rec, phase, next)
    /\ UNCHANGED <<files, running, engine, server, history, crashes>>

\* The heartbeat carries the oldest observation; the server records it, and leaves
\* one of a rollback that it does not have under this device unanswered.
SendObservation ==
    /\ pc = "idle"
    /\ pending # <<>>
    /\ Head(pending).id \in known
    /\ server' = server \cup {Head(pending)}
    /\ UNCHANGED <<stateFile, files, running, pc, engine, history, crashes, faults>>

\* The device is deleted and enrolled anew: the server has none of the rollbacks
\* that this agent has begun.
Disown ==
    /\ known' = {d \in known : tombstones[d] = None /\ (active # None => active.id # d)}
    /\ UNCHANGED <<stateFile, files, running, pc, engine, server, found, committed,
                   crashes, faults>>

\* Mistake: any acknowledgement removes the oldest observation.
AcknowledgeOldest(o) ==
    /\ pc = "idle"
    /\ o \in server
    /\ pending # <<>>
    /\ pending' = Tail(pending)
    /\ UNCHANGED <<active, tombstones, files, running, pc, engine, server, history,
                   crashes, faults>>

\* Acknowledge removes the first observation with that id, if it is still there: the
\* answer of an older heartbeat may come late, and twice.
Acknowledge(o) ==
    /\ pc = "idle"
    /\ o \in server
    /\ \/ \E index \in 1..Len(pending) :
             /\ pending[index] = o
             /\ \A i \in 1..(index - 1) : pending[i] # o
             /\ pending' = SubSeq(pending, 1, index - 1)
                             \o SubSeq(pending, index + 1, Len(pending))
       \/ /\ \A i \in 1..Len(pending) : pending[i] # o
          /\ UNCHANGED pending
    /\ UNCHANGED <<active, tombstones, files, running, pc, engine, server, history,
                   crashes, faults>>

-----------------------------------------------------------------------------
(* Execute *)

\* A directive of another version, one that is finished, and any directive while
\* a rollback is active, are answered without a change.
Execute(d) ==
    /\ pc = "idle"
    /\ Current[d][Agent] = running
    /\ tombstones[d] = None
    /\ active = None
    /\ rec' = d
    /\ why' = None
    /\ Transition(d, "received", "prepare")
    /\ found' = [found EXCEPT ![d] = live]
    /\ UNCHANGED <<files, running, at, server, known, committed, crashes>>

\* Backend.Prepare downloads and verifies the target set; a foreign update, the
\* network or the checks can fail it at any time.
Prepare ==
    /\ pc = "prepare"
    /\ \/ Inventory = Current[rec] /\ pc' = "advance"
       \/ pc' = "giveUp"
    /\ UNCHANGED <<stateFile, files, running, engine, server, history, crashes, faults>>

NextPhase == [received |-> "downloaded", downloaded |-> "verified", verified |-> "staged"]

Advance ==
    /\ pc = "advance"
    /\ LET phase == NextPhase[active.phase]
       IN  Save(phase, IF phase = "staged" THEN "swap" ELSE "advance")

\* The engine turns to Backend.Recover, remembering what for.
Recovering(cause) ==
    /\ pc' = "recover"
    /\ at' = 1
    /\ why' = cause
    /\ UNCHANGED rec

\* Backend.Swap looks at the installed versions once more, and copies the old files.
SwapCopy ==
    /\ pc = "swap"
    /\ \/ /\ Inventory = Current[rec]
          /\ backup' = [backup EXCEPT ![rec] = live]
          /\ pc' = "prepared"
          /\ UNCHANGED engine
       \/ Recovering("swap") /\ UNCHANGED backup
    /\ UNCHANGED <<stateFile, journal, live, running, server, history, crashes, faults>>

\* writeRollbackJournal: a rename, so the journal is the old one or the new one.
WriteJournal(state, ok, error) ==
    /\ Try(journal' = [id |-> rec, state |-> state], UNCHANGED journal, ok, error)
    /\ UNCHANGED <<stateFile, live, running, server, history, crashes>>

\* prepareRollbackArtifacts takes its copies back when the journal write fails.
SwapPrepared ==
    /\ pc = "prepared"
    /\ WriteJournal("prepared",
           pc' = "boundary" /\ at' = 1 /\ UNCHANGED <<rec, why, backup>>,
           backup' = [backup EXCEPT ![rec] = None] /\ Recovering("swap"))

\* applyPreparedRollbackArtifacts: journal, rename, and so on for every component.
SwapBoundary ==
    /\ pc = "boundary"
    /\ WriteJournal("swapping", pc' = "rename" /\ UNCHANGED engine, Recovering("swap"))
    /\ UNCHANGED backup

\* Mistake: the loop runs past the last component.
SwapRenameOver ==
    /\ pc = "rename"
    /\ live' = [live EXCEPT ![at] = Target[rec]]
    /\ IF at <= Components THEN pc' = "boundary" /\ at' = at + 1
                           ELSE pc' = "swapped" /\ UNCHANGED at
    /\ UNCHANGED <<stateFile, journal, backup, running, rec, why, server, history,
                   crashes, faults>>

SwapRename ==
    /\ pc = "rename"
    /\ Try(live' = [live EXCEPT ![at] = Target[rec]], UNCHANGED live,
           /\ IF at < Components THEN pc' = "boundary" /\ at' = at + 1
                                 ELSE pc' = "swapped" /\ UNCHANGED at
           /\ UNCHANGED <<rec, why>>,
           Recovering("swap"))
    /\ UNCHANGED <<stateFile, journal, backup, running, server, history, crashes>>

SwapDone ==
    /\ pc = "swapped"
    /\ WriteJournal("swapped", pc' = "recordSwapped" /\ UNCHANGED engine, Recovering("swap"))
    /\ UNCHANGED backup

RecordSwapped == pc = "recordSwapped" /\ Save("swapped", "requestRestart")

RequestRestart == pc = "requestRestart" /\ Save("restart_requested", "restart")

\* Backend.Restart replaces the process, or fails: Execute then recovers, and
\* Reconcile, which has recovered already, records a failure.
Restart ==
    /\ pc = "restart"
    /\ \/ pc' = "down" /\ UNCHANGED engine
       \/ why # "health" /\ Recovering("restart")
       \/ why = "health" /\ pc' = "giveUp" /\ UNCHANGED engine
    /\ UNCHANGED <<stateFile, files, running, server, history, crashes, faults>>

-----------------------------------------------------------------------------
(* Backend.Recover and what the engine records after it *)

\* Mistake: a swap that is complete is taken for one that is committed.
KeepsTargetSwapped(j) == j.state \in {"swapped", "committed"}

\* Mistake: the last component is left out.
RestoredShort(c) == c >= Components - 1

KeepsTarget(j) == j.state = "committed"
Restored(c) == c = Components

\* recoverRollbackSwapInline goes by the journal that is there, whoever wrote it:
\* none is success, a committed one keeps the target set, any other restores the
\* backups one by one.
Restore ==
    /\ pc = "recover"
    /\ \/ /\ journal = None
          /\ pc' = "recovered"
          /\ UNCHANGED <<live, at, faults>>
       \/ /\ journal # None
          /\ KeepsTarget(journal)
          /\ pc' = "discard"
          /\ UNCHANGED <<live, at, faults>>
       \/ /\ journal # None
          /\ ~KeepsTarget(journal)
          /\ backup[journal.id] = None
          /\ pc' = "giveUp"
          /\ UNCHANGED <<live, at, faults>>
       \/ /\ journal # None
          /\ ~KeepsTarget(journal)
          /\ backup[journal.id] # None
          /\ Try(live' = [live EXCEPT ![at] = backup[journal.id][at]], UNCHANGED live,
                 IF Restored(at) THEN pc' = "discard" /\ UNCHANGED at
                                 ELSE at' = at + 1 /\ UNCHANGED pc,
                 pc' = "giveUp" /\ UNCHANGED at)
    /\ UNCHANGED <<stateFile, journal, backup, running, rec, why, server, history, crashes>>

\* Recovery material goes once the set is whole: backups first, then the journal.
Discard(from, next) ==
    /\ pc = from
    /\ backup' = [backup EXCEPT ![journal.id] = None]
    /\ pc' = next
    /\ UNCHANGED <<stateFile, journal, live, running, engine, server, history, crashes, faults>>

RemoveJournal(from, next, error) ==
    /\ pc = from
    /\ Try(journal' = None, UNCHANGED journal, pc' = next, pc' = error)
    /\ UNCHANGED <<stateFile, backup, live, running, engine, server, history, crashes>>

RecoverDiscard == Discard("discard", "discarded")

RecoverRemove == RemoveJournal("discarded", "recovered", "giveUp")

\* The terminal record is written before the restart into the old set.
RecordRecovered ==
    /\ pc = "recovered"
    /\ Save("recovered", IF why = "health" THEN "restart" ELSE "idle")

GiveUp == pc = "giveUp" /\ Save("failed", "idle")

-----------------------------------------------------------------------------
(* Death, start and Reconcile *)

Crash ==
    /\ pc \notin {"idle", "down"}
    /\ crashes < MaxCrashes
    /\ crashes' = crashes + 1
    /\ pc' = "down"
    /\ UNCHANGED <<stateFile, files, running, engine, server, history, faults>>

\* The service or the machine is restarted while no rollback is in progress.
Stop ==
    /\ pc = "idle"
    /\ pc' = "down"
    /\ UNCHANGED <<stateFile, files, running, engine, server, history, crashes, faults>>

\* Mistake: Reconcile only looks at rollbacks that reached the swap.
BootSwapsOnly ==
    /\ pc = "down"
    /\ running' = live[Agent]
    /\ at' = 1
    /\ IF active = None \/ active.phase \in {"received", "downloaded", "verified"}
       THEN pc' = "idle" /\ rec' = None /\ why' = None
       ELSE /\ rec' = active.id
            /\ why' = "interrupted"
            /\ pc' = IF active.phase = "staged" THEN "recover" ELSE "health"
    /\ UNCHANGED <<stateFile, files, server, history, crashes, faults>>

\* initializeRollbackController in the new process, up to the choice of Reconcile.
Boot ==
    /\ pc = "down"
    /\ running' = live[Agent]
    /\ at' = 1
    /\ IF active = None
       THEN pc' = "idle" /\ rec' = None /\ why' = None
       ELSE /\ rec' = active.id
            /\ why' = "interrupted"
            /\ pc' = CASE active.phase = "staged" -> "recover"
                       [] active.phase \in {"swapped", "restart_requested"} -> "health"
                       [] OTHER -> "giveUp"
    /\ UNCHANGED <<stateFile, files, server, history, crashes, faults>>

\* Mistake: one component at its target is enough.
HealthSome ==
    /\ pc = "health"
    /\ \/ /\ \E c \in Component : Inventory[c] = Target[rec]
          /\ pc' = "finalize"
          /\ UNCHANGED engine
       \/ Recovering("health")
    /\ UNCHANGED <<stateFile, files, running, server, history, crashes, faults>>

\* A component whose version cannot be read makes the set unhealthy, as does one
\* that has another version than the target.
Health ==
    /\ pc = "health"
    /\ \/ Inventory = Set(Target[rec]) /\ pc' = "finalize" /\ UNCHANGED engine
       \/ Recovering("health")
    /\ UNCHANGED <<stateFile, files, running, server, history, crashes, faults>>

\* Backend.Finalize, CommitRollbackSwap: the journal must say swapped.  An error
\* ends Reconcile and leaves the rollback active.
Finalize ==
    /\ pc = "finalize"
    /\ IF journal # None /\ journal.state = "swapped"
       THEN Try(/\ journal' = [journal EXCEPT !.state = "committed"]
                /\ committed' = committed \cup {journal.id},
                UNCHANGED <<journal, committed>>,
                pc' = "commit", pc' = "idle")
       ELSE pc' = "idle" /\ UNCHANGED <<journal, committed, faults>>
    /\ UNCHANGED <<stateFile, backup, live, running, engine, server, known, found, crashes>>

CommitDiscard == Discard("commit", "committed")

CommitRemove == RemoveJournal("committed", "recordHealthy", "idle")

RecordHealthy == pc = "recordHealthy" /\ Save("healthy", "idle")

-----------------------------------------------------------------------------
Operation ==
    \/ Prepare \/ Advance \/ SwapCopy \/ SwapPrepared \/ SwapBoundary \/ SwapRename
    \/ SwapDone \/ RecordSwapped \/ RequestRestart \/ Restart
    \/ Restore \/ RecoverDiscard \/ RecoverRemove \/ RecordRecovered \/ GiveUp
    \/ Boot \/ Health \/ Finalize \/ CommitDiscard \/ CommitRemove \/ RecordHealthy

Next ==
    \/ \E d \in Directive : Execute(d)
    \/ Operation
    \/ SendObservation
    \/ \E o \in server : Acknowledge(o)
    \/ Disown
    \/ Crash
    \/ Stop

Spec == Init /\ [][Next]_vars

\* The engine's thread keeps running, and the heartbeat loop sends and is answered
\* whenever the engine rests again and again.  Nobody owes the agent a restart: it
\* does not update itself while a rollback is active.
FairSpec ==
    /\ Spec
    /\ WF_vars(Operation)
    /\ SF_vars(SendObservation)
    /\ SF_vars(pending # <<>> /\ Acknowledge(Head(pending)))

-----------------------------------------------------------------------------
(* Properties *)

TypeOK ==
    /\ active \in Record \cup {None}
    /\ tombstones \in [Directive -> Final \cup {None}]
    /\ pending \in Seq(Record)
    /\ journal \in Journal \cup {None}
    /\ backup \in [Directive -> FileSet \cup {None}]
    /\ live \in FileSet
    /\ running \in Version
    /\ rec \in Directive \cup {None} /\ at \in Component
    /\ server \subseteq Record
    /\ known \subseteq Directive /\ committed \subseteq Directive
    /\ found \in [Directive -> FileSet \cup {None}]
    /\ crashes \in 0..MaxCrashes /\ faults \in 0..MaxFaults

\* The sets that some release installed as a whole.
Whole == {Installed} \cup {Set(Target[d]) : d \in Directive}
Mixed == live \notin Whole
NeverFailed == \A d \in Directive : tombstones[d] # "failed"
Observed == server \cup {pending[i] : i \in 1..Len(pending)}

\* While the installed files are neither the first set nor the whole target of a
\* directive, a journal that is not committed and the copy of every old component
\* are on disk, whatever crash or error came in between, unless a rollback was
\* reported as failed: an interrupted swap can be undone.  (After a recovery that
\* failed, the next directive may swap over the remains: its check of the
\* installed versions reads the agent's version from the process and not from the
\* file.)
MixedIsRecoverable ==
    Mixed /\ NeverFailed =>
        /\ journal # None
        /\ journal.state # "committed"
        /\ backup[journal.id] # None

\* A rollback is reported healthy only with its whole target set installed and
\* the recovery material gone.
HealthyIsTarget ==
    [][\A d \in Directive : tombstones'[d] = "healthy" /\ tombstones[d] # "healthy"
           => live = Set(Target[d]) /\ journal = None]_vars

\* When a rollback is recorded as recovered, and none was reported as failed, every
\* file that was installed when it was received is installed again, if its swap was
\* never committed; if it was, by a process that died before it recorded the health,
\* the whole target set is installed.  Either way no rollback has mixed the set.
\* (The record always claims the current versions of the directive: see
\* EndsAsReported for when it is wrong.)
RecoveredIsWhole ==
    [][\A d \in Directive :
          tombstones'[d] = "recovered" /\ tombstones[d] # "recovered" /\ NeverFailed
          => /\ live = IF d \in committed THEN Set(Target[d]) ELSE found[d]
             /\ live \in Whole]_vars

\* No observation leaves the state file before the server has it, whichever
\* acknowledgement comes late or twice.
ObservationsKept == [][Observed \subseteq Observed']_vars

\* The oldest observation is of a rollback that the server does not have, and
\* holds up the others.
Blocked == pending # <<>> /\ Head(pending).id \notin known

\* Every final phase reaches the server, also a recovery that a failing restart
\* turns into a failure, unless the server refuses the observation at the head.
OutcomeReported ==
    \A d \in Directive :
        tombstones[d] # None ~> [id |-> d, phase |-> tombstones[d]] \in server \/ Blocked

\* The target set is committed and the state file does not say so.
CommittedUnrecorded == active # None /\ active.id \in committed

\* A rollback that was begun comes to an end, across crashes, unless its commit was
\* cut off from its record.  A failing write of the state file or of the commit
\* leaves it to the next start of the agent, if there is one: with starts again
\* and again it comes to an end then.
ResolvesOrCommitted ==
    /\ active # None ~>
           active = None \/ CommittedUnrecorded \/ (pc = "idle" /\ faults > 0)
    /\ []<>(pc = "down") => (active # None ~> active = None \/ CommittedUnrecorded)

-----------------------------------------------------------------------------
(* What the code says of a rollback's end, and does not keep *)

\* A rollback that was begun ends, and its final record is true: a healthy one has
\* the target set installed and a recovered one the current versions of its
\* directive, which is what the observation says of each.  Finalize of a journal
\* that is committed or gone fails, so a process that dies after the commit leaves
\* a rollback active for good or, when the next one finds the set unhealthy, has it
\* recorded as recovered over the target.
EndsAsReported ==
    \A d \in Directive :
        active # None /\ active.id = d ~>
            \/ tombstones[d] = "failed"
            \/ tombstones[d] = "healthy" /\ live = Set(Target[d])
            \/ tombstones[d] = "recovered" /\ live = Current[d]

=============================================================================
