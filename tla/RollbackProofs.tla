--------------------------- MODULE RollbackProofs ---------------------------
(***************************************************************************)
(* Proofs about Rollback, for every set of directives, versions and        *)
(* components and every number of crashes and failing writes.              *)
(***************************************************************************)
EXTENDS Rollback, TLAPS

-----------------------------------------------------------------------------
(* The inductive invariant: what the engine's position says about the state    *)
(* file, and what the journal says about the installed files.                  *)

Executing == {"prepare", "advance", "swap", "prepared", "boundary", "rename", "swapped",
              "recordSwapped", "requestRestart"}
Restoring == {"recover", "discard", "discarded", "recovered"}
Confirming == {"health", "finalize", "commit", "committed", "recordHealthy"}
Position == {"idle", "down", "restart", "giveUp"} \cup Executing \cup Restoring \cup Confirming

ActiveIn(phases) == active # None /\ active.id = rec /\ active.phase \in phases

\* The state file while the engine works, and the cause it works for.
ControlInv ==
    /\ pc \in Position /\ why \in Cause \cup {None}
    /\ active # None => active.phase \notin Final /\ tombstones[active.id] = None
    /\ pc \notin {"idle", "down"} => rec \in Directive /\ tombstones[rec] # "failed"
    /\ pc \in Executing => why = None
    /\ pc = "prepare" => ActiveIn({"received"})
    /\ pc = "advance" => ActiveIn({"received", "downloaded", "verified"})
    /\ pc \in {"swap", "prepared", "boundary", "rename", "swapped", "recordSwapped"} =>
          ActiveIn({"staged"})
    /\ pc = "requestRestart" => ActiveIn({"swapped"})
    /\ pc = "restart" /\ why # "health" => ActiveIn({"restart_requested"})
    /\ pc \in Restoring =>
          /\ why \in {"swap", "interrupted"} => ActiveIn({"staged"})
          /\ why = "restart" => ActiveIn({"restart_requested"})
          /\ why = "health" => ActiveIn({"swapped", "restart_requested"})
          /\ why # None
    /\ pc \in Confirming => ActiveIn({"swapped", "restart_requested"})

\* The process that Reconcile runs in was started from the installed agent, so what it
\* finds healthy is what is installed.
ConfirmInv ==
    /\ pc = "health" => running = live[Agent]
    /\ pc \in Confirming \ {"health"} => live = Set(Target[rec])
    /\ pc \in {"discard", "discarded", "commit", "committed"} => journal # None
    /\ pc \in {"commit", "committed"} => journal.state = "committed"
    /\ pc \in {"recovered", "recordHealthy"} => journal = None

\* What is installed once the rollback has left nothing behind.
Owed(d) == IF d \in committed THEN Set(Target[d]) ELSE found[d]

\* Without a journal the set is whole, and the old one as long as nothing was committed.
NoJournal ==
    journal = None => live \in Whole /\ (active # None => live = Owed(active.id))

\* A journal belongs to the active rollback; the backups it names are the old set.
SomeJournal ==
    journal # None =>
        /\ active # None /\ journal.id = active.id
        /\ active.phase \in {"staged", "swapped", "restart_requested"}
        /\ journal.state = "committed" <=> journal.id \in committed
        /\ journal.state = "committed" => live = Set(Target[journal.id])
        /\ journal.state # "committed" =>
              \/ backup[journal.id] = None /\ live = found[journal.id]
              \/ backup[journal.id] # None /\ backup[journal.id] = found[journal.id]

\* Only an active rollback beyond the swap has been committed without a final record, and
\* an active rollback found a whole set.
Committed ==
    /\ \A d \in committed : tombstones[d] = None =>
          /\ active # None /\ active.id = d
          /\ active.phase \in {"swapped", "restart_requested"}
    /\ active # None => found[active.id] \in Whole

\* What the swap and the recovery have done so far.
Progress ==
    /\ pc \in {"swap", "prepared"} => journal = None
    /\ pc = "prepared" => backup[rec] = found[rec]
    /\ pc \in {"boundary", "rename", "swapped"} =>
          journal # None /\ journal.state # "committed" /\ backup[rec] # None
    /\ pc \in {"recordSwapped", "requestRestart"} \/ (pc = "restart" /\ why # "health") =>
          journal # None /\ journal.state # "committed"
    /\ pc = "recover" => \A c \in Component : c < at => live[c] = found[rec][c]
    /\ pc \in {"discard", "discarded"} => live = Owed(rec)

\* A rollback that failed may leave anything.
FilesInv == NeverFailed => NoJournal /\ SomeJournal /\ Committed /\ Progress

IInv == TypeOK /\ ControlInv /\ ConfirmInv /\ FilesInv

-----------------------------------------------------------------------------
(* The state file and the journal *)

\* What a write of the state file leaves behind.
LEMMA WrittenFacts ==
    ASSUME TypeOK, NEW d \in Directive, NEW phase \in Phase, Written(d, phase)
    PROVE  /\ active' \in Record \cup {None}
           /\ pending' \in Seq(Record)
           /\ tombstones' \in [Directive -> Final \cup {None}]
           /\ phase \notin Final => /\ active' # None /\ active'.id = d /\ active'.phase = phase
                                    /\ tombstones' = tombstones
           /\ phase \in Final => /\ active' = None /\ tombstones'[d] = phase
                                 /\ \A e \in Directive : e # d => tombstones'[e] = tombstones[e]
<1>1. [id |-> d, phase |-> phase] \in Record  BY DEF Record
<1>2. pending' \in Seq(Record)  BY <1>1 DEF Written, TypeOK
<1>3. [id |-> d, phase |-> phase] # None  BY <1>1, NoneAssumption
<1>4. CASE phase \in Final  BY <1>2, <1>4 DEF Written, TypeOK
<1>5. CASE phase \notin Final  BY <1>1, <1>2, <1>3, <1>5 DEF Written, TypeOK
<1>6. QED  BY <1>4, <1>5

\* A save ends at `next` with the record written, or at rest with the record written or not.
LEMMA SaveFacts ==
    ASSUME TypeOK, rec \in Directive, NEW phase \in Phase, NEW next, Save(phase, next)
    PROVE  /\ \/ Written(rec, phase) /\ pc' \in {next, "idle"}
              \/ UNCHANGED stateFile /\ pc' = "idle"
           /\ faults' \in 0..MaxFaults
           /\ UNCHANGED <<files, running, engine, server, history, crashes>>
<1>1. faults' \in 0..MaxFaults
  BY RollbackAssumption DEF Save, Transition, Try, TypeOK
<1>2. QED  BY <1>1 DEF Save, Transition, Try

\* A save keeps the types.
LEMMA SaveTypes ==
    ASSUME TypeOK, rec \in Directive, NEW phase \in Phase, NEW next, Save(phase, next)
    PROVE  TypeOK'
<1>1. /\ active' \in Record \cup {None} /\ pending' \in Seq(Record)
      /\ tombstones' \in [Directive -> Final \cup {None}]
  BY SaveFacts, WrittenFacts DEF stateFile, TypeOK
<1>2. QED  BY <1>1, SaveFacts DEF TypeOK, files, engine, history

\* Sets of one version differ from None, and are sets of files.
LEMMA SetIsFileSet ==
    ASSUME NEW v \in Version
    PROVE  Set(v) \in FileSet /\ Set(v) # None /\ \A c \in Component : Set(v)[c] = v
<1>1. Set(v) \in FileSet  BY DEF Set, FileSet
<1>2. QED  BY <1>1, NoneAssumption DEF Set

\* A journal that was written.
LEMMA JournalWritten ==
    ASSUME NEW d \in Directive, NEW state \in {"prepared", "swapping", "swapped", "committed"}
    PROVE  [id |-> d, state |-> state] \in Journal /\ [id |-> d, state |-> state] # None
<1>1. [id |-> d, state |-> state] \in Journal  BY DEF Journal
<1>2. QED  BY <1>1, NoneAssumption

-----------------------------------------------------------------------------
(* Types *)

\* The actions that write no state file.
LEMMA FileTypes ==
    ASSUME IInv,
           \/ SwapCopy \/ SwapPrepared \/ SwapBoundary \/ SwapRename \/ SwapDone \/ Restore
           \/ RecoverDiscard \/ RecoverRemove \/ Finalize \/ CommitDiscard \/ CommitRemove
    PROVE  TypeOK'
<1>0. TypeOK /\ rec \in Directive /\ 1 \in Component
  <2>1. pc \notin {"idle", "down"}
    BY DEF SwapCopy, SwapPrepared, SwapBoundary, SwapRename, SwapDone, Restore, RecoverDiscard,
           RecoverRemove, Finalize, CommitDiscard, CommitRemove, Discard, RemoveJournal
  <2>2. 1 \in Component  BY RollbackAssumption DEF Component
  <2>3. QED  BY <2>1, <2>2 DEF IInv, ControlInv
<1>1. CASE SwapCopy
  BY <1>0, <1>1 DEF SwapCopy, Recovering, TypeOK, stateFile, history, engine
<1>2. CASE SwapPrepared
  <2>1. [id |-> rec, state |-> "prepared"] \in Journal  BY <1>0, JournalWritten
  <2>2. journal' \in Journal \cup {None}
    BY <1>0, <1>2, <2>1 DEF SwapPrepared, WriteJournal, Try, TypeOK
  <2>3. faults' \in 0..MaxFaults
    BY <1>0, <1>2, RollbackAssumption DEF SwapPrepared, WriteJournal, Try, TypeOK
  <2>4. rec' = rec /\ at' \in Component
    BY <1>0, <1>2 DEF SwapPrepared, WriteJournal, Try, Recovering, TypeOK, engine
  <2>5. backup' \in [Directive -> FileSet \cup {None}]
    BY <1>0, <1>2 DEF SwapPrepared, WriteJournal, Try, TypeOK
  <2>6. QED  BY <1>0, <1>2, <2>2, <2>3, <2>4, <2>5
    DEF SwapPrepared, WriteJournal, TypeOK, stateFile, history
<1>3. CASE SwapBoundary
  <2>1. [id |-> rec, state |-> "swapping"] \in Journal  BY <1>0, JournalWritten
  <2>2. journal' \in Journal \cup {None}
    BY <1>0, <1>3, <2>1 DEF SwapBoundary, WriteJournal, Try, TypeOK
  <2>3. faults' \in 0..MaxFaults
    BY <1>0, <1>3, RollbackAssumption DEF SwapBoundary, WriteJournal, Try, TypeOK
  <2>4. rec' = rec /\ at' \in Component
    BY <1>0, <1>3 DEF SwapBoundary, WriteJournal, Try, Recovering, TypeOK, engine
  <2>6. QED  BY <1>0, <1>3, <2>2, <2>3, <2>4
    DEF SwapBoundary, WriteJournal, TypeOK, stateFile, history
<1>4. CASE SwapRename
  <2>1. Target[rec] \in Version  BY <1>0, RollbackAssumption
  <2>2. live' \in FileSet  BY <1>0, <1>4, <2>1 DEF SwapRename, Try, TypeOK, FileSet
  <2>3. at' \in Component
    BY <1>0, <1>4, RollbackAssumption DEF SwapRename, Try, Recovering, TypeOK, Component
  <2>4. faults' \in 0..MaxFaults  BY <1>0, <1>4, RollbackAssumption DEF SwapRename, Try, TypeOK
  <2>5. rec' = rec  BY <1>4 DEF SwapRename, Try, Recovering
  <2>6. QED  BY <1>0, <1>4, <2>2, <2>3, <2>4, <2>5 DEF SwapRename, TypeOK, stateFile, history
<1>5. CASE SwapDone
  <2>1. [id |-> rec, state |-> "swapped"] \in Journal  BY <1>0, JournalWritten
  <2>2. journal' \in Journal \cup {None}
    BY <1>0, <1>5, <2>1 DEF SwapDone, WriteJournal, Try, TypeOK
  <2>3. faults' \in 0..MaxFaults
    BY <1>0, <1>5, RollbackAssumption DEF SwapDone, WriteJournal, Try, TypeOK
  <2>4. rec' = rec /\ at' \in Component
    BY <1>0, <1>5 DEF SwapDone, WriteJournal, Try, Recovering, TypeOK, engine
  <2>6. QED  BY <1>0, <1>5, <2>2, <2>3, <2>4
    DEF SwapDone, WriteJournal, TypeOK, stateFile, history
<1>6. CASE Restore
  <2>1. live' \in FileSet  BY <1>0, <1>6 DEF Restore, Try, TypeOK, FileSet, Journal
  <2>2. at' \in Component
    BY <1>0, <1>6, RollbackAssumption DEF Restore, Try, Restored, TypeOK, Component
  <2>3. faults' \in 0..MaxFaults  BY <1>0, <1>6, RollbackAssumption DEF Restore, Try, TypeOK
  <2>4. QED  BY <1>0, <1>6, <2>1, <2>2, <2>3 DEF Restore, TypeOK, stateFile, history
<1>7. CASE RecoverDiscard \/ CommitDiscard
  BY <1>0, <1>7 DEF RecoverDiscard, CommitDiscard, Discard, TypeOK, stateFile, history, engine
<1>8. CASE RecoverRemove \/ CommitRemove
  BY <1>0, <1>8, RollbackAssumption
  DEF RecoverRemove, CommitRemove, RemoveJournal, Try, TypeOK, stateFile, history, engine
<1>9. CASE Finalize
  <2>1. journal' \in Journal \cup {None}
    BY <1>0, <1>9 DEF Finalize, Try, TypeOK, Journal
  <2>2. faults' \in 0..MaxFaults  BY <1>0, <1>9, RollbackAssumption DEF Finalize, Try, TypeOK
  <2>3. committed' \subseteq Directive
    BY <1>0, <1>9 DEF Finalize, Try, TypeOK, Journal
  <2>4. QED  BY <1>0, <1>9, <2>1, <2>2, <2>3 DEF Finalize, TypeOK, stateFile, engine
<1>10. QED  BY <1>1, <1>2, <1>3, <1>4, <1>5, <1>6, <1>7, <1>8, <1>9

\* The saves, each with the phase it records and where it leads.
LEMMA Saves ==
    ASSUME IInv
    PROVE  /\ Advance => \E phase \in {"downloaded", "verified", "staged"} :
                 /\ Save(phase, IF phase = "staged" THEN "swap" ELSE "advance")
                 /\ active # None /\ active.id = rec /\ rec \in Directive
           /\ RecordSwapped \/ RequestRestart \/ RecordRecovered \/ GiveUp \/ RecordHealthy =>
                 rec \in Directive
<1>1. ASSUME Advance
      PROVE  \E phase \in {"downloaded", "verified", "staged"} :
                 /\ Save(phase, IF phase = "staged" THEN "swap" ELSE "advance")
                 /\ active # None /\ active.id = rec /\ rec \in Directive
  <2>1. /\ active # None /\ active.id = rec
        /\ active.phase \in {"received", "downloaded", "verified"}
        /\ rec \in Directive
    BY <1>1 DEF IInv, ControlInv, Advance, ActiveIn
  <2>2. NextPhase[active.phase] \in {"downloaded", "verified", "staged"}
    BY <2>1 DEF NextPhase
  <2>3. QED  BY <1>1, <2>1, <2>2 DEF Advance
<1>2. RecordSwapped \/ RequestRestart \/ RecordRecovered \/ GiveUp \/ RecordHealthy =>
         rec \in Directive
  BY DEF IInv, ControlInv, RecordSwapped, RequestRestart, RecordRecovered, GiveUp, RecordHealthy
<1>3. QED  BY <1>1, <1>2

\* An acknowledgement takes one observation out, one that the server has.
LEMMA AcknowledgeFacts ==
    ASSUME TypeOK, NEW o \in server, Acknowledge(o)
    PROVE  /\ pending' \in Seq(Record)
           /\ \A i \in 1..Len(pending) :
                 pending[i] = o \/ \E j \in 1..Len(pending') : pending'[j] = pending[i]
<1>0. pending \in Seq(Record) /\ Len(pending) \in Nat  BY DEF TypeOK
<1>1. CASE UNCHANGED pending  BY <1>0, <1>1
<1>2. ASSUME NEW index \in 1..Len(pending), pending[index] = o,
             pending' = SubSeq(pending, 1, index - 1) \o SubSeq(pending, index + 1, Len(pending))
      PROVE  /\ pending' \in Seq(Record)
             /\ \A i \in 1..Len(pending) :
                   pending[i] = o \/ \E j \in 1..Len(pending') : pending'[j] = pending[i]
  <2> DEFINE s == SubSeq(pending, 1, index - 1)
             t == SubSeq(pending, index + 1, Len(pending))
  <2>1. /\ s \in Seq(Record) /\ Len(s) = index - 1
        /\ \A j \in 1..(index - 1) : s[j] = pending[j]
    BY <1>0, <1>2
  <2>2. /\ t \in Seq(Record) /\ Len(t) = Len(pending) - index
        /\ \A j \in 1..(Len(pending) - index) : t[j] = pending[j + index]
    BY <1>0, <1>2
  <2> HIDE DEF s, t
  <2>a. pending' = s \o t  BY <1>2 DEF s, t
  <2>b. index \in Nat /\ index >= 1 /\ Len(pending) - index \in Nat  BY <1>0
  <2>3. /\ pending' \in Seq(Record) /\ Len(pending') = Len(pending) - 1
        /\ \A j \in 1..(index - 1) : pending'[j] = s[j]
        /\ \A j \in 1..(Len(pending) - index) : pending'[j + (index - 1)] = t[j]
    <3>1. s \o t \in Seq(Record)  BY <2>1, <2>2
    <3>2. Len(s \o t) = Len(pending) - 1
      <4>0. s \in Seq(Record) /\ t \in Seq(Record)  BY <2>1, <2>2
      <4>1. Len(s \o t) = Len(s) + Len(t)  BY <4>0
      <4>2. (index - 1) + (Len(pending) - index) = Len(pending) - 1  BY <1>0, <2>b
      <4>3. QED  BY <2>1, <2>2, <4>1, <4>2
    <3>3. ASSUME NEW j \in 1..(index - 1) PROVE (s \o t)[j] = s[j]  BY <1>0, <2>1, <2>2, <2>b
    <3>4. ASSUME NEW j \in 1..(Len(pending) - index) PROVE (s \o t)[j + (index - 1)] = t[j]
      BY <1>0, <2>1, <2>2, <2>b
    <3>5. QED  BY <2>a, <3>1, <3>2, <3>3, <3>4
  <2>4. ASSUME NEW i \in 1..Len(pending), i < index
        PROVE  i \in 1..Len(pending') /\ pending'[i] = pending[i]
    BY <1>0, <2>1, <2>3, <2>4
  <2>5. ASSUME NEW i \in 1..Len(pending), i > index
        PROVE  i - 1 \in 1..Len(pending') /\ pending'[i - 1] = pending[i]
    <3>1. /\ i - index \in 1..(Len(pending) - index)
          /\ (i - index) + (index - 1) = i - 1 /\ (i - index) + index = i
      BY <1>0, <2>b, <2>5
    <3>2. pending'[i - 1] = t[i - index]  BY <2>3, <3>1
    <3>3. t[i - index] = pending[i]  BY <2>2, <3>1
    <3>4. i - 1 \in 1..Len(pending')  BY <1>0, <2>3, <2>b, <2>5
    <3>5. QED  BY <3>2, <3>3, <3>4
  <2>6. \A i \in 1..Len(pending) : i < index \/ i = index \/ i > index  BY <1>0
  <2>7. QED  BY <1>2, <2>3, <2>4, <2>5, <2>6
<1>3. QED  BY <1>1, <1>2 DEF Acknowledge

\* Every action keeps the types.
LEMMA TypeKeeps == IInv /\ [Next]_vars => TypeOK'
<1> SUFFICES ASSUME IInv, [Next]_vars PROVE TypeOK'
  OBVIOUS
<1>0. TypeOK /\ 1 \in Component  BY RollbackAssumption DEF IInv, Component
<1>1. ASSUME NEW d \in Directive, Execute(d) PROVE TypeOK'
  <2>1. "received" \in Phase  BY DEF Phase
  <2>2. /\ active' \in Record \cup {None} /\ pending' \in Seq(Record)
        /\ tombstones' \in [Directive -> Final \cup {None}]
    BY <1>0, <1>1, <2>1, WrittenFacts DEF Execute, Transition, Try, TypeOK, stateFile
  <2>3. faults' \in 0..MaxFaults
    BY <1>0, <1>1, RollbackAssumption DEF Execute, Transition, Try, TypeOK
  <2>4. found' \in [Directive -> FileSet \cup {None}]  BY <1>0, <1>1 DEF Execute, TypeOK
  <2>5. QED  BY <1>0, <1>1, <2>2, <2>3, <2>4 DEF Execute, TypeOK, files
<1>2. CASE Prepare \/ Restart \/ Health \/ Stop
  <2>1. at' \in Component /\ rec' = rec
    BY <1>0, <1>2 DEF Prepare, Restart, Health, Stop, Recovering, engine, TypeOK
  <2>2. QED
    BY <1>0, <1>2, <2>1 DEF Prepare, Restart, Health, Stop, TypeOK, stateFile, files, history
<1>3. CASE Advance
  <2>1. PICK phase \in {"downloaded", "verified", "staged"} :
           Save(phase, IF phase = "staged" THEN "swap" ELSE "advance") /\ rec \in Directive
    BY <1>3, Saves
  <2>2. phase \in Phase  BY DEF Phase
  <2>3. QED  BY <1>0, <2>1, <2>2, SaveTypes
<1>4. CASE RecordSwapped \/ RequestRestart \/ RecordRecovered \/ GiveUp \/ RecordHealthy
  <2>1. rec \in Directive  BY <1>4, Saves
  <2>2. {"swapped", "restart_requested", "recovered", "failed", "healthy"} \subseteq Phase
    BY DEF Phase, Final
  <2>3. QED
    BY <1>0, <1>4, <2>1, <2>2, SaveTypes
    DEF RecordSwapped, RequestRestart, RecordRecovered, GiveUp, RecordHealthy
<1>5. CASE Boot
  <2>1. running' \in Version  BY <1>0, <1>5, RollbackAssumption DEF Boot, TypeOK, FileSet
  <2>2. rec' \in Directive \cup {None}  BY <1>0, <1>5 DEF Boot, TypeOK, Record
  <2>3. QED  BY <1>0, <1>5, <2>1, <2>2 DEF Boot, TypeOK, stateFile, files, history
<1>6. CASE SendObservation
  <2>1. Head(pending) \in Record  BY <1>0, <1>6 DEF SendObservation, TypeOK
  <2>2. QED  BY <1>0, <1>6, <2>1 DEF SendObservation, TypeOK, stateFile, files, history, engine
<1>7. ASSUME NEW o \in server, Acknowledge(o) PROVE TypeOK'
  BY <1>0, <1>7, AcknowledgeFacts DEF Acknowledge, TypeOK, files, engine, history
<1>8. CASE Crash
  BY <1>0, <1>8, RollbackAssumption DEF Crash, TypeOK, stateFile, files, history, engine
<1>9. CASE UNCHANGED vars
  BY <1>0, <1>9 DEF vars, TypeOK, stateFile, files, history, engine
<1>10. CASE Disown
  BY <1>0, <1>10 DEF Disown, TypeOK, stateFile, files, engine
<1>11. QED
  BY <1>1, <1>2, <1>3, <1>4, <1>5, <1>6, <1>7, <1>8, <1>9, <1>10, FileTypes DEF Next, Operation

-----------------------------------------------------------------------------
(* The engine's position and the state file *)

\* At rest, the state file holds an unfinished rollback without a final record.
LEMMA RestKeeps ==
    ASSUME pc' \in {"idle", "down"}, why' \in Cause \cup {None},
           active' # None => active'.phase \notin Final /\ tombstones'[active'.id] = None
    PROVE  ControlInv'
  BY DEF ControlInv, Position, Executing, Restoring, Confirming

\* The state file stays as it is and the engine goes to a position with the same promise.
LEMMA EngineMoves ==
    ASSUME IInv, UNCHANGED stateFile,
           \/ Prepare \/ SwapCopy \/ SwapPrepared \/ SwapBoundary \/ SwapRename \/ SwapDone
           \/ Restart \/ Restore \/ RecoverDiscard \/ RecoverRemove
    PROVE  ControlInv'
<1>0. ControlInv /\ UNCHANGED <<active, tombstones>>  BY DEF IInv, stateFile
<1> USE DEF ControlInv, ActiveIn, Position, Executing, Restoring, Confirming, Cause
<1>a. \A cause \in Cause : cause # None  BY NoneAssumption
<1>1. CASE Prepare
  BY <1>0, <1>a, <1>1 DEF Prepare, engine
<1>2. CASE SwapCopy
  BY <1>0, <1>a, <1>2 DEF SwapCopy, Recovering, engine
<1>3. CASE SwapPrepared
  BY <1>0, <1>a, <1>3 DEF SwapPrepared, WriteJournal, Try, Recovering, engine
<1>4. CASE SwapBoundary
  BY <1>0, <1>a, <1>4 DEF SwapBoundary, WriteJournal, Try, Recovering, engine
<1>5. CASE SwapRename
  BY <1>0, <1>a, <1>5 DEF SwapRename, Try, Recovering, engine
<1>6. CASE SwapDone
  BY <1>0, <1>a, <1>6 DEF SwapDone, WriteJournal, Try, Recovering, engine
<1>7. CASE Restart
  BY <1>0, <1>a, <1>7 DEF Restart, Recovering, engine
<1>8. CASE Restore
  BY <1>0, <1>a, <1>8 DEF Restore, Try
<1>9. CASE RecoverDiscard
  BY <1>0, <1>a, <1>9 DEF RecoverDiscard, Discard, engine
<1>10. CASE RecoverRemove
  BY <1>0, <1>a, <1>10 DEF RecoverRemove, RemoveJournal, Try, engine
<1>11. QED
  BY <1>1, <1>2, <1>3, <1>4, <1>5, <1>6, <1>7, <1>8, <1>9, <1>10

\* Reconcile decides, and the commit of a healthy set.
LEMMA ReconcileMoves ==
    ASSUME IInv, TypeOK', UNCHANGED stateFile,
           \/ Boot \/ Health \/ Finalize \/ CommitDiscard \/ CommitRemove \/ Crash \/ Stop
           \/ SendObservation
    PROVE  ControlInv'
<1>0. ControlInv /\ TypeOK /\ UNCHANGED <<active, tombstones>>  BY DEF IInv, stateFile
<1> USE DEF ControlInv, ActiveIn, Position, Executing, Restoring, Confirming, Cause
<1>a. \A cause \in Cause : cause # None  BY NoneAssumption
<1>1. CASE Boot
  <2>1. CASE active = None
    BY <1>0, <2>1, <1>1 DEF Boot
  <2>2. CASE active # None
    <3>1. /\ active.id \in Directive /\ active.phase \in Phase /\ active.phase \notin Final
          /\ tombstones[active.id] = None /\ None # "failed"
      BY <1>0, <2>2, NoneAssumption DEF TypeOK, Record, Phase, Final
    <3>2. /\ rec' = active.id /\ why' = "interrupted"
          /\ \/ pc' = "recover" /\ active.phase = "staged"
             \/ pc' = "health" /\ active.phase \in {"swapped", "restart_requested"}
             \/ pc' = "giveUp"
      BY <1>1, <2>2 DEF Boot
    <3>3. QED
      BY <1>0, <1>a, <2>2, <3>1, <3>2
  <2>3. QED  BY <2>1, <2>2
<1>2. CASE Health
  BY <1>0, <1>a, <1>2 DEF Health, Recovering, engine
<1>3. CASE Finalize
  BY <1>0, <1>3 DEF Finalize, Try, engine
<1>4. CASE CommitDiscard
  BY <1>0, <1>4 DEF CommitDiscard, Discard, engine
<1>5. CASE CommitRemove
  BY <1>0, <1>5 DEF CommitRemove, RemoveJournal, Try, engine
<1>6. CASE Crash \/ Stop
  BY <1>0, <1>6, RestKeeps DEF Crash, Stop, engine
<1>7. CASE SendObservation
  BY <1>0, <1>7, RestKeeps DEF SendObservation, engine
<1>8. QED  BY <1>1, <1>2, <1>3, <1>4, <1>5, <1>6, <1>7

\* The phases of a rollback that is not finished, and where each save leads.
LEMMA SaveMoves ==
    ASSUME IInv, TypeOK', Advance \/ RecordSwapped \/ RequestRestart
    PROVE  ControlInv'
<1>0. ControlInv /\ TypeOK  BY DEF IInv
<1>1. PICK phase \in {"downloaded", "verified", "staged", "swapped", "restart_requested"},
           next \in {"advance", "swap", "requestRestart", "restart"} :
         /\ Save(phase, next)
         /\ next = "advance" => phase \in {"downloaded", "verified"}
         /\ next = "swap" => phase = "staged"
         /\ next = "requestRestart" => phase = "swapped"
         /\ next = "restart" => phase = "restart_requested"
         /\ active # None /\ active.id = rec /\ rec \in Directive /\ pc \in Executing
  <2>1. CASE Advance  BY <2>1, Saves DEF Advance, Executing
  <2>2. CASE RecordSwapped
    BY <1>0, <2>2, Saves DEF RecordSwapped, ControlInv, ActiveIn, Executing
  <2>3. CASE RequestRestart
    BY <1>0, <2>3, Saves DEF RequestRestart, ControlInv, ActiveIn, Executing
  <2>4. QED  BY <2>1, <2>2, <2>3
<1>2. phase \in Phase /\ phase \notin Final  BY DEF Phase, Final
<1>3. /\ tombstones[rec] = None /\ why = None /\ why' = None /\ rec' = rec
      /\ None \notin {"failed", "health"}
  BY <1>0, <1>1, NoneAssumption DEF ControlInv, Save, engine, Phase, Final, Cause
<1>4. CASE UNCHANGED stateFile /\ pc' = "idle"
  BY <1>0, <1>3, <1>4, RestKeeps DEF stateFile, ControlInv
<1>5. CASE Written(rec, phase) /\ pc' \in {next, "idle"}
  <2>1. active' # None /\ active'.id = rec /\ active'.phase = phase /\ tombstones' = tombstones
    BY <1>0, <1>1, <1>2, <1>5, WrittenFacts
  <2>2. CASE pc' = "idle"  BY <1>2, <1>3, <2>1, <2>2, RestKeeps
  <2>3. CASE pc' = next
    BY <1>1, <1>2, <1>3, <2>1, <2>3
    DEF ControlInv, ActiveIn, Position, Executing, Restoring, Confirming, Cause
  <2>4. QED  BY <1>5, <2>2, <2>3
<1>6. QED  BY <1>0, <1>1, <1>2, <1>4, <1>5, SaveFacts

\* The final records.
LEMMA FinalMoves ==
    ASSUME IInv, TypeOK', RecordRecovered \/ GiveUp \/ RecordHealthy
    PROVE  ControlInv'
<1>0. ControlInv /\ TypeOK /\ rec \in Directive  BY Saves DEF IInv
<1>1. PICK phase \in Final, next \in {"restart", "idle"} :
         /\ Save(phase, next)
         /\ next = "restart" => why = "health" /\ phase = "recovered"
  <2>1. CASE RecordRecovered  BY <2>1 DEF RecordRecovered, Final
  <2>2. CASE GiveUp  BY <2>2 DEF GiveUp, Final
  <2>3. CASE RecordHealthy  BY <2>3 DEF RecordHealthy, Final
  <2>4. QED  BY <2>1, <2>2, <2>3
<1>2. phase \in Phase  BY DEF Phase
<1>3. UNCHANGED <<rec, why>>  BY <1>1 DEF Save, engine
<1>4. CASE UNCHANGED stateFile /\ pc' = "idle"
  BY <1>0, <1>3, <1>4, RestKeeps DEF stateFile, ControlInv
<1>5. CASE Written(rec, phase) /\ pc' \in {next, "idle"}
  <2>1. active' = None /\ tombstones'[rec] = phase  BY <1>0, <1>2, <1>5, WrittenFacts
  <2>2. CASE pc' = "idle"  BY <1>0, <1>3, <2>1, <2>2, RestKeeps DEF ControlInv
  <2>3. CASE pc' = "restart"
    BY <1>0, <1>1, <1>3, <1>5, <2>1, <2>3
    DEF ControlInv, ActiveIn, Position, Executing, Restoring, Confirming, Cause
  <2>4. QED  BY <1>5, <2>2, <2>3
<1>6. QED  BY <1>0, <1>1, <1>2, <1>4, <1>5, SaveFacts

\* A directive is taken up.
LEMMA ExecuteMoves ==
    ASSUME IInv, TypeOK', NEW d \in Directive, Execute(d)
    PROVE  ControlInv'
<1>0. ControlInv /\ TypeOK /\ "received" \in Phase \ Final  BY DEF IInv, Phase, Final
<1>1. /\ rec' = d /\ why' = None /\ tombstones[d] = None /\ active = None
      /\ None \notin {"failed", "health"}
  BY NoneAssumption DEF Execute, Phase, Final, Cause
<1>2. CASE UNCHANGED stateFile /\ pc' = "idle"  BY <1>1, <1>2, RestKeeps DEF stateFile
<1>3. CASE Written(d, "received") /\ pc' \in {"prepare", "idle"}
  <2>1. active' # None /\ active'.id = d /\ active'.phase = "received" /\ tombstones' = tombstones
    BY <1>0, <1>3, WrittenFacts
  <2>2. CASE pc' = "idle"  BY <1>0, <1>1, <2>1, <2>2, RestKeeps
  <2>3. CASE pc' = "prepare"
    BY <1>0, <1>1, <2>1, <2>3
    DEF ControlInv, ActiveIn, Position, Executing, Restoring, Confirming, Cause
  <2>4. QED  BY <1>3, <2>2, <2>3
<1>4. QED  BY <1>2, <1>3 DEF Execute, Transition, Try

\* Every action keeps what the engine's position says.
LEMMA ControlKeeps == IInv /\ TypeOK' /\ [Next]_vars => ControlInv'
<1> SUFFICES ASSUME IInv, TypeOK', [Next]_vars PROVE ControlInv'
  OBVIOUS
<1>1. CASE \E d \in Directive : Execute(d)  BY <1>1, ExecuteMoves
<1>2. CASE \/ Prepare \/ SwapCopy \/ SwapPrepared \/ SwapBoundary \/ SwapRename \/ SwapDone
           \/ Restart \/ Restore \/ RecoverDiscard \/ RecoverRemove
  <2>1. UNCHANGED stateFile
    BY <1>2 DEF Prepare, SwapCopy, SwapPrepared, SwapBoundary, SwapRename, SwapDone, Restart,
                Restore, RecoverDiscard, RecoverRemove, WriteJournal, Discard, RemoveJournal
  <2>2. QED  BY <1>2, <2>1, EngineMoves
<1>3. CASE \/ Boot \/ Health \/ Finalize \/ CommitDiscard \/ CommitRemove \/ Crash \/ Stop
           \/ SendObservation
  <2>1. UNCHANGED stateFile
    BY <1>3 DEF Boot, Health, Finalize, CommitDiscard, CommitRemove, Crash, Stop,
                SendObservation, Discard, RemoveJournal
  <2>2. QED  BY <1>3, <2>1, ReconcileMoves
<1>4. CASE Advance \/ RecordSwapped \/ RequestRestart  BY <1>4, SaveMoves
<1>5. CASE RecordRecovered \/ GiveUp \/ RecordHealthy  BY <1>5, FinalMoves
<1>6. ASSUME NEW o \in server, Acknowledge(o) PROVE ControlInv'
  BY <1>6, RestKeeps DEF Acknowledge, IInv, ControlInv, engine
<1>7. CASE UNCHANGED vars
  BY <1>7 DEF vars, stateFile, engine, IInv, ControlInv, ActiveIn
<1>8. CASE Disown
  BY <1>8 DEF Disown, stateFile, engine, IInv, ControlInv, ActiveIn
<1>9. QED  BY <1>1, <1>2, <1>3, <1>4, <1>5, <1>6, <1>7, <1>8 DEF Next, Operation

-----------------------------------------------------------------------------
(* Reconcile finds healthy what is installed *)

\* The positions that claim something of the files and the journal by themselves.
Claiming == Confirming \cup (Restoring \ {"recover"})

\* Elsewhere nothing is claimed.
LEMMA SilentKeeps ==
    ASSUME pc' \notin Claiming
    PROVE  ConfirmInv'
  BY DEF ConfirmInv, Claiming, Confirming, Restoring

\* A save ends outside of those positions.
LEMMA SaveSilent ==
    ASSUME TypeOK, rec \in Directive, NEW phase \in Phase,
           NEW next \in {"advance", "swap", "requestRestart", "restart", "idle"}, Save(phase, next)
    PROVE  pc' \notin Claiming
<1>1. pc' \in {next, "idle"}  BY SaveFacts
<1>2. QED  BY <1>1 DEF Claiming, Confirming, Restoring

\* Every action keeps what Reconcile and the recovery know of the files.
LEMMA ConfirmKeeps == IInv /\ TypeOK' /\ [Next]_vars => ConfirmInv'
<1> SUFFICES ASSUME IInv, TypeOK', [Next]_vars PROVE ConfirmInv'
  OBVIOUS
<1>0. ConfirmInv /\ TypeOK /\ ControlInv  BY DEF IInv
<1>1. CASE Health
  <2>1. CASE Recovering("health")
    BY <2>1, SilentKeeps DEF Recovering, Claiming, Confirming, Restoring
  <2>2. CASE Inventory = Set(Target[rec]) /\ pc' = "finalize" /\ UNCHANGED engine
    <3>1. running = live[Agent] /\ rec \in Directive
      BY <1>0, <1>1 DEF ConfirmInv, ControlInv, Health
    <3>2. live \in FileSet /\ Agent \in Component  BY <1>0, RollbackAssumption DEF TypeOK
    <3>3. Inventory = live  BY <3>1, <3>2 DEF Inventory, FileSet
    <3>4. live' = Set(Target[rec']) /\ pc' = "finalize"
      BY <1>1, <2>2, <3>3 DEF Health, engine, files, Set
    <3>5. QED  BY <3>4 DEF ConfirmInv, Confirming
  <2>3. QED  BY <1>1, <2>1, <2>2 DEF Health
<1>2. CASE Boot
  <2>1. live' = live /\ running' = live[Agent]  BY <1>2 DEF Boot, files
  <2>2. pc' \in {"idle", "recover", "health", "giveUp"}
    BY <1>2 DEF Boot
  <2>3. QED  BY <2>1, <2>2 DEF ConfirmInv, Confirming
<1>3. CASE Finalize
  <2>1. live' = live /\ rec' = rec /\ pc = "finalize" BY <1>3 DEF Finalize, engine
  <2>2. CASE pc' = "idle"  BY <2>2, SilentKeeps DEF Claiming, Confirming, Restoring
  <2>3. CASE /\ pc' = "commit" /\ journal \in Journal
             /\ journal' = [journal EXCEPT !.state = "committed"]
    <3>1. journal' \in Journal /\ journal'.state = "committed"  BY <2>3 DEF Journal
    <3>2. journal' # None  BY <3>1, NoneAssumption
    <3>3. QED  BY <1>0, <2>1, <2>3, <3>1, <3>2 DEF ConfirmInv, Confirming, Set
  <2>4. QED  BY <1>0, <1>3, <2>2, <2>3 DEF Finalize, Try, TypeOK
<1>4. CASE CommitDiscard \/ RecoverDiscard
  BY <1>0, <1>4 DEF CommitDiscard, RecoverDiscard, Discard, engine, ConfirmInv, Confirming, Set
<1>5. CASE CommitRemove \/ RecoverRemove
  <2>1. CASE pc' \in {"idle", "giveUp"}  BY <2>1, SilentKeeps DEF Claiming, Confirming, Restoring
  <2>2. CASE CommitRemove /\ journal' = None /\ pc' = "recordHealthy"
    BY <1>0, <2>2 DEF CommitRemove, RemoveJournal, engine, ConfirmInv, Confirming, Set
  <2>3. CASE RecoverRemove /\ journal' = None /\ pc' = "recovered"
    BY <2>3 DEF ConfirmInv, Confirming
  <2>4. QED  BY <1>5, <2>1, <2>2, <2>3 DEF CommitRemove, RecoverRemove, RemoveJournal, Try
<1>6. CASE Restore
  <2>1. /\ pc' \in {"recover", "discard", "giveUp", "recovered"} /\ journal' = journal
        /\ pc' = "discard" => journal # None
        /\ pc' = "recovered" => journal = None
    BY <1>6 DEF Restore, Try
  <2>2. QED  BY <2>1 DEF ConfirmInv, Confirming
<1>7. CASE Disown \/ UNCHANGED vars
  BY <1>0, <1>7 DEF Disown, vars, files, engine, ConfirmInv, Set
<1>8. CASE \/ Prepare \/ SwapCopy \/ SwapPrepared \/ SwapBoundary \/ SwapRename \/ SwapDone
           \/ Restart \/ Crash \/ Stop \/ SendObservation \/ \E o \in server : Acknowledge(o)
           \/ \E d \in Directive : Execute(d)
  <2>1. pc' \in {"advance", "giveUp", "prepared", "recover", "boundary", "rename", "swapped",
                 "recordSwapped", "down", "idle", "prepare"}
    BY <1>8 DEF Prepare, SwapCopy, SwapPrepared, SwapBoundary, SwapRename, SwapDone, Restart,
                Crash, Stop, SendObservation, Acknowledge, Execute, Transition, Try, WriteJournal,
                Recovering
  <2>2. QED  BY <2>1, SilentKeeps DEF Claiming, Confirming, Restoring
<1>9. CASE Advance
  BY <1>0, <1>9, Saves, SaveSilent, SilentKeeps DEF Phase
<1>10. CASE RecordSwapped \/ RequestRestart \/ RecordRecovered \/ GiveUp \/ RecordHealthy
  <2>1. rec \in Directive  BY <1>10, Saves
  <2>2. {"swapped", "restart_requested", "recovered", "failed", "healthy"} \subseteq Phase
    BY DEF Phase, Final
  <2>3. QED
    BY <1>0, <1>10, <2>1, <2>2, SaveSilent, SilentKeeps
    DEF RecordSwapped, RequestRestart, RecordRecovered, GiveUp, RecordHealthy
<1>11. QED
  BY <1>1, <1>2, <1>3, <1>4, <1>5, <1>6, <1>7, <1>8, <1>9, <1>10 DEF Next, Operation

-----------------------------------------------------------------------------
(* Where the tombstones change *)

\* The only writes of a final record, each for the engine's directive.
LEMMA FinalRecords ==
    ASSUME IInv, [Next]_vars, NEW d \in Directive, tombstones'[d] # tombstones[d]
    PROVE  /\ d = rec /\ active' = None
           /\ \/ RecordRecovered /\ tombstones'[d] = "recovered"
              \/ RecordHealthy /\ tombstones'[d] = "healthy"
              \/ GiveUp /\ tombstones'[d] = "failed"
<1>0. TypeOK  BY DEF IInv
<1>1. ASSUME NEW e \in Directive, Execute(e) PROVE FALSE
  <2>1. "received" \in Phase \ Final  BY DEF Phase, Final
  <2>2. tombstones' = tombstones
    BY <1>0, <1>1, <2>1, WrittenFacts DEF Execute, Transition, Try, stateFile
  <2>3. QED  BY <2>2
<1>2. CASE Advance \/ RecordSwapped \/ RequestRestart
  <2>0. PICK phase \in {"downloaded", "verified", "staged", "swapped", "restart_requested"} :
           \E next : Save(phase, next) /\ rec \in Directive
    BY <1>2, Saves DEF RecordSwapped, RequestRestart
  <2>1. PICK next : Save(phase, next) /\ rec \in Directive  BY <2>0
  <2>2. phase \in Phase \ Final  BY DEF Phase, Final
  <2>3. tombstones' = tombstones  BY <1>0, <2>1, <2>2, SaveFacts, WrittenFacts DEF stateFile
  <2>4. QED  BY <2>3
<1>3. CASE RecordRecovered \/ GiveUp \/ RecordHealthy
  <2>1. rec \in Directive /\ Final \subseteq Phase  BY <1>3, Saves DEF Phase
  <2>2. ASSUME NEW phase \in Final, NEW next, Save(phase, next)
        PROVE  d = rec /\ tombstones'[d] = phase /\ active' = None
    <3>1. Written(rec, phase)  BY <1>0, <2>1, <2>2, SaveFacts DEF stateFile
    <3>2. QED  BY <1>0, <2>1, <3>1, WrittenFacts
  <2>3. QED  BY <1>3, <2>2 DEF RecordRecovered, GiveUp, RecordHealthy, Final
<1>4. CASE \/ Prepare \/ SwapCopy \/ SwapPrepared \/ SwapBoundary \/ SwapRename \/ SwapDone
           \/ Restart \/ Restore \/ RecoverDiscard \/ RecoverRemove
           \/ Boot \/ Health \/ Finalize \/ CommitDiscard \/ CommitRemove \/ Crash \/ Stop
           \/ SendObservation \/ (\E o \in server : Acknowledge(o)) \/ Disown \/ UNCHANGED vars
  <2>1. tombstones' = tombstones
    BY <1>4 DEF Prepare, SwapCopy, SwapPrepared, SwapBoundary, SwapRename, SwapDone, Restart,
                Restore, RecoverDiscard, RecoverRemove, WriteJournal, Discard, RemoveJournal,
                Boot, Health, Finalize, CommitDiscard, CommitRemove, Crash, Stop,
                SendObservation, Acknowledge, Disown, vars, stateFile
  <2>2. QED  BY <2>1
<1>5. QED  BY <1>1, <1>2, <1>3, <1>4 DEF Next, Operation

\* A failure that was recorded stays recorded.
LEMMA FailureStays ==
    ASSUME IInv, [Next]_vars, NeverFailed'
    PROVE  NeverFailed /\ ~(GiveUp /\ tombstones' # tombstones)
<1>0. TypeOK /\ ControlInv  BY DEF IInv
<1>1. ASSUME NEW d \in Directive PROVE tombstones[d] # "failed"
  <2>1. CASE tombstones'[d] = tombstones[d]  BY <2>1 DEF NeverFailed
  <2>2. CASE tombstones'[d] # tombstones[d]
    <3>1. d = rec /\ pc \in {"recovered", "recordHealthy", "giveUp"}
      BY <2>2, FinalRecords DEF RecordRecovered, RecordHealthy, GiveUp
    <3>2. QED  BY <1>0, <3>1 DEF ControlInv
  <2>3. QED  BY <2>1, <2>2
<1>2. ASSUME GiveUp, tombstones' # tombstones PROVE FALSE
  <2>1. rec \in Directive /\ "failed" \in Phase /\ "failed" \in Final
    BY <1>2, Saves DEF Phase, Final
  <2>2. Written(rec, "failed")  BY <1>0, <1>2, <2>1, SaveFacts DEF GiveUp, stateFile
  <2>3. QED  BY <1>0, <2>1, <2>2, WrittenFacts DEF NeverFailed
<1>3. QED  BY <1>1, <1>2 DEF NeverFailed

-----------------------------------------------------------------------------
(* The installed files and the journal *)

Files == NoJournal /\ SomeJournal /\ Committed /\ Progress

\* Positions that claim nothing of the files.
Quiet == {"idle", "down", "giveUp", "prepare", "advance", "health", "finalize", "commit",
          "committed", "recordHealthy"}

\* The whole sets are sets of files.
LEMMA WholeIsFileSet == \A f \in Whole : f \in FileSet /\ f # None
<1>1. \A d \in Directive : Set(Target[d]) \in FileSet  BY SetIsFileSet, RollbackAssumption
<1>2. QED  BY <1>1, RollbackAssumption, NoneAssumption DEF Whole

\* The set of a directive is the same before and after a step.
LEMMA WholeStays == Whole' = Whole /\ \A v : Set(v)' = Set(v)
  BY DEF Whole, Set

\* Nothing is installed, backed up or journalled, and no record is written.
LEMMA SameFiles ==
    ASSUME Files, UNCHANGED <<active, tombstones, journal, backup, live, found, committed>>
    PROVE  NoJournal' /\ SomeJournal' /\ Committed'
<1>1. NoJournal'  BY DEF Files, NoJournal, Owed, Whole, Set
<1>2. SomeJournal'  BY DEF Files, SomeJournal, Set
<1>3. Committed'  BY DEF Files, Committed, Whole, Set
<1>4. QED  BY <1>1, <1>2, <1>3

\* The engine claims nothing new.
LEMMA QuietFiles ==
    ASSUME Files, UNCHANGED <<active, tombstones, journal, backup, live, found, committed>>,
           pc' \in Quiet
    PROVE  Files'
<1>1. Progress'  BY DEF Progress, Quiet
<1>2. QED  BY <1>1, SameFiles DEF Files

\* A directive is taken up when no rollback is active: then there is no journal, and what
\* it finds is whole.
LEMMA ExecuteFiles ==
    ASSUME IInv, Files, NEW d \in Directive, Execute(d)
    PROVE  Files'
<1>0. TypeOK /\ "received" \in Phase \ Final  BY DEF IInv, Phase, Final
<1>1. /\ active = None /\ tombstones[d] = None /\ pc' \in {"prepare", "idle"}
      /\ UNCHANGED <<journal, backup, live, committed>> /\ found' = [found EXCEPT ![d] = live]
  BY DEF Execute, files, Transition, Try
<1>2. journal = None  BY <1>1 DEF Files, SomeJournal
<1>3. live \in Whole /\ found'[d] = live /\ d \notin committed
  BY <1>0, <1>1, <1>2 DEF Files, NoJournal, Committed, TypeOK
<1>4. tombstones' = tombstones /\ (active' = None \/ active'.id = d)
  BY <1>0, <1>1, WrittenFacts DEF Execute, Transition, Try, stateFile
<1>5. NoJournal'  BY <1>1, <1>2, <1>3, <1>4 DEF NoJournal, Owed, Whole, Set
<1>6. SomeJournal'  BY <1>1, <1>2 DEF SomeJournal
<1>7. Committed'
  <2>1. \A e \in committed' : tombstones'[e] # None  BY <1>1, <1>4 DEF Files, Committed
  <2>2. active' # None => found'[active'.id] \in Whole'  BY <1>3, <1>4, WholeStays
  <2>3. QED  BY <2>1, <2>2 DEF Committed
<1>8. Progress'  BY <1>1 DEF Progress
<1>9. QED  BY <1>5, <1>6, <1>7, <1>8 DEF Files

\* The saves before the swap, when nothing is committed.
LEMMA AdvanceFiles ==
    ASSUME IInv, Files, Advance
    PROVE  Files'
<1>0. TypeOK /\ ControlInv  BY DEF IInv
<1>1. PICK phase \in {"downloaded", "verified", "staged"} :
         /\ Save(phase, IF phase = "staged" THEN "swap" ELSE "advance")
         /\ active # None /\ active.id = rec /\ rec \in Directive
  BY Saves
<1>2. phase \in Phase \ Final  BY DEF Phase, Final
<1>3. /\ UNCHANGED <<journal, backup, live, rec, found, committed>>
      /\ pc' \in {"swap", "advance", "idle"}
  BY <1>0, <1>1, <1>2, SaveFacts DEF files, engine, history
<1>4. /\ active.phase \in {"received", "downloaded", "verified"}
      /\ tombstones[active.id] = None
  BY <1>0, <1>1 DEF Advance, ControlInv, ActiveIn
<1>5. journal = None /\ rec \notin committed
  BY <1>1, <1>4 DEF Files, SomeJournal, Committed
<1>6. tombstones' = tombstones /\ active' # None /\ active'.id = rec
  BY <1>0, <1>1, <1>2, SaveFacts, WrittenFacts DEF stateFile
<1>7. NoJournal'  BY <1>1, <1>3, <1>5, <1>6 DEF Files, NoJournal, Owed, Whole, Set
<1>8. SomeJournal'  BY <1>3, <1>5 DEF SomeJournal
<1>9. Committed'
  <2>1. \A e \in committed' : tombstones'[e] # None
    BY <1>1, <1>3, <1>5, <1>6 DEF Files, Committed
  <2>2. active' # None => found'[active'.id] \in Whole'
    BY <1>1, <1>3, <1>6, WholeStays DEF Files, Committed
  <2>3. QED  BY <2>1, <2>2 DEF Committed
<1>10. Progress'  BY <1>3, <1>5 DEF Progress
<1>11. QED  BY <1>7, <1>8, <1>9, <1>10 DEF Files

\* The saves after the swap, with its journal on disk.
LEMMA SwappedFiles ==
    ASSUME IInv, Files, RecordSwapped \/ RequestRestart
    PROVE  Files'
<1>0. TypeOK /\ ControlInv  BY DEF IInv
<1>1. /\ active # None /\ active.id = rec /\ rec \in Directive
      /\ pc \in {"recordSwapped", "requestRestart"} /\ why = None
  BY <1>0 DEF RecordSwapped, RequestRestart, ControlInv, ActiveIn, Executing
<1>2. PICK phase \in {"swapped", "restart_requested"}, next \in {"requestRestart", "restart"} :
         Save(phase, next)
  BY DEF RecordSwapped, RequestRestart
<1>3. phase \in Phase \ Final  BY DEF Phase, Final
<1>4. /\ UNCHANGED <<journal, backup, live, rec, found, committed>>
      /\ pc' \in {"requestRestart", "restart", "idle"}
  BY <1>0, <1>1, <1>2, <1>3, SaveFacts DEF files, engine, history
<1>5. journal # None /\ journal.state # "committed"  BY <1>1 DEF Files, Progress
<1>6. /\ tombstones' = tombstones /\ active' # None /\ active'.id = rec
      /\ active'.phase \in {active.phase, "swapped", "restart_requested"}
  BY <1>0, <1>1, <1>2, <1>3, SaveFacts, WrittenFacts DEF stateFile
<1>7. NoJournal'  BY <1>4, <1>5 DEF NoJournal
<1>8. SomeJournal'  BY <1>1, <1>4, <1>5, <1>6 DEF Files, SomeJournal
<1>9. Committed'
  <2>1. \A e \in committed' : tombstones'[e] = None =>
           active'.id = e /\ active'.phase \in {"swapped", "restart_requested"}
    BY <1>1, <1>4, <1>6 DEF Files, Committed
  <2>2. found'[active'.id] \in Whole'
    BY <1>1, <1>4, <1>6, WholeStays DEF Files, Committed
  <2>3. QED  BY <1>6, <2>1, <2>2 DEF Committed
<1>10. Progress'  BY <1>4, <1>5 DEF Progress
<1>11. QED  BY <1>7, <1>8, <1>9, <1>10 DEF Files

\* The engine turns to the recovery, which has not restored anything yet.
LEMMA RecoveringFiles ==
    ASSUME NoJournal', SomeJournal', Committed', pc' = "recover", at' = 1
    PROVE  Files'
<1>1. \A c \in Component : ~(c < 1)  BY DEF Component
<1>2. Progress'  BY <1>1 DEF Progress
<1>3. QED  BY <1>2 DEF Files

\* The copies of the old files.
LEMMA SwapCopyFiles ==
    ASSUME IInv, Files, SwapCopy
    PROVE  Files'
<1>0. TypeOK /\ ControlInv  BY DEF IInv
<1>1. UNCHANGED <<active, tombstones, journal, live, rec, found, committed>>
  BY DEF SwapCopy, stateFile, engine, history, Recovering
<1>2. /\ active # None /\ active.id = rec /\ active.phase = "staged" /\ rec \in Directive
      /\ tombstones[rec] = None /\ journal = None
  BY <1>0 DEF SwapCopy, ControlInv, ActiveIn, Files, Progress
<1>3. live = found[rec]  BY <1>2 DEF Files, NoJournal, Committed, Owed
<1>4. NoJournal'  BY <1>1 DEF Files, NoJournal, Owed, Whole, Set
<1>5. SomeJournal'  BY <1>1, <1>2 DEF SomeJournal
<1>6. Committed'  BY <1>1 DEF Files, Committed, Whole, Set
<1>7. CASE Recovering("swap")
  BY <1>4, <1>5, <1>6, <1>7, RecoveringFiles DEF Recovering
<1>8. CASE pc' = "prepared" /\ backup' = [backup EXCEPT ![rec] = live]
  <2>1. backup'[rec] = found[rec]  BY <1>0, <1>2, <1>3, <1>8 DEF TypeOK
  <2>2. Progress'  BY <1>1, <1>2, <1>8, <2>1 DEF Progress
  <2>3. QED  BY <1>4, <1>5, <1>6, <2>2 DEF Files
<1>9. QED  BY <1>7, <1>8 DEF SwapCopy

\* The first journal: the copies are there before it, and are taken back when it fails.
LEMMA SwapPreparedFiles ==
    ASSUME IInv, Files, SwapPrepared
    PROVE  Files'
<1>0. TypeOK /\ ControlInv  BY DEF IInv
<1>1. UNCHANGED <<active, tombstones, live, rec, found, committed>>
  BY DEF SwapPrepared, WriteJournal, Try, stateFile, history, Recovering
<1>2. /\ active # None /\ active.id = rec /\ active.phase = "staged" /\ rec \in Directive
      /\ tombstones[rec] = None /\ journal = None /\ backup[rec] = found[rec]
  BY <1>0 DEF SwapPrepared, ControlInv, ActiveIn, Files, Progress
<1>3. rec \notin committed /\ live = found[rec] /\ found[rec] # None
  BY <1>2, WholeIsFileSet DEF Files, NoJournal, Committed, Owed
<1>4. NoJournal'  BY <1>1, <1>2 DEF Files, NoJournal, Owed, Whole, Set
<1>5. [id |-> rec, state |-> "prepared"] # None  BY <1>2, JournalWritten
<1>6. Committed'  BY <1>1 DEF Files, Committed, Whole, Set
<1>7. CASE /\ backup' = [backup EXCEPT ![rec] = None] /\ Recovering("swap")
           /\ journal' \in {journal, [id |-> rec, state |-> "prepared"]}
  <2>1. backup'[rec] = None  BY <1>0, <1>2, <1>7 DEF TypeOK
  <2>2. SomeJournal'  BY <1>1, <1>2, <1>3, <1>7, <2>1 DEF SomeJournal
  <2>3. QED  BY <1>4, <1>6, <1>7, <2>2, RecoveringFiles DEF Recovering
<1>8. CASE /\ journal' = [id |-> rec, state |-> "prepared"] /\ pc' = "boundary" /\ backup' = backup
  <2>1. SomeJournal'  BY <1>1, <1>2, <1>3, <1>8 DEF SomeJournal
  <2>2. Progress'  BY <1>1, <1>2, <1>3, <1>5, <1>8 DEF Progress
  <2>3. QED  BY <1>4, <1>6, <2>1, <2>2 DEF Files
<1>9. QED  BY <1>7, <1>8 DEF SwapPrepared, WriteJournal, Try

\* The journal during the swap: the backups are there whatever is installed.
LEMMA SwapFiles ==
    ASSUME IInv, Files, SwapBoundary \/ SwapRename \/ SwapDone
    PROVE  Files'
<1>0. TypeOK /\ ControlInv  BY DEF IInv
<1>1. UNCHANGED <<active, tombstones, backup, rec, found, committed>>
  BY DEF SwapBoundary, SwapRename, SwapDone, WriteJournal, Try, stateFile, history, Recovering,
         engine
<1>2. /\ active # None /\ active.id = rec /\ active.phase = "staged" /\ rec \in Directive
      /\ journal # None /\ journal.state # "committed" /\ backup[rec] # None
  BY <1>0 DEF SwapBoundary, SwapRename, SwapDone, ControlInv, ActiveIn, Files, Progress
<1>3. journal.id = rec /\ backup[rec] = found[rec] /\ rec \notin committed
  BY <1>2 DEF Files, SomeJournal
<1>4. /\ [id |-> rec, state |-> "swapping"] # None
      /\ [id |-> rec, state |-> "swapped"] # None
  BY <1>2, JournalWritten
<1>5. journal' # None /\ journal'.id = rec /\ journal'.state # "committed"
  BY <1>2, <1>3, <1>4 DEF SwapBoundary, SwapRename, SwapDone, WriteJournal, Try
<1>6. NoJournal'  BY <1>5 DEF NoJournal
<1>7. SomeJournal'  BY <1>1, <1>2, <1>3, <1>5 DEF SomeJournal
<1>8. Committed'  BY <1>1 DEF Files, Committed, Whole, Set
<1>9. Recovering("swap") \/ pc' \in {"rename", "boundary", "swapped", "recordSwapped"}
  BY DEF SwapBoundary, SwapRename, SwapDone, WriteJournal, Try
<1>10. CASE Recovering("swap")
  BY <1>6, <1>7, <1>8, <1>10, RecoveringFiles DEF Recovering
<1>11. CASE pc' \in {"rename", "boundary", "swapped", "recordSwapped"}
  <2>1. Progress'  BY <1>1, <1>2, <1>5, <1>11 DEF Progress
  <2>2. QED  BY <1>6, <1>7, <1>8, <2>1 DEF Files
<1>12. QED  BY <1>9, <1>10, <1>11

\* The checks and the restarts: the engine rests, goes on, or turns to the recovery.
LEMMA TurnFiles ==
    ASSUME Files, Prepare \/ Restart \/ Boot \/ Health
    PROVE  Files'
<1>1. UNCHANGED <<active, tombstones, journal, backup, live, found, committed>>
  BY DEF Prepare, Restart, Boot, Health, stateFile, files, history
<1>2. CASE pc' \in Quiet  BY <1>1, <1>2, QuietFiles
<1>3. CASE pc' = "recover" /\ at' = 1
  BY <1>1, <1>3, SameFiles, RecoveringFiles
<1>4. QED  BY <1>2, <1>3 DEF Prepare, Restart, Boot, Health, Recovering, Quiet

\* Backend.Recover restores the old set from the backups, keeps a committed one, and has
\* nothing to do without a journal.
LEMMA RestoreFiles ==
    ASSUME IInv, TypeOK', Files, Restore
    PROVE  Files'
<1>0. TypeOK /\ ControlInv  BY DEF IInv
<1>1. /\ UNCHANGED <<active, tombstones, journal, backup, rec, why, found, committed>>
      /\ pc = "recover"
  BY DEF Restore, stateFile, history
<1>2. active # None /\ active.id = rec /\ rec \in Directive
  BY <1>0, <1>1 DEF ControlInv, ActiveIn, Restoring, Cause
<1>3. CASE pc' = "giveUp" /\ live' = live  BY <1>1, <1>3, QuietFiles DEF Quiet
<1>4. CASE journal = None /\ pc' = "recovered" /\ live' = live
  <2>1. Progress'  BY <1>4 DEF Progress
  <2>2. QED  BY <1>1, <1>4, <2>1, SameFiles DEF Files
<1>5. CASE journal # None /\ KeepsTarget(journal) /\ pc' = "discard" /\ live' = live
  <2>1. live = Set(Target[rec]) /\ rec \in committed
    BY <1>1, <1>2, <1>5 DEF Files, SomeJournal, KeepsTarget
  <2>2. Progress'  BY <1>1, <1>5, <2>1 DEF Progress, Owed, Set
  <2>3. QED  BY <1>1, <1>5, <2>2, SameFiles DEF Files
<1>6. CASE /\ journal # None /\ ~KeepsTarget(journal) /\ backup[journal.id] # None
           /\ Try(live' = [live EXCEPT ![at] = backup[journal.id][at]], UNCHANGED live,
                  IF Restored(at) THEN pc' = "discard" /\ UNCHANGED at
                                  ELSE at' = at + 1 /\ UNCHANGED pc,
                  pc' = "giveUp" /\ UNCHANGED at)
  <2>1. /\ journal.id = rec /\ journal.state # "committed" /\ rec \notin committed
        /\ backup[rec] = found[rec] /\ at \in Component
    BY <1>0, <1>2, <1>6 DEF Files, SomeJournal, KeepsTarget, TypeOK
  <2>2. found[rec] \in FileSet  BY <1>2, WholeIsFileSet DEF Files, Committed
  <2>3. NoJournal'  BY <1>1, <1>6 DEF NoJournal
  <2>4. SomeJournal'
    <3>1. active.phase \in {"staged", "swapped", "restart_requested"}
      BY <1>6 DEF Files, SomeJournal
    <3>2. QED  BY <1>1, <1>2, <1>6, <2>1, <3>1 DEF SomeJournal
  <2>5. Committed'  BY <1>1 DEF Files, Committed, Whole, Set
  <2>6. CASE pc' = "giveUp"
    BY <2>3, <2>4, <2>5, <2>6 DEF Files, Progress
  <2>7. CASE /\ live' = [live EXCEPT ![at] = backup[journal.id][at]]
             /\ IF Restored(at) THEN pc' = "discard" /\ UNCHANGED at
                                ELSE at' = at + 1 /\ UNCHANGED pc
    <3>1. backup[journal.id][at] = found[rec][at]  BY <2>1
    <3>2. \A c \in Component : live'[c] = IF c = at THEN found[rec][c] ELSE live[c]
      BY <1>0, <2>7, <3>1 DEF TypeOK, FileSet
    <3>3. \A c \in Component : c < at => live[c] = found[rec][c]  BY <1>1 DEF Files, Progress
    <3>4. CASE at = Components /\ pc' = "discard"
      <4>1. \A c \in Component : live'[c] = found[rec][c]
        BY <3>2, <3>3, <3>4, RollbackAssumption DEF Component
      <4>2. live' = found[rec]  BY <2>2, <4>1 DEF TypeOK, FileSet
      <4>3. Progress'  BY <1>1, <2>1, <3>4, <4>2 DEF Progress, Owed
      <4>4. QED  BY <2>3, <2>4, <2>5, <4>3 DEF Files
    <3>5. CASE at' = at + 1 /\ pc' = "recover"
      <4>1. \A c \in Component : c < at + 1 => c < at \/ c = at
        BY <2>1, RollbackAssumption DEF Component
      <4>2. \A c \in Component : c < at' => live'[c] = found[rec][c]
        BY <3>2, <3>3, <3>5, <4>1
      <4>3. Progress'  BY <1>1, <3>5, <4>2 DEF Progress
      <4>4. QED  BY <2>3, <2>4, <2>5, <4>3 DEF Files
    <3>6. QED  BY <1>1, <2>7, <3>4, <3>5 DEF Restored
  <2>8. QED  BY <1>6, <2>6, <2>7 DEF Try
<1>7. QED  BY <1>3, <1>4, <1>5, <1>6 DEF Restore

\* The backups go once the set is whole.
LEMMA DiscardFiles ==
    ASSUME IInv, Files, RecoverDiscard \/ CommitDiscard
    PROVE  Files'
<1>0. TypeOK /\ ControlInv /\ ConfirmInv  BY DEF IInv
<1>1. /\ UNCHANGED <<active, tombstones, journal, live, rec, why, found, committed>>
      /\ journal # None /\ backup' = [backup EXCEPT ![journal.id] = None]
      /\ \/ pc = "discard" /\ pc' = "discarded"
         \/ pc = "commit" /\ pc' = "committed"
  BY <1>0 DEF RecoverDiscard, CommitDiscard, Discard, stateFile, engine, history, ConfirmInv
<1>2. journal.id \in Directive  BY <1>0, <1>1 DEF TypeOK, Journal
<1>3. backup'[journal.id] = None  BY <1>0, <1>1, <1>2 DEF TypeOK
<1>4. journal.id = rec
  BY <1>0, <1>1 DEF Files, SomeJournal, ControlInv, ActiveIn, Restoring, Confirming, Cause
<1>5. journal.state # "committed" => live = found[journal.id]
  BY <1>0, <1>1, <1>4 DEF Files, SomeJournal, Progress, ConfirmInv, Owed
<1>6. NoJournal'  BY <1>1 DEF NoJournal
<1>7. SomeJournal'  BY <1>1, <1>3, <1>5 DEF Files, SomeJournal, Set
<1>8. Committed'  BY <1>1 DEF Files, Committed, Whole, Set
<1>9. Progress'  BY <1>1 DEF Files, Progress, Owed, Set
<1>10. QED  BY <1>6, <1>7, <1>8, <1>9 DEF Files

\* The journal goes last, with the old set or a committed one installed.
LEMMA RemoveFiles ==
    ASSUME IInv, Files, RecoverRemove \/ CommitRemove
    PROVE  Files'
<1>0. TypeOK /\ ControlInv /\ ConfirmInv  BY DEF IInv
<1>1. UNCHANGED <<active, tombstones, backup, live, rec, why, found, committed>>
  BY DEF RecoverRemove, CommitRemove, RemoveJournal, stateFile, engine, history
<1>2. CASE UNCHANGED journal /\ pc' \in {"giveUp", "idle"}  BY <1>1, <1>2, QuietFiles DEF Quiet
<1>3. CASE journal' = None
  <2>1. pc' \in {"recovered", "giveUp", "recordHealthy", "idle"}
    BY DEF RecoverRemove, CommitRemove, RemoveJournal, Try
  <2>2. active # None /\ active.id = rec /\ rec \in Directive /\ live = Owed(rec)
    <3>1. CASE RecoverRemove
      BY <1>0, <3>1
      DEF RecoverRemove, RemoveJournal, ControlInv, ActiveIn, Restoring, Cause, Files, Progress
    <3>2. CASE CommitRemove
      <4>1. /\ active # None /\ active.id = rec /\ rec \in Directive /\ live = Set(Target[rec])
            /\ journal # None /\ journal.state = "committed"
        BY <1>0, <3>2 DEF CommitRemove, RemoveJournal, ControlInv, ActiveIn, Confirming, ConfirmInv
      <4>2. rec \in committed  BY <4>1 DEF Files, SomeJournal
      <4>3. QED  BY <4>1, <4>2 DEF Owed
    <3>3. QED  BY <3>1, <3>2
  <2>3. live \in Whole  BY <2>2 DEF Owed, Whole, Files, Committed
  <2>4. NoJournal'
    <3>1. live' \in Whole'  BY <1>1, <2>3, WholeStays
    <3>2. live' = Owed(active.id)'  BY <1>1, <2>2 DEF Owed, Set
    <3>3. QED  BY <3>1, <3>2 DEF NoJournal
  <2>5. SomeJournal'  BY <1>3 DEF SomeJournal
  <2>6. Committed'  BY <1>1 DEF Files, Committed, Whole, Set
  <2>7. Progress'  BY <2>1 DEF Progress
  <2>8. QED  BY <2>4, <2>5, <2>6, <2>7 DEF Files
<1>4. QED  BY <1>2, <1>3 DEF RecoverRemove, CommitRemove, RemoveJournal, Try

\* The commit keeps a set that was found healthy.
LEMMA FinalizeFiles ==
    ASSUME IInv, Files, Finalize
    PROVE  Files'
<1>0. TypeOK /\ ControlInv /\ ConfirmInv  BY DEF IInv
<1>1. /\ UNCHANGED <<active, tombstones, backup, live, rec, found>>
      /\ pc' \in {"commit", "idle"}
  BY DEF Finalize, Try, stateFile, engine
<1>2. CASE UNCHANGED <<journal, committed>>  BY <1>1, <1>2, QuietFiles DEF Quiet
<1>3. CASE /\ journal # None /\ journal' = [journal EXCEPT !.state = "committed"]
           /\ committed' = committed \cup {journal.id}
  <2>1. journal \in Journal  BY <1>0, <1>3 DEF TypeOK
  <2>2. journal' \in Journal /\ journal'.state = "committed" /\ journal'.id = journal.id
    BY <1>3, <2>1 DEF Journal
  <2>3. journal' # None  BY <2>2, NoneAssumption
  <2>4. /\ active # None /\ active.id = rec /\ active.phase \in {"swapped", "restart_requested"}
        /\ live = Set(Target[rec])
    BY <1>0 DEF Finalize, ControlInv, ConfirmInv, ActiveIn, Confirming
  <2>5. journal.id = rec  BY <1>3, <2>4 DEF Files, SomeJournal
  <2>6. NoJournal'  BY <2>3 DEF NoJournal
  <2>7. SomeJournal'  BY <1>1, <1>3, <2>2, <2>4, <2>5 DEF SomeJournal, Set
  <2>8. Committed'
    <3>1. \A e \in committed' : tombstones'[e] = None =>
             active.id = e /\ active.phase \in {"swapped", "restart_requested"}
      BY <1>1, <1>3, <2>4, <2>5 DEF Files, Committed
    <3>2. found'[active'.id] \in Whole'  BY <1>1, <2>4, WholeStays DEF Files, Committed
    <3>3. QED  BY <1>1, <2>4, <3>1, <3>2 DEF Committed
  <2>9. Progress'  BY <1>1 DEF Progress
  <2>10. QED  BY <2>6, <2>7, <2>8, <2>9 DEF Files
<1>4. QED  BY <1>2, <1>3 DEF Finalize, Try

\* A final record of a rollback that did not fail: the journal is gone and the set whole.
LEMMA FinalFiles ==
    ASSUME IInv, Files, RecordRecovered \/ RecordHealthy
    PROVE  Files'
<1>0. TypeOK /\ ControlInv /\ ConfirmInv /\ rec \in Directive  BY Saves DEF IInv
<1>1. PICK phase \in Final, next \in {"restart", "idle"} :
         /\ Save(phase, next)
         /\ next = "restart" => why = "health"
  BY DEF RecordRecovered, RecordHealthy, Final
<1>2. phase \in Phase  BY DEF Phase
<1>3. /\ UNCHANGED <<journal, backup, live, why, found, committed>> /\ pc' \in {"restart", "idle"}
      /\ pc' = "restart" => why = "health"
  BY <1>0, <1>1, <1>2, SaveFacts DEF files, engine, history
<1>4. CASE UNCHANGED stateFile /\ pc' = "idle"
  BY <1>3, <1>4, QuietFiles DEF stateFile, Quiet
<1>5. CASE Written(rec, phase)
  <2>1. /\ active' = None /\ tombstones'[rec] # None
        /\ \A e \in Directive : e # rec => tombstones'[e] = tombstones[e]
    BY <1>0, <1>2, <1>5, WrittenFacts, NoneAssumption
  <2>2. /\ journal = None /\ active # None /\ active.id = rec
    BY <1>0 DEF RecordRecovered, RecordHealthy, ConfirmInv, ControlInv, ActiveIn, Restoring,
                Confirming, Cause
  <2>3. NoJournal'  BY <1>3, <2>1, <2>2 DEF Files, NoJournal, Whole, Set
  <2>4. SomeJournal'  BY <1>3, <2>2 DEF SomeJournal
  <2>5. Committed'
    <3>1. committed \subseteq Directive  BY <1>0 DEF TypeOK
    <3>2. \A e \in committed' : tombstones'[e] # None
      BY <1>3, <2>1, <2>2, <3>1 DEF Files, Committed
    <3>3. QED  BY <2>1, <3>2 DEF Committed
  <2>6. Progress'  BY <1>3 DEF Progress
  <2>7. QED  BY <2>3, <2>4, <2>5, <2>6 DEF Files
<1>6. QED  BY <1>0, <1>1, <1>2, <1>4, <1>5, SaveFacts

\* A failure that did not reach the disk.
LEMMA GiveUpFiles ==
    ASSUME IInv, Files, GiveUp, tombstones' = tombstones
    PROVE  Files'
<1>0. TypeOK /\ ControlInv /\ rec \in Directive /\ "failed" \in Phase /\ "failed" \in Final
  BY Saves DEF IInv, Phase, Final
<1>1. UNCHANGED <<journal, backup, live, found, committed>>
  BY DEF GiveUp, Save, files, history
<1>2. ~Written(rec, "failed")
  <2>1. tombstones[rec] # "failed"  BY <1>0 DEF ControlInv, GiveUp
  <2>2. QED  BY <1>0, <2>1, WrittenFacts
<1>3. UNCHANGED stateFile /\ pc' = "idle"  BY <1>0, <1>2, SaveFacts DEF GiveUp
<1>4. QED  BY <1>1, <1>3, QuietFiles DEF stateFile, Quiet

\* Every action keeps what the journal says about the files.
LEMMA FilesKeep == IInv /\ TypeOK' /\ [Next]_vars => FilesInv'
<1> SUFFICES ASSUME IInv, TypeOK', [Next]_vars, NeverFailed'
             PROVE  Files'
  BY DEF FilesInv, Files
<1>0. NeverFailed /\ (GiveUp => tombstones' = tombstones)  BY FailureStays
<1>1. Files  BY <1>0 DEF IInv, FilesInv, Files
<1>2. CASE \E d \in Directive : Execute(d)  BY <1>1, <1>2, ExecuteFiles
<1>3. CASE Prepare \/ Restart \/ Boot \/ Health  BY <1>1, <1>3, TurnFiles
<1>4. CASE Advance \/ RecordSwapped \/ RequestRestart
  BY <1>1, <1>4, AdvanceFiles, SwappedFiles
<1>5. CASE SwapCopy \/ SwapPrepared \/ SwapBoundary \/ SwapRename \/ SwapDone
  BY <1>1, <1>5, SwapCopyFiles, SwapPreparedFiles, SwapFiles
<1>6. CASE Restore \/ RecoverDiscard \/ RecoverRemove \/ CommitDiscard \/ CommitRemove
  BY <1>1, <1>6, RestoreFiles, DiscardFiles, RemoveFiles
<1>7. CASE RecordRecovered \/ RecordHealthy \/ GiveUp
  BY <1>0, <1>1, <1>7, FinalFiles, GiveUpFiles
<1>8. CASE Finalize  BY <1>1, <1>8, FinalizeFiles
<1>9. CASE Crash \/ Stop \/ SendObservation \/ \E o \in server : Acknowledge(o)
  <2>1. /\ UNCHANGED <<active, tombstones, journal, backup, live, found, committed>>
        /\ pc' \in {"down", "idle"}
    BY <1>9 DEF Crash, Stop, SendObservation, Acknowledge, stateFile, files, history
  <2>2. QED  BY <1>1, <2>1, QuietFiles DEF Quiet
<1>10. CASE Disown \/ UNCHANGED vars
  <2>1. UNCHANGED <<active, tombstones, journal, backup, live, found, committed, pc, rec, at, why>>
    BY <1>10 DEF Disown, vars, stateFile, files, engine, history
  <2>2. Progress'  BY <1>1, <2>1 DEF Files, Progress, Owed, Set
  <2>3. QED  BY <1>1, <2>1, <2>2, SameFiles DEF Files
<1>11. QED
  BY <1>2, <1>3, <1>4, <1>5, <1>6, <1>7, <1>8, <1>9, <1>10 DEF Next, Operation

-----------------------------------------------------------------------------
(* The theorems *)

\* An agent starts with a whole set and no rollback.
LEMMA InitEstablishes == Init => IInv
<1> SUFFICES ASSUME Init PROVE IInv
  OBVIOUS
<1>1. TypeOK
  <2>1. 1 \in Component /\ Installed \in FileSet /\ Installed[Agent] \in Version
    BY RollbackAssumption DEF Component, FileSet
  <2>2. QED  BY <2>1, RollbackAssumption DEF Init, TypeOK
<1>2. ControlInv  BY DEF Init, ControlInv, Position, Executing, Restoring, Confirming
<1>3. ConfirmInv  BY DEF Init, ConfirmInv, Confirming
<1>4. NoJournal /\ SomeJournal /\ Committed
  BY DEF Init, NoJournal, SomeJournal, Committed, Whole
<1>5. Progress  BY DEF Init, Progress
<1>6. QED  BY <1>1, <1>2, <1>3, <1>4, <1>5 DEF IInv, FilesInv

\* The invariant is inductive.
LEMMA StepKeeps == IInv /\ [Next]_vars => IInv'
  BY TypeKeeps, ControlKeeps, ConfirmKeeps, FilesKeep DEF IInv

\* It holds in every reachable state.
LEMMA Invariance == Spec => []IInv
  BY InitEstablishes, StepKeeps, PTL DEF Spec

\* The state file, the journal, the files and the engine keep their types.
THEOREM TypeCorrect == Spec => []TypeOK
<1>1. IInv => TypeOK  BY DEF IInv
<1>2. QED  BY <1>1, Invariance, PTL

\* An interrupted swap can be undone: whenever the installed files are no set that was ever
\* installed as a whole, the journal of the active rollback and the copies of the old files
\* are on disk.
THEOREM MixedIsRecoverableHolds == Spec => []MixedIsRecoverable
<1>1. ASSUME IInv PROVE MixedIsRecoverable
  <2> SUFFICES ASSUME Mixed, NeverFailed
               PROVE  journal # None /\ journal.state # "committed" /\ backup[journal.id] # None
    BY DEF MixedIsRecoverable
  <2>1. TypeOK /\ NoJournal /\ SomeJournal /\ Committed  BY <1>1 DEF IInv, FilesInv
  <2>2. journal # None  BY <2>1 DEF NoJournal, Mixed
  <2>3. journal.id \in Directive /\ active # None /\ journal.id = active.id
    BY <2>1, <2>2 DEF TypeOK, Journal, SomeJournal
  <2>4. Set(Target[journal.id]) \in Whole /\ found[journal.id] \in Whole
    BY <2>1, <2>3 DEF Whole, Committed
  <2>5. QED  BY <2>1, <2>2, <2>4 DEF SomeJournal, Mixed
<1>2. QED  BY <1>1, Invariance, PTL

\* Reconcile records `healthy` over the whole target set, with the swap committed.
THEOREM HealthyIsTargetHolds == Spec => HealthyIsTarget
<1>1. ASSUME IInv, [Next]_vars,
             NEW d \in Directive, tombstones'[d] = "healthy", tombstones[d] # "healthy"
      PROVE  live = Set(Target[d]) /\ journal = None
  <2>1. d = rec /\ pc = "recordHealthy"
    BY <1>1, FinalRecords DEF RecordHealthy
  <2>2. QED  BY <1>1, <2>1 DEF IInv, ConfirmInv, Confirming
<1>2. ASSUME IInv, [Next]_vars
      PROVE  \A d \in Directive : tombstones'[d] = "healthy" /\ tombstones[d] # "healthy"
                 => live = Set(Target[d]) /\ journal = None
  BY <1>1, <1>2
<1>3. QED  BY <1>2, Invariance, PTL DEF Spec, HealthyIsTarget

\* Engine and backend record `recovered` over the very files that the rollback found or, after
\* a commit that was cut off from its record, over the whole target set.
THEOREM RecoveredIsWholeHolds == Spec => RecoveredIsWhole
<1>1. ASSUME IInv, [Next]_vars, NeverFailed,
             NEW d \in Directive, tombstones'[d] = "recovered", tombstones[d] # "recovered"
      PROVE  /\ live = IF d \in committed THEN Set(Target[d]) ELSE found[d]
             /\ live \in Whole
  <2>1. d = rec /\ pc = "recovered"
    BY <1>1, FinalRecords DEF RecordRecovered
  <2>2. journal = None /\ active # None /\ active.id = rec
    BY <1>1, <2>1 DEF IInv, ConfirmInv, ControlInv, ActiveIn, Restoring, Cause
  <2>3. NoJournal  BY <1>1 DEF IInv, FilesInv
  <2>4. QED  BY <2>1, <2>2, <2>3 DEF NoJournal, Owed
<1>2. ASSUME IInv, [Next]_vars
      PROVE  \A d \in Directive :
                tombstones'[d] = "recovered" /\ tombstones[d] # "recovered" /\ NeverFailed
                => /\ live = IF d \in committed THEN Set(Target[d]) ELSE found[d]
                   /\ live \in Whole
  BY <1>1, <1>2
<1>3. QED  BY <1>2, Invariance, PTL DEF Spec, RecoveredIsWhole

\* Acknowledge takes out no observation but one the server has, late or twice as it may come.
THEOREM ObservationsKeptHolds == Spec => ObservationsKept
<1>1. ASSUME IInv, IInv', [Next]_vars PROVE Observed \subseteq Observed'
  <2>0. /\ pending \in Seq(Record) /\ pending' \in Seq(Record)
        /\ Len(pending) \in Nat /\ TypeOK
    BY <1>1 DEF IInv, TypeOK
  <2>1. CASE UNCHANGED pending /\ server \subseteq server'  BY <2>1 DEF Observed
  <2>2. ASSUME NEW o \in server, Acknowledge(o) PROVE Observed \subseteq Observed'
    <3>1. server' = server  BY <2>2 DEF Acknowledge
    <3>2. QED  BY <2>0, <2>2, <3>1, AcknowledgeFacts DEF Observed
  <2>3. ASSUME server' = server,
               NEW r \in Record, pending' = Append(pending, r) PROVE Observed \subseteq Observed'
    <3>1. Len(pending') = Len(pending) + 1 /\ \A i \in 1..Len(pending) : pending'[i] = pending[i]
      BY <2>0, <2>3
    <3>2. \A i \in 1..Len(pending) : i \in 1..Len(pending')  BY <2>0, <3>1
    <3>3. QED  BY <2>3, <3>1, <3>2 DEF Observed
  <2>4. ASSUME NEW d \in Directive, NEW phase \in Phase, NEW next, Transition(d, phase, next),
               server' = server
        PROVE  Observed \subseteq Observed'
    <3>1. [id |-> d, phase |-> phase] \in Record  BY DEF Record
    <3>2. CASE UNCHANGED stateFile  BY <2>1, <2>4, <3>2 DEF stateFile
    <3>3. CASE pending' = Append(pending, [id |-> d, phase |-> phase])
      BY <2>3, <2>4, <3>1, <3>3
    <3>4. QED  BY <2>4, <3>2, <3>3 DEF Transition, Try, Written
  <2>5. CASE \E d \in Directive : Execute(d)  BY <2>4, <2>5 DEF Execute, Phase
  <2>6. CASE Advance  BY <1>1, <2>4, <2>6, Saves DEF Save, Phase
  <2>7. CASE RecordSwapped \/ RequestRestart \/ RecordRecovered \/ GiveUp \/ RecordHealthy
    <3>1. rec \in Directive  BY <1>1, <2>7, Saves
    <3>2. {"swapped", "restart_requested", "recovered", "failed", "healthy"} \subseteq Phase
      BY DEF Phase, Final
    <3>3. QED
      BY <2>4, <2>7, <3>1, <3>2
      DEF RecordSwapped, RequestRestart, RecordRecovered, GiveUp, RecordHealthy, Save
  <2>8. CASE \/ Prepare \/ SwapCopy \/ SwapPrepared \/ SwapBoundary \/ SwapRename \/ SwapDone
             \/ Restart \/ Restore \/ RecoverDiscard \/ RecoverRemove
             \/ Boot \/ Health \/ Finalize \/ CommitDiscard \/ CommitRemove \/ Crash \/ Stop
             \/ SendObservation \/ Disown \/ UNCHANGED vars
    <3>1. UNCHANGED pending /\ server \subseteq server'
      BY <2>8 DEF Prepare, SwapCopy, SwapPrepared, SwapBoundary, SwapRename, SwapDone, Restart,
                  Restore, RecoverDiscard, RecoverRemove, WriteJournal, Discard, RemoveJournal,
                  Boot, Health, Finalize, CommitDiscard, CommitRemove, Crash, Stop,
                  SendObservation, Disown, vars, stateFile
    <3>2. QED  BY <2>1, <3>1
  <2>9. QED  BY <1>1, <2>2, <2>5, <2>6, <2>7, <2>8 DEF Next, Operation
<1>2. QED  BY <1>1, Invariance, PTL DEF Spec, ObservationsKept

=============================================================================
