------------------------ MODULE ScriptExecutorProofs ------------------------
(***************************************************************************)
(* Proofs about ScriptExecutor, for every set of deliveries and of cancel  *)
(* commands and every number of restarts.                                  *)
(***************************************************************************)
EXTENDS ScriptExecutor, TLAPS

-----------------------------------------------------------------------------
(* The inductive invariant.  Execute and Cancel meet in a runningExecution:    *)
(* the invariant says who owns an entry, what its flags say about the owner's  *)
(* progress and its process, and what a Cancel call knows about its entry.     *)

Working(i) == pc[i] \in {"setup", "starting", "started", "waiting", "stamping", "returning"}

\* An entry is empty until the call or the refusal record that makes it.
FreshCalls == \A i \in Attempt : pc[i] \in {"absent", "queued"} => own[i] = None /\ ent[i] = {}
FreshRecords == \A k \in Cancel : cpc[k] # "answered" => ent[k] = {}

\* An entry belongs to one Execute call, also after the call has returned.
OwnerUnique == \A i, j \in Attempt : own[i] = own[j] /\ own[i] # None => i = j
OwnedHasOwner == \A e \in Entry : Has(e, "owned") <=> \E i \in Attempt : own[i] = e

\* The id is reserved for the call at work, and what is reserved is not released.
WorkingHolds == \A i \in Attempt : Working(i) => own[i] # None /\ running = own[i]
RunningIsOpen ==
    running # None =>
        /\ ent[running] # {} /\ ~Has(running, "done")
        /\ \A i \in Attempt : own[i] = running => pc[i] # "lost"

\* What follows the start of a process; nothing starts for a refusal record.
AfterStart == {"started", "contained", "containmentLost", "killErr", "killed"}
StartedIsOwned ==
    \A e \in Entry : ~Has(e, "owned") =>
        \A f \in AfterStart \cup {"startAttempted"} : ~Has(e, f)

\* The flags of an entry follow its owner.
StartKnown(i) == own[i] # None =>
    /\ pc[i] = "setup" => ~Has(own[i], "startAttempted")
    /\ pc[i] \in {"starting", "started", "waiting", "stamping"} => Has(own[i], "startAttempted")
    /\ pc[i] = "starting" \/ ~Has(own[i], "startAttempted") =>
          \A f \in AfterStart : ~Has(own[i], f)
    /\ pc[i] = "waiting" => Has(own[i], "started")
    /\ pc[i] = "returning" /\ result[i].ending = "ok" => Has(own[i], "startAttempted")
    /\ Has(own[i], "done") <=> pc[i] = "done"

\* Containment comes before the kill or never, and a kill that worked took the tree.
KillKnown(i) == own[i] # None =>
    /\ pc[i] = "started" => /\ ~Has(own[i], "contained")
                            /\ Has(own[i], "killed") => Has(own[i], "containmentLost")
    /\ Has(own[i], "contained") => ~Has(own[i], "containmentLost")
    /\ Has(own[i], "killed") => Has(own[i], "started") \/ pc[i] \in {"started", "lost"}
    /\ Has(own[i], "killed") /\ Has(own[i], "contained") /\ ~Has(own[i], "killErr") =>
          proc[i].leader # "running" /\ proc[i].child # "running"

\* A leader runs only while its call looks after it, unless the agent died.
LifeKnown(i) ==
    /\ proc[i].leader = "running" =>
          /\ pc[i] \in {"started", "waiting", "lost"}
          /\ own[i] # None /\ Has(own[i], "startAttempted")
    /\ pc[i] = "returning" => result[i].ending \in {"ok", "failed"}
    /\ pc[i] = "lost" => crashes > 0

CallInv(i) == StartKnown(i) /\ KillKnown(i) /\ LifeKnown(i)

\* What `terminated` was said of: a call that will not start, or one that is over and
\* whose process was killed in full or never attached.
Stopped(e) ==
    \/ Has(e, "cancelRequested") /\ ~Has(e, "startAttempted")
    \/ Has(e, "done") /\ (Has(e, "started") => ~Has(e, "killErr") /\ Has(e, "contained"))

AskInv(k) ==
    /\ cpc[k] \in {"found", "waiting"} =>
          /\ target[k] # None /\ ent[target[k]] # {}
          /\ \A i \in Attempt : own[i] = target[k] => pc[i] # "lost"
    /\ cpc[k] = "waiting" => Has(target[k], "startAttempted")
    /\ answer[k] # "none" => cpc[k] = "answered"
    /\ answer[k] = "terminated" => target[k] # None /\ Has(target[k], "owned") /\ Stopped(target[k])

EntryInv ==
    /\ FreshCalls
    /\ FreshRecords
    /\ OwnerUnique
    /\ OwnedHasOwner
    /\ WorkingHolds
    /\ RunningIsOpen
    /\ StartedIsOwned

IInv ==
    /\ TypeOK
    /\ EntryInv
    /\ \A i \in Attempt : CallInv(i)
    /\ \A k \in Cancel : AskInv(k)

-----------------------------------------------------------------------------
(* What a step leaves alone *)

\* Each variable applied to one call or entry.
LEMMA Types ==
    ASSUME TypeOK
    PROVE  /\ \A i \in Attempt : /\ own[i] \in Entry \cup {None} /\ pc[i] \in Pc
                                 /\ proc[i] \in Tree /\ result[i] \in Result
           /\ \A k \in Cancel : target[k] \in Entry \cup {None} /\ cpc[k] \in CancelPc
           /\ \A e \in Entry : ent[e] \subseteq Flag
           /\ None \notin Entry
  BY ExecutorAssumption DEF TypeOK, Entry

\* A call whose progress, process and flags are left alone keeps its part; a cancel may
\* mark its entry.
LEMMA CallKept ==
    ASSUME NEW i \in Attempt, CallInv(i),
           pc'[i] = pc[i], own'[i] = own[i], proc'[i] = proc[i], result'[i] = result[i],
           crashes' = crashes,
           own[i] # None => \A f \in Flag \ {"cancelRequested", "ctxDone"} :
                               f \in ent'[own[i]] <=> f \in ent[own[i]]
    PROVE  CallInv(i)'
<1>1. StartKnown(i)'  BY DEF CallInv, StartKnown, Has, AfterStart, Flag
<1>2. KillKnown(i)'  BY DEF CallInv, KillKnown, Has, Flag
<1>3. LifeKnown(i)'  BY DEF CallInv, LifeKnown, Has, Flag
<1>4. QED  BY <1>1, <1>2, <1>3 DEF CallInv

\* A Cancel call that is left alone keeps its part when its entry keeps its flags and
\* what was said of it, and its owner is not lost.
LEMMA AskKept ==
    ASSUME NEW k \in Cancel, AskInv(k),
           cpc'[k] = cpc[k], target'[k] = target[k], answer'[k] = answer[k],
           target[k] # None => ent[target[k]] \subseteq ent'[target[k]],
           answer[k] = "terminated" => Stopped(target[k])',
           cpc[k] \in {"found", "waiting"} =>
               \A i \in Attempt : own'[i] = target[k] => pc'[i] # "lost"
    PROVE  AskInv(k)'
  BY DEF AskInv, Has

\* A working call owns the reserved entry, and nobody released it.
LEMMA WorkingOwns ==
    ASSUME IInv, NEW i \in Attempt, Working(i)
    PROVE  /\ own[i] \in Entry /\ own[i] # None /\ running = own[i]
           /\ Has(own[i], "owned") /\ ~Has(own[i], "done")
           /\ \A j \in Attempt : j # i => own[j] # own[i] /\ ~Working(j)
<1>1. own[i] # None /\ running = own[i]  BY DEF IInv, EntryInv, WorkingHolds
<1>2. own[i] \in Entry  BY <1>1, Types DEF IInv
<1>3. ~Has(own[i], "done")  BY <1>1 DEF IInv, EntryInv, RunningIsOpen
<1>4. Has(own[i], "owned")  BY <1>2 DEF IInv, EntryInv, OwnedHasOwner
<1>5. \A j \in Attempt : j # i => own[j] # own[i] /\ ~Working(j)
  BY <1>1 DEF IInv, EntryInv, OwnerUnique, WorkingHolds
<1>6. QED  BY <1>1, <1>2, <1>3, <1>4, <1>5

\* A step of Execute between the reservation and the release: it moves on, it may raise
\* flags of its own entry, and it does not commit to a start after a cancel.
LEMMA WorkKeeps ==
    ASSUME IInv, NEW i \in Attempt, Working(i),
           NEW p \in {"setup", "starting", "started", "waiting", "stamping", "returning"},
           NEW F \in SUBSET (Flag \ {"owned", "done"}),
           pc' = [pc EXCEPT ![i] = p],
           ent' = [ent EXCEPT ![own[i]] = @ \cup F],
           proc' \in [Attempt -> Tree], result' \in [Attempt -> Result],
           \A j \in Attempt : j # i => proc'[j] = proc[j] /\ result'[j] = result[j],
           UNCHANGED <<own, by, running, cancelVars, crashes>>,
           "startAttempted" \in F => ~Has(own[i], "cancelRequested"),
           CallInv(i)'
    PROVE  IInv'
<1>0. TypeOK  BY DEF IInv
<1>1. /\ own[i] \in Entry /\ own[i] # None /\ running = own[i]
      /\ Has(own[i], "owned") /\ ~Has(own[i], "done")
      /\ \A j \in Attempt : j # i => own[j] # own[i] /\ ~Working(j)
  BY WorkingOwns
<1>2. \A e \in Entry : ent'[e] = IF e = own[i] THEN ent[e] \cup F ELSE ent[e]
  BY <1>0, <1>1 DEF TypeOK
<1>3. \A j \in Attempt : pc'[j] = IF j = i THEN p ELSE pc[j]
  BY <1>0 DEF TypeOK
<1>4. TypeOK'
  <2>1. pc' \in [Attempt -> Pc]  BY <1>0 DEF TypeOK, Pc
  <2>2. ent' \in [Entry -> SUBSET Flag]  BY <1>0, <1>1 DEF TypeOK
  <2>3. QED  BY <1>0, <2>1, <2>2 DEF TypeOK, cancelVars
<1>5. EntryInv'
  <2>1. FreshCalls'  BY <1>1, <1>2, <1>3 DEF IInv, EntryInv, FreshCalls, Has, Entry
  <2>2. FreshRecords'  BY <1>1, <1>2 DEF IInv, EntryInv, FreshRecords, Has, Entry, cancelVars
  <2>3. OwnerUnique'  BY DEF IInv, EntryInv, OwnerUnique
  <2>4. OwnedHasOwner'  BY <1>2 DEF IInv, EntryInv, OwnedHasOwner, Has
  <2>5. WorkingHolds'  BY <1>1, <1>3 DEF IInv, EntryInv, WorkingHolds, Working
  <2>6. RunningIsOpen'  BY <1>1, <1>2, <1>3 DEF IInv, EntryInv, RunningIsOpen, Has
  <2>7. StartedIsOwned'  BY <1>1, <1>2 DEF IInv, EntryInv, StartedIsOwned, Has
  <2>8. QED  BY <2>1, <2>2, <2>3, <2>4, <2>5, <2>6, <2>7 DEF EntryInv
<1>6. ASSUME NEW j \in Attempt PROVE CallInv(j)'
  <2>1. CASE j = i  BY <2>1
  <2>2. CASE j # i
    <3>1. own[j] # None => ent'[own[j]] = ent[own[j]]  BY <1>0, <1>1, <1>2, <2>2, Types
    <3>2. QED  BY <1>3, <2>2, <3>1, CallKept DEF IInv
  <2>3. QED  BY <2>1, <2>2
<1>7. ASSUME NEW k \in Cancel PROVE AskInv(k)'
  <2>1. UNCHANGED <<cpc, target, answer>>  BY DEF cancelVars
  <2>2. target[k] # None => target[k] \in Entry  BY <1>0, Types
  <2>3. answer[k] = "terminated" => Stopped(target[k])'
    BY <1>1, <1>2, <2>1, <2>2 DEF IInv, AskInv, Stopped, Has
  <2>4. \A j \in Attempt :
           own'[j] = target[k] /\ pc'[j] = "lost" => own[j] = target[k] /\ pc[j] = "lost"
    BY <1>3
  <2>5. target[k] # None => ent[target[k]] \subseteq ent'[target[k]]  BY <1>2, <2>2
  <2>6. QED  BY <2>1, <2>3, <2>4, <2>5, AskKept DEF IInv, AskInv
<1>8. QED  BY <1>4, <1>5, <1>6, <1>7 DEF IInv

-----------------------------------------------------------------------------
(* Execute, from the reservation to the result *)

\* A working step that raises no flag.
LEMMA QuietWorkKeeps ==
    ASSUME IInv, NEW i \in Attempt, Working(i),
           NEW p \in {"setup", "starting", "started", "waiting", "stamping", "returning"},
           pc' = [pc EXCEPT ![i] = p],
           proc' \in [Attempt -> Tree], result' \in [Attempt -> Result],
           \A j \in Attempt : j # i => proc'[j] = proc[j] /\ result'[j] = result[j],
           UNCHANGED <<own, entryVars, cancelVars, crashes>>,
           CallInv(i)'
    PROVE  IInv'
<1>1. ent' = ent /\ UNCHANGED <<own, by, running, cancelVars, crashes>>  BY DEF entryVars
<1>2. ent' = [ent EXCEPT ![own[i]] = @ \cup {}]
  <2>1. ent \in [Entry -> SUBSET Flag]  BY DEF IInv, TypeOK
  <2>2. QED  BY <1>1, <2>1
<1>3. {} \in SUBSET (Flag \ {"owned", "done"}) /\ "startAttempted" \notin {}  OBVIOUS
<1>4. QED  BY <1>1, <1>2, <1>3, WorkKeeps

\* The pc, the process and the result of a call after an update of its own.
LEMMA CallUpdates ==
    ASSUME TypeOK, NEW i \in Attempt
    PROVE  /\ \A p \in Pc : [pc EXCEPT ![i] = p][i] = p
           /\ \A t \in Tree : /\ [proc EXCEPT ![i] = t] \in [Attempt -> Tree]
                              /\ [proc EXCEPT ![i] = t][i] = t
                              /\ \A j \in Attempt : j # i => [proc EXCEPT ![i] = t][j] = proc[j]
           /\ \A r \in Result : /\ [result EXCEPT ![i] = r] \in [Attempt -> Result]
                                /\ [result EXCEPT ![i] = r][i] = r
                                /\ \A j \in Attempt :
                                      j # i => [result EXCEPT ![i] = r][j] = result[j]
  BY DEF TypeOK

\* A call that gives up before the start.
LEMMA SetupFailsKeeps ==
    ASSUME IInv, NEW i \in Attempt, SetupFails(i)
    PROVE  IInv'
<1>0. TypeOK /\ CallInv(i)  BY DEF IInv
<1>1. Working(i)  BY DEF SetupFails, Working
<1>2. [ending |-> "failed", marker |-> None] \in Result  BY DEF Result, Ending
<1>3. /\ pc'[i] = "returning" /\ result'[i] = [ending |-> "failed", marker |-> None]
      /\ result' \in [Attempt -> Result]
      /\ \A j \in Attempt : j # i => result'[j] = result[j]
  BY <1>0, <1>2, CallUpdates DEF SetupFails, Refuse, Pc
<1>4. UNCHANGED <<own, proc, entryVars, cancelVars, crashes>> /\ pc[i] = "setup"
  BY DEF SetupFails
<1>5. CallInv(i)'
  BY <1>0, <1>3, <1>4 DEF CallInv, StartKnown, KillKnown, LifeKnown, Has, entryVars
<1>6. QED  BY <1>0, <1>1, <1>3, <1>4, <1>5, QuietWorkKeeps DEF SetupFails, Refuse, TypeOK

\* beginStart commits to the start under the entry's lock, unless a cancel came first.
LEMMA BeginStartKeeps ==
    ASSUME IInv, NEW i \in Attempt, BeginStart(i)
    PROVE  IInv'
<1>0. TypeOK /\ CallInv(i)  BY DEF IInv
<1>1. Working(i) /\ pc[i] = "setup"  BY DEF BeginStart, Working
<1>2. own[i] \in Entry /\ own[i] # None  BY <1>1, WorkingOwns
<1>3. UNCHANGED <<own, proc, by, running, cancelVars, crashes>>  BY DEF BeginStart
<1>4. CASE Has(own[i], "cancelRequested")
  <2>1. [ending |-> "failed", marker |-> by[own[i]]] \in Result
    BY <1>0, <1>2 DEF TypeOK, Result, Ending
  <2>2. /\ pc'[i] = "returning" /\ result'[i] = [ending |-> "failed", marker |-> by[own[i]]]
        /\ pc' = [pc EXCEPT ![i] = "returning"]
        /\ result' \in [Attempt -> Result]
        /\ \A j \in Attempt : j # i => result'[j] = result[j]
        /\ ent' = ent
    BY <1>0, <1>4, <2>1, CallUpdates DEF BeginStart, Refuse, Pc
  <2>3. CallInv(i)'
    BY <1>0, <1>1, <1>3, <2>2 DEF CallInv, StartKnown, KillKnown, LifeKnown, Has
  <2>4. QED  BY <1>0, <1>1, <1>3, <2>2, <2>3, QuietWorkKeeps DEF entryVars, TypeOK
<1>5. CASE ~Has(own[i], "cancelRequested")
  <2>1. /\ ent' = [ent EXCEPT ![own[i]] = @ \cup {"startAttempted"}]
        /\ pc' = [pc EXCEPT ![i] = "starting"]
        /\ result' = result
    BY <1>5 DEF BeginStart, Raise
  <2>2. ent'[own[i]] = ent[own[i]] \cup {"startAttempted"} /\ pc'[i] = "starting"
    BY <1>0, <1>2, <2>1 DEF TypeOK
  <2>3. CallInv(i)'
    BY <1>0, <1>1, <1>2, <1>3, <2>1, <2>2 DEF CallInv, StartKnown, KillKnown, LifeKnown, Has,
       AfterStart
  <2>4. {"startAttempted"} \in SUBSET (Flag \ {"owned", "done"})  BY DEF Flag
  <2>5. QED  BY <1>0, <1>1, <1>3, <1>5, <2>1, <2>3, <2>4, WorkKeeps DEF TypeOK
<1>6. QED  BY <1>4, <1>5

\* cmd.Start fails, or the leader is reaped.
LEMMA ToStampingKeeps ==
    ASSUME IInv, NEW i \in Attempt, StartFails(i) \/ Reap(i)
    PROVE  IInv'
<1>0. TypeOK /\ CallInv(i)  BY DEF IInv
<1>1. /\ pc' = [pc EXCEPT ![i] = "stamping"] /\ pc[i] \in {"starting", "waiting"}
      /\ pc[i] = "waiting" => proc[i].leader = "gone"
      /\ UNCHANGED <<own, proc, result, entryVars, cancelVars, crashes>>
  BY DEF StartFails, Reap
<1>2. pc'[i] = "stamping" /\ Working(i)  BY <1>0, <1>1 DEF TypeOK, Working
<1>3. own[i] # None  BY <1>2, WorkingOwns
<1>4. CallInv(i)'
  BY <1>0, <1>1, <1>2, <1>3 DEF CallInv, StartKnown, KillKnown, LifeKnown, Has, entryVars,
     AfterStart
<1>5. QED  BY <1>0, <1>1, <1>2, <1>4, QuietWorkKeeps DEF TypeOK

\* The process starts.
LEMMA StartKeeps ==
    ASSUME IInv, NEW i \in Attempt, Start(i)
    PROVE  IInv'
<1>0. TypeOK /\ CallInv(i) /\ proc[i] \in Tree  BY Types DEF IInv
<1>1. Working(i) /\ pc[i] = "starting"  BY DEF Start, Working
<1>2. own[i] # None  BY <1>1, WorkingOwns
<1>3. [proc[i] EXCEPT !.leader = "running"] \in Tree  BY <1>0 DEF Tree, Life
<1>4. /\ proc'[i] = [proc[i] EXCEPT !.leader = "running"]
      /\ proc' \in [Attempt -> Tree]
      /\ \A j \in Attempt : j # i => proc'[j] = proc[j]
  BY <1>0, <1>3 DEF Start, TypeOK
<1>5. pc' = [pc EXCEPT ![i] = "started"] /\ UNCHANGED <<own, result, entryVars, cancelVars, crashes>>
  BY DEF Start
<1>6. pc'[i] = "started"  BY <1>0, <1>5 DEF TypeOK
<1>7. CallInv(i)'
  BY <1>0, <1>1, <1>2, <1>5, <1>6 DEF CallInv, StartKnown, KillKnown, LifeKnown, Has, entryVars,
     AfterStart
<1>8. QED  BY <1>0, <1>1, <1>4, <1>5, <1>7, QuietWorkKeeps DEF TypeOK

\* attachProcessGroup gives no containment once a kill has gone without it.
LEMMA AttachKeeps ==
    ASSUME IInv, NEW i \in Attempt, Attach(i)
    PROVE  IInv'
<1>0. TypeOK /\ CallInv(i)  BY DEF IInv
<1>1. Working(i) /\ pc[i] = "started"  BY DEF Attach, Working
<1>2. own[i] \in Entry /\ own[i] # None  BY <1>1, WorkingOwns
<1> DEFINE F == {"started"} \cup (IF Has(own[i], "containmentLost") THEN {} ELSE {"contained"})
<1>3. /\ ent' = [ent EXCEPT ![own[i]] = @ \cup F] /\ pc' = [pc EXCEPT ![i] = "waiting"]
      /\ UNCHANGED <<own, proc, result, by, running, cancelVars, crashes>>
  BY DEF Attach, Raise
<1>4. F \in SUBSET (Flag \ {"owned", "done"}) /\ "startAttempted" \notin F  BY DEF Flag
<1>5. ent'[own[i]] = ent[own[i]] \cup F /\ pc'[i] = "waiting"
  BY <1>0, <1>2, <1>3 DEF TypeOK
<1>6. CallInv(i)'
  BY <1>0, <1>1, <1>2, <1>3, <1>5 DEF CallInv, StartKnown, KillKnown, LifeKnown, Has, AfterStart
<1>7. QED  BY <1>0, <1>1, <1>3, <1>4, <1>6, WorkKeeps DEF TypeOK

\* A step that leaves the call where it is.
LEMMA PcStays ==
    ASSUME TypeOK, NEW i \in Attempt, pc' = pc
    PROVE  pc' = [pc EXCEPT ![i] = pc[i]]
  BY DEF TypeOK

\* The script's own timeout.
LEMMA TimeoutKeeps ==
    ASSUME IInv, NEW i \in Attempt, Timeout(i)
    PROVE  IInv'
<1>0. TypeOK /\ CallInv(i)  BY DEF IInv
<1>1. Working(i) /\ pc[i] \in {"started", "waiting"}  BY DEF Timeout, InProcess, Working
<1>2. own[i] \in Entry /\ own[i] # None  BY <1>1, WorkingOwns
<1>3. /\ ent' = [ent EXCEPT ![own[i]] = @ \cup {"ctxDone"}]
      /\ UNCHANGED <<pc, own, proc, result, by, running, cancelVars, crashes>>
  BY DEF Timeout, Raise, execVars
<1>4. {"ctxDone"} \in SUBSET (Flag \ {"owned", "done"})  BY DEF Flag
<1>5. CallInv(i)'
  BY <1>0, <1>2, <1>3, CallKept DEF TypeOK
<1>6. QED  BY <1>0, <1>1, <1>3, <1>4, <1>5, PcStays, WorkKeeps DEF TypeOK

\* terminateProcessTree: a kill without containment is remembered as such, one that fails
\* as well, and any other takes the tree.
LEMMA KillKeeps ==
    ASSUME IInv, NEW i \in Attempt, Kill(i)
    PROVE  IInv'
<1>0. TypeOK /\ CallInv(i) /\ proc[i] \in Tree  BY Types DEF IInv
<1>1. Working(i) /\ pc[i] \in {"started", "waiting"}  BY DEF Kill, InProcess, Working
<1>2. own[i] \in Entry /\ own[i] # None  BY <1>1, WorkingOwns
<1>3. UNCHANGED <<pc, own, result, by, running, cancelVars, crashes>>  BY DEF Kill
<1>4. CASE /\ pc[i] = "started" /\ Raise(own[i], {"killed", "containmentLost"})
           /\ proc' = [proc EXCEPT ![i].leader = Gone(@)]
  <2>1. ent'[own[i]] = ent[own[i]] \cup {"killed", "containmentLost"}
    BY <1>0, <1>2, <1>4 DEF Raise, TypeOK
  <2>2. /\ proc' \in [Attempt -> Tree] /\ proc'[i].leader # "running"
        /\ \A j \in Attempt : j # i => proc'[j] = proc[j]
    BY <1>0, <1>4 DEF TypeOK, Tree, Life, Gone
  <2>3. CallInv(i)'
    BY <1>0, <1>2, <1>3, <1>4, <2>1, <2>2 DEF CallInv, StartKnown, KillKnown, LifeKnown, Has,
       AfterStart
  <2>4. {"killed", "containmentLost"} \in SUBSET (Flag \ {"owned", "done"})  BY DEF Flag
  <2>5. QED  BY <1>0, <1>1, <1>3, <1>4, <2>2, <2>3, <2>4, PcStays, WorkKeeps DEF Raise, TypeOK
<1>5. CASE /\ pc[i] = "waiting" /\ Raise(own[i], {"killed"})
           /\ proc' = [proc EXCEPT ![i] = [leader |-> Gone(@.leader), child |-> Gone(@.child)]]
  <2>1. ent'[own[i]] = ent[own[i]] \cup {"killed"}
    BY <1>0, <1>2, <1>5 DEF Raise, TypeOK
  <2>2. [leader |-> Gone(proc[i].leader), child |-> Gone(proc[i].child)] \in Tree
    BY <1>0 DEF Tree, Life, Gone
  <2>3. /\ proc' \in [Attempt -> Tree]
        /\ proc'[i].leader # "running" /\ proc'[i].child # "running"
        /\ \A j \in Attempt : j # i => proc'[j] = proc[j]
    BY <1>0, <1>5, <2>2 DEF TypeOK, Gone
  <2>4. Has(own[i], "started")  BY <1>0, <1>2, <1>5 DEF CallInv, StartKnown
  <2>5. CallInv(i)'
    BY <1>0, <1>2, <1>3, <1>5, <2>1, <2>3, <2>4 DEF CallInv, StartKnown, KillKnown, LifeKnown, Has,
       AfterStart
  <2>6. {"killed"} \in SUBSET (Flag \ {"owned", "done"})  BY DEF Flag
  <2>7. QED  BY <1>0, <1>1, <1>3, <1>5, <2>3, <2>5, <2>6, PcStays, WorkKeeps DEF Raise, TypeOK
<1>6. CASE /\ pc[i] = "waiting" /\ Raise(own[i], {"killed", "killErr"}) /\ UNCHANGED proc
  <2>1. ent'[own[i]] = ent[own[i]] \cup {"killed", "killErr"}
    BY <1>0, <1>2, <1>6 DEF Raise, TypeOK
  <2>2. Has(own[i], "started")  BY <1>0, <1>2, <1>6 DEF CallInv, StartKnown
  <2>3. CallInv(i)'
    BY <1>0, <1>2, <1>3, <1>6, <2>1, <2>2 DEF CallInv, StartKnown, KillKnown, LifeKnown, Has,
       AfterStart
  <2>4. {"killed", "killErr"} \in SUBSET (Flag \ {"owned", "done"})  BY DEF Flag
  <2>5. QED  BY <1>0, <1>1, <1>3, <1>6, <2>3, <2>4, PcStays, WorkKeeps DEF Raise, TypeOK
<1>7. QED  BY <1>4, <1>5, <1>6 DEF Kill

\* The result of a process that ended, or never started.
LEMMA StampKeeps ==
    ASSUME IInv, NEW i \in Attempt, Stamp(i)
    PROVE  IInv'
<1>0. TypeOK /\ CallInv(i)  BY DEF IInv
<1>1. Working(i) /\ pc[i] = "stamping"  BY DEF Stamp, Working
<1>2. own[i] \in Entry /\ own[i] # None  BY <1>1, WorkingOwns
<1> DEFINE marker == IF Has(own[i], "cancelRequested") THEN by[own[i]] ELSE None
<1>3. PICK ending \in {"ok", "failed"} :
         result' = [result EXCEPT ![i] = [ending |-> ending, marker |-> marker]]
  BY DEF Stamp
<1>4. [ending |-> ending, marker |-> marker] \in Result
  BY <1>0, <1>2 DEF TypeOK, Result, Ending
<1>5. /\ result'[i] = [ending |-> ending, marker |-> marker]
      /\ result' \in [Attempt -> Result]
      /\ \A j \in Attempt : j # i => result'[j] = result[j]
  BY <1>0, <1>3, <1>4 DEF TypeOK
<1>6. pc' = [pc EXCEPT ![i] = "returning"] /\ UNCHANGED <<own, proc, entryVars, cancelVars, crashes>>
  BY DEF Stamp
<1>7. pc'[i] = "returning"  BY <1>0, <1>6 DEF TypeOK
<1>8. CallInv(i)'
  BY <1>0, <1>1, <1>2, <1>5, <1>6, <1>7 DEF CallInv, StartKnown, KillKnown, LifeKnown, Has, entryVars,
     AfterStart
<1>9. QED  BY <1>0, <1>1, <1>5, <1>6, <1>8, QuietWorkKeeps DEF TypeOK

-----------------------------------------------------------------------------
(* The process tree, which also moves by itself *)

\* A step of the process tree starts no leader.
LEMMA ProcessKeeps ==
    ASSUME IInv, NEW i \in Attempt, Spawn(i) \/ ChildExits(i) \/ LeaderExits(i)
    PROVE  IInv'
<1>0. TypeOK /\ proc[i] \in Tree  BY Types DEF IInv
<1>1. UNCHANGED <<pc, own, result, ent, by, running, cpc, target, answer, crashes>>
  BY DEF Spawn, ChildExits, LeaderExits, entryVars, cancelVars
<1>2. /\ proc' \in [Attempt -> Tree]
      /\ \A j \in Attempt : j # i => proc'[j] = proc[j]
      /\ proc'[i].leader = "running" => proc[i].leader = "running"
      /\ proc'[i].child = "running" => proc[i].leader = "running" \/ proc[i].child = "running"
  <2>1. CASE Spawn(i)  BY <1>0, <2>1 DEF Spawn, TypeOK, Tree, Life
  <2>2. CASE ChildExits(i)  BY <1>0, <2>2 DEF ChildExits, TypeOK, Tree, Life
  <2>3. CASE LeaderExits(i)  BY <1>0, <2>3 DEF LeaderExits, TypeOK, Tree, Life
  <2>4. QED  BY <2>1, <2>2, <2>3
<1>3. TypeOK'  BY <1>0, <1>1, <1>2 DEF TypeOK
<1>4. EntryInv'
  BY <1>1 DEF IInv, EntryInv, FreshCalls, FreshRecords, OwnerUnique, OwnedHasOwner, WorkingHolds,
     Working, RunningIsOpen, StartedIsOwned, Has
<1>5. ASSUME NEW j \in Attempt PROVE CallInv(j)'
  <2>0. CallInv(j)  BY DEF IInv
  <2>1. /\ proc'[j].leader = "running" => proc[j].leader = "running"
        /\ proc'[j].child = "running" => proc[j].leader = "running" \/ proc[j].child = "running"
    BY <1>2
  <2>2. StartKnown(j)'  BY <1>1, <2>0 DEF CallInv, StartKnown, Has
  <2>3. KillKnown(j)'  BY <1>1, <2>0, <2>1 DEF CallInv, KillKnown, Has
  <2>4. LifeKnown(j)'  BY <1>1, <2>0, <2>1 DEF CallInv, LifeKnown, Has
  <2>5. QED  BY <2>2, <2>3, <2>4 DEF CallInv
<1>6. ASSUME NEW k \in Cancel PROVE AskInv(k)'
  BY <1>1 DEF IInv, AskInv, Stopped, Has
<1>7. QED  BY <1>3, <1>4, <1>5, <1>6 DEF IInv

-----------------------------------------------------------------------------
(* Frames, reservation and release *)

\* A frame reaches the agent.
LEMMA FrameKeeps ==
    ASSUME IInv, (\E i \in Attempt : Arrive(i)) \/ (\E k \in Cancel : Receive(k))
    PROVE  IInv'
<1>0. TypeOK  BY DEF IInv
<1>1. ASSUME NEW i \in Attempt, Arrive(i) PROVE IInv'
  <2>1. UNCHANGED <<own, proc, result, ent, by, running, cpc, target, answer, crashes>>
    BY <1>1 DEF Arrive, entryVars, cancelVars
  <2>2. \A j \in Attempt : pc'[j] = IF j = i THEN "queued" ELSE pc[j]
    BY <1>0, <1>1 DEF Arrive, TypeOK
  <2>3. TypeOK'  BY <1>0, <1>1, <2>1 DEF Arrive, TypeOK, Pc
  <2>4. pc[i] = "absent" /\ own[i] = None
    BY <1>1 DEF Arrive, IInv, EntryInv, FreshCalls
  <2>5. EntryInv'
    BY <2>1, <2>2, <2>4 DEF IInv, EntryInv, FreshCalls, FreshRecords, OwnerUnique, OwnedHasOwner,
       WorkingHolds, Working, RunningIsOpen, StartedIsOwned, Has
  <2>6. ASSUME NEW j \in Attempt PROVE CallInv(j)'
    BY <2>1, <2>2, <2>4 DEF IInv, CallInv, StartKnown, KillKnown, LifeKnown, Has
  <2>7. ASSUME NEW k \in Cancel PROVE AskInv(k)'
    BY <2>1, <2>2 DEF IInv, AskInv, Stopped, Has
  <2>8. QED  BY <2>3, <2>5, <2>6, <2>7 DEF IInv
<1>2. ASSUME NEW c \in Cancel, Receive(c) PROVE IInv'
  <2>1. UNCHANGED <<pc, own, proc, result, ent, by, running, target, answer, crashes>>
    BY <1>2 DEF Receive, entryVars, execVars
  <2>2. \A k \in Cancel : cpc'[k] = IF k = c THEN "received" ELSE cpc[k]
    BY <1>0, <1>2 DEF Receive, TypeOK
  <2>3. TypeOK'  BY <1>0, <1>2, <2>1 DEF Receive, TypeOK, CancelPc
  <2>4. cpc[c] = "absent"  BY <1>2 DEF Receive
  <2>5. EntryInv'
    BY <2>1, <2>2, <2>4 DEF IInv, EntryInv, FreshCalls, FreshRecords, OwnerUnique, OwnedHasOwner,
       WorkingHolds, Working, RunningIsOpen, StartedIsOwned, Has
  <2>6. ASSUME NEW j \in Attempt PROVE CallInv(j)'
    BY <2>1 DEF IInv, CallInv, StartKnown, KillKnown, LifeKnown, Has
  <2>7. ASSUME NEW k \in Cancel PROVE AskInv(k)'
    BY <2>1, <2>2, <2>4 DEF IInv, AskInv, Stopped, Has
  <2>8. QED  BY <2>3, <2>5, <2>6, <2>7 DEF IInv
<1>3. QED  BY <1>1, <1>2

\* reserve gives the id to one call: the entry is new, or a refusal record nobody owns.
LEMMA ReserveKeeps ==
    ASSUME IInv, NEW i \in Attempt, Reserve(i)
    PROVE  IInv'
<1>0. TypeOK /\ CallInv(i)  BY DEF IInv
<1>1. /\ pc[i] = "queued" /\ own[i] = None /\ ent[i] = {}
      /\ UNCHANGED <<proc, by, cpc, target, answer, crashes>>
  BY DEF Reserve, IInv, EntryInv, FreshCalls, cancelVars
<1>2. i \in Entry /\ i # None /\ None \notin Entry  BY ExecutorAssumption DEF Entry
<1>3. proc[i].leader # "running"  BY <1>0, <1>1 DEF CallInv, LifeKnown
<1>4. ASSUME running = None, running' = i, ent' = [ent EXCEPT ![i] = {"owned"}],
             own' = [own EXCEPT ![i] = i], pc' = [pc EXCEPT ![i] = "setup"], UNCHANGED result
      PROVE  IInv'
  <2>1. /\ \A e \in Entry : ent'[e] = IF e = i THEN {"owned"} ELSE ent[e]
        /\ \A j \in Attempt : own'[j] = (IF j = i THEN i ELSE own[j])
                              /\ pc'[j] = (IF j = i THEN "setup" ELSE pc[j])
    BY <1>0, <1>2, <1>4 DEF TypeOK
  <2>2. TypeOK'  BY <1>0, <1>1, <1>2, <1>4 DEF TypeOK, Flag, Pc
  <2>3. \A j \in Attempt : own[j] # i
    BY <1>1, <1>2 DEF IInv, EntryInv, OwnedHasOwner, Has
  <2>4. EntryInv'
    <3>1. FreshCalls' /\ FreshRecords'
      BY <1>1, <2>1, ExecutorAssumption DEF IInv, EntryInv, FreshCalls, FreshRecords, Entry
    <3>2. OwnerUnique'  BY <1>1, <2>1, <2>3 DEF IInv, EntryInv, OwnerUnique
    <3>3. OwnedHasOwner'
      BY <1>1, <1>2, <2>1, <2>3 DEF IInv, EntryInv, OwnedHasOwner, Has
    <3>4. WorkingHolds' /\ RunningIsOpen'
      BY <1>2, <1>4, <2>1, <2>3 DEF IInv, EntryInv, WorkingHolds, Working, RunningIsOpen, Has
    <3>5. StartedIsOwned'  BY <2>1 DEF IInv, EntryInv, StartedIsOwned, Has
    <3>6. QED  BY <3>1, <3>2, <3>3, <3>4, <3>5 DEF EntryInv
  <2>5. ASSUME NEW j \in Attempt PROVE CallInv(j)'
    <3>1. CASE j = i
      BY <1>1, <1>2, <1>3, <2>1, <3>1 DEF CallInv, StartKnown, KillKnown, LifeKnown, Has, AfterStart
    <3>2. CASE j # i
      <4>1. own[j] # None => ent'[own[j]] = ent[own[j]]  BY <1>0, <2>1, <2>3, Types
      <4>2. QED  BY <1>1, <1>4, <2>1, <3>2, <4>1, CallKept DEF IInv
    <3>3. QED  BY <3>1, <3>2
  <2>6. ASSUME NEW k \in Cancel PROVE AskInv(k)'
    <3>1. target[k] # None => target[k] \in Entry  BY <1>0, Types
    <3>2. cpc[k] \in {"found", "waiting"} \/ answer[k] = "terminated" =>
             target[k] # None /\ target[k] # i
      BY <1>1 DEF IInv, AskInv, Has
    <3>3. answer[k] = "terminated" => Stopped(target[k])'
      BY <1>1, <2>1, <3>1, <3>2 DEF IInv, AskInv, Stopped, Has
    <3>4. cpc[k] \in {"found", "waiting"} =>
             \A j \in Attempt : own'[j] = target[k] => pc'[j] # "lost"
      BY <2>1, <3>2 DEF IInv, AskInv
    <3>5. target[k] # None => ent[target[k]] \subseteq ent'[target[k]]
      BY <1>1, <2>1, <3>1
    <3>6. QED  BY <1>1, <3>3, <3>4, <3>5, AskKept DEF IInv
  <2>7. QED  BY <2>2, <2>4, <2>5, <2>6 DEF IInv
<1>5. ASSUME Refuse(i, None, "done"), UNCHANGED <<running, ent, own>>
      PROVE  IInv'
  <2>1. \A j \in Attempt : /\ pc'[j] = IF j = i THEN "done" ELSE pc[j]
                           /\ j # i => result'[j] = result[j]
    BY <1>0, <1>5 DEF Refuse, TypeOK
  <2>2. TypeOK'  BY <1>0, <1>1, <1>5 DEF Refuse, TypeOK, Pc, Result, Ending
  <2>3. EntryInv'
    BY <1>1, <1>5, <2>1 DEF IInv, EntryInv, FreshCalls, FreshRecords, OwnerUnique, OwnedHasOwner,
       WorkingHolds, Working, RunningIsOpen, StartedIsOwned, Has
  <2>4. ASSUME NEW j \in Attempt PROVE CallInv(j)'
    <3>1. CASE j = i
      BY <1>1, <1>3, <1>5, <2>1, <3>1 DEF CallInv, StartKnown, KillKnown, LifeKnown
    <3>2. CASE j # i  BY <1>1, <1>5, <2>1, <3>2, CallKept DEF IInv
    <3>3. QED  BY <3>1, <3>2
  <2>5. ASSUME NEW k \in Cancel PROVE AskInv(k)'
    BY <1>1, <1>5, <2>1 DEF IInv, AskInv, Stopped, Has
  <2>6. QED  BY <2>2, <2>3, <2>4, <2>5 DEF IInv
<1>6. ASSUME running # None, ~Has(running, "owned"), Raise(running, {"owned"}),
             own' = [own EXCEPT ![i] = running], Refuse(i, by[running], "returning"),
             UNCHANGED running
      PROVE  IInv'
  <2>0. running \in Entry  BY <1>0, <1>6 DEF TypeOK
  <2>1. /\ \A e \in Entry : ent'[e] = IF e = running THEN ent[e] \cup {"owned"} ELSE ent[e]
        /\ \A j \in Attempt : own'[j] = (IF j = i THEN running ELSE own[j])
                              /\ pc'[j] = (IF j = i THEN "returning" ELSE pc[j])
    BY <1>0, <1>6 DEF Raise, Refuse, TypeOK
  <2>2. [ending |-> "failed", marker |-> by[running]] \in Result
    BY <1>0, <2>0 DEF TypeOK, Result, Ending
  <2>3. /\ result'[i].ending = "failed" /\ result' \in [Attempt -> Result]
        /\ \A j \in Attempt : j # i => result'[j] = result[j]
    BY <1>0, <1>6, <2>2 DEF Refuse, TypeOK
  <2>4. TypeOK'
    <3>1. pc' \in [Attempt -> Pc] /\ own' \in [Attempt -> Entry \cup {None}]
      BY <1>0, <1>6, <2>0 DEF Refuse, TypeOK, Pc
    <3>2. ent' \in [Entry -> SUBSET Flag]  BY <1>0, <1>6 DEF Raise, TypeOK, Flag
    <3>3. QED  BY <1>0, <1>1, <1>6, <2>3, <3>1, <3>2 DEF TypeOK
  <2>5. \A j \in Attempt : own[j] # running /\ ~Working(j)
    BY <1>6, <2>0 DEF IInv, EntryInv, OwnedHasOwner, WorkingHolds
  <2>6. ent[running] # {} /\ ~Has(running, "done") /\ ~Has(running, "startAttempted")
    BY <1>6, <2>0 DEF IInv, EntryInv, RunningIsOpen, StartedIsOwned
  <2>7. EntryInv'
    <3>1. FreshCalls' /\ FreshRecords'
      BY <1>1, <2>1, <2>6 DEF IInv, EntryInv, FreshCalls, FreshRecords, Entry
    <3>2. OwnerUnique'  BY <1>1, <2>1, <2>5 DEF IInv, EntryInv, OwnerUnique
    <3>3. OwnedHasOwner'
      <4>1. own'[i] = running /\ "owned" \in ent'[running]  BY <2>0, <2>1
      <4>2. ASSUME NEW e \in Entry, e # running
            PROVE  Has(e, "owned")' <=> \E j \in Attempt : own'[j] = e
        <5>1. Has(e, "owned") <=> \E j \in Attempt : own[j] = e
          BY DEF IInv, EntryInv, OwnedHasOwner
        <5>2. \A j \in Attempt : own'[j] = e <=> own[j] = e  BY <1>1, <1>2, <2>1, <4>2
        <5>3. QED  BY <2>1, <4>2, <5>1, <5>2 DEF Has
      <4>3. QED  BY <4>1, <4>2 DEF OwnedHasOwner, Has
    <3>4. WorkingHolds'
      <4>1. running' # None /\ own'[i] = running'  BY <1>6, <2>1
      <4>2. \A j \in Attempt : j # i => ~Working(j)'  BY <2>1, <2>5 DEF Working
      <4>3. QED  BY <4>1, <4>2 DEF WorkingHolds
    <3>5. RunningIsOpen'
      <4>1. ent'[running'] = ent[running] \cup {"owned"}  BY <1>6, <2>0, <2>1
      <4>2. \A j \in Attempt : own'[j] = running' => pc'[j] # "lost"  BY <1>6, <2>1, <2>5
      <4>3. QED  BY <2>6, <4>1, <4>2 DEF RunningIsOpen, Has
    <3>6. StartedIsOwned'  BY <2>1 DEF IInv, EntryInv, StartedIsOwned, Has
    <3>7. QED  BY <3>1, <3>2, <3>3, <3>4, <3>5, <3>6 DEF EntryInv
  <2>8. ASSUME NEW j \in Attempt PROVE CallInv(j)'
    <3>1. CASE j = i
      <4>1. \A f \in AfterStart : ~Has(running, f)
        BY <1>6, <2>0 DEF IInv, EntryInv, StartedIsOwned
      <4>2. /\ own'[i] = running /\ pc'[i] = "returning"
            /\ ent'[running] = ent[running] \cup {"owned"}
        BY <2>0, <2>1
      <4>3. QED
        BY <1>1, <1>3, <2>3, <2>6, <3>1, <4>1, <4>2 DEF CallInv, StartKnown, KillKnown, LifeKnown,
           Has, AfterStart
    <3>2. CASE j # i
      <4>1. own[j] # None => ent'[own[j]] = ent[own[j]]  BY <1>0, <2>1, <2>5, Types
      <4>2. QED  BY <1>1, <2>1, <2>3, <3>2, <4>1, CallKept DEF IInv
    <3>3. QED  BY <3>1, <3>2
  <2>9. ASSUME NEW k \in Cancel PROVE AskInv(k)'
    <3>1. target[k] # None => target[k] \in Entry  BY <1>0, Types
    <3>2. answer[k] = "terminated" => Stopped(target[k])'
      BY <1>1, <2>1, <3>1 DEF IInv, AskInv, Stopped, Has
    <3>3. cpc[k] \in {"found", "waiting"} =>
             \A j \in Attempt : own'[j] = target[k] => pc'[j] # "lost"
      BY <2>1 DEF IInv, AskInv
    <3>4. target[k] # None => ent[target[k]] \subseteq ent'[target[k]]
      BY <2>1, <3>1
    <3>5. QED  BY <1>1, <3>2, <3>3, <3>4, AskKept DEF IInv
  <2>10. QED  BY <2>4, <2>7, <2>8, <2>9 DEF IInv
<1>7. QED  BY <1>4, <1>5, <1>6 DEF Reserve

\* release: the entry is done, and the id is free.
LEMMA ReleaseKeeps ==
    ASSUME IInv, NEW i \in Attempt, Release(i)
    PROVE  IInv'
<1>0. TypeOK /\ CallInv(i)  BY DEF IInv
<1>1. Working(i) /\ pc[i] = "returning"  BY DEF Release, Working
<1>2. /\ own[i] \in Entry /\ own[i] # None /\ running = own[i]
      /\ Has(own[i], "owned") /\ ~Has(own[i], "done")
      /\ \A j \in Attempt : j # i => own[j] # own[i] /\ ~Working(j)
  BY <1>1, WorkingOwns
<1>3. running' = None /\ UNCHANGED <<own, proc, result, by, cpc, target, answer, crashes>>
  BY <1>2 DEF Release, cancelVars
<1>4. /\ \A e \in Entry : ent'[e] = IF e = own[i] THEN ent[e] \cup {"done"} ELSE ent[e]
      /\ \A j \in Attempt : pc'[j] = IF j = i THEN "done" ELSE pc[j]
  BY <1>0, <1>2 DEF Release, Raise, TypeOK
<1>5. TypeOK'
  <2>1. pc' \in [Attempt -> Pc]  BY <1>0 DEF Release, TypeOK, Pc
  <2>2. ent' \in [Entry -> SUBSET Flag]  BY <1>0 DEF Release, Raise, TypeOK, Flag
  <2>3. QED  BY <1>0, <1>3, <2>1, <2>2 DEF TypeOK
<1>6. EntryInv'
  <2>1. FreshCalls' /\ FreshRecords'
    BY <1>2, <1>3, <1>4 DEF IInv, EntryInv, FreshCalls, FreshRecords, Entry, Has
  <2>2. OwnerUnique'  BY <1>3 DEF IInv, EntryInv, OwnerUnique
  <2>3. OwnedHasOwner'  BY <1>3, <1>4 DEF IInv, EntryInv, OwnedHasOwner, Has
  <2>4. WorkingHolds'  BY <1>2, <1>4 DEF WorkingHolds, Working
  <2>5. RunningIsOpen'  BY <1>3 DEF RunningIsOpen
  <2>6. StartedIsOwned'  BY <1>2, <1>4 DEF IInv, EntryInv, StartedIsOwned, Has, AfterStart
  <2>7. QED  BY <2>1, <2>2, <2>3, <2>4, <2>5, <2>6 DEF EntryInv
<1>7. ASSUME NEW j \in Attempt PROVE CallInv(j)'
  <2>1. CASE j = i
    <3>1. pc'[i] = "done" /\ ent'[own[i]] = ent[own[i]] \cup {"done"}  BY <1>2, <1>4
    <3>2. QED
      BY <1>0, <1>1, <1>2, <1>3, <2>1, <3>1 DEF CallInv, StartKnown, KillKnown, LifeKnown, Has,
         AfterStart
  <2>2. CASE j # i
    <3>1. own[j] # None => ent'[own[j]] = ent[own[j]]  BY <1>0, <1>2, <1>4, <2>2, Types
    <3>2. QED  BY <1>3, <1>4, <2>2, <3>1, CallKept DEF IInv
  <2>3. QED  BY <2>1, <2>2
<1>8. ASSUME NEW k \in Cancel PROVE AskInv(k)'
  <2>1. target[k] # None => target[k] \in Entry  BY <1>0, Types
  <2>2. ASSUME answer[k] = "terminated" PROVE Stopped(target[k])'
    <3>1. target[k] \in Entry /\ Stopped(target[k])  BY <2>1, <2>2 DEF IInv, AskInv
    <3>2. /\ ent[target[k]] \subseteq ent'[target[k]]
          /\ \A f \in {"startAttempted", "started", "killErr"} :
                f \in ent'[target[k]] => f \in ent[target[k]]
      BY <1>4, <3>1
    <3>3. target' = target  BY <1>3
    <3>4. QED  BY <3>1, <3>2, <3>3 DEF Stopped, Has
  <2>3. cpc[k] \in {"found", "waiting"} =>
           \A j \in Attempt : own'[j] = target[k] => pc'[j] # "lost"
    BY <1>3, <1>4 DEF IInv, AskInv
  <2>4. target[k] # None => ent[target[k]] \subseteq ent'[target[k]]  BY <1>4, <2>1
  <2>5. QED  BY <1>3, <2>2, <2>3, <2>4, AskKept DEF IInv
<1>9. QED  BY <1>5, <1>6, <1>7, <1>8 DEF IInv

-----------------------------------------------------------------------------
(* Cancel *)

\* A step of one Cancel call that leaves the entries alone.
LEMMA QuietCancelKeeps ==
    ASSUME IInv, NEW k \in Cancel,
           UNCHANGED <<execVars, entryVars, crashes>>,
           cpc[k] # "answered",
           cpc' \in [Cancel -> CancelPc], target' \in [Cancel -> Entry \cup {None}],
           answer' \in [Cancel -> Outcome],
           \A c \in Cancel : c # k => cpc'[c] = cpc[c] /\ target'[c] = target[c]
                                      /\ answer'[c] = answer[c],
           AskInv(k)'
    PROVE  IInv'
<1>1. UNCHANGED <<pc, own, proc, result, ent, by, running, crashes>>  BY DEF execVars, entryVars
<1>2. TypeOK'  BY <1>1 DEF IInv, TypeOK
<1>3. EntryInv'
  BY <1>1 DEF IInv, EntryInv, FreshCalls, FreshRecords, OwnerUnique, OwnedHasOwner, WorkingHolds,
     Working, RunningIsOpen, StartedIsOwned, Has
<1>4. ASSUME NEW i \in Attempt PROVE CallInv(i)'  BY <1>1, CallKept DEF IInv
<1>5. ASSUME NEW c \in Cancel PROVE AskInv(c)'
  <2>1. CASE c = k  BY <2>1
  <2>2. CASE c # k  BY <1>1, <2>2 DEF IInv, AskInv, Stopped, Has
  <2>3. QED  BY <2>1, <2>2
<1>6. QED  BY <1>2, <1>3, <1>4, <1>5 DEF IInv

\* The lookup finds the reserved entry, whose owner is at work.
LEMMA CancelLookupKeeps ==
    ASSUME IInv, NEW k \in Cancel, CancelLookup(k)
    PROVE  IInv'
<1>0. TypeOK /\ AskInv(k)  BY DEF IInv
<1>1. /\ cpc' = [cpc EXCEPT ![k] = IF running = None THEN "refusing" ELSE "found"]
      /\ target' = [target EXCEPT ![k] = running] /\ cpc[k] = "received"
      /\ UNCHANGED <<execVars, entryVars, answer, crashes>>
  BY DEF CancelLookup
<1>2. /\ cpc' \in [Cancel -> CancelPc] /\ target' \in [Cancel -> Entry \cup {None}]
      /\ cpc'[k] = (IF running = None THEN "refusing" ELSE "found") /\ target'[k] = running
      /\ \A c \in Cancel : c # k => cpc'[c] = cpc[c] /\ target'[c] = target[c]
  BY <1>0, <1>1 DEF TypeOK, CancelPc
<1>3. AskInv(k)'
  BY <1>0, <1>1, <1>2 DEF IInv, EntryInv, RunningIsOpen, AskInv, execVars, entryVars
<1>4. QED  BY <1>0, <1>1, <1>2, <1>3, QuietCancelKeeps DEF TypeOK

\* gradeCancelOutcome, after the release or at the backstop.
LEMMA CancelEndsKeeps ==
    ASSUME IInv, NEW k \in Cancel, CancelGrade(k) \/ CancelGiveUp(k)
    PROVE  IInv'
<1>0. TypeOK /\ AskInv(k)  BY DEF IInv
<1>1. PICK outcome \in {"terminated", "kill_failed"} :
         /\ Answered(k, outcome)
         /\ outcome = "terminated" =>
               Has(target[k], "done") /\ gradeCancelOutcome(target[k]) = "terminated"
  BY DEF CancelGrade, CancelGiveUp, gradeCancelOutcome
<1>2. cpc[k] = "waiting" /\ UNCHANGED <<execVars, entryVars, target, crashes>>
  BY DEF CancelGrade, CancelGiveUp
<1>3. /\ cpc' \in [Cancel -> CancelPc] /\ answer' \in [Cancel -> Outcome]
      /\ cpc'[k] = "answered" /\ answer'[k] = outcome
      /\ \A c \in Cancel : c # k => cpc'[c] = cpc[c] /\ answer'[c] = answer[c]
  BY <1>0, <1>1 DEF Answered, TypeOK, CancelPc, Outcome
<1>4. target[k] \in Entry  BY <1>0, <1>2, Types DEF AskInv
<1>5. Has(target[k], "owned")
  BY <1>0, <1>2, <1>4 DEF IInv, EntryInv, StartedIsOwned, AskInv
<1>6. outcome = "terminated" => Stopped(target[k])
  BY <1>1 DEF gradeCancelOutcome, Stopped
<1>7. AskInv(k)'
  BY <1>0, <1>2, <1>3, <1>5, <1>6 DEF AskInv, Stopped, Has, entryVars
<1>8. QED  BY <1>0, <1>2, <1>3, <1>7, QuietCancelKeeps DEF TypeOK

\* recordCancelRefusal makes a record nobody owns, when the id is free.
LEMMA CancelRefuseKeeps ==
    ASSUME IInv, NEW k \in Cancel, CancelRefuse(k)
    PROVE  IInv'
<1>0. TypeOK /\ AskInv(k)  BY DEF IInv
<1>1. PICK outcome \in {"not_found", "kill_failed"} : Answered(k, outcome)
  BY DEF CancelRefuse, NotFoundHere
<1>2. /\ cpc' \in [Cancel -> CancelPc] /\ answer' \in [Cancel -> Outcome]
      /\ cpc'[k] = "answered" /\ answer'[k] = outcome
      /\ \A c \in Cancel : c # k => cpc'[c] = cpc[c] /\ answer'[c] = answer[c]
  BY <1>0, <1>1 DEF Answered, TypeOK, CancelPc, Outcome
<1>3. cpc[k] = "refusing" /\ UNCHANGED <<execVars, target, crashes>>  BY DEF CancelRefuse
<1>4. CASE running # None
  <2>1. UNCHANGED entryVars  BY <1>4 DEF CancelRefuse
  <2>2. AskInv(k)'  BY <1>2 DEF AskInv
  <2>3. QED  BY <1>0, <1>2, <1>3, <2>1, <2>2, QuietCancelKeeps DEF TypeOK
<1>5. CASE running = None
  <2>1. running' = k /\ ent' = [ent EXCEPT ![k] = {"cancelRequested"}] /\ by' = [by EXCEPT ![k] = k]
    BY <1>5 DEF CancelRefuse
  <2>2. k \in Entry /\ k # None /\ k \notin Attempt  BY ExecutorAssumption DEF Entry
  <2>3. \A e \in Entry : ent'[e] = IF e = k THEN {"cancelRequested"} ELSE ent[e]
    BY <1>0, <2>1, <2>2 DEF TypeOK
  <2>4. ent[k] = {}  BY <1>3 DEF IInv, EntryInv, FreshRecords
  <2>5. UNCHANGED <<pc, own, proc, result, target, crashes>>  BY <1>3 DEF execVars
  <2>6. TypeOK'
    <3>1. by' \in [Entry -> Cancel \cup {None}] /\ running' \in Entry \cup {None}
      BY <1>0, <2>1, <2>2 DEF TypeOK
    <3>2. ent' \in [Entry -> SUBSET Flag]  BY <1>0, <2>1 DEF TypeOK, Flag
    <3>3. QED  BY <1>0, <1>2, <2>5, <3>1, <3>2 DEF TypeOK
  <2>7. \A i \in Attempt : own[i] # k
    BY <2>2, <2>4 DEF IInv, EntryInv, OwnedHasOwner, Has
  <2>8. EntryInv'
    <3>1. FreshCalls'  BY <2>2, <2>3, <2>5 DEF IInv, EntryInv, FreshCalls, Entry
    <3>2. FreshRecords'  BY <1>2, <2>3 DEF IInv, EntryInv, FreshRecords, Entry
    <3>3. OwnerUnique'  BY <2>5 DEF IInv, EntryInv, OwnerUnique
    <3>4. OwnedHasOwner'  BY <2>3, <2>5, <2>7 DEF IInv, EntryInv, OwnedHasOwner, Has
    <3>5. WorkingHolds'  BY <1>5, <2>5 DEF IInv, EntryInv, WorkingHolds, Working
    <3>6. RunningIsOpen'  BY <2>1, <2>2, <2>3, <2>5, <2>7 DEF RunningIsOpen, Has
    <3>7. StartedIsOwned'  BY <2>3 DEF IInv, EntryInv, StartedIsOwned, Has, AfterStart
    <3>8. QED  BY <3>1, <3>2, <3>3, <3>4, <3>5, <3>6, <3>7 DEF EntryInv
  <2>9. ASSUME NEW i \in Attempt PROVE CallInv(i)'
    <3>1. own[i] # None => ent'[own[i]] = ent[own[i]]  BY <1>0, <2>3, <2>7, Types
    <3>2. QED  BY <2>5, <3>1, CallKept DEF IInv
  <2>10. ASSUME NEW c \in Cancel PROVE AskInv(c)'
    <3>1. CASE c = k  BY <1>2, <3>1 DEF AskInv
    <3>2. CASE c # k
      <4>1. target[c] # None => target[c] \in Entry  BY <1>0, Types
      <4>2. cpc[c] \in {"found", "waiting"} \/ answer[c] = "terminated" =>
               target[c] # None /\ target[c] # k
        BY <2>4 DEF IInv, AskInv, Has
      <4>3. answer[c] = "terminated" => Stopped(target[c])'
        BY <2>3, <2>5, <4>1, <4>2 DEF IInv, AskInv, Stopped, Has
      <4>4. cpc[c] \in {"found", "waiting"} =>
               \A j \in Attempt : own'[j] = target[c] => pc'[j] # "lost"
        BY <2>5 DEF IInv, AskInv
      <4>5. target[c] # None => ent[target[c]] \subseteq ent'[target[c]]
        BY <2>3, <2>4, <4>1
      <4>6. QED  BY <1>2, <2>5, <3>2, <4>3, <4>4, <4>5, AskKept DEF IInv
    <3>3. QED  BY <3>1, <3>2
  <2>11. QED  BY <2>6, <2>8, <2>9, <2>10 DEF IInv
<1>6. QED  BY <1>4, <1>5

\* A step of one Cancel call that marks its entry.
LEMMA MarkKeeps ==
    ASSUME IInv, NEW k \in Cancel, NEW F \in SUBSET {"cancelRequested", "ctxDone"},
           cpc[k] = "found",
           Raise(target[k], F),
           by' \in [Entry -> Cancel \cup {None}],
           UNCHANGED <<execVars, running, target, crashes>>,
           cpc' \in [Cancel -> CancelPc], answer' \in [Cancel -> Outcome],
           \A c \in Cancel : c # k => cpc'[c] = cpc[c] /\ answer'[c] = answer[c],
           AskInv(k)'
    PROVE  IInv'
<1>0. TypeOK /\ AskInv(k)  BY DEF IInv
<1>1. target[k] \in Entry /\ ent[target[k]] # {}  BY <1>0, Types DEF AskInv
<1>2. \A e \in Entry : ent'[e] = IF e = target[k] THEN ent[e] \cup F ELSE ent[e]
  BY <1>0, <1>1 DEF TypeOK, Raise
<1>3. UNCHANGED <<pc, own, proc, result, running, target, crashes>>  BY DEF execVars
<1>4. TypeOK'
  <2>1. ent' \in [Entry -> SUBSET Flag]  BY <1>0, <1>1 DEF TypeOK, Raise, Flag
  <2>2. QED  BY <1>0, <1>3, <2>1 DEF TypeOK
<1>5. \A e \in Entry : \A f \in Flag \ {"cancelRequested", "ctxDone"} :
         f \in ent'[e] <=> f \in ent[e]
  BY <1>2
<1>6. EntryInv'
  <2>1. FreshCalls'  BY <1>1, <1>2, <1>3 DEF IInv, EntryInv, FreshCalls, Entry
  <2>2. FreshRecords'
    BY <1>1, <1>2 DEF IInv, EntryInv, FreshRecords, Entry
  <2>3. OwnerUnique'  BY <1>3 DEF IInv, EntryInv, OwnerUnique
  <2>4. OwnedHasOwner'  BY <1>3, <1>5 DEF IInv, EntryInv, OwnedHasOwner, Has, Flag
  <2>5. WorkingHolds'  BY <1>3 DEF IInv, EntryInv, WorkingHolds, Working
  <2>6. RunningIsOpen'
    <3>1. running # None => running \in Entry  BY <1>0 DEF TypeOK
    <3>2. running # None => ent[running] # {} /\ ent[running] \subseteq ent'[running]
      BY <1>2, <3>1 DEF IInv, EntryInv, RunningIsOpen
    <3>3. running # None => ~Has(running, "done")'
      BY <1>3, <1>5, <3>1 DEF IInv, EntryInv, RunningIsOpen, Has, Flag
    <3>4. QED  BY <1>3, <3>2, <3>3 DEF IInv, EntryInv, RunningIsOpen
  <2>7. StartedIsOwned'  BY <1>5 DEF IInv, EntryInv, StartedIsOwned, Has, AfterStart, Flag
  <2>8. QED  BY <2>1, <2>2, <2>3, <2>4, <2>5, <2>6, <2>7 DEF EntryInv
<1>7. ASSUME NEW i \in Attempt PROVE CallInv(i)'
  <2>1. own[i] # None => own[i] \in Entry  BY <1>0, Types
  <2>2. QED  BY <1>3, <1>5, <2>1, CallKept DEF IInv
<1>8. ASSUME NEW c \in Cancel PROVE AskInv(c)'
  <2>1. CASE c = k  BY <2>1
  <2>2. CASE c # k
    <3>1. target[c] # None => target[c] \in Entry  BY <1>0, Types
    <3>2. target[c] # None => ent[target[c]] \subseteq ent'[target[c]]  BY <1>2, <3>1
    <3>3. ASSUME answer[c] = "terminated" PROVE Stopped(target[c])'
      <4>1. target[c] \in Entry /\ Stopped(target[c])  BY <3>1, <3>3 DEF IInv, AskInv
      <4>2. \A f \in {"startAttempted", "started", "killErr"} :
               f \in ent'[target[c]] => f \in ent[target[c]]
        BY <1>5, <4>1 DEF Flag
      <4>3. ent[target[c]] \subseteq ent'[target[c]] /\ target' = target  BY <1>2, <1>3, <4>1
      <4>4. QED  BY <4>1, <4>2, <4>3 DEF Stopped, Has
    <3>4. cpc[c] \in {"found", "waiting"} =>
             \A j \in Attempt : own'[j] = target[c] => pc'[j] # "lost"
      BY <1>3 DEF IInv, AskInv
    <3>5. QED  BY <1>3, <2>2, <3>2, <3>3, <3>4, AskKept DEF IInv
  <2>3. QED  BY <2>1, <2>2
<1>9. QED  BY <1>4, <1>6, <1>7, <1>8 DEF IInv

\* markCancelRequested: `terminated` is said at once of an entry whose call has not
\* committed to a start, and beginStart will see the mark.
LEMMA CancelMarkKeeps ==
    ASSUME IInv, NEW k \in Cancel, CancelMark(k)
    PROVE  IInv'
<1>0. TypeOK /\ AskInv(k)  BY DEF IInv
<1>1. /\ cpc[k] = "found" /\ by' = [by EXCEPT ![target[k]] = k]
      /\ UNCHANGED <<execVars, running, target, crashes>>
  BY DEF CancelMark
<1>2. target[k] \in Entry /\ target[k] # None /\ ent[target[k]] # {} /\ answer[k] = "none"
  BY <1>0, <1>1, Types DEF AskInv
<1>3. by' \in [Entry -> Cancel \cup {None}]  BY <1>0, <1>1 DEF TypeOK
<1>4. UNCHANGED <<pc, own, target>>  BY <1>1 DEF execVars
<1>5. CASE ~Has(target[k], "owned") /\ Raise(target[k], {"cancelRequested"}) /\ NotFoundHere(k)
  <2>1. PICK outcome \in {"not_found", "kill_failed"} : Answered(k, outcome)
    BY <1>5 DEF NotFoundHere
  <2>2. /\ cpc' \in [Cancel -> CancelPc] /\ answer' \in [Cancel -> Outcome]
        /\ cpc'[k] = "answered" /\ answer'[k] = outcome
        /\ \A c \in Cancel : c # k => cpc'[c] = cpc[c] /\ answer'[c] = answer[c]
    BY <1>0, <2>1 DEF Answered, TypeOK, CancelPc, Outcome
  <2>3. AskInv(k)'  BY <2>2 DEF AskInv
  <2>4. QED  BY <1>1, <1>3, <1>5, <2>2, <2>3, MarkKeeps
<1>6. CASE /\ Has(target[k], "owned") /\ ~Has(target[k], "startAttempted")
           /\ Raise(target[k], {"cancelRequested"}) /\ Answered(k, "terminated")
  <2>1. /\ cpc' \in [Cancel -> CancelPc] /\ answer' \in [Cancel -> Outcome]
        /\ cpc'[k] = "answered" /\ answer'[k] = "terminated"
        /\ \A c \in Cancel : c # k => cpc'[c] = cpc[c] /\ answer'[c] = answer[c]
    BY <1>0, <1>6 DEF Answered, TypeOK, CancelPc, Outcome
  <2>2. ent'[target[k]] = ent[target[k]] \cup {"cancelRequested"}
    BY <1>0, <1>2, <1>6 DEF Raise, TypeOK
  <2>3. AskInv(k)'  BY <1>2, <1>4, <1>6, <2>1, <2>2 DEF AskInv, Stopped, Has
  <2>4. QED  BY <1>1, <1>3, <1>6, <2>1, <2>3, MarkKeeps
<1>7. CASE /\ Has(target[k], "owned") /\ Has(target[k], "startAttempted")
           /\ Raise(target[k], {"cancelRequested", "ctxDone"})
           /\ cpc' = [cpc EXCEPT ![k] = "waiting"] /\ UNCHANGED answer
  <2>1. /\ cpc' \in [Cancel -> CancelPc] /\ answer' \in [Cancel -> Outcome]
        /\ cpc'[k] = "waiting"
        /\ \A c \in Cancel : c # k => cpc'[c] = cpc[c] /\ answer'[c] = answer[c]
    BY <1>0, <1>7 DEF TypeOK, CancelPc
  <2>2. ent'[target[k]] = ent[target[k]] \cup {"cancelRequested", "ctxDone"}
    BY <1>0, <1>2, <1>7 DEF Raise, TypeOK
  <2>3. \A i \in Attempt : own'[i] = target'[k] => pc'[i] # "lost"
    BY <1>0, <1>1, <1>4 DEF AskInv
  <2>4. AskInv(k)'  BY <1>2, <1>4, <1>7, <2>1, <2>2, <2>3 DEF AskInv, Has
  <2>5. QED  BY <1>1, <1>3, <1>7, <2>1, <2>4, MarkKeeps
<1>8. QED  BY <1>5, <1>6, <1>7 DEF CancelMark

\* cancelRefusalTTL drops a record that no call owns.
LEMMA RefusalExpiresKeeps ==
    ASSUME IInv, NEW k \in Cancel, RefusalExpires(k)
    PROVE  IInv'
<1>0. TypeOK  BY DEF IInv
<1>1. /\ running = k /\ ~Has(k, "owned") /\ running' = None
      /\ UNCHANGED <<pc, own, proc, result, by, cpc, target, answer, crashes>>
  BY DEF RefusalExpires, execVars, cancelVars
<1>2. k \in Entry /\ k # None  BY ExecutorAssumption DEF Entry
<1>3. \A e \in Entry : ent'[e] = IF e = k THEN ent[e] \cup {"done"} ELSE ent[e]
  BY <1>0, <1>2 DEF RefusalExpires, Raise, TypeOK
<1>4. TypeOK'
  <2>1. ent' \in [Entry -> SUBSET Flag]  BY <1>0 DEF RefusalExpires, Raise, TypeOK, Flag
  <2>2. QED  BY <1>0, <1>1, <2>1 DEF TypeOK
<1>5. ent[k] # {} /\ \A i \in Attempt : own[i] # k
  BY <1>1, <1>2 DEF IInv, EntryInv, OwnedHasOwner, RunningIsOpen
<1>6. EntryInv'
  <2>1. FreshCalls'  BY <1>1, <1>3, <1>5, ExecutorAssumption DEF IInv, EntryInv, FreshCalls, Entry
  <2>2. FreshRecords'  BY <1>1, <1>3, <1>5 DEF IInv, EntryInv, FreshRecords, Entry
  <2>3. OwnerUnique'  BY <1>1 DEF IInv, EntryInv, OwnerUnique
  <2>4. OwnedHasOwner'
    <3>1. ASSUME NEW e \in Entry PROVE "owned" \in ent'[e] <=> "owned" \in ent[e]
      <4>1. CASE e = k
        <5>1. ent'[e] = ent[e] \cup {"done"}  BY <1>3, <4>1
        <5>2. "owned" # "done"  OBVIOUS
        <5>3. QED  BY <5>1, <5>2
      <4>2. CASE e # k  BY <1>3, <4>2
      <4>3. QED  BY <4>1, <4>2
    <3>2. QED  BY <1>1, <3>1 DEF IInv, EntryInv, OwnedHasOwner, Has
  <2>5. WorkingHolds'  BY <1>1, <1>5 DEF IInv, EntryInv, WorkingHolds, Working
  <2>6. RunningIsOpen'  BY <1>1 DEF RunningIsOpen
  <2>7. StartedIsOwned'  BY <1>3 DEF IInv, EntryInv, StartedIsOwned, Has, AfterStart
  <2>8. QED  BY <2>1, <2>2, <2>3, <2>4, <2>5, <2>6, <2>7 DEF EntryInv
<1>7. ASSUME NEW i \in Attempt PROVE CallInv(i)'
  <2>1. own[i] # None => ent'[own[i]] = ent[own[i]]  BY <1>0, <1>3, <1>5, Types
  <2>2. QED  BY <1>1, <2>1, CallKept DEF IInv
<1>8. ASSUME NEW c \in Cancel PROVE AskInv(c)'
  <2>1. target[c] # None => target[c] \in Entry  BY <1>0, Types
  <2>2. target[c] # None => ent[target[c]] \subseteq ent'[target[c]]  BY <1>3, <2>1
  <2>3. ASSUME answer[c] = "terminated" PROVE Stopped(target[c])'
    <3>1. target[c] \in Entry /\ Stopped(target[c]) /\ target[c] # k
      BY <1>1, <2>1, <2>3 DEF IInv, AskInv
    <3>2. ent'[target[c]] = ent[target[c]]  BY <1>3, <3>1
    <3>3. QED  BY <1>1, <3>1, <3>2 DEF Stopped, Has
  <2>4. cpc[c] \in {"found", "waiting"} =>
           \A j \in Attempt : own'[j] = target[c] => pc'[j] # "lost"
    BY <1>1 DEF IInv, AskInv
  <2>5. QED  BY <1>1, <2>2, <2>3, <2>4, AskKept DEF IInv
<1>9. QED  BY <1>4, <1>6, <1>7, <1>8 DEF IInv

-----------------------------------------------------------------------------
(* Restart *)

\* A crash loses the calls and the map; the processes that live on belong to lost calls.
LEMMA CrashKeeps ==
    ASSUME IInv, Crash
    PROVE  IInv'
<1>0. TypeOK /\ crashes \in Nat  BY DEF IInv, TypeOK
<1>1. /\ running' = None /\ crashes' = crashes + 1
      /\ UNCHANGED <<own, result, ent, by, target, answer>>
  BY DEF Crash
<1>2. /\ \A i \in Attempt : pc'[i] = IF pc[i] \in {"absent", "done"} THEN pc[i] ELSE "lost"
      /\ \A k \in Cancel : cpc'[k] = IF cpc[k] \in {"absent", "answered"} THEN cpc[k] ELSE "lost"
  BY DEF Crash
<1>3. /\ proc' \in [Attempt -> Tree]
      /\ \A i \in Attempt : /\ proc'[i].leader = "running" => proc[i].leader = "running"
                            /\ proc'[i].child = proc[i].child
  <2>1. CASE UNCHANGED proc  BY <1>0, <2>1 DEF TypeOK
  <2>2. CASE proc' = [i \in Attempt |-> [proc[i] EXCEPT !.leader = Gone(@)]]
    BY <1>0, <2>2 DEF TypeOK, Tree, Life, Gone
  <2>3. QED  BY <2>1, <2>2 DEF Crash
<1>4. TypeOK'
  <2>1. pc' \in [Attempt -> Pc]  BY <1>0 DEF Crash, TypeOK, Pc
  <2>2. cpc' \in [Cancel -> CancelPc]  BY <1>0 DEF Crash, TypeOK, CancelPc
  <2>3. QED  BY <1>0, <1>1, <1>3, <2>1, <2>2 DEF TypeOK
<1>5. EntryInv'
  BY <1>1, <1>2 DEF IInv, EntryInv, FreshCalls, FreshRecords, OwnerUnique, OwnedHasOwner,
     WorkingHolds, Working, RunningIsOpen, StartedIsOwned, Has
<1>6. ASSUME NEW i \in Attempt PROVE CallInv(i)'
  <2>0. CallInv(i) /\ (pc'[i] = pc[i] \/ pc'[i] = "lost")  BY <1>2 DEF IInv
  <2>1. StartKnown(i)'  BY <1>1, <1>2, <2>0 DEF CallInv, StartKnown, Has
  <2>2. KillKnown(i)'  BY <1>1, <1>2, <1>3, <2>0 DEF CallInv, KillKnown, Has
  <2>3. LifeKnown(i)'  BY <1>0, <1>1, <1>2, <1>3, <2>0 DEF CallInv, LifeKnown, Has
  <2>4. QED  BY <2>1, <2>2, <2>3 DEF CallInv
<1>7. ASSUME NEW k \in Cancel PROVE AskInv(k)'
  BY <1>1, <1>2 DEF IInv, AskInv, Stopped, Has
<1>8. QED  BY <1>4, <1>5, <1>6, <1>7 DEF IInv

-----------------------------------------------------------------------------
(* The invariants *)

\* Nothing has run and nobody has asked.
LEMMA InitEstablishes == Init => IInv
<1> SUFFICES ASSUME Init PROVE IInv
  OBVIOUS
<1>1. TypeOK
  BY ExecutorAssumption DEF Init, TypeOK, Entry, Pc, CancelPc, Tree, Life, Result, Ending, Outcome
<1>2. EntryInv
  BY ExecutorAssumption DEF Init, EntryInv, FreshCalls, FreshRecords, OwnerUnique, OwnedHasOwner,
     WorkingHolds, Working, RunningIsOpen, StartedIsOwned, Has, Entry
<1>3. ASSUME NEW i \in Attempt PROVE CallInv(i)
  BY DEF Init, CallInv, StartKnown, KillKnown, LifeKnown
<1>4. ASSUME NEW k \in Cancel PROVE AskInv(k)  BY DEF Init, AskInv
<1>5. QED  BY <1>1, <1>2, <1>3, <1>4 DEF IInv

\* Every step keeps the invariant.
LEMMA StepKeeps == IInv /\ [Next]_vars => IInv'
<1> SUFFICES ASSUME IInv, [Next]_vars PROVE IInv'
  OBVIOUS
<1>1. ASSUME NEW i \in Attempt, Arrive(i) \/ Reserve(i) \/ Release(i) PROVE IInv'
  BY <1>1, FrameKeeps, ReserveKeeps, ReleaseKeeps
<1>2. ASSUME NEW i \in Attempt,
             SetupFails(i) \/ BeginStart(i) \/ StartFails(i) \/ Start(i) \/ Attach(i) PROVE IInv'
  BY <1>2, SetupFailsKeeps, BeginStartKeeps, ToStampingKeeps, StartKeeps, AttachKeeps
<1>3. ASSUME NEW i \in Attempt, Timeout(i) \/ Kill(i) \/ Reap(i) \/ Stamp(i) PROVE IInv'
  BY <1>3, TimeoutKeeps, KillKeeps, ToStampingKeeps, StampKeeps
<1>4. ASSUME NEW i \in Attempt, Spawn(i) \/ ChildExits(i) \/ LeaderExits(i) PROVE IInv'
  BY <1>4, ProcessKeeps
<1>5. ASSUME NEW k \in Cancel, Receive(k) \/ CancelLookup(k) \/ CancelRefuse(k) \/ CancelMark(k)
      PROVE  IInv'
  BY <1>5, FrameKeeps, CancelLookupKeeps, CancelRefuseKeeps, CancelMarkKeeps
<1>6. ASSUME NEW k \in Cancel, CancelGrade(k) \/ CancelGiveUp(k) \/ RefusalExpires(k) PROVE IInv'
  BY <1>6, CancelEndsKeeps, RefusalExpiresKeeps
<1>7. CASE Crash  BY <1>7, CrashKeeps
<1>8. CASE UNCHANGED vars
  <2>1. TypeOK'  BY <1>8 DEF vars, IInv, TypeOK
  <2>2. EntryInv'
    BY <1>8 DEF vars, IInv, EntryInv, FreshCalls, FreshRecords, OwnerUnique, OwnedHasOwner,
       WorkingHolds, Working, RunningIsOpen, StartedIsOwned, Has
  <2>3. ASSUME NEW i \in Attempt PROVE CallInv(i)'  BY <1>8, CallKept DEF vars, IInv
  <2>4. ASSUME NEW k \in Cancel PROVE AskInv(k)'  BY <1>8 DEF vars, IInv, AskInv, Stopped, Has
  <2>5. QED  BY <2>1, <2>2, <2>3, <2>4 DEF IInv
<1>9. QED  BY <1>1, <1>2, <1>3, <1>4, <1>5, <1>6, <1>7, <1>8 DEF Next

\* The invariant holds in every reachable state.
LEMMA Invariance == Spec => []IInv
  BY InitEstablishes, StepKeeps, PTL DEF Spec

\* Calls, entries, processes and outcomes keep their types.
THEOREM TypeCorrect == Spec => []TypeOK
<1>1. IInv => TypeOK  BY DEF IInv
<1>2. QED  BY <1>1, Invariance, PTL

\* Cancel's `terminated`: the Execute call the cancel worked on has no running leader and
\* can start none, whether the cancel came before the start or after it.
THEOREM TerminatedMeansLeaderGoneHolds == Spec => []TerminatedMeansLeaderGone
<1>1. ASSUME IInv PROVE TerminatedMeansLeaderGone
  <2> SUFFICES ASSUME NEW k \in Cancel, answer[k] = "terminated",
                      NEW i \in Attempt, own[i] = target[k]
               PROVE  proc[i].leader # "running" /\ pc[i] # "starting"
    BY DEF TerminatedMeansLeaderGone
  <2>1. own[i] # None /\ Stopped(own[i])  BY <1>1 DEF IInv, AskInv
  <2>2. CallInv(i)  BY <1>1 DEF IInv
  <2>3. CASE ~Has(own[i], "startAttempted")
    BY <2>1, <2>2, <2>3 DEF CallInv, StartKnown, LifeKnown
  <2>4. CASE Has(own[i], "done")
    BY <2>1, <2>2, <2>4 DEF CallInv, StartKnown, LifeKnown
  <2>5. QED  BY <2>1, <2>3, <2>4 DEF Stopped
<1>2. QED  BY <1>1, Invariance, PTL

\* A kill that Cancel graded `terminated` took the child processes with it.
THEOREM KilledMeansTreeGoneHolds == Spec => []KilledMeansTreeGone
<1>1. ASSUME IInv PROVE KilledMeansTreeGone
  <2> SUFFICES ASSUME NEW k \in Cancel, answer[k] = "terminated",
                      NEW i \in Attempt, own[i] = target[k], Has(target[k], "killed")
               PROVE  proc[i].child # "running"
    BY DEF KilledMeansTreeGone
  <2>1. own[i] # None /\ Stopped(own[i]) /\ Has(own[i], "killed")  BY <1>1 DEF IInv, AskInv
  <2>2. CallInv(i)  BY <1>1 DEF IInv
  <2>3. Has(own[i], "startAttempted")
    BY <2>1, <2>2 DEF CallInv, StartKnown, AfterStart
  <2>4. Has(own[i], "done") /\ pc[i] = "done"
    BY <2>1, <2>2, <2>3 DEF Stopped, CallInv, StartKnown
  <2>5. Has(own[i], "started")  BY <2>1, <2>2, <2>4 DEF CallInv, KillKnown
  <2>6. QED  BY <2>1, <2>2, <2>3, <2>5 DEF Stopped, CallInv, KillKnown
<1>2. QED  BY <1>1, Invariance, PTL

\* reserve lets one delivery of an id at a time run a process, as long as the agent lives.
THEOREM OneProcessPerIdHolds == Spec => []OneProcessPerId
<1>1. ASSUME IInv PROVE OneProcessPerId
  <2> SUFFICES ASSUME crashes = 0, NEW i \in Attempt, NEW j \in Attempt,
                      proc[i].leader = "running", proc[j].leader = "running"
               PROVE  i = j
    BY DEF OneProcessPerId
  <2>1. CallInv(i) /\ CallInv(j)  BY <1>1 DEF IInv
  <2>2. Working(i) /\ Working(j)  BY <2>1 DEF CallInv, LifeKnown, Working
  <2>3. QED  BY <1>1, <2>2, WorkingOwns
<1>2. QED  BY <1>1, Invariance, PTL

-----------------------------------------------------------------------------
(* Refinement: Execute and Cancel implement ScriptAgent *)

ResultOf(i) == IF pc[i] = "done" THEN result[i].ending ELSE "none"
AskOf(k) == IF cpc[k] \in {"absent", "answered", "lost"} THEN cpc[k] ELSE "received"

SameAttempts(S) == \A j \in S : AttemptOf(j)' = AttemptOf(j)
SameResults(S)  == \A j \in S : ResultOf(j)' = ResultOf(j)
SameAsks(S)     == \A k \in S : AskOf(k)' = AskOf(k)

\* The attempt an Execute call stands for.
LEMMA AttemptCases ==
    ASSUME NEW i \in Attempt
    PROVE  /\ pc[i] \in {"absent", "lost"} => AttemptOf(i) = pc[i]
           /\ pc[i] = "queued" => AttemptOf(i) = "waiting"
           /\ pc[i] = "done" => AttemptOf(i) = "over"
           /\ pc[i] = "setup" /\ "startAttempted" \notin ent[own[i]] =>
                 AttemptOf(i) = IF "cancelRequested" \in ent[own[i]] THEN "doomed" ELSE "waiting"
           /\ pc[i] \in {"starting", "started", "waiting", "stamping", "returning"} =>
                 AttemptOf(i) = IF "startAttempted" \in ent[own[i]] THEN "live" ELSE "doomed"
  BY DEF AttemptOf, Has

\* The same after a step.
LEMMA AttemptCasesNext ==
    ASSUME NEW i \in Attempt
    PROVE  /\ pc'[i] \in {"absent", "lost"} => AttemptOf(i)' = pc'[i]
           /\ pc'[i] = "queued" => AttemptOf(i)' = "waiting"
           /\ pc'[i] = "done" => AttemptOf(i)' = "over"
           /\ pc'[i] = "setup" /\ "startAttempted" \notin ent'[own'[i]] =>
                 AttemptOf(i)' = IF "cancelRequested" \in ent'[own'[i]] THEN "doomed" ELSE "waiting"
           /\ pc'[i] \in {"starting", "started", "waiting", "stamping", "returning"} =>
                 AttemptOf(i)' = IF "startAttempted" \in ent'[own'[i]] THEN "live" ELSE "doomed"
  BY DEF AttemptOf, Has

\* A call that stays where it is, with the two flags that matter, is the same attempt.
LEMMA AttemptKept ==
    ASSUME NEW i \in Attempt,
           pc'[i] = pc[i],
           pc[i] \notin {"absent", "lost", "queued", "done"} =>
              /\ "startAttempted" \in ent'[own'[i]] <=> "startAttempted" \in ent[own[i]]
              /\ pc[i] = "setup" =>
                    ("cancelRequested" \in ent'[own'[i]] <=> "cancelRequested" \in ent[own[i]])
    PROVE  AttemptOf(i)' = AttemptOf(i)
  BY DEF AttemptOf, Has

\* Steps of ScriptAgent, in terms of the calls.
LEMMA AgentStutters ==
    ASSUME SameAttempts(Attempt), SameResults(Attempt), SameAsks(Cancel),
           UNCHANGED <<answer, crashes>>
    PROVE  UNCHANGED Agent!agentVars
  BY DEF Agent!agentVars, SameAttempts, SameResults, SameAsks, ResultOf, AskOf

\* The launch of an attempt.
LEMMA AgentLaunches ==
    ASSUME NEW i \in Attempt, AttemptOf(i) = "waiting", AttemptOf(i)' = "live",
           \A j \in Attempt : AttemptOf(j) # "live",
           SameAttempts(Attempt \ {i}), SameResults(Attempt), SameAsks(Cancel),
           UNCHANGED <<answer, crashes>>
    PROVE  Agent!Launch(i)
  BY DEF Agent!Launch, SameAttempts, SameResults, SameAsks, ResultOf, AskOf

\* An attempt that will not run.
LEMMA AgentDooms ==
    ASSUME NEW i \in Attempt, AttemptOf(i) = "waiting", AttemptOf(i)' = "doomed",
           SameAttempts(Attempt \ {i}), SameResults(Attempt), SameAsks(Cancel),
           UNCHANGED <<answer, crashes>>
    PROVE  Agent!Doom(i)
  BY DEF Agent!Doom, SameAttempts, SameResults, SameAsks, ResultOf, AskOf

\* A result is out.
LEMMA AgentEnds ==
    ASSUME NEW i \in Attempt, AttemptOf(i) \in {"waiting", "live", "doomed"},
           AttemptOf(i)' = "over",
           NEW ending \in {"ok", "failed"}, ResultOf(i)' = ending,
           ending = "ok" => AttemptOf(i) = "live",
           SameAttempts(Attempt \ {i}), SameResults(Attempt \ {i}), SameAsks(Cancel),
           UNCHANGED <<answer, crashes>>
    PROVE  Agent!End(i)
  BY DEF Agent!End, SameAttempts, SameResults, SameAsks, ResultOf, AskOf

\* An answer that is not `terminated`.
LEMMA AgentDeclines ==
    ASSUME NEW k \in Cancel, AskOf(k) = "received", AskOf(k)' = "answered",
           NEW outcome \in {"not_found", "kill_failed"},
           answer' = [answer EXCEPT ![k] = outcome],
           SameAttempts(Attempt), SameResults(Attempt), SameAsks(Cancel \ {k}),
           UNCHANGED crashes
    PROVE  Agent!Answer(k)
  BY DEF Agent!Answer, SameAttempts, SameResults, SameAsks, ResultOf, AskOf

\* The answer `terminated`, with the attempt it is said of.
LEMMA AgentTerminates ==
    ASSUME NEW k \in Cancel, AskOf(k) = "received", AskOf(k)' = "answered",
           NEW i \in Attempt, AttemptOf(i) \in {"waiting", "doomed", "over"},
           AttemptOf(i)' = IF AttemptOf(i) = "waiting" THEN "doomed" ELSE AttemptOf(i),
           answer' = [answer EXCEPT ![k] = "terminated"],
           SameAttempts(Attempt \ {i}), SameResults(Attempt), SameAsks(Cancel \ {k}),
           UNCHANGED crashes
    PROVE  Agent!Answer(k)
  BY DEF Agent!Answer, SameAttempts, SameResults, SameAsks, ResultOf, AskOf

AgentStep == [Agent!AgentNext \/ Agent!FrameNext]_(Agent!agentVars)

\* While one call works, the others are the same attempts whatever happens to flags.
LEMMA OthersKept ==
    ASSUME IInv, NEW i \in Attempt, Working(i),
           \A j \in Attempt : j # i => pc'[j] = pc[j]
    PROVE  SameAttempts(Attempt \ {i})
<1>1. ASSUME NEW j \in Attempt, j # i PROVE AttemptOf(j)' = AttemptOf(j)
  <2>1. ~Working(j) /\ pc[j] \in Pc /\ pc'[j] = pc[j]  BY <1>1, WorkingOwns, Types DEF IInv
  <2>2. pc[j] \in {"absent", "lost", "queued", "done"}  BY <2>1 DEF Working, Pc
  <2>3. QED  BY <2>1, <2>2, AttemptKept
<1>2. QED  BY <1>1 DEF SameAttempts

\* Results change for calls that are not over only.
LEMMA ResultsKept ==
    ASSUME NEW S \in SUBSET Attempt,
           \A j \in S : (pc'[j] = "done" <=> pc[j] = "done")
                        /\ (pc[j] = "done" => result'[j] = result[j])
    PROVE  SameResults(S)
  BY DEF SameResults, ResultOf

\* Cancel calls that are left alone.
LEMMA AsksKept ==
    ASSUME NEW S \in SUBSET Cancel, \A k \in S : cpc'[k] = cpc[k]
    PROVE  SameAsks(S)
  BY DEF SameAsks, AskOf

\* Between the commitment to a start and the result the attempt is live.
LEMMA LiveRefines ==
    ASSUME IInv, NEW i \in Attempt,
           StartFails(i) \/ Start(i) \/ Attach(i) \/ Timeout(i) \/ Kill(i) \/ Reap(i) \/ Stamp(i)
    PROVE  UNCHANGED Agent!agentVars
<1>0. TypeOK /\ CallInv(i)  BY DEF IInv
<1>1. pc[i] \in {"starting", "started", "waiting", "stamping"}
  BY DEF StartFails, Start, Attach, Timeout, Kill, Reap, Stamp, InProcess
<1>2. Working(i)  BY <1>1 DEF Working
<1>3. own[i] \in Entry /\ own[i] # None  BY <1>2, WorkingOwns
<1>4. "startAttempted" \in ent[own[i]]  BY <1>0, <1>1, <1>3 DEF CallInv, StartKnown, Has
<1>5. PICK p \in {"starting", "started", "waiting", "stamping", "returning"} :
         pc' = [pc EXCEPT ![i] = p]
  <2>1. CASE StartFails(i) \/ Start(i) \/ Attach(i) \/ Reap(i) \/ Stamp(i)
    BY <2>1 DEF StartFails, Start, Attach, Reap, Stamp
  <2>2. CASE Timeout(i) \/ Kill(i)
    <3>1. pc' = pc  BY <2>2 DEF Timeout, Kill, execVars
    <3>2. pc' = [pc EXCEPT ![i] = pc[i]]  BY <1>0, <3>1, PcStays
    <3>3. QED  BY <1>1, <3>2
  <2>3. QED  BY <2>1, <2>2
<1>6. \A j \in Attempt : pc'[j] = IF j = i THEN p ELSE pc[j]  BY <1>0, <1>5 DEF TypeOK
<1>7. "startAttempted" \in ent'[own'[i]]
  <2>1. own' = own
    BY DEF StartFails, Start, Attach, Timeout, Kill, Reap, Stamp, execVars
  <2>2. ent[own[i]] \subseteq ent'[own[i]]
    BY <1>0, <1>3 DEF StartFails, Start, Attach, Timeout, Kill, Reap, Stamp, entryVars, Raise, TypeOK
  <2>3. QED  BY <1>4, <2>1, <2>2
<1>8. SameAttempts(Attempt)
  <2>1. AttemptOf(i)' = AttemptOf(i)
    BY <1>1, <1>4, <1>5, <1>6, <1>7, AttemptCases, AttemptCasesNext
  <2>2. QED  BY <1>2, <1>6, <2>1, OthersKept DEF SameAttempts
<1>9. SameResults(Attempt)
  <2>1. \A j \in Attempt : j # i => result'[j] = result[j]
    BY <1>0 DEF StartFails, Start, Attach, Timeout, Kill, Reap, Stamp, execVars, TypeOK
  <2>2. QED  BY <1>1, <1>6, <2>1, ResultsKept
<1>10. UNCHANGED <<cpc, answer, crashes>>
  BY DEF StartFails, Start, Attach, Timeout, Kill, Reap, Stamp, cancelVars
<1>11. SameAsks(Cancel)  BY <1>10, AsksKept
<1>12. QED  BY <1>8, <1>9, <1>10, <1>11, AgentStutters

\* What processes do by themselves, the lookup of a Cancel call and the expiry of a
\* refusal are no steps of ScriptAgent.
LEMMA QuietRefines ==
    ASSUME IInv,
           \/ \E i \in Attempt : Spawn(i) \/ ChildExits(i) \/ LeaderExits(i)
           \/ \E k \in Cancel : CancelLookup(k) \/ RefusalExpires(k)
           \/ UNCHANGED vars
    PROVE  UNCHANGED Agent!agentVars
<1>0. TypeOK  BY DEF IInv
<1>1. UNCHANGED <<pc, own, result, answer, crashes>>
  BY DEF Spawn, ChildExits, LeaderExits, CancelLookup, RefusalExpires, execVars, cancelVars, vars
<1>2. \A e \in Entry : \A f \in {"startAttempted", "cancelRequested"} :
         f \in ent'[e] <=> f \in ent[e]
  <2>1. CASE UNCHANGED ent  BY <2>1
  <2>2. ASSUME NEW k \in Cancel, RefusalExpires(k),
               NEW e \in Entry, NEW f \in {"startAttempted", "cancelRequested"}
        PROVE  f \in ent'[e] <=> f \in ent[e]
    <3>1. ent'[e] = ent[e] \/ ent'[e] = ent[e] \cup {"done"}
      BY <1>0, <2>2 DEF RefusalExpires, Raise, TypeOK
    <3>2. f # "done"  OBVIOUS
    <3>3. QED  BY <3>1, <3>2
  <2>3. QED  BY <2>1, <2>2 DEF Spawn, ChildExits, LeaderExits, CancelLookup, entryVars, vars
<1>3. SameAttempts(Attempt)
  <2>1. ASSUME NEW j \in Attempt PROVE AttemptOf(j)' = AttemptOf(j)
    <3>1. Working(j) => own[j] \in Entry  BY WorkingOwns
    <3>2. pc[j] \notin {"absent", "lost", "queued", "done"} => Working(j)
      BY <1>0, Types DEF Working, Pc
    <3>3. QED  BY <1>1, <1>2, <3>1, <3>2, AttemptKept
  <2>2. QED  BY <2>1 DEF SameAttempts
<1>4. SameResults(Attempt)  BY <1>1, ResultsKept
<1>5. SameAsks(Cancel)
  <2>1. CASE UNCHANGED cpc  BY <2>1, AsksKept
  <2>2. ASSUME NEW k \in Cancel, CancelLookup(k) PROVE SameAsks(Cancel)
    BY <1>0, <2>2 DEF CancelLookup, SameAsks, AskOf, TypeOK
  <2>3. QED  BY <2>1, <2>2 DEF Spawn, ChildExits, LeaderExits, RefusalExpires, cancelVars, vars
<1>6. QED  BY <1>1, <1>3, <1>4, <1>5, AgentStutters

\* Calls that stay where they are are the same attempts while the working one keeps the
\* two flags that matter.
LEMMA AttemptsKept ==
    ASSUME IInv, NEW S \in SUBSET Attempt,
           \A j \in S : pc'[j] = pc[j] /\ own'[j] = own[j],
           \A j \in S : Working(j) =>
              \A f \in {"startAttempted", "cancelRequested"} :
                 f \in ent'[own[j]] <=> f \in ent[own[j]]
    PROVE  SameAttempts(S)
<1>1. ASSUME NEW j \in S PROVE AttemptOf(j)' = AttemptOf(j)
  <2>1. pc[j] \notin {"absent", "lost", "queued", "done"} => Working(j)
    BY Types DEF Working, Pc, IInv
  <2>2. QED  BY <1>1, <2>1, AttemptKept
<1>2. QED  BY <1>1 DEF SameAttempts

\* A delivery arrives.
LEMMA ArriveRefines ==
    ASSUME IInv, NEW i \in Attempt, Arrive(i)
    PROVE  AgentStep
<1>0. TypeOK  BY DEF IInv
<1>1. \A j \in Attempt : pc'[j] = IF j = i THEN "queued" ELSE pc[j]
  BY <1>0 DEF Arrive, TypeOK
<1>2. /\ pc[i] = "absent"
      /\ UNCHANGED <<own, result, ent, cpc, answer, crashes>>
  BY DEF Arrive, entryVars, cancelVars
<1>3. AttemptOf(i) = "absent" /\ AttemptOf(i)' = "waiting"
  BY <1>1, <1>2, AttemptCases, AttemptCasesNext
<1>4. SameAttempts(Attempt \ {i})  BY <1>1, <1>2, AttemptsKept
<1>5. SameResults(Attempt)  BY <1>1, <1>2, ResultsKept
<1>6. SameAsks(Cancel)  BY <1>2, AsksKept
<1>7. Agent!Arrive(i) /\ UNCHANGED <<[j \in Attempt |-> ResultOf(j)], [k \in Cancel |-> AskOf(k)]>>
  BY <1>3, <1>4, <1>5, <1>6 DEF Agent!Arrive, SameAttempts, SameResults, SameAsks
<1>8. QED  BY <1>2, <1>7 DEF AgentStep, Agent!FrameNext, ResultOf, AskOf

\* A cancel command arrives.
LEMMA ReceiveRefines ==
    ASSUME IInv, NEW k \in Cancel, Receive(k)
    PROVE  AgentStep
<1>0. TypeOK  BY DEF IInv
<1>1. \A l \in Cancel : cpc'[l] = IF l = k THEN "received" ELSE cpc[l]
  BY <1>0 DEF Receive, TypeOK
<1>2. /\ cpc[k] = "absent"
      /\ UNCHANGED <<pc, own, result, ent, answer, crashes>>
  BY DEF Receive, entryVars, execVars
<1>3. AskOf(k) = "absent" /\ AskOf(k)' = "received"  BY <1>1, <1>2 DEF AskOf
<1>4. SameAttempts(Attempt)  BY <1>2, AttemptsKept
<1>5. SameResults(Attempt)  BY <1>2, ResultsKept
<1>6. SameAsks(Cancel \ {k})  BY <1>1, AsksKept
<1>7. Agent!Receive(k) /\ UNCHANGED <<[j \in Attempt |-> AttemptOf(j)], [j \in Attempt |-> ResultOf(j)]>>
  BY <1>3, <1>4, <1>5, <1>6 DEF Agent!Receive, SameAttempts, SameResults, SameAsks, AskOf
<1>8. QED  BY <1>2, <1>7 DEF AgentStep, Agent!FrameNext, ResultOf, AskOf

\* The setup ends without a start: the attempt is doomed now or was already.
LEMMA BailOutRefines ==
    ASSUME IInv, NEW i \in Attempt, pc[i] = "setup",
           pc' = [pc EXCEPT ![i] = "returning"],
           \A j \in Attempt : j # i => result'[j] = result[j],
           UNCHANGED <<own, ent, cpc, answer, crashes>>
    PROVE  AgentStep
<1>0. TypeOK /\ CallInv(i)  BY DEF IInv
<1>1. \A j \in Attempt : pc'[j] = IF j = i THEN "returning" ELSE pc[j]
  BY <1>0 DEF TypeOK
<1>2. Working(i)  BY DEF Working
<1>3. own[i] # None /\ "startAttempted" \notin ent[own[i]]
  BY <1>0, <1>2, WorkingOwns DEF CallInv, StartKnown, Has
<1>4. AttemptOf(i)' = "doomed" /\ AttemptOf(i) \in {"waiting", "doomed"}
  BY <1>1, <1>3, AttemptCases, AttemptCasesNext
<1>5. SameAttempts(Attempt \ {i})  BY <1>1, <1>2, OthersKept
<1>6. SameResults(Attempt)  BY <1>1, ResultsKept
<1>7. SameAsks(Cancel)  BY AsksKept
<1>8. CASE AttemptOf(i) = "waiting"
  BY <1>4, <1>5, <1>6, <1>7, <1>8, AgentDooms DEF AgentStep, Agent!AgentNext
<1>9. CASE AttemptOf(i) = "doomed"
  <2>1. SameAttempts(Attempt)  BY <1>4, <1>5, <1>9 DEF SameAttempts
  <2>2. QED  BY <1>6, <1>7, <2>1, AgentStutters DEF AgentStep
<1>10. QED  BY <1>4, <1>8, <1>9

\* The commitment to a start is the launch of the attempt.
LEMMA BeginStartRefines ==
    ASSUME IInv, NEW i \in Attempt, BeginStart(i)
    PROVE  AgentStep
<1>0. TypeOK /\ CallInv(i) /\ pc[i] = "setup"  BY DEF IInv, BeginStart
<1>1. Working(i)  BY <1>0 DEF Working
<1>2. /\ own[i] \in Entry /\ own[i] # None
      /\ \A j \in Attempt : j # i => ~Working(j)
  BY <1>1, WorkingOwns
<1>3. "startAttempted" \notin ent[own[i]]  BY <1>0, <1>2 DEF CallInv, StartKnown, Has
<1>4. UNCHANGED <<own, cpc, answer, crashes>>  BY DEF BeginStart, cancelVars
<1>5. CASE Has(own[i], "cancelRequested")
  <2>1. pc' = [pc EXCEPT ![i] = "returning"] /\ ent' = ent
    BY <1>5 DEF BeginStart, Refuse
  <2>2. \A j \in Attempt : j # i => result'[j] = result[j]
    BY <1>0, <1>5 DEF BeginStart, Refuse, TypeOK
  <2>3. QED  BY <1>0, <1>4, <2>1, <2>2, BailOutRefines
<1>6. CASE ~Has(own[i], "cancelRequested")
  <2>1. /\ pc' = [pc EXCEPT ![i] = "starting"] /\ result' = result
        /\ ent' = [ent EXCEPT ![own[i]] = @ \cup {"startAttempted"}]
    BY <1>6 DEF BeginStart, Raise
  <2>2. \A j \in Attempt : pc'[j] = IF j = i THEN "starting" ELSE pc[j]
    BY <1>0, <2>1 DEF TypeOK
  <2>3. "startAttempted" \in ent'[own'[i]]  BY <1>0, <1>2, <1>4, <2>1 DEF TypeOK
  <2>4. AttemptOf(i) = "waiting"  BY <1>0, <1>3, <1>6, AttemptCases DEF Has
  <2>5. AttemptOf(i)' = "live"  BY <2>2, <2>3, AttemptCasesNext
  <2>6. ASSUME NEW j \in Attempt PROVE AttemptOf(j) # "live"
    <3>1. CASE j = i  BY <2>4, <3>1
    <3>2. CASE j # i
      <4>1. pc[j] \in {"absent", "lost", "queued", "done"}
        BY <1>0, <1>2, <3>2, Types DEF Working, Pc
      <4>2. QED  BY <4>1, AttemptCases
    <3>3. QED  BY <3>1, <3>2
  <2>7. SameAttempts(Attempt \ {i})  BY <1>1, <2>2, OthersKept
  <2>8. SameResults(Attempt)  BY <1>0, <2>1, <2>2, ResultsKept
  <2>9. SameAsks(Cancel)  BY <1>4, AsksKept
  <2>10. Agent!Launch(i)  BY <1>4, <2>4, <2>5, <2>6, <2>7, <2>8, <2>9, AgentLaunches
  <2>11. QED  BY <2>10 DEF AgentStep, Agent!AgentNext
<1>7. QED  BY <1>5, <1>6

\* A failed setup dooms the attempt.
LEMMA SetupFailsRefines ==
    ASSUME IInv, NEW i \in Attempt, SetupFails(i)
    PROVE  AgentStep
<1>0. TypeOK  BY DEF IInv
<1>1. /\ pc[i] = "setup" /\ pc' = [pc EXCEPT ![i] = "returning"]
      /\ UNCHANGED <<own, ent, cpc, answer, crashes>>
  BY DEF SetupFails, Refuse, entryVars, cancelVars
<1>2. \A j \in Attempt : j # i => result'[j] = result[j]
  BY <1>0 DEF SetupFails, Refuse, TypeOK
<1>3. QED  BY <1>1, <1>2, BailOutRefines

\* reserve: nothing yet, the end of a refused duplicate, or the doom of a delivery that
\* adopts a refusal record.
LEMMA ReserveRefines ==
    ASSUME IInv, NEW i \in Attempt, Reserve(i)
    PROVE  AgentStep
<1>0. TypeOK /\ pc[i] = "queued"  BY DEF IInv, Reserve
<1>1. UNCHANGED <<cpc, answer, crashes>>  BY DEF Reserve, cancelVars
<1>2. AttemptOf(i) = "waiting"  BY <1>0, AttemptCases
<1>3. SameAsks(Cancel)  BY <1>1, AsksKept
<1>4. \A j \in Attempt : j # i => own'[j] = own[j] /\ result'[j] = result[j]
  BY <1>0 DEF Reserve, Refuse, TypeOK
<1>5. ~Working(i)  BY <1>0 DEF Working
<1>6. CASE running = None
  <2>1. /\ pc' = [pc EXCEPT ![i] = "setup"] /\ own' = [own EXCEPT ![i] = i]
        /\ ent' = [ent EXCEPT ![i] = {"owned"}] /\ result' = result
    BY <1>6 DEF Reserve
  <2>2. \A j \in Attempt : pc'[j] = IF j = i THEN "setup" ELSE pc[j]
    BY <1>0, <2>1 DEF TypeOK
  <2>3. own'[i] = i /\ ent'[i] = {"owned"}  BY <1>0, <2>1 DEF TypeOK, Entry
  <2>4. AttemptOf(i)' = "waiting"  BY <2>2, <2>3, AttemptCasesNext
  <2>5. \A j \in Attempt : ~Working(j)  BY <1>6, WorkingOwns
  <2>6. SameAttempts(Attempt \ {i})  BY <1>4, <2>2, <2>5, AttemptsKept
  <2>7. SameAttempts(Attempt)  BY <1>2, <2>4, <2>6 DEF SameAttempts
  <2>8. SameResults(Attempt)  BY <1>0, <2>1, <2>2, ResultsKept
  <2>9. QED  BY <1>1, <1>3, <2>7, <2>8, AgentStutters DEF AgentStep
<1>7. CASE running # None /\ Has(running, "owned")
  <2>1. /\ pc' = [pc EXCEPT ![i] = "done"] /\ ent' = ent /\ own' = own
        /\ result' = [result EXCEPT ![i] = [ending |-> "failed", marker |-> None]]
    BY <1>7 DEF Reserve, Refuse
  <2>2. \A j \in Attempt : pc'[j] = IF j = i THEN "done" ELSE pc[j]
    BY <1>0, <2>1 DEF TypeOK
  <2>3. AttemptOf(i)' = "over"  BY <2>2, AttemptCasesNext
  <2>4. ResultOf(i)' = "failed"  BY <1>0, <2>1, <2>2 DEF ResultOf, TypeOK
  <2>5. SameAttempts(Attempt \ {i})  BY <2>1, <2>2, AttemptsKept
  <2>6. SameResults(Attempt \ {i})  BY <1>4, <2>2, ResultsKept
  <2>7. Agent!End(i)  BY <1>1, <1>2, <1>3, <2>3, <2>4, <2>5, <2>6, AgentEnds
  <2>8. QED  BY <2>7 DEF AgentStep, Agent!AgentNext
<1>8. CASE running # None /\ ~Has(running, "owned")
  <2>0. running \in Entry  BY <1>0, <1>8 DEF TypeOK
  <2>1. /\ pc' = [pc EXCEPT ![i] = "returning"] /\ own' = [own EXCEPT ![i] = running]
        /\ ent' = [ent EXCEPT ![running] = @ \cup {"owned"}]
    BY <1>8 DEF Reserve, Refuse, Raise
  <2>2. \A j \in Attempt : pc'[j] = IF j = i THEN "returning" ELSE pc[j]
    BY <1>0, <2>1 DEF TypeOK
  <2>3. own'[i] = running /\ ent'[running] = ent[running] \cup {"owned"}
    BY <1>0, <2>0, <2>1 DEF TypeOK
  <2>4. "startAttempted" \notin ent[running]
    BY <1>8, <2>0 DEF IInv, EntryInv, StartedIsOwned, Has
  <2>5. "startAttempted" # "owned"  OBVIOUS
  <2>6. AttemptOf(i)' = "doomed"  BY <2>2, <2>3, <2>4, <2>5, AttemptCasesNext
  <2>7. \A j \in Attempt : ~Working(j)  BY <1>8, WorkingOwns
  <2>8. SameAttempts(Attempt \ {i})  BY <1>4, <2>2, <2>7, AttemptsKept
  <2>9. SameResults(Attempt)  BY <1>0, <1>4, <2>2, ResultsKept
  <2>10. Agent!Doom(i)  BY <1>1, <1>2, <1>3, <2>6, <2>8, <2>9, AgentDooms
  <2>11. QED  BY <2>10 DEF AgentStep, Agent!AgentNext
<1>9. QED  BY <1>6, <1>7, <1>8

\* release is where the result is out.
LEMMA ReleaseRefines ==
    ASSUME IInv, NEW i \in Attempt, Release(i)
    PROVE  AgentStep
<1>0. TypeOK /\ CallInv(i) /\ pc[i] = "returning"  BY DEF IInv, Release
<1>1. Working(i)  BY <1>0 DEF Working
<1>2. own[i] # None  BY <1>1, WorkingOwns
<1>3. UNCHANGED <<result, cpc, answer, crashes>>  BY DEF Release, cancelVars
<1>4. \A j \in Attempt : pc'[j] = IF j = i THEN "done" ELSE pc[j]
  BY <1>0 DEF Release, TypeOK
<1>5. AttemptOf(i) = IF "startAttempted" \in ent[own[i]] THEN "live" ELSE "doomed"
  BY <1>0, AttemptCases
<1>6. AttemptOf(i)' = "over"  BY <1>4, AttemptCasesNext
<1>7. /\ result[i].ending \in {"ok", "failed"}
      /\ result[i].ending = "ok" => "startAttempted" \in ent[own[i]]
  BY <1>0, <1>2 DEF CallInv, LifeKnown, StartKnown, Has
<1>8. ResultOf(i)' = result[i].ending  BY <1>3, <1>4 DEF ResultOf
<1>9. SameAttempts(Attempt \ {i})  BY <1>1, <1>4, OthersKept
<1>10. SameResults(Attempt \ {i})  BY <1>3, <1>4, ResultsKept
<1>11. SameAsks(Cancel)  BY <1>3, AsksKept
<1>12. Agent!End(i)
  BY <1>3, <1>5, <1>6, <1>7, <1>8, <1>9, <1>10, <1>11, AgentEnds
<1>13. QED  BY <1>12 DEF AgentStep, Agent!AgentNext

\* The answer of one Cancel call leaves the other calls as they are.
LEMMA AnswerRefines ==
    ASSUME IInv, NEW k \in Cancel, NEW outcome, Answered(k, outcome),
           cpc[k] \in {"refusing", "found", "waiting"}
    PROVE  /\ AskOf(k) = "received" /\ AskOf(k)' = "answered"
           /\ SameAsks(Cancel \ {k})
           /\ answer' = [answer EXCEPT ![k] = outcome]
<1>1. \A l \in Cancel : cpc'[l] = IF l = k THEN "answered" ELSE cpc[l]
  BY DEF Answered, IInv, TypeOK
<1>2. QED  BY <1>1, AsksKept DEF Answered, AskOf

\* An answer that is not `terminated` says nothing of any attempt.
LEMMA DeclineRefines ==
    ASSUME IInv, NEW k \in Cancel, NEW outcome \in {"not_found", "kill_failed"},
           Answered(k, outcome), cpc[k] \in {"refusing", "found", "waiting"},
           UNCHANGED <<pc, own, result, crashes>>,
           \A j \in Attempt : Working(j) => ent'[own[j]] = ent[own[j]]
    PROVE  AgentStep
<1>1. SameAttempts(Attempt)  BY AttemptsKept
<1>2. SameResults(Attempt)  BY ResultsKept
<1>3. Agent!Answer(k)  BY <1>1, <1>2, AnswerRefines, AgentDeclines
<1>4. QED  BY <1>3 DEF AgentStep, Agent!AgentNext

\* The refusal record is an entry nobody owns.
LEMMA CancelRefuseRefines ==
    ASSUME IInv, NEW k \in Cancel, CancelRefuse(k)
    PROVE  AgentStep
<1>0. TypeOK /\ cpc[k] = "refusing"  BY DEF IInv, CancelRefuse
<1>1. UNCHANGED <<pc, own, result, crashes>>  BY DEF CancelRefuse, execVars
<1>2. PICK outcome \in {"not_found", "kill_failed"} : Answered(k, outcome)
  BY DEF CancelRefuse, NotFoundHere
<1>3. ASSUME NEW j \in Attempt, Working(j) PROVE ent'[own[j]] = ent[own[j]]
  <2>1. running # None  BY <1>3, WorkingOwns
  <2>2. QED  BY <2>1 DEF CancelRefuse, entryVars
<1>4. QED  BY <1>0, <1>1, <1>2, <1>3, DeclineRefines

\* markCancelRequested: of an unowned entry nothing is said, a call that has not committed
\* to a start is doomed at once, and the kill of any other is waited for.
LEMMA CancelMarkRefines ==
    ASSUME IInv, NEW k \in Cancel, CancelMark(k)
    PROVE  AgentStep
<1> DEFINE e == target[k]
<1>0. TypeOK /\ cpc[k] = "found" /\ AskInv(k)  BY DEF IInv, CancelMark
<1>1. e # None /\ e \in Entry  BY <1>0, Types DEF AskInv
<1>2. UNCHANGED <<pc, own, result, crashes>>  BY DEF CancelMark, execVars
<1>3. SameResults(Attempt)  BY <1>2, ResultsKept
<1>4. CASE ~Has(e, "owned")
  <2>1. ent' = [ent EXCEPT ![e] = @ \cup {"cancelRequested"}]
    BY <1>4 DEF CancelMark, Raise
  <2>2. PICK outcome \in {"not_found", "kill_failed"} : Answered(k, outcome)
    BY <1>4 DEF CancelMark, NotFoundHere
  <2>3. ASSUME NEW j \in Attempt, Working(j) PROVE ent'[own[j]] = ent[own[j]]
    <3>1. own[j] # e /\ own[j] \in Entry  BY <1>4, <2>3, WorkingOwns
    <3>2. QED  BY <1>0, <1>1, <2>1, <3>1 DEF TypeOK
  <2>4. QED  BY <1>0, <1>2, <2>2, <2>3, DeclineRefines
<1>5. CASE Has(e, "owned") /\ ~Has(e, "startAttempted")
  <2>1. ent' = [ent EXCEPT ![e] = @ \cup {"cancelRequested"}] /\ Answered(k, "terminated")
    BY <1>5 DEF CancelMark, Raise
  <2>2. PICK i \in Attempt : own[i] = e  BY <1>1, <1>5 DEF IInv, EntryInv, OwnedHasOwner
  <2>3. CallInv(i)  BY DEF IInv
  <2>4. pc[i] \in {"setup", "returning", "done"}
    <3>1. pc[i] # "lost"  BY <1>0, <2>2 DEF AskInv
    <3>2. pc[i] \notin {"absent", "queued"}  BY <1>1, <2>2 DEF IInv, EntryInv, FreshCalls
    <3>3. pc[i] \notin {"starting", "started", "waiting", "stamping"}
      BY <1>1, <1>5, <2>2, <2>3 DEF CallInv, StartKnown
    <3>4. QED  BY <1>0, <3>1, <3>2, <3>3, Types DEF Pc
  <2>5. ent'[e] = ent[e] \cup {"cancelRequested"} /\ "startAttempted" \notin ent[e]
    BY <1>0, <1>1, <1>5, <2>1 DEF TypeOK, Has
  <2>6. "startAttempted" # "cancelRequested"  OBVIOUS
  <2>7. "startAttempted" \notin ent'[e] /\ "cancelRequested" \in ent'[e]  BY <2>5, <2>6
  <2>8. /\ pc[i] \in {"setup", "returning"} =>
              AttemptOf(i) \in {"waiting", "doomed"} /\ AttemptOf(i)' = "doomed"
        /\ pc[i] = "done" => AttemptOf(i) = "over" /\ AttemptOf(i)' = "over"
    BY <1>2, <2>2, <2>5, <2>7, AttemptCases, AttemptCasesNext
  <2>9. /\ AttemptOf(i) \in {"waiting", "doomed", "over"}
        /\ AttemptOf(i)' = IF AttemptOf(i) = "waiting" THEN "doomed" ELSE AttemptOf(i)
    BY <2>4, <2>8
  <2>10. SameAttempts(Attempt \ {i})
    <3>1. ASSUME NEW j \in Attempt \ {i}, Working(j) PROVE ent'[own[j]] = ent[own[j]]
      <4>1. own[j] # e /\ own[j] \in Entry
        BY <2>2, <3>1, WorkingOwns
      <4>2. QED  BY <1>0, <1>1, <2>1, <4>1 DEF TypeOK
    <3>2. QED  BY <1>2, <3>1, AttemptsKept
  <2>11. Agent!Answer(k)
    BY <1>0, <1>2, <1>3, <2>1, <2>9, <2>10, AnswerRefines, AgentTerminates
  <2>12. QED  BY <2>11 DEF AgentStep, Agent!AgentNext
<1>6. CASE Has(e, "owned") /\ Has(e, "startAttempted")
  <2>1. /\ ent' = [ent EXCEPT ![e] = @ \cup {"cancelRequested", "ctxDone"}]
        /\ cpc' = [cpc EXCEPT ![k] = "waiting"] /\ answer' = answer
    BY <1>6 DEF CancelMark, Raise
  <2>2. SameAsks(Cancel)  BY <1>0, <2>1 DEF SameAsks, AskOf, TypeOK
  <2>3. ASSUME NEW j \in Attempt PROVE AttemptOf(j)' = AttemptOf(j)
    <3>1. CASE own[j] = e
      <4>1. "startAttempted" \in ent[e] /\ "startAttempted" \in ent'[e]
        BY <1>0, <1>1, <1>6, <2>1 DEF Has, TypeOK
      <4>2. CallInv(j)  BY DEF IInv
      <4>3. pc[j] # "setup"  BY <1>1, <1>6, <3>1, <4>2 DEF CallInv, StartKnown
      <4>4. QED  BY <1>2, <3>1, <4>1, <4>3, AttemptKept
    <3>2. CASE own[j] # e
      <4>1. Working(j) => own[j] \in Entry  BY WorkingOwns
      <4>2. Working(j) => ent'[own[j]] = ent[own[j]]
        BY <1>0, <1>1, <2>1, <3>2, <4>1 DEF TypeOK
      <4>3. SameAttempts({j})  BY <1>2, <4>2, AttemptsKept
      <4>4. QED  BY <4>3 DEF SameAttempts
    <3>3. QED  BY <3>1, <3>2
  <2>4. SameAttempts(Attempt)  BY <2>3 DEF SameAttempts
  <2>5. QED  BY <1>2, <1>3, <2>1, <2>2, <2>4, AgentStutters DEF AgentStep
<1>7. QED  BY <1>4, <1>5, <1>6

\* A Cancel call that waited answers `terminated` of a call that is over.
LEMMA CancelEndsRefines ==
    ASSUME IInv, NEW k \in Cancel, CancelGrade(k) \/ CancelGiveUp(k)
    PROVE  AgentStep
<1> DEFINE e == target[k]
<1>0. TypeOK /\ cpc[k] = "waiting" /\ AskInv(k)  BY DEF IInv, CancelGrade, CancelGiveUp
<1>1. e # None /\ e \in Entry  BY <1>0, Types DEF AskInv
<1>2. UNCHANGED <<pc, own, result, ent, crashes>>
  BY DEF CancelGrade, CancelGiveUp, execVars, entryVars
<1>3. CASE Answered(k, "kill_failed")  BY <1>0, <1>2, <1>3, DeclineRefines
<1>4. CASE Has(e, "done") /\ Answered(k, "terminated")
  <2>1. Has(e, "owned")
    BY <1>0, <1>1 DEF AskInv, IInv, EntryInv, StartedIsOwned
  <2>2. PICK i \in Attempt : own[i] = e  BY <1>1, <2>1 DEF IInv, EntryInv, OwnedHasOwner
  <2>3. pc[i] = "done"  BY <1>1, <1>4, <2>2 DEF IInv, CallInv, StartKnown
  <2>4. AttemptOf(i) = "over" /\ AttemptOf(i)' = "over"
    BY <1>2, <2>3, AttemptCases, AttemptCasesNext
  <2>5. SameAttempts(Attempt \ {i})  BY <1>2, AttemptsKept
  <2>6. SameResults(Attempt)  BY <1>2, ResultsKept
  <2>7. Agent!Answer(k)
    BY <1>0, <1>2, <1>4, <2>4, <2>5, <2>6, AnswerRefines, AgentTerminates
  <2>8. QED  BY <2>7 DEF AgentStep, Agent!AgentNext
<1>5. QED  BY <1>3, <1>4 DEF CancelGrade, CancelGiveUp, gradeCancelOutcome

\* A restart loses the calls that were under way.
LEMMA CrashRefines ==
    ASSUME IInv, Crash
    PROVE  AgentStep
<1>0. TypeOK  BY DEF IInv
<1>1. \A j \in Attempt : pc'[j] = IF pc[j] \in {"absent", "done"} THEN pc[j] ELSE "lost"
  BY DEF Crash
<1>2. \A k \in Cancel : cpc'[k] = IF cpc[k] \in {"absent", "answered"} THEN cpc[k] ELSE "lost"
  BY DEF Crash
<1>3. /\ crashes < MaxCrashes /\ crashes' = crashes + 1
      /\ UNCHANGED <<result, answer>>
  BY DEF Crash
<1>4. SameResults(Attempt)  BY <1>1, <1>3, ResultsKept
<1>5. ASSUME NEW j \in Attempt
      PROVE  AttemptOf(j)' = IF AttemptOf(j) \in {"absent", "over"} THEN AttemptOf(j) ELSE "lost"
  <2>1. CASE pc[j] \in {"absent", "done"}  BY <1>1, <2>1, AttemptCases, AttemptCasesNext
  <2>2. CASE pc[j] \notin {"absent", "done"}
    <3>1. AttemptOf(j)' = "lost"  BY <1>1, <2>2, AttemptCasesNext
    <3>2. AttemptOf(j) \notin {"absent", "over"}  BY <2>2 DEF AttemptOf, Has
    <3>3. QED  BY <3>1, <3>2
  <2>3. QED  BY <2>1, <2>2
<1>6. ASSUME NEW k \in Cancel
      PROVE  AskOf(k)' = IF AskOf(k) = "received" THEN "lost" ELSE AskOf(k)
  <2>1. cpc[k] \in CancelPc  BY <1>0, Types
  <2>2. QED  BY <1>2, <2>1 DEF AskOf, CancelPc
<1>7. Agent!Crash
  BY <1>3, <1>4, <1>5, <1>6 DEF Agent!Crash, SameResults, ResultOf, AskOf
<1>8. QED  BY <1>7 DEF AgentStep, Agent!AgentNext

\* Execute and Cancel keep the promise ScriptCancellation relies on: one live attempt of
\* a command id at a time, and `terminated` only of one that is over or never starts.
THEOREM ImplementsAgentHolds == Spec => ImplementsAgent
<1>1. ASSUME Init PROVE Agent!AgentInit
  <2>1. \A i \in Attempt : AttemptOf(i) = "absent"
    BY <1>1, AttemptCases DEF Init
  <2>2. QED  BY <1>1, <2>1 DEF Init, Agent!AgentInit
<1>2. ASSUME IInv, [Next]_vars
      PROVE  [Agent!AgentNext \/ Agent!FrameNext]_(Agent!agentVars)
  <2>1. ASSUME NEW i \in Attempt, Arrive(i)  PROVE AgentStep  BY <1>2, <2>1, ArriveRefines
  <2>2. ASSUME NEW i \in Attempt, Reserve(i)  PROVE AgentStep  BY <1>2, <2>2, ReserveRefines
  <2>3. ASSUME NEW i \in Attempt, SetupFails(i)  PROVE AgentStep
    BY <1>2, <2>3, SetupFailsRefines
  <2>4. ASSUME NEW i \in Attempt, BeginStart(i)  PROVE AgentStep
    BY <1>2, <2>4, BeginStartRefines
  <2>5. ASSUME NEW i \in Attempt,
               \/ StartFails(i) \/ Start(i) \/ Attach(i) \/ Timeout(i) \/ Kill(i)
               \/ Reap(i) \/ Stamp(i)
        PROVE  AgentStep
    BY <1>2, <2>5, LiveRefines DEF AgentStep
  <2>6. ASSUME NEW i \in Attempt, Release(i)  PROVE AgentStep  BY <1>2, <2>6, ReleaseRefines
  <2>7. ASSUME \/ \E i \in Attempt : Spawn(i) \/ ChildExits(i) \/ LeaderExits(i)
               \/ \E k \in Cancel : CancelLookup(k) \/ RefusalExpires(k)
               \/ UNCHANGED vars
        PROVE  AgentStep
    BY <1>2, <2>7, QuietRefines DEF AgentStep
  <2>8. ASSUME NEW k \in Cancel, Receive(k)  PROVE AgentStep  BY <1>2, <2>8, ReceiveRefines
  <2>9. ASSUME NEW k \in Cancel, CancelRefuse(k)  PROVE AgentStep
    BY <1>2, <2>9, CancelRefuseRefines
  <2>10. ASSUME NEW k \in Cancel, CancelMark(k)  PROVE AgentStep
    BY <1>2, <2>10, CancelMarkRefines
  <2>11. ASSUME NEW k \in Cancel, CancelGrade(k) \/ CancelGiveUp(k)  PROVE AgentStep
    BY <1>2, <2>11, CancelEndsRefines
  <2>12. ASSUME Crash  PROVE AgentStep  BY <1>2, <2>12, CrashRefines
  <2>13. AgentStep
    BY <1>2, <2>1, <2>2, <2>3, <2>4, <2>5, <2>6, <2>7, <2>8, <2>9, <2>10, <2>11, <2>12 DEF Next
  <2>14. QED  BY <2>13 DEF AgentStep
<1>3. QED
  BY <1>1, <1>2, Invariance, PTL DEF Spec, ImplementsAgent, Agent!AgentSpec

=============================================================================
