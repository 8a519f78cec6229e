-------------------------- MODULE WorkerPoolProofs --------------------------
(* What WorkerPool promises for every number of workers, callers and slots.  *)
EXTENDS WorkerPool, FiniteSetTheorems, TLAPS

\* Worker type: the program counters keep their domains, which is what lets an
\* update of one worker leave the others alone.
WorkerType == worker \in [Worker -> WorkerPc]

\* The worker goroutines only move between the points of the loop in worker().
LEMMA WorkerTypeInvariant == Spec => []WorkerType
<1>1. Init => WorkerType
  BY DEF Init, WorkerType, WorkerPc
<1>2. WorkerType /\ [Next]_vars => WorkerType'
  <2> SUFFICES ASSUME WorkerType, [Next]_vars PROVE WorkerType'
    OBVIOUS
  <2> USE DEF WorkerType, WorkerPc
  <2>1. CASE UNCHANGED vars
    BY <2>1 DEF vars
  <2>2. ASSUME NEW s \in Submitter, SubmitStep(s) PROVE WorkerType'
    BY <2>2 DEF SubmitStep, SubmitCheck, SubmitAdd, SubmitOffer
  <2>3. ASSUME NEW d \in Drainer, DrainStep(d) PROVE WorkerType'
    BY <2>3 DEF DrainStep, StopAccepting, DrainStop, DrainWait, DrainClose
  <2>4. ASSUME NEW w \in Worker, WorkerStep(w) PROVE WorkerType'
    BY <2>4 DEF WorkerStep, WorkerSelect, WorkerDrain, WorkerFinish, Take
  <2> QED
    BY <2>1, <2>2, <2>3, <2>4 DEF Next
<1> QED
  BY <1>1, <1>2, PTL DEF Spec

\* No worker goroutine leaves its loop while a task is, or can still be put, in
\* the channel: worker() returns only on a closed and empty channel, and Submit
\* cannot put a task into a closed one.
THEOREM NothingLeftBehindHolds == Spec => []NothingLeftBehind
<1>1. Init => NothingLeftBehind
  BY DEF Init, NothingLeftBehind
<1>2. WorkerType /\ NothingLeftBehind /\ [Next]_vars => NothingLeftBehind'
  <2> SUFFICES ASSUME WorkerType, NothingLeftBehind, [Next]_vars
               PROVE NothingLeftBehind'
    OBVIOUS
  <2> USE DEF NothingLeftBehind
  <2>1. CASE UNCHANGED vars
    BY <2>1 DEF vars
  <2>2. ASSUME NEW s \in Submitter, SubmitStep(s) PROVE NothingLeftBehind'
    BY <2>2 DEF SubmitStep, SubmitCheck, SubmitAdd, SubmitOffer
  <2>3. ASSUME NEW d \in Drainer, DrainStep(d) PROVE NothingLeftBehind'
    BY <2>3 DEF DrainStep, StopAccepting, DrainStop, DrainWait, DrainClose
  <2>4. ASSUME NEW w \in Worker, WorkerStep(w) PROVE NothingLeftBehind'
    BY <2>4 DEF WorkerStep, WorkerSelect, WorkerDrain, WorkerFinish, Take,
                WorkerType, WorkerPc
  <2> QED
    BY <2>1, <2>2, <2>3, <2>4 DEF Next
<1> QED
  BY <1>1, <1>2, WorkerTypeInvariant, PTL DEF Spec

-----------------------------------------------------------------------------
(* The wait group.  That its counter is the number of outstanding tasks is not *)
(* inductive: it also takes that a task is in one place only, with its caller, *)
(* in one slot of the channel or with one worker.                              *)

Outstanding == {s \in Submitter : submit[s] \in {"added", "panicked"} \/ Queued(s) \/ Held(s)}

\* Submit has returned true for a task that is in the channel or with a worker.
TakenWasAccepted == \A s \in Submitter : Queued(s) \/ Held(s) => submit[s] = "accepted"
OneSlotEach == \A i, j \in DOMAIN queue : queue[i] = queue[j] => i = j
OneWorkerEach == \A v, w \in Worker : task[v] # NoTask /\ task[v] = task[w] => v = w
SlotOrWorker == \A s \in Submitter : ~(Queued(s) /\ Held(s))
RunningHasTask ==
    \A w \in Worker : task[w] # NoTask <=> worker[w] \in {"running", "runningDrain"}

Places == TakenWasAccepted /\ OneSlotEach /\ OneWorkerEach /\ SlotOrWorker /\ RunningHasTask

Counted == IsFiniteSet(Outstanding) /\ wg = Cardinality(Outstanding)

IInv == TypeOK /\ Places /\ Counted

\* What is in the channel after a send.
LEMMA QueuedAfterAppend ==
    ASSUME queue \in Seq(Submitter), NEW s \in Submitter, queue' = Append(queue, s)
    PROVE  /\ queue' \in Seq(Submitter)
           /\ \A x : Queued(x)' <=> Queued(x) \/ x = s
           /\ OneSlotEach /\ ~Queued(s) => OneSlotEach'
<1>1. /\ queue' \in Seq(Submitter)
      /\ DOMAIN queue = 1..Len(queue) /\ Len(queue) \in Nat
      /\ DOMAIN queue' = 1..(Len(queue) + 1)
      /\ \A i \in 1..Len(queue) : queue'[i] = queue[i]
      /\ queue'[Len(queue) + 1] = s
  OBVIOUS
<1>2. ASSUME NEW x PROVE Queued(x)' <=> Queued(x) \/ x = s
  <2>1. ASSUME NEW i \in DOMAIN queue', queue'[i] = x PROVE Queued(x) \/ x = s
    BY <1>1, <2>1 DEF Queued
  <2>2. ASSUME NEW i \in DOMAIN queue, queue[i] = x PROVE Queued(x)'
    BY <1>1, <2>2 DEF Queued
  <2>3. x = s => Queued(x)'  BY <1>1 DEF Queued
  <2>4. QED  BY <2>1, <2>2, <2>3 DEF Queued
<1>3. ASSUME OneSlotEach, ~Queued(s) PROVE OneSlotEach'
  BY <1>1, <1>3 DEF OneSlotEach, Queued
<1>4. QED  BY <1>1, <1>2, <1>3

\* What is in the channel after a receive.
LEMMA QueuedAfterTail ==
    ASSUME queue \in Seq(Submitter), queue # <<>>, queue' = Tail(queue), OneSlotEach
    PROVE  /\ Head(queue) \in Submitter /\ Queued(Head(queue))
           /\ queue' \in Seq(Submitter)
           /\ \A x : Queued(x)' <=> Queued(x) /\ x # Head(queue)
           /\ OneSlotEach'
<1>1. /\ queue' \in Seq(Submitter)
      /\ DOMAIN queue = 1..Len(queue) /\ Len(queue) \in Nat /\ Len(queue) > 0
      /\ DOMAIN queue' = 1..(Len(queue) - 1)
      /\ \A i \in 1..(Len(queue) - 1) : queue'[i] = queue[i + 1]
      /\ Head(queue) = queue[1] /\ queue[1] \in Submitter
  OBVIOUS
<1>2. ASSUME NEW x PROVE Queued(x)' <=> Queued(x) /\ x # Head(queue)
  <2>1. ASSUME NEW i \in DOMAIN queue', queue'[i] = x PROVE Queued(x) /\ x # Head(queue)
    <3>1. i + 1 \in DOMAIN queue /\ 1 \in DOMAIN queue /\ queue[i + 1] = x /\ i + 1 # 1
      BY <1>1, <2>1
    <3>2. QED  BY <1>1, <3>1 DEF Queued, OneSlotEach
  <2>2. ASSUME NEW i \in DOMAIN queue, queue[i] = x, x # Head(queue) PROVE Queued(x)'
    <3>1. i - 1 \in DOMAIN queue' /\ queue'[i - 1] = x  BY <1>1, <2>2
    <3>2. QED  BY <3>1 DEF Queued
  <2>3. QED  BY <2>1, <2>2 DEF Queued
<1>3. OneSlotEach'
  <2>1. ASSUME NEW i \in DOMAIN queue', NEW j \in DOMAIN queue', queue'[i] = queue'[j]
        PROVE  i = j
    <3>1. i + 1 \in DOMAIN queue /\ j + 1 \in DOMAIN queue /\ queue[i + 1] = queue[j + 1]
      BY <1>1, <2>1
    <3>2. i + 1 = j + 1  BY <3>1 DEF OneSlotEach
    <3>3. QED  BY <1>1, <3>2
  <2>2. QED  BY <2>1 DEF OneSlotEach
<1>4. Queued(Head(queue))  BY <1>1 DEF Queued
<1>5. QED  BY <1>1, <1>2, <1>3, <1>4

\* The places of the tasks when neither channel nor workers change.
LEMMA PlacesKept ==
    ASSUME Places, UNCHANGED <<queue, task, worker>>,
           \A s \in Submitter : submit[s] = "accepted" => submit'[s] = "accepted"
    PROVE  Places' /\ \A s : (Queued(s)' <=> Queued(s)) /\ (Held(s)' <=> Held(s))
  BY DEF Places, TakenWasAccepted, OneSlotEach, OneWorkerEach, SlotOrWorker, RunningHasTask,
         Queued, Held

\* The same tasks, the same counter.
LEMMA CountedKept ==
    ASSUME Counted, Outstanding' = Outstanding, wg' = wg
    PROVE  Counted'
  BY DEF Counted

\* One more task, one more in the counter.
LEMMA CountedMore ==
    ASSUME Counted, NEW s, s \notin Outstanding, Outstanding' = Outstanding \cup {s},
           wg' = wg + 1
    PROVE  Counted' /\ wg' \in Nat
  BY FS_AddElement, FS_CardinalityType DEF Counted

\* One task less, one less in the counter, which was not zero.
LEMMA CountedLess ==
    ASSUME Counted, NEW s, s \in Outstanding, Outstanding' = Outstanding \ {s}, wg' = wg - 1
    PROVE  Counted' /\ wg' \in Nat
<1>1. IsFiniteSet(Outstanding') /\ Cardinality(Outstanding') = Cardinality(Outstanding) - 1
  BY FS_RemoveElement DEF Counted
<1>2. Cardinality(Outstanding') \in Nat  BY <1>1, FS_CardinalityType
<1>3. QED  BY <1>1, <1>2 DEF Counted

\* Submit: the flag, the wait group and the channel, in this order.
LEMMA SubmitKeeps ==
    ASSUME IInv, NEW s \in Submitter, SubmitStep(s)
    PROVE  IInv'
<1>0. TypeOK /\ Places /\ Counted  BY DEF IInv
<1>1. submit \in [Submitter -> SubmitPc]  BY <1>0 DEF TypeOK
<1>2. UNCHANGED <<accepting, stopped, closed, cancelled, drain, worker, task, finished>>
  BY DEF SubmitStep, SubmitCheck, SubmitAdd, SubmitOffer
<1>3. submit' \in [Submitter -> SubmitPc]
  BY <1>1 DEF SubmitStep, SubmitCheck, SubmitAdd, SubmitOffer, SubmitPc
<1>4. \A x \in Submitter : x # s => submit'[x] = submit[x]
  BY <1>1 DEF SubmitStep, SubmitCheck, SubmitAdd, SubmitOffer
<1>5. submit[s] # "accepted" /\ ~Queued(s) /\ ~Held(s)
  BY <1>0 DEF SubmitStep, SubmitCheck, SubmitAdd, SubmitOffer, Places, TakenWasAccepted
<1>6. ASSUME UNCHANGED queue
      PROVE  Places' /\ \A x : (Queued(x)' <=> Queued(x)) /\ (Held(x)' <=> Held(x))
  <2>1. \A x \in Submitter : submit[x] = "accepted" => submit'[x] = "accepted"  BY <1>4, <1>5
  <2>2. QED  BY <1>0, <1>2, <1>6, <2>1, PlacesKept
<1>7. ASSUME UNCHANGED queue, wg' \in Nat, Counted' PROVE IInv'
  BY <1>0, <1>2, <1>3, <1>6, <1>7 DEF IInv, TypeOK
<1>8. wg \in Nat  BY <1>0 DEF TypeOK
<1>9. CASE SubmitCheck(s)
  <2>1. submit[s] = "idle" /\ submit'[s] \in {"checked", "rejected"} /\ UNCHANGED <<queue, wg>>
    BY <1>1, <1>9 DEF SubmitCheck
  <2>2. Outstanding' = Outstanding  BY <1>4, <1>6, <2>1 DEF Outstanding
  <2>3. QED  BY <1>0, <1>7, <1>8, <2>1, <2>2, CountedKept
<1>10. CASE SubmitAdd(s)
  <2>1. submit[s] = "checked" /\ submit'[s] = "added" /\ UNCHANGED queue /\ wg' = wg + 1
    BY <1>1, <1>10 DEF SubmitAdd
  <2>2. s \notin Outstanding  BY <1>5, <2>1 DEF Outstanding
  <2>3. Outstanding' = Outstanding \cup {s}  BY <1>4, <1>6, <2>1 DEF Outstanding
  <2>4. QED  BY <1>0, <1>7, <2>1, <2>2, <2>3, CountedMore
<1>11. CASE SubmitOffer(s)
  <2>1. submit[s] = "added" /\ s \in Outstanding  BY <1>11 DEF SubmitOffer, Outstanding
  <2>2. CASE UNCHANGED <<queue, wg>>
    <3>1. submit'[s] = "panicked"
      BY <1>0, <1>1, <1>8, <1>11, <2>2 DEF SubmitOffer, TypeOK
    <3>2. Outstanding' = Outstanding  BY <1>4, <1>6, <2>1, <2>2, <3>1 DEF Outstanding
    <3>3. QED  BY <1>0, <1>7, <1>8, <2>2, <3>2, CountedKept
  <2>3. CASE queue' = queue /\ submit' = [submit EXCEPT ![s] = "rejected"] /\ wg' = wg - 1
    <3>1. submit'[s] = "rejected"  BY <1>1, <2>3
    <3>2. Outstanding' = Outstanding \ {s}
      BY <1>4, <1>5, <1>6, <2>1, <2>3, <3>1 DEF Outstanding
    <3>3. QED  BY <1>0, <1>7, <2>1, <2>3, <3>2, CountedLess
  <2>4. CASE /\ queue' = Append(queue, s)
             /\ submit' = [submit EXCEPT ![s] = "accepted"]
             /\ UNCHANGED wg
    <3>1. submit'[s] = "accepted"  BY <1>1, <2>4
    <3>2. /\ queue' \in Seq(Submitter) /\ OneSlotEach'
          /\ \A x : Queued(x)' <=> Queued(x) \/ x = s
      BY <1>0, <1>5, <2>4, QueuedAfterAppend DEF TypeOK, Places
    <3>3. \A x : Held(x)' <=> Held(x)  BY <1>2 DEF Held
    <3>4. Places'
      BY <1>0, <1>2, <1>4, <1>5, <3>1, <3>2, <3>3 DEF Places, TakenWasAccepted, OneWorkerEach,
         SlotOrWorker, RunningHasTask
    <3>5. Outstanding' = Outstanding
      BY <1>4, <2>1, <3>1, <3>2, <3>3 DEF Outstanding
    <3>6. QED
      BY <1>0, <1>2, <1>3, <1>8, <2>4, <3>2, <3>4, <3>5, CountedKept DEF IInv, TypeOK
  <2>5. QED  BY <1>11, <2>2, <2>3, <2>4 DEF SubmitOffer
<1>12. QED  BY <1>9, <1>10, <1>11 DEF SubmitStep

\* StopAccepting and Drain move flags only.
LEMMA DrainKeeps ==
    ASSUME IInv, NEW d \in Drainer, DrainStep(d)
    PROVE  IInv'
<1>1. UNCHANGED <<queue, wg, submit, worker, task, finished>>
  BY DEF DrainStep, StopAccepting, DrainStop, DrainWait, DrainClose
<1>2. /\ accepting' \in BOOLEAN /\ stopped' \in BOOLEAN
      /\ closed' \in BOOLEAN /\ cancelled' \in BOOLEAN
  BY DEF IInv, TypeOK, DrainStep, StopAccepting, DrainStop, DrainWait, DrainClose
<1>3. drain' \in [Drainer -> DrainPc]
  BY DEF IInv, TypeOK, DrainPc, DrainStep, StopAccepting, DrainStop, DrainWait, DrainClose
<1>4. TypeOK'  BY <1>1, <1>2, <1>3 DEF IInv, TypeOK
<1>5. Places' /\ \A s : (Queued(s)' <=> Queued(s)) /\ (Held(s)' <=> Held(s))
  BY <1>1, PlacesKept DEF IInv
<1>6. Outstanding' = Outstanding  BY <1>1, <1>5 DEF Outstanding
<1>7. QED  BY <1>1, <1>4, <1>5, <1>6, CountedKept DEF IInv

\* A worker that receives a task moves it from the channel to itself.
LEMMA TakeKeeps ==
    ASSUME IInv, NEW w \in Worker, NEW pc \in {"running", "runningDrain"}, Take(w, pc),
           worker[w] \in {"select", "draining"},
           UNCHANGED <<accepting, stopped, closed, wg, cancelled, submit, drain, finished>>
    PROVE  IInv'
<1> DEFINE h == Head(queue)
<1>0. TypeOK /\ Places /\ Counted  BY DEF IInv
<1>1. /\ h \in Submitter /\ Queued(h) /\ queue' \in Seq(Submitter) /\ OneSlotEach'
      /\ \A x : Queued(x)' <=> Queued(x) /\ x # h
  BY <1>0, QueuedAfterTail DEF TypeOK, Places, Take
<1>2. task' = [task EXCEPT ![w] = h] /\ worker' = [worker EXCEPT ![w] = pc]
  BY DEF Take
<1>3. h # NoTask /\ ~Held(h) /\ submit[h] = "accepted"
  BY <1>0, <1>1, NoTaskAssumption DEF Places, SlotOrWorker, TakenWasAccepted
<1>4. task[w] = NoTask  BY <1>0 DEF Places, RunningHasTask
<1>5. /\ task' \in [Worker -> Submitter \cup {NoTask}]
      /\ worker' \in [Worker -> WorkerPc]
  BY <1>0, <1>1, <1>2 DEF TypeOK, WorkerPc
<1>6. /\ task'[w] = h /\ worker'[w] = pc
      /\ \A v \in Worker : v # w => task'[v] = task[v] /\ worker'[v] = worker[v]
  BY <1>0, <1>2 DEF TypeOK
<1>7. \A x \in Submitter : Held(x)' <=> Held(x) \/ x = h
  BY <1>4, <1>6, NoTaskAssumption DEF Held
<1>8. Places'
  <2>1. TakenWasAccepted' /\ SlotOrWorker'
    BY <1>0, <1>1, <1>3, <1>7 DEF Places, TakenWasAccepted, SlotOrWorker
  <2>2. OneWorkerEach'  BY <1>0, <1>3, <1>6 DEF Places, OneWorkerEach, Held
  <2>3. RunningHasTask'  BY <1>0, <1>3, <1>6 DEF Places, RunningHasTask
  <2>4. QED  BY <1>1, <2>1, <2>2, <2>3 DEF Places
<1>9. Outstanding' = Outstanding  BY <1>1, <1>7 DEF Outstanding
<1>10. Counted'  BY <1>0, <1>9, CountedKept
<1>11. TypeOK'  BY <1>0, <1>1, <1>5 DEF TypeOK
<1>12. QED  BY <1>8, <1>10, <1>11 DEF IInv

\* A worker that ends a task takes it off the wait group.
LEMMA FinishKeeps ==
    ASSUME IInv, NEW w \in Worker, WorkerFinish(w)
    PROVE  IInv'
<1> DEFINE h == task[w]
<1>0. TypeOK /\ Places /\ Counted  BY DEF IInv
<1>1. h # NoTask /\ h \in Submitter
  BY <1>0 DEF WorkerFinish, Places, RunningHasTask, TypeOK
<1>2. Held(h) /\ ~Queued(h) /\ submit[h] = "accepted" /\ h \in Outstanding
  BY <1>0, <1>1 DEF Held, Places, SlotOrWorker, TakenWasAccepted, Outstanding
<1>3. /\ task'[w] = NoTask /\ worker'[w] \in {"select", "draining"}
      /\ \A v \in Worker : v # w => task'[v] = task[v] /\ worker'[v] = worker[v]
  BY <1>0 DEF TypeOK, WorkerFinish
<1>4. /\ task' \in [Worker -> Submitter \cup {NoTask}]
      /\ worker' \in [Worker -> WorkerPc]
      /\ finished' \subseteq Submitter
  BY <1>0, <1>1 DEF TypeOK, WorkerFinish, WorkerPc
<1>5. UNCHANGED <<accepting, stopped, queue, closed, cancelled, submit, drain>> /\ wg' = wg - 1
  BY DEF WorkerFinish
<1>6. \A x : Queued(x)' <=> Queued(x)  BY <1>5 DEF Queued
<1>7. \A x \in Submitter : Held(x)' <=> Held(x) /\ x # h
  BY <1>0, <1>1, <1>3, NoTaskAssumption DEF Held, Places, OneWorkerEach
<1>8. Places'
  <2>1. TakenWasAccepted' /\ SlotOrWorker' /\ OneSlotEach'
    BY <1>0, <1>5, <1>6, <1>7 DEF Places, TakenWasAccepted, SlotOrWorker, OneSlotEach
  <2>2. OneWorkerEach'  BY <1>0, <1>3 DEF Places, OneWorkerEach
  <2>3. RunningHasTask'  BY <1>0, <1>3 DEF Places, RunningHasTask
  <2>4. QED  BY <2>1, <2>2, <2>3 DEF Places
<1>9. Outstanding' = Outstanding \ {h}
  BY <1>2, <1>5, <1>6, <1>7 DEF Outstanding
<1>10. Counted' /\ wg' \in Nat  BY <1>0, <1>2, <1>5, <1>9, CountedLess
<1>11. TypeOK'  BY <1>0, <1>4, <1>5, <1>10 DEF TypeOK
<1>12. QED  BY <1>8, <1>10, <1>11 DEF IInv

\* The loops of a worker: receive, switch to draining, leave.
LEMMA WorkerKeeps ==
    ASSUME IInv, NEW w \in Worker, WorkerStep(w)
    PROVE  IInv'
<1>1. CASE WorkerFinish(w)  BY <1>1, FinishKeeps
<1>2. CASE WorkerSelect(w) \/ WorkerDrain(w)
  <2>1. /\ worker[w] \in {"select", "draining"}
        /\ UNCHANGED <<accepting, stopped, closed, wg, cancelled, submit, drain, finished>>
    BY <1>2 DEF WorkerSelect, WorkerDrain
  <2>2. CASE \E pc \in {"running", "runningDrain"} : Take(w, pc)
    BY <2>1, <2>2, TakeKeeps
  <2>3. CASE /\ \E pc \in {"exited", "draining"} : worker' = [worker EXCEPT ![w] = pc]
             /\ UNCHANGED <<queue, task>>
    <3>1. worker' \in [Worker -> WorkerPc]  BY <2>3 DEF IInv, TypeOK, WorkerPc
    <3>2. TypeOK'  BY <2>1, <2>3, <3>1 DEF IInv, TypeOK
    <3>3. \A x : (Queued(x)' <=> Queued(x)) /\ (Held(x)' <=> Held(x))
      BY <2>3 DEF Queued, Held
    <3>4. RunningHasTask'  BY <2>1, <2>3 DEF IInv, TypeOK, Places, RunningHasTask
    <3>5. Places'
      BY <2>1, <2>3, <3>3, <3>4 DEF IInv, Places, TakenWasAccepted, SlotOrWorker, OneSlotEach,
         OneWorkerEach
    <3>6. Outstanding' = Outstanding  BY <2>1, <3>3 DEF Outstanding
    <3>7. QED  BY <2>1, <3>2, <3>5, <3>6, CountedKept DEF IInv
  <2>4. QED  BY <1>2, <2>2, <2>3 DEF WorkerSelect, WorkerDrain
<1>3. QED  BY <1>1, <1>2 DEF WorkerStep

\* The invariant holds in every reachable state.
LEMMA Invariance == Spec => []IInv
<1>1. Init => IInv
  <2> SUFFICES ASSUME Init PROVE IInv
    OBVIOUS
  <2>1. TypeOK
    <3>1. queue \in Seq(Submitter)  BY DEF Init
    <3>2. wg \in Nat /\ finished \subseteq Submitter  BY DEF Init
    <3>3. task \in [Worker -> Submitter \cup {NoTask}]  BY DEF Init
    <3>4. QED  BY <3>1, <3>2, <3>3 DEF Init, TypeOK, SubmitPc, DrainPc, WorkerPc
  <2>2. \A s \in Submitter : ~Queued(s) /\ ~Held(s)
    BY NoTaskAssumption DEF Init, Queued, Held
  <2>3. Places
    BY <2>2 DEF Init, Places, TakenWasAccepted, SlotOrWorker, OneSlotEach, OneWorkerEach,
       RunningHasTask
  <2>4. Outstanding = {} /\ wg = 0  BY <2>2 DEF Init, Outstanding
  <2>5. Counted  BY <2>4, FS_EmptySet DEF Counted
  <2>6. QED  BY <2>1, <2>3, <2>5 DEF IInv
<1>2. IInv /\ [Next]_vars => IInv'
  <2> SUFFICES ASSUME IInv, [Next]_vars PROVE IInv'
    OBVIOUS
  <2>1. CASE UNCHANGED vars
    <3>1. TypeOK'  BY <2>1 DEF vars, IInv, TypeOK
    <3>2. Places' /\ \A s : (Queued(s)' <=> Queued(s)) /\ (Held(s)' <=> Held(s))
      BY <2>1, PlacesKept DEF vars, IInv
    <3>3. Outstanding' = Outstanding  BY <2>1, <3>2 DEF vars, Outstanding
    <3>4. QED  BY <2>1, <3>1, <3>2, <3>3, CountedKept DEF vars, IInv
  <2>2. QED  BY <2>1, SubmitKeeps, DrainKeeps, WorkerKeeps DEF Next
<1>3. QED  BY <1>1, <1>2, PTL DEF Spec

\* Every reachable state of the pool is well typed; in particular the wait group
\* never goes below zero, where Go panics.
THEOREM TypeCorrect == Spec => []TypeOK
<1>1. IInv => TypeOK  BY DEF IInv
<1>2. QED  BY <1>1, Invariance, PTL

\* The wait group counts exactly the tasks that were added and have neither been
\* undone nor finished, for any number of callers, workers and slots.
THEOREM WaitGroupCountsOutstandingHolds == Spec => []WaitGroupCountsOutstanding
<1>1. IInv => WaitGroupCountsOutstanding
  BY DEF IInv, Counted, Outstanding, WaitGroupCountsOutstanding
<1>2. QED  BY <1>1, Invariance, PTL

=============================================================================
