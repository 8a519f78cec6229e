------------------------- MODULE ResultResendProofs -------------------------
(* Proofs about ResultResend, for every set of results, of sizes and of       *)
(* bounds: the cap on resends, the backoff of a record, and the account of    *)
(* every result that relies on the outbox.                                    *)
EXTENDS ResultResend, FiniteSetTheorems, SequenceTheorems, TLAPS

-----------------------------------------------------------------------------
(* The tracker.  A record pays for a resend when it is scheduled; the cap is  *)
(* inductive only with the one that is still to come counted as well.  That a *)
(* timer acts for its own record only takes that a record's life is not that  *)
(* of any timer that went off, which is why the lives in use stay finite.     *)

EntriesTyped == entries \in [Id -> Entry \cup {None}]
FiringTyped == firing \subseteq [id : Id, life : Nat]

Paid(e) == e.fired + (IF e.timer = "none" THEN 0 ELSE 1) <= e.resends
Sound(e) == Paid(e) /\ (e.aged => e.timer = "none")
EntriesSound == \A i \in Id : entries[i] # None => Sound(entries[i])

\* A timer that went off waits for its own record, or the record is gone.
FiringDue ==
    \A f \in firing :
        entries[f.id] # None /\ entries[f.id].life = f.life => entries[f.id].timer = "due"

FiniteRefs == IsFiniteSet(firing) /\ IsFiniteSet(resending) /\ IsFiniteSet(sending)

TrackerInv == EntriesTyped /\ FiringTyped /\ EntriesSound /\ FiringDue /\ FiniteRefs

\* The ids of the results are the ids of the records.
LEMMA IdOfResult == \A r \in Result : r.id \in Id
  BY DEF Id

\* The lives that a timer, a resend or a call still refers to.
Refs(id) == {f.life : f \in {g \in firing : g.id = id}}
            \cup {x.life : x \in {y \in resending : y.result.id = id}}
            \cup {c.tag[1] : c \in {d \in sending : d.result.id = id /\ d.by = "resend"}}

\* Finitely many lives are in use.
LEMMA RefsFinite ==
    ASSUME FiniteRefs, NEW id
    PROVE  IsFiniteSet(Refs(id))
<1> DEFINE F == {g \in firing : g.id = id}
           X == {y \in resending : y.result.id = id}
           C == {d \in sending : d.result.id = id /\ d.by = "resend"}
<1>1. IsFiniteSet(F) /\ IsFiniteSet(X) /\ IsFiniteSet(C)
  BY FS_Subset DEF FiniteRefs
<1>2. IsFiniteSet({f.life : f \in F})
  <2> DEFINE h == [f \in F |-> f.life]
  <2>1. h \in Surjection(F, {f.life : f \in F})  BY DEF Surjection
  <2>2. QED  BY <1>1, <2>1, FS_Surjection
<1>3. IsFiniteSet({x.life : x \in X})
  <2> DEFINE h == [x \in X |-> x.life]
  <2>1. h \in Surjection(X, {x.life : x \in X})  BY DEF Surjection
  <2>2. QED  BY <1>1, <2>1, FS_Surjection
<1>4. IsFiniteSet({c.tag[1] : c \in C})
  <2> DEFINE h == [c \in C |-> c.tag[1]]
  <2>1. h \in Surjection(C, {c.tag[1] : c \in C})  BY DEF Surjection
  <2>2. QED  BY <1>1, <2>1, FS_Surjection
<1>5. QED  BY <1>2, <1>3, <1>4, FS_Union DEF Refs

\* A new record's life is a number that nothing refers to: of one number more than
\* there are lives in use, some is not in use.
LEMMA FreshLifeUnused ==
    ASSUME FiniteRefs, NEW id
    PROVE  FreshLife(id) \in Nat /\ FreshLife(id) \notin Refs(id)
<1> DEFINE n == Cardinality(Refs(id))
<1>1. IsFiniteSet(Refs(id)) /\ n \in Nat  BY RefsFinite, FS_CardinalityType
<1>2. \E m \in 1..(n + 1) : m \notin Refs(id)
  <2> SUFFICES ASSUME 1..(n + 1) \subseteq Refs(id) PROVE FALSE
    OBVIOUS
  <2>1. Cardinality(1..(n + 1)) <= n  BY <1>1, FS_Subset
  <2>2. Cardinality(1..(n + 1)) = n + 1  BY <1>1, FS_Interval
  <2>3. QED  BY <1>1, <2>1, <2>2
<1>3. FreshLife(id) = CHOOSE m \in 1..(n + 1) : m \notin Refs(id)  BY DEF FreshLife, Refs
<1>4. QED  BY <1>1, <1>2, <1>3

-----------------------------------------------------------------------------
(* What the tracker's operations do to a record *)

\* Every operation but the timers' drops a record, keeps it, refreshes it, puts a
\* new one in its place when there is none or it has expired, ages it, or schedules
\* its next resend.
Tracked(i) ==
    \/ entries'[i] \in {None, entries[i]}
    \/ /\ entries[i] # None /\ ~entries[i].aged
       /\ \E r \in Result : entries'[i] = Refreshed(entries[i], r)
    \/ /\ entries[i] = None \/ entries[i].aged
       /\ \E r \in Result : r.id = i /\ entries'[i] = Fresh(r)
    \/ /\ entries[i] # None /\ entries[i].timer = "none"
       /\ entries'[i] = [entries[i] EXCEPT !.aged = TRUE]
    \/ /\ entries[i] # None /\ entries[i].timer = "none" /\ ~entries[i].aged
       /\ entries[i].resends < MaxAttempts
       /\ entries'[i] = [entries[i] EXCEPT !.resends = @ + 1, !.timer = "armed"]

AllTracked == DOMAIN entries' = Id /\ entries' = [i \in Id |-> entries'[i]]
              /\ \A i \in Id : Tracked(i)

\* Each of these leaves a sound record, and the timers that went off to their own.
LEMMA TrackedSound ==
    ASSUME TrackerInv, NEW i \in Id, Tracked(i), entries'[i] # None
    PROVE  /\ entries'[i] \in Entry
           /\ Sound(entries'[i])
           /\ \A f \in firing : f.id = i /\ entries'[i].life = f.life => entries'[i].timer = "due"
<1>0. MaxAttempts \in Nat  BY ResendAssumption
<1>1. entries[i] # None => entries[i] \in Entry /\ Sound(entries[i])
  BY DEF TrackerInv, EntriesTyped, EntriesSound
<1>2. \A f \in firing : f.id = i /\ entries[i] # None /\ entries[i].life = f.life
                        => entries[i].timer = "due"
  BY DEF TrackerInv, FiringDue
<1>3. CASE entries'[i] = entries[i]  BY <1>1, <1>2, <1>3
<1>4. ASSUME entries[i] # None, NEW r \in Result, entries'[i] = Refreshed(entries[i], r),
             ~entries[i].aged
      PROVE  /\ entries'[i] \in Entry
             /\ Sound(entries'[i])
             /\ \A f \in firing : f.id = i /\ entries'[i].life = f.life
                                  => entries'[i].timer = "due"
  <2>1. entries'[i] \in Entry  BY <1>1, <1>4 DEF Refreshed, Entry
  <2>2. /\ entries'[i].aged = FALSE /\ entries'[i].life = entries[i].life
        /\ entries'[i].timer = entries[i].timer /\ entries'[i].fired = entries[i].fired
        /\ entries'[i].resends = entries[i].resends
    BY <1>1, <1>4 DEF Refreshed, Entry
  <2>3. QED  BY <1>1, <1>2, <1>4, <2>1, <2>2 DEF Sound, Paid
<1>5. ASSUME NEW r \in Result, r.id = i, entries'[i] = Fresh(r)
      PROVE  /\ entries'[i] \in Entry
             /\ Sound(entries'[i])
             /\ \A f \in firing : f.id = i /\ entries'[i].life = f.life
                                  => entries'[i].timer = "due"
  <2>1. FreshLife(i) \in Nat /\ FreshLife(i) \notin Refs(i)
    BY FreshLifeUnused DEF TrackerInv
  <2>2. entries'[i] = [result |-> r, life |-> FreshLife(i), resends |-> 0, fired |-> 0,
                       timer |-> "none", aged |-> FALSE]
    BY <1>5 DEF Fresh
  <2>3. entries'[i] \in Entry  BY <1>0, <2>1, <2>2 DEF Entry
  <2>4. Sound(entries'[i])  BY <2>2 DEF Sound, Paid
  <2>5. \A f \in firing : f.id = i => f.life \in Refs(i)  BY DEF Refs
  <2>6. entries'[i].life = FreshLife(i)  BY <2>2
  <2>7. QED  BY <2>1, <2>3, <2>4, <2>5, <2>6
<1>6. CASE /\ entries[i] # None /\ entries[i].timer = "none"
           /\ entries'[i] = [entries[i] EXCEPT !.aged = TRUE]
  <2>1. entries'[i] \in Entry  BY <1>1, <1>6 DEF Entry
  <2>2. /\ entries'[i].timer = "none" /\ entries'[i].life = entries[i].life
        /\ entries'[i].fired = entries[i].fired /\ entries'[i].resends = entries[i].resends
    BY <1>1, <1>6 DEF Entry
  <2>3. QED  BY <1>1, <1>2, <1>6, <2>1, <2>2 DEF Sound, Paid
<1>7. CASE /\ entries[i] # None /\ entries[i].timer = "none" /\ ~entries[i].aged
           /\ entries[i].resends < MaxAttempts
           /\ entries'[i] = [entries[i] EXCEPT !.resends = @ + 1, !.timer = "armed"]
  <2>1. entries[i] \in Entry /\ entries[i].resends \in Nat /\ entries[i].fired \in Nat
    BY <1>0, <1>1, <1>7 DEF Entry
  <2>2. entries'[i] \in Entry
    <3>1. entries[i].resends + 1 \in 0..MaxAttempts  BY <1>0, <1>7, <2>1
    <3>2. entries'[i] = [entries[i] EXCEPT !.resends = entries[i].resends + 1, !.timer = "armed"]
      BY <1>7, <2>1 DEF Entry
    <3>3. QED  BY <2>1, <3>1, <3>2 DEF Entry
  <2>3. /\ entries'[i].timer = "armed" /\ entries'[i].life = entries[i].life
        /\ entries'[i].fired = entries[i].fired
        /\ entries'[i].resends = entries[i].resends + 1
        /\ entries'[i].aged = entries[i].aged
    BY <1>7, <2>1 DEF Entry
  <2>4. QED  BY <1>1, <1>2, <1>7, <2>1, <2>2, <2>3 DEF Sound, Paid
<1>8. QED  BY <1>3, <1>4, <1>5, <1>6, <1>7 DEF Tracked

\* Such a step keeps the invariant of the tracker.
LEMMA TrackedKeeps ==
    ASSUME TrackerInv, AllTracked, UNCHANGED firing, FiniteRefs'
    PROVE  TrackerInv'
<1>1. \A i \in Id : entries'[i] # None =>
         /\ entries'[i] \in Entry
         /\ Sound(entries'[i])
         /\ \A f \in firing : f.id = i /\ entries'[i].life = f.life => entries'[i].timer = "due"
  BY TrackedSound DEF AllTracked
<1>2. EntriesTyped'  BY <1>1 DEF AllTracked, EntriesTyped
<1>3. EntriesSound'  BY <1>1 DEF EntriesSound
<1>4. FiringTyped'  BY DEF TrackerInv, FiringTyped
<1>5. \A f \in firing : f.id \in Id  BY DEF TrackerInv, FiringTyped
<1>6. FiringDue'  BY <1>1, <1>5 DEF FiringDue
<1>7. QED  BY <1>2, <1>3, <1>4, <1>6 DEF TrackerInv

\* And it takes no scheduled resend back.
LEMMA TrackedWaits ==
    ASSUME TrackerInv, NEW i \in Id, Tracked(i), entries[i] # None, entries[i].timer = "armed",
           entries'[i] # None, entries'[i].life = entries[i].life
    PROVE  entries'[i].timer # "none"
<1>1. entries[i] \in Entry /\ ~entries[i].aged
  BY DEF TrackerInv, EntriesTyped, EntriesSound, Sound
<1>2. CASE entries'[i] = entries[i]  BY <1>2
<1>3. ASSUME NEW r \in Result, entries'[i] = Refreshed(entries[i], r)
      PROVE  entries'[i].timer # "none"
  BY <1>1, <1>3 DEF Refreshed, Entry
<1>4. QED  BY <1>1, <1>2, <1>3 DEF Tracked

\* A tracker that nobody touched.
LEMMA TrackerKept ==
    ASSUME EntriesTyped, UNCHANGED entries
    PROVE  AllTracked
  BY DEF EntriesTyped, AllTracked, Tracked

\* Every call of removeLocked.
LEMMA ForgetTracked ==
    ASSUME EntriesTyped, NEW id \in Id, Forget(id)
    PROVE  AllTracked
  BY DEF EntriesTyped, Forget, Without, AllTracked, Tracked

\* record: whatever is evicted, the record of r is refreshed or new.
LEMMA RecordTracked ==
    ASSUME EntriesTyped, NEW r \in Result, record(r)
    PROVE  AllTracked
<1>0. r.id \in Id  BY IdOfResult
<1>1. PICK gone : entries' = [Without(entries, gone) EXCEPT
                 ![r.id] = IF Found(r) = None THEN Fresh(r) ELSE Refreshed(Found(r), r)]
  BY DEF record
<1>2. \A i \in Id : entries'[i] = IF i = r.id
                                  THEN (IF Found(r) = None THEN Fresh(r)
                                        ELSE Refreshed(Found(r), r))
                                  ELSE (IF i \in gone THEN None ELSE entries[i])
  BY <1>0, <1>1 DEF Without
<1>3. entries' = [i \in Id |-> entries'[i]] /\ DOMAIN entries' = Id
  BY <1>1 DEF Without
<1>4. ASSUME NEW i \in Id, i # r.id PROVE Tracked(i)
  BY <1>2, <1>4 DEF Tracked
<1>5. Found(r) = None => entries[r.id] = None \/ entries[r.id].aged
  BY <1>0 DEF Found, Expired, Present
<1>6. Found(r) # None
      => Found(r) = entries[r.id] /\ entries[r.id] # None /\ ~entries[r.id].aged
  BY <1>0 DEF Found, Expired, Present
<1>7. Tracked(r.id)
  <2>1. CASE Found(r) = None
    <3>1. entries'[r.id] = Fresh(r)  BY <1>0, <1>2, <2>1
    <3>2. QED  BY <1>5, <2>1, <3>1 DEF Tracked
  <2>2. CASE Found(r) # None
    <3>1. entries'[r.id] = Refreshed(entries[r.id], r)  BY <1>0, <1>2, <1>6, <2>2
    <3>2. QED  BY <1>6, <2>2, <3>1 DEF Tracked
  <2>3. QED  BY <2>1, <2>2
<1>8. QED  BY <1>3, <1>4, <1>7 DEF AllTracked

\* onProcessingFailed: nothing, a record dropped, or its next resend scheduled.
LEMMA FailedTracked ==
    ASSUME EntriesTyped, NEW id \in Id, onProcessingFailed(id)
    PROVE  AllTracked
<1>0. MaxAttempts \in Nat /\ (entries[id] # None => entries[id] \in Entry)
  BY ResendAssumption DEF EntriesTyped
<1>1. CASE UNCHANGED entries  BY <1>1, TrackerKept
<1>2. CASE Forget(id)  BY <1>2, ForgetTracked
<1>3. CASE /\ entries[id] # None /\ entries[id].timer = "none" /\ ~entries[id].aged
           /\ ~(entries[id].resends >= MaxAttempts)
           /\ entries' = [entries EXCEPT ![id].resends = @ + 1, ![id].timer = "armed"]
  <2>1. entries[id].resends < MaxAttempts  BY <1>0, <1>3 DEF Entry
  <2>2. entries'[id] = [entries[id] EXCEPT !.resends = @ + 1, !.timer = "armed"]
    BY <1>3 DEF EntriesTyped
  <2>3. \A i \in Id : i # id => entries'[i] = entries[i]  BY <1>3 DEF EntriesTyped
  <2>4. DOMAIN entries' = Id /\ entries' = [i \in Id |-> entries'[i]]
    BY <1>3 DEF EntriesTyped
  <2>5. Tracked(id)  BY <1>3, <2>1, <2>2 DEF Tracked
  <2>6. \A i \in Id : i # id => Tracked(i)  BY <2>3 DEF Tracked
  <2>7. QED  BY <2>4, <2>5, <2>6 DEF AllTracked
<1>4. QED  BY <1>1, <1>2, <1>3 DEF onProcessingFailed, tracker

-----------------------------------------------------------------------------
(* The steps and the tracker *)

\* SendResult up to the channel notes its result and becomes a call under way.
LEMMA BeginTracked ==
    ASSUME TrackerInv, NEW r \in Result, NEW by, NEW tag, Begin(r, by, tag)
    PROVE  AllTracked /\ IsFiniteSet(sending')
<1>0. EntriesTyped /\ IsFiniteSet(sending)  BY DEF TrackerInv, FiniteRefs
<1>1. CASE record(r) /\ sending' = sending \cup {Call(r, by, tag)}
  BY <1>0, <1>1, RecordTracked, FS_AddElement
<1>2. CASE UNCHANGED <<tracker, sending>>
  BY <1>0, <1>2, TrackerKept DEF tracker
<1>3. QED  BY <1>1, <1>2 DEF Begin

\* The records and calls in a step that is not a timer's.
Orderly ==
    /\ AllTracked
    /\ UNCHANGED firing
    /\ FiniteRefs'

\* Producers, resends and flushes call SendResult.
LEMMA SendersOrderly ==
    ASSUME TrackerInv, resending \subseteq [result : Result, life : Nat, attempt : Nat],
           flush \in Seq(Result),
           \/ \E r \in Result : Produce(r)
           \/ \E x \in resending : Resend(x)
           \/ FlushNext
    PROVE  Orderly
<1>0. EntriesTyped /\ FiniteRefs  BY DEF TrackerInv
<1>1. ASSUME NEW r \in Result, Produce(r) PROVE Orderly
  BY <1>0, <1>1, BeginTracked DEF Produce, Orderly, FiniteRefs
<1>2. ASSUME NEW x \in resending, Resend(x) PROVE Orderly
  <2>1. x.result \in Result  OBVIOUS
  <2>2. IsFiniteSet(resending')  BY <1>0, <1>2, FS_RemoveElement DEF Resend, FiniteRefs
  <2>3. QED  BY <1>0, <1>2, <2>1, <2>2, BeginTracked DEF Resend, Orderly, FiniteRefs
<1>3. CASE FlushNext
  <2>1. Head(flush) \in Result  BY <1>3 DEF FlushNext
  <2>2. CASE Begin(Head(flush), "flush", None)
    BY <1>0, <1>3, <2>1, <2>2, BeginTracked DEF FlushNext, Orderly, FiniteRefs
  <2>3. CASE UNCHANGED <<tracker, sending>>
    BY <1>0, <1>3, <2>3, TrackerKept DEF FlushNext, Orderly, FiniteRefs, tracker
  <2>4. QED  BY <1>3, <2>2, <2>3 DEF FlushNext
<1>4. QED  BY <1>1, <1>2, <1>3

\* A call ends in the channel, or refused with its record undone.
LEMMA CallEndsOrderly ==
    ASSUME TrackerInv, NEW c \in sending, c.result \in Result, Queue(c) \/ Refuse(c)
    PROVE  Orderly
<1>0. EntriesTyped /\ FiniteRefs /\ c.result.id \in Id  BY IdOfResult DEF TrackerInv
<1>1. IsFiniteSet(sending')  BY <1>0, FS_RemoveElement DEF FiniteRefs, Queue, Refuse
<1>2. AllTracked
  <2>1. CASE UNCHANGED tracker  BY <1>0, <2>1, TrackerKept DEF tracker
  <2>2. CASE Forget(c.result.id)  BY <1>0, <2>2, ForgetTracked
  <2>3. QED  BY <2>1, <2>2 DEF Queue, Refuse
<1>3. QED  BY <1>0, <1>1, <1>2 DEF Queue, Refuse, Orderly, FiniteRefs

\* An answer of the server acts on the record of its command.
LEMMA ReadOrderly ==
    ASSUME TrackerInv, Read, frames \in Seq([answer : Answer, id : Id])
    PROVE  Orderly
<1>0. EntriesTyped /\ FiniteRefs  BY DEF TrackerInv
<1>1. Head(frames).id \in Id
  <2>0. frames # <<>>  BY DEF Read
  <2>1. Head(frames) \in [answer : Answer, id : Id]
    <3> DEFINE F == [answer : Answer, id : Id]
    <3>1. frames \in Seq(F)  OBVIOUS
    <3> HIDE DEF F
    <3>2. Head(frames) \in F  BY <2>0, <3>1
    <3>3. QED  BY <3>2 DEF F
  <2>2. QED  BY <2>1
<1>2. AllTracked  BY <1>0, <1>1, FailedTracked, ForgetTracked DEF Read
<1>3. QED  BY <1>0, <1>2 DEF Read, Orderly, FiniteRefs

\* Time passes for a record without a scheduled resend.
LEMMA AgeOrderly ==
    ASSUME TrackerInv, NEW i \in Id, Age(i)
    PROVE  Orderly
<1>0. EntriesTyped /\ FiniteRefs  BY DEF TrackerInv
<1>1. /\ entries'[i] = [entries[i] EXCEPT !.aged = TRUE]
      /\ \A j \in Id : j # i => entries'[j] = entries[j]
  BY <1>0 DEF Age, EntriesTyped
<1>2. DOMAIN entries' = Id /\ entries' = [j \in Id |-> entries'[j]]
  BY <1>0 DEF Age, EntriesTyped
<1>3. Tracked(i)  BY <1>1 DEF Age, Tracked
<1>4. \A j \in Id : j # i => Tracked(j)  BY <1>1 DEF Tracked
<1>5. QED  BY <1>0, <1>2, <1>3, <1>4 DEF Age, AllTracked, Orderly, FiniteRefs

\* The pumps and the connection do not touch the tracker.
LEMMA LinkOrderly ==
    ASSUME TrackerInv, Write \/ Preserve \/ Cut \/ PumpsEnd \/ Reconnect \/ Stop
    PROVE  Orderly
<1>1. UNCHANGED <<entries, firing, resending, sending>>
  BY DEF Write, Preserve, Cut, PumpsEnd, Reconnect, Stop, tracker
<1>2. QED  BY <1>1, TrackerKept DEF TrackerInv, Orderly, FiniteRefs

\* A timer goes off: its record says so, and it waits for the lock.
LEMMA TimerDueKeeps ==
    ASSUME TrackerInv, NEW i \in Id, TimerDue(i)
    PROVE  TrackerInv' /\ \A j \in Id : entries[j] # None /\ entries[j].timer = "armed"
                                        => entries'[j].timer # "none"
<1> DEFINE g == [id |-> i, life |-> entries[i].life]
<1>0. EntriesTyped /\ FiringTyped /\ EntriesSound /\ FiringDue /\ FiniteRefs
  BY DEF TrackerInv
<1>1. entries[i] \in Entry /\ entries[i].timer = "armed"  BY <1>0 DEF TimerDue, EntriesTyped
<1>2. /\ entries'[i] = [entries[i] EXCEPT !.timer = "due"]
      /\ \A j \in Id : j # i => entries'[j] = entries[j]
  BY <1>0 DEF TimerDue, EntriesTyped
<1>3. firing' = firing \cup {g} /\ UNCHANGED <<resending, sending>>  BY DEF TimerDue
<1>4. /\ entries'[i] \in Entry /\ entries'[i].timer = "due" /\ entries'[i].life = entries[i].life
      /\ entries'[i].fired = entries[i].fired /\ entries'[i].resends = entries[i].resends
      /\ entries'[i].aged = entries[i].aged
  BY <1>1, <1>2 DEF Entry
<1>5. EntriesTyped'
  <2>1. entries' = [entries EXCEPT ![i].timer = "due"]  BY DEF TimerDue
  <2>2. QED  BY <1>0, <1>2, <1>4, <2>1 DEF EntriesTyped
<1>6. Sound(entries[i])  BY <1>0 DEF EntriesSound, TimerDue
<1>7. Sound(entries'[i])  BY <1>1, <1>4, <1>6 DEF Sound, Paid
<1>8. EntriesSound'  BY <1>0, <1>2, <1>7 DEF EntriesSound
<1>9. FiringTyped'
  <2>1. g \in [id : Id, life : Nat]  BY <1>1 DEF Entry
  <2>2. QED  BY <1>0, <1>3, <2>1 DEF FiringTyped
<1>10. FiringDue'
  <2>1. ASSUME NEW f \in firing', entries'[f.id] # None, entries'[f.id].life = f.life
        PROVE  entries'[f.id].timer = "due"
    <3>1. CASE f.id = i  BY <1>4, <3>1
    <3>2. CASE f.id # i
      <4>1. f \in firing /\ f.id \in Id  BY <1>0, <1>3, <3>2 DEF FiringTyped
      <4>2. QED  BY <1>0, <1>2, <2>1, <3>2, <4>1 DEF FiringDue
    <3>3. QED  BY <3>1, <3>2
  <2>2. QED  BY <2>1 DEF FiringDue
<1>11. FiniteRefs'  BY <1>0, <1>3, FS_AddElement DEF FiniteRefs
<1>12. \A j \in Id : entries[j] # None /\ entries[j].timer = "armed" => entries'[j].timer # "none"
  BY <1>2, <1>4
<1>13. QED  BY <1>5, <1>8, <1>9, <1>10, <1>11, <1>12 DEF TrackerInv

\* A timer's goroutine gets the lock: it acts for its own record, which was due.
LEMMA FireKeeps ==
    ASSUME TrackerInv, NEW f \in firing, Fire(f)
    PROVE  TrackerInv' /\ \A j \in Id : entries[j] # None /\ entries[j].timer = "armed"
                                        => entries'[j].timer # "none"
<1>0. EntriesTyped /\ FiringTyped /\ EntriesSound /\ FiringDue /\ FiniteRefs
  BY DEF TrackerInv
<1>1. f.id \in Id /\ f \in [id : Id, life : Nat]  BY <1>0 DEF FiringTyped
<1>2. firing' = firing \ {f} /\ sending' = sending  BY DEF Fire
<1>3. FiringTyped'  BY <1>0, <1>2 DEF FiringTyped
<1>4. CASE ~Scheduled(f)
  <2>1. UNCHANGED <<entries, resending>>  BY <1>4 DEF Fire
  <2>2. FiringDue'  BY <1>0, <1>2, <2>1 DEF FiringDue
  <2>3. FiniteRefs'  BY <1>0, <1>2, <2>1, FS_RemoveElement DEF FiniteRefs
  <2>4. EntriesTyped' /\ EntriesSound'  BY <1>0, <2>1 DEF EntriesTyped, EntriesSound
  <2>5. QED  BY <1>3, <2>1, <2>2, <2>3, <2>4 DEF TrackerInv
<1>5. CASE Scheduled(f)
  <2> DEFINE e == entries[f.id]
  <2>1. e # None /\ e.life = f.life /\ e \in Entry /\ Sound(e)
    BY <1>0, <1>1, <1>5 DEF Scheduled, EntriesTyped, EntriesSound
  <2>2. e.timer = "due"  BY <1>0, <2>1 DEF FiringDue
  <2>3. entries' = [entries EXCEPT ![f.id].timer = "none", ![f.id].fired = @ + 1]
    BY <1>5 DEF Fire
  <2>4. /\ entries'[f.id] = [e EXCEPT !.timer = "none", !.fired = @ + 1]
        /\ \A j \in Id : j # f.id => entries'[j] = entries[j]
    BY <1>0, <1>1, <2>3 DEF EntriesTyped
  <2>5. /\ entries'[f.id] \in Entry /\ entries'[f.id].timer = "none"
        /\ entries'[f.id].life = e.life /\ entries'[f.id].resends = e.resends
        /\ entries'[f.id].fired = e.fired + 1
    <3>1. e.fired \in Nat /\ e.fired + 1 \in Nat  BY <2>1 DEF Entry
    <3>2. entries'[f.id] = [e EXCEPT !.timer = "none", !.fired = e.fired + 1]
      BY <2>1, <2>4 DEF Entry
    <3>3. QED  BY <2>1, <3>1, <3>2 DEF Entry
  <2>6. EntriesTyped'  BY <1>0, <1>1, <2>3, <2>4, <2>5 DEF EntriesTyped
  <2>7. e.fired \in Nat /\ e.fired + 1 <= e.resends  BY <2>1, <2>2 DEF Sound, Paid, Entry
  <2>8. Sound(entries'[f.id])  BY <2>5, <2>7 DEF Sound, Paid
  <2>9. EntriesSound'  BY <1>0, <2>4, <2>8 DEF EntriesSound
  <2>10. FiringDue'
    <3>1. ASSUME NEW g \in firing', entries'[g.id] # None, entries'[g.id].life = g.life
          PROVE  entries'[g.id].timer = "due"
      <4>1. g \in firing /\ g # f /\ g \in [id : Id, life : Nat]
        BY <1>0, <1>2 DEF FiringTyped
      <4>2. g.id = f.id => g = f  BY <1>1, <2>1, <2>5, <3>1, <4>1
      <4>3. QED  BY <1>0, <2>4, <3>1, <4>1, <4>2 DEF FiringDue
    <3>2. QED  BY <3>1 DEF FiringDue
  <2>11. FiniteRefs'
    <3>1. PICK x : resending' = resending \cup {x}  BY <1>5 DEF Fire
    <3>2. IsFiniteSet(resending')  BY <1>0, <3>1, FS_AddElement DEF FiniteRefs
    <3>3. IsFiniteSet(firing')  BY <1>0, <1>2, FS_RemoveElement DEF FiniteRefs
    <3>4. QED  BY <1>0, <1>2, <3>2, <3>3 DEF FiniteRefs
  <2>12. \A j \in Id : entries[j] # None /\ entries[j].timer = "armed" => entries'[j].timer # "none"
    BY <2>2, <2>4
  <2>13. QED  BY <1>3, <2>6, <2>9, <2>10, <2>11, <2>12 DEF TrackerInv
<1>6. QED  BY <1>4, <1>5

-----------------------------------------------------------------------------
(* The outbox's files, as a sequence without two files of one command *)

Distinct(s) == \A k, l \in DOMAIN s : s[k].id = s[l].id => k = l

\* The files that are left when the k oldest are gone.
LEMMA SuffixFacts ==
    ASSUME NEW s \in Seq(Result), Distinct(s), NEW k \in 0..Len(s)
    PROVE  /\ SubSeq(s, k + 1, Len(s)) \in Seq(Result)
           /\ Distinct(SubSeq(s, k + 1, Len(s)))
           /\ Len(SubSeq(s, k + 1, Len(s))) = Len(s) - k
<1> DEFINE t == SubSeq(s, k + 1, Len(s))
<1>1. Len(s) \in Nat /\ k \in Nat /\ k <= Len(s)  OBVIOUS
<1>2. t \in Seq(Result) /\ Len(t) = Len(s) - k  BY <1>1
<1>3. \A j \in 1..Len(t) : t[j] = s[k + j] /\ k + j \in 1..Len(s)  BY <1>1
<1>4. DOMAIN t = 1..Len(t) /\ DOMAIN s = 1..Len(s)  BY <1>2
<1>5. Distinct(t)
  <2> SUFFICES ASSUME NEW i \in 1..Len(t), NEW j \in 1..Len(t), t[i].id = t[j].id
               PROVE  i = j
    BY <1>4 DEF Distinct
  <2> HIDE DEF t
  <2>1. s[k + i].id = s[k + j].id  BY <1>3
  <2>2. k + i = k + j  BY <1>3, <1>4, <2>1 DEF Distinct
  <2>3. QED  BY <1>1, <1>2, <2>2
<1>6. QED  BY <1>2, <1>5

\* Deleting the file of a command leaves exactly the files of the others.
LEMMA DeletedFacts ==
    ASSUME NEW s \in Seq(Result), Distinct(s), NEW id
    PROVE  /\ Deleted(s, id) \in Seq(Result)
           /\ Distinct(Deleted(s, id))
           /\ Len(Deleted(s, id)) <= Len(s)
           /\ ToSet(Deleted(s, id)) = {r \in ToSet(s) : r.id # id}
<1>0. DOMAIN s = 1..Len(s) /\ Len(s) \in Nat  OBVIOUS
<1>1. CASE ~\E k \in DOMAIN s : s[k].id = id
  <2>1. Deleted(s, id) = s  BY <1>1 DEF Deleted
  <2>2. ToSet(s) = {r \in ToSet(s) : r.id # id}  BY <1>1 DEF ToSet
  <2>3. QED  BY <1>0, <2>1, <2>2
<1>2. CASE \E k \in DOMAIN s : s[k].id = id
  <2> DEFINE m == CHOOSE k \in DOMAIN s : s[k].id = id
             a == SubSeq(s, 1, m - 1)
             b == SubSeq(s, m + 1, Len(s))
             t == Deleted(s, id)
             At(j) == IF j < m THEN j ELSE j + 1
  <2>1. m \in 1..Len(s) /\ s[m].id = id  BY <1>0, <1>2
  <2>2. t = a \o b  BY <1>2 DEF Deleted, RemoveAt
  <2> HIDE DEF m, t
  <2>3. /\ a \in Seq(Result) /\ Len(a) = m - 1
        /\ \A j \in 1..(m - 1) : a[j] = s[j]
    BY <1>0, <2>1
  <2>4. /\ b \in Seq(Result) /\ Len(b) = Len(s) - m
        /\ \A j \in 1..(Len(s) - m) : b[j] = s[m + j]
    <3>1. m + 1 \in Int /\ Len(s) \in Int  BY <1>0, <2>1
    <3>2. \A j \in (m + 1)..Len(s) : s[j] \in Result  BY <1>0, <2>1
    <3>3. /\ b \in Seq(Result)
          /\ Len(b) = IF m + 1 <= Len(s) THEN Len(s) - (m + 1) + 1 ELSE 0
          /\ \A j \in 1..(Len(s) - (m + 1) + 1) : b[j] = s[m + 1 + j - 1]
      BY <3>1, <3>2, SubSeqProperties
    <3> HIDE DEF b
    <3>4. Len(b) = Len(s) - m /\ Len(s) - (m + 1) + 1 = Len(s) - m
      <4>1. m \in Nat /\ m <= Len(s) /\ Len(s) \in Nat  BY <1>0, <2>1
      <4>2. \A x, y \in Nat : x <= y => /\ y - (x + 1) + 1 = y - x
                                       /\ (IF x + 1 <= y THEN y - (x + 1) + 1 ELSE 0) = y - x
        OBVIOUS
      <4>3. QED  BY <3>3, <4>1, <4>2
    <3>5. \A j \in 1..(Len(s) - m) : m + 1 + j - 1 = m + j  BY <1>0, <2>1
    <3>6. QED  BY <3>3, <3>4, <3>5
  <2> HIDE DEF a, b
  <2>5. t \in Seq(Result) /\ Len(t) = Len(s) - 1
    <3>1. t \in Seq(Result) /\ Len(t) = Len(a) + Len(b)
      BY <2>2, <2>3, <2>4, ConcatProperties
    <3>2. QED  BY <1>0, <2>1, <2>3, <2>4, <3>1
  <2>6. \A j \in 1..Len(t) : t[j] = s[At(j)] /\ At(j) \in 1..Len(s) /\ At(j) # m
    <3> SUFFICES ASSUME NEW j \in 1..Len(t)
                 PROVE  t[j] = s[At(j)] /\ At(j) \in 1..Len(s) /\ At(j) # m
      OBVIOUS
    <3>0. t[j] = (IF j <= Len(a) THEN a[j] ELSE b[j - Len(a)])
      <4>1. j \in 1..(Len(a) + Len(b))  BY <1>0, <2>1, <2>3, <2>4, <2>5
      <4>2. QED  BY <2>2, <2>3, <2>4, <4>1, ConcatProperties
    <3>1. CASE j < m
      <4>1. t[j] = a[j]  BY <2>1, <2>3, <3>0, <3>1
      <4>2. QED  BY <1>0, <2>1, <2>3, <2>5, <3>1, <4>1
    <3>2. CASE ~(j < m)
      <4>1. t[j] = b[j - (m - 1)]  BY <2>1, <2>3, <3>0, <3>2
      <4>2. j - (m - 1) \in 1..(Len(s) - m)  BY <1>0, <2>1, <2>5, <3>2
      <4>3. b[j - (m - 1)] = s[m + (j - (m - 1))]  BY <2>4, <4>2
      <4>4. m + (j - (m - 1)) = j + 1  BY <2>1
      <4>5. QED  BY <1>0, <2>1, <2>5, <3>2, <4>1, <4>3, <4>4
    <3>3. QED  BY <3>1, <3>2
  <2>7. \A k \in 1..Len(s) : k # m => \E j \in 1..Len(t) : At(j) = k
    <3> SUFFICES ASSUME NEW k \in 1..Len(s), k # m PROVE \E j \in 1..Len(t) : At(j) = k
      OBVIOUS
    <3>1. CASE k < m
      <4>1. k \in 1..Len(t) /\ At(k) = k  BY <1>0, <2>1, <2>5, <3>1
      <4>2. QED  BY <4>1
    <3>2. CASE k > m
      <4>1. k - 1 \in 1..Len(t) /\ At(k - 1) = k  BY <1>0, <2>1, <2>5, <3>2
      <4>2. QED  BY <4>1
    <3>3. QED  BY <1>0, <2>1, <3>1, <3>2
  <2>8. DOMAIN t = 1..Len(t)  BY <2>5
  <2>9. Distinct(t)
    <3> SUFFICES ASSUME NEW i \in 1..Len(t), NEW j \in 1..Len(t), t[i].id = t[j].id
                 PROVE  i = j
      BY <2>8 DEF Distinct
    <3>1. s[At(i)].id = s[At(j)].id /\ At(i) \in 1..Len(s) /\ At(j) \in 1..Len(s)  BY <2>6
    <3>2. At(i) = At(j)
      <4> HIDE DEF At
      <4>1. QED  BY <1>0, <3>1 DEF Distinct
    <3>3. QED  BY <2>1, <2>5, <3>2
  <2>10. ToSet(t) = {r \in ToSet(s) : r.id # id}
    <3>1. ASSUME NEW j \in 1..Len(t) PROVE t[j] \in ToSet(s) /\ t[j].id # id
      <4>1. t[j] = s[At(j)] /\ At(j) \in 1..Len(s) /\ At(j) # m  BY <2>6
      <4> HIDE DEF At
      <4>2. s[At(j)].id # s[m].id  BY <1>0, <2>1, <4>1 DEF Distinct
      <4>3. QED  BY <1>0, <2>1, <4>1, <4>2 DEF ToSet
    <3>2. ASSUME NEW k \in 1..Len(s), s[k].id # id PROVE s[k] \in ToSet(t)
      <4>1. k # m  BY <2>1, <3>2
      <4>2. PICK j \in 1..Len(t) : At(j) = k  BY <2>7, <4>1
      <4>3. t[j] = s[k]  BY <2>6, <4>2
      <4>4. QED  BY <2>8, <4>3 DEF ToSet
    <3>3. \A r : r \in ToSet(t) => r \in ToSet(s) /\ r.id # id  BY <2>8, <3>1 DEF ToSet
    <3>4. \A r \in ToSet(s) : r.id # id => r \in ToSet(t)  BY <1>0, <3>2 DEF ToSet
    <3>5. QED  BY <3>3, <3>4
  <2>11. QED  BY <1>0, <2>5, <2>9, <2>10 DEF t
<1>3. QED  BY <1>1, <1>2

\* The tail of such a sequence holds its other elements.
LEMMA TailFacts ==
    ASSUME NEW s \in Seq(Result), s # <<>>
    PROVE  /\ Head(s) \in Result /\ Head(s) \in ToSet(s)
           /\ Tail(s) \in Seq(Result)
           /\ Len(Tail(s)) = Len(s) - 1
           /\ ToSet(s) = {Head(s)} \cup ToSet(Tail(s))
           /\ Distinct(s) => Distinct(Tail(s)) /\ \A r \in ToSet(Tail(s)) : r.id # Head(s).id
<1> DEFINE t == Tail(s)
<1>1. /\ Head(s) \in Result /\ t \in Seq(Result) /\ Len(t) = Len(s) - 1
      /\ \A i \in 1..Len(t) : t[i] = s[i + 1]
  BY HeadTailProperties
<1>2. Head(s) = s[1] /\ Len(s) \in Nat /\ 1 <= Len(s)  OBVIOUS
<1>3. DOMAIN s = 1..Len(s) /\ DOMAIN t = 1..Len(t)  BY <1>1
<1> HIDE DEF t
<1>4. \A i \in 1..Len(t) : i + 1 \in 1..Len(s)  BY <1>1, <1>2
<1>5. Head(s) \in ToSet(s)  BY <1>2, <1>3 DEF ToSet
<1>6. ToSet(s) = {Head(s)} \cup ToSet(t)
  <2>1. ASSUME NEW i \in 1..Len(s) PROVE s[i] \in {Head(s)} \cup ToSet(t)
    <3>1. CASE i = 1  BY <1>2, <3>1
    <3>2. CASE i # 1
      <4>1. i - 1 \in 1..Len(t) /\ (i - 1) + 1 = i  BY <1>1, <1>2, <3>2
      <4>2. t[i - 1] = s[i]  BY <1>1, <4>1
      <4>3. QED  BY <1>3, <4>1, <4>2 DEF ToSet
    <3>3. QED  BY <3>1, <3>2
  <2>2. ASSUME NEW i \in 1..Len(t) PROVE t[i] \in ToSet(s)
    BY <1>1, <1>3, <1>4 DEF ToSet
  <2>3. ToSet(s) \subseteq {Head(s)} \cup ToSet(t)  BY <1>3, <2>1 DEF ToSet
  <2>4. ToSet(t) \subseteq ToSet(s)  BY <1>3, <2>2 DEF ToSet
  <2>5. QED  BY <1>5, <2>3, <2>4
<1>7. ASSUME Distinct(s)
      PROVE  Distinct(t) /\ \A r \in ToSet(t) : r.id # Head(s).id
  <2>1. ASSUME NEW i \in 1..Len(t), NEW j \in 1..Len(t), t[i].id = t[j].id
        PROVE  i = j
    <3>1. s[i + 1].id = s[j + 1].id  BY <1>1, <2>1
    <3>2. i + 1 = j + 1  BY <1>3, <1>4, <1>7, <3>1 DEF Distinct
    <3>3. QED  BY <1>1, <1>2, <3>2
  <2>2. ASSUME NEW i \in 1..Len(t) PROVE t[i].id # Head(s).id
    <3>1. i + 1 \in 1..Len(s) /\ 1 \in 1..Len(s) /\ i + 1 # 1  BY <1>1, <1>2
    <3>2. s[i + 1].id # s[1].id  BY <1>3, <1>7, <3>1 DEF Distinct
    <3>3. QED  BY <1>1, <1>2, <3>2
  <2>3. Distinct(t)  BY <1>3, <2>1 DEF Distinct
  <2>4. QED  BY <1>3, <2>2, <2>3 DEF ToSet
<1>8. QED  BY <1>1, <1>5, <1>6, <1>7 DEF t

\* A result at the end of a sequence.
LEMMA AppendFacts ==
    ASSUME NEW s \in Seq(Result), NEW r \in Result
    PROVE  /\ Append(s, r) \in Seq(Result)
           /\ Len(Append(s, r)) = Len(s) + 1
           /\ ToSet(Append(s, r)) = ToSet(s) \cup {r}
           /\ Distinct(s) /\ (\A q \in ToSet(s) : q.id # r.id) => Distinct(Append(s, r))
<1> DEFINE t == Append(s, r)
<1>1. /\ t \in Seq(Result) /\ Len(t) = Len(s) + 1
      /\ \A i \in 1..Len(s) : t[i] = s[i]
      /\ t[Len(s) + 1] = r
  BY AppendProperties
<1>2. Len(s) \in Nat /\ DOMAIN s = 1..Len(s) /\ DOMAIN t = 1..Len(t)  BY <1>1
<1> HIDE DEF t
<1>3. \A i \in 1..Len(t) : i = Len(s) + 1 \/ i \in 1..Len(s)  BY <1>1, <1>2
<1>4. Len(s) + 1 \in 1..Len(t) /\ \A i \in 1..Len(s) : i \in 1..Len(t)  BY <1>1, <1>2
<1>5. ToSet(t) = ToSet(s) \cup {r}
  <2>1. ToSet(t) \subseteq ToSet(s) \cup {r}  BY <1>1, <1>2, <1>3 DEF ToSet
  <2>2. ToSet(s) \subseteq ToSet(t)  BY <1>1, <1>2, <1>4 DEF ToSet
  <2>3. r \in ToSet(t)  BY <1>1, <1>2, <1>4 DEF ToSet
  <2>4. QED  BY <2>1, <2>2, <2>3
<1>6. ASSUME Distinct(s), \A q \in ToSet(s) : q.id # r.id
      PROVE  Distinct(t)
  <2> SUFFICES ASSUME NEW i \in 1..Len(t), NEW j \in 1..Len(t), t[i].id = t[j].id
               PROVE  i = j
    BY <1>2 DEF Distinct
  <2>1. \A k \in 1..Len(s) : t[k].id # r.id  BY <1>1, <1>2, <1>6 DEF ToSet
  <2>2. CASE i \in 1..Len(s) /\ j \in 1..Len(s)
    BY <1>1, <1>2, <1>6, <2>2 DEF Distinct
  <2>3. QED  BY <1>1, <1>3, <2>1, <2>2
<1>7. QED  BY <1>1, <1>5, <1>6 DEF t

-----------------------------------------------------------------------------
(* The delivery of results.  A flush works on a copy of the list of files it  *)
(* made when it took the outbox's lock: that what it deletes is what it sent  *)
(* takes that the copy stays part of the files and that its one call under    *)
(* way is for the first of them.                                              *)

Traffic ==
    /\ called \subseteq Result
    /\ resending \subseteq [result : Result, life : Nat, attempt : Nat]
    /\ \A c \in sending : c.result \in Result /\ c.by \in {"producer", "resend", "flush"}
    /\ channel \in Seq(Result)
    /\ frames \in Seq([answer : Answer, id : Id])

\* One file for a command, and no more of them than the outbox may keep.
FilesBounded == Distinct(outbox) /\ Len(outbox) <= MaxPending

Files == outbox \in Seq(Result) /\ FilesBounded

Flushing ==
    /\ flush \in Seq(Result) /\ Distinct(flush)
    /\ ToSet(flush) \subseteq ToSet(outbox)
    /\ \A c \in sending : c.by = "flush" => flush # <<>> /\ c.result = Head(flush)
    /\ \A c, d \in sending : c.by = "flush" /\ d.by = "flush" => c = d
    /\ conn = "down" => flush = <<>>

DeliveryInv == Traffic /\ Files /\ Flushing /\ DurableAccounted

\* The durable results the outbox gave up.
GaveUp == {r \in Durable : \E why \in Cause : <<r, why>> \in lost}

\* Expired files, files that made room and the rest are all the files there were.
LEMMA FilesSplit ==
    ASSUME NEW s \in Seq(Result), NEW n \in 0..Len(s), NEW k \in n..Len(s)
    PROVE  ToSet(s) \subseteq ToSet(SubSeq(s, 1, n)) \cup ToSet(SubSeq(s, n + 1, k))
                              \cup ToSet(SubSeq(s, k + 1, Len(s)))
<1> DEFINE a == SubSeq(s, 1, n)
           b == SubSeq(s, n + 1, k)
           c == SubSeq(s, k + 1, Len(s))
<1>0. DOMAIN s = 1..Len(s) /\ Len(s) \in Nat /\ n \in Nat /\ k \in Nat /\ n <= k /\ k <= Len(s)
  OBVIOUS
<1>1. a \in Seq(Result) /\ Len(a) = n /\ \A j \in 1..n : a[j] = s[j]
  BY <1>0
<1>2. b \in Seq(Result) /\ Len(b) = k - n /\ \A j \in 1..(k - n) : b[j] = s[n + j]
  BY <1>0
<1>3. c \in Seq(Result) /\ Len(c) = Len(s) - k /\ \A j \in 1..(Len(s) - k) : c[j] = s[k + j]
  <2>0. Len(s) \in Nat /\ k \in Nat /\ k <= Len(s)  BY <1>0
  <2>1. c \in Seq(Result) /\ Len(c) = Len(s) - k  BY <2>0
  <2>2. \A j \in 1..Len(c) : c[j] = s[k + j] /\ k + j \in 1..Len(s)  BY <1>0
  <2>3. QED  BY <2>1, <2>2
<1>4. DOMAIN a = 1..n /\ DOMAIN b = 1..(k - n) /\ DOMAIN c = 1..(Len(s) - k)
  BY <1>1, <1>2, <1>3
<1> HIDE DEF a, b, c
<1>5. ASSUME NEW i \in 1..Len(s)
      PROVE  s[i] \in ToSet(a) \cup ToSet(b) \cup ToSet(c)
  <2>1. CASE i <= n  BY <1>0, <1>1, <1>4, <2>1 DEF ToSet
  <2>2. CASE n < i /\ i <= k
    <3>1. i - n \in 1..(k - n) /\ n + (i - n) = i  BY <1>0, <2>2
    <3>2. b[i - n] = s[i]  BY <1>2, <3>1
    <3>3. QED  BY <1>4, <3>1, <3>2 DEF ToSet
  <2>3. CASE k < i
    <3>1. i - k \in 1..(Len(s) - k) /\ k + (i - k) = i  BY <1>0, <2>3
    <3>2. c[i - k] = s[i]  BY <1>3, <3>1
    <3>3. QED  BY <1>4, <3>1, <3>2 DEF ToSet
  <2>4. QED  BY <1>0, <2>1, <2>2, <2>3
<1>6. ToSet(s) \subseteq ToSet(a) \cup ToSet(b) \cup ToSet(c)  BY <1>0, <1>5 DEF ToSet
<1>7. QED  BY <1>6 DEF a, b, c

\* Whatever has no file after a step of the outbox is given up with its cause.
LEMMA LoseFacts ==
    ASSUME outbox \in Seq(Result), NEW n \in 0..Len(outbox), NEW k \in n..Len(outbox),
           NEW unfiled, Lose(n, k, unfiled)
    PROVE  (ToSet(outbox) \cup unfiled \cup GaveUp) \cap Durable \subseteq ToSet(outbox') \cup GaveUp'
<1> DEFINE A == ToSet(SubSeq(outbox, 1, n))
           B == ToSet(SubSeq(outbox, n + 1, k))
           C == ToSet(Rest(k))
           All == lost \cup (A \X {"expired"}) \cup (B \X {"evicted"})
                       \cup (C \X {"replaced"}) \cup (unfiled \X {"failed"})
<1>1. ToSet(outbox) \subseteq A \cup B \cup C  BY FilesSplit DEF Rest
<1>2. lost' = {x \in All : x[1] \in Durable \ ToSet(outbox')}  BY DEF Lose
<1> HIDE DEF A, B, C
<1>3. ASSUME NEW q \in Durable, q \notin ToSet(outbox'),
             q \in ToSet(outbox) \cup unfiled \cup GaveUp
      PROVE  q \in GaveUp'
  <2>1. \E why \in Cause : <<q, why>> \in All
    <3>1. CASE q \in A  BY <3>1 DEF Cause
    <3>2. CASE q \in B  BY <3>2 DEF Cause
    <3>3. CASE q \in C  BY <3>3 DEF Cause
    <3>4. CASE q \in unfiled  BY <3>4 DEF Cause
    <3>5. CASE q \in GaveUp  BY <3>5 DEF GaveUp
    <3>6. QED  BY <1>1, <1>3, <3>1, <3>2, <3>3, <3>4, <3>5
  <2>2. PICK why \in Cause : <<q, why>> \in All  BY <2>1
  <2> HIDE DEF All
  <2>3. <<q, why>>[1] = q  OBVIOUS
  <2>4. <<q, why>> \in lost'  BY <1>2, <1>3, <2>2, <2>3
  <2>5. QED  BY <2>2, <2>4 DEF GaveUp, Cause
<1>4. QED  BY <1>3

\* The room Enqueue makes leaves place for one more file.
LEMMA RoomFacts ==
    ASSUME Files, NEW n \in 0..Len(outbox)
    PROVE  Room(n) \in n..Len(outbox) /\ Len(outbox) - Room(n) <= MaxPending - 1
<1>0. /\ MaxPending \in Nat /\ MaxPending >= 1
      /\ Len(outbox) \in Nat /\ Len(outbox) <= MaxPending
  BY ResendAssumption DEF Files, FilesBounded
<1> DEFINE room == Len(outbox) - MaxPending + 1
<1>1. n \in Int /\ room \in Int /\ n >= 0 /\ n <= Len(outbox) /\ room <= Len(outbox)
  BY <1>0
<1>2. Room(n) = Max({n, room})  BY DEF Room
<1>3. Room(n) \in {n, room} /\ Room(n) >= n /\ Room(n) >= room
  <2> HIDE DEF room
  <2>1. \E x \in {n, room} : \A y \in {n, room} : x >= y  BY <1>1
  <2>2. QED  BY <1>2, <2>1 DEF Max
<1>4. QED  BY <1>0, <1>1, <1>3

\* Enqueue files its result or notes that it failed, and gives up only what it notes.
LEMMA EnqueueFacts ==
    ASSUME Files, NEW r \in Result, Enqueue(r)
    PROVE  /\ Files'
           /\ UNCHANGED outbox \/ flush = <<>>
           /\ r \in Durable => r \in ToSet(outbox') \cup GaveUp'
           /\ (ToSet(outbox) \cup GaveUp) \cap Durable \subseteq ToSet(outbox') \cup GaveUp'
<1>0. MaxPending \in Nat /\ MaxPending >= 1  BY ResendAssumption
<1>1. /\ outbox \in Seq(Result) /\ Distinct(outbox) /\ Len(outbox) \in Nat
      /\ Len(outbox) <= MaxPending
  BY DEF Files, FilesBounded
<1>2. CASE EnqueueRefused(r)
  <2>1. Lose(0, 0, {r}) /\ UNCHANGED outbox  BY <1>2 DEF EnqueueRefused
  <2>2. 0 \in 0..Len(outbox)  BY <1>1
  <2>3. (ToSet(outbox) \cup {r} \cup GaveUp) \cap Durable \subseteq ToSet(outbox') \cup GaveUp'
    BY <1>1, <2>1, <2>2, LoseFacts
  <2>4. Files'  BY <2>1 DEF Files, FilesBounded, Distinct
  <2>5. QED  BY <2>1, <2>3, <2>4
<1>3. ASSUME flush = <<>>, NEW n \in 0..Len(outbox), NEW unfiled, Lose(n, Room(n), unfiled),
             \/ outbox' = Filed(r, Room(n))
             \/ unfiled = {r} /\ outbox' = Rest(Room(n))
      PROVE  /\ Files'
             /\ r \in Durable => r \in ToSet(outbox') \cup GaveUp'
             /\ (ToSet(outbox) \cup GaveUp) \cap Durable \subseteq ToSet(outbox') \cup GaveUp'
  <2> DEFINE k == Room(n)
             s == Rest(k)
             t == Deleted(s, r.id)
  <2>1. k \in n..Len(outbox) /\ k \in 0..Len(outbox) /\ Len(outbox) - k <= MaxPending - 1
    BY <1>1, <1>3, RoomFacts
  <2>2. (ToSet(outbox) \cup unfiled \cup GaveUp) \cap Durable \subseteq ToSet(outbox') \cup GaveUp'
    BY <1>1, <1>3, <2>1, LoseFacts
  <2>3. outbox' = Append(t, r) \/ (unfiled = {r} /\ outbox' = s)  BY <1>3 DEF Filed
  <2> HIDE DEF k
  <2>4. s \in Seq(Result) /\ Distinct(s) /\ Len(s) = Len(outbox) - k
    BY <1>1, <2>1, SuffixFacts DEF Rest
  <2> HIDE DEF s
  <2>5. Len(s) \in Nat /\ Len(s) <= MaxPending - 1  BY <1>1, <2>1, <2>4
  <2>6. CASE outbox' = Append(t, r)
    <3>1. t \in Seq(Result) /\ Distinct(t) /\ Len(t) <= Len(s)
          /\ ToSet(t) = {q \in ToSet(s) : q.id # r.id}
      BY <2>4, DeletedFacts
    <3> HIDE DEF t
    <3>2. /\ outbox' \in Seq(Result) /\ Distinct(outbox') /\ Len(outbox') = Len(t) + 1
          /\ r \in ToSet(outbox')
      BY <2>6, <3>1, AppendFacts
    <3>3. Len(t) \in Nat  BY <3>1
    <3>4. Len(outbox') <= MaxPending  BY <1>0, <2>5, <3>1, <3>2, <3>3
    <3>5. Distinct(outbox)'  BY <3>2 DEF Distinct
    <3>6. QED  BY <2>2, <3>2, <3>4, <3>5 DEF Files, FilesBounded
  <2>7. CASE unfiled = {r} /\ outbox' = s
    <3>1. Distinct(outbox)' /\ Len(outbox') <= MaxPending
      BY <1>0, <2>4, <2>5, <2>7 DEF Distinct
    <3>2. QED  BY <2>2, <2>4, <2>7, <3>1 DEF Files, FilesBounded
  <2>8. QED  BY <2>3, <2>6, <2>7
<1>4. CASE EnqueueWritten(r)
  <2>1. PICK n \in 0..Len(outbox) : outbox' = Filed(r, Room(n)) /\ Lose(n, Room(n), {})
    BY <1>4 DEF EnqueueWritten
  <2>2. QED  BY <1>3, <1>4, <2>1 DEF EnqueueWritten
<1>5. CASE EnqueueFailed(r)
  <2>1. PICK n \in 0..Len(outbox) : outbox' = Rest(Room(n)) /\ Lose(n, Room(n), {r})
    BY <1>5 DEF EnqueueFailed
  <2>2. QED  BY <1>3, <1>5, <2>1 DEF EnqueueFailed
<1>6. QED  BY <1>2, <1>4, <1>5 DEF Enqueue

\* Everywhere a result may be.
Held == ToSet(channel) \cup ToSet(outbox) \cup written \cup GaveUp \cup {c.result : c \in sending}

\* The account of durable results, as sets.
LEMMA AccountKept ==
    ASSUME DurableAccounted, Held \cap Durable \subseteq Held',
           called' \cap Durable \subseteq called \cup Held'
    PROVE  DurableAccounted'
<1>1. called \cap Durable \subseteq Held
  BY DEF DurableAccounted, OnItsWay, Stranded, Held, GaveUp
<1>2. called' \cap Durable \subseteq Held'  BY <1>1
<1>3. QED  BY <1>2 DEF DurableAccounted, OnItsWay, Stranded, Held, GaveUp, Cause

\* A flush that a step leaves alone stays in order.
LEMMA FlushKept ==
    ASSUME Flushing, UNCHANGED flush, UNCHANGED outbox \/ flush = <<>>,
           \A c \in sending' : c.by = "flush" => c \in sending,
           conn' = "down" => conn = "down" \/ flush = <<>>
    PROVE  Flushing'
<1>1. ToSet(flush') \subseteq ToSet(outbox')
  <2>1. CASE UNCHANGED outbox  BY <2>1 DEF Flushing
  <2>2. CASE flush = <<>>  BY <2>2 DEF ToSet
  <2>3. QED  BY <2>1, <2>2
<1>2. QED  BY <1>1 DEF Flushing, Distinct

\* A step of the outbox that is not a flush's.
Stored ==
    /\ Files'
    /\ (ToSet(outbox) \cup GaveUp) \cap Durable \subseteq ToSet(outbox') \cup GaveUp'
    /\ UNCHANGED outbox \/ flush = <<>>

\* An outbox that nobody touched.
LEMMA StoreKept ==
    ASSUME Files, UNCHANGED store
    PROVE  Stored
  BY DEF Stored, Files, FilesBounded, Distinct, store, GaveUp, Cause

\* The error of SendResult leaves a durable result on disk, or given up.
LEMMA NotSentFacts ==
    ASSUME Files, NEW r \in Result, NEW by \in {"producer", "resend"}, NotSent(r, by)
    PROVE  Stored /\ (r \in Durable => r \in ToSet(outbox') \cup GaveUp')
<1>1. CASE Enqueue(r)  BY <1>1, EnqueueFacts DEF Stored
<1>2. CASE UNCHANGED store /\ ~(by = "resend" \/ (by = "producer" /\ r \in Durable))
  BY <1>2, StoreKept
<1>3. QED  BY <1>1, <1>2 DEF NotSent

\* SendResult, for a producer or a resend.
LEMMA BeginFacts ==
    ASSUME DeliveryInv, NEW r \in Result, NEW by \in {"producer", "resend"}, NEW tag,
           Begin(r, by, tag)
    PROVE  /\ Stored
           /\ r \in Durable => r \in ToSet(outbox') \cup GaveUp' \/ \E c \in sending' : c.result = r
           /\ sending \subseteq sending'
           /\ \A c \in sending' : c \in sending \/ (c.result = r /\ c.by = by)
<1>0. Files  BY DEF DeliveryInv
<1>1. CASE sending' = sending \cup {Call(r, by, tag)} /\ UNCHANGED store
  <2>1. Call(r, by, tag).result = r /\ Call(r, by, tag).by = by  BY DEF Call
  <2>2. QED  BY <1>0, <1>1, <2>1, StoreKept
<1>2. CASE NotSent(r, by) /\ UNCHANGED <<tracker, sending>>
  BY <1>0, <1>2, NotSentFacts
<1>3. QED  BY <1>1, <1>2 DEF Begin

\* A producer's or a resend's call starts.
LEMMA CallersDeliver ==
    ASSUME DeliveryInv, NEW r \in Result, NEW by \in {"producer", "resend"}, NEW tag,
           Begin(r, by, tag), called' \subseteq called \cup {r},
           resending' \subseteq resending, UNCHANGED <<channel, link, flush>>
    PROVE  DeliveryInv'
<1>0. Traffic /\ Files /\ Flushing /\ DurableAccounted  BY DEF DeliveryInv
<1>1. /\ Stored
      /\ r \in Durable => r \in ToSet(outbox') \cup GaveUp' \/ \E c \in sending' : c.result = r
      /\ sending \subseteq sending'
      /\ \A c \in sending' : c \in sending \/ (c.result = r /\ c.by = by)
  BY BeginFacts
<1>2. Traffic'  BY <1>0, <1>1 DEF Traffic, link
<1>3. Flushing'  BY <1>0, <1>1, FlushKept DEF Stored, link
<1>4. Held \cap Durable \subseteq Held'  BY <1>1 DEF Held, Stored, link
<1>5. called' \cap Durable \subseteq called \cup Held'  BY <1>1 DEF Held
<1>6. DurableAccounted'  BY <1>0, <1>4, <1>5, AccountKept
<1>7. QED  BY <1>1, <1>2, <1>3, <1>6 DEF DeliveryInv, Stored

\* The producers.
LEMMA ProduceDelivers ==
    ASSUME DeliveryInv, NEW r \in Result, Produce(r)
    PROVE  DeliveryInv'
<1>1. /\ Begin(r, "producer", None) /\ called' \subseteq called \cup {r}
      /\ resending' \subseteq resending /\ UNCHANGED <<channel, link, flush>>
  BY DEF Produce
<1>2. QED  BY <1>1, CallersDeliver

\* The resends.
LEMMA ResendDelivers ==
    ASSUME DeliveryInv, NEW x \in resending, Resend(x)
    PROVE  DeliveryInv'
<1>1. x.result \in Result  BY DEF DeliveryInv, Traffic
<1>2. /\ Begin(x.result, "resend", <<x.life, x.attempt>>)
      /\ called' \subseteq called \cup {x.result}
      /\ resending' \subseteq resending /\ UNCHANGED <<channel, link, flush>>
  BY DEF Resend
<1>3. QED  BY <1>1, <1>2, CallersDeliver

\* The flush goes on without the file it dealt with.
LEMMA FlushAdvances ==
    ASSUME Files, Flushing, flush # <<>>, flush' = Tail(flush), UNCHANGED conn,
           \/ outbox' = outbox
           \/ outbox' = Deleted(outbox, Head(flush).id),
           sending' \subseteq sending, \A c \in sending' : c.by # "flush"
    PROVE  /\ Files' /\ Flushing'
           /\ ToSet(outbox) \subseteq ToSet(outbox') \cup {Head(flush)}
<1>1. /\ outbox \in Seq(Result) /\ Distinct(outbox) /\ Len(outbox) <= MaxPending
      /\ flush \in Seq(Result) /\ Distinct(flush) /\ ToSet(flush) \subseteq ToSet(outbox)
  BY DEF Files, FilesBounded, Flushing
<1>2. /\ Head(flush) \in ToSet(flush)
      /\ Tail(flush) \in Seq(Result) /\ Distinct(Tail(flush))
      /\ ToSet(flush) = {Head(flush)} \cup ToSet(Tail(flush))
      /\ \A r \in ToSet(Tail(flush)) : r.id # Head(flush).id
  BY <1>1, TailFacts
<1>3. Distinct(flush)'  BY <1>2 DEF Distinct
<1>4. conn' = "down" => flush' = <<>>  BY DEF Flushing
<1>5. CASE outbox' = outbox
  <2>1. Files'  BY <1>5 DEF Files, FilesBounded, Distinct
  <2>2. Flushing'  BY <1>1, <1>2, <1>3, <1>4, <1>5 DEF Flushing
  <2>3. QED  BY <1>5, <2>1, <2>2
<1>6. CASE outbox' = Deleted(outbox, Head(flush).id)
  <2>1. /\ outbox' \in Seq(Result) /\ Distinct(outbox') /\ Len(outbox') <= Len(outbox)
        /\ ToSet(outbox') = {r \in ToSet(outbox) : r.id # Head(flush).id}
    BY <1>1, <1>6, DeletedFacts
  <2>2. Distinct(outbox)'  BY <2>1 DEF Distinct
  <2>3. Len(outbox') <= MaxPending
    <3>1. Len(outbox) \in Nat /\ Len(outbox') \in Nat /\ MaxPending \in Nat
      BY <1>1, <2>1, ResendAssumption
    <3>2. QED  BY <1>1, <2>1, <3>1
  <2>4. Files'  BY <2>1, <2>2, <2>3 DEF Files, FilesBounded
  <2>5. ToSet(flush') \subseteq ToSet(outbox')  BY <1>1, <1>2, <2>1
  <2>6. Flushing'  BY <1>2, <1>3, <1>4, <2>5 DEF Flushing
  <2>7. ASSUME NEW r \in ToSet(outbox), r.id = Head(flush).id PROVE r = Head(flush)
    <3>1. Head(flush) \in ToSet(outbox)  BY <1>1, <1>2
    <3>2. QED  BY <1>1, <2>7, <3>1 DEF ToSet, Distinct
  <2>8. QED  BY <2>1, <2>4, <2>6, <2>7
<1>7. QED  BY <1>5, <1>6

\* The channel takes a result; a flush deletes the file of what it sent.
LEMMA QueueDelivers ==
    ASSUME DeliveryInv, NEW c \in sending, Queue(c)
    PROVE  DeliveryInv'
<1>0. Traffic /\ Files /\ Flushing /\ DurableAccounted  BY DEF DeliveryInv
<1>1. /\ c.result \in Result /\ channel \in Seq(Result)
      /\ channel' = Append(channel, c.result) /\ sending' = sending \ {c}
      /\ UNCHANGED <<called, resending, lost>> /\ UNCHANGED link
  BY <1>0 DEF Queue, Traffic
<1>2. channel' \in Seq(Result) /\ ToSet(channel') = ToSet(channel) \cup {c.result}
  BY <1>1, AppendFacts
<1>3. Traffic'  BY <1>0, <1>1, <1>2 DEF Traffic, link
<1>4. Files' /\ Flushing' /\ ToSet(outbox) \subseteq ToSet(outbox') \cup {c.result}
  <2>1. CASE c.by = "flush"
    <3>1. flush # <<>> /\ c.result = Head(flush)  BY <1>0, <2>1 DEF Flushing
    <3>2. \A d \in sending' : d.by # "flush"  BY <1>0, <1>1, <2>1 DEF Flushing
    <3>3. flush' = Tail(flush) /\ outbox' = Deleted(outbox, Head(flush).id)
      BY <2>1, <3>1 DEF Queue
    <3>4. QED  BY <1>0, <1>1, <3>1, <3>2, <3>3, FlushAdvances DEF link
  <2>2. CASE c.by # "flush"
    <3>1. UNCHANGED <<flush, outbox>>  BY <2>2 DEF Queue
    <3>2. Files'  BY <1>0, <3>1 DEF Files, FilesBounded, Distinct
    <3>3. QED  BY <1>0, <1>1, <3>1, <3>2, FlushKept DEF link
  <2>3. QED  BY <2>1, <2>2
<1>5. Held \subseteq Held'
  <2>1. \A d \in sending : d = c \/ d \in sending'  BY <1>1
  <2>2. GaveUp' = GaveUp  BY <1>1 DEF GaveUp, Cause
  <2>3. QED  BY <1>1, <1>2, <1>4, <2>1, <2>2 DEF Held, link
<1>6. DurableAccounted'  BY <1>0, <1>1, <1>5, AccountKept
<1>7. QED  BY <1>3, <1>4, <1>6 DEF DeliveryInv

\* A refused call leaves its result to the outbox, where a flush never took it from.
LEMMA RefuseDelivers ==
    ASSUME DeliveryInv, NEW c \in sending, Refuse(c)
    PROVE  DeliveryInv'
<1>0. Traffic /\ Files /\ Flushing /\ DurableAccounted  BY DEF DeliveryInv
<1>1. /\ c.result \in Result /\ c.by \in {"producer", "resend", "flush"}
      /\ sending' = sending \ {c}
      /\ UNCHANGED <<called, resending, channel>> /\ UNCHANGED link
  BY <1>0 DEF Refuse, Traffic
<1>2. Traffic'  BY <1>0, <1>1 DEF Traffic, link
<1>3. /\ Files' /\ Flushing'
      /\ (ToSet(outbox) \cup GaveUp) \cap Durable \subseteq ToSet(outbox') \cup GaveUp'
      /\ c.result \in Durable => c.result \in ToSet(outbox') \cup GaveUp'
  <2>1. CASE c.by = "flush"
    <3>1. flush # <<>> /\ c.result = Head(flush)  BY <1>0, <2>1 DEF Flushing
    <3>2. \A d \in sending' : d.by # "flush"  BY <1>0, <1>1, <2>1 DEF Flushing
    <3>3. flush' = Tail(flush) /\ UNCHANGED <<outbox, lost>>  BY <2>1 DEF Refuse, store
    <3>4. Files' /\ Flushing'  BY <1>0, <1>1, <3>1, <3>2, <3>3, FlushAdvances DEF link
    <3>5. Head(flush) \in ToSet(outbox)
      <4>1. flush \in Seq(Result) /\ ToSet(flush) \subseteq ToSet(outbox)  BY <1>0 DEF Flushing
      <4>2. QED  BY <3>1, <4>1, TailFacts
    <3>6. GaveUp' = GaveUp  BY <3>3 DEF GaveUp, Cause
    <3>7. QED  BY <3>1, <3>3, <3>4, <3>5, <3>6
  <2>2. CASE c.by # "flush"
    <3>1. NotSent(c.result, c.by) /\ UNCHANGED flush  BY <2>2 DEF Refuse
    <3>2. Stored /\ (c.result \in Durable => c.result \in ToSet(outbox') \cup GaveUp')
      BY <1>0, <1>1, <2>2, <3>1, NotSentFacts
    <3>3. Flushing'  BY <1>0, <1>1, <3>1, <3>2, FlushKept DEF Stored, link
    <3>4. QED  BY <3>2, <3>3 DEF Stored
  <2>3. QED  BY <2>1, <2>2
<1>4. Held \cap Durable \subseteq Held'
  <2>1. \A d \in sending : d = c \/ d \in sending'  BY <1>1
  <2>2. QED  BY <1>1, <1>3, <2>1 DEF Held, link
<1>5. DurableAccounted'  BY <1>0, <1>1, <1>4, AccountKept
<1>6. QED  BY <1>2, <1>3, <1>5 DEF DeliveryInv

\* The next file of a flush: a call, an expired file, or a client that stopped.
LEMMA FlushNextDelivers ==
    ASSUME DeliveryInv, FlushNext
    PROVE  DeliveryInv'
<1>0. Traffic /\ Files /\ Flushing /\ DurableAccounted  BY DEF DeliveryInv
<1>1. /\ flush # <<>> /\ \A c \in sending : c.by # "flush"
      /\ UNCHANGED <<called, resending, channel>> /\ UNCHANGED link
  BY DEF FlushNext
<1>2. Head(flush) \in Result  BY <1>0, <1>1, TailFacts DEF Flushing
<1>3. CASE ~stopped /\ Begin(Head(flush), "flush", None) /\ UNCHANGED flush
  <2> DEFINE new == Call(Head(flush), "flush", None)
  <2>1. sending' = sending \cup {new} /\ UNCHANGED store  BY <1>3 DEF Begin
  <2>2. new.result = Head(flush) /\ new.by = "flush"  BY DEF Call
  <2> HIDE DEF new
  <2>3. Traffic'  BY <1>0, <1>1, <1>2, <2>1, <2>2 DEF Traffic, link
  <2>4. Files'  BY <1>0, <2>1 DEF Files, FilesBounded, Distinct, store
  <2>5. /\ \A c \in sending' : c.by = "flush" => flush' # <<>> /\ c.result = Head(flush')
        /\ \A c, d \in sending' : c.by = "flush" /\ d.by = "flush" => c = d
    BY <1>1, <1>3, <2>1, <2>2
  <2>6. Flushing'  BY <1>0, <1>1, <1>3, <2>1, <2>5 DEF Flushing, Distinct, store, link
  <2>7. Held \subseteq Held'  BY <1>1, <2>1 DEF Held, GaveUp, Cause, store, link
  <2>8. DurableAccounted'  BY <1>0, <1>1, <2>7, AccountKept
  <2>9. QED  BY <2>3, <2>4, <2>6, <2>8 DEF DeliveryInv
<1>4. CASE /\ flush' = Tail(flush) /\ UNCHANGED <<tracker, sending>>
           /\ \/ UNCHANGED store
              \/ /\ outbox' = Deleted(outbox, Head(flush).id)
                 /\ lost' = lost \cup (({Head(flush)} \cap Durable) \X {"expired"})
  <2>1. /\ Files' /\ Flushing' /\ ToSet(outbox) \subseteq ToSet(outbox') \cup {Head(flush)}
    BY <1>0, <1>1, <1>4, FlushAdvances DEF store, link
  <2>2. Traffic'  BY <1>0, <1>1, <1>4 DEF Traffic, link
  <2>3. (ToSet(outbox) \cup GaveUp) \cap Durable \subseteq ToSet(outbox') \cup GaveUp'
    <3>1. CASE UNCHANGED store  BY <3>1 DEF store, GaveUp, Cause
    <3>2. CASE lost' = lost \cup (({Head(flush)} \cap Durable) \X {"expired"})
      <4>1. GaveUp \subseteq GaveUp'  BY <3>2 DEF GaveUp, Cause
      <4>2. Head(flush) \in Durable => <<Head(flush), "expired">> \in lost'  BY <3>2
      <4>3. Head(flush) \in Durable => Head(flush) \in GaveUp'  BY <4>2 DEF GaveUp, Cause
      <4>4. QED  BY <2>1, <4>1, <4>3
    <3>3. QED  BY <1>4, <3>1, <3>2
  <2>4. Held \cap Durable \subseteq Held'  BY <1>1, <1>4, <2>3 DEF Held, link
  <2>5. DurableAccounted'  BY <1>0, <1>1, <2>4, AccountKept
  <2>6. QED  BY <2>1, <2>2, <2>5 DEF DeliveryInv
<1>5. QED  BY <1>3, <1>4 DEF FlushNext

\* The write pump writes a result, and the server answers.
LEMMA WriteDelivers ==
    ASSUME DeliveryInv, Write
    PROVE  DeliveryInv'
<1>0. Traffic /\ Files /\ Flushing /\ DurableAccounted  BY DEF DeliveryInv
<1>1. /\ channel # <<>> /\ channel' = Tail(channel) /\ written' = written \cup ({Head(channel)} \cap Durable)
      /\ UNCHANGED <<called, resending, sending, conn, flush>> /\ UNCHANGED store
  BY DEF Write
<1>2. /\ Head(channel) \in Result /\ channel' \in Seq(Result)
      /\ ToSet(channel) = {Head(channel)} \cup ToSet(channel')
  BY <1>0, <1>1, TailFacts DEF Traffic
<1>3. frames' \in Seq([answer : Answer, id : Id])
  <2> DEFINE F == [answer : Answer, id : Id]
  <2>1. PICK a \in Answer : frames' = Append(frames, [answer |-> a, id |-> Head(channel).id])
    BY DEF Write
  <2>2. [answer |-> a, id |-> Head(channel).id] \in F  BY <1>2, IdOfResult
  <2>3. frames \in Seq(F)  BY <1>0 DEF Traffic
  <2> HIDE DEF F
  <2>4. frames' \in Seq(F)  BY <2>1, <2>2, <2>3, AppendProperties
  <2>5. QED  BY <2>4 DEF F
<1>4. Traffic'  BY <1>0, <1>1, <1>2, <1>3 DEF Traffic
<1>5. Files'  BY <1>0, <1>1 DEF Files, FilesBounded, Distinct, store
<1>6. Flushing'  BY <1>0, <1>1, FlushKept DEF store
<1>7. Held \cap Durable \subseteq Held'  BY <1>1, <1>2 DEF Held, GaveUp, Cause, store
<1>8. DurableAccounted'  BY <1>0, <1>1, <1>7, AccountKept
<1>9. QED  BY <1>4, <1>5, <1>6, <1>8 DEF DeliveryInv

\* A result that meets no connection goes back to the outbox.
LEMMA PreserveDelivers ==
    ASSUME DeliveryInv, Preserve
    PROVE  DeliveryInv'
<1>0. Traffic /\ Files /\ Flushing /\ DurableAccounted  BY DEF DeliveryInv
<1>1. /\ channel # <<>> /\ channel' = Tail(channel) /\ Enqueue(Head(channel))
      /\ UNCHANGED <<called, resending, sending, flush>> /\ UNCHANGED link
  BY DEF Preserve
<1>2. /\ Head(channel) \in Result /\ channel' \in Seq(Result)
      /\ ToSet(channel) = {Head(channel)} \cup ToSet(channel')
  BY <1>0, <1>1, TailFacts DEF Traffic
<1>3. /\ Files' /\ (UNCHANGED outbox \/ flush = <<>>)
      /\ Head(channel) \in Durable => Head(channel) \in ToSet(outbox') \cup GaveUp'
      /\ (ToSet(outbox) \cup GaveUp) \cap Durable \subseteq ToSet(outbox') \cup GaveUp'
  BY <1>0, <1>1, <1>2, EnqueueFacts
<1>4. Traffic'  BY <1>0, <1>1, <1>2 DEF Traffic, link
<1>5. Flushing'  BY <1>0, <1>1, <1>3, FlushKept DEF link
<1>6. Held \cap Durable \subseteq Held'  BY <1>1, <1>2, <1>3 DEF Held, link
<1>7. DurableAccounted'  BY <1>0, <1>1, <1>6, AccountKept
<1>8. QED  BY <1>3, <1>4, <1>5, <1>7 DEF DeliveryInv

\* Steps that move no result: the connection, the answers, time and the timers.
LEMMA OthersDeliver ==
    ASSUME DeliveryInv, UNCHANGED <<called, sending, channel, written, flush>>,
           UNCHANGED store,
           resending' \subseteq [result : Result, life : Nat, attempt : Nat],
           frames' \in Seq([answer : Answer, id : Id]),
           conn' = "down" => conn = "down" \/ flush = <<>>
    PROVE  DeliveryInv'
<1>0. Traffic /\ Files /\ Flushing /\ DurableAccounted  BY DEF DeliveryInv
<1>1. Traffic'  BY <1>0 DEF Traffic
<1>2. Files'  BY <1>0 DEF Files, FilesBounded, Distinct, store
<1>3. Flushing'  BY <1>0, FlushKept DEF store
<1>4. Held \subseteq Held'  BY DEF Held, GaveUp, Cause, store
<1>5. DurableAccounted'  BY <1>0, <1>4, AccountKept
<1>6. QED  BY <1>1, <1>2, <1>3, <1>5 DEF DeliveryInv

\* Hello: the read pump copies the list of files, with no flush under way.
LEMMA ReconnectDelivers ==
    ASSUME DeliveryInv, Reconnect
    PROVE  DeliveryInv'
<1>0. Traffic /\ Files /\ Flushing /\ DurableAccounted  BY DEF DeliveryInv
<1>1. /\ conn = "down" /\ conn' = "up" /\ flush' = outbox
      /\ UNCHANGED <<called, resending, sending, channel, frames, written>> /\ UNCHANGED store
  BY DEF Reconnect
<1>2. \A c \in sending : c.by # "flush"  BY <1>0, <1>1 DEF Flushing
<1>3. Traffic'  BY <1>0, <1>1 DEF Traffic
<1>4. Files'  BY <1>0, <1>1 DEF Files, FilesBounded, Distinct, store
<1>5. Flushing'  BY <1>0, <1>1, <1>2 DEF Flushing, Files, FilesBounded, Distinct, store
<1>6. Held \subseteq Held'  BY <1>1 DEF Held, GaveUp, Cause, store
<1>7. DurableAccounted'  BY <1>0, <1>1, <1>6, AccountKept
<1>8. QED  BY <1>3, <1>4, <1>5, <1>7 DEF DeliveryInv

-----------------------------------------------------------------------------
(* The invariant and the theorems *)

IInv == TrackerInv /\ DeliveryInv

\* Nothing has been sent yet.
LEMMA InitIInv == Init => IInv
<1> SUFFICES ASSUME Init PROVE IInv
  OBVIOUS
<1>1. FiniteRefs  BY FS_EmptySet DEF Init, FiniteRefs
<1>2. TrackerInv
  BY <1>1 DEF Init, TrackerInv, EntriesTyped, FiringTyped, EntriesSound, FiringDue
<1>3. /\ flush = <<>> /\ outbox = <<>> /\ channel = <<>> /\ frames = <<>>
      /\ flush \in Seq(Result) /\ outbox \in Seq(Result) /\ channel \in Seq(Result)
      /\ frames \in Seq([answer : Answer, id : Id])
  BY DEF Init
<1>4. Distinct(outbox) /\ Distinct(flush) /\ ToSet(flush) \subseteq ToSet(outbox)
  BY <1>3 DEF Distinct, ToSet
<1>5. Len(outbox) <= MaxPending  BY <1>3, ResendAssumption
<1>6. DeliveryInv
  BY <1>3, <1>4, <1>5
     DEF Init, DeliveryInv, Traffic, Files, FilesBounded, Flushing, DurableAccounted
<1>7. QED  BY <1>2, <1>6 DEF IInv

\* What a step does to the tracker: timers apart, it is orderly.
LEMMA StepTracker ==
    ASSUME IInv, Next
    PROVE  \/ Orderly
           \/ \E i \in Id : TimerDue(i)
           \/ \E f \in firing : Fire(f)
<1>0. /\ TrackerInv /\ Traffic /\ flush \in Seq(Result)
      /\ resending \subseteq [result : Result, life : Nat, attempt : Nat]
      /\ frames \in Seq([answer : Answer, id : Id])
      /\ \A c \in sending : c.result \in Result
  BY DEF IInv, DeliveryInv, Traffic, Flushing
<1>1. CASE \/ \E r \in Result : Produce(r)
           \/ \E x \in resending : Resend(x)
           \/ FlushNext
  BY <1>0, <1>1, SendersOrderly
<1>2. CASE \E c \in sending : Queue(c) \/ Refuse(c)  BY <1>0, <1>2, CallEndsOrderly
<1>3. CASE Read  BY <1>0, <1>3, ReadOrderly
<1>4. CASE Write \/ Preserve \/ Cut \/ PumpsEnd \/ Reconnect \/ Stop
  BY <1>0, <1>4, LinkOrderly
<1>5. CASE \E i \in Id : Age(i)  BY <1>0, <1>5, AgeOrderly
<1>6. QED  BY <1>1, <1>2, <1>3, <1>4, <1>5 DEF Next

\* What a step does to the results under way.
LEMMA StepDelivers ==
    ASSUME IInv, Next
    PROVE  DeliveryInv'
<1> DEFINE F == [answer : Answer, id : Id]
<1>0. /\ TrackerInv /\ DeliveryInv /\ frames \in Seq(F)
      /\ resending \subseteq [result : Result, life : Nat, attempt : Nat]
  BY DEF IInv, DeliveryInv, Traffic
<1>1. CASE \E r \in Result : Produce(r)  BY <1>0, <1>1, ProduceDelivers
<1>2. CASE \E c \in sending : Queue(c) \/ Refuse(c)
  BY <1>0, <1>2, QueueDelivers, RefuseDelivers
<1>3. CASE \E x \in resending : Resend(x)  BY <1>0, <1>3, ResendDelivers
<1>4. CASE FlushNext  BY <1>0, <1>4, FlushNextDelivers
<1>5. CASE Write \/ Preserve \/ Reconnect
  BY <1>0, <1>5, WriteDelivers, PreserveDelivers, ReconnectDelivers
<1>6. CASE Read
  <2>1. frames # <<>> /\ frames' = Tail(frames)  BY <1>6 DEF Read
  <2> HIDE DEF F
  <2>2. frames' \in Seq(F)  BY <1>0, <2>1, HeadTailProperties
  <2> USE DEF F
  <2>3. QED  BY <1>0, <1>6, <2>2, OthersDeliver DEF Read
<1>7. CASE Cut \/ PumpsEnd \/ Stop
  <2>1. <<>> \in Seq(F)  OBVIOUS
  <2>2. /\ frames' \in Seq(F)
        /\ UNCHANGED <<called, resending, sending, channel, written, flush>> /\ UNCHANGED store
        /\ conn' = "down" => conn = "down" \/ flush = <<>>
    BY <1>0, <1>7, <2>1 DEF Cut, PumpsEnd, Stop
  <2>3. QED  BY <1>0, <2>2, OthersDeliver
<1>8. CASE \E i \in Id : Age(i) \/ TimerDue(i)
  <2>1. /\ UNCHANGED <<called, resending, sending, channel, flush>>
        /\ UNCHANGED store /\ UNCHANGED link
    BY <1>8 DEF Age, TimerDue
  <2>2. QED  BY <1>0, <2>1, OthersDeliver DEF link
<1>9. ASSUME NEW f \in firing, Fire(f) PROVE DeliveryInv'
  <2>1. /\ UNCHANGED <<called, sending, channel, flush>> /\ UNCHANGED store /\ UNCHANGED link
    BY <1>9 DEF Fire
  <2>2. f.id \in Id /\ f.life \in Nat  BY <1>0 DEF TrackerInv, FiringTyped
  <2>3. resending' \subseteq [result : Result, life : Nat, attempt : Nat]
    <3>1. CASE ~Scheduled(f)  BY <1>0, <1>9, <3>1 DEF Fire
    <3>2. CASE Scheduled(f)
      <4>1. entries[f.id] \in Entry
        BY <1>0, <2>2, <3>2 DEF Scheduled, TrackerInv, EntriesTyped
      <4>2. entries[f.id].result \in Result /\ entries[f.id].resends \in Nat
        BY <4>1, ResendAssumption DEF Entry
      <4>3. QED  BY <1>0, <1>9, <2>2, <3>2, <4>2 DEF Fire
    <3>3. QED  BY <3>1, <3>2
  <2>4. QED  BY <1>0, <2>1, <2>3, OthersDeliver DEF link
<1>10. QED
  BY <1>1, <1>2, <1>3, <1>4, <1>5, <1>6, <1>7, <1>8, <1>9 DEF Next

\* Every step keeps the invariant.
LEMMA NextIInv == IInv /\ [Next]_vars => IInv'
<1> SUFFICES ASSUME IInv, [Next]_vars PROVE IInv'
  OBVIOUS
<1>1. CASE Next
  <2>1. TrackerInv'
    <3>1. CASE Orderly  BY <3>1, TrackedKeeps DEF IInv, Orderly
    <3>2. CASE \E i \in Id : TimerDue(i)  BY <3>2, TimerDueKeeps DEF IInv
    <3>3. CASE \E f \in firing : Fire(f)  BY <3>3, FireKeeps DEF IInv
    <3>4. QED  BY <1>1, <3>1, <3>2, <3>3, StepTracker
  <2>2. QED  BY <1>1, <2>1, StepDelivers DEF IInv
<1>2. CASE UNCHANGED vars
  <2>1. TrackerInv'
    BY <1>2 DEF vars, tracker, IInv, TrackerInv, EntriesTyped, FiringTyped, EntriesSound,
                FiringDue, FiniteRefs
  <2>2. DeliveryInv'
    BY <1>2, OthersDeliver DEF vars, link, store, IInv, DeliveryInv, Traffic
  <2>3. QED  BY <2>1, <2>2 DEF IInv
<1>3. QED  BY <1>1, <1>2

\* The invariant holds in every behaviour.
LEMMA Invariance == Spec => []IInv
<1>1. QED  BY InitIInv, NextIInv, PTL DEF Spec

\* A record is resent MaxAttempts times at most (result_resend.go), however its
\* command's results, answers and timers interleave.
THEOREM CapHoldsHolds == Spec => []CapHolds
<1>1. IInv => CapHolds
  <2> SUFFICES ASSUME IInv, NEW i \in Present PROVE entries[i].fired <= MaxAttempts
    BY DEF CapHolds
  <2>1. entries[i] \in Entry /\ Sound(entries[i])
    BY DEF Present, IInv, TrackerInv, EntriesTyped, EntriesSound
  <2>2. /\ entries[i].fired \in Nat /\ entries[i].resends \in Nat
        /\ entries[i].resends <= MaxAttempts /\ MaxAttempts \in Nat
    BY <2>1, ResendAssumption DEF Entry
  <2>3. entries[i].fired <= entries[i].resends  BY <2>1, <2>2 DEF Sound, Paid
  <2>4. QED  BY <2>2, <2>3
<1>2. QED  BY <1>1, Invariance, PTL

\* A scheduled resend waits for its own backoff (fire in result_resend.go): a timer
\* of a record that is gone does nothing for the one in its place.
THEOREM BackoffKeptHolds == Spec => BackoffKept
<1>1. ASSUME IInv, [Next]_vars
      PROVE  [\A i \in Present :
                 entries[i].timer = "armed" /\ entries'[i] # None
                 /\ entries'[i].life = entries[i].life
                 => entries'[i].timer # "none"]_vars
  <2>1. CASE Next
    <3>1. ASSUME NEW i \in Present, entries[i].timer = "armed", entries'[i] # None,
                 entries'[i].life = entries[i].life
          PROVE  entries'[i].timer # "none"
      <4>0. TrackerInv /\ i \in Id /\ entries[i] # None  BY <1>1 DEF IInv, Present
      <4>1. CASE Orderly
        BY <3>1, <4>0, <4>1, TrackedWaits DEF Orderly, AllTracked
      <4>2. CASE \E j \in Id : TimerDue(j)  BY <3>1, <4>0, <4>2, TimerDueKeeps
      <4>3. CASE \E f \in firing : Fire(f)  BY <3>1, <4>0, <4>3, FireKeeps
      <4>4. QED  BY <1>1, <2>1, <4>1, <4>2, <4>3, StepTracker
    <3>2. QED  BY <3>1
  <2>2. CASE UNCHANGED vars  BY <2>2
  <2>3. QED  BY <1>1, <2>1, <2>2
<1>2. QED  BY <1>1, Invariance, PTL DEF Spec, BackoffKept

\* A result whose producer relies on the outbox is never lost without a cause the
\* code knows, a failed Enqueue and a stopped client included: the flush deletes only
\* the file of what it sent, and what meets no connection or a full channel is filed
\* again or given up with its cause.
THEOREM DurableAccountedHolds == Spec => []DurableAccounted
<1>1. IInv => DurableAccounted  BY DEF IInv, DeliveryInv
<1>2. QED  BY <1>1, Invariance, PTL

\* The outbox (backup_result_outbox.go) holds one file for a command and MaxPending
\* files at most, with Enqueue and a flush interleaved in any order.
THEOREM OutboxBounded == Spec => []FilesBounded
<1>1. IInv => FilesBounded  BY DEF IInv, DeliveryInv, Files
<1>2. QED  BY <1>1, Invariance, PTL

=============================================================================
