---------------------------- MODULE ResultResend ----------------------------
(* Delivery of command results by the agent's WebSocket client: the bounded   *)
(* record of what was sent (agent/internal/websocket/result_resend.go), the   *)
(* channel to the write pump (client.go) and the outbox on disk               *)
(* (agent/internal/heartbeat/backup_result_outbox.go).                        *)
(*                                                                            *)
(* Senders, the two pumps and the timer goroutines interleave at the mutexes  *)
(* and the channel.  A command may have several results, of rising rank: a    *)
(* queued workload is acknowledged first and reports its outcome later.       *)
EXTENDS Integers, Sequences, SequencesExt, FiniteSetsExt

CONSTANTS
    Result,         \* the results the agent produces: [id, rank]
    Size,           \* [Result -> Nat]: bytes on the wire
    Durable,        \* results whose sender puts them in the outbox on an error
    MaxEntries, MaxBytes, MaxAttempts, Capacity, MaxPending,
    MaxFailures,    \* bound: results the server fails to record
    MaxDiskErrors,  \* bound: results the outbox fails to keep
    None

Id == {r.id : r \in Result}

ASSUME ResendAssumption ==
    /\ Size \in [Result -> Nat]
    /\ Durable \subseteq Result
    /\ {MaxEntries, MaxBytes, MaxAttempts, Capacity, MaxPending} \subseteq Nat \ {0}
    /\ {MaxFailures, MaxDiskErrors} \subseteq Nat

\* sentResult: what the tracker knows of a result it sent.  aged says that lastSent
\* is long past, life is the identity of the record, fired counts its resends.
Entry == [result : Result, life : Nat, resends : 0..MaxAttempts, fired : Nat,
          timer : {"none", "armed", "due"}, aged : BOOLEAN]

ASSUME NoneAssumption == None \notin Entry

VARIABLES
    called,     \* results handed to SendResult by their producer
    entries,    \* the tracker: each id's record, or None
    before,     \* lastSent: pairs of recorded ids, the first sent before the second
    totalBytes,
    firing,     \* timers that went off and wait for the tracker's lock
    resending,  \* resends copied by fire and not yet in SendResult
    sending,    \* SendResult calls between record and the channel
    channel,    \* resultChan
    conn,       \* "up"; "cut": torn down under the write pump; "down"
    frames,     \* answers of the server on their way, in order
    outbox,     \* files, oldest first
    flush,      \* what is left of a flush that holds the outbox's lock
    stopped,
    written,    \* history: the durable results written to a socket
    lost,       \* history: durable results the outbox gave up, with the cause
    failures, diskErrors

\* Why a result has no file any more: it was too old, the oldest when room was
\* made, overwritten by another result of its command, or never filed.
Cause == {"expired", "evicted", "replaced", "failed"}

tracker == <<entries, before, totalBytes>>
store == <<outbox, lost, diskErrors>>
link == <<conn, frames, written, failures>>
vars == <<called, tracker, firing, resending, sending, channel, link, store,
          flush, stopped>>

Present == {i \in Id : entries[i] # None}

Init ==
    /\ called = {}
    /\ entries = [i \in Id |-> None] /\ before = {} /\ totalBytes = 0
    /\ firing = {} /\ resending = {} /\ sending = {}
    /\ channel = <<>>
    /\ conn = "up" /\ frames = <<>>
    /\ outbox = <<>> /\ flush = <<>>
    /\ stopped = FALSE
    /\ written = {} /\ lost = {}
    /\ failures = 0 /\ diskErrors = 0

-----------------------------------------------------------------------------
(* The tracker: each operator is one critical section *)

SizeOf(e) == Size[e.result]
BytesOf(ids) == SumFunctionOnSet([i \in Present |-> SizeOf(entries[i])], ids)

\* The order of the sends of some records.
Among(ids) == before \cap (ids \X ids)

Without(ents, gone) == [i \in Id |-> IF i \in gone THEN None ELSE ents[i]]

\* ack, and every other call of removeLocked.  A timer that is armed is stopped
\* with its record; one that went off finds the record gone.
Forget(id) ==
    /\ entries' = Without(entries, {id})
    /\ before' = Among(Present \ {id})
    /\ totalBytes' = totalBytes - BytesOf({id} \cap Present)

\* Mistake: a second result of a command is charged without refunding the first.
ChargeTwice(old, r) == Size[r]

\* What noting r adds to totalBytes.
Charge(old, r) == IF old = None THEN Size[r] ELSE Size[r] - SizeOf(old)

\* The identity of a record: a number nothing refers to any more.
FreshLife(id) ==
    LET refs == {f.life : f \in {g \in firing : g.id = id}}
                \cup {x.life : x \in {y \in resending : y.result.id = id}}
                \cup {c.tag[1] : c \in {d \in sending : d.result.id = id /\ d.by = "resend"}}
    IN  CHOOSE n \in 1..(Cardinality(refs) + 1) : n \notin refs

Fresh(r) == [result |-> r, life |-> FreshLife(r.id), resends |-> 0, fired |-> 0,
             timer |-> "none", aged |-> FALSE]

\* Mistake: sending again starts the count of resends anew.
RefreshedAnew(e, r) == [e EXCEPT !.result = r, !.aged = FALSE, !.resends = 0]

\* A record that exists takes the new result and send time, and keeps its count
\* of resends and a scheduled one.
Refreshed(e, r) == [e EXCEPT !.result = r, !.aged = FALSE]

Expired == {j \in Present : entries[j].aged}
Others(r) == Present \ (Expired \cup {r.id})

\* The record that noting r finds, once the expired ones are gone.
Found(r) == IF r.id \in Expired THEN None ELSE entries[r.id]

\* totalBytes when r is noted and gone are evicted.
BytesAfter(r, gone) ==
    totalBytes + Charge(Found(r), r) - BytesOf(Expired) - BytesOf(gone)

\* The loop may stop: the bounds hold or r is alone.
Fits(r, gone) ==
    \/ gone = Others(r)
    \/ Cardinality(Others(r) \ gone) < MaxEntries /\ BytesAfter(r, gone) <= MaxBytes

\* gone were sent before the rest: what the loop has removed at some turn.
Oldest(r, gone) == \A i \in gone, j \in Others(r) \ gone : <<i, j>> \in before

\* The loop stops at its first turn that fits.
Evicts(r, gone) ==
    /\ Oldest(r, gone) /\ Fits(r, gone)
    /\ \A g \in SUBSET gone : Oldest(r, g) /\ Fits(r, g) => g = gone

\* record: expired records go, r is noted, and the least recently sent of the
\* others go until the bounds hold or r is alone.
record(r) ==
    \E evicted \in SUBSET Others(r) :
       /\ Evicts(r, evicted)
       /\ entries' = [Without(entries, Expired \cup evicted) EXCEPT
                         ![r.id] = IF Found(r) = None THEN Fresh(r) ELSE Refreshed(Found(r), r)]
       /\ before' = Among(Others(r) \ evicted) \cup ((Others(r) \ evicted) \X {r.id})
       /\ totalBytes' = BytesAfter(r, evicted)

Created(r) == entries[r.id] = None \/ entries[r.id].aged

\* Time passes for a record.  One with a scheduled resend is too young to expire.
Age(i) ==
    /\ entries[i] # None
    /\ ~entries[i].aged
    /\ entries[i].timer = "none"
    /\ entries' = [entries EXCEPT ![i].aged = TRUE]
    /\ UNCHANGED <<called, before, totalBytes, firing, resending, sending, channel,
                   link, store, flush, stopped>>

-----------------------------------------------------------------------------
(* The outbox: one file per command, written and flushed under its mutex *)

\* The files without the one of a command, which its id names.
Deleted(files, id) ==
    IF \E k \in DOMAIN files : files[k].id = id
    THEN RemoveAt(files, CHOOSE k \in DOMAIN files : files[k].id = id)
    ELSE files

\* How many files go when the first n, which are the oldest, have expired: more make
\* room for the new one, also when it replaces a file.
Room(n) == Max({n, Len(outbox) - MaxPending + 1})

Rest(k) == SubSeq(outbox, k + 1, Len(outbox))

\* Mistake: the new file does not take the place of the command's old one.
FiledBeside(r, k) == Append(Rest(k), r)

\* The files with r added, once the first k are gone; r replaces a file of its own.
Filed(r, k) == Append(Deleted(Rest(k), r.id), r)

\* History: the first n files expired, those up to k made room and unfiled were not
\* written.  What is on disk after all is not lost.
Lose(n, k, unfiled) ==
    lost' = {x \in lost \cup (ToSet(SubSeq(outbox, 1, n)) \X {"expired"})
                        \cup (ToSet(SubSeq(outbox, n + 1, k)) \X {"evicted"})
                        \cup (ToSet(Rest(k)) \X {"replaced"})
                        \cup (unfiled \X {"failed"}) :
                x[1] \in Durable \ ToSet(outbox')}

\* The result is logged and lost.
DiskError == diskErrors < MaxDiskErrors /\ diskErrors' = diskErrors + 1

\* An id that names no safe file, or no directory to write to: nothing is touched.
EnqueueRefused(r) ==
    /\ DiskError
    /\ UNCHANGED outbox
    /\ Lose(0, 0, {r})

\* Expired files go, more make room for r, and r is written beside its file and
\* renamed over it.
EnqueueWritten(r) ==
    /\ flush = <<>>
    /\ \E n \in 0..Len(outbox) : outbox' = Filed(r, Room(n)) /\ Lose(n, Room(n), {})
    /\ UNCHANGED diskErrors

\* Encoding, write or rename fails after the older files are gone.
EnqueueFailed(r) ==
    /\ flush = <<>>
    /\ DiskError
    /\ \E n \in 0..Len(outbox) : outbox' = Rest(Room(n)) /\ Lose(n, Room(n), {r})

Enqueue(r) == EnqueueRefused(r) \/ EnqueueWritten(r) \/ EnqueueFailed(r)

-----------------------------------------------------------------------------
(* SendResult: by the producer, by a resend, or by a flush of the outbox *)

Call(r, by, tag) == [result |-> r, by |-> by, tag |-> tag, created |-> Created(r)]

\* The error of SendResult.  A resend and a durable producer turn to the outbox, a
\* flush keeps its file, any other producer logs.
NotSent(r, by) ==
    IF by = "resend" \/ (by = "producer" /\ r \in Durable)
    THEN Enqueue(r)
    ELSE UNCHANGED store

\* SendResult up to its record; a stopped client refuses.  The tag tells resends
\* of one result apart.
Begin(r, by, tag) ==
    \/ /\ ~stopped
       /\ record(r)
       /\ sending' = sending \cup {Call(r, by, tag)}
       /\ UNCHANGED store
    \/ /\ stopped
       /\ NotSent(r, by)
       /\ UNCHANGED <<tracker, sending>>

Produce(r) ==
    /\ r \notin called
    /\ \A s \in Result : s.id = r.id /\ s.rank < r.rank => s \in called
    /\ called' = called \cup {r}
    /\ Begin(r, "producer", None)
    /\ UNCHANGED <<firing, resending, channel, link, flush, stopped>>

Resend(x) ==
    /\ x \in resending
    /\ resending' = resending \ {x}
    /\ Begin(x.result, "resend", <<x.life, x.attempt>>)
    /\ UNCHANGED <<called, firing, channel, link, flush, stopped>>

\* The channel takes the result; a flush then deletes its file.
Queue(c) ==
    /\ c \in sending
    /\ Len(channel) < Capacity
    /\ channel' = Append(channel, c.result)
    /\ sending' = sending \ {c}
    /\ IF c.by = "flush"
       THEN flush' = Tail(flush) /\ outbox' = Deleted(outbox, c.result.id)
       ELSE UNCHANGED <<flush, outbox>>
    /\ UNCHANGED <<called, tracker, firing, resending, link, lost, diskErrors, stopped>>

\* The channel is full or the client stopped: a record made for this call goes.
Refuse(c) ==
    /\ c \in sending
    /\ Len(channel) = Capacity \/ stopped
    /\ sending' = sending \ {c}
    /\ IF c.created THEN Forget(c.result.id) ELSE UNCHANGED tracker
    /\ IF c.by = "flush" THEN flush' = Tail(flush) /\ UNCHANGED store
       ELSE NotSent(c.result, c.by) /\ UNCHANGED flush
    /\ UNCHANGED <<called, firing, resending, channel, link, stopped>>

\* flushBackupResultOutbox runs in the read pump when the server says hello.  A file
\* that has expired is dropped; a stopped client leaves the file where it is.
FlushNext ==
    /\ flush # <<>>
    /\ \A c \in sending : c.by # "flush"
    /\ \/ ~stopped /\ Begin(Head(flush), "flush", None) /\ UNCHANGED flush
       \/ stopped /\ flush' = Tail(flush) /\ UNCHANGED <<tracker, sending, store>>
       \/ /\ flush' = Tail(flush)
          /\ outbox' = Deleted(outbox, Head(flush).id)
          /\ lost' = lost \cup (({Head(flush)} \cap Durable) \X {"expired"})
          /\ UNCHANGED <<tracker, sending, diskErrors>>
    /\ UNCHANGED <<called, firing, resending, channel, link, stopped>>

-----------------------------------------------------------------------------
(* The write pump, the connection and the server *)

\* The server records the result, rejects it, or fails to record it.
Answer == {"ack", "invalid", "failed"}

Write ==
    /\ conn = "up" /\ channel # <<>> /\ ~stopped
    /\ channel' = Tail(channel)
    /\ written' = written \cup ({Head(channel)} \cap Durable)
    /\ \E a \in Answer :
          /\ a = "failed" => failures < MaxFailures
          /\ failures' = IF a = "failed" THEN failures + 1 ELSE failures
          /\ frames' = Append(frames, [answer |-> a, id |-> Head(channel).id])
    /\ UNCHANGED <<called, tracker, firing, resending, sending, conn, store, flush, stopped>>

\* Mistake: a result that meets no connection is skipped, as other messages are.
PreserveNot ==
    /\ conn = "cut" /\ channel # <<>>
    /\ channel' = Tail(channel)
    /\ UNCHANGED <<called, tracker, firing, resending, sending, link, store, flush, stopped>>

\* A failed write, or none to write to: the result goes to the outbox.
Preserve ==
    /\ conn = "cut" /\ channel # <<>>
    /\ channel' = Tail(channel)
    /\ Enqueue(Head(channel))
    /\ UNCHANGED <<called, tracker, firing, resending, sending, link, flush, stopped>>

\* The connection breaks or is closed by ForceReconnect; answers under way are lost.
Cut ==
    /\ conn = "up"
    /\ conn' = "cut"
    /\ frames' = <<>>
    /\ UNCHANGED <<called, tracker, firing, resending, sending, channel, written, failures,
                   store, flush, stopped>>

\* Both pumps end; a flush runs to its end in the read pump first.
PumpsEnd ==
    /\ conn = "cut" /\ flush = <<>>
    /\ conn' = "down"
    /\ UNCHANGED <<called, tracker, firing, resending, sending, channel, frames, written,
                   failures, store, flush, stopped>>

Reconnect ==
    /\ conn = "down" /\ ~stopped
    /\ conn' = "up"
    /\ flush' = outbox
    /\ UNCHANGED <<called, tracker, firing, resending, sending, channel, frames, written,
                   failures, store, stopped>>

Stop ==
    /\ ~stopped
    /\ stopped' = TRUE
    /\ conn' = IF conn = "up" THEN "cut" ELSE conn
    /\ frames' = <<>>
    /\ UNCHANGED <<called, tracker, firing, resending, sending, channel, written, failures,
                   store, flush>>

-----------------------------------------------------------------------------
(* Answers and timers *)

\* onProcessingFailed schedules at most one resend at a time, MaxAttempts in all.
onProcessingFailed(id) ==
    LET e == entries[id]
    IN  CASE e = None -> UNCHANGED tracker
          [] e # None /\ (e.aged \/ (e.timer = "none" /\ e.resends >= MaxAttempts)) -> Forget(id)
          [] e # None /\ ~e.aged /\ e.timer # "none" -> UNCHANGED tracker
          [] OTHER -> /\ entries' = [entries EXCEPT ![id].resends = @ + 1,
                                                    ![id].timer = "armed"]
                      /\ UNCHANGED <<before, totalBytes>>

Read ==
    /\ conn = "up" /\ frames # <<>> /\ flush = <<>>
    /\ frames' = Tail(frames)
    /\ IF Head(frames).answer = "failed" THEN onProcessingFailed(Head(frames).id)
       ELSE Forget(Head(frames).id)
    /\ UNCHANGED <<called, firing, resending, sending, channel, conn, written, failures,
                   store, flush, stopped>>

TimerDue(i) ==
    /\ entries[i] # None
    /\ entries[i].timer = "armed"
    /\ entries' = [entries EXCEPT ![i].timer = "due"]
    /\ firing' = firing \cup {[id |-> i, life |-> entries[i].life]}
    /\ UNCHANGED <<called, before, totalBytes, resending, sending, channel, link, store,
                   flush, stopped>>

\* Mistake: fire takes whatever record the id has by now.
ScheduledAnyone(f) ==
    LET e == entries[f.id] IN e # None /\ e.timer # "none"

\* fire acts only for the record it was scheduled for.
Scheduled(f) ==
    LET e == entries[f.id] IN e # None /\ e.life = f.life /\ e.timer # "none"

\* Mistake: the record still counts as scheduled after its resend.
FireLeavingTimer(f) ==
    /\ f \in firing
    /\ firing' = firing \ {f}
    /\ IF Scheduled(f)
       THEN /\ entries' = [entries EXCEPT ![f.id].fired = @ + 1]
            /\ resending' = resending \cup {[result |-> entries[f.id].result, life |-> f.life,
                                             attempt |-> entries[f.id].resends]}
       ELSE UNCHANGED <<entries, resending>>
    /\ UNCHANGED <<called, before, totalBytes, sending, channel, link, store, flush, stopped>>

Fire(f) ==
    /\ f \in firing
    /\ firing' = firing \ {f}
    /\ IF Scheduled(f)
       THEN /\ entries' = [entries EXCEPT ![f.id].timer = "none", ![f.id].fired = @ + 1]
            /\ resending' = resending \cup {[result |-> entries[f.id].result, life |-> f.life,
                                             attempt |-> entries[f.id].resends]}
       ELSE UNCHANGED <<entries, resending>>
    /\ UNCHANGED <<called, before, totalBytes, sending, channel, link, store, flush, stopped>>

-----------------------------------------------------------------------------
Next ==
    \/ \E r \in Result : Produce(r)
    \/ \E c \in sending : Queue(c) \/ Refuse(c)
    \/ \E x \in resending : Resend(x)
    \/ FlushNext
    \/ Write \/ Preserve \/ Read
    \/ Cut \/ PumpsEnd \/ Reconnect \/ Stop
    \/ \E i \in Id : Age(i) \/ TimerDue(i)
    \/ \E f \in firing : Fire(f)

Spec == Init /\ [][Next]_vars

\* Timers go off, and their goroutines get the tracker's lock.
FairSpec ==
    /\ Spec
    /\ \A i \in Id : WF_vars(TimerDue(i))
    /\ WF_vars(\E f \in firing : Fire(f))

-----------------------------------------------------------------------------
(* Properties *)

\* The sends of the records are totally ordered.
SentInTurn ==
    /\ before \subseteq Present \X Present
    /\ \A i, j \in Present : <<i, j>> \in before <=> i # j /\ <<j, i>> \notin before
    /\ \A i, j, k \in Present : <<i, j>> \in before /\ <<j, k>> \in before => <<i, k>> \in before

TypeOK ==
    /\ called \subseteq Result
    /\ \A i \in Id : entries[i] # None => entries[i] \in Entry
    /\ SentInTurn
    /\ firing \subseteq [id : Id, life : Nat]
    /\ Len(channel) <= Capacity /\ ToSet(channel) \subseteq Result
    /\ conn \in {"up", "cut", "down"}
    /\ Len(outbox) <= MaxPending /\ ToSet(outbox) \subseteq Result
    /\ \A k, l \in DOMAIN outbox : outbox[k].id = outbox[l].id => k = l
    /\ lost \subseteq Durable \X Cause

\* The memory bounds: totalBytes is the size of what is recorded, through new
\* results of a recorded command, evictions, expiry and undone records, and both
\* bounds hold unless a single result is larger than they allow.
Bounded ==
    /\ totalBytes = BytesOf(Present)
    /\ \/ Cardinality(Present) <= 1
       \/ Cardinality(Present) <= MaxEntries /\ totalBytes <= MaxBytes

\* A record is resent MaxAttempts times at most, however often its command's
\* results are recorded again in between.
CapHolds == \A i \in Present : entries[i].fired <= MaxAttempts

\* A resend waits for its own backoff: a timer that went off for a record that is
\* gone never sends for the record that took its place.
BackoffKept ==
    [][\A i \in Present :
          entries[i].timer = "armed" /\ entries'[i] # None /\ entries'[i].life = entries[i].life
          => entries'[i].timer # "none"]_vars

\* A call of SendResult has it, or the channel of a client that runs.
OnItsWay(r) ==
    \/ \E c \in sending : c.result = r
    \/ ~stopped /\ r \in ToSet(channel)

\* Left in the channel of a stopped client, whose write pump need not take it.
Stranded(r) == stopped /\ r \in ToSet(channel)

\* No result whose producer relies on the outbox is lost without one of the causes
\* the code knows: it is on its way, on disk, was written to a socket, is stranded
\* in a stopped client, or the outbox gave it up, by age, for room, for another
\* result of its command or by a failed Enqueue.
DurableAccounted ==
    \A r \in called \cap Durable :
        \/ OnItsWay(r)
        \/ r \in ToSet(outbox)
        \/ r \in written
        \/ Stranded(r)
        \/ \E why \in Cause : <<r, why>> \in lost

\* A scheduled resend does not stay scheduled: an answer that finds one pending
\* relies on it.
ScheduledFires ==
    \A i \in Id : entries[i] # None /\ entries[i].timer # "none"
                   ~> entries[i] = None \/ entries[i].timer = "none"

=============================================================================
