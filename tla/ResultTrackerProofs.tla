------------------------ MODULE ResultTrackerProofs -------------------------
(* Proofs about ResultResend, for every set of results, of sizes and of       *)
(* bounds: the memory that the tracker of sent results takes, and the type    *)
(* invariant.                                                                 *)
(*                                                                            *)
(* The account of bytes is a sum over the records, kept by adding and         *)
(* subtracting: it stays exact because every critical section changes the     *)
(* records and the account alike.  The number of records stays finite, which  *)
(* the sums need, as a step adds one at most.                                 *)
EXTENDS ResultResendProofs, FunctionSums

MemoryInv == IsFiniteSet(Present) /\ Bounded /\ SentInTurn

LinkInv ==
    /\ conn \in {"up", "cut", "down"}
    /\ Len(channel) <= Capacity
    /\ lost \subseteq Durable \X Cause

\* The size of each record.
Weights == [i \in Present |-> SizeOf(entries[i])]

\* The bytes of records are the sum of their sizes, which are natural numbers.
LEMMA BytesFacts ==
    ASSUME EntriesTyped, IsFiniteSet(Present)
    PROVE  /\ \A i \in Present : entries[i] \in Entry /\ Weights[i] = Size[entries[i].result]
                                 /\ Weights[i] \in Nat
           /\ \A ids \in SUBSET Present : /\ IsFiniteSet(ids)
                                          /\ BytesOf(ids) = SumFunctionOnSet(Weights, ids)
                                          /\ BytesOf(ids) \in Nat
<1>1. ASSUME NEW i \in Present
      PROVE  entries[i] \in Entry /\ Weights[i] = Size[entries[i].result] /\ Weights[i] \in Nat
  <2>1. entries[i] \in Entry  BY DEF EntriesTyped, Present
  <2>2. entries[i].result \in Result  BY <2>1 DEF Entry
  <2>3. QED  BY <2>1, <2>2, ResendAssumption DEF Weights, SizeOf
<1>2. ASSUME NEW ids \in SUBSET Present
      PROVE  /\ IsFiniteSet(ids) /\ BytesOf(ids) = SumFunctionOnSet(Weights, ids)
             /\ BytesOf(ids) \in Nat
  <2>1. IsFiniteSet(ids)  BY FS_Subset
  <2>2. BytesOf(ids) = SumFunctionOnSet(Weights, ids)  BY DEF BytesOf, Weights
  <2>3. \A i \in ids : Weights[i] \in Nat  BY <1>1
  <2>4. QED  BY <2>1, <2>2, <2>3, SumNat
<1>3. QED  BY <1>1, <1>2

\* Records of the same sizes weigh the same.
LEMMA BytesKept ==
    ASSUME NEW ids, IsFiniteSet(ids), ids \subseteq Present, ids \subseteq Present',
           \A i \in ids : entries'[i].result = entries[i].result
    PROVE  SumFunctionOnSet(Weights', ids) = SumFunctionOnSet(Weights, ids)
<1>1. \A i \in ids : Weights'[i] = Weights[i]  BY DEF Weights, SizeOf
<1> DEFINE f == Weights  g == Weights'
<1>2. \A i \in ids : g[i] = f[i]  BY <1>1
<1> HIDE DEF f, g
<1>3. SumFunctionOnSet(g, ids) = SumFunctionOnSet(f, ids)  BY <1>2, SumAgrees
<1>4. QED  BY <1>3 DEF f, g

-----------------------------------------------------------------------------
(* What the tracker's critical sections do to the account *)

\* The records stay the same, or only their timers and ages change.
SizesKept ==
    /\ UNCHANGED <<before, totalBytes>>
    /\ Present' = Present
    /\ \A i \in Present : entries'[i].result = entries[i].result

\* Then so do the account and the order of the sends.
LEMMA SizesKeptAccounts ==
    ASSUME EntriesTyped, MemoryInv, SizesKept
    PROVE  MemoryInv'
<1>0. IsFiniteSet(Present) /\ Bounded /\ SentInTurn  BY DEF MemoryInv
<1>1. Present' = Present /\ before' = before /\ totalBytes' = totalBytes  BY DEF SizesKept
<1>2. BytesOf(Present)' = BytesOf(Present)
  <2>1. BytesOf(Present) = SumFunctionOnSet(Weights, Present)  BY DEF BytesOf, Weights
  <2>2. BytesOf(Present)' = SumFunctionOnSet(Weights', Present')  BY DEF BytesOf, Weights
  <2>3. QED  BY <1>0, <1>1, <2>1, <2>2, BytesKept DEF SizesKept
<1>3. Bounded'  BY <1>0, <1>1, <1>2 DEF Bounded
<1>4. SentInTurn'  BY <1>0, <1>1 DEF SentInTurn
<1>5. QED  BY <1>0, <1>1, <1>3, <1>4 DEF MemoryInv

\* A record that goes takes its bytes with it.
LEMMA ForgetAccounts ==
    ASSUME EntriesTyped, MemoryInv, NEW id \in Id, Forget(id)
    PROVE  MemoryInv'
<1> DEFINE gone == {id} \cap Present
           left == Present \ {id}
<1>0. IsFiniteSet(Present) /\ Bounded /\ SentInTurn  BY DEF MemoryInv
<1>1. \A i \in Id : entries'[i] = IF i = id THEN None ELSE entries[i]
  BY DEF Forget, Without
<1>2. Present' = left  BY <1>1 DEF Present
<1>3. before' = before \cap (left \X left) /\ totalBytes' = totalBytes - BytesOf(gone)
  BY DEF Forget, Among
<1>4. /\ gone \in SUBSET Present /\ left \in SUBSET Present /\ Present \ gone = left
      /\ Present \in SUBSET Present
  OBVIOUS
<1>5. IsFiniteSet(left) /\ Cardinality(left) \in Nat /\ Cardinality(Present) \in Nat
      /\ Cardinality(left) <= Cardinality(Present)
  BY <1>0, <1>4, FS_Subset, FS_CardinalityType
<1>6. /\ BytesOf(Present) = BytesOf(gone) + BytesOf(left)
      /\ BytesOf(gone) \in Nat /\ BytesOf(left) \in Nat
      /\ BytesOf(left) = SumFunctionOnSet(Weights, left)
  <2>1. SumFunctionOnSet(Weights, Present)
        = SumFunctionOnSet(Weights, gone) + SumFunctionOnSet(Weights, Present \ gone)
    BY <1>0, <1>4, BytesFacts, SumSplit
  <2>2. QED  BY <1>0, <1>4, <2>1, BytesFacts
<1>7. BytesOf(Present)' = BytesOf(left)
  <2>1. BytesOf(Present)' = SumFunctionOnSet(Weights', Present')  BY DEF BytesOf, Weights
  <2>2. \A i \in left : entries'[i].result = entries[i].result  BY <1>1 DEF Present
  <2>3. SumFunctionOnSet(Weights', left) = SumFunctionOnSet(Weights, left)
    BY <1>2, <1>4, <1>5, <2>2, BytesKept
  <2>4. QED  BY <1>2, <1>6, <2>1, <2>3
<1> HIDE DEF gone, left
<1>8. totalBytes = BytesOf(Present)  BY <1>0 DEF Bounded
<1>9. totalBytes' = BytesOf(Present)' /\ totalBytes' <= totalBytes
      /\ totalBytes \in Nat /\ totalBytes' \in Nat
  BY <1>3, <1>6, <1>7, <1>8
<1>10. \/ Cardinality(left) <= 1
       \/ Cardinality(left) <= MaxEntries /\ totalBytes' <= MaxBytes
  <2>1. \/ Cardinality(Present) <= 1
        \/ Cardinality(Present) <= MaxEntries /\ totalBytes <= MaxBytes
    BY <1>0 DEF Bounded
  <2>2. MaxEntries \in Nat /\ MaxBytes \in Nat  BY ResendAssumption
  <2>3. QED  BY <1>5, <1>9, <2>1, <2>2
<1>11. Bounded'  BY <1>2, <1>9, <1>10 DEF Bounded
<1>12. SentInTurn'  BY <1>0, <1>2, <1>3, <1>4 DEF SentInTurn
<1>13. QED  BY <1>2, <1>5, <1>11, <1>12 DEF MemoryInv

\* record: the result noted is charged, what it replaces and what expires or is
\* evicted is refunded, and the loop ends with the bounds kept or r alone.
LEMMA RecordAccounts ==
    ASSUME TrackerInv, MemoryInv, NEW r \in Result, record(r)
    PROVE  MemoryInv'
<1> DEFINE expired == Expired
           old == Found(r)
           new == IF old = None THEN Fresh(r) ELSE Refreshed(old, r)
           others == Others(r)
<1>0. /\ IsFiniteSet(Present) /\ Bounded /\ SentInTurn /\ r.id \in Id
      /\ EntriesTyped /\ FiniteRefs
  BY IdOfResult DEF MemoryInv, TrackerInv
<1>1. PICK evicted \in SUBSET others :
        /\ \/ evicted = others
           \/ Cardinality(others \ evicted) < MaxEntries /\ BytesAfter(r, evicted) <= MaxBytes
        /\ entries' = [Without(entries, expired \cup evicted) EXCEPT ![r.id] = new]
        /\ before' = Among(others \ evicted) \cup ((others \ evicted) \X {r.id})
        /\ totalBytes' = BytesAfter(r, evicted)
  BY DEF record, Evicts, Fits
<1> USE DEF Expired, Found, Others
<1> DEFINE kept == others \ evicted
<1>2. /\ \A i \in Id : i # r.id => entries'[i] = IF i \in expired \cup evicted THEN None
                                                 ELSE entries[i]
      /\ entries'[r.id] = new
  BY <1>0, <1>1 DEF Without
<1>3. new # None /\ new.result = r
  <2>1. CASE old = None
    <3>1. new = Fresh(r)  BY <2>1
    <3>2. FreshLife(r.id) \in Nat /\ MaxAttempts \in Nat
      BY <1>0, FreshLifeUnused, ResendAssumption
    <3>3. Fresh(r) \in Entry /\ Fresh(r).result = r  BY <3>2 DEF Fresh, Entry
    <3>4. QED  BY <3>1, <3>3, NoneAssumption
  <2>2. CASE old # None
    <3>1. old \in Entry  BY <1>0, <2>2 DEF EntriesTyped
    <3>2. new = [old EXCEPT !.result = r, !.aged = FALSE]  BY <2>2 DEF Refreshed
    <3>3. new \in Entry /\ new.result = r  BY <3>1, <3>2 DEF Entry
    <3>4. QED  BY <3>3, NoneAssumption
  <2>3. QED  BY <2>1, <2>2
<1>4. Present' = kept \cup {r.id}
  BY <1>0, <1>2, <1>3 DEF Present
<1>5. /\ expired \in SUBSET Present /\ others \in SUBSET Present /\ evicted \in SUBSET Present
      /\ kept \in SUBSET Present /\ others \ evicted = kept /\ r.id \notin kept
      /\ r.id \notin others /\ Present \in SUBSET Present /\ Present \ expired \in SUBSET Present
  BY <1>1
<1> DEFINE Sum(ids) == SumFunctionOnSet(Weights, ids)
<1>6. /\ \A i \in Present : Weights[i] = Size[entries[i].result] /\ Weights[i] \in Nat
      /\ \A ids \in SUBSET Present : /\ IsFiniteSet(ids)
                                     /\ BytesOf(ids) = Sum(ids)
                                     /\ Sum(ids) \in Nat
  BY <1>0, BytesFacts
<1>7. Sum(Present) = Sum(expired) + Sum(Present \ expired)  BY <1>0, <1>5, <1>6, SumSplit
<1>8. Sum(others) = Sum(evicted) + Sum(kept)
  <2>1. \A i \in others : Weights[i] \in Nat  BY <1>6
  <2>2. IsFiniteSet(others) /\ evicted \in SUBSET others  BY <1>5, <1>6
  <2> HIDE DEF others
  <2>3. QED  BY <2>1, <2>2, SumSplit
<1>9. Size[r] \in Nat  BY ResendAssumption
<1>10. Sum(Present \ expired) + Charge(old, r) = Sum(others) + Size[r]
  <2>1. CASE old = None
    <3>1. Charge(old, r) = Size[r]  BY <2>1 DEF Charge
    <3>2. r.id \notin Present \ expired
      BY <2>1 DEF Present
    <3>3. Present \ expired = others  BY <3>2
    <3>4. QED  BY <3>1, <3>3
  <2>2. CASE old # None
    <3>1. old = entries[r.id] /\ r.id \in Present \ expired  BY <1>0, <2>2 DEF Present
    <3>2. Charge(old, r) = Size[r] - Weights[r.id]  BY <1>6, <2>2, <3>1 DEF Charge, SizeOf
    <3> DEFINE P == Present \ expired
    <3>3. r.id \in P /\ P \ {r.id} = others  BY <3>1
    <3>4. IsFiniteSet(P) /\ \A i \in P : Weights[i] \in Nat  BY <1>5, <1>6
    <3> HIDE DEF P
    <3>5. Sum(P) = Weights[r.id] + Sum(P \ {r.id})  BY <3>3, <3>4, SumTake
    <3>6. Weights[r.id] \in Nat /\ Sum(others) \in Nat  BY <1>5, <1>6, <3>1
    <3>7. Sum(P) = Weights[r.id] + Sum(others)  BY <3>3, <3>5
    <3> HIDE DEF others, Sum, old
    <3>8. Sum(P) + Charge(old, r) = Sum(others) + Size[r]  BY <1>9, <3>2, <3>6, <3>7
    <3>9. QED  BY <3>8 DEF P
  <2>3. QED  BY <2>1, <2>2
<1>11. totalBytes' = Sum(kept) + Size[r]
  <2>1. totalBytes = Sum(Present)  BY <1>0, <1>5, <1>6 DEF Bounded
  <2>2. BytesOf(expired) = Sum(expired) /\ BytesOf(evicted) = Sum(evicted)  BY <1>5, <1>6
  <2>3. totalBytes' = totalBytes + Charge(old, r) - Sum(expired) - Sum(evicted)
    BY <1>1, <2>2 DEF BytesAfter
  <2>4. /\ Sum(Present) \in Nat /\ Sum(expired) \in Nat /\ Sum(evicted) \in Nat
        /\ Sum(kept) \in Nat /\ Sum(others) \in Nat /\ Sum(Present \ expired) \in Nat
    BY <1>5, <1>6
  <2>5. Charge(old, r) \in Int
    <3>1. old # None => SizeOf(old) \in Nat
      <4>1. ASSUME old # None PROVE SizeOf(old) \in Nat
        <5>1. old = entries[r.id] /\ r.id \in Present  BY <1>0, <4>1 DEF Present
        <5>2. QED  BY <1>6, <5>1 DEF SizeOf
      <4>2. QED  BY <4>1
    <3>2. QED  BY <1>9, <3>1 DEF Charge
  <2> DEFINE P == Present \ expired  c == Charge(old, r)
  <2> HIDE DEF Sum, expired, others, kept, old, P, c
  <2>6. Sum(P) + c = Sum(others) + Size[r] /\ Sum(Present) = Sum(expired) + Sum(P)
        /\ Sum(P) \in Nat /\ c \in Int
        /\ totalBytes' = Sum(Present) + c - Sum(expired) - Sum(evicted)
    BY <1>7, <1>10, <2>1, <2>3, <2>4, <2>5 DEF P, c
  <2>7. \A t, e, p, o, k, g, n \in Nat, q \in Int :
           /\ p + q = o + n
           /\ t = e + p
           /\ o = g + k
           => t + q - e - g = k + n
    OBVIOUS
  <2>8. QED  BY <1>8, <1>9, <2>4, <2>6, <2>7
<1>12. BytesOf(Present)' = Sum(kept) + Size[r]
  <2>1. BytesOf(Present)' = SumFunctionOnSet(Weights', Present')  BY DEF BytesOf, Weights
  <2>2. \A i \in kept : entries'[i].result = entries[i].result
    BY <1>2, <1>5 DEF Present
  <2>3. SumFunctionOnSet(Weights', kept) = Sum(kept)
    <3>1. IsFiniteSet(kept) /\ kept \subseteq Present /\ kept \subseteq Present'
      BY <1>4, <1>5, <1>6
    <3> HIDE DEF kept
    <3>2. QED  BY <2>2, <3>1, BytesKept
  <2> DEFINE g == Weights'
  <2>4. g[r.id] = Size[r]  BY <1>2, <1>3, <1>4 DEF Weights, SizeOf
  <2>5. \A i \in kept : g[i] = Weights[i] /\ g[i] \in Nat
    BY <1>4, <1>5, <1>6, <2>2 DEF Weights, SizeOf
  <2>6. IsFiniteSet(Present') /\ r.id \in Present' /\ Present' \ {r.id} = kept
    <3>1. IsFiniteSet(kept) /\ r.id \notin kept  BY <1>5, <1>6
    <3> HIDE DEF kept
    <3>2. IsFiniteSet(kept \cup {r.id})  BY <3>1, FS_AddElement
    <3>3. QED  BY <1>4, <3>1, <3>2
  <2>7. \A i \in Present' : g[i] \in Nat  BY <1>4, <1>9, <2>4, <2>5
  <2> DEFINE Q == Present'
  <2> HIDE DEF g, Q
  <2>8. SumFunctionOnSet(g, Q) = g[r.id] + SumFunctionOnSet(g, Q \ {r.id})
    BY <2>6, <2>7, SumTake DEF Q
  <2>9. Sum(kept) \in Nat  BY <1>5, <1>6
  <2>10. BytesOf(Present)' = Size[r] + Sum(kept)  BY <2>1, <2>3, <2>4, <2>6, <2>8 DEF g, Q
  <2> HIDE DEF Sum, kept
  <2>11. QED  BY <1>9, <2>9, <2>10
<1>13. IsFiniteSet(kept) /\ Cardinality(kept) \in Nat /\ IsFiniteSet(Present')
       /\ Cardinality(Present') = Cardinality(kept) + 1
  <2>1. IsFiniteSet(kept) /\ r.id \notin kept  BY <1>5, <1>6
  <2> HIDE DEF kept
  <2>2. QED  BY <1>4, <2>1, FS_AddElement, FS_CardinalityType
<1>14. Bounded'
  <2>1. totalBytes' = BytesOf(Present)'  BY <1>11, <1>12
  <2>2. CASE evicted = others
    <3>1. Cardinality(kept) = 0  BY <2>2, FS_EmptySet
    <3>2. Cardinality(Present') <= 1  BY <1>13, <3>1
    <3>3. QED  BY <2>1, <3>2 DEF Bounded
  <2>3. CASE Cardinality(kept) < MaxEntries /\ totalBytes' <= MaxBytes
    <3>1. Cardinality(Present') <= MaxEntries  BY <1>13, <2>3, ResendAssumption
    <3>2. QED  BY <2>1, <2>3, <3>1 DEF Bounded
  <2>4. QED  BY <1>1, <2>2, <2>3
<1>15. SentInTurn'
  <2>1. before' = (before \cap (kept \X kept)) \cup (kept \X {r.id})  BY <1>1 DEF Among
  <2>2. \A i, j \in kept : <<i, j>> \in before' <=> <<i, j>> \in before  BY <1>5, <2>1
  <2>3. \A i \in kept : <<i, r.id>> \in before' /\ <<r.id, i>> \notin before'  BY <1>5, <2>1
  <2>4. <<r.id, r.id>> \notin before'  BY <1>5, <2>1
  <2>5. before' \subseteq Present' \X Present'  BY <1>4, <2>1
  <2>6. \A i, j \in kept : <<i, j>> \in before <=> i # j /\ <<j, i>> \notin before
    BY <1>0, <1>5 DEF SentInTurn
  <2>7. \A i, j, k \in kept : <<i, j>> \in before /\ <<j, k>> \in before => <<i, k>> \in before
    BY <1>0, <1>5 DEF SentInTurn
  <2> HIDE DEF kept
  <2>8. \A i, j \in Present' : <<i, j>> \in before' <=> i # j /\ <<j, i>> \notin before'
    <3> SUFFICES ASSUME NEW i \in Present', NEW j \in Present'
                 PROVE  <<i, j>> \in before' <=> i # j /\ <<j, i>> \notin before'
      OBVIOUS
    <3>1. CASE i = j
      <4>1. CASE i = r.id  BY <2>4, <3>1, <4>1
      <4>2. CASE i # r.id
        <5>1. i \in kept  BY <1>4, <4>2
        <5>2. QED  BY <2>2, <2>6, <3>1, <5>1
      <4>3. QED  BY <4>1, <4>2
    <3>2. CASE i # j /\ i \in kept /\ j \in kept  BY <2>2, <2>6, <3>2
    <3>3. CASE i # j /\ i = r.id
      <4>1. j \in kept  BY <1>4, <3>3
      <4>2. QED  BY <2>3, <3>3, <4>1
    <3>4. CASE i # j /\ j = r.id
      <4>1. i \in kept  BY <1>4, <3>4
      <4>2. QED  BY <2>3, <3>4, <4>1
    <3>5. QED  BY <1>4, <3>1, <3>2, <3>3, <3>4
  <2>9. \A i, j, k \in Present' :
           <<i, j>> \in before' /\ <<j, k>> \in before' => <<i, k>> \in before'
    <3> SUFFICES ASSUME NEW i \in Present', NEW j \in Present', NEW k \in Present',
                        <<i, j>> \in before', <<j, k>> \in before'
                 PROVE  <<i, k>> \in before'
      OBVIOUS
    <3>1. i \in kept /\ j \in kept  BY <1>4, <2>3, <2>4
    <3>2. CASE k = r.id  BY <2>3, <3>1, <3>2
    <3>3. CASE k # r.id
      <4>1. k \in kept  BY <1>4, <3>3
      <4>2. <<i, j>> \in before /\ <<j, k>> \in before  BY <2>2, <3>1, <4>1
      <4>3. <<i, k>> \in before  BY <2>7, <3>1, <4>1, <4>2
      <4>4. QED  BY <2>2, <3>1, <4>1, <4>3
    <3>4. QED  BY <3>2, <3>3
  <2>10. QED  BY <2>5, <2>8, <2>9 DEF SentInTurn
<1>16. QED  BY <1>13, <1>14, <1>15 DEF MemoryInv

-----------------------------------------------------------------------------
(* The loop of record.  What it may have removed after some turns is a chain: *)
(* of two such sets one holds the other, for the sends are totally ordered.   *)
(* The first that fits is the smallest, and there is one, as r alone fits.    *)

\* One set of records, and no other, is what record evicts.
EvictionDefined ==
    \A r \in Result : \E evicted \in SUBSET Others(r) :
        \A gone \in SUBSET Others(r) : Evicts(r, gone) <=> gone = evicted

\* Of two sets that the loop may have removed one holds the other.
LEMMA TurnsNested ==
    ASSUME SentInTurn, NEW r \in Result, NEW g \in SUBSET Others(r), NEW h \in SUBSET Others(r),
           Oldest(r, g), Oldest(r, h)
    PROVE  g \subseteq h \/ h \subseteq g
<1> SUFFICES ASSUME NEW i \in g \ h, NEW j \in h \ g PROVE FALSE
  OBVIOUS
<1>1. i \in Present /\ j \in Present  BY DEF Others
<1>2. <<i, j>> \in before /\ <<j, i>> \in before  BY DEF Oldest
<1>3. QED  BY <1>1, <1>2 DEF SentInTurn

\* The loop ends, at one set.
LEMMA LoopEnds ==
    ASSUME IsFiniteSet(Present), SentInTurn
    PROVE  EvictionDefined
<1> SUFFICES ASSUME NEW r \in Result
             PROVE  \E evicted \in SUBSET Others(r) :
                       \A gone \in SUBSET Others(r) : Evicts(r, gone) <=> gone = evicted
  BY DEF EvictionDefined
<1> DEFINE F == {g \in SUBSET Others(r) : Oldest(r, g) /\ Fits(r, g)}
<1>1. \A g \in SUBSET Others(r) : IsFiniteSet(g) /\ Cardinality(g) \in Nat
  BY FS_Subset, FS_CardinalityType DEF Others
<1>2. Others(r) \in F  BY DEF Oldest, Fits
<1>3. PICK e \in F : \A g \in F : Cardinality(e) <= Cardinality(g)
  <2>1. \A g \in F : IsFiniteSet(g)  BY <1>1
  <2> HIDE DEF F
  <2>2. F # {}  BY <1>2
  <2>3. QED  BY <2>1, <2>2, LeastSet
<1>4. e \in SUBSET Others(r) /\ Oldest(r, e) /\ Fits(r, e)  BY <1>3
<1>5. ASSUME NEW g \in F, g \subseteq e PROVE g = e
  <2>1. IsFiniteSet(e) /\ Cardinality(e) \in Nat /\ Cardinality(g) \in Nat  BY <1>1, <1>4
  <2>2. /\ Cardinality(g) <= Cardinality(e)
        /\ Cardinality(e) = Cardinality(g) => e = g
    BY <1>5, <2>1, FS_Subset
  <2>3. Cardinality(e) <= Cardinality(g)  BY <1>3
  <2>4. QED  BY <2>1, <2>2, <2>3
<1>6. Evicts(r, e)
  <2>1. ASSUME NEW g \in SUBSET e, Oldest(r, g), Fits(r, g) PROVE g = e
    <3>1. g \in F  BY <1>4, <2>1
    <3>2. QED  BY <1>5, <3>1
  <2>2. QED  BY <1>4, <2>1 DEF Evicts
<1>7. ASSUME NEW g \in SUBSET Others(r), Evicts(r, g) PROVE g = e
  <2>1. g \in F /\ Oldest(r, g)  BY <1>7 DEF Evicts
  <2>2. g \subseteq e \/ e \subseteq g  BY <1>4, <2>1, TurnsNested
  <2>3. CASE g \subseteq e  BY <1>5, <2>1, <2>3
  <2>4. CASE e \subseteq g  BY <1>4, <1>7, <2>4 DEF Evicts
  <2>5. QED  BY <2>2, <2>3, <2>4
<1>8. QED  BY <1>4, <1>6, <1>7

-----------------------------------------------------------------------------
(* The steps *)

\* A tracker that nobody touched.
LEMMA TrackerSame ==
    ASSUME UNCHANGED tracker
    PROVE  SizesKept
  BY DEF tracker, SizesKept, Present

\* A change to a record that is not to its result.
LEMMA RecordTouched ==
    ASSUME EntriesTyped, NEW i \in Id, entries[i] # None, NEW e \in Entry,
           entries' = [entries EXCEPT ![i] = e], e.result = entries[i].result,
           UNCHANGED <<before, totalBytes>>
    PROVE  SizesKept
<1>1. \A j \in Id : entries'[j] = IF j = i THEN e ELSE entries[j]  BY DEF EntriesTyped
<1>2. e # None  BY NoneAssumption
<1>3. Present' = Present  BY <1>1, <1>2 DEF Present
<1>4. \A j \in Present : entries'[j].result = entries[j].result  BY <1>1 DEF Present
<1>5. QED  BY <1>3, <1>4 DEF SizesKept

\* An answer that the server failed to record the result.
LEMMA FailedAccounts ==
    ASSUME EntriesTyped, MemoryInv, NEW id \in Id, onProcessingFailed(id)
    PROVE  MemoryInv'
<1>1. CASE UNCHANGED tracker  BY <1>1, TrackerSame, SizesKeptAccounts
<1>2. CASE Forget(id)  BY <1>2, ForgetAccounts
<1>3. CASE /\ entries[id] # None /\ entries[id].timer = "none" /\ ~entries[id].aged
           /\ ~(entries[id].resends >= MaxAttempts)
           /\ entries' = [entries EXCEPT ![id].resends = @ + 1, ![id].timer = "armed"]
           /\ UNCHANGED <<before, totalBytes>>
  <2> DEFINE e == [entries[id] EXCEPT !.resends = @ + 1, !.timer = "armed"]
  <2>1. entries[id] \in Entry /\ MaxAttempts \in Nat
    BY <1>3, ResendAssumption DEF EntriesTyped
  <2>2. e \in Entry /\ e.result = entries[id].result
    <3>1. entries[id].resends + 1 \in 0..MaxAttempts  BY <1>3, <2>1 DEF Entry
    <3>2. e = [entries[id] EXCEPT !.resends = entries[id].resends + 1, !.timer = "armed"]
      BY <2>1 DEF Entry
    <3>3. QED  BY <2>1, <3>1, <3>2 DEF Entry
  <2>3. entries' = [entries EXCEPT ![id] = e]  BY <1>3 DEF EntriesTyped
  <2> HIDE DEF e
  <2>4. SizesKept  BY <1>3, <2>2, <2>3, RecordTouched
  <2>5. QED  BY <2>4, SizesKeptAccounts
<1>4. QED  BY <1>1, <1>2, <1>3 DEF onProcessingFailed

\* SendResult up to the channel.
LEMMA BeginAccounts ==
    ASSUME TrackerInv, MemoryInv, NEW r \in Result, NEW by, NEW tag, Begin(r, by, tag)
    PROVE  MemoryInv'
<1>0. EntriesTyped  BY DEF TrackerInv
<1>1. CASE record(r)  BY <1>1, RecordAccounts
<1>2. CASE UNCHANGED tracker  BY <1>0, <1>2, TrackerSame, SizesKeptAccounts
<1>3. QED  BY <1>1, <1>2 DEF Begin

\* Time, timers and their goroutines touch a record and not its result.
LEMMA TimersAccount ==
    ASSUME TrackerInv, MemoryInv,
           \/ \E i \in Id : Age(i) \/ TimerDue(i)
           \/ \E f \in firing : Fire(f)
    PROVE  MemoryInv'
<1>0. EntriesTyped /\ FiringTyped  BY DEF TrackerInv
<1>1. ASSUME NEW i \in Id, Age(i) PROVE SizesKept
  <2> DEFINE e == [entries[i] EXCEPT !.aged = TRUE]
  <2>1. entries[i] # None /\ entries[i] \in Entry  BY <1>0, <1>1 DEF Age, EntriesTyped
  <2>2. e \in Entry /\ e.result = entries[i].result  BY <2>1 DEF Entry
  <2>3. entries' = [entries EXCEPT ![i] = e] /\ UNCHANGED <<before, totalBytes>>
    BY <1>0, <1>1 DEF Age, EntriesTyped
  <2> HIDE DEF e
  <2>4. QED  BY <1>0, <2>1, <2>2, <2>3, RecordTouched
<1>2. ASSUME NEW i \in Id, TimerDue(i) PROVE SizesKept
  <2> DEFINE e == [entries[i] EXCEPT !.timer = "due"]
  <2>1. entries[i] # None /\ entries[i] \in Entry  BY <1>0, <1>2 DEF TimerDue, EntriesTyped
  <2>2. e \in Entry /\ e.result = entries[i].result  BY <2>1 DEF Entry
  <2>3. entries' = [entries EXCEPT ![i] = e] /\ UNCHANGED <<before, totalBytes>>
    BY <1>0, <1>2 DEF TimerDue, EntriesTyped
  <2> HIDE DEF e
  <2>4. QED  BY <1>0, <2>1, <2>2, <2>3, RecordTouched
<1>3. ASSUME NEW f \in firing, Fire(f) PROVE SizesKept
  <2>0. f.id \in Id /\ UNCHANGED <<before, totalBytes>>  BY <1>0, <1>3 DEF FiringTyped, Fire
  <2>1. CASE ~Scheduled(f)
    <3>1. UNCHANGED tracker  BY <1>3, <2>1 DEF Fire, tracker
    <3>2. QED  BY <3>1, TrackerSame
  <2>2. CASE Scheduled(f)
    <3> DEFINE e == [entries[f.id] EXCEPT !.timer = "none", !.fired = @ + 1]
    <3>1. entries[f.id] # None /\ entries[f.id] \in Entry
      BY <1>0, <2>0, <2>2 DEF Scheduled, EntriesTyped
    <3>2. e \in Entry /\ e.result = entries[f.id].result
      <4>1. entries[f.id].fired + 1 \in Nat  BY <3>1 DEF Entry
      <4>2. e = [entries[f.id] EXCEPT !.timer = "none", !.fired = entries[f.id].fired + 1]
        BY <3>1 DEF Entry
      <4>3. QED  BY <3>1, <4>1, <4>2 DEF Entry
    <3>3. entries' = [entries EXCEPT ![f.id] = e]  BY <1>0, <1>3, <2>0, <2>2 DEF Fire, EntriesTyped
    <3> HIDE DEF e
    <3>4. QED  BY <1>0, <2>0, <3>1, <3>2, <3>3, RecordTouched
  <2>3. QED  BY <2>1, <2>2
<1>4. SizesKept  BY <1>1, <1>2, <1>3
<1>5. QED  BY <1>0, <1>4, SizesKeptAccounts

\* Every step keeps the account.
LEMMA StepAccounts ==
    ASSUME IInv, MemoryInv, Next
    PROVE  MemoryInv'
<1>0. /\ TrackerInv /\ EntriesTyped /\ flush \in Seq(Result)
      /\ resending \subseteq [result : Result, life : Nat, attempt : Nat]
      /\ frames \in Seq([answer : Answer, id : Id])
      /\ \A c \in sending : c.result \in Result
  BY DEF IInv, TrackerInv, DeliveryInv, Traffic, Flushing
<1>1. CASE UNCHANGED tracker  BY <1>0, <1>1, TrackerSame, SizesKeptAccounts
<1>2. ASSUME NEW r \in Result, Produce(r) PROVE MemoryInv'
  BY <1>0, <1>2, BeginAccounts DEF Produce
<1>3. ASSUME NEW x \in resending, Resend(x) PROVE MemoryInv'
  <2>1. x.result \in Result  BY <1>0
  <2>2. QED  BY <1>0, <1>3, <2>1, BeginAccounts DEF Resend
<1>4. CASE FlushNext
  <2>1. Head(flush) \in Result  BY <1>0, <1>4 DEF FlushNext
  <2>2. CASE Begin(Head(flush), "flush", None)  BY <1>0, <2>1, <2>2, BeginAccounts
  <2>3. QED  BY <1>1, <1>4, <2>2 DEF FlushNext, tracker
<1>5. ASSUME NEW c \in sending, Queue(c) \/ Refuse(c) PROVE MemoryInv'
  <2>1. c.result.id \in Id  BY <1>0, IdOfResult
  <2>2. CASE Forget(c.result.id)  BY <1>0, <2>1, <2>2, ForgetAccounts
  <2>3. QED  BY <1>1, <1>5, <2>2 DEF Queue, Refuse, tracker
<1>6. CASE Read
  <2>1. Head(frames).id \in Id
    <3> DEFINE F == [answer : Answer, id : Id]
    <3>1. frames \in Seq(F) /\ frames # <<>>  BY <1>0, <1>6 DEF Read
    <3> HIDE DEF F
    <3>2. Head(frames) \in F  BY <3>1
    <3>3. QED  BY <3>2 DEF F
  <2>2. QED  BY <1>0, <1>6, <2>1, FailedAccounts, ForgetAccounts DEF Read
<1>7. CASE Write \/ Preserve \/ Cut \/ PumpsEnd \/ Reconnect \/ Stop
  BY <1>1, <1>7 DEF Write, Preserve, Cut, PumpsEnd, Reconnect, Stop, tracker
<1>8. CASE \/ \E i \in Id : Age(i) \/ TimerDue(i)
           \/ \E f \in firing : Fire(f)
  BY <1>0, <1>8, TimersAccount
<1>9. QED  BY <1>2, <1>3, <1>4, <1>5, <1>6, <1>7, <1>8 DEF Next

\* Enqueue gives up durable results, each with a cause.
LEMMA LoseTyped ==
    ASSUME LinkInv, NEW n, NEW k, NEW unfiled, Lose(n, k, unfiled)
    PROVE  lost' \subseteq Durable \X Cause
<1> DEFINE A == ToSet(SubSeq(outbox, 1, n))
           B == ToSet(SubSeq(outbox, n + 1, k))
           C == ToSet(Rest(k))
<1>1. ASSUME NEW x \in lost' PROVE x \in Durable \X Cause
  <2>1. /\ x \in lost \cup (A \X {"expired"}) \cup (B \X {"evicted"})
                     \cup (C \X {"replaced"}) \cup (unfiled \X {"failed"})
        /\ x[1] \in Durable
    BY <1>1 DEF Lose
  <2> HIDE DEF A, B, C
  <2>2. x[2] \in Cause /\ x = <<x[1], x[2]>>
    BY <2>1 DEF LinkInv, Cause
  <2>3. QED  BY <2>1, <2>2
<1>2. QED  BY <1>1

\* So does every step.
LEMMA StepLost ==
    ASSUME LinkInv, Next
    PROVE  lost' \subseteq Durable \X Cause
<1>1. ASSUME NEW r, Enqueue(r) PROVE lost' \subseteq Durable \X Cause
  BY <1>1, LoseTyped DEF Enqueue, EnqueueRefused, EnqueueWritten, EnqueueFailed
<1>2. CASE UNCHANGED lost  BY <1>2 DEF LinkInv
<1>3. CASE lost' = lost \cup (({Head(flush)} \cap Durable) \X {"expired"})
  BY <1>3 DEF LinkInv, Cause
<1>4. ASSUME NEW r, NEW by, NotSent(r, by) PROVE lost' \subseteq Durable \X Cause
  BY <1>1, <1>2, <1>4 DEF NotSent, store
<1>5. ASSUME NEW r, NEW by, NEW tag, Begin(r, by, tag) PROVE lost' \subseteq Durable \X Cause
  BY <1>2, <1>4, <1>5 DEF Begin, store
<1>6. CASE \E r \in Result : Produce(r)  BY <1>5, <1>6 DEF Produce
<1>7. CASE \E x \in resending : Resend(x)  BY <1>5, <1>7 DEF Resend
<1>8. CASE \E c \in sending : Queue(c) \/ Refuse(c)
  BY <1>2, <1>4, <1>8 DEF Queue, Refuse, store
<1>9. CASE FlushNext  BY <1>2, <1>3, <1>5, <1>9 DEF FlushNext, store
<1>10. CASE Preserve  BY <1>1, <1>10 DEF Preserve
<1>11. CASE Write \/ Read \/ Cut \/ PumpsEnd \/ Reconnect \/ Stop
  BY <1>2, <1>11 DEF Write, Read, Cut, PumpsEnd, Reconnect, Stop, store
<1>12. CASE \/ \E i \in Id : Age(i) \/ TimerDue(i)
            \/ \E f \in firing : Fire(f)
  BY <1>2, <1>12 DEF Age, TimerDue, Fire, store
<1>13. QED  BY <1>6, <1>7, <1>8, <1>9, <1>10, <1>11, <1>12 DEF Next

\* Every step keeps the connection's state and the channel within its capacity.
LEMMA StepLink ==
    ASSUME IInv, LinkInv, Next
    PROVE  LinkInv'
<1>0. channel \in Seq(Result) /\ Len(channel) \in Nat /\ Capacity \in Nat
  BY ResendAssumption DEF IInv, DeliveryInv, Traffic
<1>1. conn' \in {"up", "cut", "down"}
  BY DEF LinkInv, Next, Produce, Queue, Refuse, Resend, FlushNext, Write, Preserve, Read, Cut,
         PumpsEnd, Reconnect, Stop, Age, TimerDue, Fire, link
<1>2. \/ UNCHANGED channel
      \/ channel # <<>> /\ channel' = Tail(channel)
      \/ Len(channel) < Capacity /\ \E c \in sending : channel' = Append(channel, c.result)
  BY DEF Next, Produce, Queue, Refuse, Resend, FlushNext, Write, Preserve, Read, Cut, PumpsEnd,
         Reconnect, Stop, Age, TimerDue, Fire
<1>3. Len(channel') <= Capacity
  <2>1. CASE UNCHANGED channel  BY <2>1 DEF LinkInv
  <2>2. CASE channel # <<>> /\ channel' = Tail(channel)
    <3>1. Len(channel') = Len(channel) - 1  BY <1>0, <2>2
    <3>2. QED  BY <1>0, <3>1 DEF LinkInv
  <2>3. ASSUME Len(channel) < Capacity, NEW c \in sending, channel' = Append(channel, c.result)
        PROVE  Len(channel') <= Capacity
    <3>1. c.result \in Result  BY DEF IInv, DeliveryInv, Traffic
    <3>2. Len(channel') = Len(channel) + 1  BY <1>0, <2>3, <3>1
    <3>3. QED  BY <1>0, <2>3, <3>2
  <2>4. QED  BY <1>2, <2>1, <2>2, <2>3
<1>4. QED  BY <1>1, <1>3, StepLost DEF LinkInv

-----------------------------------------------------------------------------
(* The invariant and the theorems *)

BInv == IInv /\ MemoryInv /\ LinkInv

\* Nothing is recorded yet.
LEMMA InitBInv == Init => BInv
<1> SUFFICES ASSUME Init PROVE BInv
  OBVIOUS
<1>1. IInv  BY InitIInv
<1>2. Present = {} /\ IsFiniteSet(Present) /\ Cardinality(Present) = 0
  <2>1. Present = {}  BY DEF Init, Present
  <2>2. QED  BY <2>1, FS_EmptySet
<1>3. BytesOf(Present) = 0
  <2>1. BytesOf(Present) = SumFunctionOnSet(Weights, {})  BY <1>2 DEF BytesOf, Weights
  <2>2. QED  BY <2>1, SumEmpty
<1>4. Bounded  BY <1>2, <1>3 DEF Init, Bounded
<1>5. SentInTurn  BY <1>2 DEF Init, SentInTurn
<1>6. LinkInv  BY ResendAssumption DEF Init, LinkInv
<1>7. QED  BY <1>1, <1>2, <1>4, <1>5, <1>6 DEF BInv, MemoryInv

\* Every step keeps the invariant.
LEMMA NextBInv == BInv /\ [Next]_vars => BInv'
<1> SUFFICES ASSUME BInv, [Next]_vars PROVE BInv'
  OBVIOUS
<1>0. IInv /\ MemoryInv /\ LinkInv  BY DEF BInv
<1>1. IInv'  BY <1>0, NextIInv
<1>2. CASE Next  BY <1>0, <1>1, <1>2, StepAccounts, StepLink DEF BInv
<1>3. CASE UNCHANGED vars
  <2>1. MemoryInv'
    <3>1. UNCHANGED tracker /\ EntriesTyped  BY <1>0, <1>3 DEF vars, IInv, TrackerInv
    <3>2. QED  BY <1>0, <3>1, TrackerSame, SizesKeptAccounts
  <2>2. LinkInv'  BY <1>0, <1>3 DEF vars, link, store, LinkInv, Cause
  <2>3. QED  BY <1>1, <2>1, <2>2 DEF BInv
<1>4. QED  BY <1>2, <1>3

\* The invariant holds in every behaviour.
LEMMA BoundsInvariance == Spec => []BInv
<1>1. QED  BY InitBInv, NextBInv, PTL DEF Spec

\* The tracker's memory bounds (record and removeLocked in result_resend.go):
\* totalBytes is the size of what is recorded, and both bounds hold unless a single
\* result is larger than they allow.
THEOREM BoundedHolds == Spec => []Bounded
<1>1. BInv => Bounded  BY DEF BInv, MemoryInv
<1>2. QED  BY <1>1, BoundsInvariance, PTL

\* The eviction loop of record ends in every reachable state, and what it evicts is
\* determined: the fewest of the least recently sent records.
THEOREM EvictionDefinedHolds == Spec => []EvictionDefined
<1>1. BInv => EvictionDefined  BY LoopEnds DEF BInv, MemoryInv
<1>2. QED  BY <1>1, BoundsInvariance, PTL

\* Type correctness of the tracker, the channel, the connection and the outbox: the
\* sends are totally ordered, and neither channel nor outbox outgrows its limit.
THEOREM TypeCorrect == Spec => []TypeOK
<1>1. BInv => TypeOK
  <2> SUFFICES ASSUME BInv PROVE TypeOK
    OBVIOUS
  <2>1. /\ TrackerInv /\ Traffic /\ Files /\ SentInTurn /\ LinkInv
    BY DEF BInv, IInv, MemoryInv, DeliveryInv
  <2>2. \A i \in Id : entries[i] # None => entries[i] \in Entry
    BY <2>1 DEF TrackerInv, EntriesTyped
  <2>3. channel \in Seq(Result) /\ outbox \in Seq(Result)  BY <2>1 DEF Traffic, Files
  <2>4. ToSet(channel) \subseteq Result /\ ToSet(outbox) \subseteq Result  BY <2>3 DEF ToSet
  <2>5. QED
    BY <2>1, <2>2, <2>4
       DEF TypeOK, TrackerInv, FiringTyped, Traffic, Files, FilesBounded, Distinct, LinkInv
<1>2. QED  BY <1>1, BoundsInvariance, PTL

=============================================================================
